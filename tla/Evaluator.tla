------------------------------- MODULE Evaluator -------------------------------
(* executor/executor.go: the value of a function's body.  An evaluation is a pure  *)
(* function of the tree and the scope; what it leaves behind besides its value is  *)
(* the debug log and, for the properties, the calls it made and whether it met the *)
(* depth limit.  Deadlines and contexts are modelled in CallLimits, the sharing of *)
(* scopes in Scopes: here a scope is a function from the names it can see to their *)
(* values.  A closure keeps the namespaces in force where it is written, which is  *)
(* what the code does as long as the use statements of a body stand before its     *)
(* closures: NameResolution has the bodies where they do not.                      *)
EXTENDS Values, Syntax

CONSTANTS Functions,   \* the user functions of the lookup: name to tree
          Builtins,    \* the arity of each builtin: name to [min, max], -1 for any
          HostResults, \* external: the value a host's builtin returns for each name
          MaxDepth     \* ExecConfig.MaxDepth

--------------------------------------------------------------------------------
(* Outcomes. *)

Ok(v) == [val |-> v, err |-> "", log |-> <<>>, calls |-> {}, limited |-> FALSE]
Fail(e) == [val |-> Null, err |-> e, log |-> <<>>, calls |-> {}, limited |-> FALSE]
Failed(o) == o.err # ""

\* The error of the depth limit; that the run met it is told even if a try hides it.
TooDeep == [Fail("max depth") EXCEPT !.limited = TRUE]

\* What follows an evaluation that did not fail.
After(o, p) ==
    [p EXCEPT !.log = o.log \o @, !.calls = o.calls \cup @, !.limited = o.limited \/ @]
Then(o, F(_)) == IF Failed(o) THEN o ELSE After(o, F(o.val))

Checked(v, e) == IF v = Fails THEN Fail(e) ELSE Ok(v)

--------------------------------------------------------------------------------
(* Activations: the scope, the depth, the namespaces of the use statements so far, *)
(* and the function whose text runs.                                              *)

Activation(env, depth, uses, fn) == [env |-> env, depth |-> depth, uses |-> uses, fn |-> fn]
Bind(ec, x, v) == [ec EXCEPT !.env = (x :> v) @@ @]
NoScope == [x \in {} |-> Null]

\* Positional arguments; a parameter without one stays unbound.
BindAll(env, names, args) ==
    FoldLeftDomain(LAMBDA sc, i : IF i <= Len(args) THEN (names[i] :> args[i]) @@ sc ELSE sc,
                   env, names)

\* checkLimits, without the clock and the context.
WithinLimits(ec, F(_)) == IF ec.depth > MaxDepth THEN TooDeep ELSE F(ec)

\* The keys that resolveViaUses tries for a name, in order.
Qualified(uses, name) ==
    FlattenSeq([i \in DOMAIN uses |->
        <<"app:" \o uses[i] \o "::" \o name, uses[i] \o "::" \o name>>])

Provided(key) == key \in DOMAIN Builtins \cup DOMAIN Functions

\* The spellings, in any case, that callFunction intercepts.
DebugNames == {"debug", "DEBUG"}
PrintNames == {"print", "PRINT"}

\* The entry that a call of debug or print leaves.
DebugEntry(name, args) ==
    IF name \in DebugNames /\ Len(args) >= 2 /\ Kind(args[1]) = "string"
    THEN [label |-> args[1][2], values |-> Tail(args)]
    ELSE [label |-> "", values |-> args]

--------------------------------------------------------------------------------
(* Record types: validateRecordArg and validateFieldType.                         *)

RECURSIVE ValidField(_, _)
ValidRecord(v, t) ==
    /\ Kind(v) = "object"
    /\ \A f \in ToSet(t.fields) :
          IF f.name \in DOMAIN v[2] /\ ~IsNull(v[2][f.name])
          THEN ValidField(v[2][f.name], f.type)
          ELSE f.optional

ValidField(v, t) ==
    IF t.isArray
    THEN Kind(v) = "array"
         /\ \A x \in ToSet(v[2]) : ValidField(x, Type(t.name, FALSE, t.fields))
    ELSE IF t.name = "record" /\ t.fields # <<>> THEN ValidRecord(v, t)
    ELSE CASE t.name = "string" -> Kind(v) = "string"
           [] t.name \in {"int", "float", "number"} -> IsNumber(v)
           [] t.name = "bool" -> Kind(v) = "bool"
           [] t.name = "object" -> Kind(v) = "object"
           [] OTHER -> TRUE

\* A parameter that is an array of records is checked as a record, too.
ValidArgument(v, t) == t.fields = <<>> \/ ValidRecord(v, t)

--------------------------------------------------------------------------------
(* Expressions. *)

RECURSIVE Eval(_, _)
RECURSIVE RunBody(_, _)

\* The values of the expressions in order, up to the first that fails.
EvalAll(ec, es) ==
    FoldLeft(LAMBDA o, e : Then(o, LAMBDA vs : Then(Eval(ec, e), LAMBDA v : Ok(Append(vs, v)))),
             Ok(<<>>), es)

EvalBinary(ec, e) ==
    CASE e.op = "&&" ->
            Then(Eval(ec, e.left), LAMBDA l : IF ~ToBool(l) THEN Ok(Bool(FALSE))
                ELSE Then(Eval(ec, e.right), LAMBDA r : Ok(Bool(ToBool(r)))))
      [] e.op = "||" ->
            Then(Eval(ec, e.left), LAMBDA l : IF ToBool(l) THEN Ok(Bool(TRUE))
                ELSE Then(Eval(ec, e.right), LAMBDA r : Ok(Bool(ToBool(r)))))
      [] OTHER ->
            Then(EvalAll(ec, <<e.left, e.right>>), LAMBDA lr :
              LET l == lr[1]  r == lr[2] IN
              CASE e.op = "++" \/ (e.op = "+" /\ "string" \in {Kind(l), Kind(r)}) ->
                      Ok(Str(ToText(l) \o ToText(r)))
                [] e.op \in {"+", "-", "*", "/", "%"} ->
                      Checked(Arith(e.op, l, r), "division by zero")
                [] e.op = "==" -> Ok(Bool(EqualValues(l, r)))
                [] e.op = "!=" -> Ok(Bool(~EqualValues(l, r)))
                [] OTHER -> Checked(CompareValues(e.op, l, r), "cannot compare"))

EvalUnary(ec, e) ==
    Then(Eval(ec, e.operand), LAMBDA v :
        Ok(IF e.op = "-" THEN Negate(v) ELSE Bool(~ToBool(v))))

EvalIf(ec, e) ==
    Then(Eval(ec, e.cond), LAMBDA c :
        IF ToBool(c) THEN Eval(ec, e.then)
        ELSE IF e.else = None THEN Ok(Null) ELSE Eval(ec, e.else))

\* A comparison of kinds that do not compare is no match; a failing operand fails.
Matches(ec, p, v) ==
    LET Holds(op, w) == CompareValues(op, v, w) = Bool(TRUE) IN
    CASE p.pattern = "wildcard" -> Ok(TRUE)
      [] p.pattern = "literal" -> Ok(EqualValues(v, p.value))
      [] p.pattern = "comparison" -> Then(Eval(ec, p.value), LAMBDA w : Ok(Holds(p.op, w)))
      [] p.pattern = "range" ->
            Then(EvalAll(ec, <<p.low, p.high>>), LAMBDA b :
                Ok(Holds(">=", b[1]) /\ Holds("<=", b[2])))

EvalMatch(ec, e) ==
    Then(Eval(ec, e.subject), LAMBDA v :
        LET arms[i \in 1 .. Len(e.arms) + 1] ==
                IF i > Len(e.arms) THEN Ok(Null)
                ELSE Then(Matches(ec, e.arms[i].pattern, v), LAMBDA yes :
                        IF yes THEN Eval(ec, e.arms[i].body) ELSE arms[i + 1])
        IN  arms[1])

--------------------------------------------------------------------------------
(* Calls. *)

\* lambdaClosure.Call: the closure's own depth, its own scope.
ApplyClosure(c, args) ==
    WithinLimits(Activation(BindAll(c.env, c.params, args), c.depth + 1, c.uses, c.fn),
                 LAMBDA ec : Eval(ec, c.body))

CallLambda(v, args) ==
    IF Kind(v) = "lambda" THEN ApplyClosure(v[2], args) ELSE Fail("expected lambda")

CallUser(ec, name, args) ==
    LET fn == Functions[name]
        BindParam(o, i) ==
            Then(o, LAMBDA child :
                IF i <= Len(args) THEN Ok(Bind(child, fn.params[i].name, args[i]))
                ELSE IF fn.params[i].default = None THEN Ok(child)
                ELSE Then(Eval(child, fn.params[i].default),
                          LAMBDA v : Ok(Bind(child, fn.params[i].name, v))))
    IN  WithinLimits(Activation(NoScope, ec.depth + 1, <<>>, name), LAMBDA child :
            Then(FoldLeftDomain(BindParam, Ok(child), fn.params),
                 LAMBDA bound : RunBody(bound, fn.body)))

\* The higher-order builtin map, one that fails on its own, and the host's.
RunBuiltin(name, args) ==
    CASE name = "map" ->
            IF Kind(args[1]) # "array" THEN Fail("not an array")
            ELSE Then(FoldLeft(LAMBDA o, x : Then(o, LAMBDA vs :
                                Then(CallLambda(args[2], <<x>>), LAMBDA v : Ok(Append(vs, v)))),
                               Ok(<<>>), args[1][2]),
                      LAMBDA vs : Ok(Arr(vs)))
      [] name = "count" ->
            Ok(Int64(IF Kind(args[1]) = "array" THEN Len(args[1][2])
                   ELSE IF IsNull(args[1]) THEN 0 ELSE 1))
      [] OTHER -> Ok(HostResults[name])

\* resolveViaUses runs what it finds without looking at the number of arguments.
ViaUses(ec, key, args) ==
    IF key \in DOMAIN Builtins THEN RunBuiltin(key, args) ELSE CallUser(ec, key, args)

CallBuiltin(name, args) ==
    LET arity == Builtins[name] IN
    IF Len(args) < arity.min THEN Fail("too few arguments")
    ELSE IF arity.max >= 0 /\ Len(args) > arity.max THEN Fail("too many arguments")
    ELSE RunBuiltin(name, args)

Called(ec, key, o) == [o EXCEPT !.calls = @ \cup {[by |-> ec.fn, key |-> key]}]

CallFunction(ec, name, args) ==
    LET found == SelectSeq(Qualified(ec.uses, name), Provided) IN
    CASE name \in DebugNames \cup PrintNames ->
            [Ok(IF args = <<>> THEN Null ELSE Last(args))
                EXCEPT !.log = <<DebugEntry(name, args)>>]
      [] found # <<>> -> Called(ec, found[1], ViaUses(ec, found[1], args))
      [] name \in DOMAIN Builtins -> Called(ec, name, CallBuiltin(name, args))
      [] name \in DOMAIN Functions -> Called(ec, name, CallUser(ec, name, args))
      [] OTHER -> Called(ec, name, Fail("function is not defined"))

EvalCall(ec, e) ==
    Then(EvalAll(ec, e.args), LAMBDA args : CallFunction(ec, e.name, args))

\* Mutant: the arguments come before what is piped into them.
EvalPipeArgsFirst(ec, e) ==
    Then(EvalAll(ec, e.args), LAMBDA args : Then(Eval(ec, e.input), LAMBDA input :
        CallFunction(ec, e.name, <<input>> \o args)))

EvalPipe(ec, e) ==
    Then(Eval(ec, e.input), LAMBDA input : Then(EvalAll(ec, e.args), LAMBDA args :
        IF e.name = "" /\ e.args # <<>> THEN Fail("pipe without function name")
        ELSE CallFunction(ec, e.name, <<input>> \o args)))

EvalQuery(ec, e) ==
    FoldLeft(LAMBDA o, pipe : Then(o, LAMBDA v :
                Then(EvalAll(ec, pipe.args), LAMBDA args :
                    CallFunction(ec, pipe.name, <<v>> \o args))),
             Then(Eval(ec, e.dataset), LAMBDA d : CallFunction(ec, "dataset::query", <<d>>)),
             e.chain)

--------------------------------------------------------------------------------
(* The other expressions. *)

EvalLambda(ec, e) ==
    Ok(Closure([params |-> e.params, body |-> e.body, env |-> ec.env,
                depth |-> ec.depth, uses |-> ec.uses, fn |-> ec.fn]))

EvalObject(ec, e) ==
    Then(EvalAll(ec, [i \in DOMAIN e.fields |-> e.fields[i].value]), LAMBDA vs :
        Ok(Obj(FoldLeftDomain(LAMBDA o, i : (e.fields[i].key :> vs[i]) @@ o, NoScope, vs))))

EvalArray(ec, e) == Then(EvalAll(ec, e.elements), LAMBDA vs : Ok(Arr(vs)))

FieldOf(v, k) == IF k \in DOMAIN v[2] THEN v[2][k] ELSE Null

EvalIndex(ec, e) ==
    Then(EvalAll(ec, <<e.object, e.index>>), LAMBDA oi :
        LET o == oi[1]  i == ToInt(oi[2]) IN
        CASE Kind(o) = "array" -> Ok(IF i \in 0 .. Len(o[2]) - 1 THEN o[2][i + 1] ELSE Null)
          [] Kind(o) = "object" -> Ok(FieldOf(o, ToText(oi[2])))
          [] OTHER -> Fail("cannot index"))

EvalFieldAccess(ec, e) ==
    Then(Eval(ec, e.object), LAMBDA o :
        CASE Kind(o) = "object" -> Ok(FieldOf(o, e.field))
          [] IsNull(o) /\ e.optional -> Ok(Null)
          [] OTHER -> Fail("cannot access field"))

\* An error leaves the log of what ran before it.
EvalTry(ec, e) ==
    LET o == Eval(ec, e.expr) IN
    IF ~Failed(o) THEN o
    ELSE After(o, IF e.default = None THEN Ok(Null) ELSE Eval(ec, e.default))

EvalCoalesce(ec, e) ==
    Then(Eval(ec, e.left), LAMBDA l : IF IsNull(l) THEN Eval(ec, e.right) ELSE Ok(l))

EvalInterpolated(ec, e) ==
    Then(EvalAll(ec, e.parts), LAMBDA vs :
        Ok(Str(FoldLeft(LAMBDA s, v : s \o ToText(v), "", vs))))

\* The counter is bound after the variable, and wins if they have one name.
ForScope(ec, e, item, i) ==
    LET inner == Bind(ec, e.variable, item) IN
    IF e.counter = "" THEN inner ELSE Bind(inner, e.counter, Int64(i))

EvalFor(ec, e) ==
    Then(Eval(ec, e.iterable), LAMBDA it :
        IF Kind(it) # "array" THEN Fail("not an array")
        ELSE Then(FoldLeftDomain(LAMBDA o, i : Then(o, LAMBDA vs :
                    Then(Eval(ForScope(ec, e, it[2][i], i - 1), e.body),
                         LAMBDA v : Ok(Append(vs, v)))), Ok(<<>>), it[2]),
                  LAMBDA vs : Ok(Arr(vs))))

EvalRaise(ec, e) == Then(Eval(ec, e.message), LAMBDA m : Fail("raise"))

EvalIn(ec, e) ==
    Then(EvalAll(ec, <<e.value, e.collection>>), LAMBDA vc :
        LET v == vc[1]  c == vc[2] IN
        Ok(Bool(CASE Kind(c) = "array" -> \E x \in ToSet(c[2]) : EqualValues(v, x)
                  [] Kind(c) = "object" -> ToText(v) \in DOMAIN c[2]
                  [] OTHER -> FALSE)))

EvalIdent(ec, e) ==
    IF e.name \in DOMAIN ec.env THEN Ok(ec.env[e.name]) ELSE [Fail("undefined variable") EXCEPT !.val = Str(e.name)]

EvalNode(ec, e) ==
    CASE e.node = "literal" -> Ok(e.value)
      [] e.node = "ident" -> EvalIdent(ec, e)
      [] e.node = "binary" -> EvalBinary(ec, e)
      [] e.node = "unary" -> EvalUnary(ec, e)
      [] e.node = "if" -> EvalIf(ec, e)
      [] e.node = "match" -> EvalMatch(ec, e)
      [] e.node = "pipe" -> EvalPipe(ec, e)
      [] e.node = "call" -> EvalCall(ec, e)
      [] e.node = "lambda" -> EvalLambda(ec, e)
      [] e.node = "object" -> EvalObject(ec, e)
      [] e.node = "array" -> EvalArray(ec, e)
      [] e.node = "index" -> EvalIndex(ec, e)
      [] e.node = "access" -> EvalFieldAccess(ec, e)
      [] e.node = "try" -> EvalTry(ec, e)
      [] e.node = "coalesce" -> EvalCoalesce(ec, e)
      [] e.node = "interpolated" -> EvalInterpolated(ec, e)
      [] e.node = "query" -> EvalQuery(ec, e)
      [] e.node = "for" -> EvalFor(ec, e)
      [] e.node = "raise" -> EvalRaise(ec, e)
      [] e.node = "in" -> EvalIn(ec, e)

Eval(ec, e) == WithinLimits(ec, LAMBDA within : EvalNode(within, e))

--------------------------------------------------------------------------------
(* Bodies and executions. *)

\* A statement's effect on the activation, and its value.
Step(ec, v) == Ok([ec |-> ec, val |-> v])
RunStmt(ec, s) ==
    CASE s.stmt = "let" -> Then(Eval(ec, s.value), LAMBDA v : Step(Bind(ec, s.name, v), Null))
      [] s.stmt \in {"return", "expr"} -> Then(Eval(ec, s.value), LAMBDA v : Step(ec, v))
      [] s.stmt = "use" -> Step([ec EXCEPT !.uses = Append(@, s.namespace)], Null)

\* execBody: every statement runs, those after a return too; the last one's value is
\* the body's.
RunBody(ec, body) ==
    Then(FoldLeft(LAMBDA o, s : Then(o, LAMBDA at :
                    WithinLimits(at.ec, LAMBDA within : RunStmt(within, s))),
                  Step(ec, Null), body),
         LAMBDA at : Ok(at.val))

\* ExecuteInto: arguments by name, defaults in the scope built so far, null without
\* either.
Execute(fn, args) ==
    LET BindParam(o, i) ==
            LET p == fn.params[i] IN
            Then(o, LAMBDA ec :
                IF p.name \in DOMAIN args
                THEN IF ValidArgument(args[p.name], p.type) THEN Ok(Bind(ec, p.name, args[p.name]))
                     ELSE Fail("invalid argument")
                ELSE IF p.default = None THEN Ok(Bind(ec, p.name, Null))
                ELSE Then(Eval(ec, p.default), LAMBDA v : Ok(Bind(ec, p.name, v))))
    IN  Then(FoldLeftDomain(BindParam, Ok(Activation(NoScope, 0, <<>>, fn.name)), fn.params),
             LAMBDA ec : RunBody(ec, fn.body))
================================================================================
