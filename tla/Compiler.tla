------------------------------- MODULE Compiler -------------------------------
(* compiler/compiler.go: what is checked before a function runs.  The result is    *)
(* the set of the errors, each a code and the name it is about, and the set of the *)
(* dependencies; positions and messages are left out.                             *)
EXTENDS Syntax, SequencesExt

CONSTANTS HasResolver, \* FALSE: only the text is checked
          Resolvable,  \* the names that the resolver knows
          Legacy,      \* the keys of legacyBuiltinRedirect
          Pipeline     \* the names that begin with $

Error(code, name) == [errs |-> {<<code, name>>}, deps |-> {}]
Depends(name) == [errs |-> {}, deps |-> {name}]
Clean == [errs |-> {}, deps |-> {}]
r1 ++ r2 == [errs |-> r1.errs \cup r2.errs, deps |-> r1.deps \cup r2.deps]
All(results) == FoldLeft(LAMBDA r1, r2 : r1 ++ r2, Clean, results)

--------------------------------------------------------------------------------
(* Scopes: the names defined here, those defined here or outside, and the types    *)
(* that typeOf finds.                                                              *)

EmptyScope == [local |-> {}, all |-> {}, types |-> [x \in {} |-> ""]]
Nested(sc) == [sc EXCEPT !.local = {}]

\* define: a name without a type leaves the type of an outer one to be found.
Define(sc, x) == [sc EXCEPT !.local = @ \cup {x}, !.all = @ \cup {x}]
DefineTyped(sc, x, t) ==
    LET defined == Define(sc, x) IN
    IF t = "" THEN defined ELSE [defined EXCEPT !.types = (x :> t) @@ @]

TypeOf(sc, x) == IF x \in DOMAIN sc.types THEN sc.types[x] ELSE ""

\* The scope of a lambda's or a loop's body.
InnerScope(sc, names) == FoldLeft(Define, Nested(sc), names)

NormalizeType(t) ==
    CASE t \in {"int", "float", "number"} -> "number"
      [] t \in {"string", "bool"} -> t
      [] t \in {"object", "record"} -> "object"
      [] OTHER -> ""

\* A type of the function's own is looked through once; of two with one name the last.
NormalizeParamType(typeDefs, t) ==
    LET named == SelectSeq(typeDefs, LAMBDA td : td.name = t.name) IN
    IF NormalizeType(t.name) # "" \/ named = <<>> THEN NormalizeType(t.name)
    ELSE NormalizeType(Last(named).type.name)

--------------------------------------------------------------------------------
(* Types of expressions. *)

RECURSIVE InferType(_, _)
InferType(sc, e) ==
    CASE e.node = "literal" ->
            IF e.value[1] \in {"int", "float"} THEN "number"
            ELSE IF e.value[1] \in {"string", "bool"} THEN e.value[1] ELSE ""
      [] e.node = "ident" -> TypeOf(sc, e.name)
      [] e.node = "binary" /\ e.op \in {"-", "*", "/", "%"} -> "number"
      [] e.node = "binary" /\ e.op = "+" ->
            LET types == {InferType(sc, e.left), InferType(sc, e.right)} IN
            IF "string" \in types THEN "string" ELSE IF "number" \in types THEN "number" ELSE ""
      [] e.node = "binary" /\ e.op = "++" -> "string"
      [] e.node = "binary" -> "bool"
      [] e.node = "unary" -> IF e.op = "-" THEN "number" ELSE "bool"
      [] e.node \in {"array", "object"} -> e.node
      [] e.node = "interpolated" -> "string"
      [] e.node = "if" -> InferType(sc, e.then)
      [] OTHER -> ""

CheckBinaryTypes(sc, e) ==
    LET types == <<InferType(sc, e.left), InferType(sc, e.right)>> IN
    IF \/ e.op \in {"-", "*", "/", "%"} /\ "string" \in ToSet(types)
       \/ e.op = "+" /\ types \in {<<"number", "string">>, <<"string", "number">>}
    THEN Error("type_mismatch", e.op) ELSE Clean

--------------------------------------------------------------------------------
(* Names of functions. *)

\* The keys that resolveFn tries after the bare name.
UsedKeys(uses, name) ==
    FlattenSeq([i \in DOMAIN uses |->
        <<"app:" \o uses[i] \o "::" \o name, uses[i] \o "::" \o name>>])

\* Mutant: what a namespace provides is recorded by its bare name.
ResolveFnRecordsBare(uses, name) ==
    IF \/ ~HasResolver
       \/ name \in Resolvable
       \/ \E i \in DOMAIN UsedKeys(uses, name) : UsedKeys(uses, name)[i] \in Resolvable
    THEN Depends(name) ELSE Error("unknown_function", name)

ResolveFn(uses, name) ==
    LET found == SelectSeq(UsedKeys(uses, name), LAMBDA key : key \in Resolvable) IN
    CASE name \in Legacy -> Error("deprecated_builtin", name) ++ Depends(name)
      [] ~HasResolver \/ name \in Resolvable -> Depends(name)
      [] found # <<>> -> Depends(found[1])
      [] OTHER -> Error("unknown_function", name) ++ Depends(name)

--------------------------------------------------------------------------------
(* Expressions. *)

RECURSIVE CheckExpr(_, _, _)
CheckAll(sc, uses, es) == All([i \in DOMAIN es |-> CheckExpr(sc, uses, es[i])])

CheckPattern(sc, uses, p) ==
    CASE p.pattern = "comparison" -> CheckExpr(sc, uses, p.value)
      [] p.pattern = "range" -> CheckAll(sc, uses, <<p.low, p.high>>)
      [] OTHER -> Clean

CheckMatch(sc, uses, e) ==
    All(<<CheckExpr(sc, uses, e.subject),
          All([i \in DOMAIN e.arms |-> CheckPattern(sc, uses, e.arms[i].pattern)
                                       ++ CheckExpr(sc, uses, e.arms[i].body)]),
          IF e.arms = <<>> \/ WildcardPattern \in {a.pattern : a \in ToSet(e.arms)} THEN Clean
          ELSE Error("match_not_exhaustive", "")>>)

\* The chain of a query: its arguments are checked, its functions are not resolved.
CheckQuery(sc, uses, e) ==
    CheckExpr(sc, uses, e.dataset)
    ++ All([i \in DOMAIN e.chain |->
              CheckAll(sc, uses, <<e.chain[i].input>> \o e.chain[i].args)])

CheckExpr(sc, uses, e) ==
    CASE e.node \in {"none", "literal"} -> Clean
      [] e.node = "ident" ->
            IF e.name \in Pipeline \cup sc.all THEN Clean ELSE Error("undefined_var", e.name)
      [] e.node = "binary" ->
            CheckAll(sc, uses, <<e.left, e.right>>) ++ CheckBinaryTypes(sc, e)
      [] e.node = "unary" -> CheckExpr(sc, uses, e.operand)
      [] e.node = "if" -> CheckAll(sc, uses, <<e.cond, e.then, e.else>>)
      [] e.node = "match" -> CheckMatch(sc, uses, e)
      [] e.node = "pipe" ->
            CheckAll(sc, uses, <<e.input>> \o e.args)
            ++ (IF e.name = "" THEN Clean ELSE ResolveFn(uses, e.name))
      [] e.node = "call" -> ResolveFn(uses, e.name) ++ CheckAll(sc, uses, e.args)
      [] e.node = "lambda" -> CheckExpr(InnerScope(sc, e.params), uses, e.body)
      [] e.node = "object" ->
            CheckAll(sc, uses, [i \in DOMAIN e.fields |-> e.fields[i].value])
      [] e.node = "array" -> CheckAll(sc, uses, e.elements)
      [] e.node = "index" -> CheckAll(sc, uses, <<e.object, e.index>>)
      [] e.node = "access" -> CheckExpr(sc, uses, e.object)
      [] e.node = "try" -> CheckAll(sc, uses, <<e.expr, e.default>>)
      [] e.node = "coalesce" -> CheckAll(sc, uses, <<e.left, e.right>>)
      [] e.node = "interpolated" -> CheckAll(sc, uses, e.parts)
      [] e.node = "query" -> CheckQuery(sc, uses, e)
      [] e.node = "for" ->
            CheckExpr(sc, uses, e.iterable)
            ++ CheckExpr(InnerScope(sc, IF e.counter = "" THEN <<e.variable>>
                                        ELSE <<e.variable, e.counter>>), uses, e.body)
      [] e.node = "raise" -> CheckExpr(sc, uses, e.message)
      [] e.node = "in" -> CheckAll(sc, uses, <<e.value, e.collection>>)

--------------------------------------------------------------------------------
(* Statements and functions. *)

\* Mutant: the name is defined before its value is checked.
CheckStmtDefinesFirst(at, s) ==
    CASE s.stmt = "let" ->
            LET scope == DefineTyped(at.scope, s.name, InferType(at.scope, s.value)) IN
            [at EXCEPT !.scope = scope, !.result = @ ++ CheckExpr(scope, at.uses, s.value)]
      [] s.stmt \in {"return", "expr"} ->
            [at EXCEPT !.result = @ ++ CheckExpr(at.scope, at.uses, s.value)]
      [] s.stmt = "use" -> [at EXCEPT !.uses = Append(@, s.namespace)]

\* checkStmt: the scope and the namespaces after a statement, and its result so far.
CheckStmt(at, s) ==
    CASE s.stmt = "let" ->
            [at EXCEPT !.scope = DefineTyped(@, s.name, InferType(at.scope, s.value)),
                       !.result = All(<<@, CheckExpr(at.scope, at.uses, s.value),
                            IF s.name \in at.scope.local
                            THEN Error("duplicate_variable", s.name) ELSE Clean>>)]
      [] s.stmt \in {"return", "expr"} ->
            [at EXCEPT !.result = @ ++ CheckExpr(at.scope, at.uses, s.value)]
      [] s.stmt = "use" -> [at EXCEPT !.uses = Append(@, s.namespace)]

\* Compile: parameters, then the body.  Defaults are not checked.
Compile(fn) ==
    LET scope == FoldLeft(LAMBDA sc, p : DefineTyped(sc, p.name,
                                            NormalizeParamType(fn.typeDefs, p.type)),
                          EmptyScope, fn.params)
        start == [scope |-> scope, uses |-> <<>>, result |-> Clean]
    IN  FoldLeft(CheckStmt, start, fn.body).result
================================================================================
