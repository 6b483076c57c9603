------------------------------- MODULE Programs -------------------------------
(* registry.ExecuteInline, and registry.Register with registry.Execute after it: a  *)
(* text is parsed, the tree is compiled, and what compiled is executed.  The parser, *)
(* the compiler's walk over the tree and the executor's are three programs that have *)
(* to agree on one language: the properties say what each promises the next.        *)
EXTENDS Evaluator, Notation

CONSTANTS HasResolver, Resolvable, Legacy, Pipeline,
          Sources,       \* the functions whose texts are registered
          ArgumentMaps,  \* the arguments they are called with
          Reads,         \* the parser, from tokens: Parse of Parser
          Compiles,      \* the compiler, from trees: Compile of Compiler
          Runs           \* the executor, from trees and arguments: Execute of Evaluator

C == INSTANCE Compiler

VARIABLES text,      \* the tokens of the source
          pc,        \* "written", "parsed", "compiled", "refused" or "ended"
          source,    \* the tree, NoTree until there is one
          compiled,  \* the compiler's errors and dependencies
          outcome    \* the outcome of the execution

vars == <<text, pc, source, compiled, outcome>>

NoTree == Fn("", <<>>, NoType, <<>>, FALSE, <<>>)

Init ==
    /\ \E fn \in Sources : text = WrittenFunction(fn, Plain)
    /\ pc = "written"
    /\ source = NoTree
    /\ compiled = C!Clean
    /\ outcome = Ok(Null)

\* A text with an error goes no further.
ParseSource ==
    /\ pc = "written"
    /\ LET r == Reads[text] IN
        /\ source' = r.node
        /\ pc' = IF r.p.errors = <<>> THEN "parsed" ELSE "refused"
    /\ UNCHANGED <<text, compiled, outcome>>

\* Nor does a tree with one.
CompileSource ==
    /\ pc = "parsed"
    /\ compiled' = Compiles[source]
    /\ pc' = IF compiled'.errs = {} THEN "compiled" ELSE "refused"
    /\ UNCHANGED <<text, source, outcome>>

ExecuteSource ==
    /\ pc = "compiled"
    /\ \E args \in ArgumentMaps : outcome' = Runs[source, args]
    /\ pc' = "ended"
    /\ UNCHANGED <<text, source, compiled>>

Next == ParseSource \/ CompileSource \/ ExecuteSource

Spec == Init /\ [][Next]_vars

--------------------------------------------------------------------------------
(* What the properties speak of. *)

Ended == pc = "ended"

\* The expressions right below e, a query's chain included.
PatternParts(p) ==
    CASE p.pattern = "comparison" -> {p.value}
      [] p.pattern = "range" -> {p.low, p.high}
      [] OTHER -> {}

Parts(e) ==
    CASE e.node \in {"none", "literal", "ident"} -> {}
      [] e.node \in {"binary", "coalesce"} -> {e.left, e.right}
      [] e.node = "unary" -> {e.operand}
      [] e.node = "if" -> {e.cond, e.then, e.else}
      [] e.node = "match" ->
            {e.subject} \cup UNION {{a.body} \cup PatternParts(a.pattern) : a \in ToSet(e.arms)}
      [] e.node = "pipe" -> {e.input} \cup ToSet(e.args)
      [] e.node = "call" -> ToSet(e.args)
      [] e.node = "lambda" -> {e.body}
      [] e.node = "object" -> {f.value : f \in ToSet(e.fields)}
      [] e.node = "array" -> ToSet(e.elements)
      [] e.node = "index" -> {e.object, e.index}
      [] e.node = "access" -> {e.object}
      [] e.node = "try" -> {e.expr, e.default}
      [] e.node = "interpolated" -> ToSet(e.parts)
      [] e.node = "query" -> {e.dataset} \cup ToSet(e.chain)
      [] e.node = "for" -> {e.iterable, e.body}
      [] e.node = "raise" -> {e.message}
      [] e.node = "in" -> {e.value, e.collection}

RECURSIVE Nodes(_)
Nodes(e) == {e} \cup UNION {Nodes(p) : p \in Parts(e)}

Exprs(body) == {body[i].value : i \in {j \in DOMAIN body : body[j].stmt # "use"}}
BodyNodes(fn) == UNION {Nodes(e) : e \in Exprs(fn.body)}
NamesIn(S) == {e.name : e \in {x \in S : x.node = "ident"}}

\* Defaults are evaluated but not compiled: those that speak only of the parameters
\* before them, and call nothing.
DefaultsClosed(fn) ==
    \A i \in DOMAIN fn.params :
        LET nodes == Nodes(fn.params[i].default) IN
        /\ NamesIn(nodes) \subseteq {fn.params[j].name : j \in 1 .. i - 1}
        /\ \A e \in nodes : e.node \notin {"call", "pipe", "query"}

\* A name that is a function by itself and in a namespace that the body uses: the
\* compiler takes the one and the executor the other (NameResolution).
TwoMeanings(fn) ==
    LET uses == [i \in DOMAIN SelectSeq(fn.body, LAMBDA s : s.stmt = "use") |->
                    SelectSeq(fn.body, LAMBDA s : s.stmt = "use")[i].namespace]
    IN  \E e \in BodyNodes(fn) :
            /\ e.node \in {"call", "pipe"}
            /\ e.name \in Resolvable
            /\ \E i \in DOMAIN Qualified(uses, e.name) : Provided(Qualified(uses, e.name)[i])

--------------------------------------------------------------------------------
(* Properties. *)

\* The parameters that a call may leave without a value: the compiler compares no
\* arguments with parameters, and the executor binds those it is given.
MaybeUnbound(fn) ==
    {p.name : p \in {q \in UNION {ToSet(Functions[f].params) : f \in DOMAIN Functions} :
                        q.default = None}}
    \cup UNION {ToSet(e.params) : e \in {l \in BodyNodes(fn) : l.node = "lambda"}}

\* A function that compiled never stops at a let, a loop's variable or its own parameter
\* without a value: the scopes that the compiler builds are those the executor builds, in
\* every order of evaluation.  Only a parameter that a call gave no argument for can be
\* missing.  Defaults are not compiled, and a name with $ needs no definition.
NoUndefinedVariable ==
    /\ Ended
    /\ DefaultsClosed(source)
    /\ NamesIn(BodyNodes(source)) \cap Pipeline = {}
    /\ outcome.err = "undefined variable"
    => outcome.val[2] \in MaybeUnbound(source)

\* What a function calls while it runs, wherever in its text the call stands, is among
\* the dependencies that the compiler recorded: install order relies on them.  The
\* host's dataset::query is not recorded for a query, and of a name with two meanings the
\* other one is.
CallsAreDependencies ==
    Ended /\ DefaultsClosed(source) /\ ~TwoMeanings(source)
    => {c.key : c \in {k \in outcome.calls : k.by = source.name}} \ {"dataset::query"}
       \subseteq compiled.deps

\* The same run without the calls it is told apart by.
SameRun(o, p) == o.val = p.val /\ o.err = p.err /\ o.log = p.log /\ o.limited = p.limited

Not(e) == Unary("!", e)

\* Other ways of writing an expression, by what the evaluator does with each.  SPEC.md
\* has only the pipe's (154-156).
Spelled(e) ==
    CASE e.node = "pipe" -> {Call(e.name, <<e.input>> \o e.args)}
      [] e.node = "query" -> {Call("dataset::query", <<e.dataset>>)}
      [] e.node = "binary" /\ e.op = "&&" ->
            {If(e.left, Not(Not(e.right)), Lit(Bool(FALSE))),
             Not(Binary("||", Not(e.left), Not(e.right)))}
      [] e.node = "binary" /\ e.op = "||" -> {If(e.left, Lit(Bool(TRUE)), Not(Not(e.right)))}
      [] e.node = "match" /\ Len(e.arms) = 2 /\ e.arms[1].pattern.pattern = "literal"
                          /\ e.arms[2].pattern = WildcardPattern ->
            {If(Binary("==", e.subject, Lit(e.arms[1].pattern.value)),
                e.arms[1].body, e.arms[2].body)}
      [] OTHER -> {}

\* The loop as a map.  The body of a lambda runs one level deeper than that of a loop.
SpelledAsMap(e) ==
    IF e.node = "for" /\ e.counter = ""
    THEN {Call("map", <<e.iterable, Lambda(<<e.variable>>, e.body)>>)} ELSE {}

\* A pipe and a query are calls, && and || and a match on a literal are conditionals:
\* the same value or error, the same debug output in the same order, and the depth
\* limit met by the one if by the other.  So is a loop a map, unless the map meets the
\* depth limit, which the loop need not do in its place: a chain of calls that just
\* fits below a loop is too deep below a lambda.
SpellingsAgree ==
    Ended => \A i \in DOMAIN source.body :
        source.body[i].stmt # "use" =>
        LET RunWith(e, args) == Runs[[source EXCEPT !.body[i].value = e], args] IN
        \A args \in ArgumentMaps :
            /\ \A e \in Spelled(source.body[i].value) :
                  SameRun(Runs[source, args], RunWith(e, args))
            /\ \A e \in SpelledAsMap(source.body[i].value) :
                  RunWith(e, args).limited \/ SameRun(Runs[source, args], RunWith(e, args))
================================================================================
