-------------------------------- MODULE Syntax --------------------------------
(* The syntax tree of ast/ast.go: what the parser builds, the compiler checks and *)
(* the executor evaluates.  Positions are left out, a missing child is None, and  *)
(* the value of a literal is a DTL value <<kind, ...>>.                           *)
EXTENDS Sequences

None == [node |-> "none"]

Lit(v) == [node |-> "literal", value |-> v]
Ident(n) == [node |-> "ident", name |-> n]
Binary(op, l, r) == [node |-> "binary", op |-> op, left |-> l, right |-> r]
Unary(op, x) == [node |-> "unary", op |-> op, operand |-> x]
If(c, t, e) == [node |-> "if", cond |-> c, then |-> t, else |-> e]
Match(s, arms) == [node |-> "match", subject |-> s, arms |-> arms]
Arm(p, b) == [pattern |-> p, body |-> b]
Pipe(i, f, args) == [node |-> "pipe", input |-> i, name |-> f, args |-> args]
Call(f, args) == [node |-> "call", name |-> f, args |-> args]
Lambda(ps, b) == [node |-> "lambda", params |-> ps, body |-> b]
Object(fs) == [node |-> "object", fields |-> fs]
Field(k, v) == [key |-> k, value |-> v]
Array(es) == [node |-> "array", elements |-> es]
Index(o, i) == [node |-> "index", object |-> o, index |-> i]
Access(o, f, opt) == [node |-> "access", object |-> o, field |-> f, optional |-> opt]
Try(e, d) == [node |-> "try", expr |-> e, default |-> d]
Coalesce(l, r) == [node |-> "coalesce", left |-> l, right |-> r]
Interpolated(ps) == [node |-> "interpolated", parts |-> ps]
Query(d, chain) == [node |-> "query", dataset |-> d, chain |-> chain]
For(v, i, it, b) == [node |-> "for", variable |-> v, counter |-> i, iterable |-> it, body |-> b]
Raise(m) == [node |-> "raise", message |-> m]
In(v, c) == [node |-> "in", value |-> v, collection |-> c]

\* The patterns of match arms.
LiteralPattern(v) == [pattern |-> "literal", value |-> v]
ComparisonPattern(op, e) == [pattern |-> "comparison", op |-> op, value |-> e]
RangePattern(l, h) == [pattern |-> "range", low |-> l, high |-> h]
WildcardPattern == [pattern |-> "wildcard"]

\* Statements.
Let(n, e) == [stmt |-> "let", name |-> n, value |-> e]
Return(e) == [stmt |-> "return", value |-> e]
ExprStmt(e) == [stmt |-> "expr", value |-> e]
Use(ns) == [stmt |-> "use", namespace |-> ns]

\* Types, parameters and functions.  NoType is the zero TypeNode.
Type(n, isArray, fs) == [name |-> n, isArray |-> isArray, fields |-> fs]
NoType == Type("", FALSE, <<>>)
RecordField(n, t, opt) == [name |-> n, type |-> t, optional |-> opt]
TypeDef(n, t) == [name |-> n, type |-> t]
Param(n, t, d, variadic) == [name |-> n, type |-> t, default |-> d, variadic |-> variadic]
Fn(n, ps, t, body, oneLiner, tds) ==
    [name |-> n, params |-> ps, returnType |-> t, body |-> body,
     isOneLiner |-> oneLiner, typeDefs |-> tds]
================================================================================
