-------------------------------- MODULE Values --------------------------------
(* The text of DTL values, and the operators of the language that compare and       *)
(* calculate (executor/executor.go).                                                *)
EXTENDS Scalars

CONSTANT Texts   \* the texts of an instance, in Go's order of strings

--------------------------------------------------------------------------------
(* Texts. *)

Rank == [s \in Range(Texts) |-> CHOOSE i \in DOMAIN Texts : Texts[i] = s]
TextLess(s, t) == Rank[s] < Rank[t]
SortedTexts(S) == SetToSortSeq(S, TextLess)

Joined(texts) ==
    IF texts = <<>> THEN ""
    ELSE FoldLeft(LAMBDA s, t : s \o " " \o t, Head(texts), Tail(texts))

\* Go's %v.  A fraction is written n/d: equal numbers have equal texts.
RECURSIVE Printed(_)
Printed(v) ==
    CASE Kind(v) = "null" -> "<nil>"
      [] Kind(v) = "bool" -> IF v[2] THEN "true" ELSE "false"
      [] Kind(v) = "int" -> ToString(v[2])
      [] Kind(v) = "float" ->
            ToString(v[2]) \o (IF v[3] = 1 THEN "" ELSE "/" \o ToString(v[3]))
      [] Kind(v) = "string" -> v[2]
      [] Kind(v) = "array" -> "[" \o Joined([i \in DOMAIN v[2] |-> Printed(v[2][i])]) \o "]"
      [] Kind(v) = "object" ->
            LET keys == SortedTexts(DOMAIN v[2])
            IN  "map[" \o Joined([i \in DOMAIN keys |->
                                    keys[i] \o ":" \o Printed(v[2][keys[i]])]) \o "]"
      [] OTHER -> "0x1"

\* toString: null is empty, and an integral float shows that it is one.
ToText(v) ==
    CASE Kind(v) = "null" -> ""
      [] Kind(v) = "float" /\ v[3] = 1 -> ToString(v[2]) \o ".0"
      [] OTHER -> Printed(v)

--------------------------------------------------------------------------------
(* The operators of the language. *)

EqualValues(a, b) ==
    IF IsNull(a) \/ IsNull(b) THEN IsNull(a) /\ IsNull(b)
    ELSE IF IsNumber(a) /\ IsNumber(b) THEN ToFloat(a) = ToFloat(b)
    ELSE Printed(a) = Printed(b)

\* compareValues: numbers with numbers and strings with strings.
Compared(op, less, equal) ==
    Bool(CASE op = "<" -> less
           [] op = ">" -> ~less /\ ~equal
           [] op = "<=" -> less \/ equal
           [] op = ">=" -> ~less
           [] op = "==" -> equal
           [] op = "!=" -> ~equal)

CompareValues(op, a, b) ==
    IF IsNumber(a) /\ IsNumber(b)
    THEN Compared(op, NumberLess(a, b), ToFloat(a) = ToFloat(b))
    ELSE IF Kind(a) = "string" /\ Kind(b) = "string"
    THEN Compared(op, TextLess(a[2], b[2]), a = b)
    ELSE Fails

\* evalArith: integers with integers wrap, everything else becomes a float.
IntArith(op, a, b) ==
    CASE op = "+" -> Int64(Wrap(a + b))
      [] op = "-" -> Int64(Wrap(a - b))
      [] op = "*" -> Int64(Wrap(a * b))
      [] b = 0 -> Fails
      [] op = "/" -> Int64(Wrap(Quot(a, b)))
      [] op = "%" -> Int64(Rem(a, b))

FloatArith(op, x, y) ==
    CASE op = "+" -> Add(x, y)
      [] op = "-" -> Sub(x, y)
      [] op = "*" -> Mul(x, y)
      [] y[2] = 0 -> Fails
      [] op = "/" -> Div(x, y)
      [] op = "%" -> Float(Rem(x[2] * y[3], y[2] * x[3]), x[3] * y[3])

Arith(op, a, b) ==
    IF Kind(a) = "int" /\ Kind(b) = "int" THEN IntArith(op, a[2], b[2])
    ELSE FloatArith(op, ToFloat(a), ToFloat(b))

Negate(v) ==
    IF Kind(v) = "int" THEN Int64(Wrap(-v[2]))
    ELSE LET x == ToFloat(v) IN Float(-x[2], x[3])
================================================================================
