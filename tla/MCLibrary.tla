------------------------------ MODULE MCLibrary ------------------------------
(* Instances of Library: lists of numbers and other scalars, with the extremes of a       *)
(* six-bit integer, of which one call is made, and nested documents, of which two are.    *)
EXTENDS Library

N(n) == Int64(n)
Record2(a, x, b, y) == Obj([k \in {a, b} |-> IF k = a THEN x ELSE y])
Record1(a, x) == Obj([k \in {a} |-> x])

MCTexts ==
    <<"", "-1", "0", "0.a.a", "0.a.b", "0.b", "1", "2", "31", "<nil>", "a", "a.a", "a.a.a", "a.a.b",
      "a.b", "a.b.a.a", "a.b.a.b", "a.b.b", "b", "b.0", "b.0.a.a", "b.0.a.b", "key", "value">>
MCApply(f, args) ==
    CASE f[2] = "same" -> args[1]
      [] f[2] = "kind" -> IF Kind(args[1]) = "int" THEN Str("a") ELSE Null
      [] f[2] = "less" -> IF IsNumber(args[1]) THEN Bool(NumberLess(args[1], N(1))) ELSE Fails

MCLambdas == {Closure("same"), Closure("kind"), Closure("less")}
MCNumbers == {MinInt, -1, 0, 1, 2, 30, MaxInt}

Scalars == {N(1), Float(1, 1), N(2), Str("1"), Null, N(MaxInt), N(-1)}
Lists ==
    {Arr(s) : s \in SeqOf(Scalars, 2) \cup SeqOf({N(1), Float(1, 1), N(2), N(-1)}, 3)}
    \cup {Arr(<<N(a), N(b), N(c)>>) : a, c \in {MinInt, -1, 0, 2, MaxInt}, b \in {-20, -1, 1, 3, 30}}
    \cup {Arr(<<N(0), Str(""), N(2), N(1), Null>>)}
Trees ==
    {Arr(<<N(2), Arr(<<N(1), Null>>), N(0)>>),
     Record2("a", Record1("b", N(1)), "b", Arr(<<N(1), Record1("a", Null)>>)),
     Record2("a.b", N(2), "a", Record2("a", Empty, "b", Str("a")))}
MCDocuments == Lists \cup Trees
MCMaxHeld(v) == IF v \in Trees THEN 3 ELSE 2
MCIndices == {-1, 1, 2}
MCWays == {<<"a">>, <<"a", "b">>, <<"b", "0">>, <<"0">>}
MCKeySets == {Arr(<<Str("a")>>)}
================================================================================
