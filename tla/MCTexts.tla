------------------------------- MODULE MCTexts -------------------------------
(* Instances of Texts: every expression inside every place of every other, twice. *)
EXTENDS Texts

\* The parser as a function of the tokens.
MCReads == LET read == [ts \in Any |-> ParseExpression(ts)] IN read
MCReadsFunction == LET read == [ts \in Any |-> Parse(ts)] IN read

MCNoTexts == <<>>

N(n) == Lit(Int64(n))
S(t) == Lit(Str(t))
X == Ident("x")
Y == Ident("y")

\* The names that can be typed, and how.
Longer(names) == {<<n[1] \o "::x", n[2] \o <<Tok("::"), Name("x")>> >> : n \in names}
Twice(names) == Longer(names) \cup Longer(Longer(names))
TypedNames == LET names == Twice({<<"x", <<Name("x")>> >>,
                                  <<"x:x", <<Name("x"), Tok(":"), Name("x")>> >>})
              IN  names \cup Twice(names)

MCSegments ==
    [name \in {n[1] : n \in TypedNames} |-> (CHOOSE n \in TypedNames : n[1] = name)[2]] @@
    "m::f" :> <<Name("m"), Tok("::"), Name("f")>>
    @@ "team:m::f" :> <<Name("team"), Tok(":"), Name("m"), Tok("::"), Name("f")>>
    @@ "dataset::query" :> <<Name("dataset"), Tok("::"), Tok("query")>>
    @@ "a.b" :> <<Name("a"), Tok("."), Name("b")>>

MCStyles ==
    {[lambda |-> l[1], words |-> l[2], short |-> l[3], lines |-> l[4]] :
        l \in {<<"bare", TRUE, FALSE, "level">>, <<"parens", FALSE, TRUE, "level">>,
               <<"fn", TRUE, TRUE, "none">>, <<"bare", FALSE, FALSE, "none">>,
               <<"bare", FALSE, TRUE, "indented">>}}

Shorthand(op, e) == Lambda(<<ImplicitLambdaParam>>, Binary(op, Ident(ImplicitLambdaParam), e))

\* The expressions with e in one of their places.
Around(e) ==
    {Binary(op, e, Y) : op \in {"||", "&&", "==", "+", "*", "++"}}
    \cup {Binary(op, Y, e) : op \in {"||", "&&", "<", "-", "/", "%"}}
    \cup {Unary(op, e) : op \in {"!", "-"}}
    \cup {Coalesce(e, Y), Coalesce(Y, e), In(e, Y), In(Y, e)}
    \cup {Pipe(e, "f", <<>>), Pipe(Y, "m::f", <<e, N(1)>>), Pipe(e, "", <<N(2)>>),
          Pipe(Y, "f", <<Shorthand(">", e)>>)}
    \cup {If(e, X, Y), If(X, e, None), If(X, e, Y), If(X, Y, e)}
    \cup {Match(e, <<Arm(LiteralPattern(Int64(1)), Y), Arm(WildcardPattern, X)>>),
          Match(X, <<Arm(ComparisonPattern("==", Y), e), Arm(ComparisonPattern(">", Y), e)>>),
          Match(X, <<Arm(RangePattern(N(0), Y), Y), Arm(LiteralPattern(Null), e)>>),
          Match(X, <<Arm(ComparisonPattern("==", Call("f", <<e>>)), Lambda(<<"x">>, e))>>)}
    \cup {Call("f", <<e>>), Call("team:m::f", <<X, e>>), Query(e, <<>>),
          Call("f", <<Shorthand("!=", e), e>>)}
    \cup {Lambda(<<>>, e), Lambda(<<"x">>, e), Lambda(<<"x", "y">>, e)}
    \cup {Object(<<Field("a", e), Field("if", Y)>>), Array(<<e>>), Array(<<X, e>>)}
    \cup {Index(e, X), Index(X, e), Access(e, "a", FALSE), Access(e, "a", TRUE)}
    \cup {Try(e, None), Try(e, Y), Try(X, e), Raise(e)}
    \cup (IF e = S("a") THEN {} ELSE {Interpolated(<<S("a"), e>>), Interpolated(<<e, S("a"), Y>>)})
    \cup {For("x", "", e, Y), For("x", "i", Y, e), For("x", "", X, e)}

Leaves == {X, N(1), S("a"), Lit(Null), Lit(Bool(TRUE)), Lit(Float(1, 2)), Call("f", <<>>),
           Array(<<>>), Object(<<>>), Lambda(<<>>, X), Ident("m::f")}
Once == UNION {Around(e) : e \in Leaves}
MCTrees == Leaves \cup Once \cup UNION {Around(e) : e \in UNION {Around(d) : d \in {X}}}

Number(isArray) == Type("int", isArray, <<>>)
Pair(isArray) ==
    Type("record", isArray, <<RecordField("a", Number(FALSE), FALSE),
                              RecordField("type", Type("T", TRUE, <<>>), TRUE)>>)

\* Functions around the expressions of one level: as a line, and as a block.
MCFunctions ==
    {Fn("f", ps, Number(FALSE), <<ExprStmt(e)>>, TRUE, <<>>) :
        ps \in {<<>>, <<Param("x", Number(TRUE), X, FALSE), Param("type", Pair(FALSE), None, TRUE)>>},
        e \in Around(X)}
    \cup {Fn("f", <<Param("x", Pair(TRUE), e, FALSE)>>, Pair(FALSE),
              <<Use("a.b"), Let("y", e), ExprStmt(e), Return(Y)>>, FALSE,
              <<TypeDef("T", Pair(FALSE))>>) : e \in Around(X)}

MCPhrases ==
    {<<Name("x")>>, <<<<"int", 1>>>>, <<Tok("|"), Name("x")>>, <<Tok("::"), Name("x")>>,
     <<Tok("match"), Name("x"), Tok(":"), Tok("when")>>, <<Tok("when"), Name("_")>>,
     <<Tok("if"), Name("x"), Tok("then")>>, <<Tok("else"), Name("x")>>,
     <<Tok("for"), Name("x"), Tok("in")>>, <<Tok("{"), Name("x"), Tok(":")>>}
    \cup {<<Tok(t)>> : t \in {"(", ")", ",", "=>", "-", "<", "..", ":", "}", "[", "]"}}
================================================================================
