------------------------------ MODULE MCPrograms ------------------------------
(* Instances of Programs: functions of one to three statements whose expressions      *)
(* have two or three levels, chosen so that names, debug output and errors meet.     *)
EXTENDS Programs

\* The three programs as functions.
MCReads == LET reads == [ts \in Any |-> Parse(ts)] IN reads
MCCompiles == LET compiles == [fn \in Any |-> C!Compile(fn)] IN compiles
MCRuns == LET runs == [call \in Any |-> Execute(call[1], call[2])] IN runs

N(n) == Lit(Int64(n))
T(s) == Lit(Str(s))
X == Ident("x")
Y == Ident("y")
Say(e) == Call("debug", <<T("a"), e>>)
List == Array(<<N(0), N(1)>>)

MCTexts == <<"", "0", "1", "2", "a", "b">>
MCBuiltins ==
    "map" :> [min |-> 2, max |-> 2] @@ "count" :> [min |-> 1, max |-> 1]
    @@ "dataset::query" :> [min |-> 1, max |-> 1] @@ "m::sign" :> [min |-> 2, max |-> 2]
MCHostResults ==
    "dataset::query" :> Arr(<<Int64(1), Int64(0)>>) @@ "m::sign" :> Int64(1)

Untyped == Type("any", FALSE, <<>>)
P(n) == Param(n, Untyped, None, FALSE)
MCSegments == "dataset::query" :> <<Name("dataset"), Tok("::"), Tok("query")>>
MCFunctions ==
    "pair" :> Fn("pair", <<P("p"), Param("q", Untyped, Ident("p"), FALSE), P("r")>>, Untyped,
                 <<ExprStmt(Array(<<Ident("p"), Ident("q"), Say(Ident("r"))>>))>>, TRUE, <<>>)
    @@ "app:n::each" :> Fn("app:n::each", <<P("p"), P("f")>>, Untyped,
                 <<Let("k", Call("count", <<Ident("p")>>)),
                   Return(Pipe(Ident("p"), "map", <<Ident("f")>>))>>, FALSE, <<>>)
    @@ "again" :> Fn("again", <<P("p")>>, Untyped,
                 <<ExprStmt(Call("again", <<Ident("p")>>))>>, TRUE, <<>>)
    @@ "down" :> Fn("down", <<P("p")>>, Untyped,
                 <<ExprStmt(If(Binary("<", Ident("p"), N(1)), Ident("p"),
                               Call("down", <<Binary("-", Ident("p"), N(1))>>)))>>, TRUE, <<>>)

MCResolvable == DOMAIN MCBuiltins \cup DOMAIN MCFunctions \cup {"debug"}

--------------------------------------------------------------------------------

Leaves == {N(0), N(1), Lit(Null), T("a"), X, Y, Say(X), Raise(T("b"))}

Operators == {"&&", "||", "==", "!=", "<", ">=", "+", "-", "*", "/", "%", "++"}

Arms(p, a, b) == <<Arm(p, a), Arm(WildcardPattern, b)>>
Patterns == {LiteralPattern(Int64(0)), LiteralPattern(Null), ComparisonPattern(">", Say(N(0))),
             RangePattern(N(0), X), WildcardPattern}

\* One operation on operands of S.
Over(S) ==
    {Binary(op, a, b) : op \in Operators, a \in S, b \in S}
    \cup {Unary(op, a) : op \in {"-", "!"}, a \in S}
    \cup {If(a, b, c) : a \in S, b \in S, c \in {None, Say(N(1)), Y}}
    \cup {Match(a, Arms(p, b, Say(N(1)))) : p \in Patterns, a \in S, b \in S}
    \cup {Match(a, <<Arm(LiteralPattern(Int64(1)), b)>>) : a \in S, b \in S}
    \cup {Try(a, d) : a \in S, d \in S \cup {None}}
    \cup {Coalesce(a, b) : a \in S, b \in S}
    \cup {Interpolated(<<a, T("b"), b>>) : a \in S \ {T("a")}, b \in S \ {T("a")}}
    \cup {In(a, c) : a \in S, c \in {List, Object(<<Field("a", N(1))>>), X}}
    \cup {Index(c, a) : a \in S, c \in {List, Object(<<Field("a", N(1))>>), X}}
    \cup {Access(o, "a", opt) : o \in {X, Lit(Null), Object(<<Field("a", Say(X)), Field("a", Y)>>)},
                                opt \in BOOLEAN}
    \cup {Array(<<a, b>>) : a \in S, b \in S}
    \cup {Call(f, <<a>>) : f \in {"count", "pair", "again", "map", "none", "old"}, a \in S}
    \cup {Pipe(a, f, <<b>>) : f \in {"pair", "count", "map", "sign"}, a \in S, b \in S}

\* A chain of MaxDepth calls: it fits below a function's body, and not below a lambda.
Fits == Call("down", <<N(2)>>)

\* What a loop or a lambda does with its variable.
Inside == {Y, X, Say(Y), Binary("+", X, Y), Binary("/", N(1), Y), Call("sign", <<Y, X>>),
           For("y", "x", List, Array(<<X, Y>>)), Call("map", <<List, Lambda(<<"x">>, Say(Y))>>),
           Try(Binary("/", N(1), Y), Say(Y)), Ident("$p"), Call("again", <<Say(Y)>>),
           Fits, Try(Fits, Say(Y))}

Loops ==
    {For("y", i, it, b) : i \in {"", "k", "y"}, it \in {List, X, Say(List)}, b \in Inside}
    \cup {Call("map", <<it, Lambda(ps, b)>>) : ps \in {<<"y">>, <<"y", "x">>},
                                                it \in {List, X}, b \in Inside}
    \cup {Call("each", <<List, Lambda(<<"y">>, b)>>) : b \in Inside}

Queries == {Query(T("a"), <<>>), Pipe(Query(Say(X), <<>>), "map", <<Lambda(<<"y">>, Say(Y))>>)}

Body(before, e) == before \o <<ExprStmt(e)>>
Function(ps, body) == Fn("f", ps, Untyped, body, FALSE,
                         <<TypeDef("R", Type("record", FALSE, <<>>))>>)

Number == Type("int", FALSE, <<>>)
Record == Type("record", FALSE, <<RecordField("a", Type("int", TRUE, <<>>), FALSE),
                                  RecordField("b", Type("string", FALSE, <<>>), TRUE)>>)

MCSources ==
    {Function(<<P("x")>>, Body(<<>>, e)) : e \in Over(Leaves)}
    \cup {Function(<<P("x")>>, Body(before, e)) :
            before \in {<<>>, <<Use("n"), Use("m")>>, <<Let("k", Say(N(1))), Let("z", X)>>},
            e \in Loops \cup Queries}
    \cup {Function(<<P("x")>>, <<Let("y", e), s, Return(Binary("+", X, Y))>>) :
            e \in Leaves, s \in {Let("y", X), Return(Y), ExprStmt(Say(Y)), Let("z", Y)}}
    \cup {Function(<<Param("x", t, None, FALSE), Param("y", t, d, FALSE)>>, Body(<<>>, e)) :
            t \in {Number, Record, Type("R", FALSE, <<>>)}, d \in {None, X, Ident("w"), Say(X)},
            e \in {Binary("+", X, T("a")), Say(Y), Binary("-", Y, T("a"))}}

MCArgumentMaps ==
    {[n \in {} |-> Null]}
    \cup {[n \in {"x"} |-> v] :
        v \in {Int64(1), Str("a"), Arr(<<Int64(1)>>), Obj([k \in {"a"} |-> Arr(<<Int64(1)>>)])}}
================================================================================
