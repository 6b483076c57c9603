-------------------------------- MODULE Parser --------------------------------
(* parser/parser.go: from the lexer's tokens to a tree, by recursive descent.  A  *)
(* token is a pair of its type and its value; the type of a keyword, an operator  *)
(* or a bracket is its text.  The value of a number is the number, the rest is    *)
(* text.  A parser is the tokens, the place of the next one, the places where     *)
(* errors were reported, and inPattern; messages and positions are left out.      *)
EXTENDS Values, Syntax, TLC

Tok(t) == <<t, t>>
Name(x) == <<"ident", x>>
Eof == <<"eof", "">>

Parsing(tokens) == [tokens |-> tokens, pos |-> 1, errors |-> <<>>, inPattern |-> FALSE]

\* What a function of the parser returns: a node, and the parser after it.
Read(node, p) == [node |-> node, p |-> p]

--------------------------------------------------------------------------------
(* Navigation. *)

PeekAhead(p, n) == IF p.pos + n <= Len(p.tokens) THEN p.tokens[p.pos + n] ELSE Eof
At(p, types) == PeekAhead(p, 0)[1] \in types
Val(p) == PeekAhead(p, 0)[2]

Advance(p) == [p EXCEPT !.pos = @ + 1]
AddError(p) == [p EXCEPT !.errors = Append(@, p.pos)]

\* Mutant: a missing token is passed over in silence.
ExpectQuietly(p, type) == IF At(p, {type}) THEN Advance(p) ELSE p

\* A token that is not the one expected stays; its value is used all the same.
Expect(p, type) == IF At(p, {type}) THEN Advance(p) ELSE AddError(p)
ExpectName(p) == IF At(p, {"type"}) THEN Advance(p) ELSE Expect(p, "ident")

RECURSIVE Skip(_, _)
Skip(p, types) == IF At(p, types) THEN Skip(Advance(p), types) ELSE p
SkipNewlines(p) == Skip(p, {"newline"})
SkipLayout(p) == Skip(p, {"newline", "indent", "dedent"})

\* Items separated by commas, until one of the closers or an item without a comma.
CommaList(p, closers, Item(_), Between(_)) ==
    LET more[list \in Any] ==
            IF At(list.p, closers) THEN list
            ELSE LET item == Item(list.p)
                     items == Append(list.node, item.node)
                     q == Between(item.p)
                 IN  IF At(q, {","}) THEN more[Read(items, Between(Advance(q)))]
                     ELSE Read(items, q)
    IN  more[Read(<<>>, Between(p))]

RECURSIVE ParseExpr(_)
RECURSIVE ParsePrimary(_)
RECURSIVE ParseBlock(_)

--------------------------------------------------------------------------------
(* Names, arguments and lambdas. *)

\* a::b, and prefix:scope::b if all of it is there.
ParseFunctionName(p) ==
    LET segments[r \in Any] ==
            IF ~At(r.p, {"::"}) THEN r
            ELSE LET q == Advance(r.p) IN
                 IF At(q, {"ident", "query"})
                 THEN segments[Read(r.node \o "::" \o Val(q), Advance(q))]
                 ELSE Read(r.node, Expect(q, "ident"))
        first == Advance(p)
        scoped == /\ At(first, {":"})
                  /\ At(Advance(first), {"ident"})
                  /\ At(Advance(Advance(first)), {"::"})
    IN  segments[IF scoped
                 THEN Read(Val(p) \o ":" \o Val(Advance(first)), Advance(Advance(first)))
                 ELSE Read(Val(p), first)]

Comparisons == {"==", "!=", ">", "<", ">=", "<="}

\* The parameter of the shorthand: no name that can be written.
ImplicitLambdaParam == "<implicit>"

\* filter(> 0): all that follows the operator is its right operand.
ParseImplicitLambda(p) ==
    LET right == ParseExpr(SkipLayout(Advance(p))) IN
    Read(Lambda(<<ImplicitLambdaParam>>,
                Binary(Val(p), Ident(ImplicitLambdaParam), right.node)), right.p)

ParseArg(p) == IF At(p, Comparisons) THEN ParseImplicitLambda(p) ELSE ParseExpr(p)

\* A comma promises an argument, unlike in arrays and objects.
ParseArgList(p) ==
    IF At(SkipLayout(p), {")"}) THEN Read(<<>>, SkipLayout(p))
    ELSE CommaList(p, {}, ParseArg, SkipLayout)

\* The arguments and their parentheses.
Arguments(p) == LET args == ParseArgList(Advance(p)) IN Read(args.node, Expect(args.p, ")"))

\* A lambda's body, from after its arrow.
LambdaBody(names, p) ==
    LET body == ParseExpr(SkipLayout(p)) IN Read(Lambda(names, body.node), body.p)

ParseBareLambda(p) == LambdaBody(<<Val(p)>>, Advance(Advance(p)))

ParamNames(p) ==
    LET more[r \in Any] ==
            IF ~At(r.p, {"ident"}) THEN r
            ELSE LET q == Advance(r.p)
                     names == Append(r.node, Val(r.p))
                 IN  IF At(q, {","}) THEN more[Read(names, Advance(q))] ELSE Read(names, q)
    IN  more[Read(<<>>, p)]

\* fn (a, b) => body: a comma may end the names.
ParseFnLambda(p) ==
    LET names == ParamNames(Expect(Advance(p), "("))
    IN  LambdaBody(names.node, Expect(Expect(names.p, ")"), "=>"))

\* ( starts a lambda if names and an arrow follow; otherwise the parser goes back to it.
ParseGroupOrLambda(p) ==
    LET first == Advance(p)
        names == ParamNames(first)
        list == /\ At(names.p, {")"})
                /\ PeekAhead(names.p, -1)[1] # ","
        after == Advance(names.p)
    IN  CASE list /\ At(after, {"=>"}) -> LambdaBody(names.node, Advance(after))
          [] list /\ names.node = <<>> -> Read(Lit(Null), after)
          [] list /\ Len(names.node) = 1 -> Read(Ident(names.node[1]), after)
          [] OTHER -> LET e == ParseExpr(first) IN Read(e.node, Expect(e.p, ")"))

\* dataset::query with one argument is the query keyword.
ParseIdentOrCall(p) ==
    LET name == ParseFunctionName(p)
        args == Arguments(name.p)
    IN  CASE ~At(name.p, {"("}) -> Read(Ident(name.node), name.p)
          [] name.node = "dataset::query" /\ Len(args.node) = 1 ->
                Read(Query(args.node[1], <<>>), args.p)
          [] OTHER -> Read(Call(name.node, args.node), args.p)

--------------------------------------------------------------------------------
(* Literals. *)

\* A number that is out of range is an error, and zero.
ParseInt(p) ==
    IF Val(p) <= MaxInt THEN Read(Lit(Int64(Val(p))), Advance(p))
    ELSE Read(Lit(Int64(0)), AddError(Advance(p)))

ParseFloat(p) == Read(Lit(Val(p)), Advance(p))
ParseString(p) == Read(Lit(Str(Val(p))), Advance(p))

\* Texts and {expressions} up to the closing quote; a missing } is no error.
ParseInterpolatedString(p) ==
    LET Text(r) == Read(IF Val(r.p) = "" THEN r.node ELSE Append(r.node, Lit(Str(Val(r.p)))),
                        Advance(r.p))
        parts[r \in Any] ==
            CASE At(r.p, {"interp start"}) ->
                    LET e == ParseExpr(Advance(r.p)) IN
                    parts[Read(Append(r.node, e.node),
                               IF At(e.p, {"interp end"}) THEN Advance(e.p) ELSE e.p)]
              [] At(r.p, {"string part"}) -> parts[Text(r)]
              [] At(r.p, {"string end"}) -> Text(r)
              [] OTHER -> r
        all == parts[Text(Read(<<>>, p))]
    IN  Read(Interpolated(all.node), all.p)

ParseArray(p) ==
    LET elements == CommaList(Advance(p), {"]", "eof"}, ParseExpr, SkipLayout)
    IN  Read(Array(elements.node), Expect(elements.p, "]"))

\* A keyword is a key like any name.
ObjectKeys ==
    {"ident", "string", "and", "or", "not", "if", "then", "else", "match", "when", "try", "catch",
     "query", "for", "in", "raise", "use", "record", "type", "let", "return", "true", "false",
     "null", "fn"}

ParseField(p) ==
    LET key == IF At(p, ObjectKeys) THEN Advance(p) ELSE AddError(p)
        value == ParseExpr(SkipLayout(Expect(key, ":")))
    IN  Read(Field(Val(p), value.node), value.p)

ParseObject(p) ==
    LET fields == CommaList(Advance(p), {"}", "eof"}, ParseField, SkipLayout)
    IN  Read(Object(fields.node), Expect(fields.p, "}"))

--------------------------------------------------------------------------------
(* The keyword expressions. *)

RECURSIVE ParseIf(_)
ParseIf(p) ==
    LET cond == ParseExpr(SkipNewlines(Advance(p)))
        then == ParseExpr(SkipNewlines(Expect(SkipNewlines(cond.p), "then")))
        after == SkipNewlines(then.p)
        other == SkipNewlines(Advance(after))
        else == IF ~At(after, {"else"}) THEN Read(None, after)
                ELSE IF At(other, {"if"}) THEN ParseIf(other) ELSE ParseExpr(other)
    IN  Read(If(cond.node, then.node, else.node), else.p)

\* Mutant: the parser stays in the pattern.
ParsePatternForGood(p) ==
    LET q == [p EXCEPT !.inPattern = TRUE]
        low == ParsePrimary(q)
    IN  CASE At(q, {"ident"}) /\ Val(q) = "_" -> Read(WildcardPattern, Advance(q))
          [] low.node.node = "literal" -> Read(LiteralPattern(low.node.value), low.p)
          [] OTHER -> Read(ComparisonPattern("==", low.node), low.p)

\* In a pattern an arrow ends the pattern: it makes no lambda.
ParsePattern(p) ==
    LET q == [p EXCEPT !.inPattern = TRUE]
        low == ParsePrimary(q)
        Back(pattern, r) == Read(pattern, [r EXCEPT !.inPattern = p.inPattern])
    IN  CASE At(q, {"ident"}) /\ Val(q) = "_" -> Back(WildcardPattern, Advance(q))
          [] At(q, Comparisons) ->
                LET value == ParsePrimary(Advance(q)) IN
                Back(ComparisonPattern(Val(q), value.node), value.p)
          [] OTHER ->
                IF At(low.p, {".."})
                THEN LET high == ParsePrimary(Advance(low.p)) IN
                     Back(RangePattern(low.node, high.node), high.p)
                ELSE IF low.node.node = "literal" THEN Back(LiteralPattern(low.node.value), low.p)
                ELSE Back(ComparisonPattern("==", low.node), low.p)

ParseMatchArm(p) ==
    LET pattern == ParsePattern(Expect(p, "when"))
        body == ParseExpr(SkipNewlines(Expect(pattern.p, "=>")))
    IN  Read(Arm(pattern.node, body.node), body.p)

ParseMatch(p) ==
    LET subject == ParseExpr(Advance(p))
        start == SkipNewlines(Expect(subject.p, ":"))
        indented == At(start, {"indent"})
        arms[r \in Any] ==
            IF ~At(r.p, {"when"}) THEN r
            ELSE LET arm == ParseMatchArm(r.p) IN
                 arms[Read(Append(r.node, arm.node), SkipNewlines(arm.p))]
        all == arms[Read(<<>>, IF indented THEN Advance(start) ELSE start)]
    IN  Read(Match(subject.node, all.node),
             IF indented /\ At(all.p, {"dedent"}) THEN Advance(all.p) ELSE all.p)

ParseTry(p) ==
    LET expr == ParseExpr(Advance(p))
        default == IF At(expr.p, {"catch"}) THEN ParseExpr(Advance(expr.p)) ELSE Read(None, expr.p)
    IN  Read(Try(expr.node, default.node), default.p)

\* Of a block only the last statement is the body, if it is an expression.
ParseForBody(p) ==
    LET stmts == ParseBlock(p) IN
    IF ~At(p, {"indent"}) THEN ParseExpr(p)
    ELSE Read(IF stmts.node # <<>> /\ Last(stmts.node).stmt = "expr"
              THEN Last(stmts.node).value ELSE Lit(Null), stmts.p)

ParseFor(p) ==
    LET name == SkipNewlines(Advance(p))
        named == Expect(name, "ident")
        counted == At(named, {","})
        head == IF counted THEN Expect(Advance(named), "ident") ELSE named
        iterable == ParseExpr(SkipNewlines(Expect(head, "in")))
        body == ParseForBody(SkipNewlines(Expect(iterable.p, ":")))
    IN  Read(For(Val(name), IF counted THEN Val(Advance(named)) ELSE "", iterable.node, body.node),
             body.p)

ParseRaise(p) ==
    LET message == ParseExpr(SkipNewlines(Advance(p))) IN Read(Raise(message.node), message.p)

ParseQuery(p) ==
    LET dataset == ParseExpr(Expect(Advance(p), "("))
    IN  Read(Query(dataset.node, <<>>), Expect(dataset.p, ")"))

--------------------------------------------------------------------------------
(* Expressions, from the tightest operators to the loosest. *)

\* An unexpected token is an error, and is skipped.
ParsePrimary(p) ==
    CASE At(p, {"int"}) -> ParseInt(p)
      [] At(p, {"float"}) -> ParseFloat(p)
      [] At(p, {"string"}) -> ParseString(p)
      [] At(p, {"string start"}) -> ParseInterpolatedString(p)
      [] At(p, {"true", "false"}) -> Read(Lit(Bool(At(p, {"true"}))), Advance(p))
      [] At(p, {"null"}) -> Read(Lit(Null), Advance(p))
      [] At(p, {"ident"}) -> IF ~p.inPattern /\ At(Advance(p), {"=>"})
                             THEN ParseBareLambda(p) ELSE ParseIdentOrCall(p)
      [] At(p, {"("}) -> ParseGroupOrLambda(p)
      [] At(p, {"["}) -> ParseArray(p)
      [] At(p, {"{"}) -> ParseObject(p)
      [] At(p, {"if"}) -> ParseIf(p)
      [] At(p, {"match"}) -> ParseMatch(p)
      [] At(p, {"try"}) -> ParseTry(p)
      [] At(p, {"query"}) -> ParseQuery(p)
      [] At(p, {"for"}) -> ParseFor(p)
      [] At(p, {"raise"}) -> ParseRaise(p)
      [] At(p, {"fn"}) -> ParseFnLambda(p)
      [] OTHER -> Read(Lit(Null), Advance(AddError(p)))

ParsePostfix(p) ==
    LET more[l \in Any] ==
            LET q == Advance(l.p)
                index == ParseExpr(q)
                args == Arguments(l.p)
            IN  CASE At(l.p, {".", "?."}) ->
                        more[Read(Access(l.node, Val(q), At(l.p, {"?."})), Expect(q, "ident"))]
                  [] At(l.p, {"["}) ->
                        more[Read(Index(l.node, index.node), Expect(index.p, "]"))]
                  [] At(l.p, {"("}) /\ l.node.node = "ident" ->
                        more[Read(Call(l.node.name, args.node), args.p)]
                  [] OTHER -> l
    IN  more[ParsePrimary(p)]

RECURSIVE ParseUnary(_)
ParseUnary(p) ==
    LET operand == ParseUnary(Advance(p)) IN
    IF At(p, {"-", "!"}) THEN Read(Unary(Val(p), operand.node), operand.p) ELSE ParsePostfix(p)

\* Operands between operators of one precedence, grouped to the left.
LeftToRight(p, ops, Operand(_), Node(_, _, _)) ==
    LET more[l \in Any] ==
            IF ~At(l.p, ops) THEN l
            ELSE LET r == Operand(SkipNewlines(Advance(l.p)))
                 IN  more[Read(Node(Val(l.p), l.node, r.node), r.p)]
    IN  more[Operand(p)]

ParseMultiply(p) == LeftToRight(p, {"*", "/", "%"}, ParseUnary, Binary)
ParseAddition(p) == LeftToRight(p, {"+", "-", "++"}, ParseMultiply, Binary)

\* One comparison: a second one is left to the caller.
ParseComparison(p) ==
    LET left == ParseAddition(p)
        right == ParseAddition(SkipNewlines(Advance(left.p)))
    IN  CASE At(left.p, Comparisons) -> Read(Binary(Val(left.p), left.node, right.node), right.p)
          [] At(left.p, {"in"}) -> Read(In(left.node, right.node), right.p)
          [] OTHER -> left

RECURSIVE ParseNot(_)
ParseNot(p) ==
    LET operand == ParseNot(Advance(p)) IN
    IF At(p, {"!", "not"}) THEN Read(Unary("!", operand.node), operand.p) ELSE ParseComparison(p)

ParseAnd(p) ==
    LeftToRight(p, {"&&", "and"}, ParseNot, LAMBDA op, l, r : Binary("&&", l, r))
ParseOr(p) ==
    LeftToRight(p, {"||", "or"}, ParseAnd, LAMBDA op, l, r : Binary("||", l, r))
ParseCoalesce(p) ==
    LeftToRight(p, {"??"}, ParseOr, LAMBDA op, l, r : Coalesce(l, r))

\* The right side of a pipe is a name, with arguments or without, or any expression.
ParsePipe(p) ==
    LET more[l \in Any] ==
            LET q == SkipNewlines(Advance(l.p))
                name == ParseFunctionName(q)
                args == IF At(name.p, {"("}) THEN Arguments(name.p) ELSE Read(<<>>, name.p)
                expr == ParseCoalesce(q)
            IN  IF ~At(l.p, {"|"}) THEN l
                ELSE IF At(q, {"ident"})
                THEN more[Read(Pipe(l.node, name.node, args.node), args.p)]
                ELSE more[Read(Pipe(l.node, "", <<expr.node>>), expr.p)]
    IN  more[ParseCoalesce(p)]

ParseExpr(p) == ParsePipe(p)

--------------------------------------------------------------------------------
(* Statements. *)

\* use a.b.c: the parts are joined again.
ParseUseStmt(p) ==
    LET first == Advance(p)
        parts[r \in Any] == IF ~At(r.p, {"."}) THEN r
                    ELSE LET q == Advance(r.p)
                         IN  parts[Read(r.node \o "." \o Val(q), Expect(q, "ident"))]
        all == parts[Read(Val(first), Expect(first, "ident"))]
    IN  Read(Use(all.node), all.p)

ParseLetStmt(p) ==
    LET name == Advance(p)
        value == ParseExpr(SkipNewlines(Expect(Expect(name, "ident"), "=")))
    IN  Read(Let(Val(name), value.node), value.p)

ParseReturnStmt(p) == LET value == ParseExpr(Advance(p)) IN Read(Return(value.node), value.p)

ParseStmt(p) ==
    CASE At(p, {"let"}) -> ParseLetStmt(p)
      [] At(p, {"return"}) -> ParseReturnStmt(p)
      [] At(p, {"use"}) -> ParseUseStmt(p)
      [] OTHER -> LET e == ParseExpr(p) IN Read(ExprStmt(e.node), e.p)

\* Statements up to the DEDENT or the end; the INDENT may be missing.
ParseBlock(p) ==
    LET stmts[r \in Any] ==
            LET q == SkipNewlines(r.p)
                s == ParseStmt(q)
            IN  IF At(q, {"dedent", "eof"}) THEN Read(r.node, q)
                ELSE stmts[Read(Append(r.node, s.node), s.p)]
        start == SkipNewlines(p)
        all == stmts[Read(<<>>, IF At(start, {"indent"}) THEN Advance(start) ELSE start)]
    IN  Read(all.node, IF At(all.p, {"dedent"}) THEN Advance(all.p) ELSE all.p)

--------------------------------------------------------------------------------
(* Types, parameters and functions. *)

\* name, name[], record {...}, record {...}[].
ArraySuffix(name, fields, p) ==
    LET isArray == At(p, {"["})
    IN  Read(Type(name, isArray, fields), IF isArray THEN Expect(Advance(p), "]") ELSE p)

RECURSIVE ParseType(_)
ParseRecordField(p) ==
    LET name == ExpectName(p)
        optional == At(name, {"?"})
        type == ParseType(SkipNewlines(Expect(IF optional THEN Advance(name) ELSE name, ":")))
    IN  Read(RecordField(Val(p), type.node, optional), type.p)

ParseRecordType(p) ==
    LET fields == CommaList(Expect(Advance(p), "{"), {"}", "eof"}, ParseRecordField, SkipNewlines)
    IN  ArraySuffix("record", fields.node, Expect(fields.p, "}"))

ParseType(p) ==
    IF At(p, {"record"}) THEN ParseRecordType(p)
    ELSE ArraySuffix(Val(p), <<>>, Expect(p, "ident"))

ParseTypeDef(p) ==
    LET name == Advance(p)
        type == ParseType(SkipNewlines(Expect(Expect(name, "ident"), "=")))
    IN  Read(TypeDef(Val(name), type.node), type.p)

ParseParam(p) ==
    LET variadic == At(p, {"..."})
        name == IF variadic THEN Advance(p) ELSE p
        type == ParseType(Expect(ExpectName(name), ":"))
        default == IF At(type.p, {"="}) THEN ParseExpr(Advance(type.p)) ELSE Read(None, type.p)
    IN  Read(Param(Val(name), type.node, default.node, variadic), default.p)

ParseParams(p) == CommaList(p, {")"}, ParseParam, SkipLayout)

\* => with an indented block is a block.
ParseBody(p) ==
    LET q == SkipNewlines(Advance(p))
        e == ParseExpr(q)
    IN  CASE At(p, {"=>"}) /\ ~At(q, {"indent"}) -> Read(<<ExprStmt(e.node)>>, e.p)
          [] At(p, {"=>", ":"}) -> ParseBlock(Advance(p))
          [] OTHER -> Read(<<>>, AddError(p))

ParseFunction(p) ==
    LET typeDefs[r \in Any] ==
            IF ~At(r.p, {"type"}) THEN r
            ELSE LET td == ParseTypeDef(r.p)
                 IN  typeDefs[Read(Append(r.node, td.node), SkipNewlines(td.p))]
        defs == typeDefs[Read(<<>>, SkipNewlines(p))]
        name == Expect(defs.p, "fn")
        params == ParseParams(Expect(Expect(name, "ident"), "("))
        type == ParseType(Expect(Expect(params.p, ")"), "->"))
        start == SkipNewlines(type.p)
        body == ParseBody(start)
        oneLiner == At(start, {"=>"}) /\ ~At(SkipNewlines(Advance(start)), {"indent"})
    IN  Read(Fn(Val(name), params.node, type.node, body.node, oneLiner, defs.node), body.p)

\* The lexer's errors come before these, and do not keep the parser from running.
Parse(tokens) == ParseFunction(Parsing(tokens))
ParseExpression(tokens) == ParseExpr(SkipNewlines(Parsing(tokens)))
================================================================================
