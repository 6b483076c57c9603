------------------------------- MODULE Notation -------------------------------
(* How the trees of Syntax are written: the text that the parser is expected to   *)
(* read back.  The forms are those of SPEC.md, which has no precedences: the       *)
(* levels of the operators are the order in which parser.go calls its functions   *)
(* (parsePipe to parsePostfix).  A part that binds less tightly than its place    *)
(* asks for has parentheses, and only then.  A style chooses between the          *)
(* spellings and the layouts that the language gives one tree.                    *)
EXTENDS Parser

CONSTANT Segments \* the tokens of the names that have several

\* A style says how lambdas are written ("bare", "parens" or "fn"), whether && and ! are
\* words, whether the short forms of patterns, queries and blocks are used, and how an
\* expression goes on in another line: not at all ("none"), in a line at the same level
\* ("level"), or in an indented one, as SPEC.md:124-129 and 161-165 have it ("indented").
Plain == [lambda |-> "parens", words |-> FALSE, short |-> TRUE, lines |-> "none"]

Spelling(name) == IF name \in DOMAIN Segments THEN Segments[name] ELSE <<Name(name)>>

Newline == <<Tok("newline")>>
Broken(s) == s.lines # "none"
Break(s) == IF Broken(s) THEN Newline ELSE <<>>

InBlock(text) == Newline \o <<Tok("indent")>> \o text \o Newline \o <<Tok("dedent")>>
Indented(text, s) == IF Broken(s) THEN InBlock(text) ELSE text

\* The rest of an expression, in a line of its own.
Continued(text, s) == IF s.lines = "indented" THEN InBlock(text) ELSE Break(s) \o text

\* A | at the head of a line: of another line of the block that text ends in, or of a new one.
PipedTo(text, stage, s) ==
    CASE s.lines # "indented" -> text \o <<Tok("|")>> \o Break(s) \o stage
      [] Last(text) = Tok("dedent") ->
            Front(text) \o <<Tok("|")>> \o stage \o Newline \o <<Tok("dedent")>>
      [] OTHER -> text \o InBlock(<<Tok("|")>> \o stage)

\* The tokens as the lexer has them: the break before a DEDENT ends the block's last line, and
\* the line that the DEDENT stands in has none of its own.
Scanned(text) ==
    LET told(i) == ~(i > 1 /\ text[i] = Tok("newline") /\ text[i - 1] = Tok("dedent"))
    IN  FlattenSeq([i \in DOMAIN text |-> IF told(i) THEN <<text[i]>> ELSE <<>>])

Separated(texts, sep) ==
    FlattenSeq([i \in DOMAIN texts |-> IF i = 1 THEN texts[i] ELSE sep \o texts[i]])

Bracketed(open, texts, close, s) ==
    <<Tok(open)>>
    \o (IF texts = <<>> THEN <<>> ELSE Indented(Separated(texts, <<Tok(",")>> \o Break(s)), s))
    \o <<Tok(close)>>

\* As parser.go nests them: 1 for a pipe to 11 for what needs no parentheses anywhere, 0 for what ends only where
\* the expression around it ends.
Level(e) ==
    CASE e.node \in {"if", "match", "lambda", "try", "for", "raise"} -> 0
      [] e.node = "pipe" -> 1
      [] e.node = "coalesce" -> 2
      [] e.node = "binary" ->
            CASE e.op = "||" -> 3
              [] e.op = "&&" -> 4
              [] e.op \in Comparisons -> 6
              [] e.op \in {"+", "-", "++"} -> 7
              [] OTHER -> 8
      [] e.node = "unary" -> IF e.op = "!" THEN 5 ELSE 9
      [] e.node = "in" -> 6
      [] e.node \in {"index", "access"} -> 10
      [] OTHER -> 11

Word(op, s) ==
    Tok(IF ~s.words THEN op
        ELSE CASE op = "&&" -> "and" [] op = "||" -> "or" [] op = "!" -> "not" [] OTHER -> op)

Constant(v) ==
    CASE Kind(v) = "int" -> <<"int", v[2]>>
      [] Kind(v) = "float" -> <<"float", v>>
      [] Kind(v) = "string" -> <<"string", v[2]>>
      [] Kind(v) = "bool" -> Tok(IF v[2] THEN "true" ELSE "false")
      [] Kind(v) = "null" -> Tok("null")

Key(k) == IF k \in ObjectKeys THEN Tok(k) ELSE Name(k)

RECURSIVE Text(_, _)
Written(e, level, s) ==
    IF Level(e) < level THEN <<Tok("(")>> \o Text(e, s) \o <<Tok(")")>> ELSE Text(e, s)

\* A predicate that lacks its left operand.
IsShorthand(e) == e.node = "lambda" /\ e.params = <<ImplicitLambdaParam>>
WrittenArg(e, s) ==
    IF IsShorthand(e) THEN <<Tok(e.body.op)>> \o Written(e.body.right, 7, s) ELSE Written(e, 0, s)
WrittenArgs(es, s) == Bracketed("(", [i \in DOMAIN es |-> WrittenArg(es[i], s)], ")", s)

Infix(l, left, op, r, right, s) ==
    Written(l, left, s) \o <<op>> \o Continued(Written(r, right, s), s)

\* A pattern's lambdas need their parentheses: its arrow belongs to the arm.
WrittenPattern(p, style) ==
    LET s == [style EXCEPT !.lambda = IF @ = "bare" THEN "parens" ELSE @] IN
    CASE p.pattern = "wildcard" -> <<Name("_")>>
      [] p.pattern = "literal" -> <<Constant(p.value)>>
      [] p.pattern = "range" ->
            Written(p.low, 11, s) \o <<Tok("..")>> \o Written(p.high, 11, s)
      [] p.pattern = "comparison" ->
            (IF p.op = "==" /\ s.short THEN <<>> ELSE <<Tok(p.op)>>) \o Written(p.value, 11, s)

WrittenArm(a, s) ==
    <<Tok("when")>> \o WrittenPattern(a.pattern, s) \o <<Tok("=>")>>
    \o Continued(Written(a.body, 1, s), s)

WrittenLambda(e, s) ==
    LET names == [i \in DOMAIN e.params |-> <<Name(e.params[i])>>]
        list == <<Tok("(")>> \o Separated(names, <<Tok(",")>>) \o <<Tok(")")>>
    IN  (CASE s.lambda = "fn" -> <<Tok("fn")>> \o list
           [] s.lambda = "bare" /\ Len(names) = 1 -> names[1]
           [] OTHER -> list)
        \o <<Tok("=>")>> \o Continued(Written(e.body, 0, s), s)

\* Texts and expressions in turn: the first part and the last are texts, perhaps empty.
\* Between braces nothing is indented.
WrittenString(parts, style) ==
    LET s == [style EXCEPT !.lines = IF @ = "indented" THEN "level" ELSE @]
        IsText(i) == /\ i \in DOMAIN parts
                     /\ parts[i].node = "literal"
                     /\ Kind(parts[i].value) = "string"
        Piece(type, i) == <<type, IF IsText(i) THEN parts[i].value[2] ELSE "">>
        n == Len(parts)
    IN  <<Piece("string start", 1)>>
        \o FlattenSeq([i \in 1 .. n |->
             IF IsText(i)
             THEN IF i \in {1, n} THEN <<>> ELSE <<Piece("string part", i)>>
             ELSE <<Tok("interp start")>> \o Written(parts[i], 0, s) \o <<Tok("interp end")>>])
        \o <<Piece("string end", n)>>

Text(e, s) ==
    CASE e.node = "literal" -> <<Constant(e.value)>>
      [] e.node = "ident" -> Spelling(e.name)
      [] e.node = "binary" ->
            LET k == Level(e) IN
            Infix(e.left, IF k = 6 THEN 7 ELSE k, Word(e.op, s), e.right, k + 1, s)
      [] e.node = "coalesce" -> Infix(e.left, 2, Tok("??"), e.right, 3, s)
      [] e.node = "in" -> Infix(e.value, 7, Tok("in"), e.collection, 7, s)
      [] e.node = "unary" -> <<Word(e.op, s)>> \o Written(e.operand, Level(e), s)
      [] e.node = "if" ->
            <<Tok("if")>> \o Written(e.cond, 1, s) \o <<Tok("then")>>
            \o Continued(Written(e.then, 1, s), s)
            \o (IF e.else = None THEN <<>>
                ELSE Break(s) \o <<Tok("else")>>
                     \o (IF s.lines = "indented" /\ e.else.node = "if" THEN Text(e.else, s)
                         ELSE Continued(Written(e.else, 0, s), s)))
      [] e.node = "match" ->
            <<Tok("match")>> \o Written(e.subject, 1, s) \o <<Tok(":")>>
            \o Indented(Separated([i \in DOMAIN e.arms |-> WrittenArm(e.arms[i], s)], Break(s)), s)
      [] e.node = "pipe" ->
            PipedTo(Written(e.input, 1, s),
                    IF e.name = "" THEN Written(e.args[1], 2, s)
                    ELSE Spelling(e.name)
                         \o (IF e.args = <<>> /\ s.short THEN <<>> ELSE WrittenArgs(e.args, s)),
                    s)
      [] e.node = "call" -> Spelling(e.name) \o WrittenArgs(e.args, s)
      [] e.node = "lambda" -> WrittenLambda(e, s)
      [] e.node = "object" ->
            Bracketed("{", [i \in DOMAIN e.fields |->
                              <<Key(e.fields[i].key), Tok(":")>>
                              \o Continued(Written(e.fields[i].value, 0, s), s)], "}", s)
      [] e.node = "array" ->
            Bracketed("[", [i \in DOMAIN e.elements |-> Written(e.elements[i], 0, s)], "]", s)
      [] e.node = "index" ->
            Written(e.object, 10, s) \o <<Tok("[")>> \o Written(e.index, 0, s) \o <<Tok("]")>>
      [] e.node = "access" ->
            Written(e.object, 10, s) \o <<Tok(IF e.optional THEN "?." ELSE "."), Name(e.field)>>
      [] e.node = "try" ->
            <<Tok("try")>> \o Written(e.expr, 1, s)
            \o (IF e.default = None THEN <<>> ELSE <<Tok("catch")>> \o Written(e.default, 0, s))
      [] e.node = "interpolated" -> WrittenString(e.parts, s)
      [] e.node = "query" ->
            (IF s.short THEN <<Tok("query")>> ELSE Segments["dataset::query"])
            \o <<Tok("(")>> \o Written(e.dataset, 0, s) \o <<Tok(")")>>
      [] e.node = "for" ->
            <<Tok("for"), Name(e.variable)>>
            \o (IF e.counter = "" THEN <<>> ELSE <<Tok(","), Name(e.counter)>>)
            \o <<Tok("in")>> \o Written(e.iterable, 1, s) \o <<Tok(":")>>
            \o Indented(Written(e.body, 0, s), s)
      [] e.node = "raise" -> <<Tok("raise")>> \o Continued(Written(e.message, 0, s), s)

--------------------------------------------------------------------------------
(* Functions. *)

RECURSIVE WrittenType(_)
WrittenType(t) ==
    (IF t.name # "record" THEN <<Name(t.name)>>
     ELSE <<Tok("record")>>
          \o Bracketed("{", [i \in DOMAIN t.fields |->
                <<Key(t.fields[i].name)>>
                \o (IF t.fields[i].optional THEN <<Tok("?")>> ELSE <<>>)
                \o <<Tok(":")>> \o WrittenType(t.fields[i].type)], "}", Plain))
    \o (IF t.isArray THEN <<Tok("["), Tok("]")>> ELSE <<>>)

WrittenParam(p, s) ==
    (IF p.variadic THEN <<Tok("...")>> ELSE <<>>)
    \o <<IF p.name = "type" THEN Tok("type") ELSE Name(p.name), Tok(":")>> \o WrittenType(p.type)
    \o (IF p.default = None THEN <<>> ELSE <<Tok("=")>> \o Written(p.default, 0, s))

\* A lambda goes on in an indented line after its arrow, not before.
WrittenStmt(st, s) ==
    CASE st.stmt = "let" ->
            <<Tok("let"), Name(st.name), Tok("=")>>
            \o (IF s.lines = "indented" /\ st.value.node = "lambda" THEN Text(st.value, s)
                ELSE Continued(Written(st.value, 0, s), s))
      [] st.stmt = "return" -> <<Tok("return")>> \o Written(st.value, 0, s)
      [] st.stmt = "use" -> <<Tok("use")>> \o Spelling(st.namespace)
      [] st.stmt = "expr" -> Written(st.value, 0, s)

WrittenFunction(fn, s) ==
    LET stmts == [i \in DOMAIN fn.body |-> WrittenStmt(fn.body[i], s)]
        defs == [i \in DOMAIN fn.typeDefs |->
                    <<Tok("type"), Name(fn.typeDefs[i].name), Tok("=")>>
                    \o WrittenType(fn.typeDefs[i].type) \o <<Tok("newline")>>]
    IN  FlattenSeq(defs) \o <<Tok("fn"), Name(fn.name)>>
        \o Bracketed("(", [i \in DOMAIN fn.params |-> WrittenParam(fn.params[i], s)], ")", s)
        \o <<Tok("->")>> \o WrittenType(fn.returnType)
        \o (IF fn.isOneLiner THEN <<Tok("=>")>> \o stmts[1]
            ELSE <<Tok(IF s.short THEN ":" ELSE "=>")>>
                 \o InBlock(Separated(stmts, Newline)))
================================================================================
