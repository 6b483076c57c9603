--------------------------------- MODULE Lexer ---------------------------------
(***************************************************************************)
(* The lexer (lexer/lexer.go): a scanner that counts indentation at line   *)
(* starts, and that calls itself for the expressions inside strings:       *)
(* scanToken, scanString, scanInterpolation, scanToken.  calls is that Go  *)
(* stack; each action is one round of the loop that is innermost.          *)
(*                                                                         *)
(* A source is a sequence of characters.  Identifiers, keywords, numbers   *)
(* and $ names are words of the character "x"; what a string says is left  *)
(* out but for whether it says anything.                                   *)
(***************************************************************************)
EXTENDS Integers, Sequences, FiniteSets

CONSTANTS
    Sources,    \* the texts to scan, sequences of characters
    Operators   \* the spellings scanOperator knows, sequences of characters

\* The types of tokens that are not an operator's.
Marks == {"NEWLINE", "INDENT", "DEDENT", "EOF", "WORD", "STRING", "STRING_START", "STRING_PART",
          "STRING_END", "INTERP_START", "INTERP_END"}

\* CharAt says "end" where the source has ended.
ASSUME SourcesAssumption == \A s \in Sources : s \in Seq(STRING \ {"end"})

\* The spellings are within a line.
ASSUME OperatorsAssumption ==
    \A op \in Operators :
        /\ op \in Seq(STRING) /\ op # <<>>
        /\ \A i \in DOMAIN op : op[i] \notin Marks \cup {"\n", "\r"}

VARIABLES
    src,
    pos, line, col,
    tokens, errors,
    indentStack, atLineStart,
    calls,      \* scanString and scanInterpolation, outermost first
    inToken,    \* scanInterpolation has looked at the character and called scanToken
    done

cursor == <<pos, line, col>>
layout == <<indentStack, atLineStart>>
vars == <<src, cursor, tokens, errors, layout, calls, inToken, done>>

Blanks == {" ", "\t"}
AtEnd == pos > Len(src)
CharAt(i) == IF i <= Len(src) THEN src[i] ELSE "end"
Ch == CharAt(pos)
NextCh == CharAt(pos + 1)

\* The first place at or after i whose character is not in chars.
After(i, chars) ==
    LET end[k \in i .. Len(src) + 1] == IF CharAt(k) \in chars THEN end[k + 1] ELSE k
    IN  end[i]

\* Where the cursor is.  from is a history field, for positions to be checked by.
Here == [line |-> line, col |-> col, from |-> pos]
HereAfter(k) == [line |-> line, col |-> col + k, from |-> pos + k]

\* A token, with the position that emitAt is given and the place where its text ends.
Token(type, at, to) == [type |-> type, line |-> at.line, col |-> at.col, from |-> at.from, to |-> to]
Layout(type, k) == Token(type, HereAfter(k), pos + k)

\* Activations: of scanString with startPos, and whether buf has text and an
\* interpolation has been seen; of scanInterpolation with its depth, and since
\* (history) which token it scans.
StringCall(start, text, interp) == [fn |-> "string", start |-> start, text |-> text, interp |-> interp]
InterpCall(depth, since) == [fn |-> "interp", depth |-> depth, since |-> since]

Top == calls[Len(calls)]
Below == SubSeq(calls, 1, Len(calls) - 1)
WithTop(call) == Append(Below, call)

\* The function whose loop is innermost.
Running == IF calls = <<>> THEN "run" ELSE Top.fn

LastType == IF tokens = <<>> THEN "EOF" ELSE tokens[Len(tokens)].type

Advance(k) == pos' = pos + k /\ col' = col + k /\ UNCHANGED line
Emit(ts) == tokens' = tokens \o ts /\ UNCHANGED errors
AddError(e) == errors' = Append(errors, e) /\ UNCHANGED tokens
Quietly == UNCHANGED <<tokens, errors>>

Init ==
    /\ src \in Sources
    /\ pos = 1 /\ line = 1 /\ col = 1
    /\ tokens = <<>> /\ errors = <<>>
    /\ indentStack = <<0>> /\ atLineStart = TRUE
    /\ calls = <<>> /\ inToken = FALSE
    /\ done = FALSE

--------------------------------------------------------------------------------
(* scanToken, from run or from scanInterpolation. *)

InScanToken == ~AtEnd /\ (IF Running = "interp" THEN inToken ELSE Running = "run")

\* The width of the blanks from i up to k; a tab counts as four.
Width(i, k) ==
    Cardinality({j \in i .. k - 1 : src[j] = " "}) + 4 * Cardinality({j \in i .. k - 1 : src[j] = "\t"})

\* Nothing on the line but a line comment, perhaps.
Blank(k) == CharAt(k) \in {"end", "\n", "\r"} \/ (CharAt(k) = "-" /\ CharAt(k + 1) = "-")

\* Mutant: a line closes one level at most.
KeptAllButOne(width) == SubSeq(indentStack, 1, Len(indentStack) - 1)

\* The levels that a line of this width leaves open.
Kept(width) ==
    LET levels == {i \in DOMAIN indentStack : indentStack[i] <= width}
    IN  SubSeq(indentStack, 1, CHOOSE i \in levels : \A j \in levels : j <= i)

\* handleIndentation, at the head of scanToken.
HandleIndentation ==
    LET k == After(pos, Blanks)
        width == Width(pos, k)
        current == indentStack[Len(indentStack)]
        kept == Kept(width)
    IN  /\ InScanToken /\ atLineStart
        /\ Advance(k - pos)
        /\ atLineStart' = FALSE
        /\ inToken' = (inToken /\ k <= Len(src))
        /\ IF Blank(k) \/ width = current
           THEN UNCHANGED <<indentStack, tokens, errors>>
           ELSE IF width > current
           THEN /\ indentStack' = Append(indentStack, width)
                /\ Emit(<<Layout("INDENT", k - pos)>>)
           ELSE /\ indentStack' = kept
                /\ tokens' = tokens \o [i \in 1 .. Len(indentStack) - Len(kept) |-> Layout("DEDENT", k - pos)]
                /\ errors' = IF kept[Len(kept)] = width THEN errors
                             ELSE Append(errors, "inconsistent indentation")
        /\ UNCHANGED <<src, calls, done>>

\* The rest of scanToken, one action for each kind of character it finds.
Scan == InScanToken /\ ~atLineStart /\ inToken' = FALSE /\ UNCHANGED <<src, indentStack, done>>

AtLineComment == Ch = "-" /\ NextCh = "-"
AtBlockComment == Ch = "{" /\ NextCh = "-"

SkipBlank ==
    /\ Scan /\ Ch \in Blanks
    /\ Advance(1) /\ Quietly
    /\ UNCHANGED <<atLineStart, calls>>

\* Mutant: columns go on over the end of the line.
NewlineKeepsColumn ==
    /\ Scan /\ Ch = "\n"
    /\ Emit(<<Token("NEWLINE", Here, pos + 1)>>)
    /\ pos' = pos + 1 /\ line' = line + 1 /\ col' = col + 1
    /\ atLineStart' = TRUE
    /\ UNCHANGED calls

\* Mutant: the column is reset as for a break inside a comment.
NewlineColumnZero ==
    /\ Scan /\ Ch = "\n"
    /\ Emit(<<Token("NEWLINE", Here, pos + 1)>>)
    /\ pos' = pos + 1 /\ line' = line + 1 /\ col' = 0
    /\ atLineStart' = TRUE
    /\ UNCHANGED calls

Newline ==
    /\ Scan /\ Ch = "\n"
    /\ Emit(<<Token("NEWLINE", Here, pos + 1)>>)
    /\ pos' = pos + 1 /\ line' = line + 1 /\ col' = 1
    /\ atLineStart' = TRUE
    /\ UNCHANGED calls

\* Alone or before a newline; the token is emitted after both.
CarriageReturn ==
    LET k == IF NextCh = "\n" THEN 2 ELSE 1 IN
    /\ Scan /\ Ch = "\r"
    /\ Emit(<<Token("NEWLINE", HereAfter(k), pos + k)>>)
    /\ pos' = pos + k /\ line' = line + 1 /\ col' = 1
    /\ atLineStart' = TRUE
    /\ UNCHANGED calls

SkipLineComment ==
    /\ Scan /\ AtLineComment
    /\ Advance(After(pos, {src[i] : i \in DOMAIN src} \ {"\n"}) - pos) /\ Quietly
    /\ UNCHANGED <<atLineStart, calls>>

\* Where a block comment ends, and how many are open there: they nest.
CommentEnd ==
    LET skip[s \in [at : pos + 2 .. Len(src) + 1, open : Nat]] ==
            IF s.at > Len(src) \/ s.open = 0 THEN s
            ELSE IF src[s.at] = "{" /\ CharAt(s.at + 1) = "-"
            THEN skip[[at |-> s.at + 2, open |-> s.open + 1]]
            ELSE IF src[s.at] = "-" /\ CharAt(s.at + 1) = "}"
            THEN skip[[at |-> s.at + 2, open |-> s.open - 1]]
            ELSE skip[[s EXCEPT !.at = @ + 1]]
    IN  skip[[at |-> pos + 2, open |-> 1]]

SkipBlockComment ==
    LET end == CommentEnd
        breaks == {i \in pos .. end.at - 1 : src[i] = "\n"}
        lastBreak == CHOOSE i \in breaks : \A j \in breaks : j <= i
    IN  /\ Scan /\ AtBlockComment
        /\ pos' = end.at
        /\ line' = line + Cardinality(breaks)
        /\ col' = IF breaks = {} THEN col + end.at - pos ELSE end.at - lastBreak
        /\ IF end.open > 0 THEN AddError("unterminated block comment") ELSE Quietly
        /\ UNCHANGED <<atLineStart, calls>>

StartString ==
    /\ Scan /\ Ch = "\""
    /\ Advance(1) /\ Quietly
    /\ calls' = Append(calls, StringCall(HereAfter(1), FALSE, FALSE))
    /\ UNCHANGED atLineStart

\* scanIdent and scanNumber.
ScanWord ==
    LET k == After(pos, {"x"}) IN
    /\ Scan /\ Ch = "x"
    /\ Advance(k - pos) /\ Emit(<<Token("WORD", Here, k)>>)
    /\ UNCHANGED <<atLineStart, calls>>

AtOperator == {op \in Operators : pos + Len(op) - 1 <= Len(src) /\ op = SubSeq(src, pos, pos + Len(op) - 1)}

\* Mutant: an unexpected character is reported and looked at again.
ScanOperatorOrStay ==
    /\ Scan /\ Ch \notin Blanks \cup {"\n", "\r", "\"", "x"} /\ ~AtLineComment /\ ~AtBlockComment
    /\ IF AtOperator = {}
       THEN Advance(0) /\ errors' = <<"unexpected character">> /\ UNCHANGED tokens
       ELSE LET op == CHOOSE op \in AtOperator : \A other \in AtOperator : Len(other) <= Len(op)
            IN  Advance(Len(op)) /\ Emit(<<Token(op[1], Here, pos + Len(op))>>)
    /\ UNCHANGED <<atLineStart, calls>>

\* scanOperator: the longest spelling; the token's type is its first character.
ScanOperator ==
    /\ Scan /\ Ch \notin Blanks \cup {"\n", "\r", "\"", "x"} /\ ~AtLineComment /\ ~AtBlockComment
    /\ IF AtOperator = {}
       THEN Advance(1) /\ AddError("unexpected character")
       ELSE LET op == CHOOSE op \in AtOperator : \A other \in AtOperator : Len(other) <= Len(op)
            IN  Advance(Len(op)) /\ Emit(<<Token(op[1], Here, pos + Len(op))>>)
    /\ UNCHANGED <<atLineStart, calls>>

--------------------------------------------------------------------------------
(* scanString, after its opening quote. *)

InString == Running = "string" /\ UNCHANGED <<src, layout, inToken, done>>

StringChar ==
    /\ InString /\ Ch \notin {"end", "\"", "\n", "{", "\\"}
    /\ Advance(1) /\ Quietly
    /\ calls' = WithTop([Top EXCEPT !.text = TRUE])

StringEscape ==
    /\ InString /\ Ch = "\\"
    /\ IF pos = Len(src)
       THEN Advance(1) /\ AddError("unterminated escape sequence") /\ calls' = Below
       ELSE Advance(2) /\ Quietly /\ calls' = WithTop([Top EXCEPT !.text = TRUE])

\* Mutant: a piece without text is never a start.
PieceTypeByText ==
    IF Top.text /\ LastType \notin {"STRING_START", "INTERP_END"} THEN "STRING_START" ELSE "STRING_PART"

\* The type of the piece of text before an interpolation.
PieceType ==
    IF Top.text /\ LastType \in {"STRING_START", "INTERP_END"} THEN "STRING_PART" ELSE "STRING_START"

StartInterpolation ==
    /\ InString /\ Ch = "{"
    /\ Emit(<<Token(PieceType, Top.start, pos), Token("INTERP_START", Here, pos + 1)>>)
    /\ Advance(1)
    /\ calls' = Append(WithTop([Top EXCEPT !.text = FALSE, !.interp = TRUE]), InterpCall(1, Len(tokens) + 2))

EndString ==
    /\ InString /\ Ch = "\""
    /\ Emit(<<Token(IF Top.interp THEN "STRING_END" ELSE "STRING", Top.start, pos)>>)
    /\ Advance(1)
    /\ calls' = Below

\* At the end of the line, which is left to the caller, or of the source.
BreakString ==
    /\ InString /\ Ch \in {"\n", "end"}
    /\ Advance(0) /\ AddError("unterminated string literal")
    /\ calls' = Below

--------------------------------------------------------------------------------
(* scanInterpolation: its loop looks at the character before scanToken does. *)

InInterpolation ==
    Running = "interp" /\ ~inToken /\ UNCHANGED <<src, layout, done>>

\* Back in scanString, whose next piece starts at.
BackInString(at) == calls' = Append(SubSeq(Below, 1, Len(Below) - 1), [Below[Len(Below)] EXCEPT !.start = at])

\* Mutant: opening braces are not counted.
InterpolationTokenClosingOnly ==
    /\ InInterpolation /\ ~AtEnd /\ (Ch # "}" \/ Top.depth > 1)
    /\ calls' = WithTop([Top EXCEPT !.depth = IF Ch = "}" THEN @ - 1 ELSE @])
    /\ inToken' = TRUE
    /\ UNCHANGED <<cursor, tokens, errors>>

InterpolationToken ==
    /\ InInterpolation /\ ~AtEnd /\ (Ch # "}" \/ Top.depth > 1)
    /\ calls' = WithTop([Top EXCEPT !.depth = IF Ch = "}" THEN @ - 1 ELSE IF Ch = "{" THEN @ + 1 ELSE @])
    /\ inToken' = TRUE
    /\ UNCHANGED <<cursor, tokens, errors>>

EndInterpolation ==
    /\ InInterpolation /\ Ch = "}" /\ Top.depth = 1
    /\ Emit(<<Token("INTERP_END", Here, pos + 1)>>)
    /\ Advance(1)
    /\ BackInString(HereAfter(1))
    /\ UNCHANGED inToken

BreakInterpolation ==
    /\ InInterpolation /\ AtEnd
    /\ Advance(0) /\ AddError("unterminated string interpolation")
    /\ BackInString(Here)
    /\ UNCHANGED inToken

--------------------------------------------------------------------------------
\* The end of run: every level still open is closed.
Finish ==
    /\ AtEnd /\ calls = <<>> /\ ~done
    /\ Emit([i \in 1 .. Len(indentStack) - 1 |-> Layout("DEDENT", 0)] \o <<Layout("EOF", 0)>>)
    /\ indentStack' = <<0>>
    /\ done' = TRUE
    /\ UNCHANGED <<src, cursor, atLineStart, calls, inToken>>

Next ==
    \/ HandleIndentation \/ SkipBlank \/ Newline \/ CarriageReturn
    \/ SkipLineComment \/ SkipBlockComment \/ StartString \/ ScanWord \/ ScanOperator
    \/ StringChar \/ StringEscape \/ StartInterpolation \/ EndString \/ BreakString
    \/ InterpolationToken \/ EndInterpolation \/ BreakInterpolation
    \/ Finish

Spec == Init /\ [][Next]_vars

\* The lexer is a sequential loop: it goes on for as long as it can.
FairSpec == Spec /\ WF_vars(Next)

--------------------------------------------------------------------------------
Types == Marks \cup {op[1] : op \in Operators}
Places == [line : Nat \ {0}, col : Nat \ {0}, from : Nat \ {0}]

TypeOK ==
    /\ pos \in 1 .. Len(src) + 1 /\ line \in Nat \ {0} /\ col \in Nat \ {0}
    /\ tokens \in Seq([type : Types, line : Nat, col : Nat, from : Nat, to : Nat])
    /\ indentStack \in Seq(Nat) /\ indentStack[1] = 0
    /\ \A i \in 2 .. Len(indentStack) : indentStack[i - 1] < indentStack[i]
    /\ \A i \in 1 .. Len(calls) :
          IF i % 2 = 1
          THEN calls[i].fn = "string" /\ calls[i].start \in Places
          ELSE calls[i].fn = "interp" /\ calls[i].depth \in Nat \ {0} /\ calls[i - 1].interp
    /\ atLineStart \in BOOLEAN /\ inToken \in BOOLEAN /\ done \in BOOLEAN

Count(type, from, to) == Cardinality({i \in from .. to : tokens[i].type = type})

\* The breaks before n: a carriage return alone is one where the lexer takes it
\* for a token, which it does not do in strings and comments.
TakenForBreak(i) == \E k \in 1 .. Len(tokens) : tokens[k].type = "NEWLINE" /\ tokens[k].to = i + 1
LineBreaks(n) == {i \in 1 .. n - 1 : src[i] = "\n" \/ (src[i] = "\r" /\ TakenForBreak(i))}
EscapedBreak(n) == \E i \in 1 .. n - 2 : src[i] = "\\" /\ src[i + 1] = "\n"

\* A place that says the line and the column of the character it is at.
TruePlace(at) ==
    LET breaks == LineBreaks(at.from) IN
    \/ EscapedBreak(at.from)
    \/ /\ at.line = 1 + Cardinality(breaks)
       /\ \E start \in {0} \cup breaks : (\A b \in breaks : b <= start) /\ at.col = at.from - start

\* Every token says the line and the column where it stands, through comments,
\* strings and interpolations; only a backslash at the end of a line inside a
\* string goes uncounted, and a NEWLINE has no column to point at.
PositionsTrue == \A i \in 1 .. Len(tokens) : tokens[i].type = "NEWLINE" \/ TruePlace(tokens[i])

\* The lines as the tokens divide them, and those of them that have code.
LineStarts == {1} \cup {tokens[i].to : i \in {k \in 1 .. Len(tokens) : tokens[k].type = "NEWLINE"}}
CodeLines == {s \in LineStarts : s <= Len(src) /\ ~Blank(After(s, Blanks))}
LineOf(i) == CHOOSE s \in LineStarts : s <= tokens[i].from /\ \A r \in LineStarts : r <= tokens[i].from => r <= s
WidthAt(s) == Width(s, After(s, Blanks))
BrokenInterpolation ==
    \E i \in 1 .. Len(tokens) :
        tokens[i].type = "NEWLINE" /\ Count("INTERP_START", 1, i) > Count("INTERP_END", 1, i)

\* The DEDENT that closes the INDENT at i.
Closing(i) ==
    CHOOSE j \in i + 1 .. Len(tokens) :
        /\ Count("INDENT", i, j) = Count("DEDENT", i, j)
        /\ \A k \in i + 1 .. j - 1 : Count("INDENT", i, k) > Count("DEDENT", i, k)

\* Blocks are what the eye sees: a line wider than the code line before it opens
\* one, which goes on exactly to the first line narrower than the one that opened
\* it, or to the end; blank lines, comment lines and reported errors do not
\* matter.  It needs every line to begin outside interpolations.
BlocksFollowLines ==
    done /\ ~BrokenInterpolation =>
        /\ \A s, r \in CodeLines :
              s < r /\ (\A q \in CodeLines : q <= s \/ q >= r) /\ WidthAt(s) < WidthAt(r) =>
                  \E i \in 1 .. Len(tokens) : tokens[i].type = "INDENT" /\ LineOf(i) = r
        /\ \A i \in 1 .. Len(tokens) : tokens[i].type = "INDENT" =>
              LET s == LineOf(i)
                  close == tokens[Closing(i)]
                  last == IF close.from > Len(src) THEN Len(src) + 1 ELSE LineOf(Closing(i))
              IN  /\ \A r \in CodeLines : s < r /\ r < last => WidthAt(r) >= WidthAt(s)
                  /\ last <= Len(src) => WidthAt(last) < WidthAt(s)

\* What a token of this type, after one of type last, makes of what is open;
\* "bad" when it cannot stand there.
Opens(open, last, type) ==
    LET inner == IF open = <<>> THEN "none" ELSE open[Len(open)]
        outer == SubSeq(open, 1, Len(open) - 1)
        piece == last = "INTERP_END"
    IN  CASE type = "STRING_START" -> IF piece THEN open ELSE Append(open, "string")
          [] type = "INTERP_START" /\ last \in {"STRING_START", "STRING_PART"} -> Append(open, "interp")
          [] type = "STRING_PART" /\ piece -> open
          [] type = "STRING_END" /\ piece -> outer
          [] type = "INTERP_END" /\ inner = "interp" -> outer
          [] type \notin {"STRING_START", "INTERP_START", "STRING_PART", "STRING_END", "INTERP_END"}
               /\ inner # "string" /\ last \notin {"STRING_START", "STRING_PART", "INTERP_END"} -> open
          [] OTHER -> <<"bad">>

\* The strings and interpolations that are open after the tokens, as a parser
\* keeps them.
Nesting ==
    LET after[i \in 0 .. Len(tokens)] ==
            IF i = 0 THEN <<>>
            ELSE Opens(after[i - 1], IF i = 1 THEN "EOF" ELSE tokens[i - 1].type, tokens[i].type)
    IN  after[Len(tokens)]

\* A string shows in the tokens from its first interpolation on.
OpenCalls ==
    LET shown == IF Running = "string" /\ ~Top.interp THEN Below ELSE calls
    IN  [i \in 1 .. Len(shown) |-> shown[i].fn]

\* Without an error the pieces of strings and the interpolations nest, and the
\* tokens say at every moment how deep the lexer is in them.
PiecesNest == errors = <<>> => Nesting = OpenCalls

\* An interpolation ends at the brace that matches its own: its depth is one more
\* than the braces left open in it.  That holds only as long as interpolations are
\* on one line and it has no block comment, since the loop takes the brace of a
\* comment for one of its own and does not see a brace behind a line's indentation.
DepthCountsBraces ==
    errors = <<>> /\ Running = "interp" /\ ~inToken =>
        LET first == Top.since IN
        \/ BrokenInterpolation
        \/ \E i \in tokens[first].from .. pos - 1 : src[i] = "{" /\ CharAt(i + 1) = "-"
        \/ Top.depth = 1 + Count("{", first, Len(tokens)) - Count("}", first, Len(tokens))

\* The lexer comes to the end of every text.
LexingEnds == <>done
================================================================================
