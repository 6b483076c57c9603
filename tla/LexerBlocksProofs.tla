--------------------------- MODULE LexerBlocksProofs ---------------------------
(***************************************************************************)
(* The scanner's blocks, on any texts: they follow the lines.  The stack   *)
(* of levels and the INDENT and DEDENT tokens are two records of the same  *)
(* blocks; the proof is that they agree after every step, and that both    *)
(* agree with the widths of the lines seen so far.                         *)
(***************************************************************************)
EXTENDS LexerProofs

\* The lines of a text, by the text alone: where the blanks at the head of a line
\* end, how wide they are, and whether code follows them.
LetterOf(t, i) == IF i <= Len(t) THEN t[i] ELSE "end"
HeadOf(t, s) ==
    LET end[k \in s .. Len(t) + 1] == IF LetterOf(t, k) \in Blanks THEN end[k + 1] ELSE k
    IN  end[s]
WideOf(t, s) ==
    Cardinality({j \in s .. HeadOf(t, s) - 1 : t[j] = " "})
        + 4 * Cardinality({j \in s .. HeadOf(t, s) - 1 : t[j] = "\t"})
HasCode(t, s) ==
    ~(\/ LetterOf(t, HeadOf(t, s)) \in {"end", "\n", "\r"}
      \/ (LetterOf(t, HeadOf(t, s)) = "-" /\ LetterOf(t, HeadOf(t, s) + 1) = "-"))

\* The lines as some tokens divide a text, and those that have code; those of them
\* that handleIndentation has seen when the cursor is at p.
StartsIn(ts) == {1} \cup {ts[i].to : i \in {k \in 1 .. Len(ts) : ts[k].type = "NEWLINE"}}
CodeIn(t, ts) == {s \in StartsIn(ts) : s <= Len(t) /\ HasCode(t, s)}
SeenIn(t, ts, p, atStart) == {s \in CodeIn(t, ts) : atStart => s # p}
LineIn(ts, i) ==
    CHOOSE s \in StartsIn(ts) : s <= ts[i].from /\ \A r \in StartsIn(ts) : r <= ts[i].from => r <= s

\* How many blocks the first n tokens leave open.
Deep(ts, n) == CountIn(ts, "INDENT", 1, n) - CountIn(ts, "DEDENT", 1, n)

\* The block that the INDENT at i opens: open still, or closed by the DEDENT at j.
Openers(ts) == {i \in 1 .. Len(ts) : ts[i].type = "INDENT"}
OpenStill(ts, i) == \A k \in i .. Len(ts) : Deep(ts, i) <= Deep(ts, k)
ClosedAt(ts, i, j) ==
    /\ ts[j].type = "DEDENT" /\ Deep(ts, j) = Deep(ts, i) - 1
    /\ \A k \in i + 1 .. j - 1 : Deep(ts, i) <= Deep(ts, k)

\* An open block has its level on the stack, and only lines as wide in it.
OpenBlock(t, ts, stack, seen, i) ==
    /\ stack[Deep(ts, i) + 1] = WideOf(t, LineIn(ts, i))
    /\ \A r \in seen : LineIn(ts, i) < r => WideOf(t, LineIn(ts, i)) <= WideOf(t, r)
\* A closed one goes to the first line that is narrower, or to the end.
EndOf(t, ts, j) == IF ts[j].from > Len(t) THEN Len(t) + 1 ELSE LineIn(ts, j)
ClosedBlock(t, ts, i, j) ==
    /\ \A r \in CodeIn(t, ts) : LineIn(ts, i) < r /\ r < EndOf(t, ts, j) => WideOf(t, LineIn(ts, i)) <= WideOf(t, r)
    /\ EndOf(t, ts, j) <= Len(t) => WideOf(t, EndOf(t, ts, j)) < WideOf(t, LineIn(ts, i))

\* Lines begin where the scanner has been, the last of them at the cursor if it is to
\* count blanks.
LinesBehind(ts, p, atStart) == (\A s \in StartsIn(ts) : 0 < s /\ s <= p) /\ (atStart => p \in StartsIn(ts))
\* As many levels are on the stack as the tokens leave open.
LevelsCounted(ts, stack) ==
    /\ Deep(ts, Len(ts)) = Len(stack) - 1
    /\ \A i \in 1 .. Len(ts) : ts[i].type \in {"INDENT", "DEDENT"} => ts[i].from > 0
    /\ \A i \in Openers(ts) : Deep(ts, i) > 0
\* The innermost level is no wider than the last line.
TopLevel(t, stack, seen) ==
    \A s \in seen : (\A q \in seen : q <= s) => stack[Len(stack)] <= WideOf(t, s)
\* A line that is wider than the one before it opens a block.
Opened(ts, r) == \E i \in Openers(ts) : LineIn(ts, i) = r
WiderOpens(t, ts, seen) ==
    \A s, r \in seen :
        s < r /\ (\A q \in seen : q <= s \/ q >= r) /\ WideOf(t, s) < WideOf(t, r) => Opened(ts, r)
BlocksKept(t, ts, stack, seen) ==
    \A i \in Openers(ts) :
        \/ OpenStill(ts, i) /\ OpenBlock(t, ts, stack, seen, i)
        \/ \E j \in i + 1 .. Len(ts) : ClosedAt(ts, i, j) /\ ClosedBlock(t, ts, i, j)

\* Blocks, while the text is scanned.
Laid(t, ts, stack, p, atStart) ==
    /\ LinesBehind(ts, p, atStart)
    /\ LevelsCounted(ts, stack)
    /\ TopLevel(t, stack, SeenIn(t, ts, p, atStart))
    /\ WiderOpens(t, ts, SeenIn(t, ts, p, atStart))
    /\ BlocksKept(t, ts, stack, SeenIn(t, ts, p, atStart))
BlocksLaid == ~BrokenInterpolation => Laid(src, tokens, indentStack, pos, atLineStart)
LevelsEnd == done => AtEnd /\ Len(indentStack) = 1

BlocksInv == IInv /\ BlocksLaid /\ LevelsEnd

--------------------------------------------------------------------------------
\* Lines of the text.

\* The lines as the scanner's own definitions say them.
LEMMA LinesOfText ==
    ASSUME NEW s
    PROVE  /\ HeadOf(src, s) = After(s, Blanks)
           /\ WideOf(src, s) = Width(s, After(s, Blanks)) /\ WideOf(src, s) = WidthAt(s)
           /\ HasCode(src, s) <=> ~Blank(After(s, Blanks))
<1>1. HeadOf(src, s) = After(s, Blanks)
  BY DEF HeadOf, After, LetterOf, CharAt
<1>2. WideOf(src, s) = Width(s, After(s, Blanks)) /\ WideOf(src, s) = WidthAt(s)
  BY <1>1 DEF WideOf, Width, WidthAt
<1>3. HasCode(src, s) <=> ~Blank(After(s, Blanks))
  BY <1>1 DEF HasCode, Blank, LetterOf, CharAt
<1>. QED
  BY <1>1, <1>2, <1>3

\* Widths are numbers.
LEMMA WideTyped ==
    ASSUME CursorTyped, NEW s \in Nat
    PROVE  s \in 1 .. Len(src) + 1 => WideOf(src, s) \in Nat
<1> SUFFICES ASSUME s \in 1 .. Len(src) + 1 PROVE WideOf(src, s) \in Nat
  OBVIOUS
<1>1. Len(src) \in Nat
  BY CharFacts
<1>2. "end" \notin Blanks
  BY DEF Blanks
<1>3. After(s, Blanks) \in s .. Len(src) + 1
  BY <1>1, <1>2, AfterIs
<1>4. After(s, Blanks) \in Int
  BY <1>3
<1>. QED
  BY <1>4, WidthTyped, LinesOfText

\* A line begins at a number from one on.
LEMMA StartsTyped ==
    ASSUME NEW ts \in Seq(TokenSet)
    PROVE  StartsIn(ts) \subseteq Nat /\ 1 \in StartsIn(ts)
<1>1. \A k \in 1 .. Len(ts) : ts[k] \in TokenSet
  OBVIOUS
<1>2. \A k \in 1 .. Len(ts) : ts[k].to \in Nat
  BY <1>1 DEF TokenSet
<1>. QED
  BY <1>2 DEF StartsIn

\* The line that a token is on.
LEMMA LineFacts ==
    ASSUME NEW ts \in Seq(TokenSet), NEW i \in 1 .. Len(ts), ts[i].from > 0
    PROVE  /\ LineIn(ts, i) \in StartsIn(ts) /\ LineIn(ts, i) \in Nat /\ LineIn(ts, i) <= ts[i].from
           /\ \A r \in StartsIn(ts) : r <= ts[i].from => r <= LineIn(ts, i)
<1> DEFINE from == ts[i].from
           T == {s \in StartsIn(ts) : s <= from}
<1>1. ts[i] \in TokenSet
  OBVIOUS
<1>2. from \in Nat /\ 1 <= from
  BY <1>1 DEF TokenSet
<1>3. T \in SUBSET Nat /\ T # {} /\ \A m \in T : m <= from
  BY <1>2, StartsTyped
<1>4. \E n \in T : \A m \in T : m <= n
  BY <1>2, <1>3, GreatestNat
<1>5. \E s \in StartsIn(ts) : s <= from /\ \A r \in StartsIn(ts) : r <= from => r <= s
  BY <1>4
<1>6. LineIn(ts, i) \in StartsIn(ts) /\ LineIn(ts, i) <= from
      /\ \A r \in StartsIn(ts) : r <= from => r <= LineIn(ts, i)
  BY <1>5 DEF LineIn
<1>. QED
  BY <1>6, StartsTyped

\* The last line that begins before a token is the one it is on.
LEMMA LineUnique ==
    ASSUME NEW ts \in Seq(TokenSet), NEW i \in 1 .. Len(ts), NEW s \in StartsIn(ts), s <= ts[i].from,
           \A r \in StartsIn(ts) : r <= ts[i].from => r <= s, ts[i].from > 0
    PROVE  LineIn(ts, i) = s
<1>1. LineIn(ts, i) \in Nat /\ s \in Nat
  BY LineFacts, StartsTyped
<1>2. s <= LineIn(ts, i) /\ LineIn(ts, i) <= s
  BY LineFacts
<1>. QED
  BY <1>1, <1>2

--------------------------------------------------------------------------------
\* Tokens that go on.

\* us goes on where ts ends, and its new lines begin behind p.
Grows(ts, us, p) ==
    /\ ts \in Seq(TokenSet) /\ us \in Seq(TokenSet) /\ Extends(ts, us) /\ p \in Nat
    /\ \A i \in Len(ts) + 1 .. Len(us) : us[i].type = "NEWLINE" => p < us[i].to

\* The lines that are added.
LEMMA StartsGrow ==
    ASSUME NEW ts, NEW us, NEW p, Grows(ts, us, p)
    PROVE  /\ StartsIn(ts) \subseteq StartsIn(us)
           /\ \A s \in StartsIn(us) : s \in StartsIn(ts) \/ p < s
           /\ (\A i \in Len(ts) + 1 .. Len(us) : us[i].type # "NEWLINE") => StartsIn(us) = StartsIn(ts)
<1>1. Len(ts) \in Nat /\ Len(us) \in Nat /\ Len(ts) <= Len(us) /\ \A i \in 1 .. Len(ts) : us[i] = ts[i]
  BY DEF Grows, Extends
<1>2. \A i \in 1 .. Len(ts) : i \in 1 .. Len(us)
  BY <1>1
<1>3. \A i \in 1 .. Len(us) : i \in 1 .. Len(ts) \/ i \in Len(ts) + 1 .. Len(us)
  BY <1>1
<1>4. StartsIn(ts) \subseteq StartsIn(us)
  BY <1>1, <1>2 DEF StartsIn
<1>5. \A s \in StartsIn(us) : s \in StartsIn(ts) \/ p < s
  BY <1>1, <1>3 DEF StartsIn, Grows
<1>6. (\A i \in Len(ts) + 1 .. Len(us) : us[i].type # "NEWLINE") => StartsIn(us) = StartsIn(ts)
  BY <1>1, <1>2, <1>3 DEF StartsIn
<1>. QED
  BY <1>4, <1>5, <1>6

\* A token stays on its line.
LEMMA LineStays ==
    ASSUME NEW ts, NEW us, NEW p, Grows(ts, us, p), NEW i \in 1 .. Len(ts), ts[i].from > 0, ts[i].from <= p
    PROVE  /\ LineIn(us, i) = LineIn(ts, i) /\ LineIn(ts, i) \in StartsIn(ts) /\ LineIn(ts, i) \in Nat
           /\ LineIn(ts, i) <= p
<1>1. us \in Seq(TokenSet) /\ ts \in Seq(TokenSet) /\ i \in 1 .. Len(us) /\ us[i] = ts[i] /\ p \in Nat
  BY DEF Grows, Extends
<1>2. ts[i] \in TokenSet
  BY <1>1
<1>3. ts[i].from \in Nat
  BY <1>2 DEF TokenSet
<1>4. /\ LineIn(ts, i) \in StartsIn(ts) /\ LineIn(ts, i) \in Nat /\ LineIn(ts, i) <= ts[i].from
      /\ \A r \in StartsIn(ts) : r <= ts[i].from => r <= LineIn(ts, i)
  BY <1>1, LineFacts
<1>5. StartsIn(us) \subseteq Nat
  BY <1>1, StartsTyped
<1>6. \A r \in StartsIn(us) : r <= ts[i].from => r \in StartsIn(ts)
  BY <1>1, <1>3, <1>5, StartsGrow
<1>7. LineIn(ts, i) \in StartsIn(us)
  BY <1>4, StartsGrow
<1>8. LineIn(us, i) = LineIn(ts, i)
  BY <1>1, <1>4, <1>6, <1>7, LineUnique
<1>. QED
  BY <1>1, <1>3, <1>4, <1>8

\* The lines of code that are added.
LEMMA CodeGrows ==
    ASSUME NEW t, NEW ts, NEW us, NEW p, Grows(ts, us, p)
    PROVE  /\ CodeIn(t, ts) \subseteq CodeIn(t, us) /\ CodeIn(t, us) \subseteq Nat
           /\ \A s \in CodeIn(t, us) : s \in CodeIn(t, ts) \/ p < s
<1>1. us \in Seq(TokenSet)
  BY DEF Grows
<1>. QED
  BY <1>1, StartsGrow, StartsTyped DEF CodeIn

--------------------------------------------------------------------------------
\* How deep the tokens are.

\* Depths are numbers.
LEMMA DeepType == ASSUME NEW ts, NEW n \in Int PROVE Deep(ts, n) \in Int
<1>1. CountIn(ts, "INDENT", 1, n) \in Nat /\ CountIn(ts, "DEDENT", 1, n) \in Nat
  BY CountType
<1>. QED
  BY <1>1 DEF Deep

\* One token deeper.
StepOf(type) == IF type = "INDENT" THEN 1 ELSE IF type = "DEDENT" THEN -1 ELSE 0

\* Each token goes one block deeper, one less deep, or stays.
LEMMA DeepStep ==
    ASSUME NEW ts, NEW n \in Nat
    PROVE  Deep(ts, n + 1) = Deep(ts, n) + StepOf(ts[n + 1].type)
<1>1. \A type : CountIn(ts, type, 1, n + 1) = CountIn(ts, type, 1, n) + CountIn(ts, type, n + 1, n + 1)
  BY CountSplit
<1>2. \A type : CountIn(ts, type, n + 1, n + 1) = IF ts[n + 1].type = type THEN 1 ELSE 0
  BY CountOne
<1>3. CountIn(ts, "INDENT", 1, n) \in Nat /\ CountIn(ts, "DEDENT", 1, n) \in Nat
  BY CountType
<1>4. /\ CountIn(ts, "INDENT", 1, n + 1) = CountIn(ts, "INDENT", 1, n) + IF ts[n + 1].type = "INDENT" THEN 1 ELSE 0
      /\ CountIn(ts, "DEDENT", 1, n + 1) = CountIn(ts, "DEDENT", 1, n) + IF ts[n + 1].type = "DEDENT" THEN 1 ELSE 0
  BY <1>1, <1>2
<1>. QED
  BY <1>3, <1>4 DEF Deep, StepOf

\* Before the first token no block is open.
LEMMA DeepZero == ASSUME NEW ts PROVE Deep(ts, 0) = 0
<1>1. CountIn(ts, "INDENT", 1, 0) = 0 /\ CountIn(ts, "DEDENT", 1, 0) = 0
  BY CountNone
<1>. QED
  BY <1>1 DEF Deep

\* Later tokens do not matter.
LEMMA DeepSame ==
    ASSUME NEW ts, NEW us, Len(ts) \in Nat, Extends(ts, us), NEW n \in 0 .. Len(ts)
    PROVE  Deep(us, n) = Deep(ts, n)
<1>1. \A i \in 1 .. n : us[i] = ts[i]
  BY DEF Extends
<1>2. \A type : CountIn(us, type, 1, n) = CountIn(ts, type, 1, n)
  BY <1>1, CountSame
<1>. QED
  BY <1>2 DEF Deep

\* Through tokens that are no layout the depth stays.
LEMMA DeepStays ==
    ASSUME NEW us, NEW a \in Nat, NEW b \in Nat, \A k \in a + 1 .. b : us[k].type \notin {"INDENT", "DEDENT"},
           NEW n \in a .. b
    PROVE  Deep(us, n) = Deep(us, a)
<1> DEFINE T == {k \in Nat : k \in a .. b /\ Deep(us, k) # Deep(us, a)}
<1>1. ASSUME T # {} PROVE FALSE
  <2>1. PICK k \in T : \A m \in T : k <= m
    BY <1>1, LeastNat
  <2>2. k \in Nat /\ k \in a .. b /\ Deep(us, k) # Deep(us, a)
    BY <2>1
  <2>3. k # a
    BY <2>2
  <2>4. k - 1 \in Nat /\ k - 1 \in a .. b /\ k \in a + 1 .. b /\ (k - 1) + 1 = k /\ ~(k <= k - 1)
    BY <2>2, <2>3
  <2>5. Deep(us, k - 1) = Deep(us, a)
    BY <2>1, <2>4
  <2>6. Deep(us, k) = Deep(us, k - 1) + StepOf(us[k].type)
    BY <2>4, DeepStep
  <2>7. StepOf(us[k].type) = 0
    BY <2>4 DEF StepOf
  <2>8. Deep(us, a) \in Int
    BY DeepType
  <2>. QED
    BY <2>2, <2>5, <2>6, <2>7, <2>8
<1>2. n \in Nat /\ n \notin T
  BY <1>1
<1>. QED
  BY <1>2

\* Through DEDENTs it falls.
LEMMA DeepFalls ==
    ASSUME NEW us, NEW a \in Nat, NEW b \in Nat, \A k \in a + 1 .. b : us[k].type = "DEDENT", NEW n \in a .. b
    PROVE  Deep(us, n) = Deep(us, a) - (n - a)
<1> DEFINE T == {k \in Nat : k \in a .. b /\ Deep(us, k) # Deep(us, a) - (k - a)}
<1>0. Deep(us, a) \in Int
  BY DeepType
<1>1. ASSUME T # {} PROVE FALSE
  <2>1. PICK k \in T : \A m \in T : k <= m
    BY <1>1, LeastNat
  <2>2. k \in Nat /\ k \in a .. b /\ Deep(us, k) # Deep(us, a) - (k - a)
    BY <2>1
  <2>3. k # a
    BY <1>0, <2>2
  <2>4. k - 1 \in Nat /\ k - 1 \in a .. b /\ k \in a + 1 .. b /\ (k - 1) + 1 = k /\ ~(k <= k - 1)
    BY <2>2, <2>3
  <2>5. Deep(us, k - 1) = Deep(us, a) - (k - 1 - a)
    BY <2>1, <2>4
  <2>6. Deep(us, k) = Deep(us, k - 1) + StepOf(us[k].type)
    BY <2>4, DeepStep
  <2>7. StepOf(us[k].type) = -1
    BY <2>4 DEF StepOf
  <2>. QED
    BY <1>0, <2>2, <2>4, <2>5, <2>6, <2>7
<1>2. n \in Nat /\ n \notin T
  BY <1>1
<1>. QED
  BY <1>2

--------------------------------------------------------------------------------
\* Blocks that go on.

\* INDENT and DEDENT tokens are about places behind the cursor.
LayoutTypes == {"INDENT", "DEDENT"}
LayoutBehind(ts, p) == \A i \in 1 .. Len(ts) : ts[i].type \in LayoutTypes => ts[i].from > 0 /\ ts[i].from <= p
\* The levels of a stack.
Levels(stack) ==
    /\ stack \in Seq(Nat) /\ Len(stack) > 0
    /\ \A i, j \in 1 .. Len(stack) : i < j => stack[i] < stack[j]

\* Openers are tokens, and no less deep than one.
LEMMA OpenersTyped ==
    ASSUME NEW ts, NEW us, NEW p, Grows(ts, us, p), NEW i \in Openers(ts)
    PROVE  /\ i \in 1 .. Len(ts) /\ i \in 1 .. Len(us) /\ i \in Nat /\ Len(ts) \in Nat /\ Len(us) \in Nat
           /\ Len(ts) <= Len(us) /\ us[i] = ts[i] /\ ts[i].type = "INDENT" /\ i \in Openers(us)
           /\ Deep(us, i) = Deep(ts, i) /\ Deep(ts, i) \in Int
<1>1. i \in 1 .. Len(ts) /\ ts[i].type = "INDENT" /\ Len(ts) \in Nat /\ Len(us) \in Nat /\ Len(ts) <= Len(us)
      /\ us[i] = ts[i]
  BY DEF Openers, Grows, Extends
<1>2. Extends(ts, us)
  BY DEF Grows
<1>3. Deep(us, i) = Deep(ts, i)
  BY <1>1, <1>2, DeepSame
<1>4. Deep(ts, i) \in Int
  BY <1>1, DeepType
<1>5. i \in 1 .. Len(us) /\ us[i].type = "INDENT"
  BY <1>1
<1>6. i \in Openers(us)
  BY <1>5 DEF Openers
<1>. QED
  BY <1>1, <1>3, <1>4, <1>5, <1>6

\* A block that is closed stays closed, and where it was.
LEMMA ClosedStays ==
    ASSUME NEW t, Len(t) \in Nat, NEW ts, NEW us, NEW p, Grows(ts, us, p), LayoutBehind(ts, p),
           NEW i \in Openers(ts), NEW j \in i + 1 .. Len(ts), ClosedAt(ts, i, j), ClosedBlock(t, ts, i, j)
    PROVE  j \in i + 1 .. Len(us) /\ ClosedAt(us, i, j) /\ ClosedBlock(t, us, i, j)
<1>1. /\ i \in 1 .. Len(ts) /\ i \in Nat /\ Len(ts) \in Nat /\ Len(us) \in Nat /\ Len(ts) <= Len(us)
      /\ ts[i].type = "INDENT" /\ Deep(us, i) = Deep(ts, i)
  BY OpenersTyped
<1>2. j \in 1 .. Len(ts) /\ j \in i + 1 .. Len(us) /\ us[j] = ts[j]
  BY <1>1 DEF Grows, Extends
<1>3. \A k \in 0 .. Len(ts) : Deep(us, k) = Deep(ts, k)
  BY <1>1, DeepSame DEF Grows
<1>4. \A k \in i + 1 .. j - 1 : k \in 0 .. Len(ts)
  BY <1>1, <1>2
<1>5. ClosedAt(us, i, j)
  BY <1>1, <1>2, <1>3, <1>4 DEF ClosedAt
<1>6. ts[i].from > 0 /\ ts[i].from <= p /\ ts[j].from > 0 /\ ts[j].from <= p
  BY <1>1, <1>2 DEF ClosedAt, LayoutBehind, LayoutTypes
<1>7. LineIn(us, i) = LineIn(ts, i) /\ LineIn(us, j) = LineIn(ts, j) /\ LineIn(ts, j) \in Nat /\ LineIn(ts, j) <= p
  BY <1>1, <1>2, <1>6, LineStays
<1>8. EndOf(t, us, j) = EndOf(t, ts, j)
  BY <1>2, <1>7 DEF EndOf
<1>9. ts[j] \in TokenSet /\ p \in Nat
  BY <1>2 DEF Grows
<1>10. ts[j].from \in Nat
  BY <1>9 DEF TokenSet
<1>11. ASSUME NEW r \in CodeIn(t, us), r < EndOf(t, ts, j) PROVE r \in CodeIn(t, ts)
  <2>1. r \in Nat /\ r <= Len(t)
    BY CodeGrows DEF CodeIn
  <2>2. ~(p < r)
    <3>1. CASE ts[j].from > Len(t)
      BY <1>6, <1>9, <1>10, <2>1, <3>1
    <3>2. CASE ~(ts[j].from > Len(t))
      BY <1>7, <1>9, <1>11, <2>1, <3>2 DEF EndOf
    <3>. QED
      BY <3>1, <3>2
  <2>. QED
    BY <2>2, CodeGrows
<1>12. ClosedBlock(t, us, i, j)
  BY <1>7, <1>8, <1>11 DEF ClosedBlock
<1>. QED
  BY <1>2, <1>5, <1>12

\* An open block has its level where it had it, and the lines that are new in it are as wide.
LEMMA OpenStays ==
    ASSUME NEW t, NEW ts, NEW us, NEW p, Grows(ts, us, p), LayoutBehind(ts, p),
           NEW stack, NEW later, NEW seen, NEW more, NEW i \in Openers(ts),
           OpenStill(ts, i), OpenBlock(t, ts, stack, seen, i),
           \A k \in Len(ts) .. Len(us) : Deep(ts, i) <= Deep(us, k),
           later[Deep(ts, i) + 1] = stack[Deep(ts, i) + 1],
           \A r \in more : r \in seen \/ stack[Deep(ts, i) + 1] <= WideOf(t, r)
    PROVE  OpenStill(us, i) /\ OpenBlock(t, us, later, more, i)
<1>1. /\ i \in 1 .. Len(ts) /\ i \in Nat /\ Len(ts) \in Nat /\ Len(us) \in Nat /\ Len(ts) <= Len(us)
      /\ ts[i].type = "INDENT" /\ Deep(us, i) = Deep(ts, i)
  BY OpenersTyped
<1>2. \A k \in 0 .. Len(ts) : Deep(us, k) = Deep(ts, k)
  BY <1>1, DeepSame DEF Grows
<1>3. \A k \in i .. Len(us) : k \in i .. Len(ts) \/ k \in Len(ts) .. Len(us)
  BY <1>1
<1>4. \A k \in i .. Len(ts) : k \in 0 .. Len(ts)
  BY <1>1
<1>5. OpenStill(us, i)
  BY <1>1, <1>2, <1>3, <1>4 DEF OpenStill
<1>6. ts[i].from > 0 /\ ts[i].from <= p
  BY <1>1 DEF LayoutBehind, LayoutTypes
<1>7. LineIn(us, i) = LineIn(ts, i)
  BY <1>1, <1>6, LineStays
<1>. QED
  BY <1>1, <1>5, <1>7 DEF OpenBlock

\* The level of an open block is on the stack, and no wider than those above it.
LEMMA OpenLevel ==
    ASSUME NEW ts, NEW us, NEW p, Grows(ts, us, p), NEW stack, Levels(stack), LevelsCounted(ts, stack),
           NEW i \in Openers(ts), OpenStill(ts, i)
    PROVE  /\ Deep(ts, i) \in 1 .. Len(stack) - 1 /\ Deep(ts, i) + 1 \in 2 .. Len(stack)
           /\ Deep(ts, i) <= Deep(ts, Len(ts)) /\ stack[Deep(ts, i) + 1] \in Nat
           /\ \A k \in 1 .. Len(stack) : Deep(ts, i) + 1 <= k => stack[Deep(ts, i) + 1] <= stack[k]
<1>1. i \in 1 .. Len(ts) /\ Len(ts) \in Nat /\ Deep(ts, i) \in Int
  BY OpenersTyped
<1>2. Len(ts) \in i .. Len(ts)
  BY <1>1
<1>3. Deep(ts, i) <= Deep(ts, Len(ts))
  BY <1>2 DEF OpenStill
<1>4. Deep(ts, Len(ts)) = Len(stack) - 1 /\ Deep(ts, i) > 0 /\ Len(stack) \in Nat
  BY DEF LevelsCounted, Levels
<1>5. Deep(ts, i) \in 1 .. Len(stack) - 1 /\ Deep(ts, i) + 1 \in 2 .. Len(stack)
  BY <1>1, <1>3, <1>4
<1> DEFINE d == Deep(ts, i) + 1
<1>6. d \in 1 .. Len(stack)
  BY <1>5
<1> HIDE DEF d
<1>7. stack[d] \in Nat /\ \A k \in 1 .. Len(stack) : d <= k => stack[d] <= stack[k]
  <2>1. ASSUME NEW k \in 1 .. Len(stack), d <= k PROVE stack[d] <= stack[k]
    <3>1. stack[d] \in Nat /\ stack[k] \in Nat /\ (d = k \/ d < k)
      BY <1>6, <2>1 DEF Levels
    <3>. QED
      BY <1>6, <2>1, <3>1 DEF Levels
  <2>2. stack[d] \in Nat
    BY <1>6 DEF Levels
  <2>. QED
    BY <2>1, <2>2
<1>. QED
  BY <1>3, <1>5, <1>7 DEF d

\* Without new layout and with no line that is narrower than the innermost level, blocks are kept.
LEMMA BlocksOfQuiet ==
    ASSUME NEW t, Len(t) \in Nat, NEW ts, NEW us, NEW p, Grows(ts, us, p), LayoutBehind(ts, p),
           NEW stack, Levels(stack), LevelsCounted(ts, stack),
           \A k \in Len(ts) + 1 .. Len(us) : us[k].type \notin {"INDENT", "DEDENT"},
           NEW seen, NEW more, \A r \in more : r \in seen \/ (WideOf(t, r) \in Nat /\ stack[Len(stack)] <= WideOf(t, r)),
           BlocksKept(t, ts, stack, seen)
    PROVE  BlocksKept(t, us, stack, more)
<1> SUFFICES ASSUME NEW i \in Openers(us)
             PROVE  \/ OpenStill(us, i) /\ OpenBlock(t, us, stack, more, i)
                    \/ \E j \in i + 1 .. Len(us) : ClosedAt(us, i, j) /\ ClosedBlock(t, us, i, j)
  BY DEF BlocksKept
<1>1. Len(ts) \in Nat /\ Len(us) \in Nat /\ Len(ts) <= Len(us) /\ Extends(ts, us)
  BY DEF Grows, Extends
<1>2. i \in 1 .. Len(us) /\ us[i].type = "INDENT"
  BY DEF Openers
<1>3. i \in 1 .. Len(ts)
  BY <1>1, <1>2
<1>4. i \in Openers(ts)
  BY <1>1, <1>2, <1>3 DEF Openers, Extends
<1>5. CASE OpenStill(ts, i) /\ OpenBlock(t, ts, stack, seen, i)
  <2>1. /\ Deep(ts, i) <= Deep(ts, Len(ts)) /\ stack[Deep(ts, i) + 1] \in Nat
        /\ Deep(ts, i) + 1 \in 1 .. Len(stack)
        /\ \A k \in 1 .. Len(stack) : Deep(ts, i) + 1 <= k => stack[Deep(ts, i) + 1] <= stack[k]
    BY <1>4, <1>5, OpenLevel
  <2>2. \A k \in Len(ts) .. Len(us) : Deep(us, k) = Deep(us, Len(ts))
    BY <1>1, DeepStays
  <2>3. Deep(us, Len(ts)) = Deep(ts, Len(ts))
    BY <1>1, DeepSame
  <2>4. Len(stack) \in 1 .. Len(stack) /\ stack[Len(stack)] \in Nat
    BY DEF Levels
  <2>5. stack[Deep(ts, i) + 1] <= stack[Len(stack)]
    BY <2>1, <2>4
  <2> DEFINE level == stack[Deep(ts, i) + 1]
             top == stack[Len(stack)]
  <2>6. level \in Nat /\ top \in Nat /\ level <= top
    BY <2>1, <2>4, <2>5
  <2>7. \A r \in more : r \in seen \/ (WideOf(t, r) \in Nat /\ top <= WideOf(t, r))
    OBVIOUS
  <2> HIDE DEF level, top
  <2>8. \A r \in more : r \in seen \/ level <= WideOf(t, r)
    BY <2>6, <2>7
  <2>9. \A k \in Len(ts) .. Len(us) : Deep(ts, i) <= Deep(us, k)
    BY <2>1, <2>2, <2>3
  <2>. QED
    BY <1>4, <1>5, <2>8, <2>9, OpenStays DEF level
<1>6. ASSUME NEW j \in i + 1 .. Len(ts), ClosedAt(ts, i, j), ClosedBlock(t, ts, i, j)
      PROVE  \E k \in i + 1 .. Len(us) : ClosedAt(us, i, k) /\ ClosedBlock(t, us, i, k)
  BY <1>4, <1>6, ClosedStays
<1>. QED
  BY <1>4, <1>5, <1>6 DEF BlocksKept

\* A wider line opens one more block, and is in all the others.
LEMMA BlocksOfPush ==
    ASSUME NEW t, Len(t) \in Nat, NEW ts, NEW us, NEW p, Grows(ts, us, p), LayoutBehind(ts, p),
           NEW stack, Levels(stack), LevelsCounted(ts, stack),
           Len(us) = Len(ts) + 1, us[Len(us)].type = "INDENT", LineIn(us, Len(us)) = p,
           WideOf(t, p) \in Nat, stack[Len(stack)] < WideOf(t, p),
           NEW seen, NEW more, \A r \in more : r \in seen \/ r = p, \A r \in more : r \in Nat /\ r <= p,
           BlocksKept(t, ts, stack, seen)
    PROVE  BlocksKept(t, us, Append(stack, WideOf(t, p)), more)
<1> DEFINE later == Append(stack, WideOf(t, p))
           n == Len(stack)
<1>1. Len(ts) \in Nat /\ Len(us) \in Nat /\ Extends(ts, us)
  BY DEF Grows, Extends
<1>2. n \in Nat /\ n > 0 /\ Deep(ts, Len(ts)) = n - 1
  BY DEF Levels, LevelsCounted
<1>3. later[n + 1] = WideOf(t, p) /\ \A k \in 1 .. n : later[k] = stack[k]
  <2>1. stack \in Seq(Nat)
    BY DEF Levels
  <2>. QED
    BY <2>1, AppendProperties
<1>4. Deep(us, Len(us)) = n
  <2>1. Deep(us, Len(ts)) = Deep(ts, Len(ts))
    BY <1>1, DeepSame
  <2>2. Deep(us, Len(us)) = Deep(us, Len(ts)) + 1
    BY <1>1, DeepStep DEF StepOf
  <2>. QED
    BY <1>2, <2>1, <2>2
<1> HIDE DEF later, n
<1> SUFFICES ASSUME NEW i \in Openers(us)
             PROVE  \/ OpenStill(us, i) /\ OpenBlock(t, us, later, more, i)
                    \/ \E j \in i + 1 .. Len(us) : ClosedAt(us, i, j) /\ ClosedBlock(t, us, i, j)
  BY DEF BlocksKept, later
<1>5. i \in 1 .. Len(us) /\ us[i].type = "INDENT"
  BY DEF Openers
<1>6. CASE i = Len(us)
  <2>1. OpenStill(us, i)
    <3>1. \A k \in i .. Len(us) : k = i
      BY <1>1, <1>6
    <3>2. Deep(us, i) <= Deep(us, i)
      BY <1>2, <1>4, <1>6
    <3>. QED
      BY <3>1, <3>2 DEF OpenStill
  <2>2. later[Deep(us, i) + 1] = WideOf(t, LineIn(us, i))
    BY <1>3, <1>4, <1>6
  <2>3. \A r \in more : ~(p < r)
    BY DEF Grows
  <2>4. OpenBlock(t, us, later, more, i)
    BY <1>6, <2>2, <2>3 DEF OpenBlock
  <2>. QED
    BY <2>1, <2>4
<1>7. CASE i # Len(us)
  <2>1. i \in 1 .. Len(ts)
    BY <1>1, <1>5, <1>7
  <2>2. i \in Openers(ts)
    BY <1>1, <1>5, <2>1 DEF Openers, Extends
  <2>3. CASE OpenStill(ts, i) /\ OpenBlock(t, ts, stack, seen, i)
    <3>1. /\ Deep(ts, i) <= Deep(ts, Len(ts)) /\ stack[Deep(ts, i) + 1] \in Nat
          /\ Deep(ts, i) + 1 \in 1 .. n /\ Deep(ts, i) \in Int
          /\ \A k \in 1 .. n : Deep(ts, i) + 1 <= k => stack[Deep(ts, i) + 1] <= stack[k]
      BY <2>2, <2>3, OpenLevel, OpenersTyped DEF n
    <3>2. Deep(us, Len(ts)) = Deep(ts, Len(ts))
      BY <1>1, DeepSame
    <3>3. \A k \in Len(ts) .. Len(us) : k = Len(ts) \/ k = Len(us)
      BY <1>1
    <3>4. \A k \in Len(ts) .. Len(us) : Deep(ts, i) <= Deep(us, k)
      BY <1>2, <1>4, <3>1, <3>2, <3>3
    <3>5. n \in 1 .. n /\ stack[n] \in Nat
      BY DEF Levels, n
    <3>6. stack[Deep(ts, i) + 1] <= stack[n]
      BY <3>1, <3>5
    <3> DEFINE level == stack[Deep(ts, i) + 1]
               top == stack[n]
    <3>7. level \in Nat /\ top \in Nat /\ level <= top /\ top < WideOf(t, p)
      BY <3>1, <3>5, <3>6 DEF n
    <3>8. later[Deep(ts, i) + 1] = stack[Deep(ts, i) + 1]
      BY <1>3, <3>1
    <3> HIDE DEF level, top
    <3>9. \A r \in more : r \in seen \/ level <= WideOf(t, r)
      BY <3>7
    <3>. QED
      BY <2>2, <2>3, <3>4, <3>8, <3>9, OpenStays DEF level
  <2>4. ASSUME NEW j \in i + 1 .. Len(ts), ClosedAt(ts, i, j), ClosedBlock(t, ts, i, j)
        PROVE  \E k \in i + 1 .. Len(us) : ClosedAt(us, i, k) /\ ClosedBlock(t, us, i, k)
    BY <2>2, <2>4, ClosedStays
  <2>. QED
    BY <2>2, <2>3, <2>4 DEF BlocksKept
<1>. QED
  BY <1>6, <1>7

\* us closes the levels of ts above the first m, with its tokens up to b.
Closes(ts, us, stack, m, b) ==
    /\ m \in 1 .. Len(stack) /\ b \in Nat /\ b = Len(ts) + Len(stack) - m /\ b <= Len(us)
    /\ \A k \in Len(ts) + 1 .. b : us[k].type = "DEDENT"
    /\ \A k \in b + 1 .. Len(us) : us[k].type \notin {"INDENT", "DEDENT"}

\* The depth while the levels above the first m are closed.
LEMMA DeepOfClose ==
    ASSUME NEW ts, NEW us, NEW p, Grows(ts, us, p), NEW stack, Levels(stack), LevelsCounted(ts, stack),
           NEW m, NEW b, Closes(ts, us, stack, m, b)
    PROVE  /\ \A k \in Len(ts) .. b : Deep(us, k) = Len(stack) - 1 - (k - Len(ts))
           /\ \A k \in b .. Len(us) : Deep(us, k) = m - 1
<1> DEFINE a == Len(ts)
           n == Len(stack)
<1>1. a \in Nat /\ Len(us) \in Nat /\ Extends(ts, us)
  BY DEF Grows, Extends
<1>2. n \in Nat /\ m \in Nat /\ m <= n /\ Deep(ts, a) = n - 1
  BY DEF Levels, LevelsCounted, Closes
<1>3. b \in Nat /\ a <= b /\ b <= Len(us)
  BY <1>1, <1>2 DEF Closes
<1>4. Deep(us, a) = n - 1
  BY <1>1, <1>2, DeepSame
<1>5. /\ \A k \in a + 1 .. b : us[k].type = "DEDENT"
      /\ \A k \in b + 1 .. Len(us) : us[k].type \notin {"INDENT", "DEDENT"}
  BY DEF Closes
<1> SUFFICES /\ \A k \in a .. b : Deep(us, k) = n - 1 - (k - a)
             /\ \A k \in b .. Len(us) : Deep(us, k) = m - 1
  OBVIOUS
<1>7. b - a = n - m
  BY <1>1, <1>2 DEF Closes
<1> HIDE DEF a, n
<1>8. \A k \in a .. b : Deep(us, k) = n - 1 - (k - a)
  <2>1. \A k \in a .. b : Deep(us, k) = Deep(us, a) - (k - a)
    BY <1>1, <1>3, <1>5, DeepFalls
  <2>. QED
    BY <1>4, <2>1
<1>9. Deep(us, b) = m - 1
  <2>1. Deep(us, b) = n - 1 - (b - a)
    BY <1>1, <1>3, <1>8
  <2>. QED
    BY <1>2, <1>7, <2>1
<1>10. \A k \in b .. Len(us) : Deep(us, k) = Deep(us, b)
  BY <1>1, <1>3, <1>5, DeepStays
<1>. QED
  BY <1>8, <1>9, <1>10

\* The lines up to the end at which they are closed have been seen, and what is there is narrower.
Narrows(t, ts, us, stack, m, b, end, seen) ==
    /\ \A k \in Len(ts) + 1 .. b : EndOf(t, us, k) = end
    /\ end <= Len(t) => \A k \in m + 1 .. Len(stack) : WideOf(t, end) < stack[k]
    /\ \A r \in CodeIn(t, us) : r < end => r \in seen
\* Lines that have not been seen are as wide as the m-th level.
AsWide(t, stack, m, seen, more) ==
    \A r \in more : r \in seen \/ (WideOf(t, r) \in Nat /\ stack[m] <= WideOf(t, r))

\* A narrower line, or the end of the text, closes the blocks above the first m levels, and is in the others.
LEMMA BlocksOfClose ==
    ASSUME NEW t, Len(t) \in Nat, NEW ts, NEW us, NEW p, Grows(ts, us, p), LayoutBehind(ts, p),
           NEW stack, Levels(stack), LevelsCounted(ts, stack),
           NEW m, NEW b, Closes(ts, us, stack, m, b), NEW later, \A k \in 1 .. m : later[k] = stack[k],
           NEW end, NEW seen, NEW more, Narrows(t, ts, us, stack, m, b, end, seen), AsWide(t, stack, m, seen, more),
           BlocksKept(t, ts, stack, seen)
    PROVE  BlocksKept(t, us, later, more)
<1> DEFINE n == Len(stack)
<1>1. Len(ts) \in Nat /\ Len(us) \in Nat /\ Len(ts) <= Len(us) /\ Extends(ts, us)
  BY DEF Grows, Extends
<1>2. n \in Nat /\ n > 0 /\ m \in 1 .. n
  BY DEF Levels, Closes
<1>3. b \in Nat /\ Len(ts) <= b /\ b <= Len(us) /\ b = Len(ts) + n - m
  BY <1>1, <1>2 DEF Closes
<1>4. /\ \A k \in Len(ts) .. b : Deep(us, k) = n - 1 - (k - Len(ts))
      /\ \A k \in b .. Len(us) : Deep(us, k) = m - 1
  <2>1. /\ \A k \in Len(ts) .. b : Deep(us, k) = Len(stack) - 1 - (k - Len(ts))
        /\ \A k \in b .. Len(us) : Deep(us, k) = m - 1
    BY DeepOfClose
  <2>. QED
    BY <2>1
<1>6. /\ \A k \in Len(ts) + 1 .. b : us[k].type = "DEDENT"
      /\ \A k \in b + 1 .. Len(us) : us[k].type \notin {"INDENT", "DEDENT"}
  BY DEF Closes
<1>7. /\ end <= Len(t) => \A k \in m + 1 .. n : WideOf(t, end) < stack[k]
      /\ \A k \in Len(ts) + 1 .. b : EndOf(t, us, k) = end
      /\ \A r \in CodeIn(t, us) : r < end => r \in seen
      /\ \A r \in more : r \in seen \/ (WideOf(t, r) \in Nat /\ stack[m] <= WideOf(t, r))
  BY DEF Narrows, AsWide
<1> HIDE DEF n
<1> SUFFICES ASSUME NEW i \in Openers(us)
             PROVE  \/ OpenStill(us, i) /\ OpenBlock(t, us, later, more, i)
                    \/ \E j \in i + 1 .. Len(us) : ClosedAt(us, i, j) /\ ClosedBlock(t, us, i, j)
  BY DEF BlocksKept
<1>8. i \in 1 .. Len(us) /\ us[i].type = "INDENT"
  BY DEF Openers
<1>9. i \in 1 .. Len(ts)
  <2>1. i \notin Len(ts) + 1 .. b /\ i \notin b + 1 .. Len(us)
    BY <1>6, <1>8
  <2>. QED
    BY <1>1, <1>3, <1>8, <2>1
<1>10. i \in Openers(ts)
  BY <1>1, <1>8, <1>9 DEF Openers, Extends
<1>11. ASSUME NEW j \in i + 1 .. Len(ts), ClosedAt(ts, i, j), ClosedBlock(t, ts, i, j)
      PROVE  \E k \in i + 1 .. Len(us) : ClosedAt(us, i, k) /\ ClosedBlock(t, us, i, k)
  BY <1>10, <1>11, ClosedStays
<1>12. CASE OpenStill(ts, i) /\ OpenBlock(t, ts, stack, seen, i)
  <2> DEFINE d == Deep(ts, i)
  <2>1. /\ d \in 1 .. n - 1 /\ d + 1 \in 2 .. n /\ stack[d + 1] \in Nat
        /\ \A k \in 1 .. n : d + 1 <= k => stack[d + 1] <= stack[k]
    BY <1>10, <1>12, OpenLevel DEF n
  <2>2. Deep(us, i) = d /\ ts[i].from > 0 /\ ts[i].from <= p
    BY <1>8, <1>9, <1>10, OpenersTyped DEF LayoutBehind, LayoutTypes
  <2>3. LineIn(us, i) = LineIn(ts, i)
    BY <1>9, <2>2, LineStays
  <2>4. CASE d + 1 <= m
    <3>1. \A k \in Len(ts) .. b : d <= Deep(us, k)
      <4>1. d \in Int
        BY <2>1
      <4> HIDE DEF d
      <4>2. ASSUME NEW k \in Len(ts) .. b PROVE d <= Deep(us, k)
        <5>1. Deep(us, k) = n - 1 - (k - Len(ts))
          BY <1>4
        <5>2. d <= n - 1 - (k - Len(ts))
          BY <1>1, <1>2, <1>3, <2>4, <4>1
        <5>. QED
          BY <5>1, <5>2
      <4>. QED
        BY <4>2
    <3>2. \A k \in b .. Len(us) : d <= Deep(us, k)
      BY <1>2, <1>4, <2>1, <2>4
    <3>3. \A k \in Len(ts) .. Len(us) : k \in Len(ts) .. b \/ k \in b .. Len(us)
      BY <1>1, <1>3
    <3>4. \A k \in Len(ts) .. Len(us) : d <= Deep(us, k)
      BY <3>1, <3>2, <3>3
    <3>5. later[d + 1] = stack[d + 1]
      BY <1>2, <2>1, <2>4
    <3>6. stack[d + 1] <= stack[m] /\ stack[m] \in Nat
      <4>1. m \in 1 .. n
        BY <1>2
      <4>2. stack[m] \in Nat
        BY <4>1 DEF Levels, n
      <4>3. stack[d + 1] <= stack[m]
        BY <2>1, <2>4, <4>1
      <4>. QED
        BY <4>2, <4>3
    <3>7. \A r \in more : r \in seen \/ stack[d + 1] <= WideOf(t, r)
      <4> DEFINE level == stack[d + 1]
                 top == stack[m]
      <4>1. level \in Nat /\ top \in Nat /\ level <= top
        BY <2>1, <3>6
      <4>2. \A r \in more : r \in seen \/ (WideOf(t, r) \in Nat /\ top <= WideOf(t, r))
        BY <1>7
      <4> HIDE DEF level, top
      <4>3. \A r \in more : r \in seen \/ level <= WideOf(t, r)
        BY <4>1, <4>2
      <4>. QED
        BY <4>3 DEF level
    <3>. QED
      BY <1>10, <1>12, <3>4, <3>5, <3>7, OpenStays
  <2>5. CASE ~(d + 1 <= m)
    <3> DEFINE j == Len(ts) + n - d
    <3>1. j \in Len(ts) + 1 .. b /\ j \in i + 1 .. Len(us) /\ j \in Len(ts) .. b /\ j - Len(ts) = n - d
      <4>1. d \in Int /\ 1 <= d /\ d <= n - 1 /\ m <= d /\ i <= Len(ts) /\ i \in Nat
        BY <1>2, <1>9, <2>1, <2>5
      <4> HIDE DEF d
      <4>2. j \in Nat /\ Len(ts) + 1 <= j /\ j <= b /\ j - Len(ts) = n - d
        BY <1>1, <1>2, <1>3, <4>1
      <4>3. i + 1 <= j /\ j <= Len(us)
        BY <1>1, <1>3, <4>1, <4>2
      <4>. QED
        BY <1>1, <1>3, <4>1, <4>2, <4>3
    <3>2. us[j].type = "DEDENT" /\ Deep(us, j) = d - 1
      <4>1. Deep(us, j) = n - 1 - (j - Len(ts))
        BY <1>4, <3>1
      <4>2. Deep(us, j) = n - 1 - (n - d)
        BY <3>1, <4>1
      <4>3. n - 1 - (n - d) = d - 1
        BY <1>2, <2>1
      <4>. QED
        BY <1>6, <3>1, <4>2, <4>3
    <3> HIDE DEF j
    <3>3. ASSUME NEW k \in i + 1 .. j - 1 PROVE d <= Deep(us, k)
      <4>1. k \in i .. Len(ts) \/ k \in Len(ts) .. b
        BY <1>1, <1>3, <1>9, <3>1
      <4>2. CASE k \in i .. Len(ts)
        <5>1. k \in 0 .. Len(ts)
          BY <1>1, <1>9, <4>2
        <5>2. Deep(us, k) = Deep(ts, k)
          BY <1>1, <5>1, DeepSame
        <5>. QED
          BY <1>12, <4>2, <5>2 DEF OpenStill
      <4>3. CASE k \in Len(ts) .. b
        <5>1. Deep(us, k) = n - 1 - (k - Len(ts))
          BY <1>4, <4>3
        <5>2. k - Len(ts) <= n - 1 - d
          <6>1. d \in Int /\ n \in Int /\ k \in Int /\ j \in Int /\ Len(ts) \in Int
            BY <1>1, <1>2, <1>3, <2>1, <3>1, <4>3
          <6>2. k <= j - 1 /\ j - Len(ts) = n - d
            BY <1>1, <1>9, <3>1
          <6> HIDE DEF d
          <6>. QED
            BY <6>1, <6>2
        <5>3. d \in Int /\ n \in Int /\ k - Len(ts) \in Int
          BY <1>1, <1>2, <1>3, <2>1, <4>3
        <5>4. d <= n - 1 - (k - Len(ts))
          <6> DEFINE e == k - Len(ts)
          <6>1. e \in Int /\ e <= n - 1 - d /\ d \in Int
            BY <5>2, <5>3
          <6> HIDE DEF d, e
          <6>2. d <= n - 1 - e
            BY <5>3, <6>1
          <6>. QED
            BY <6>2 DEF e
        <5>. QED
          BY <5>1, <5>4
      <4>. QED
        BY <4>1, <4>2, <4>3
    <3>4. ClosedAt(us, i, j)
      BY <2>2, <3>2, <3>3 DEF ClosedAt
    <3>5. EndOf(t, us, j) = end
      BY <1>7, <3>1
    <3>6. stack[d + 1] = WideOf(t, LineIn(us, i))
          /\ \A r \in seen : LineIn(us, i) < r => WideOf(t, LineIn(us, i)) <= WideOf(t, r)
      BY <1>12, <2>3 DEF OpenBlock
    <3>7. end <= Len(t) => WideOf(t, end) < stack[d + 1]
      <4>1. d + 1 \in m + 1 .. n
        BY <1>2, <2>1, <2>5
      <4>. QED
        BY <1>7, <4>1
    <3>8. ClosedBlock(t, us, i, j)
      BY <1>7, <3>5, <3>6, <3>7 DEF ClosedBlock
    <3>. QED
      BY <3>1, <3>4, <3>8
  <2>. QED
    BY <2>4, <2>5
<1>. QED
  BY <1>10, <1>11, <1>12 DEF BlocksKept

--------------------------------------------------------------------------------
\* Levels and lines that go on.

\* The openers there were stay open by as much, and layout tokens stay where they are.
LEMMA LevelsGoOn ==
    ASSUME NEW ts, NEW us, NEW p, Grows(ts, us, p), NEW stack, LevelsCounted(ts, stack), NEW later,
           Deep(us, Len(us)) = Len(later) - 1,
           \A i \in Len(ts) + 1 .. Len(us) : us[i].type \in {"INDENT", "DEDENT"} => us[i].from > 0,
           \A i \in Len(ts) + 1 .. Len(us) : us[i].type = "INDENT" => Deep(us, i) > 0
    PROVE  LevelsCounted(us, later)
<1>1. Len(ts) \in Nat /\ Len(us) \in Nat /\ Len(ts) <= Len(us) /\ Extends(ts, us)
      /\ \A i \in 1 .. Len(ts) : us[i] = ts[i]
  BY DEF Grows, Extends
<1>2. \A i \in 1 .. Len(us) : i \in 1 .. Len(ts) \/ i \in Len(ts) + 1 .. Len(us)
  BY <1>1
<1>3. \A i \in 1 .. Len(us) : us[i].type \in {"INDENT", "DEDENT"} => us[i].from > 0
  BY <1>1, <1>2 DEF LevelsCounted
<1>4. ASSUME NEW i \in Openers(us) PROVE Deep(us, i) > 0
  <2>1. i \in 1 .. Len(us) /\ us[i].type = "INDENT"
    BY DEF Openers
  <2>2. CASE i \in 1 .. Len(ts)
    <3>1. i \in Openers(ts)
      BY <1>1, <2>1, <2>2 DEF Openers
    <3>. QED
      BY <3>1, OpenersTyped DEF LevelsCounted
  <2>. QED
    BY <1>2, <2>1, <2>2
<1>. QED
  BY <1>3, <1>4 DEF LevelsCounted

\* Without new layout as many levels are open as before.
LEMMA LevelsOfQuiet ==
    ASSUME NEW ts, NEW us, NEW p, Grows(ts, us, p), NEW stack, LevelsCounted(ts, stack),
           \A k \in Len(ts) + 1 .. Len(us) : us[k].type \notin {"INDENT", "DEDENT"}
    PROVE  LevelsCounted(us, stack)
<1>1. Len(ts) \in Nat /\ Len(us) \in Nat /\ Len(ts) <= Len(us) /\ Extends(ts, us)
  BY DEF Grows, Extends
<1>2. Len(us) \in Len(ts) .. Len(us)
  BY <1>1
<1>3. Deep(us, Len(us)) = Deep(us, Len(ts))
  BY <1>1, <1>2, DeepStays
<1>4. Deep(us, Len(ts)) = Deep(ts, Len(ts))
  BY <1>1, DeepSame
<1>5. Deep(us, Len(us)) = Len(stack) - 1
  BY <1>3, <1>4 DEF LevelsCounted
<1>. QED
  BY <1>5, LevelsGoOn

\* A level that is pushed is the block its INDENT opens.
LEMMA LevelsOfPush ==
    ASSUME NEW ts, NEW us, NEW p, Grows(ts, us, p), NEW stack, Levels(stack), LevelsCounted(ts, stack),
           Len(us) = Len(ts) + 1, us[Len(us)].type = "INDENT", us[Len(us)].from > 0,
           NEW later, Len(later) = Len(stack) + 1
    PROVE  LevelsCounted(us, later)
<1>1. Len(ts) \in Nat /\ Len(us) \in Nat /\ Extends(ts, us)
  BY DEF Grows, Extends
<1>2. Len(stack) \in Nat /\ Len(stack) > 0 /\ Deep(ts, Len(ts)) = Len(stack) - 1
  BY DEF Levels, LevelsCounted
<1>3. Deep(us, Len(us)) = Len(stack)
  <2>1. Deep(us, Len(ts)) = Deep(ts, Len(ts))
    BY <1>1, DeepSame
  <2>2. Deep(us, Len(us)) = Deep(us, Len(ts)) + 1
    BY <1>1, DeepStep DEF StepOf
  <2>. QED
    BY <1>2, <2>1, <2>2
<1>4. \A i \in Len(ts) + 1 .. Len(us) : i = Len(us)
  BY <1>1
<1>5. Deep(us, Len(us)) = Len(later) - 1 /\ Deep(us, Len(us)) > 0
  BY <1>2, <1>3
<1>. QED
  BY <1>4, <1>5, LevelsGoOn

\* As many levels are popped as there are new DEDENTs.
LEMMA LevelsOfClose ==
    ASSUME NEW ts, NEW us, NEW p, Grows(ts, us, p), NEW stack, Levels(stack), LevelsCounted(ts, stack),
           NEW m, NEW b, Closes(ts, us, stack, m, b), NEW later, Len(later) = m,
           \A i \in Len(ts) + 1 .. b : us[i].from > 0
    PROVE  LevelsCounted(us, later)
<1>1. \A k \in b .. Len(us) : Deep(us, k) = m - 1
  BY DeepOfClose
<1>2. Len(ts) \in Nat /\ Len(us) \in Nat /\ b \in Nat /\ b <= Len(us)
  BY DEF Grows, Extends, Closes
<1>3. Deep(us, Len(us)) = Len(later) - 1
  BY <1>1, <1>2
<1>4. \A i \in Len(ts) + 1 .. Len(us) : i \in Len(ts) + 1 .. b \/ i \in b + 1 .. Len(us)
  BY <1>2
<1>5. /\ \A k \in Len(ts) + 1 .. b : us[k].type = "DEDENT"
      /\ \A k \in b + 1 .. Len(us) : us[k].type \notin {"INDENT", "DEDENT"}
  BY DEF Closes
<1>6. \A i \in Len(ts) + 1 .. Len(us) : us[i].type \in {"INDENT", "DEDENT"} => us[i].from > 0
  BY <1>4, <1>5
<1>7. \A i \in Len(ts) + 1 .. Len(us) : us[i].type # "INDENT"
  BY <1>4, <1>5
<1>. QED
  BY <1>3, <1>6, <1>7, LevelsGoOn

\* A line that opened a block did so.
LEMMA OpenedStays ==
    ASSUME NEW ts, NEW us, NEW p, Grows(ts, us, p), LayoutBehind(ts, p), NEW r, Opened(ts, r)
    PROVE  Opened(us, r)
<1>1. PICK i \in Openers(ts) : LineIn(ts, i) = r
  BY DEF Opened
<1>2. i \in 1 .. Len(ts) /\ ts[i].type = "INDENT" /\ i \in Openers(us)
  BY OpenersTyped
<1>3. ts[i].from > 0 /\ ts[i].from <= p
  BY <1>2 DEF LayoutBehind, LayoutTypes
<1>4. LineIn(us, i) = r
  BY <1>1, <1>2, <1>3, LineStays
<1>. QED
  BY <1>2, <1>4 DEF Opened

\* Lines that were seen opened what they had to, and so does a new one at the cursor.
LEMMA WidersStay ==
    ASSUME NEW t, NEW ts, NEW us, NEW p, Grows(ts, us, p), LayoutBehind(ts, p), NEW seen, NEW more,
           seen \subseteq more, \A r \in more : r \in seen \/ r = p, \A r \in more : r \in Nat /\ r <= p,
           WiderOpens(t, ts, seen),
           p \in seen \/ \A s \in seen : (\A q \in seen : q <= s) /\ WideOf(t, s) < WideOf(t, p) => Opened(us, p)
    PROVE  WiderOpens(t, us, more)
<1> SUFFICES ASSUME NEW s \in more, NEW r \in more, s < r, \A q \in more : q <= s \/ q >= r,
                    WideOf(t, s) < WideOf(t, r)
             PROVE  Opened(us, r)
  BY DEF WiderOpens
<1>1. s \in Nat /\ r \in Nat /\ p \in Nat /\ r <= p
  BY DEF Grows
<1>2. s \in seen
  BY <1>1
<1>3. CASE r \in seen
  <2>1. Opened(ts, r)
    BY <1>2, <1>3 DEF WiderOpens
  <2>. QED
    BY <2>1, OpenedStays
<1>4. CASE r \notin seen
  <2>1. r = p /\ p \notin seen
    BY <1>4
  <2>2. ASSUME NEW q \in seen PROVE q <= s
    <3>1. q \in Nat /\ q <= p /\ q # p
      BY <2>1
    <3>2. ~(q >= p)
      BY <1>1, <3>1
    <3>. QED
      BY <2>1, <3>2
  <2>. QED
    BY <1>2, <2>1, <2>2
<1>. QED
  BY <1>3, <1>4

--------------------------------------------------------------------------------
\* The steps, as far as blocks ask.

\* A step that has nothing to do with layout, or one that ends a line.
SameLine ==
    /\ atLineStart' = atLineStart /\ (atLineStart => pos' = pos)
    /\ \A k \in Len(tokens) + 1 .. Len(tokens') : tokens'[k].type # "NEWLINE"
NextLine ==
    /\ ~atLineStart /\ atLineStart' /\ pos < pos'
    /\ Len(tokens') = Len(tokens) + 1 /\ tokens'[Len(tokens')].type = "NEWLINE" /\ tokens'[Len(tokens')].to = pos'
Quiet ==
    /\ indentStack' = indentStack /\ done' = done
    /\ \A k \in Len(tokens) + 1 .. Len(tokens') : tokens'[k].type \notin {"INDENT", "DEDENT"}
    /\ SameLine \/ NextLine

\* One token that is neither of layout nor the end of a line, or none.
LEMMA QuietOfOne ==
    ASSUME Typed, indentStack' = indentStack, done' = done, atLineStart' = atLineStart, atLineStart => pos' = pos,
           \/ tokens' = tokens
           \/ \E t : OneMore(t) /\ t.type \notin {"INDENT", "DEDENT", "NEWLINE"}
    PROVE  Quiet
<1>1. Len(tokens) \in Nat
  BY TypedFacts
<1>2. CASE tokens' = tokens
  <2>1. Len(tokens) + 1 .. Len(tokens') = {}
    BY <1>2, NoneNewTokens
  <2>. QED
    BY <2>1 DEF Quiet, SameLine
<1>3. ASSUME NEW t, OneMore(t), t.type \notin {"INDENT", "DEDENT", "NEWLINE"} PROVE Quiet
  <2>1. Len(tokens') = Len(tokens) + 1 /\ tokens'[Len(tokens) + 1] = t
    BY <1>3 DEF OneMore
  <2>2. \A n \in Nat : \A k \in n + 1 .. n + 1 : k = n + 1
    OBVIOUS
  <2>3. \A k \in Len(tokens) + 1 .. Len(tokens') : k = Len(tokens) + 1
    BY <1>1, <2>1, <2>2
  <2>4. \A k \in Len(tokens) + 1 .. Len(tokens') : tokens'[k] = t
    BY <2>1, <2>3
  <2>. QED
    BY <1>3, <2>4 DEF Quiet, SameLine
<1>. QED
  BY <1>2, <1>3

\* A line ends.
LEMMA QuietOfBreak ==
    ASSUME Typed, Scan, atLineStart' = TRUE, NEW k \in {1, 2}, pos' = pos + k, NEW at \in Places,
           Emit(<<Token("NEWLINE", at, pos + k)>>)
    PROVE  Quiet
<1> DEFINE t == Token("NEWLINE", at, pos + k)
<1>1. Len(tokens) \in Nat /\ pos \in Nat
  BY TypedFacts
<1>2. t \in TokenSet
  <2>1. "NEWLINE" \in Types
    BY DEF Types, Marks
  <2>2. pos + k \in Nat
    BY <1>1
  <2>. QED
    BY <2>1, <2>2, TokenTyped
<1>3. OneMore(t)
  BY <1>2, EmitOne DEF Emit
<1>4. t.type = "NEWLINE" /\ t.to = pos + k
  BY DEF Token
<1> HIDE DEF t
<1>5. Len(tokens') = Len(tokens) + 1 /\ tokens'[Len(tokens) + 1] = t
  BY <1>3 DEF OneMore
<1>6. indentStack' = indentStack /\ done' = done /\ ~atLineStart
  BY DEF Scan
<1>7. \A n \in Nat : \A j \in n + 1 .. n + 1 : j = n + 1
  OBVIOUS
<1>8. \A j \in Len(tokens) + 1 .. Len(tokens') : tokens'[j] = t
  BY <1>1, <1>5, <1>7
<1>9. pos < pos' /\ pos' = t.to
  BY <1>1, <1>4
<1>. QED
  BY <1>4, <1>5, <1>6, <1>8, <1>9 DEF Quiet, NextLine

\* Rounds of scanToken behind the indentation of a line.
LEMMA RoundsQuiet == ASSUME Typed, ScanRound PROVE Quiet
<1>1. CursorTyped /\ ~atLineStart /\ indentStack' = indentStack /\ done' = done
  BY TypedFacts
     DEF ScanRound, SkipBlank, Newline, CarriageReturn, SkipLineComment, SkipBlockComment, ScanWord, ScanOperator, Scan
<1>2. CASE SkipBlank \/ SkipLineComment \/ SkipBlockComment
  <2>1. tokens' = tokens /\ atLineStart' = atLineStart
    BY <1>2 DEF SkipBlank, SkipLineComment, SkipBlockComment, Quietly, AddError
  <2>. QED
    BY <1>1, <2>1, QuietOfOne
<1>3. CASE Newline
  <2>1. Here \in Places
    BY <1>1, HereTyped
  <2>2. Scan /\ atLineStart' = TRUE /\ pos' = pos + 1 /\ Emit(<<Token("NEWLINE", Here, pos + 1)>>)
    BY <1>3 DEF Newline
  <2>. QED
    BY <2>1, <2>2, QuietOfBreak
<1>4. CASE CarriageReturn
  <2>1. PICK k \in {1, 2} : /\ Scan /\ atLineStart' = TRUE /\ pos' = pos + k
                            /\ Emit(<<Token("NEWLINE", HereAfter(k), pos + k)>>)
    BY <1>4 DEF CarriageReturn
  <2>2. k \in Nat
    OBVIOUS
  <2>3. HereAfter(k) \in Places
    BY <1>1, <2>2, HereTyped
  <2>. QED
    BY <2>1, <2>3, QuietOfBreak
<1>5. CASE ScanWord
  <2>1. PICK to : to = After(pos, {"x"})
    OBVIOUS
  <2>2. tokens' = tokens \o <<Token("WORD", Here, to)>> /\ atLineStart' = atLineStart
    BY <1>5, <2>1 DEF ScanWord, Emit
  <2>3. Len(src) \in Nat /\ pos \in 1 .. Len(src) + 1 /\ "end" \notin {"x"}
    BY <1>1, CharFacts
  <2>4. to \in pos .. Len(src) + 1
    BY <2>1, <2>3, AfterIs
  <2>5. to \in Nat /\ "WORD" \in Types /\ Here \in Places
    BY <1>1, <2>3, <2>4, HereTyped DEF Types, Marks
  <2>6. OneMore(Token("WORD", Here, to))
    BY <2>2, <2>5, TokenTyped, EmitOne
  <2>7. Token("WORD", Here, to).type = "WORD"
    BY DEF Token
  <2>. QED
    BY <1>1, <2>2, <2>6, <2>7, QuietOfOne
<1>6. CASE ScanOperator
  <2>1. atLineStart' = atLineStart
    BY <1>6 DEF ScanOperator
  <2>2. CASE AtOperator = {}
    <3>1. tokens' = tokens
      BY <1>6, <2>2 DEF ScanOperator, AddError
    <3>. QED
      BY <1>1, <2>1, <3>1, QuietOfOne
  <2>3. CASE AtOperator # {}
    <3> DEFINE t == Token(Longest[1], Here, pos + Len(Longest))
    <3>1. tokens' = tokens \o <<t>>
      BY <1>6, <2>3 DEF ScanOperator, Emit, Longest
    <3>2. Longest \in Operators /\ Len(Longest) \in Nat \ {0} /\ Longest[1] \in Types /\ pos \in Nat
      BY <1>1, <2>3, LongestFacts, TypedFacts
    <3>3. t \in TokenSet
      <4>1. pos + Len(Longest) \in Nat
        BY <3>2
      <4>. QED
        BY <1>1, <3>2, <4>1, HereTyped, TokenTyped
    <3>4. t.type = Longest[1]
      BY DEF Token
    <3>5. Longest[1] \notin Marks
      BY <3>2, OperatorsAssumption
    <3>6. t.type \notin {"INDENT", "DEDENT", "NEWLINE"}
      BY <3>4, <3>5 DEF Marks
    <3>7. OneMore(t)
      BY <3>1, <3>3, EmitOne
    <3>. QED
      BY <1>1, <2>1, <3>6, <3>7, QuietOfOne
  <2>. QED
    BY <2>2, <2>3
<1>. QED
  BY <1>2, <1>3, <1>4, <1>5, <1>6 DEF ScanRound

\* Steps of scanString and scanInterpolation, and the start of a string.
LEMMA StringsQuiet ==
    ASSUME Typed, InTokenOf, StartsBehind, LineStartBroken, ~BrokenInterpolation,
           \/ StartString \/ StringChar \/ StringEscape \/ StartInterpolation \/ EndString \/ BreakString
           \/ InterpolationToken \/ EndInterpolation \/ BreakInterpolation
    PROVE  Quiet
<1>1. indentStack' = indentStack /\ done' = done /\ atLineStart' = atLineStart
  BY DEF StartString, Scan, StringChar, StringEscape, StartInterpolation, EndString, BreakString, InString,
         InterpolationToken, EndInterpolation, BreakInterpolation, InInterpolation, layout
<1>2. ~atLineStart
  <2>1. CASE StartString
    BY <2>1 DEF StartString, Scan
  <2>2. CASE ~StartString
    <3>1. Running \in {"string", "interp"}
      BY <2>2 DEF StringChar, StringEscape, StartInterpolation, EndString, BreakString, InString,
                  InterpolationToken, EndInterpolation, BreakInterpolation, InInterpolation
    <3>2. calls # <<>>
      BY <3>1, TopFacts
    <3>. QED
      BY <3>2 DEF LineStartBroken
  <2>. QED
    BY <2>1, <2>2
<1>3. CASE StartString \/ StringChar \/ StringEscape \/ BreakString \/ InterpolationToken \/ BreakInterpolation
  <2>1. tokens' = tokens
    BY <1>3 DEF StartString, StringChar, StringEscape, BreakString, InterpolationToken, BreakInterpolation,
                Quietly, AddError
  <2>. QED
    BY <1>1, <1>2, <2>1, QuietOfOne
<1>4. CASE EndString
  <2>1. OneMore(Token(IF Top.interp THEN "STRING_END" ELSE "STRING", Top.start, pos))
    BY <1>4, EndStringDoes
  <2>2. Token(IF Top.interp THEN "STRING_END" ELSE "STRING", Top.start, pos).type
          \notin {"INDENT", "DEDENT", "NEWLINE"}
    BY DEF Token
  <2>. QED
    BY <1>1, <1>2, <2>1, <2>2, QuietOfOne
<1>5. CASE EndInterpolation
  <2>1. OneMore(Token("INTERP_END", Here, pos + 1))
    BY <1>5, EndInterpolationDoes
  <2>2. Token("INTERP_END", Here, pos + 1).type \notin {"INDENT", "DEDENT", "NEWLINE"}
    BY DEF Token
  <2>. QED
    BY <1>1, <1>2, <2>1, <2>2, QuietOfOne
<1>6. CASE StartInterpolation
  <2>1. /\ Len(tokens') = Len(tokens) + 2
        /\ tokens'[Len(tokens) + 1] = Token(PieceType, Top.start, pos)
        /\ tokens'[Len(tokens) + 2] = Token("INTERP_START", Here, pos + 1)
    BY <1>6, StartInterpolationDoes, Zenon
  <2>2. tokens'[Len(tokens) + 1].type = PieceType /\ tokens'[Len(tokens) + 2].type = "INTERP_START"
    BY <2>1 DEF Token
  <2>3. PieceType \in {"STRING_PART", "STRING_START"}
    BY DEF PieceType
  <2>4. \A n \in Nat : \A k \in n + 1 .. n + 2 : k = n + 1 \/ k = n + 2
    OBVIOUS
  <2>5. Len(tokens) \in Nat
    BY TypedFacts
  <2>6. \A k \in Len(tokens) + 1 .. Len(tokens') : k = Len(tokens) + 1 \/ k = Len(tokens) + 2
    BY <2>1, <2>4, <2>5
  <2>7. \A k \in Len(tokens) + 1 .. Len(tokens') : tokens'[k].type \in {"STRING_PART", "STRING_START", "INTERP_START"}
    BY <2>2, <2>3, <2>6
  <2>8. \A k \in Len(tokens) + 1 .. Len(tokens') : tokens'[k].type \notin {"INDENT", "DEDENT", "NEWLINE"}
    BY <2>7
  <2>. QED
    BY <1>1, <1>2, <2>8 DEF Quiet, SameLine
<1>. QED
  BY <1>3, <1>4, <1>5, <1>6

\* Every step but at the head of a line and at the end is quiet.
LEMMA QuietSteps ==
    ASSUME IInv, ~BrokenInterpolation, [Next]_vars, ~HandleIndentation, ~Finish
    PROVE  Quiet
<1>1. Typed /\ InTokenOf /\ LineStartBroken /\ StartsBehind
  BY DEF IInv, PlacesTrue, StartsBehind
<1>2. CASE ScanRound
  BY <1>1, <1>2, RoundsQuiet
<1>3. CASE \/ StartString \/ StringChar \/ StringEscape \/ StartInterpolation \/ EndString \/ BreakString
           \/ InterpolationToken \/ EndInterpolation \/ BreakInterpolation
  BY <1>1, <1>3, StringsQuiet
<1>4. CASE UNCHANGED vars
  <2>1. /\ indentStack' = indentStack /\ done' = done /\ atLineStart' = atLineStart /\ pos' = pos
        /\ tokens' = tokens
    BY <1>4 DEF vars, layout, cursor
  <2>. QED
    BY <1>1, <2>1, QuietOfOne
<1>. QED
  BY <1>2, <1>3, <1>4 DEF Next, ScanRound

\* What the conjuncts of the invariant say of blocks, and of the step.
Growing ==
    /\ Typed /\ InTokenOf /\ StartsBehind /\ LineStartBroken /\ Stepped
    /\ src' = src /\ Len(src) \in Nat /\ pos \in Nat /\ pos > 0 /\ pos' \in Nat /\ pos <= pos'
    /\ Len(tokens) \in Nat /\ Len(tokens') \in Nat
    /\ Grows(tokens, tokens', pos) /\ LayoutBehind(tokens, pos) /\ Levels(indentStack)
    /\ \A i \in 1 .. Len(tokens') : tokens'[i].to <= pos'

\* Every step extends the tokens, its new lines behind the cursor.
LEMMA StepsGrow ==
    ASSUME IInv, LevelsCounted(tokens, indentStack), [Next]_vars
    PROVE  Growing
<1>1. Typed /\ InTokenOf /\ LineStartBroken /\ StartsBehind /\ TokensBehind
  BY DEF IInv, PlacesTrue, StartsBehind, TokensBehind
<1>2. Stepped
  BY <1>1, EveryStep
<1>3. src' = src /\ Len(src) \in Nat /\ pos \in Nat /\ pos > 0 /\ pos' \in Nat /\ pos <= pos'
  BY <1>1, <1>2, TypedFacts DEF Stepped, CursorTyped
<1>4. /\ tokens \in Seq(TokenSet) /\ tokens' \in Seq(TokenSet) /\ Extends(tokens, tokens')
      /\ Len(tokens) \in Nat /\ Len(tokens') \in Nat
      /\ \A i \in Len(tokens) + 1 .. Len(tokens') : NewPlaced(tokens'[i])
  BY <1>1, <1>2, TypedFacts DEF Stepped
<1>5. \A i \in Len(tokens) + 1 .. Len(tokens') : tokens'[i].type = "NEWLINE" => pos < tokens'[i].to
  BY <1>4 DEF NewPlaced
<1>6. Grows(tokens, tokens', pos)
  BY <1>3, <1>4, <1>5 DEF Grows
<1>7. LayoutBehind(tokens, pos)
  BY <1>1 DEF LayoutBehind, LayoutTypes, LevelsCounted, TokensBehind
<1>8. Levels(indentStack)
  BY <1>1, TypedFacts DEF Levels, StackTyped
<1>9. ASSUME NEW i \in 1 .. Len(tokens') PROVE tokens'[i].to <= pos'
  <2>1. CASE i \in 1 .. Len(tokens)
    <3>1. tokens'[i] = tokens[i] /\ tokens[i].to <= pos
      BY <1>1, <1>4, <2>1 DEF Extends, TokensBehind
    <3>2. tokens[i] \in TokenSet
      BY <1>4, <2>1
    <3>3. tokens[i].to \in Nat
      BY <3>2 DEF TokenSet
    <3>4. \A a, b, c \in Nat : a <= b /\ b <= c => a <= c
      OBVIOUS
    <3>. QED
      BY <1>3, <3>1, <3>3, <3>4
  <2>2. CASE i \notin 1 .. Len(tokens)
    <3>1. \A n, m \in Nat : \A k \in 1 .. m : k \in 1 .. n \/ k \in n + 1 .. m
      OBVIOUS
    <3>2. i \in Len(tokens) + 1 .. Len(tokens')
      BY <1>4, <2>2, <3>1
    <3>. QED
      BY <1>4, <3>2 DEF NewPlaced
  <2>. QED
    BY <2>1, <2>2
<1>. QED
  BY <1>1, <1>2, <1>3, <1>4, <1>6, <1>7, <1>8, <1>9 DEF Growing

--------------------------------------------------------------------------------
\* Each step keeps blocks as they are to be.

\* Lines begin where the scanner has been, in the next state too.
LEMMA LinesStayBehind ==
    ASSUME Growing, LinesBehind(tokens, pos, atLineStart)
    PROVE  \A s \in StartsIn(tokens') : 0 < s /\ s <= pos'
<1>1. pos' \in Nat /\ 1 <= pos'
  <2>1. \A a, b \in Nat : a > 0 /\ a <= b => 1 <= b
    OBVIOUS
  <2>. QED
    BY <2>1 DEF Growing
<1>2. \A s \in StartsIn(tokens') : s <= pos'
  BY <1>1 DEF Growing, StartsIn
<1>3. \A s \in StartsIn(tokens') : s \in Nat /\ (s \in StartsIn(tokens) \/ pos < s) /\ pos \in Nat
  <2>1. Grows(tokens, tokens', pos) /\ tokens' \in Seq(TokenSet)
    BY DEF Growing, Grows
  <2>. QED
    BY <2>1, StartsGrow, StartsTyped DEF Growing
<1>4. \A s \in StartsIn(tokens') : 0 < s
  BY <1>3 DEF LinesBehind
<1>. QED
  BY <1>2, <1>4

\* Through a quiet step the lines that have been seen are the same.
LEMMA SeenStays ==
    ASSUME Growing, LinesBehind(tokens, pos, atLineStart), Quiet
    PROVE  /\ SeenIn(src, tokens', pos', atLineStart') = SeenIn(src, tokens, pos, atLineStart)
           /\ LinesBehind(tokens', pos', atLineStart')
<1>1. Grows(tokens, tokens', pos) /\ Len(tokens) \in Nat /\ Len(tokens') \in Nat /\ pos \in Nat /\ pos' \in Nat
  BY DEF Growing
<1>2. StartsIn(tokens) \subseteq StartsIn(tokens') /\ \A s \in StartsIn(tokens') : 0 < s /\ s <= pos'
  BY <1>1, StartsGrow, LinesStayBehind
<1>3. CASE SameLine
  <2>1. StartsIn(tokens') = StartsIn(tokens)
    BY <1>1, <1>3, StartsGrow DEF SameLine
  <2>2. CodeIn(src, tokens') = CodeIn(src, tokens)
    BY <2>1 DEF CodeIn
  <2>3. SeenIn(src, tokens', pos', atLineStart') = SeenIn(src, tokens, pos, atLineStart)
    BY <1>3, <2>2 DEF SeenIn, SameLine
  <2>4. atLineStart' => pos' \in StartsIn(tokens')
    BY <1>3, <2>1 DEF SameLine, LinesBehind
  <2>. QED
    BY <1>2, <2>3, <2>4 DEF LinesBehind
<1>4. CASE NextLine
  <2>1. /\ ~atLineStart /\ atLineStart' /\ pos < pos' /\ Len(tokens') = Len(tokens) + 1
        /\ tokens'[Len(tokens')].type = "NEWLINE" /\ tokens'[Len(tokens')].to = pos'
    BY <1>4 DEF NextLine
  <2>2. \A n \in Nat : n + 1 \in 1 .. n + 1 /\ \A k \in 1 .. n + 1 : k \in 1 .. n \/ k = n + 1
    OBVIOUS
  <2>3. Len(tokens') \in 1 .. Len(tokens') /\ \A k \in 1 .. Len(tokens') : k \in 1 .. Len(tokens) \/ k = Len(tokens')
    BY <1>1, <2>1, <2>2
  <2>4. pos' \in StartsIn(tokens')
    BY <2>1, <2>3 DEF StartsIn
  <2>5. \A k \in 1 .. Len(tokens) : tokens'[k] = tokens[k]
    BY <1>1 DEF Grows, Extends
  <2>6. \A s \in StartsIn(tokens') : s \in StartsIn(tokens) \/ s = pos'
    BY <2>1, <2>3, <2>5 DEF StartsIn
  <2>7. \A s \in StartsIn(tokens) : s # pos'
    <3>1. StartsIn(tokens) \subseteq Nat
      BY <1>1, StartsTyped DEF Grows
    <3>2. \A s, a, b \in Nat : s <= a /\ a < b => s # b
      OBVIOUS
    <3>. QED
      BY <1>1, <2>1, <3>1, <3>2 DEF LinesBehind
  <2>8. SeenIn(src, tokens', pos', atLineStart') = SeenIn(src, tokens, pos, atLineStart)
    BY <1>2, <2>1, <2>6, <2>7 DEF SeenIn, CodeIn
  <2>. QED
    BY <1>2, <2>4, <2>8 DEF LinesBehind
<1>. QED
  BY <1>3, <1>4 DEF Quiet

\* Lines that have code are within the text, and of a width.
LEMMA SeenTyped ==
    ASSUME CursorTyped, NEW ts \in Seq(TokenSet), NEW p, NEW atStart, \A s \in StartsIn(ts) : 0 < s
    PROVE  \A s \in SeenIn(src, ts, p, atStart) :
               s \in Nat /\ s <= Len(src) /\ s \in StartsIn(ts) /\ s \in CodeIn(src, ts) /\ WideOf(src, s) \in Nat
<1>1. Len(src) \in Nat
  BY CharFacts
<1>2. \A s \in StartsIn(ts) : s \in Nat /\ s > 0
  BY StartsTyped
<1>3. ASSUME NEW s \in SeenIn(src, ts, p, atStart)
      PROVE  s \in Nat /\ s <= Len(src) /\ s \in StartsIn(ts) /\ s \in CodeIn(src, ts) /\ WideOf(src, s) \in Nat
  <2>1. s \in StartsIn(ts) /\ s <= Len(src) /\ s \in CodeIn(src, ts)
    BY DEF SeenIn, CodeIn
  <2>2. s \in Nat /\ s \in 1 .. Len(src) + 1
    BY <1>1, <1>2, <2>1
  <2>. QED
    BY <2>1, <2>2, WideTyped
<1>. QED
  BY <1>3

\* Quiet steps.
LEMMA LaidOfQuiet ==
    ASSUME Growing, Laid(src, tokens, indentStack, pos, atLineStart), Quiet
    PROVE  Laid(src, tokens', indentStack', pos', atLineStart')
<1> DEFINE seen == SeenIn(src, tokens, pos, atLineStart)
<1>1. /\ LinesBehind(tokens, pos, atLineStart) /\ LevelsCounted(tokens, indentStack)
      /\ TopLevel(src, indentStack, seen) /\ WiderOpens(src, tokens, seen)
      /\ BlocksKept(src, tokens, indentStack, seen)
  BY DEF Laid
<1>2. SeenIn(src, tokens', pos', atLineStart') = seen /\ LinesBehind(tokens', pos', atLineStart')
  BY <1>1, SeenStays
<1>3. /\ Grows(tokens, tokens', pos) /\ LayoutBehind(tokens, pos) /\ Levels(indentStack)
      /\ Len(src) \in Nat /\ pos \in Nat
  BY DEF Growing
<1>4. indentStack' = indentStack
      /\ \A k \in Len(tokens) + 1 .. Len(tokens') : tokens'[k].type \notin {"INDENT", "DEDENT"}
  BY DEF Quiet
<1>5. \A r \in seen : r \in Nat /\ r <= pos
  <2>1. CursorTyped /\ tokens \in Seq(TokenSet)
    BY TypedFacts DEF Growing
  <2>. QED
    BY <1>1, <2>1, SeenTyped DEF LinesBehind
<1> HIDE DEF seen
<1>6. LevelsCounted(tokens', indentStack')
  BY <1>1, <1>3, <1>4, LevelsOfQuiet
<1>7. WiderOpens(src, tokens', seen)
  <2>1. Grows(tokens, tokens', pos) /\ LayoutBehind(tokens, pos) /\ WiderOpens(src, tokens, seen)
    BY <1>1, <1>3
  <2>2. \A s \in seen, r \in seen : Opened(tokens, r) => Opened(tokens', r)
    BY <2>1, OpenedStays
  <2>. QED
    BY <2>1, <2>2 DEF WiderOpens
<1>8. BlocksKept(src, tokens', indentStack', seen)
  BY <1>1, <1>3, <1>4, BlocksOfQuiet
<1>. QED
  BY <1>1, <1>2, <1>4, <1>6, <1>7, <1>8 DEF Laid

\* The head of the line at the cursor: where its blanks end, and their width.
Margin == After(pos, Blanks)
Wide == Width(pos, Margin)

\* What handleIndentation does.
LEMMA HeadDoes ==
    ASSUME Growing, HandleIndentation
    PROVE  /\ atLineStart /\ ~atLineStart' /\ done' = done /\ pos <= Len(src)
           /\ Margin \in Nat /\ Margin > 0 /\ pos <= Margin /\ Margin <= Len(src) + 1 /\ pos' = Margin
           /\ Wide \in Nat /\ Wide = WideOf(src, pos)
           /\ (Blank(Margin) <=> ~HasCode(src, pos)) /\ (~Blank(Margin) => Margin <= Len(src))
<1>1. CursorTyped /\ Len(src) \in Nat /\ pos \in Nat /\ pos > 0
  BY TypedFacts DEF Growing
<1>2. atLineStart /\ ~atLineStart' /\ done' = done /\ InScanToken /\ Advance(Margin - pos)
  BY DEF HandleIndentation, Margin
<1>3. pos <= Len(src)
  BY <1>1, <1>2 DEF InScanToken, AtEnd
<1>4. "end" \notin Blanks /\ pos \in 1 .. Len(src) + 1
  BY <1>1, <1>3 DEF Blanks
<1>5. Margin \in pos .. Len(src) + 1
  BY <1>1, <1>4, AfterIs DEF Margin
<1>6. Margin \in Nat /\ Margin > 0 /\ pos <= Margin /\ Margin <= Len(src) + 1 /\ pos + (Margin - pos) = Margin
  BY <1>1, <1>5
<1>7. pos' = Margin
  BY <1>2, <1>6 DEF Advance
<1>8. Wide \in Nat
  <2>1. pos \in Int /\ Margin \in Int
    BY <1>1, <1>6
  <2>. QED
    BY <2>1, WidthTyped DEF Wide
<1>9. Wide = WideOf(src, pos) /\ (Blank(Margin) <=> ~HasCode(src, pos))
  BY LinesOfText DEF Wide, Margin
<1>10. ~Blank(Margin) => Margin <= Len(src)
  <2>1. CharAt(Margin) # "end" => Margin <= Len(src)
    BY <1>1, <1>6 DEF CharAt
  <2>. QED
    BY <2>1 DEF Blank
<1>. QED
  BY <1>2, <1>3, <1>6, <1>7, <1>8, <1>9, <1>10

\* The lines that have been seen behind the head of one: this one is new, if it has code.
LEMMA HeadLines ==
    ASSUME Growing, LinesBehind(tokens, pos, atLineStart), HandleIndentation,
           \A i \in Len(tokens) + 1 .. Len(tokens') : tokens'[i].type # "NEWLINE",
           NEW seen, seen = SeenIn(src, tokens, pos, atLineStart),
           NEW more, more = SeenIn(src, tokens', pos', atLineStart')
    PROVE  /\ LinesBehind(tokens', pos', atLineStart')
           /\ seen \subseteq more /\ more = CodeIn(src, tokens')
           /\ \A r \in more : r \in seen \/ r = pos
           /\ \A r \in more : r \in Nat /\ r <= pos /\ WideOf(src, r) \in Nat
           /\ IF Blank(Margin) THEN more = seen ELSE pos \in more /\ pos \notin seen
           /\ \A i \in 1 .. Len(tokens') : tokens'[i].from = Margin => LineIn(tokens', i) = pos
<1>1. /\ atLineStart /\ ~atLineStart' /\ pos <= Len(src) /\ Margin \in Nat /\ Margin > 0 /\ pos <= Margin /\ pos' = Margin
      /\ (Blank(Margin) <=> ~HasCode(src, pos))
  BY HeadDoes
<1>2. CursorTyped /\ Grows(tokens, tokens', pos) /\ tokens' \in Seq(TokenSet) /\ pos \in Nat
  BY TypedFacts DEF Growing, Grows
<1>3. StartsIn(tokens') = StartsIn(tokens)
  BY <1>2, StartsGrow
<1>4. pos \in StartsIn(tokens') /\ \A s \in StartsIn(tokens') : 0 < s /\ s <= pos
  BY <1>1, <1>3 DEF LinesBehind
<1>5. LinesBehind(tokens', pos', atLineStart')
  BY <1>1, LinesStayBehind DEF LinesBehind
<1>6. more = CodeIn(src, tokens') /\ CodeIn(src, tokens') = CodeIn(src, tokens)
  BY <1>1, <1>3 DEF SeenIn, CodeIn
<1>7. seen = CodeIn(src, tokens) \ {pos}
  BY <1>1 DEF SeenIn
<1>8. \A r \in more : r \in Nat /\ r \in StartsIn(tokens') /\ WideOf(src, r) \in Nat
  BY <1>2, <1>4, SeenTyped
<1>9. \A r \in more : r <= pos
  BY <1>4, <1>8
<1>10. pos \in more <=> ~Blank(Margin)
  BY <1>1, <1>4, <1>6 DEF CodeIn
<1>11. IF Blank(Margin) THEN more = seen ELSE pos \in more /\ pos \notin seen
  BY <1>6, <1>7, <1>10
<1>12. ASSUME NEW i \in 1 .. Len(tokens'), tokens'[i].from = Margin PROVE LineIn(tokens', i) = pos
  <2>1. \A r \in StartsIn(tokens') : r <= tokens'[i].from => r <= pos
    BY <1>4
  <2>2. pos <= tokens'[i].from /\ tokens'[i].from > 0
    BY <1>1, <1>12
  <2>. QED
    BY <1>2, <1>4, <2>1, <2>2, LineUnique
<1>. QED
  BY <1>5, <1>6, <1>7, <1>8, <1>9, <1>11, <1>12

\* A line without code, or as wide as the innermost level.
LEMMA LaidOfSame ==
    ASSUME Growing, Laid(src, tokens, indentStack, pos, atLineStart), HandleIndentation,
           tokens' = tokens, indentStack' = indentStack, Blank(Margin) \/ Wide = indentStack[Len(indentStack)]
    PROVE  Laid(src, tokens', indentStack', pos', atLineStart')
<1> DEFINE seen == SeenIn(src, tokens, pos, atLineStart)
           more == SeenIn(src, tokens', pos', atLineStart')
           top == indentStack[Len(indentStack)]
<1>1. /\ LinesBehind(tokens, pos, atLineStart) /\ LevelsCounted(tokens, indentStack)
      /\ TopLevel(src, indentStack, seen) /\ WiderOpens(src, tokens, seen)
      /\ BlocksKept(src, tokens, indentStack, seen)
  BY DEF Laid
<1>2. /\ Grows(tokens, tokens', pos) /\ LayoutBehind(tokens, pos) /\ Levels(indentStack)
      /\ Len(src) \in Nat /\ pos \in Nat
  BY DEF Growing
<1>3. Len(tokens) + 1 .. Len(tokens') = {}
  BY NoneNewTokens DEF Growing
<1>4. \A k \in Len(tokens) + 1 .. Len(tokens') : tokens'[k].type \notin {"INDENT", "DEDENT"} /\ tokens'[k].type # "NEWLINE"
  BY <1>3
<1>5. /\ LinesBehind(tokens', pos', atLineStart') /\ seen \subseteq more
      /\ \A r \in more : r \in seen \/ r = pos
      /\ \A r \in more : r \in Nat /\ r <= pos /\ WideOf(src, r) \in Nat
      /\ IF Blank(Margin) THEN more = seen ELSE pos \in more /\ pos \notin seen
  BY <1>1, <1>4, HeadLines
<1>6. Wide = WideOf(src, pos) /\ Wide \in Nat
  BY HeadDoes
<1>7. top \in Nat
  BY <1>2 DEF Levels
<1> HIDE DEF seen, more, top
<1>8. CASE Blank(Margin)
  <2>1. more = seen
    BY <1>5, <1>8
  <2>. QED
    BY <1>1, <1>5, <2>1 DEF Laid, seen, more
<1>9. CASE ~Blank(Margin)
  <2>1. WideOf(src, pos) = top
    BY <1>6, <1>9 DEF top
  <2>2. TopLevel(src, indentStack, more)
    <3>1. pos \in more /\ \A s \in more : s \in Nat /\ s <= pos
      BY <1>5, <1>9
    <3>2. \A s \in more : (\A q \in more : q <= s) => s = pos
      BY <1>2, <3>1
    <3>3. top <= WideOf(src, pos)
      BY <1>7, <2>1
    <3>. QED
      BY <3>2, <3>3 DEF TopLevel, top
  <2>3. WiderOpens(src, tokens', more)
    <3>1. ASSUME NEW s \in seen, \A q \in seen : q <= s, WideOf(src, s) < WideOf(src, pos) PROVE FALSE
      <4>1. top <= WideOf(src, s)
        BY <1>1, <3>1 DEF TopLevel, top
      <4>2. WideOf(src, s) \in Nat
        BY <1>5
      <4>. QED
        BY <1>7, <2>1, <3>1, <4>1, <4>2
    <3>. QED
      BY <1>1, <1>2, <1>5, <3>1, WidersStay
  <2>4. BlocksKept(src, tokens', indentStack, more)
    <3>1. \A r \in more : r \in seen \/ (WideOf(src, r) \in Nat /\ indentStack[Len(indentStack)] <= WideOf(src, r))
      BY <1>5, <1>7, <2>1 DEF top
    <3>. QED
      BY <1>1, <1>2, <1>4, <3>1, BlocksOfQuiet
  <2>. QED
    BY <1>1, <1>5, <2>2, <2>3, <2>4 DEF Laid, more
<1>. QED
  BY <1>8, <1>9

\* A layout token is emitted at the place behind the blanks.
LEMMA LayoutFacts ==
    ASSUME Growing, NEW type \in {"INDENT", "DEDENT"}, NEW k \in Nat
    PROVE  Layout(type, k) \in TokenSet /\ Layout(type, k).type = type /\ Layout(type, k).from = pos + k
<1>1. CursorTyped /\ pos \in Nat
  BY TypedFacts DEF Growing
<1>2. HereAfter(k) \in Places /\ pos + k \in Nat /\ type \in Types
  BY <1>1, HereTyped DEF Types, Marks
<1>3. Layout(type, k) \in TokenSet
  BY <1>2, TokenTyped DEF Layout
<1>. QED
  BY <1>3 DEF Layout, Token, HereAfter

\* A wider line.
LEMMA LaidOfPush ==
    ASSUME Growing, Laid(src, tokens, indentStack, pos, atLineStart), HandleIndentation,
           ~Blank(Margin), Wide > indentStack[Len(indentStack)],
           indentStack' = Append(indentStack, Wide), tokens' = tokens \o <<Layout("INDENT", Margin - pos)>>
    PROVE  Laid(src, tokens', indentStack', pos', atLineStart')
<1> DEFINE seen == SeenIn(src, tokens, pos, atLineStart)
           more == SeenIn(src, tokens', pos', atLineStart')
           n == Len(indentStack)
           t == Layout("INDENT", Margin - pos)
<1>1. /\ LinesBehind(tokens, pos, atLineStart) /\ LevelsCounted(tokens, indentStack)
      /\ TopLevel(src, indentStack, seen) /\ WiderOpens(src, tokens, seen)
      /\ BlocksKept(src, tokens, indentStack, seen)
  BY DEF Laid
<1>2. /\ Grows(tokens, tokens', pos) /\ LayoutBehind(tokens, pos) /\ Levels(indentStack)
      /\ Len(src) \in Nat /\ pos \in Nat /\ Len(tokens) \in Nat
  BY DEF Growing
<1>3. Wide = WideOf(src, pos) /\ Wide \in Nat /\ Margin \in Nat /\ pos <= Margin /\ Margin > 0
  BY HeadDoes
<1>4. t \in TokenSet /\ t.type = "INDENT" /\ t.from = Margin
  <2>1. Margin - pos \in Nat /\ pos + (Margin - pos) = Margin
    BY <1>2, <1>3
  <2>. QED
    BY <2>1, LayoutFacts
<1>5. OneMore(t)
  BY <1>4, EmitOne DEF Growing
<1> HIDE DEF t
<1>6. Len(tokens') = Len(tokens) + 1 /\ tokens'[Len(tokens')] = t /\ Len(tokens') \in 1 .. Len(tokens')
  <2>1. Len(tokens') = Len(tokens) + 1 /\ tokens'[Len(tokens) + 1] = t
    BY <1>5 DEF OneMore
  <2>2. \A m \in Nat : m + 1 \in 1 .. m + 1
    OBVIOUS
  <2>. QED
    BY <1>2, <2>1, <2>2
<1>7. \A i \in Len(tokens) + 1 .. Len(tokens') : tokens'[i].type # "NEWLINE"
  <2>1. \A m \in Nat : \A k \in m + 1 .. m + 1 : k = m + 1
    OBVIOUS
  <2>. QED
    BY <1>2, <1>4, <1>6, <2>1
<1>8. /\ LinesBehind(tokens', pos', atLineStart') /\ seen \subseteq more
      /\ \A r \in more : r \in seen \/ r = pos
      /\ \A r \in more : r \in Nat /\ r <= pos /\ WideOf(src, r) \in Nat
      /\ pos \in more /\ pos \notin seen
      /\ LineIn(tokens', Len(tokens')) = pos
  BY <1>1, <1>4, <1>6, <1>7, HeadLines
<1>9. n \in Nat /\ indentStack[n] \in Nat /\ Len(indentStack') = n + 1 /\ indentStack'[n + 1] = Wide
  <2>1. indentStack \in Seq(Nat) /\ n \in Nat /\ n > 0
    BY <1>2 DEF Levels
  <2>2. Len(indentStack') = n + 1 /\ indentStack'[n + 1] = Wide
    BY <1>3, <2>1, AppendProperties
  <2>. QED
    BY <2>1, <2>2
<1> HIDE DEF seen, more
<1>10. LevelsCounted(tokens', indentStack')
  BY <1>1, <1>2, <1>3, <1>4, <1>6, <1>9, LevelsOfPush
<1>11. TopLevel(src, indentStack', more)
  <2>1. \A s \in more : (\A q \in more : q <= s) => s = pos
    BY <1>2, <1>8
  <2>2. indentStack'[Len(indentStack')] <= WideOf(src, pos)
    BY <1>3, <1>9
  <2>. QED
    BY <2>1, <2>2 DEF TopLevel
<1>12. WiderOpens(src, tokens', more)
  <2>1. Opened(tokens', pos)
    BY <1>4, <1>6, <1>8 DEF Opened, Openers
  <2>. QED
    BY <1>1, <1>2, <1>8, <2>1, WidersStay
<1>13. BlocksKept(src, tokens', indentStack', more)
  <2>1. indentStack' = Append(indentStack, WideOf(src, pos)) /\ indentStack[Len(indentStack)] < WideOf(src, pos)
    BY <1>3, <1>9
  <2>2. tokens'[Len(tokens')].type = "INDENT" /\ LineIn(tokens', Len(tokens')) = pos /\ WideOf(src, pos) \in Nat
    BY <1>3, <1>4, <1>6, <1>8
  <2>3. (\A r \in more : r \in seen \/ r = pos) /\ (\A r \in more : r \in Nat /\ r <= pos)
    BY <1>8
  <2>. QED
    BY <1>1, <1>2, <1>6, <2>1, <2>2, <2>3, BlocksOfPush
<1>. QED
  BY <1>1, <1>8, <1>10, <1>11, <1>12, <1>13 DEF Laid, more

\* A narrower line.
LEMMA LaidOfClose ==
    ASSUME Growing, Laid(src, tokens, indentStack, pos, atLineStart), HandleIndentation,
           ~Blank(Margin), Wide < indentStack[Len(indentStack)], indentStack' = Kept(Wide),
           tokens' = tokens \o [i \in 1 .. Len(indentStack) - Len(Kept(Wide)) |-> Layout("DEDENT", Margin - pos)]
    PROVE  Laid(src, tokens', indentStack', pos', atLineStart')
<1> DEFINE seen == SeenIn(src, tokens, pos, atLineStart)
           more == SeenIn(src, tokens', pos', atLineStart')
           n == Len(indentStack)
           m == Len(Kept(Wide))
           t == Layout("DEDENT", Margin - pos)
           b == Len(tokens')
<1>1. /\ LinesBehind(tokens, pos, atLineStart) /\ LevelsCounted(tokens, indentStack)
      /\ TopLevel(src, indentStack, seen) /\ WiderOpens(src, tokens, seen)
      /\ BlocksKept(src, tokens, indentStack, seen)
  BY DEF Laid
<1>2. /\ Grows(tokens, tokens', pos) /\ LayoutBehind(tokens, pos) /\ Levels(indentStack) /\ StackTyped
      /\ Len(src) \in Nat /\ pos \in Nat /\ Len(tokens) \in Nat /\ Len(tokens') \in Nat
  BY TypedFacts DEF Growing
<1>3. /\ Wide = WideOf(src, pos) /\ Wide \in Nat /\ Margin \in Nat /\ pos <= Margin /\ Margin > 0
      /\ Margin <= Len(src) /\ pos <= Len(src)
  BY HeadDoes
<1>4. t \in TokenSet /\ t.type = "DEDENT" /\ t.from = Margin
  <2>1. Margin - pos \in Nat /\ pos + (Margin - pos) = Margin
    BY <1>2, <1>3
  <2>. QED
    BY <2>1, LayoutFacts
<1>5. /\ m \in 1 .. n /\ indentStack[m] <= Wide /\ \A i \in m + 1 .. n : indentStack[i] > Wide
      /\ \A i \in 1 .. m : Kept(Wide)[i] = indentStack[i]
  BY <1>2, <1>3, KeptFacts
<1>6. n \in Nat /\ m \in Nat /\ m <= n /\ n - m \in Nat
  <2>1. n \in Nat
    BY <1>2 DEF Levels
  <2>. QED
    BY <1>5, <2>1
<1>7. Len(tokens') = Len(tokens) + (n - m) /\ \A i \in Len(tokens) + 1 .. Len(tokens') : tokens'[i] = t
  <2>1. Typed /\ tokens' = tokens \o [i \in 1 .. n - m |-> t]
    BY DEF Growing
  <2> HIDE DEF n, m, t
  <2>. QED
    BY <1>4, <1>6, <2>1, EmitMany
<1>8. \A i \in Len(tokens) + 1 .. Len(tokens') : tokens'[i].type # "NEWLINE"
  BY <1>4, <1>7
<1>9. /\ LinesBehind(tokens', pos', atLineStart') /\ seen \subseteq more /\ more = CodeIn(src, tokens')
      /\ \A r \in more : r \in seen \/ r = pos
      /\ \A r \in more : r \in Nat /\ r <= pos /\ WideOf(src, r) \in Nat
      /\ pos \in more /\ pos \notin seen
      /\ \A i \in 1 .. Len(tokens') : tokens'[i].from = Margin => LineIn(tokens', i) = pos
  BY <1>1, <1>8, HeadLines
<1> HIDE DEF seen, more, t
<1>10. Closes(tokens, tokens', indentStack, m, b)
  <2>1. \A l \in Nat : \A k \in l + 1 .. l : FALSE
    OBVIOUS
  <2>2. b + 1 .. Len(tokens') = {}
    BY <1>2, <2>1
  <2>3. b = Len(tokens) + n - m /\ b <= Len(tokens')
    <3> DEFINE c == Len(tokens')
               a == Len(tokens)
    <3>1. a \in Nat /\ c \in Nat /\ c = a + (n - m)
      BY <1>2, <1>7
    <3> HIDE DEF a, c, n, m
    <3>2. c = a + n - m /\ c <= c
      BY <1>6, <3>1
    <3>. QED
      BY <3>2 DEF a, c
  <2>. QED
    BY <1>2, <1>4, <1>5, <1>7, <2>2, <2>3 DEF Closes
<1>11. \A k \in Len(tokens) + 1 .. b : EndOf(src, tokens', k) = pos /\ tokens'[k].from > 0
  <2>1. \A k \in Len(tokens) + 1 .. b : k \in 1 .. Len(tokens')
    <3>1. \A a, c \in Nat : \A k \in a + 1 .. c : k \in 1 .. c
      OBVIOUS
    <3>. QED
      BY <1>2, <3>1
  <2>2. ~(Margin > Len(src))
    BY <1>2, <1>3
  <2>3. \A k \in Len(tokens) + 1 .. b : tokens'[k].from = Margin
    BY <1>4, <1>7
  <2>. QED
    BY <1>3, <1>9, <2>1, <2>2, <2>3 DEF EndOf
<1>12. indentStack' = Kept(Wide) /\ Len(indentStack') = m
  OBVIOUS
<1>13. \A k \in 1 .. m : indentStack'[k] = indentStack[k]
  BY <1>5
<1>14. indentStack[m] \in Nat
  BY <1>2, <1>5 DEF Levels
<1> HIDE DEF m, b
<1>15. /\ seen \subseteq more /\ pos \in more /\ pos \notin seen
       /\ \A r \in more : r \in seen \/ r = pos
       /\ \A r \in more : r \in Nat /\ r <= pos
  BY <1>9
<1>16. \A r \in more : WideOf(src, r) \in Nat
  BY <1>9
<1>17. LevelsCounted(tokens', indentStack')
  BY <1>1, <1>2, <1>10, <1>11, <1>12, LevelsOfClose
<1>18. TopLevel(src, indentStack', more)
  <2>1. \A s \in more : (\A q \in more : q <= s) => s = pos
    BY <1>2, <1>15
  <2>2. indentStack'[m] = indentStack[m]
    BY <1>5, <1>6, <1>13
  <2>3. indentStack'[Len(indentStack')] <= WideOf(src, pos)
    BY <1>3, <1>5, <1>12, <2>2
  <2>. QED
    BY <2>1, <2>3 DEF TopLevel
<1>19. WiderOpens(src, tokens', more)
  <2>1. ASSUME NEW s \in seen, \A q \in seen : q <= s, WideOf(src, s) < WideOf(src, pos) PROVE FALSE
    <3>1. indentStack[n] <= WideOf(src, s)
      BY <1>1, <2>1 DEF TopLevel
    <3>2. WideOf(src, s) \in Nat /\ indentStack[n] \in Nat
      BY <1>2, <1>15, <1>16 DEF Levels
    <3>3. WideOf(src, pos) < indentStack[n]
      BY <1>3
    <3>. QED
      BY <1>3, <2>1, <3>1, <3>2, <3>3
  <2>. QED
    BY <1>1, <1>2, <1>15, <2>1, WidersStay
<1>20. BlocksKept(src, tokens', indentStack', more)
  <2>1. pos <= Len(src) => \A k \in m + 1 .. Len(indentStack) : WideOf(src, pos) < indentStack[k]
    <3>1. ASSUME NEW k \in m + 1 .. n PROVE WideOf(src, pos) < indentStack[k]
      <4>1. k \in 1 .. n
        BY <1>6
      <4>2. indentStack[k] \in Nat /\ indentStack[k] > Wide
        BY <1>2, <1>5, <4>1 DEF Levels
      <4>. QED
        BY <1>3, <4>2
    <3>. QED
      BY <3>1
  <2>2. \A r \in CodeIn(src, tokens') : r < pos => r \in seen
    <3>1. \A r \in CodeIn(src, tokens') : r \in more
      BY <1>9
    <3>2. \A r \in more : r < pos => r \in Nat /\ r # pos
      BY <1>2, <1>15
    <3>. QED
      BY <1>15, <3>1, <3>2
  <2>3. \A r \in more : r \in seen \/ (WideOf(src, r) \in Nat /\ indentStack[m] <= WideOf(src, r))
    BY <1>3, <1>5, <1>15
  <2>4. \A k \in Len(tokens) + 1 .. b : EndOf(src, tokens', k) = pos
    BY <1>11
  <2>. QED
    <3>1. /\ Len(src) \in Nat /\ Grows(tokens, tokens', pos) /\ LayoutBehind(tokens, pos)
          /\ Levels(indentStack) /\ LevelsCounted(tokens, indentStack)
          /\ BlocksKept(src, tokens, indentStack, seen)
      BY <1>1, <1>2
    <3>. QED
      <4>1. Narrows(src, tokens, tokens', indentStack, m, b, pos, seen)
        BY <2>1, <2>2, <2>4 DEF Narrows
      <4>2. AsWide(src, indentStack, m, seen, more)
        BY <2>3 DEF AsWide
      <4>. QED
        BY <1>10, <1>13, <3>1, <4>1, <4>2, BlocksOfClose
<1>. QED
  BY <1>1, <1>9, <1>17, <1>18, <1>19, <1>20 DEF Laid, more

\* handleIndentation, for any line.
LEMMA LaidOfHead ==
    ASSUME Growing, Laid(src, tokens, indentStack, pos, atLineStart), HandleIndentation
    PROVE  Laid(src, tokens', indentStack', pos', atLineStart')
<1> DEFINE top == indentStack[Len(indentStack)]
           k == After(pos, Blanks)
<1>1. /\ IF Blank(Margin) \/ Wide = top
         THEN UNCHANGED <<indentStack, tokens, errors>>
         ELSE IF Wide > top
         THEN indentStack' = Append(indentStack, Wide) /\ Emit(<<Layout("INDENT", Margin - pos)>>)
         ELSE /\ indentStack' = Kept(Wide)
              /\ tokens' = tokens \o [i \in 1 .. Len(indentStack) - Len(Kept(Wide)) |-> Layout("DEDENT", Margin - pos)]
  BY DEF HandleIndentation, Margin, Wide
<1>2. Wide \in Nat /\ top \in Nat
  <2>1. Levels(indentStack)
    BY DEF Growing
  <2>2. top \in Nat
    BY <2>1 DEF Levels
  <2>. QED
    BY <2>2, HeadDoes
<1> HIDE DEF top
<1>3. CASE Blank(Margin) \/ Wide = top
  BY <1>1, <1>3, LaidOfSame DEF top
<1>4. CASE ~(Blank(Margin) \/ Wide = top) /\ Wide > top
  <2>1. indentStack' = Append(indentStack, Wide) /\ tokens' = tokens \o <<Layout("INDENT", Margin - pos)>>
    BY <1>1, <1>4 DEF Emit
  <2>. QED
    BY <1>4, <2>1, LaidOfPush DEF top
<1>5. CASE ~(Blank(Margin) \/ Wide = top) /\ ~(Wide > top)
  <2>1. indentStack' = Kept(Wide)
        /\ tokens' = tokens \o [i \in 1 .. Len(indentStack) - Len(Kept(Wide)) |-> Layout("DEDENT", Margin - pos)]
    BY <1>1, <1>5
  <2>2. Wide < top
    BY <1>2, <1>5
  <2>. QED
    BY <1>5, <2>1, <2>2, LaidOfClose DEF top
<1>. QED
  BY <1>3, <1>4, <1>5

\* At the end of the text every block that is open ends.
LEMMA LaidOfFinish ==
    ASSUME Growing, Laid(src, tokens, indentStack, pos, atLineStart), Finish
    PROVE  Laid(src, tokens', indentStack', pos', atLineStart')
<1> DEFINE seen == SeenIn(src, tokens, pos, atLineStart)
           n == Len(indentStack)
           d == Layout("DEDENT", 0)
           e == Layout("EOF", 0)
           mid == tokens \o [i \in 1 .. n - 1 |-> d]
           b == Len(tokens) + (n - 1)
<1>1. /\ LinesBehind(tokens, pos, atLineStart) /\ LevelsCounted(tokens, indentStack)
      /\ TopLevel(src, indentStack, seen) /\ WiderOpens(src, tokens, seen)
      /\ BlocksKept(src, tokens, indentStack, seen)
  BY DEF Laid
<1>2. /\ Grows(tokens, tokens', pos) /\ LayoutBehind(tokens, pos) /\ Levels(indentStack) /\ CursorTyped
      /\ indentStack[1] = 0 /\ tokens \in Seq(TokenSet) /\ tokens' \in Seq(TokenSet)
      /\ Len(src) \in Nat /\ pos \in Nat /\ pos > 0 /\ Len(tokens) \in Nat /\ Len(tokens') \in Nat
  BY TypedFacts DEF Growing, StackTyped, Grows
<1>3. /\ pos > Len(src) /\ pos' = pos /\ atLineStart' = atLineStart /\ indentStack' = <<0>>
      /\ tokens' = tokens \o ([i \in 1 .. n - 1 |-> d] \o <<e>>)
  BY DEF Finish, AtEnd, cursor, Emit
<1>4. d \in TokenSet /\ d.type = "DEDENT" /\ d.from = pos
  <2>1. 0 \in Nat /\ "DEDENT" \in {"INDENT", "DEDENT"} /\ pos + 0 = pos
    BY <1>2
  <2>2. d \in TokenSet /\ d.type = "DEDENT" /\ d.from = pos + 0
    BY <2>1, LayoutFacts
  <2>. QED
    BY <2>1, <2>2
<1>5. e \in TokenSet /\ e.type = "EOF"
  <2>1. HereAfter(0) \in Places /\ pos + 0 \in Nat /\ "EOF" \in Types
    BY <1>2, HereTyped DEF Types, Marks
  <2>2. e \in TokenSet
    BY <2>1, TokenTyped DEF Layout
  <2>. QED
    BY <2>2 DEF Layout, Token
<1>6. n \in Nat /\ n > 0 /\ n - 1 \in Nat /\ b \in Nat /\ 1 \in 1 .. n
  <2>1. n \in Nat /\ n > 0
    BY <1>2 DEF Levels
  <2>. QED
    BY <1>2, <2>1
<1> HIDE DEF n, d, e
<1>7. /\ Len(tokens') = b + 1 /\ \A i \in Len(tokens) + 1 .. b : tokens'[i] = d
      /\ tokens'[b + 1] = e
  <2> DEFINE ds == [i \in 1 .. n - 1 |-> d]
  <2>1. ds \in Seq(TokenSet) /\ Len(ds) = n - 1 /\ \A i \in 1 .. n - 1 : ds[i] = d
    BY <1>4, <1>6
  <2> HIDE DEF ds
  <2>2. /\ <<e>> \in Seq(TokenSet) /\ Len(<<e>>) = 1 /\ <<e>>[1] = e
    BY <1>5
  <2> DEFINE es == <<e>>
             last == ds \o es
  <2> HIDE DEF es
  <2>3. /\ last \in Seq(TokenSet) /\ Len(last) = n /\ \A i \in 1 .. n - 1 : last[i] = d
        /\ last[n] = e
    <3>1. es \in Seq(TokenSet) /\ Len(es) = 1 /\ es[1] = e
      BY <2>2 DEF es
    <3>2. /\ last \in Seq(TokenSet) /\ Len(last) = Len(ds) + Len(es)
          /\ \A i \in 1 .. Len(ds) + Len(es) : last[i] = IF i <= Len(ds) THEN ds[i] ELSE es[i - Len(ds)]
      BY <2>1, <3>1, ConcatProperties
    <3>3. n - 1 + 1 = n /\ ~(n <= n - 1) /\ n - (n - 1) = 1 /\ n \in 1 .. n
          /\ \A i \in 1 .. n - 1 : i \in 1 .. n /\ i <= n - 1
      BY <1>6
    <3>. QED
      BY <2>1, <3>1, <3>2, <3>3
  <2> HIDE DEF last
  <2>4. tokens' = tokens \o last
    BY <1>3 DEF last, ds, es
  <2> DEFINE a == Len(tokens)
  <2>5. /\ Len(tokens') = a + n
        /\ \A i \in 1 .. a + n : tokens'[i] = IF i <= a THEN tokens[i] ELSE last[i - a]
    BY <1>2, <2>3, <2>4, ConcatProperties
  <2>6. a \in Nat
    BY <1>2
  <2> HIDE DEF a
  <2>7. a + (n - 1) + 1 = a + n /\ a + n \in 1 .. a + n /\ ~(a + n <= a) /\ a + n - a = n
    BY <1>6, <2>6
  <2>8. \A i \in a + 1 .. a + (n - 1) : i \in 1 .. a + n /\ ~(i <= a) /\ i - a \in 1 .. n - 1
    BY <1>6, <2>6
  <2>9. tokens'[a + n] = e
    <3> DEFINE c == a + n
    <3>1. c \in 1 .. c /\ ~(c <= a) /\ c - a = n
      BY <1>6, <2>6
    <3>2. \A i \in 1 .. c : tokens'[i] = IF i <= a THEN tokens[i] ELSE last[i - a]
      BY <2>5
    <3> HIDE DEF c
    <3>3. tokens'[c] = last[c - a]
      BY <3>1, <3>2
    <3>4. tokens'[c] = e
      BY <2>3, <3>1, <3>3
    <3>. QED
      BY <3>4 DEF c
  <2>10. \A i \in a + 1 .. a + (n - 1) : tokens'[i] = d
    <3>1. \A i \in a + 1 .. a + (n - 1) : tokens'[i] = last[i - a]
      BY <2>5, <2>8
    <3>. QED
      BY <2>3, <2>8, <3>1
  <2>. QED
    BY <2>5, <2>7, <2>9, <2>10 DEF a
<1>8. \A i \in b + 1 .. Len(tokens') : i = b + 1
  BY <1>6, <1>7
<1>9. Closes(tokens, tokens', indentStack, 1, b)
  <2>1. b = Len(tokens) + Len(indentStack) - 1 /\ b <= Len(tokens')
    <3> DEFINE a == Len(tokens)
               c == Len(tokens')
    <3>1. a \in Nat /\ c \in Nat /\ c = a + (n - 1) + 1
      BY <1>2, <1>7
    <3> HIDE DEF a, c
    <3>2. a + (n - 1) = a + n - 1 /\ a + (n - 1) <= c
      BY <1>6, <3>1
    <3>. QED
      BY <3>2 DEF a, c, n
  <2>2. \A i \in b + 1 .. Len(tokens') : tokens'[i].type \notin {"INDENT", "DEDENT"}
    BY <1>5, <1>7, <1>8
  <2>. QED
    BY <1>4, <1>6, <1>7, <2>1, <2>2 DEF Closes, n
<1> HIDE DEF b
<1>10. \A i \in Len(tokens) + 1 .. Len(tokens') : i \in Len(tokens) + 1 .. b \/ i = b + 1
  BY <1>2, <1>6, <1>8
<1>11. \A i \in Len(tokens) + 1 .. Len(tokens') : tokens'[i].type # "NEWLINE"
  BY <1>4, <1>5, <1>7, <1>10
<1>12. StartsIn(tokens') = StartsIn(tokens)
  BY <1>2, <1>11, StartsGrow
<1>13. SeenIn(src, tokens', pos', atLineStart') = seen /\ LinesBehind(tokens', pos', atLineStart')
  BY <1>1, <1>3, <1>12 DEF SeenIn, CodeIn, LinesBehind
<1>14. \A r \in seen : r \in Nat /\ r <= pos /\ WideOf(src, r) \in Nat
  BY <1>1, <1>2, SeenTyped DEF LinesBehind
<1>15. \A r \in CodeIn(src, tokens') : r < Len(src) + 1 => r \in seen
  <2>1. CodeIn(src, tokens') = CodeIn(src, tokens)
    BY <1>12 DEF CodeIn
  <2>2. \A r \in CodeIn(src, tokens') : r # pos
    <3>1. ASSUME NEW r \in CodeIn(src, tokens') PROVE r \in Nat /\ r <= Len(src)
      <4>1. r \in Nat
        BY <1>2, CodeGrows
      <4>. QED
        BY <4>1 DEF CodeIn
    <3>2. \A a, l, p \in Nat : a <= l /\ p > l => a # p
      OBVIOUS
    <3>. QED
      BY <1>2, <1>3, <3>1, <3>2
  <2>. QED
    BY <2>1, <2>2 DEF SeenIn
<1> HIDE DEF seen
<1>16. Len(indentStack') = 1 /\ indentStack'[1] = 0 /\ \A k \in 1 .. 1 : indentStack'[k] = indentStack[k]
  BY <1>2, <1>3
<1>17. LevelsCounted(tokens', indentStack')
  <2>1. \A i \in Len(tokens) + 1 .. b : tokens'[i].from > 0
    BY <1>2, <1>4, <1>7
  <2>. QED
    BY <1>1, <1>2, <1>9, <1>16, <2>1, LevelsOfClose
<1>18. TopLevel(src, indentStack', seen)
  BY <1>14, <1>16 DEF TopLevel
<1>19. WiderOpens(src, tokens', seen)
  <2>1. \A s \in seen, r \in seen : Opened(tokens, r) => Opened(tokens', r)
    BY <1>2, OpenedStays
  <2>. QED
    BY <1>1, <2>1 DEF WiderOpens
<1>20. BlocksKept(src, tokens', indentStack', seen)
  <2>1. \A k \in Len(tokens) + 1 .. b : EndOf(src, tokens', k) = Len(src) + 1
    BY <1>3, <1>4, <1>7 DEF EndOf
  <2>2. ~(Len(src) + 1 <= Len(src))
    BY <1>2
  <2>3. Narrows(src, tokens, tokens', indentStack, 1, b, Len(src) + 1, seen)
    BY <1>15, <2>1, <2>2 DEF Narrows
  <2>4. AsWide(src, indentStack, 1, seen, seen)
    BY DEF AsWide
  <2>. QED
    BY <1>1, <1>2, <1>9, <1>16, <2>3, <2>4, BlocksOfClose
<1>. QED
  BY <1>13, <1>17, <1>18, <1>19, <1>20 DEF Laid

--------------------------------------------------------------------------------
\* The invariant, and what it says at the end.

\* Before the first step there is one level and no block.
LEMMA InitLaid == ASSUME Init PROVE Laid(src, tokens, indentStack, pos, atLineStart)
<1>1. pos = 1 /\ tokens = <<>> /\ Len(tokens) = 0 /\ indentStack = <<0>> /\ atLineStart = TRUE
  BY DEF Init
<1>2. Openers(tokens) = {} /\ \A k \in 1 .. Len(tokens) : FALSE
  BY <1>1 DEF Openers
<1>3. StartsIn(tokens) = {1}
  BY <1>2 DEF StartsIn
<1>4. SeenIn(src, tokens, pos, atLineStart) = {}
  BY <1>1, <1>3 DEF SeenIn, CodeIn
<1>5. Len(indentStack) = 1 /\ Deep(tokens, Len(tokens)) = 0
  <2>1. Deep(tokens, 0) = 0
    BY DeepZero
  <2>. QED
    BY <1>1, <2>1
<1>6. LinesBehind(tokens, pos, atLineStart)
  BY <1>1, <1>3 DEF LinesBehind
<1>7. LevelsCounted(tokens, indentStack)
  BY <1>2, <1>5 DEF LevelsCounted
<1>8. /\ TopLevel(src, indentStack, {}) /\ WiderOpens(src, tokens, {})
      /\ BlocksKept(src, tokens, indentStack, {})
  BY <1>2 DEF TopLevel, WiderOpens, BlocksKept
<1>. QED
  BY <1>4, <1>6, <1>7, <1>8 DEF Laid

\* Every step keeps blocks as they are to be.
LEMMA BlocksStayLaid ==
    ASSUME IInv, BlocksLaid, [Next]_vars
    PROVE  BlocksLaid'
<1> SUFFICES ASSUME ~BrokenInterpolation' PROVE Laid(src', tokens', indentStack', pos', atLineStart')
  BY DEF BlocksLaid
<1>1. Typed /\ InTokenOf /\ StartsBehind
  BY DEF IInv, PlacesTrue, StartsBehind
<1>2. ~BrokenInterpolation
  BY <1>1, EveryStep, StaysBroken
<1>3. Laid(src, tokens, indentStack, pos, atLineStart)
  BY <1>2 DEF BlocksLaid
<1>4. Growing
  BY <1>3, StepsGrow DEF Laid
<1>5. Laid(src, tokens', indentStack', pos', atLineStart')
  <2>1. CASE HandleIndentation
    BY <1>3, <1>4, <2>1, LaidOfHead
  <2>2. CASE Finish
    BY <1>3, <1>4, <2>2, LaidOfFinish
  <2>3. CASE ~HandleIndentation /\ ~Finish
    BY <1>2, <1>3, <1>4, <2>3, QuietSteps, LaidOfQuiet
  <2>. QED
    BY <2>1, <2>2, <2>3
<1>6. src' = src
  BY <1>4 DEF Growing
<1>. QED
  BY <1>5, <1>6

\* The scanner is done at the end, and no level is open then.
LEMMA LevelsStayEnded ==
    ASSUME IInv, LevelsEnd, [Next]_vars
    PROVE  LevelsEnd'
<1>1. Typed /\ InTokenOf /\ StartsBehind
  BY DEF IInv, PlacesTrue, StartsBehind
<1>2. Stepped
  BY <1>1, EveryStep
<1>3. src' = src /\ pos <= pos' /\ pos \in Nat /\ pos' \in Nat /\ Len(src) \in Nat
  BY <1>1, <1>2, TypedFacts DEF Stepped, CursorTyped
<1>4. AtEnd => AtEnd'
  <2>1. \A a, b, c \in Nat : a > c /\ a <= b => b > c
    OBVIOUS
  <2>. QED
    BY <1>3, <2>1 DEF AtEnd
<1>5. CASE Finish
  <2>1. AtEnd /\ Len(indentStack') = 1
    BY <1>5 DEF Finish
  <2>. QED
    BY <1>4, <2>1 DEF LevelsEnd
<1>6. CASE HandleIndentation \/ ScanRound \/ StartString
  <2>1. ~AtEnd /\ done' = done
    BY <1>6 DEF HandleIndentation, ScanRound, SkipBlank, Newline, CarriageReturn, SkipLineComment, SkipBlockComment,
                ScanWord, ScanOperator, StartString, Scan, InScanToken
  <2>. QED
    BY <2>1 DEF LevelsEnd
<1>7. CASE \/ StringChar \/ StringEscape \/ StartInterpolation \/ EndString \/ BreakString
           \/ InterpolationToken \/ EndInterpolation \/ BreakInterpolation \/ UNCHANGED vars
  <2>1. done' = done /\ indentStack' = indentStack
    BY <1>7 DEF StringChar, StringEscape, StartInterpolation, EndString, BreakString, InString,
                InterpolationToken, EndInterpolation, BreakInterpolation, InInterpolation, layout, vars
  <2>. QED
    BY <1>4, <2>1 DEF LevelsEnd
<1>. QED
  BY <1>5, <1>6, <1>7 DEF Next, ScanRound

\* The INDENT and DEDENT tokens, the levels on the stack and the lines that have been
\* seen are at every moment the same blocks, unless a line began in an interpolation.
THEOREM BlocksInvariant == Spec => []BlocksInv
<1>1. Init => BlocksInv
  <2>1. Init => IInv /\ Laid(src, tokens, indentStack, pos, atLineStart)
    BY InitInvariant, InitLaid
  <2>2. Init => LevelsEnd
    BY DEF Init, LevelsEnd
  <2>. QED
    BY <2>1, <2>2 DEF BlocksInv, BlocksLaid
<1>2. BlocksInv /\ [Next]_vars => BlocksInv'
  BY StepInvariant, BlocksStayLaid, LevelsStayEnded DEF BlocksInv
<1>. QED
  BY <1>1, <1>2, PTL DEF Spec

\* Counting from an INDENT on is comparing depths.
LEMMA DeepFrom ==
    ASSUME NEW ts, NEW i \in Nat, i > 0, ts[i].type = "INDENT", NEW k \in Nat, i <= k
    PROVE  CountIn(ts, "INDENT", i, k) - CountIn(ts, "DEDENT", i, k) = Deep(ts, k) - Deep(ts, i) + 1
<1>1. i - 1 \in Nat /\ i - 1 \in Int /\ i - 1 <= k /\ 1 <= (i - 1) + 1 /\ (i - 1) + 1 = i /\ 1 \in Int /\ k \in Int
  OBVIOUS
<1>2. /\ CountIn(ts, "INDENT", 1, k) = CountIn(ts, "INDENT", 1, i - 1) + CountIn(ts, "INDENT", i, k)
      /\ CountIn(ts, "DEDENT", 1, k) = CountIn(ts, "DEDENT", 1, i - 1) + CountIn(ts, "DEDENT", i, k)
  <2>1. \A type : CountIn(ts, type, 1, k) = CountIn(ts, type, 1, i - 1) + CountIn(ts, type, (i - 1) + 1, k)
    BY <1>1, CountSplit
  <2>. QED
    BY <1>1, <2>1
<1>3. Deep(ts, i) = Deep(ts, i - 1) + 1
  <2>1. Deep(ts, (i - 1) + 1) = Deep(ts, i - 1) + StepOf(ts[(i - 1) + 1].type)
    BY <1>1, DeepStep
  <2>. QED
    BY <1>1, <2>1 DEF StepOf
<1>4. /\ CountIn(ts, "INDENT", 1, i - 1) \in Nat /\ CountIn(ts, "DEDENT", 1, i - 1) \in Nat
      /\ CountIn(ts, "INDENT", i, k) \in Nat /\ CountIn(ts, "DEDENT", i, k) \in Nat
  BY <1>1, CountType
<1> DEFINE a == CountIn(ts, "INDENT", 1, i - 1)
           b == CountIn(ts, "DEDENT", 1, i - 1)
           c == CountIn(ts, "INDENT", i, k)
           d == CountIn(ts, "DEDENT", i, k)
<1>5. Deep(ts, k) = (a + c) - (b + d) /\ Deep(ts, i - 1) = a - b
  BY <1>2 DEF Deep
<1>6. a \in Nat /\ b \in Nat /\ c \in Nat /\ d \in Nat
  BY <1>4
<1> HIDE DEF a, b, c, d
<1>7. c - d = Deep(ts, k) - Deep(ts, i) + 1
  BY <1>3, <1>5, <1>6
<1>. QED
  BY <1>7 DEF c, d

\* The DEDENT that closes an INDENT is the only one that does.
LEMMA ClosingIs ==
    ASSUME Len(tokens) \in Nat, NEW i \in Openers(tokens), NEW j \in i + 1 .. Len(tokens), ClosedAt(tokens, i, j)
    PROVE  Closing(i) = j
<1> DEFINE Equal(k) == Count("INDENT", i, k) = Count("DEDENT", i, k)
           More(k) == Count("INDENT", i, k) > Count("DEDENT", i, k)
           Shuts(l) == Equal(l) /\ \A k \in i + 1 .. l - 1 : More(k)
<1>1. i \in Nat /\ i > 0 /\ i <= Len(tokens) /\ tokens[i].type = "INDENT" /\ j \in Nat
  BY DEF Openers
<1>2. ASSUME NEW k \in i + 1 .. Len(tokens)
      PROVE  (Equal(k) <=> Deep(tokens, k) = Deep(tokens, i) - 1) /\ (More(k) <=> Deep(tokens, i) <= Deep(tokens, k))
  <2> DEFINE c == CountIn(tokens, "INDENT", i, k)
             d == CountIn(tokens, "DEDENT", i, k)
  <2>1. k \in Nat /\ i <= k /\ i \in Int /\ k \in Int
    BY <1>1
  <2>2. c - d = Deep(tokens, k) - Deep(tokens, i) + 1
    BY <1>1, <2>1, DeepFrom
  <2>3. c \in Nat /\ d \in Nat /\ Deep(tokens, k) \in Int /\ Deep(tokens, i) \in Int
    BY <2>1, CountType, DeepType
  <2>4. (Equal(k) <=> c = d) /\ (More(k) <=> c > d)
    BY DEF Count, CountIn, OfType
  <2> HIDE DEF c, d, Equal, More
  <2>. QED
    BY <2>2, <2>3, <2>4
<1>3. Deep(tokens, i) \in Int /\ \A k \in i + 1 .. Len(tokens) : Deep(tokens, k) \in Int
  BY <1>1, DeepType
<1>4. Closing(i) = CHOOSE l \in i + 1 .. Len(tokens) : Shuts(l)
  BY DEF Closing
<1> HIDE DEF Equal, More
<1>5. Shuts(j)
  <2>1. \A k \in i + 1 .. j - 1 : k \in i + 1 .. Len(tokens)
    BY <1>1
  <2>. QED
    BY <1>2, <2>1 DEF ClosedAt
<1>6. ASSUME NEW l \in i + 1 .. Len(tokens), Shuts(l) PROVE l = j
  <2>1. l \in Nat /\ j \in i + 1 .. Len(tokens)
    BY <1>1
  <2>2. ~(l < j)
    <3>1. l < j => l \in i + 1 .. j - 1
      BY <1>1, <2>1
    <3>2. Deep(tokens, l) = Deep(tokens, i) - 1
      BY <1>2, <1>6
    <3>. QED
      BY <1>3, <3>1, <3>2 DEF ClosedAt
  <2>3. ~(j < l)
    <3>1. j < l => j \in i + 1 .. l - 1
      BY <1>1, <2>1
    <3>2. j < l => Deep(tokens, i) <= Deep(tokens, j)
      BY <1>2, <1>6, <3>1
    <3>. QED
      BY <1>3, <3>2 DEF ClosedAt
  <2>. QED
    BY <1>1, <2>1, <2>2, <2>3
<1> HIDE DEF Shuts
<1>. QED
  BY <1>4, <1>5, <1>6

\* A line that is wider than the code line before it opens a block, which goes on
\* exactly to the first line that is narrower, or to the end of the text.
THEOREM BlocksAlwaysFollowLines == Spec => []BlocksFollowLines
<1>1. BlocksInv => BlocksFollowLines
  <2> SUFFICES ASSUME BlocksInv, done, ~BrokenInterpolation PROVE BlocksFollowLines
    BY DEF BlocksFollowLines
  <2> DEFINE seen == SeenIn(src, tokens, pos, atLineStart)
  <2>1. Laid(src, tokens, indentStack, pos, atLineStart) /\ AtEnd /\ Len(indentStack) = 1 /\ Typed
    BY DEF BlocksInv, BlocksLaid, LevelsEnd, IInv
  <2>2. CursorTyped /\ Len(src) \in Nat /\ pos \in Nat /\ tokens \in Seq(TokenSet) /\ Len(tokens) \in Nat
    BY <2>1, TypedFacts
  <2>3. /\ LevelsCounted(tokens, indentStack) /\ WiderOpens(src, tokens, seen)
        /\ BlocksKept(src, tokens, indentStack, seen)
    BY <2>1 DEF Laid
  <2>4. LineStarts = StartsIn(tokens)
    BY DEF LineStarts, StartsIn
  <2>5. CodeLines = CodeIn(src, tokens)
    BY <2>4, LinesOfText DEF CodeLines, CodeIn
  <2>6. seen = CodeIn(src, tokens)
    <3>1. \A s \in CodeIn(src, tokens) : s \in Nat /\ s <= Len(src)
      BY <2>2, StartsTyped DEF CodeIn
    <3>2. pos > Len(src)
      BY <2>1 DEF AtEnd
    <3>3. \A s \in CodeIn(src, tokens) : s # pos
      BY <2>2, <3>1, <3>2
    <3>. QED
      BY <3>3 DEF SeenIn
  <2>7. \A s : WidthAt(s) = WideOf(src, s)
    BY LinesOfText
  <2>8. \A i : LineOf(i) = LineIn(tokens, i)
    BY <2>4 DEF LineOf, LineIn
  <2> HIDE DEF seen
  <2>9. ASSUME NEW s \in CodeLines, NEW r \in CodeLines, s < r, \A q \in CodeLines : q <= s \/ q >= r,
               WidthAt(s) < WidthAt(r)
        PROVE  \E i \in 1 .. Len(tokens) : tokens[i].type = "INDENT" /\ LineOf(i) = r
    <3>1. Opened(tokens, r)
      BY <2>3, <2>5, <2>6, <2>7, <2>9 DEF WiderOpens
    <3>. QED
      BY <2>8, <3>1 DEF Opened, Openers
  <2>10. ASSUME NEW i \in 1 .. Len(tokens), tokens[i].type = "INDENT",
                NEW last, last = IF tokens[Closing(i)].from > Len(src) THEN Len(src) + 1 ELSE LineOf(Closing(i))
         PROVE  /\ \A r \in CodeLines : LineOf(i) < r /\ r < last => WidthAt(r) >= WidthAt(LineOf(i))
                /\ last <= Len(src) => WidthAt(last) < WidthAt(LineOf(i))
    <3>1. i \in Openers(tokens) /\ i \in Nat /\ Len(tokens) \in i .. Len(tokens)
      BY <2>2, <2>10 DEF Openers
    <3>2. ~OpenStill(tokens, i)
      <4>1. Deep(tokens, Len(tokens)) = 0 /\ Deep(tokens, i) > 0 /\ Deep(tokens, i) \in Int
        BY <2>1, <2>3, <3>1, DeepType DEF LevelsCounted
      <4>. QED
        BY <3>1, <4>1 DEF OpenStill
    <3>3. PICK j \in i + 1 .. Len(tokens) : ClosedAt(tokens, i, j) /\ ClosedBlock(src, tokens, i, j)
      BY <2>3, <3>1, <3>2 DEF BlocksKept
    <3>4. Closing(i) = j
      BY <2>2, <3>1, <3>3, ClosingIs
    <3>5. last = EndOf(src, tokens, j)
      BY <2>8, <2>10, <3>4 DEF EndOf
    <3>6. /\ \A r \in CodeLines : LineOf(i) < r /\ r < last => WidthAt(LineOf(i)) <= WidthAt(r)
          /\ last <= Len(src) => WidthAt(last) < WidthAt(LineOf(i))
      BY <2>5, <2>7, <2>8, <3>3, <3>5 DEF ClosedBlock
    <3>. QED
      BY <3>6
  <2>. QED
    BY <2>9, <2>10 DEF BlocksFollowLines
<1>. QED
  BY <1>1, BlocksInvariant, PTL
================================================================================
