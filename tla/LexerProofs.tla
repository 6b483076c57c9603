------------------------------ MODULE LexerProofs ------------------------------
(***************************************************************************)
(* The scanner on any texts and with any spellings of operators: its       *)
(* places are true, the pieces of strings nest, and interpolations end at  *)
(* their own brace.                                                        *)
(*                                                                         *)
(* What a loop or a recursive function of the model comes to is an         *)
(* induction on positions or on tokens, which is put here as an argument   *)
(* about the first one at which it would fail.                             *)
(***************************************************************************)
EXTENDS Lexer, SequenceTheorems, FiniteSetTheorems, WellFoundedInduction, TLAPS

Chars == STRING \ {"end"}
Problems == {"inconsistent indentation", "unexpected character", "unterminated block comment",
             "unterminated escape sequence", "unterminated string literal", "unterminated string interpolation"}
TokenSet == [type : Types, line : Nat, col : Nat, from : Nat, to : Nat]
StringCallSet == [fn : {"string"}, start : Places, text : BOOLEAN, interp : BOOLEAN]
InterpCallSet == [fn : {"interp"}, depth : Nat \ {0}, since : Nat]

\* A call of scanString is followed by one of scanInterpolation that it made.
CallsAlternate(cs) ==
    \A i \in 1 .. Len(cs) :
        IF i % 2 = 1 THEN cs[i] \in StringCallSet ELSE cs[i] \in InterpCallSet /\ cs[i - 1].interp

CursorTyped ==
    src \in Seq(Chars) /\ pos \in 1 .. Len(src) + 1 /\ line \in Nat \ {0} /\ col \in Nat \ {0}
StackTyped ==
    /\ indentStack \in Seq(Nat) /\ Len(indentStack) > 0 /\ indentStack[1] = 0
    /\ \A i, j \in 1 .. Len(indentStack) : i < j => indentStack[i] < indentStack[j]
Typed ==
    /\ CursorTyped
    /\ tokens \in Seq(TokenSet) /\ errors \in Seq(Problems)
    /\ StackTyped
    /\ calls \in Seq(StringCallSet \cup InterpCallSet) /\ CallsAlternate(calls)
    /\ atLineStart \in BOOLEAN /\ inToken \in BOOLEAN /\ done \in BOOLEAN

\* A token is scanned on behalf of an interpolation only when that is innermost.
InTokenOf == inToken => Running = "interp"

\* The places kept for later are true, and none is ahead of the cursor.
PlacesTrue ==
    /\ TruePlace(Here)
    /\ \A i \in 1 .. Len(tokens) : tokens[i].from <= pos /\ tokens[i].to <= pos
    /\ \A c \in 1 .. Len(calls) :
          calls[c].fn = "string" => calls[c].start.from <= pos /\ TruePlace(calls[c].start)
    /\ PositionsTrue

\* What the string in which the lexer is has emitted so far.
LastPiece ==
    IF Running = "string" /\ Top.interp THEN LastType = "INTERP_END"
    ELSE LastType \notin {"STRING_START", "STRING_PART", "INTERP_END"}
Pieces == errors = <<>> => Nesting = OpenCalls /\ LastPiece

\* The token behind which a call of scanInterpolation began, and the last one
\* before the next such call began in it.
First(c) == calls[c].since
Last(c) == IF c + 2 <= Len(calls) THEN calls[c + 2].since - 1 ELSE Len(tokens)
InterpTokens ==
    \A c \in 1 .. Len(calls) : calls[c].fn = "interp" =>
        /\ First(c) \in 1 .. Last(c) /\ Last(c) <= Len(tokens)
        /\ tokens[First(c)].from < pos
        /\ c + 2 <= Len(calls) => tokens[First(c)].from <= tokens[First(c + 2)].from

\* As many interpolations are open as the tokens say, unless the source has ended in them.
InterpsCounted ==
    errors = <<>> \/ ~AtEnd =>
        Count("INTERP_START", 1, Len(tokens)) = Count("INTERP_END", 1, Len(tokens)) + Len(calls) \div 2

\* A line that begins inside a string's interpolation is after a NEWLINE there.
LineStartBroken == atLineStart /\ calls # <<>> => BrokenInterpolation

\* The braces that a call of scanInterpolation has scanned and are not closed.
Opening == "{"
Shutting == "}"
BracesOpen(c) == Count(Opening, First(c), Last(c)) - Count(Shutting, First(c), Last(c))
\* The brace that it has counted and scanToken has not scanned.
AtOpening == Ch = "{"
AtClosing == Ch = "}"
Ahead(c) ==
    IF c = Len(calls) /\ inToken THEN IF AtOpening THEN 1 ELSE IF AtClosing THEN -1 ELSE 0 ELSE 0
CommentAt(i) == src[i] = "{" /\ CharAt(i + 1) = "-"
CommentIn(n) == \E i \in n .. pos - 1 : CommentAt(i)
Depths ==
    errors = <<>> /\ ~BrokenInterpolation =>
        \A c \in 1 .. Len(calls) : calls[c].fn = "interp" =>
            \/ CommentIn(tokens[First(c)].from)
            \/ calls[c].depth = 1 + BracesOpen(c) + Ahead(c)

IInv ==
    /\ Typed /\ InTokenOf /\ PlacesTrue /\ Pieces
    /\ InterpTokens /\ InterpsCounted /\ LineStartBroken /\ Depths

--------------------------------------------------------------------------------
\* Firsts and lasts.

\* A set of numbers that is not empty has a least one.
LEMMA LeastNat ==
    ASSUME NEW T \in SUBSET Nat, T # {}
    PROVE  \E n \in T : \A m \in T : n <= m
<1> DEFINE R == OpToRel(<, Nat)
<1>1. IsWellFoundedOn(R, Nat)
  BY NatLessThanWellFounded
<1>2. \A x, y \in Nat : x < y => <<x, y>> \in R
  BY DEF OpToRel
<1> HIDE DEF R
<1>3. PICK n \in T : \A m \in T : ~(<<m, n>> \in R)
  BY <1>1, WFMin
<1>4. \A m \in T : m \in Nat /\ n \in Nat /\ ~(m < n)
  BY <1>2, <1>3
<1>5. \A m \in T : n <= m
  BY <1>4
<1>. QED
  BY <1>5

\* A set of numbers up to a bound has a greatest one.
LEMMA GreatestNat ==
    ASSUME NEW T \in SUBSET Nat, T # {}, NEW b \in Nat, \A m \in T : m <= b
    PROVE  \E n \in T : \A m \in T : m <= n
<1> DEFINE U == {k \in Nat : k <= b /\ b - k \in T}
<1>1. PICK m \in T : TRUE
  OBVIOUS
<1>2. b - m \in U
  <2>1. m \in Nat /\ m <= b
    BY <1>1
  <2>2. b - m \in Nat /\ b - m <= b /\ b - (b - m) = m
    BY <2>1
  <2>. QED
    BY <1>1, <2>2
<1>3. U \in SUBSET Nat /\ U # {}
  BY <1>2
<1> HIDE DEF U
<1>4. PICK k \in U : \A l \in U : k <= l
  BY <1>3, LeastNat
<1>5. k \in Nat /\ k <= b /\ b - k \in T
  BY <1>4 DEF U
<1>6. ASSUME NEW n \in T PROVE n <= b - k
  <2>1. n \in Nat /\ n <= b
    BY <1>6
  <2>2. b - n \in Nat /\ b - n <= b /\ b - (b - n) = n
    BY <2>1
  <2>3. b - n \in U
    BY <1>6, <2>2 DEF U
  <2>4. k <= b - n
    BY <1>4, <2>3
  <2>. QED
    BY <1>5, <2>1, <2>4
<1>. QED
  BY <1>5, <1>6

--------------------------------------------------------------------------------
\* The loops of the scanner.

\* A loop over characters of a kind ends at the first that is not of that kind,
\* or behind the last.
LEMMA AfterIs ==
    ASSUME NEW i \in 1 .. Len(src) + 1, Len(src) \in Nat, NEW chars, "end" \notin chars
    PROVE  /\ After(i, chars) \in i .. Len(src) + 1
           /\ \A j \in i .. After(i, chars) - 1 : CharAt(j) \in chars
           /\ CharAt(After(i, chars)) \notin chars
<1> DEFINE n == Len(src)
           D == i .. n + 1
           StopsAt(k, m) == /\ m \in k .. n + 1 /\ CharAt(m) \notin chars
                            /\ \A j \in k .. m - 1 : CharAt(j) \in chars
           stop == [k \in D |-> CHOOSE m \in D : StopsAt(k, m)]
           end == CHOOSE f : f = [k \in D |-> IF CharAt(k) \in chars THEN f[k + 1] ELSE k]
<1>1. After(i, chars) = end[i]
  BY DEF After
<1>2. CharAt(n + 1) \notin chars
  BY DEF CharAt
<1>3. ASSUME NEW k \in D PROVE stop[k] \in D /\ StopsAt(k, stop[k])
  <2> DEFINE T == {m \in Nat : m \in k .. n + 1 /\ CharAt(m) \notin chars}
  <2>1. n + 1 \in T
    BY <1>2
  <2>2. T \in SUBSET Nat /\ T # {}
    BY <2>1
  <2>3. PICK m \in T : \A l \in T : m <= l
    BY <2>2, LeastNat
  <2>4. m \in D /\ m \in k .. n + 1 /\ CharAt(m) \notin chars
    BY <2>3
  <2>5. \A j \in k .. m - 1 : j \in Nat /\ j \in k .. n + 1 /\ ~(m <= j)
    BY <2>4
  <2>6. \A j \in k .. m - 1 : CharAt(j) \in chars
    BY <2>3, <2>5
  <2>7. \E l \in D : StopsAt(k, l)
    BY <2>4, <2>6
  <2> HIDE DEF T, StopsAt
  <2>. QED
    BY <2>7
<1>4. ASSUME NEW k \in D PROVE stop[k] = IF CharAt(k) \in chars THEN stop[k + 1] ELSE k
  <2>1. CASE CharAt(k) \notin chars
    <3>1. stop[k] \in k .. n + 1 /\ \A j \in k .. stop[k] - 1 : CharAt(j) \in chars
      BY <1>3
    <3>2. ~(k <= stop[k] - 1)
      BY <2>1, <3>1
    <3>3. stop[k] = k
      BY <3>1, <3>2
    <3>. QED
      BY <2>1, <3>3
  <2>2. CASE CharAt(k) \in chars
    <3>1. k + 1 \in D
      BY <1>2, <2>2
    <3>2. StopsAt(k, stop[k]) /\ StopsAt(k + 1, stop[k + 1])
      BY <1>3, <3>1
    <3>3. stop[k] # k /\ stop[k] \in k .. n + 1 /\ stop[k + 1] \in k + 1 .. n + 1
      BY <2>2, <3>2
    <3>4. ~(stop[k] < stop[k + 1])
      <4>1. stop[k] < stop[k + 1] => stop[k] \in k + 1 .. stop[k + 1] - 1
        BY <3>3
      <4>. QED
        BY <3>2, <4>1
    <3>5. ~(stop[k + 1] < stop[k])
      <4>1. stop[k + 1] < stop[k] => stop[k + 1] \in k .. stop[k] - 1
        BY <3>3
      <4>. QED
        BY <3>2, <4>1
    <3>6. stop[k] = stop[k + 1]
      BY <3>3, <3>4, <3>5
    <3>. QED
      BY <2>2, <3>6
  <2>. QED
    BY <2>1, <2>2
<1>5. stop = [k \in D |-> IF CharAt(k) \in chars THEN stop[k + 1] ELSE k]
  <2> DEFINE f == [k \in D |-> IF CharAt(k) \in chars THEN stop[k + 1] ELSE k]
  <2>1. \A k \in D : stop[k] = f[k]
    BY <1>4
  <2>. QED
    BY <2>1
<1> HIDE DEF stop
<1>6. end = [k \in D |-> IF CharAt(k) \in chars THEN end[k + 1] ELSE k]
  BY <1>5
<1> HIDE DEF end
<1>7. \A k \in D : end[k] = IF CharAt(k) \in chars THEN end[k + 1] ELSE k
  BY <1>6
<1>8. ASSUME \E k \in D : end[k] # stop[k] PROVE FALSE
  <2> DEFINE T == {k \in Nat : k \in D /\ end[k] # stop[k]}
  <2>1. T \in SUBSET Nat /\ T # {} /\ n + 1 \in Nat /\ \A k \in T : k <= n + 1
    BY <1>8
  <2>2. PICK k \in T : \A l \in T : l <= k
    BY <2>1, GreatestNat
  <2>3. k \in D /\ end[k] # stop[k] /\ CharAt(k) \in chars
    BY <1>4, <1>7, <2>2
  <2>4. k + 1 \in D /\ k + 1 \notin T
    BY <1>2, <2>2, <2>3
  <2>5. end[k + 1] = stop[k + 1]
    BY <2>4
  <2>. QED
    BY <1>4, <1>7, <2>3, <2>5
<1>9. i \in D /\ end[i] = stop[i]
  BY <1>8
<1>10. StopsAt(i, end[i])
  BY <1>3, <1>9
<1>. QED
  BY <1>1, <1>10

\* A round of skipBlockComment's loop, when g is what the later ones come to.
SkipFrom(g, s) ==
    IF s.at > Len(src) \/ s.open = 0 THEN s
    ELSE IF src[s.at] = "{" /\ CharAt(s.at + 1) = "-" THEN g[[at |-> s.at + 2, open |-> s.open + 1]]
    ELSE IF src[s.at] = "-" /\ CharAt(s.at + 1) = "}" THEN g[[at |-> s.at + 2, open |-> s.open - 1]]
    ELSE g[[s EXCEPT !.at = @ + 1]]

SkipSet(k) == [at : k .. Len(src) + 1, open : Nat]

\* Each round moves on.
LEMMA SkipMoves ==
    ASSUME Len(src) \in Nat, NEW k \in Nat, NEW s \in SkipSet(k), s.at <= Len(src), s.open # 0
    PROVE  /\ [s EXCEPT !.at = @ + 1] \in SkipSet(k + 1)
           /\ CharAt(s.at + 1) # "end" =>
                 /\ [at |-> s.at + 2, open |-> s.open + 1] \in SkipSet(k + 1)
                 /\ [at |-> s.at + 2, open |-> s.open - 1] \in SkipSet(k + 1)
<1>1. s.at \in k .. Len(src) + 1 /\ s.open \in Nat /\ s = [at |-> s.at, open |-> s.open]
  BY DEF SkipSet
<1>2. [s EXCEPT !.at = @ + 1] = [at |-> s.at + 1, open |-> s.open]
  BY <1>1
<1>3. s.at + 1 \in k + 1 .. Len(src) + 1 /\ s.open + 1 \in Nat /\ s.open - 1 \in Nat
  BY <1>1
<1>4. CharAt(s.at + 1) # "end" => s.at + 2 \in k + 1 .. Len(src) + 1
  BY <1>1 DEF CharAt
<1>. QED
  BY <1>1, <1>2, <1>3, <1>4 DEF SkipSet

\* The loop ends.
LEMMA SkipExists ==
    ASSUME Len(src) \in Nat, NEW from \in 1 .. Len(src) + 1
    PROVE  \E g : g = [s \in SkipSet(from) |-> SkipFrom(g, s)]
<1> DEFINE n == Len(src)
           Downto(k) == \E g : g = [s \in SkipSet(k) |-> SkipFrom(g, s)]
           T == {k \in Nat : k \in from .. n + 1 /\ ~Downto(k)}
<1>1. ASSUME T # {} PROVE FALSE
  <2>1. T \in SUBSET Nat /\ n + 1 \in Nat /\ \A k \in T : k <= n + 1
    OBVIOUS
  <2>2. PICK k \in T : \A l \in T : l <= k
    BY <1>1, <2>1, GreatestNat
  <2>3. k \in Nat /\ k \in from .. n + 1 /\ ~Downto(k)
    BY <2>2
  <2>4. CASE k = n + 1
    <3> DEFINE g == [s \in SkipSet(k) |-> s]
    <3>1. ASSUME NEW s \in SkipSet(k) PROVE SkipFrom(g, s) = s
      <4>1. s.at > n
        BY <2>4 DEF SkipSet
      <4>. QED
        BY <4>1 DEF SkipFrom
    <3>2. g = [s \in SkipSet(k) |-> SkipFrom(g, s)]
      BY <3>1
    <3>. QED
      BY <2>3, <3>2
  <2>5. CASE k # n + 1
    <3>1. k + 1 \in from .. n + 1 /\ k + 1 \in Nat /\ ~(k + 1 <= k)
      BY <2>3, <2>5
    <3>2. Downto(k + 1)
      BY <2>2, <3>1
    <3>3. PICK f : f = [s \in SkipSet(k + 1) |-> SkipFrom(f, s)]
      BY <3>2
    <3> DEFINE g == [s \in SkipSet(k) |-> SkipFrom(f, s)]
    <3>4. \A s \in SkipSet(k + 1) : f[s] = SkipFrom(f, s)
      BY <3>3
    <3>5. SkipSet(k + 1) \subseteq SkipSet(k)
      BY <2>3 DEF SkipSet
    <3>6. \A s \in SkipSet(k + 1) : g[s] = f[s]
      BY <3>4, <3>5
    <3>7. ASSUME NEW s \in SkipSet(k) PROVE SkipFrom(g, s) = SkipFrom(f, s)
      <4> HIDE DEF g
      <4>1. CASE s.at > Len(src) \/ s.open = 0
        BY <4>1 DEF SkipFrom
      <4>2. CASE ~(s.at > Len(src) \/ s.open = 0)
        <5>1. s.at <= Len(src)
          BY <4>2, <2>3 DEF SkipSet
        <5>. QED
          BY <2>3, <3>6, <4>2, <5>1, SkipMoves DEF SkipFrom
      <4>. QED
        BY <4>1, <4>2
    <3>8. g = [s \in SkipSet(k) |-> SkipFrom(g, s)]
      BY <3>7
    <3>. QED
      BY <2>3, <3>8
  <2>. QED
    BY <2>4, <2>5
<1>2. from \in Nat /\ from \in from .. n + 1
  OBVIOUS
<1>3. Downto(from)
  BY <1>1, <1>2
<1>. QED
  BY <1>3

\* A block comment ends behind the characters that open it, or with the text.
LEMMA CommentEndIs ==
    ASSUME Len(src) \in Nat, pos \in Nat \ {0}, pos + 2 <= Len(src) + 1
    PROVE  CommentEnd \in SkipSet(pos + 2)
<1> DEFINE n == Len(src)
           D == SkipSet(pos + 2)
           start == [at |-> pos + 2, open |-> 1]
           skip == CHOOSE g : g = [s \in [at : pos + 2 .. Len(src) + 1, open : Nat] |->
            IF s.at > Len(src) \/ s.open = 0 THEN s
            ELSE IF src[s.at] = "{" /\ CharAt(s.at + 1) = "-"
            THEN g[[at |-> s.at + 2, open |-> s.open + 1]]
            ELSE IF src[s.at] = "-" /\ CharAt(s.at + 1) = "}"
            THEN g[[at |-> s.at + 2, open |-> s.open - 1]]
            ELSE g[[s EXCEPT !.at = @ + 1]]]
<1>1. CommentEnd = skip[start]
  BY DEF CommentEnd
<1>2. skip = [s \in D |-> SkipFrom(skip, s)]
  <2>1. pos + 2 \in 1 .. Len(src) + 1
    OBVIOUS
  <2>2. \E g : g = [s \in D |-> SkipFrom(g, s)]
    BY <2>1, SkipExists
  <2>. QED
    BY <2>2 DEF SkipFrom, SkipSet
<1> HIDE DEF skip
<1>3. \A s \in D : skip[s] = SkipFrom(skip, s)
  BY <1>2
<1>4. ASSUME \E s \in D : skip[s] \notin D PROVE FALSE
  <2> DEFINE T == {i \in Nat : i <= n + 1 /\ \E s \in D : s.at = i /\ skip[s] \notin D}
  <2>1. \A s \in D : s.at \in Nat /\ s.at \in pos + 2 .. n + 1
    BY DEF SkipSet
  <2>2. T \in SUBSET Nat /\ T # {} /\ n + 1 \in Nat /\ \A i \in T : i <= n + 1
    BY <1>4, <2>1
  <2>3. PICK i \in T : \A l \in T : l <= i
    BY <2>2, GreatestNat
  <2>4. PICK s \in D : s.at = i /\ skip[s] \notin D
    BY <2>3
  <2>5. \A r \in SkipSet(i + 1) : r.at \in Nat /\ r.at <= n + 1 /\ ~(r.at <= i) /\ r.at \notin T
    BY <2>3 DEF SkipSet
  <2>6. SkipSet(i + 1) \subseteq D /\ i \in Nat /\ s \in SkipSet(i)
    BY <2>1, <2>3, <2>4 DEF SkipSet
  <2>7. \A r \in SkipSet(i + 1) : skip[r] \in D
    BY <2>5, <2>6
  <2>8. skip[s] = SkipFrom(skip, s)
    BY <1>3, <2>4
  <2>9. ~(s.at > Len(src) \/ s.open = 0)
    BY <2>4, <2>8 DEF SkipFrom
  <2>10. s.at <= Len(src) /\ s.open # 0
    BY <2>1, <2>9
  <2> HIDE DEF T, D
  <2>11. SkipFrom(skip, s) \in D
    BY <2>6, <2>7, <2>9, <2>10, SkipMoves DEF SkipFrom
  <2>. QED
    BY <2>4, <2>8, <2>11
<1>5. start \in D
  BY DEF SkipSet
<1>. QED
  BY <1>1, <1>4, <1>5

--------------------------------------------------------------------------------
\* Sequences of tokens.

\* The number of tokens of a type from one to another.
OfType(s, type, from, to) == {i \in from .. to : s[i].type = type}
CountIn(s, type, from, to) == Cardinality(OfType(s, type, from, to))

\* A count is a number, of a finite set.
LEMMA CountType ==
    ASSUME NEW s, NEW type, NEW from \in Int, NEW to \in Int
    PROVE  CountIn(s, type, from, to) \in Nat /\ IsFiniteSet(OfType(s, type, from, to))
<1> DEFINE S == OfType(s, type, from, to)
<1>1. IsFiniteSet(from .. to)
  BY FS_Interval
<1>2. S \in SUBSET (from .. to)
  BY DEF OfType
<1>3. IsFiniteSet(S)
  BY <1>1, <1>2, FS_Subset
<1>4. Cardinality(S) \in Nat
  BY <1>3, FS_CardinalityType
<1>. QED
  BY <1>3, <1>4 DEF CountIn

\* Tokens alike are counted alike.
LEMMA CountSame ==
    ASSUME NEW s, NEW t, NEW type, NEW from, NEW to, \A i \in from .. to : s[i] = t[i]
    PROVE  CountIn(s, type, from, to) = CountIn(t, type, from, to)
<1>1. OfType(s, type, from, to) = OfType(t, type, from, to)
  BY DEF OfType
<1>. QED
  BY <1>1 DEF CountIn

\* Counting up to one token and from there on.
LEMMA CountSplit ==
    ASSUME NEW s, NEW type, NEW a \in Int, NEW b \in Int, NEW c \in Int, a <= b + 1, b <= c
    PROVE  CountIn(s, type, a, c) = CountIn(s, type, a, b) + CountIn(s, type, b + 1, c)
<1> DEFINE L == OfType(s, type, a, b)
           R == OfType(s, type, b + 1, c)
<1>1. IsFiniteSet(L) /\ IsFiniteSet(R)
  <2>1. b + 1 \in Int
    OBVIOUS
  <2>. QED
    BY <2>1, CountType
<1>2. L \cap R = {} /\ OfType(s, type, a, c) = L \cup R
  BY DEF OfType
<1> HIDE DEF L, R
<1>3. Cardinality(L \cap R) = 0
  BY <1>2, FS_EmptySet
<1>4. Cardinality(L \cup R) = Cardinality(L) + Cardinality(R) - Cardinality(L \cap R)
  BY <1>1, FS_Union
<1>5. Cardinality(L) \in Nat /\ Cardinality(R) \in Nat
  BY <1>1, FS_CardinalityType
<1>. QED
  BY <1>2, <1>3, <1>4, <1>5 DEF CountIn, L, R

\* Among tokens of other types there is none of this one.
LEMMA CountNone ==
    ASSUME NEW s, NEW type, NEW from, NEW to, \A i \in from .. to : s[i].type # type
    PROVE  CountIn(s, type, from, to) = 0
<1>1. OfType(s, type, from, to) = {}
  BY DEF OfType
<1>. QED
  BY <1>1, FS_EmptySet DEF CountIn

\* One token counts once, if it is of the type.
LEMMA CountOne ==
    ASSUME NEW s, NEW type, NEW at \in Int
    PROVE  CountIn(s, type, at, at) = IF s[at].type = type THEN 1 ELSE 0
<1>1. at .. at = {at}
  OBVIOUS
<1>2. CASE s[at].type = type
  <2>1. OfType(s, type, at, at) = {at}
    BY <1>1, <1>2 DEF OfType
  <2>. QED
    BY <1>2, <2>1, FS_Singleton DEF CountIn
<1>3. CASE s[at].type # type
  BY <1>1, <1>3, CountNone
<1>. QED
  BY <1>2, <1>3

\* t goes on where s ends.
Extends(s, t) == Len(s) <= Len(t) /\ \A i \in 1 .. Len(s) : t[i] = s[i]

LastOf(s) == IF s = <<>> THEN "EOF" ELSE s[Len(s)].type

\* What is open after the tokens of s.
NestingStep(g, s, i) ==
    IF i = 0 THEN <<>> ELSE Opens(g[i - 1], IF i = 1 THEN "EOF" ELSE s[i - 1].type, s[i].type)
NestingFun(s) == CHOOSE g : g = [i \in 0 .. Len(s) |-> NestingStep(g, s, i)]
NestingIn(s) == NestingFun(s)[Len(s)]

\* The recursive function of Nesting is there for every sequence of tokens.
LEMMA NestingExists ==
    ASSUME NEW s, Len(s) \in Nat
    PROVE  \E g : g = [i \in 0 .. Len(s) |-> NestingStep(g, s, i)]
<1> DEFINE Upto(n) == \E g : g = [i \in 0 .. n |-> NestingStep(g, s, i)]
           T == {n \in Nat : ~Upto(n)}
<1>1. ASSUME T # {} PROVE FALSE
  <2>1. PICK n \in T : \A m \in T : n <= m
    BY <1>1, LeastNat
  <2>2. n \in Nat /\ ~Upto(n)
    BY <2>1
  <2>3. CASE n = 0
    <3> DEFINE g == [i \in 0 .. 0 |-> <<>>]
    <3>1. g = [i \in 0 .. 0 |-> NestingStep(g, s, i)]
      BY DEF NestingStep
    <3>. QED
      BY <2>2, <2>3, <3>1
  <2>4. CASE n # 0
    <3>1. n - 1 \in Nat /\ n - 1 \notin T
      BY <2>1, <2>2, <2>4
    <3>2. Upto(n - 1)
      BY <3>1
    <3>3. PICK f : f = [i \in 0 .. n - 1 |-> NestingStep(f, s, i)]
      BY <3>2
    <3> DEFINE g == [i \in 0 .. n |-> NestingStep(f, s, i)]
    <3>4. ASSUME NEW i \in 0 .. n PROVE NestingStep(g, s, i) = NestingStep(f, s, i)
      <4>1. i # 0 => i - 1 \in 0 .. n - 1 /\ i - 1 \in 0 .. n
        BY <2>2
      <4>2. i # 0 => g[i - 1] = f[i - 1]
        BY <3>3, <4>1
      <4> HIDE DEF g
      <4>. QED
        BY <4>2 DEF NestingStep
    <3>5. g = [i \in 0 .. n |-> NestingStep(g, s, i)]
      BY <3>4
    <3>. QED
      BY <2>2, <3>5
  <2>. QED
    BY <2>3, <2>4
<1>. QED
  BY <1>1

\* What is open after a token is what the one before it left open, and this one makes of it.
LEMMA NestingUnfolds ==
    ASSUME NEW s, Len(s) \in Nat
    PROVE  \A i \in 0 .. Len(s) : NestingFun(s)[i] = NestingStep(NestingFun(s), s, i)
<1>1. NestingFun(s) = [i \in 0 .. Len(s) |-> NestingStep(NestingFun(s), s, i)]
  BY NestingExists DEF NestingFun
<1>2. \A g : g = [i \in 0 .. Len(s) |-> NestingStep(g, s, i)]
             => \A i \in 0 .. Len(s) : g[i] = NestingStep(g, s, i)
  OBVIOUS
<1>. QED
  BY <1>1, <1>2

\* What is open after the first tokens depends on no later ones.
LEMMA NestingOfPrefix ==
    ASSUME NEW s, NEW t, Len(s) \in Nat, Len(t) \in Nat, Extends(s, t), NEW i \in 0 .. Len(s)
    PROVE  NestingFun(t)[i] = NestingFun(s)[i]
<1> DEFINE T == {k \in Nat : k <= Len(s) /\ NestingFun(t)[k] # NestingFun(s)[k]}
<1>1. ASSUME T # {} PROVE FALSE
  <2>1. PICK k \in T : \A m \in T : k <= m
    BY <1>1, LeastNat
  <2>2. k \in 0 .. Len(s) /\ k \in 0 .. Len(t) /\ NestingFun(t)[k] # NestingFun(s)[k]
    BY <2>1 DEF Extends
  <2>3. k # 0 => k - 1 \in Nat /\ k - 1 \notin T
    BY <2>1
  <2>4. k # 0 => NestingFun(t)[k - 1] = NestingFun(s)[k - 1] /\ t[k] = s[k] /\ (k # 1 => t[k - 1] = s[k - 1])
    BY <2>2, <2>3 DEF Extends
  <2>5. NestingStep(NestingFun(t), t, k) = NestingStep(NestingFun(s), s, k)
    BY <2>4 DEF NestingStep
  <2>. QED
    BY <2>2, <2>5, NestingUnfolds
<1>. QED
  BY <1>1

\* One token more.
LEMMA NestingOfOneMore ==
    ASSUME NEW s, NEW t, Len(s) \in Nat, Len(t) = Len(s) + 1, Extends(s, t), s = <<>> <=> Len(s) = 0
    PROVE  NestingIn(t) = Opens(NestingIn(s), LastOf(s), t[Len(t)].type)
<1>1. NestingFun(t)[Len(t)] = NestingStep(NestingFun(t), t, Len(t))
  BY NestingUnfolds
<1>2. NestingFun(t)[Len(s)] = NestingFun(s)[Len(s)]
  BY NestingOfPrefix
<1>3. Len(t) # 0 /\ Len(t) - 1 = Len(s) /\ (Len(t) = 1 <=> s = <<>>)
  OBVIOUS
<1>4. s # <<>> => t[Len(s)] = s[Len(s)]
  BY DEF Extends
<1>. QED
  BY <1>1, <1>2, <1>3, <1>4 DEF NestingStep, NestingIn, LastOf

\* Types of tokens that neither open nor close anything, nor belong to a string.
Plain == Types \ {"STRING_START", "STRING_PART", "STRING_END", "INTERP_START", "INTERP_END"}

\* Tokens that may stand anywhere but between the pieces of a string leave open
\* what is open, and are no such pieces themselves.
LEMMA NestingOfPlain ==
    ASSUME NEW s \in Seq(TokenSet), NEW t \in Seq(TokenSet), Extends(s, t),
           \A i \in Len(s) + 1 .. Len(t) : t[i].type \in Plain,
           LastOf(s) \notin {"STRING_START", "STRING_PART", "INTERP_END"},
           NestingIn(s) = <<>> \/ NestingIn(s)[Len(NestingIn(s))] # "string"
    PROVE  /\ NestingIn(t) = NestingIn(s)
           /\ LastOf(t) \notin {"STRING_START", "STRING_PART", "INTERP_END"}
<1> DEFINE T == {k \in Nat : k \in Len(s) .. Len(t) /\ NestingFun(t)[k] # NestingIn(s)}
<1>0. Len(s) \in Nat /\ Len(t) \in Nat /\ Len(s) <= Len(t)
  BY DEF Extends
<1>1. \A k \in Len(s) + 1 .. Len(t) :
          (IF k = 1 THEN "EOF" ELSE t[k - 1].type) = LastOf(s) \/ k - 1 \in Len(s) + 1 .. Len(t)
  <2> SUFFICES ASSUME NEW k \in Len(s) + 1 .. Len(t), k - 1 \notin Len(s) + 1 .. Len(t)
               PROVE  (IF k = 1 THEN "EOF" ELSE t[k - 1].type) = LastOf(s)
    OBVIOUS
  <2>1. s = <<>> <=> Len(s) = 0
    OBVIOUS
  <2>2. k = Len(s) + 1
    BY <1>0
  <2>. QED
    BY <1>0, <2>1, <2>2 DEF Extends, LastOf
<1>2. ASSUME T # {} PROVE FALSE
  <2>1. PICK k \in T : \A m \in T : k <= m
    BY <1>2, LeastNat
  <2>2. k \in Len(s) .. Len(t) /\ NestingFun(t)[k] # NestingIn(s) /\ k \in 0 .. Len(t)
    BY <1>0, <2>1
  <2>3. k # Len(s)
    BY <1>0, <2>2, NestingOfPrefix DEF NestingIn
  <2>4. k - 1 \in Nat /\ k - 1 \in Len(s) .. Len(t) /\ k \in Len(s) + 1 .. Len(t) /\ k # 0 /\ k - 1 \notin T
    BY <1>0, <2>1, <2>2, <2>3
  <2>5. NestingFun(t)[k - 1] = NestingIn(s)
    BY <2>4
  <2> DEFINE last == IF k = 1 THEN "EOF" ELSE t[k - 1].type
  <2>6. last \notin {"STRING_START", "STRING_PART", "INTERP_END"}
    BY <1>1, <2>2, <2>4 DEF Plain
  <2>7. t[k].type \in Plain
    BY <2>4
  <2>8. NestingFun(t)[k] = Opens(NestingIn(s), last, t[k].type)
    BY <1>0, <2>2, <2>4, <2>5, NestingUnfolds DEF NestingStep
  <2> HIDE DEF last
  <2>9. Opens(NestingIn(s), last, t[k].type) = NestingIn(s)
    BY <2>6, <2>7 DEF Opens, Plain
  <2>. QED
    BY <2>2, <2>8, <2>9
<1>3. NestingIn(t) = NestingIn(s)
  BY <1>0, <1>2 DEF NestingIn
<1>4. LastOf(t) = LastOf(s) \/ LastOf(t) \in Plain
  <2>1. CASE Len(t) = Len(s)
    BY <1>0, <2>1 DEF Extends, LastOf
  <2>2. CASE Len(t) # Len(s)
    BY <1>0, <2>2 DEF Extends, LastOf
  <2>. QED
    BY <2>1, <2>2
<1>. QED
  BY <1>3, <1>4 DEF Plain

--------------------------------------------------------------------------------
\* The stack of calls.

\* Which calls are of which function, and how many of each there are.
LEMMA Parity ==
    ASSUME NEW n \in Nat
    PROVE  /\ n % 2 \in {0, 1} /\ (n + 1) % 2 = 1 - (n % 2) /\ (n + 2) % 2 = n % 2
           /\ n \div 2 \in Nat /\ (n + 2) \div 2 = n \div 2 + 1
           /\ n % 2 = 0 => (n + 1) \div 2 = n \div 2
           /\ n >= 2 => n \div 2 > 0
OBVIOUS

CallSet == StringCallSet \cup InterpCallSet

\* What is on top of the stack, by the function that is running.
LEMMA TopFacts ==
    ASSUME Typed
    PROVE  /\ Len(calls) \in Nat /\ (calls = <<>> <=> Len(calls) = 0)
           /\ Running \in {"run", "string", "interp"} /\ (Running = "run" <=> calls = <<>>)
           /\ Running = "string" => /\ Len(calls) > 0 /\ Len(calls) % 2 = 1
                                    /\ Top \in StringCallSet /\ Top = calls[Len(calls)]
           /\ Running = "interp" => /\ Len(calls) > 1 /\ Len(calls) % 2 = 0
                                    /\ Top \in InterpCallSet /\ Top = calls[Len(calls)]
                                    /\ calls[Len(calls) - 1] \in StringCallSet
                                    /\ calls[Len(calls) - 1].interp
           /\ Running \in {"run", "interp"} => Len(calls) % 2 = 0
<1> DEFINE n == Len(calls)
<1>1. n \in Nat /\ (calls = <<>> <=> n = 0)
  BY DEF Typed
<1>2. \A i \in 1 .. n : IF i % 2 = 1 THEN calls[i] \in StringCallSet
                        ELSE calls[i] \in InterpCallSet /\ calls[i - 1].interp
  BY DEF Typed, CallsAlternate
<1>3. CASE n = 0
  <2>1. Running = "run" /\ calls = <<>> /\ n % 2 = 0
    BY <1>1, <1>3 DEF Running
  <2>. QED
    BY <1>1, <2>1
<1>4. CASE n > 0
  <2>1. n \in 1 .. n /\ calls # <<>> /\ Running = Top.fn /\ Top = calls[n]
    BY <1>1, <1>4 DEF Running, Top
  <2>2. CASE n % 2 = 1
    <3>1. Top \in StringCallSet
      BY <1>2, <2>1, <2>2
    <3>2. Running = "string"
      BY <2>1, <3>1 DEF StringCallSet
    <3>. QED
      BY <1>1, <1>4, <2>1, <2>2, <3>1, <3>2
  <2>3. CASE n % 2 # 1
    <3>1. Top \in InterpCallSet /\ calls[n - 1].interp
      BY <1>2, <2>1, <2>3
    <3>2. Running = "interp"
      BY <2>1, <3>1 DEF InterpCallSet
    <3>3. n % 2 = 0 /\ n # 1 /\ n - 1 \in Nat /\ n - 1 \in 1 .. n
      <4>1. n % 2 = 0
        BY <1>1, <2>3, Parity
      <4>2. 1 % 2 = 1
        OBVIOUS
      <4>3. ASSUME n = 1 PROVE FALSE
        <5>1. n % 2 = 1 % 2
          BY <4>3, Zenon
        <5>. QED
          BY <4>1, <4>2, <5>1
      <4>. QED
        BY <1>1, <1>4, <4>1, <4>3
    <3>4. (n - 1) % 2 = 1
      <4>1. n = (n - 1) + 1
        BY <1>1
      <4>2. ((n - 1) + 1) % 2 = 1 - ((n - 1) % 2) /\ (n - 1) % 2 \in {0, 1}
        BY <3>3, Parity
      <4>. QED
        BY <3>3, <4>1, <4>2
    <3>5. calls[n - 1] \in StringCallSet
      BY <1>2, <3>3, <3>4
    <3>. QED
      BY <1>1, <1>4, <2>1, <3>1, <3>2, <3>3, <3>5
  <2>. QED
    BY <2>2, <2>3
<1>. QED
  BY <1>1, <1>3, <1>4

\* The top of the stack is replaced by a call of the same function, of which
\* more may be known.
LEMMA TopReplaced ==
    ASSUME Typed, Len(calls) > 0, NEW call \in CallSet, call.fn = Top.fn,
           call.fn = "string" /\ Top.interp => call.interp, NEW cs, cs = WithTop(call)
    PROVE  /\ cs \in Seq(CallSet) /\ CallsAlternate(cs) /\ Len(cs) = Len(calls)
           /\ \A i \in 1 .. Len(calls) : cs[i] = IF i = Len(calls) THEN call ELSE calls[i]
<1> DEFINE n == Len(calls)
<1>1. calls \in Seq(CallSet) /\ n \in Nat /\ n > 0 /\ Top = calls[n]
  BY DEF Typed, CallSet, Top
<1>2. \A i \in 1 .. n - 1 : calls[i] \in CallSet
  BY <1>1
<1>3. /\ Below \in Seq(CallSet) /\ Len(Below) = n - 1
      /\ \A i \in 1 .. n - 1 : Below[i] = calls[i]
  <2>1. /\ SubSeq(calls, 1, n - 1) \in Seq(CallSet)
        /\ Len(SubSeq(calls, 1, n - 1)) = IF 1 <= n - 1 THEN n - 1 - 1 + 1 ELSE 0
        /\ \A i \in 1 .. n - 1 - 1 + 1 : SubSeq(calls, 1, n - 1)[i] = calls[1 + i - 1]
    <3>1. 1 \in Int /\ n - 1 \in Int
      BY <1>1
    <3>. QED
      BY <1>2, <3>1, SubSeqProperties
  <2>2. Below = SubSeq(calls, 1, n - 1)
    BY DEF Below
  <2>0. n \in Nat /\ n > 0
    BY <1>1
  <2> HIDE DEF n
  <2>3. n - 1 - 1 + 1 = n - 1 /\ (~(1 <= n - 1) => n - 1 = 0) /\ \A i \in 1 .. n - 1 : 1 + i - 1 = i
    BY <2>0
  <2>4. \A i \in 1 .. n - 1 : SubSeq(calls, 1, n - 1)[i] = calls[i]
    BY <2>1, <2>3
  <2>5. Len(SubSeq(calls, 1, n - 1)) = n - 1
    BY <2>1, <2>3
  <2>. QED
    BY <2>1, <2>2, <2>4, <2>5
<1>4. /\ cs \in Seq(CallSet) /\ Len(cs) = n
      /\ \A i \in 1 .. n : cs[i] = IF i = n THEN call ELSE calls[i]
  BY <1>1, <1>3, AppendProperties DEF WithTop
<1>5. ASSUME NEW i \in 1 .. n
      PROVE  IF i % 2 = 1 THEN cs[i] \in StringCallSet
             ELSE cs[i] \in InterpCallSet /\ cs[i - 1].interp
  <2>1. IF i % 2 = 1 THEN calls[i] \in StringCallSet
        ELSE calls[i] \in InterpCallSet /\ calls[i - 1].interp
    BY DEF Typed, CallsAlternate
  <2>2. i - 1 = n => FALSE
    BY <1>1
  <2>3. i # 1 => i - 1 \in 1 .. n /\ cs[i - 1] = calls[i - 1]
    BY <1>1, <1>4, <2>2
  <2>4. i % 2 # 1 => i # 1
    BY Parity
  <2>5. i # n => cs[i] = calls[i]
    BY <1>4
  <2>6. i = n => cs[i] = call /\ calls[i].fn = call.fn
    BY <1>1, <1>4
  <2>7. i = n => IF i % 2 = 1 THEN call \in StringCallSet ELSE call \in InterpCallSet
    BY <2>1, <2>6 DEF CallSet, StringCallSet, InterpCallSet
  <2>. QED
    BY <2>1, <2>3, <2>4, <2>5, <2>6, <2>7
<1>. QED
  BY <1>4, <1>5 DEF CallsAlternate

\* A call is made: of scanString at any place but in a string, of
\* scanInterpolation by a string that has begun to be one with interpolations.
LEMMA CallMade ==
    ASSUME NEW cs \in Seq(CallSet), CallsAlternate(cs), NEW call \in CallSet,
           IF Len(cs) % 2 = 0 THEN call \in StringCallSet ELSE call \in InterpCallSet /\ cs[Len(cs)].interp
    PROVE  /\ Append(cs, call) \in Seq(CallSet) /\ CallsAlternate(Append(cs, call))
           /\ Len(Append(cs, call)) = Len(cs) + 1
           /\ \A i \in 1 .. Len(cs) : Append(cs, call)[i] = cs[i]
           /\ Append(cs, call)[Len(cs) + 1] = call
<1> DEFINE n == Len(cs)
           new == Append(cs, call)
<1>1. /\ n \in Nat /\ new \in Seq(CallSet) /\ Len(new) = n + 1 /\ new[n + 1] = call
      /\ \A i \in 1 .. n : new[i] = cs[i]
  BY AppendProperties
<1> HIDE DEF new
<1>2. ASSUME NEW i \in 1 .. n + 1
      PROVE  IF i % 2 = 1 THEN new[i] \in StringCallSet ELSE new[i] \in InterpCallSet /\ new[i - 1].interp
  <2>1. CASE i = n + 1
    <3>1. i % 2 = 1 - (n % 2) /\ n % 2 \in {0, 1}
      BY <1>1, <2>1, Parity
    <3>2. i % 2 # 1 => n # 0 /\ n \in 1 .. n /\ i - 1 = n
      <4>1. 0 % 2 = 0
        OBVIOUS
      <4>. QED
        BY <1>1, <2>1, <3>1, <4>1
    <3>3. i % 2 # 1 => new[i - 1] = cs[n]
      BY <1>1, <3>2
    <3>4. new[i] = call
      BY <1>1, <2>1
    <3>. QED
      BY <3>1, <3>3, <3>4
  <2>2. CASE i # n + 1
    <3>1. i \in 1 .. n
      BY <1>1, <2>2
    <3>2. i % 2 # 1 => i # 1
      BY Parity
    <3>3. new[i] = cs[i] /\ (i # 1 => new[i - 1] = cs[i - 1])
      BY <1>1, <3>1
    <3>4. IF i % 2 = 1 THEN cs[i] \in StringCallSet ELSE cs[i] \in InterpCallSet /\ cs[i - 1].interp
      BY <3>1 DEF CallsAlternate
    <3>. QED
      BY <3>2, <3>3, <3>4
  <2>. QED
    BY <2>1, <2>2
<1>3. CallsAlternate(new)
  BY <1>1, <1>2 DEF CallsAlternate
<1>. QED
  BY <1>1, <1>3 DEF new

\* A call returns.
LEMMA CallReturns ==
    ASSUME Typed, Len(calls) > 0
    PROVE  /\ Below \in Seq(CallSet) /\ CallsAlternate(Below) /\ Len(Below) = Len(calls) - 1
           /\ \A i \in 1 .. Len(calls) - 1 : Below[i] = calls[i]
<1> DEFINE n == Len(calls)
<1>1. calls \in Seq(CallSet) /\ n \in Nat /\ n > 0
  BY DEF Typed, CallSet
<1>2. \A i \in 1 .. n - 1 : calls[i] \in CallSet
  BY <1>1
<1>3. /\ Below \in Seq(CallSet) /\ Len(Below) = n - 1
      /\ \A i \in 1 .. n - 1 : Below[i] = calls[i]
  <2>1. /\ SubSeq(calls, 1, n - 1) \in Seq(CallSet)
        /\ Len(SubSeq(calls, 1, n - 1)) = IF 1 <= n - 1 THEN n - 1 - 1 + 1 ELSE 0
        /\ \A i \in 1 .. n - 1 - 1 + 1 : SubSeq(calls, 1, n - 1)[i] = calls[1 + i - 1]
    <3>1. 1 \in Int /\ n - 1 \in Int
      BY <1>1
    <3>. QED
      BY <1>2, <3>1, SubSeqProperties
  <2>2. Below = SubSeq(calls, 1, n - 1)
    BY DEF Below
  <2>0. n \in Nat /\ n > 0
    BY <1>1
  <2> HIDE DEF n
  <2>3. n - 1 - 1 + 1 = n - 1 /\ (~(1 <= n - 1) => n - 1 = 0) /\ \A i \in 1 .. n - 1 : 1 + i - 1 = i
    BY <2>0
  <2>4. \A i \in 1 .. n - 1 : SubSeq(calls, 1, n - 1)[i] = calls[i]
    BY <2>1, <2>3
  <2>5. Len(SubSeq(calls, 1, n - 1)) = n - 1
    BY <2>1, <2>3
  <2>. QED
    BY <2>1, <2>2, <2>4, <2>5
<1>4. ASSUME NEW i \in 1 .. n - 1
      PROVE  IF i % 2 = 1 THEN Below[i] \in StringCallSet ELSE Below[i] \in InterpCallSet /\ Below[i - 1].interp
  <2>0. i \in 1 .. n
    BY <1>1
  <2>1. IF i % 2 = 1 THEN calls[i] \in StringCallSet ELSE calls[i] \in InterpCallSet /\ calls[i - 1].interp
    BY <2>0 DEF Typed, CallsAlternate
  <2>2. i % 2 # 1 => i # 1
    BY Parity
  <2>3. i # 1 => Below[i - 1] = calls[i - 1]
    BY <1>1, <1>3
  <2>. QED
    BY <1>3, <2>1, <2>2, <2>3
<1>. QED
  BY <1>3, <1>4 DEF CallsAlternate

\* scanInterpolation returns to the string that called it.
LEMMA BackFacts ==
    ASSUME Typed, Running = "interp", NEW at \in Places, BackInString(at)
    PROVE  /\ calls' \in Seq(CallSet) /\ CallsAlternate(calls') /\ Len(calls') = Len(calls) - 1
           /\ \A i \in 1 .. Len(calls) - 2 : calls'[i] = calls[i]
           /\ calls'[Len(calls) - 1] = [calls[Len(calls) - 1] EXCEPT !.start = at]
           /\ calls'[Len(calls) - 1] \in StringCallSet /\ calls'[Len(calls) - 1].interp
<1> DEFINE n == Len(calls)
           call == [calls[n - 1] EXCEPT !.start = at]
           base == SubSeq(Below, 1, Len(Below) - 1)
<1>1. /\ n \in Nat /\ n > 1 /\ n % 2 = 0 /\ calls[n - 1] \in StringCallSet /\ calls[n - 1].interp
  BY TopFacts
<1>2. /\ Below \in Seq(CallSet) /\ CallsAlternate(Below) /\ Len(Below) = n - 1
      /\ \A i \in 1 .. n - 1 : Below[i] = calls[i]
  BY <1>1, CallReturns
<1>3. \A i \in 1 .. n - 2 : Below[i] \in CallSet
  BY <1>1, <1>2
<1>4. /\ base \in Seq(CallSet) /\ Len(base) = n - 2 /\ \A i \in 1 .. n - 2 : base[i] = Below[i]
  BY <1>1, <1>2, <1>3
<1>5. CallsAlternate(base)
  <2>1. ASSUME NEW i \in 1 .. n - 2
        PROVE  IF i % 2 = 1 THEN base[i] \in StringCallSet ELSE base[i] \in InterpCallSet /\ base[i - 1].interp
    <3>1. IF i % 2 = 1 THEN Below[i] \in StringCallSet ELSE Below[i] \in InterpCallSet /\ Below[i - 1].interp
      BY <1>1, <1>2 DEF CallsAlternate
    <3>2. i % 2 # 1 => i # 1
      BY Parity
    <3>3. i # 1 => base[i - 1] = Below[i - 1]
      BY <1>1, <1>4
    <3>. QED
      BY <1>4, <3>1, <3>2, <3>3
  <2>. QED
    BY <1>4, <2>1 DEF CallsAlternate
<1>6. call \in StringCallSet /\ call.interp
  BY <1>1 DEF StringCallSet
<1>7. (n - 2) % 2 = 0
  <2>1. n - 2 \in Nat /\ (n - 2) + 2 = n
    BY <1>1
  <2>. QED
    BY <1>1, <2>1, Parity
<1>8. calls' = Append(base, call)
  <2>1. Below[Len(Below)] = calls[n - 1]
    BY <1>1, <1>2
  <2>. QED
    BY <2>1 DEF BackInString
<1> HIDE DEF base, call
<1>9. /\ Append(base, call) \in Seq(CallSet) /\ CallsAlternate(Append(base, call))
      /\ Len(Append(base, call)) = Len(base) + 1
      /\ \A i \in 1 .. Len(base) : Append(base, call)[i] = base[i]
      /\ Append(base, call)[Len(base) + 1] = call
  <2>1. Len(base) % 2 = 0 /\ call \in CallSet
    BY <1>4, <1>6, <1>7 DEF CallSet
  <2>2. IF Len(base) % 2 = 0 THEN call \in StringCallSet ELSE call \in InterpCallSet /\ base[Len(base)].interp
    BY <1>6, <2>1
  <2>. QED
    BY <1>4, <1>5, <2>1, <2>2, CallMade
<1>10. Len(calls') = n - 1 /\ calls'[n - 1] = call /\ \A i \in 1 .. n - 2 : calls'[i] = calls[i]
  BY <1>1, <1>2, <1>4, <1>8, <1>9
<1>11. calls' \in Seq(CallSet) /\ CallsAlternate(calls')
  BY <1>8, <1>9
<1>. QED
  BY <1>6, <1>10, <1>11 DEF call

--------------------------------------------------------------------------------
\* Types.

\* The characters the scanner has before it.
LEMMA CharFacts ==
    ASSUME CursorTyped
    PROVE  /\ Len(src) \in Nat /\ pos \in Nat \ {0} /\ pos <= Len(src) + 1
           /\ Ch # "end" => pos <= Len(src)
           /\ NextCh # "end" => pos + 1 <= Len(src)
           /\ ~AtEnd => pos <= Len(src) /\ Ch = src[pos]
           /\ \A i \in 1 .. Len(src) : CharAt(i) = src[i] /\ src[i] # "end"
BY DEF CursorTyped, CharAt, Ch, NextCh, AtEnd, Chars

\* The place of the cursor, and those behind it, are places.
LEMMA HereTyped ==
    ASSUME CursorTyped, NEW k \in Nat
    PROVE  Here \in Places /\ HereAfter(k) \in Places
BY DEF CursorTyped, Here, HereAfter, Places

LEMMA TokenTyped ==
    ASSUME NEW type \in Types, NEW at \in Places, NEW to \in Nat
    PROVE  Token(type, at, to) \in TokenSet
BY DEF Token, TokenSet, Places

\* An operator at the cursor, and the longest of them.
Longest == CHOOSE op \in AtOperator : \A other \in AtOperator : Len(other) <= Len(op)
\* scanOperator scans the longest spelling that is in the source here.
LEMMA LongestFacts ==
    ASSUME CursorTyped, AtOperator # {}
    PROVE  /\ Longest \in AtOperator /\ Longest \in Operators
           /\ \A op \in AtOperator : Len(op) <= Len(Longest)
           /\ Len(Longest) \in Nat \ {0} /\ pos + Len(Longest) <= Len(src) + 1
           /\ Longest[1] \in Types
           /\ \A i \in 1 .. Len(Longest) : Longest[i] = src[pos + i - 1]
<1>1. ASSUME NEW op \in AtOperator
      PROVE  /\ op \in Operators /\ Len(op) \in Nat \ {0} /\ pos + Len(op) - 1 <= Len(src)
             /\ op = SubSeq(src, pos, pos + Len(op) - 1) /\ op \in Seq(STRING)
  <2>1. op \in Operators /\ pos + Len(op) - 1 <= Len(src) /\ op = SubSeq(src, pos, pos + Len(op) - 1)
    BY DEF AtOperator
  <2>2. op \in Seq(STRING) /\ op # <<>>
    BY <2>1, OperatorsAssumption
  <2>3. Len(op) \in Nat \ {0}
    BY <2>2
  <2>. QED
    BY <2>1, <2>2, <2>3
<1> DEFINE T == {n \in Nat : \E op \in AtOperator : n = Len(op)}
<1>2. T \in SUBSET Nat /\ T # {}
  BY <1>1
<1>3. Len(src) + 1 \in Nat /\ \A n \in T : n <= Len(src) + 1
  BY <1>1, CharFacts
<1>4. PICK k \in T : \A m \in T : m <= k
  BY <1>2, <1>3, GreatestNat
<1>5. \E op \in AtOperator : \A other \in AtOperator : Len(other) <= Len(op)
  BY <1>1, <1>4
<1>6. Longest \in AtOperator /\ \A op \in AtOperator : Len(op) <= Len(Longest)
  BY <1>5 DEF Longest
<1> DEFINE n == Len(Longest)
<1>7. /\ Longest \in Operators /\ n \in Nat \ {0} /\ pos + n - 1 <= Len(src)
      /\ Longest = SubSeq(src, pos, pos + n - 1)
  BY <1>1, <1>6
<1>8. Longest[1] \in Types
  BY <1>7 DEF Types
<1>9. ASSUME NEW i \in 1 .. n PROVE Longest[i] = src[pos + i - 1]
  <2>1. pos \in Nat \ {0} /\ Len(src) \in Nat /\ src \in Seq(Chars)
    BY CharFacts DEF CursorTyped
  <2> HIDE DEF n
  <2>2. \A j \in pos .. pos + n - 1 : j \in 1 .. Len(src)
    BY <1>7, <2>1
  <2>3. pos \in Int /\ pos + n - 1 \in Int /\ \A j \in pos .. pos + n - 1 : src[j] \in Chars
    BY <1>7, <2>1, <2>2, ElementOfSeq
  <2>4. \A j \in 1 .. (pos + n - 1) - pos + 1 : SubSeq(src, pos, pos + n - 1)[j] = src[pos + j - 1]
    BY <2>3, SubSeqProperties
  <2>5. i \in 1 .. (pos + n - 1) - pos + 1
    BY <1>7, <2>1
  <2>. QED
    BY <1>7, <2>4, <2>5
<1>10. pos + n <= Len(src) + 1
  BY <1>7, CharFacts
<1>. QED
  BY <1>6, <1>7, <1>8, <1>9, <1>10

\* The levels that a line leaves open are the first ones, up to its width.
LEMMA KeptFacts ==
    ASSUME StackTyped, NEW width \in Nat
    PROVE  \E m \in 1 .. Len(indentStack) :
              /\ Kept(width) = SubSeq(indentStack, 1, m)
              /\ Kept(width) \in Seq(Nat) /\ Len(Kept(width)) = m
              /\ \A i \in 1 .. m : Kept(width)[i] = indentStack[i]
              /\ indentStack[m] <= width
              /\ \A i \in m + 1 .. Len(indentStack) : indentStack[i] > width
<1> DEFINE levels == {i \in DOMAIN indentStack : indentStack[i] <= width}
           m == CHOOSE i \in levels : \A j \in levels : j <= i
           n == Len(indentStack)
<1>1. n \in Nat /\ n > 0 /\ DOMAIN indentStack = 1 .. n /\ indentStack[1] = 0
      /\ \A i \in 1 .. n : indentStack[i] \in Nat
  BY DEF StackTyped
<1>2. levels \in SUBSET Nat /\ levels # {} /\ \A i \in levels : i <= n
  <2>1. 1 \in levels
    BY <1>1
  <2>. QED
    BY <1>1, <2>1
<1>3. \E i \in levels : \A j \in levels : j <= i
  BY <1>1, <1>2, GreatestNat
<1>4. m \in levels /\ \A j \in levels : j <= m
  BY <1>3
<1> HIDE DEF m
<1>5. m \in 1 .. n /\ indentStack[m] <= width
  BY <1>1, <1>4
<1>6. \A i \in m + 1 .. n : indentStack[i] > width
  <2> SUFFICES ASSUME NEW i \in m + 1 .. n, ~(indentStack[i] > width) PROVE FALSE
    OBVIOUS
  <2>1. i \in 1 .. n /\ ~(i <= m)
    BY <1>1, <1>5
  <2>2. i \in levels
    BY <1>1, <2>1
  <2>. QED
    BY <1>4, <2>1, <2>2
<1>7. Kept(width) = SubSeq(indentStack, 1, m)
  BY DEF Kept, m
<1>8. /\ SubSeq(indentStack, 1, m) \in Seq(Nat) /\ Len(SubSeq(indentStack, 1, m)) = m
      /\ \A i \in 1 .. m : SubSeq(indentStack, 1, m)[i] = indentStack[i]
  <2>1. 1 \in Int /\ m \in Int /\ \A i \in 1 .. m : indentStack[i] \in Nat
    BY <1>1, <1>5
  <2>2. /\ SubSeq(indentStack, 1, m) \in Seq(Nat)
        /\ Len(SubSeq(indentStack, 1, m)) = IF 1 <= m THEN m - 1 + 1 ELSE 0
        /\ \A i \in 1 .. m - 1 + 1 : SubSeq(indentStack, 1, m)[i] = indentStack[1 + i - 1]
    BY <2>1, SubSeqProperties
  <2>3. m \in Nat /\ 1 <= m /\ m - 1 + 1 = m /\ \A i \in 1 .. m : 1 + i - 1 = i
    BY <1>1, <1>5
  <2>. QED
    BY <2>2, <2>3
<1>. QED
  BY <1>5, <1>6, <1>7, <1>8

\* A width is a number.
LEMMA WidthTyped == ASSUME NEW i \in Int, NEW k \in Int PROVE Width(i, k) \in Nat
<1> DEFINE S(c) == {j \in i .. k - 1 : src[j] = c}
<1>1. IsFiniteSet(i .. k - 1)
  BY FS_Interval
<1>2. \A c : S(c) \in SUBSET (i .. k - 1)
  OBVIOUS
<1>3. IsFiniteSet(S(" ")) /\ IsFiniteSet(S("\t"))
  BY <1>1, <1>2, FS_Subset
<1>4. Cardinality(S(" ")) \in Nat /\ Cardinality(S("\t")) \in Nat
  BY <1>3, FS_CardinalityType
<1> DEFINE spaces == Cardinality(S(" "))
           tabs == Cardinality(S("\t"))
<1>5. Width(i, k) = spaces + 4 * tabs
  BY DEF Width
<1>6. spaces \in Nat /\ tabs \in Nat
  BY <1>4
<1> HIDE DEF spaces, tabs
<1>. QED
  BY <1>5, <1>6

--------------------------------------------------------------------------------
\* What the actions do, as far as the invariants ask.

\* One token is added.
OneMore(t) ==
    /\ tokens' \in Seq(TokenSet) /\ Len(tokens') = Len(tokens) + 1
    /\ Extends(tokens, tokens') /\ tokens'[Len(tokens) + 1] = t

\* Emitting one token, none, and reporting an error.
LEMMA EmitOne == ASSUME Typed, NEW t \in TokenSet, tokens' = tokens \o <<t>> PROVE OneMore(t)
<1>1. tokens \in Seq(TokenSet) /\ Len(tokens) \in Nat
  BY DEF Typed
<1>2. tokens' = Append(tokens, t)
  BY <1>1, AppendIsConcat
<1>3. /\ tokens' \in Seq(TokenSet) /\ Len(tokens') = Len(tokens) + 1
      /\ \A i \in 1 .. Len(tokens) : tokens'[i] = tokens[i]
      /\ tokens'[Len(tokens) + 1] = t
  BY <1>1, <1>2, AppendProperties
<1>. QED
  BY <1>1, <1>3 DEF OneMore, Extends

LEMMA EmitNone == ASSUME Typed, tokens' = tokens PROVE Extends(tokens, tokens') /\ Len(tokens) \in Nat
BY DEF Typed, Extends

LEMMA ErrorAdded ==
    ASSUME Typed, NEW e \in Problems, errors' = Append(errors, e)
    PROVE  errors' \in Seq(Problems) /\ errors' # <<>>
<1>1. errors \in Seq(Problems)
  BY DEF Typed
<1>. QED
  BY <1>1, AppendProperties

\* What a round of scanToken may do that starts no string.
TokenAt(t, place) == t.line = place.line /\ t.col = place.col /\ t.from = place.from
NewToken(t) ==
    /\ t.type \in Plain /\ pos <= t.from /\ t.from <= pos' /\ t.to <= pos'
    /\ IF t.type = "NEWLINE" THEN pos < t.to ELSE TokenAt(t, Here) \/ TokenAt(t, Here')
Scanned ==
    /\ src' = src /\ calls' = calls /\ CursorTyped' /\ pos <= pos'
    /\ tokens' \in Seq(TokenSet) /\ Extends(tokens, tokens')
    /\ \A i \in Len(tokens) + 1 .. Len(tokens') : NewToken(tokens'[i])
    /\ errors' \in Seq(Problems) /\ (errors' = <<>> => errors = <<>>)
    /\ StackTyped' /\ atLineStart' \in BOOLEAN /\ inToken' \in BOOLEAN /\ done' \in BOOLEAN
    /\ (inToken' => inToken) /\ Running \in {"run", "interp"}
    /\ atLineStart' => \/ atLineStart
                       \/ Len(tokens') > Len(tokens) /\ tokens'[Len(tokens')].type = "NEWLINE"

\* A round that leaves the layout alone, and scans no token or one.
LEMMA ScannedOne ==
    ASSUME Typed, Scan, calls' = calls, CursorTyped', pos <= pos', atLineStart' = atLineStart,
           \/ tokens' = tokens /\ errors' = errors
           \/ tokens' = tokens /\ \E e \in Problems : errors' = Append(errors, e)
           \/ errors' = errors /\ \E t \in TokenSet : NewToken(t) /\ tokens' = tokens \o <<t>>
    PROVE  Scanned
<1>1. /\ src' = src /\ inToken' = FALSE /\ StackTyped' /\ done' \in BOOLEAN
      /\ atLineStart' = FALSE /\ Running \in {"run", "interp"}
  BY DEF Scan, InScanToken, Typed, StackTyped
<1>2. /\ errors' \in Seq(Problems) /\ (errors' = <<>> => errors = <<>>)
  <2>1. errors \in Seq(Problems)
    BY DEF Typed
  <2>. QED
    BY <2>1, ErrorAdded
<1>3. /\ tokens' \in Seq(TokenSet) /\ Extends(tokens, tokens')
      /\ \A i \in Len(tokens) + 1 .. Len(tokens') : NewToken(tokens'[i])
  <2>1. CASE tokens' = tokens
    <3>1. tokens \in Seq(TokenSet) /\ Len(tokens) \in Nat
      BY DEF Typed
    <3>. QED
      BY <2>1, <3>1, EmitNone
  <2>2. ASSUME NEW t \in TokenSet, NewToken(t), tokens' = tokens \o <<t>>
        PROVE  /\ tokens' \in Seq(TokenSet) /\ Extends(tokens, tokens')
               /\ \A i \in Len(tokens) + 1 .. Len(tokens') : NewToken(tokens'[i])
    <3>1. OneMore(t) /\ Len(tokens) \in Nat
      BY <2>2, EmitOne DEF Typed
    <3>2. \A i \in Len(tokens) + 1 .. Len(tokens') : i = Len(tokens) + 1
      BY <3>1 DEF OneMore
    <3>. QED
      BY <2>2, <3>1, <3>2 DEF OneMore
  <2>. QED
    BY <2>1, <2>2
<1>. QED
  BY <1>1, <1>2, <1>3 DEF Scanned

\* Each round of scanToken, by what it finds at the cursor.
LEMMA SkipBlankScans == ASSUME Typed, SkipBlank PROVE Scanned
<1>1. CursorTyped /\ pos \in Nat /\ pos <= Len(src) /\ src' = src
  BY CharFacts DEF Typed, SkipBlank, Scan, InScanToken
<1>2. pos' = pos + 1 /\ col' = col + 1 /\ line' = line
  BY DEF SkipBlank, Advance
<1>3. CursorTyped' /\ pos <= pos'
  BY <1>1, <1>2 DEF CursorTyped
<1>. QED
  BY <1>3, ScannedOne DEF SkipBlank, Quietly

LEMMA SkipLineCommentScans == ASSUME Typed, SkipLineComment PROVE Scanned
<1> DEFINE chars == {src[i] : i \in DOMAIN src} \ {"\n"}
           k == After(pos, chars)
<1>1. CursorTyped /\ pos \in 1 .. Len(src) + 1 /\ Len(src) \in Nat /\ src' = src
  BY CharFacts DEF Typed, SkipLineComment, Scan, CursorTyped
<1>2. "end" \notin chars
  BY <1>1 DEF CursorTyped, Chars
<1>3. k \in pos .. Len(src) + 1
  BY <1>1, <1>2, AfterIs
<1>4. pos' = pos + (k - pos) /\ col' = col + (k - pos) /\ line' = line
  BY DEF SkipLineComment, Advance
<1> HIDE DEF k
<1>5. CursorTyped' /\ pos <= pos'
  BY <1>1, <1>3, <1>4 DEF CursorTyped
<1>. QED
  BY <1>5, ScannedOne DEF SkipLineComment, Quietly

LEMMA ScanWordScans == ASSUME Typed, ScanWord PROVE Scanned
<1> DEFINE k == After(pos, {"x"})
           t == Token("WORD", Here, k)
<1>1. CursorTyped /\ pos \in 1 .. Len(src) + 1 /\ Len(src) \in Nat /\ src' = src
  BY CharFacts DEF Typed, ScanWord, Scan, CursorTyped
<1>2. k \in pos .. Len(src) + 1
  BY <1>1, AfterIs
<1>3. pos' = pos + (k - pos) /\ col' = col + (k - pos) /\ line' = line
  BY DEF ScanWord, Advance
<1>4. tokens' = tokens \o <<t>> /\ errors' = errors
  BY DEF ScanWord, Emit
<1>5. t.type = "WORD" /\ t.from = pos /\ t.to = k /\ TokenAt(t, Here)
  BY DEF Token, Here, TokenAt
<1>6. "WORD" \in Plain /\ "WORD" \in Types
  BY DEF Plain, Types, Marks
<1>7. t \in TokenSet
  <2>1. k \in Nat /\ Here \in Places
    BY <1>1, <1>2, HereTyped
  <2>. QED
    BY <1>6, <2>1, TokenTyped
<1> HIDE DEF k, t
<1>8. CursorTyped' /\ pos <= pos' /\ pos' = k
  BY <1>1, <1>2, <1>3 DEF CursorTyped
<1>9. NewToken(t)
  <2>1. t.type \in Plain /\ t.type # "NEWLINE"
    BY <1>5, <1>6
  <2>2. pos <= t.from /\ t.from <= pos' /\ t.to <= pos'
    BY <1>1, <1>2, <1>5, <1>8
  <2>. QED
    BY <1>5, <2>1, <2>2 DEF NewToken
<1>. QED
  BY <1>4, <1>7, <1>8, <1>9, ScannedOne DEF ScanWord

\* An operator's type is that of none of the other tokens.
LEMMA OperatorPlain == ASSUME CursorTyped, AtOperator # {} PROVE Longest[1] \in Plain
<1>1. Longest \in Operators /\ Len(Longest) \in Nat \ {0} /\ Longest[1] \in Types
  BY LongestFacts
<1>2. Longest \in Seq(STRING) /\ \A i \in DOMAIN Longest : Longest[i] \notin Marks
  BY <1>1, OperatorsAssumption
<1>3. 1 \in DOMAIN Longest
  BY <1>1, <1>2
<1>. QED
  BY <1>1, <1>2, <1>3 DEF Plain, Marks

LEMMA ScanOperatorScans == ASSUME Typed, ScanOperator PROVE Scanned
<1>1. CursorTyped /\ pos \in 1 .. Len(src) /\ Len(src) \in Nat /\ src' = src
  <2>1. CursorTyped /\ src' = src /\ ~AtEnd
    BY DEF Typed, ScanOperator, Scan, InScanToken
  <2>. QED
    BY <2>1, CharFacts
<1>2. CASE AtOperator = {}
  <2>1. pos' = pos + 1 /\ col' = col + 1 /\ line' = line
    BY <1>2 DEF ScanOperator, Advance
  <2>2. CursorTyped' /\ pos <= pos'
    BY <1>1, <2>1 DEF CursorTyped
  <2>3. "unexpected character" \in Problems
    BY DEF Problems
  <2>4. tokens' = tokens /\ errors' = Append(errors, "unexpected character")
    BY <1>2 DEF ScanOperator, AddError
  <2>5. Scan /\ calls' = calls /\ atLineStart' = atLineStart
    BY DEF ScanOperator
  <2>. QED
    BY <2>2, <2>3, <2>4, <2>5, ScannedOne
<1>3. CASE AtOperator # {}
  <2> DEFINE k == Len(Longest)
             t == Token(Longest[1], Here, pos + k)
  <2>1. k \in Nat \ {0} /\ pos + k <= Len(src) + 1 /\ Longest[1] \in Types /\ Longest[1] \in Plain
    BY <1>1, <1>3, LongestFacts, OperatorPlain
  <2>2. pos' = pos + k /\ col' = col + k /\ line' = line /\ tokens' = tokens \o <<t>> /\ errors' = errors
    BY <1>3 DEF ScanOperator, Advance, Emit, Longest
  <2>3. t.type = Longest[1] /\ t.from = pos /\ t.to = pos + k /\ TokenAt(t, Here)
    BY DEF Token, Here, TokenAt
  <2>4. t \in TokenSet
    <3>1. pos + k \in Nat /\ Here \in Places
      BY <1>1, <2>1, HereTyped
    <3>. QED
      BY <2>1, <3>1, TokenTyped
  <2> HIDE DEF k, t
  <2>5. CursorTyped' /\ pos <= pos' /\ pos < pos + k
    BY <1>1, <2>1, <2>2 DEF CursorTyped
  <2>6. NewToken(t)
    <3>1. t.type \in Plain /\ t.type # "NEWLINE"
      <4>1. t.type \in Types /\ Longest \in Operators
        BY <1>1, <1>3, <2>1, <2>3, LongestFacts
      <4>2. Longest[1] \notin Marks
        <5>1. Longest \in Seq(STRING) /\ \A i \in DOMAIN Longest : Longest[i] \notin Marks
          BY <4>1, OperatorsAssumption
        <5>. QED
          BY <2>1, <5>1 DEF k
      <4>. QED
        BY <2>1, <2>3, <4>2 DEF Marks
    <3>2. pos <= t.from /\ t.from <= pos' /\ t.to <= pos'
      BY <1>1, <2>1, <2>2, <2>3, <2>5
    <3>. QED
      BY <2>3, <3>1, <3>2 DEF NewToken
  <2>. QED
    BY <2>2, <2>4, <2>5, <2>6, ScannedOne DEF ScanOperator
<1>. QED
  BY <1>2, <1>3

\* A line break is scanned, of one character or two.
LEMMA BreakScans ==
    ASSUME Typed, Scan, calls' = calls, atLineStart' = TRUE, NEW k \in {1, 2}, pos + k <= Len(src) + 1,
           pos' = pos + k, line' = line + 1, col' = 1, NEW at \in Places, at.from \in pos .. pos + k,
           Emit(<<Token("NEWLINE", at, pos + k)>>)
    PROVE  Scanned
<1> DEFINE t == Token("NEWLINE", at, pos + k)
<1>1. CursorTyped /\ pos \in Nat \ {0} /\ Len(src) \in Nat
  BY CharFacts DEF Typed
<1>2. "NEWLINE" \in Types /\ "NEWLINE" \in Plain
  BY DEF Plain, Types, Marks
<1>3. /\ src' = src /\ inToken' = FALSE /\ StackTyped' /\ done' \in BOOLEAN
      /\ Running \in {"run", "interp"}
  BY DEF Scan, InScanToken, Typed, StackTyped
<1>4. t \in TokenSet
  BY <1>1, <1>2, TokenTyped
<1>5. tokens' = tokens \o <<t>> /\ errors' = errors
  BY DEF Emit
<1>6. OneMore(t) /\ Len(tokens) \in Nat /\ errors \in Seq(Problems)
  BY <1>4, <1>5, EmitOne DEF Typed
<1>7. t.type = "NEWLINE" /\ t.from \in pos .. pos + k /\ t.to = pos + k
  BY DEF Token
<1>8. CursorTyped' /\ pos < pos'
  BY <1>1, <1>3 DEF CursorTyped
<1> HIDE DEF t
<1>9. NewToken(t)
  BY <1>1, <1>2, <1>7, <1>8 DEF NewToken
<1>10. \A i \in Len(tokens) + 1 .. Len(tokens') : i = Len(tokens) + 1
  BY <1>6 DEF OneMore
<1>11. Len(tokens') > Len(tokens) /\ tokens'[Len(tokens')].type = "NEWLINE"
  BY <1>6, <1>7 DEF OneMore
<1>12. \A i \in Len(tokens) + 1 .. Len(tokens') : NewToken(tokens'[i])
  BY <1>6, <1>9, <1>10 DEF OneMore
<1>13. pos <= pos' /\ (errors' = <<>> => errors = <<>>) /\ errors' \in Seq(Problems)
  BY <1>1, <1>5, <1>6, <1>8
<1>14. tokens' \in Seq(TokenSet) /\ Extends(tokens, tokens')
  BY <1>6 DEF OneMore
<1>. QED
  BY <1>3, <1>8, <1>11, <1>12, <1>13, <1>14, Zenon DEF Scanned

LEMMA NewlineScans == ASSUME Typed, Newline PROVE Scanned
<1>1. CursorTyped /\ pos \in Nat \ {0} /\ pos <= Len(src) /\ Len(src) \in Nat
  BY CharFacts DEF Typed, Newline, Scan, InScanToken
<1>2. Here \in Places /\ Here.from \in pos .. pos + 1
  <2>1. Here \in Places /\ Here.from = pos
    BY <1>1, HereTyped DEF Here
  <2>. QED
    BY <1>1, <2>1
<1>3. /\ Scan /\ calls' = calls /\ atLineStart' = TRUE /\ pos' = pos + 1 /\ line' = line + 1 /\ col' = 1
      /\ Emit(<<Token("NEWLINE", Here, pos + 1)>>)
  BY DEF Newline
<1>4. 1 \in {1, 2} /\ pos + 1 <= Len(src) + 1
  BY <1>1
<1>. QED
  BY <1>1, <1>2, <1>3, <1>4, BreakScans

LEMMA CarriageReturnScans == ASSUME Typed, CarriageReturn PROVE Scanned
<1> DEFINE k == IF NextCh = "\n" THEN 2 ELSE 1
<1>1. CursorTyped /\ pos \in Nat \ {0} /\ pos <= Len(src) /\ Len(src) \in Nat /\ k \in {1, 2}
      /\ pos + k <= Len(src) + 1
  BY CharFacts DEF Typed, CarriageReturn, Scan, InScanToken
<1>2. HereAfter(k) \in Places /\ HereAfter(k).from \in pos .. pos + k
  <2>1. HereAfter(k) \in Places /\ HereAfter(k).from = pos + k
    BY <1>1, HereTyped DEF HereAfter
  <2>. QED
    BY <1>1, <2>1
<1>3. /\ Scan /\ calls' = calls /\ atLineStart' = TRUE /\ pos' = pos + k /\ line' = line + 1 /\ col' = 1
      /\ Emit(<<Token("NEWLINE", HereAfter(k), pos + k)>>)
  BY DEF CarriageReturn
<1> HIDE DEF k
<1>. QED
  BY <1>1, <1>2, <1>3, BreakScans

\* Some equal tokens are added.
LEMMA EmitMany ==
    ASSUME Typed, NEW t \in TokenSet, NEW m \in Nat, tokens' = tokens \o [i \in 1 .. m |-> t]
    PROVE  /\ tokens' \in Seq(TokenSet) /\ Extends(tokens, tokens') /\ Len(tokens') = Len(tokens) + m
           /\ \A i \in Len(tokens) + 1 .. Len(tokens') : tokens'[i] = t
<1> DEFINE more == [i \in 1 .. m |-> t]
<1>1. tokens \in Seq(TokenSet) /\ Len(tokens) \in Nat
  BY DEF Typed
<1>2. more \in Seq(TokenSet) /\ Len(more) = m /\ \A i \in 1 .. m : more[i] = t
  BY IsASeq, LenProperties
<1> HIDE DEF more
<1>3. /\ tokens' \in Seq(TokenSet) /\ Len(tokens') = Len(tokens) + m
      /\ \A i \in 1 .. Len(tokens) + m : tokens'[i] = IF i <= Len(tokens) THEN tokens[i] ELSE more[i - Len(tokens)]
  BY <1>1, <1>2, ConcatProperties DEF more
<1>4. \A i \in 1 .. Len(tokens) : tokens'[i] = tokens[i]
  BY <1>1, <1>3
<1>5. ASSUME NEW i \in Len(tokens) + 1 .. Len(tokens') PROVE tokens'[i] = t
  <2>1. i \in 1 .. Len(tokens) + m /\ ~(i <= Len(tokens)) /\ i - Len(tokens) \in 1 .. m
    BY <1>1, <1>3
  <2>. QED
    BY <1>2, <1>3, <2>1
<1>6. Len(tokens) <= Len(tokens')
  BY <1>1, <1>3
<1>. QED
  BY <1>3, <1>4, <1>5, <1>6 DEF Extends

\* A deeper level is pushed, or the deeper ones are dropped.
LEMMA StackPushed ==
    ASSUME StackTyped, NEW width \in Nat, width > indentStack[Len(indentStack)],
           indentStack' = Append(indentStack, width)
    PROVE  StackTyped'
<1> DEFINE n == Len(indentStack)
<1>1. /\ indentStack \in Seq(Nat) /\ n \in Nat /\ n > 0 /\ indentStack[1] = 0
      /\ \A i, j \in 1 .. n : i < j => indentStack[i] < indentStack[j]
  BY DEF StackTyped
<1>2. /\ indentStack' \in Seq(Nat) /\ Len(indentStack') = n + 1 /\ indentStack'[n + 1] = width
      /\ \A i \in 1 .. n : indentStack'[i] = indentStack[i]
  BY <1>1, AppendProperties
<1>3. ASSUME NEW i \in 1 .. n + 1, NEW j \in 1 .. n + 1, i < j PROVE indentStack'[i] < indentStack'[j]
  <2>1. i \in 1 .. n /\ i \in Nat /\ indentStack[i] \in Nat /\ n \in 1 .. n /\ indentStack[n] \in Nat
    BY <1>1, <1>3
  <2>2. indentStack[i] <= indentStack[n]
    BY <1>1, <2>1
  <2>3. CASE j = n + 1
    BY <1>2, <2>1, <2>2, <2>3
  <2>4. CASE j # n + 1
    <3>1. j \in 1 .. n
      BY <1>1, <2>4
    <3>. QED
      BY <1>1, <1>2, <1>3, <2>1, <3>1
  <2>. QED
    BY <2>3, <2>4
<1>. QED
  BY <1>1, <1>2, <1>3 DEF StackTyped

\* A narrower line drops levels.
LEMMA StackDropped ==
    ASSUME StackTyped, NEW width \in Nat, indentStack' = Kept(width)
    PROVE  /\ StackTyped' /\ Len(Kept(width)) \in 1 .. Len(indentStack)
           /\ Kept(width)[Len(Kept(width))] \in Nat
<1> DEFINE kept == Kept(width)
<1>1. PICK m \in 1 .. Len(indentStack) :
              /\ kept \in Seq(Nat) /\ Len(kept) = m
              /\ \A i \in 1 .. m : kept[i] = indentStack[i]
  BY KeptFacts
<1> HIDE DEF kept
<1>2. /\ Len(indentStack) \in Nat /\ indentStack[1] = 0
      /\ \A i, j \in 1 .. Len(indentStack) : i < j => indentStack[i] < indentStack[j]
  BY DEF StackTyped
<1>3. \A i \in 1 .. m : i \in 1 .. Len(indentStack)
  BY <1>1, <1>2
<1>4. m \in 1 .. m /\ 1 \in 1 .. m /\ m > 0
  BY <1>1, <1>2
<1>5. kept[m] \in Nat /\ kept[1] = 0
  BY <1>1, <1>2, <1>4
<1>6. ASSUME NEW i \in 1 .. m, NEW j \in 1 .. m, i < j PROVE kept[i] < kept[j]
  BY <1>1, <1>2, <1>3, <1>6
<1>7. indentStack' = kept
  BY DEF kept
<1>8. StackTyped'
  BY <1>1, <1>4, <1>5, <1>6, <1>7 DEF StackTyped
<1>. QED
  BY <1>1, <1>5, <1>8 DEF kept

LEMMA HandleIndentationScans == ASSUME Typed, HandleIndentation PROVE Scanned
<1> DEFINE k == After(pos, Blanks)
           width == Width(pos, k)
           n == Len(indentStack)
           current == indentStack[n]
           kept == Kept(width)
           t(type) == Token(type, HereAfter(k - pos), pos + (k - pos))
<1>1. CursorTyped /\ pos \in 1 .. Len(src) + 1 /\ Len(src) \in Nat /\ src' = src /\ StackTyped
  BY CharFacts DEF Typed, HandleIndentation, CursorTyped
<1>2. k \in pos .. Len(src) + 1
  BY <1>1, AfterIs DEF Blanks
<1>3. pos' = pos + (k - pos) /\ col' = col + (k - pos) /\ line' = line
  BY DEF HandleIndentation, Advance
<1>4. width \in Nat
  BY <1>1, <1>2, WidthTyped
<1>5. t("INDENT") = Layout("INDENT", k - pos) /\ t("DEDENT") = Layout("DEDENT", k - pos)
  BY DEF Layout
<1>6. \A type \in {"INDENT", "DEDENT"} :
          /\ t(type) \in TokenSet /\ t(type).type = type /\ t(type).from = pos + (k - pos)
          /\ t(type).to = pos + (k - pos) /\ TokenAt(t(type), HereAfter(k - pos))
  <2>1. k - pos \in Nat /\ pos + (k - pos) \in Nat
    BY <1>1, <1>2
  <2>2. HereAfter(k - pos) \in Places /\ HereAfter(k - pos).from = pos + (k - pos)
    BY <1>1, <2>1, HereTyped DEF HereAfter
  <2>3. \A type \in {"INDENT", "DEDENT"} : type \in Types
    BY DEF Types, Marks
  <2>4. \A type \in {"INDENT", "DEDENT"} : t(type) \in TokenSet
    BY <2>1, <2>2, <2>3, TokenTyped
  <2>. QED
    BY <2>2, <2>4 DEF Token, TokenAt
<1>7. /\ calls' = calls /\ done' \in BOOLEAN /\ atLineStart' = FALSE /\ (inToken' => inToken) /\ inToken' \in BOOLEAN
      /\ Running \in {"run", "interp"}
  BY DEF HandleIndentation, InScanToken, Typed
<1>8. \/ tokens' = tokens /\ errors' = errors /\ indentStack' = indentStack
      \/ /\ width > current /\ indentStack' = Append(indentStack, width)
         /\ tokens' = tokens \o <<t("INDENT")>> /\ errors' = errors
      \/ /\ indentStack' = kept /\ tokens' = tokens \o [i \in 1 .. n - Len(kept) |-> t("DEDENT")]
         /\ errors' = errors \/ errors' = Append(errors, "inconsistent indentation")
  BY <1>5 DEF HandleIndentation, Emit
<1> HIDE DEF k, width, t, kept
<1>9. CursorTyped' /\ pos <= pos' /\ pos + (k - pos) = k /\ pos' = k
  BY <1>1, <1>2, <1>3 DEF CursorTyped
<1>10. \A type \in {"INDENT", "DEDENT"} : NewToken(t(type))
  <2>1. "INDENT" \in Plain /\ "DEDENT" \in Plain
    BY DEF Plain, Types, Marks
  <2>2. \A type \in {"INDENT", "DEDENT"} : t(type).type \in Plain /\ t(type).type # "NEWLINE"
    BY <1>6, <2>1
  <2>3. \A type \in {"INDENT", "DEDENT"} : pos <= t(type).from /\ t(type).from <= pos' /\ t(type).to <= pos'
    BY <1>1, <1>2, <1>6, <1>9
  <2>4. HereAfter(k - pos) = Here'
    BY <1>3 DEF Here, HereAfter
  <2>. QED
    BY <1>6, <2>2, <2>3, <2>4 DEF NewToken
<1> DEFINE New == /\ tokens' \in Seq(TokenSet) /\ Extends(tokens, tokens')
                  /\ \A i \in Len(tokens) + 1 .. Len(tokens') : NewToken(tokens'[i])
           Rest == StackTyped' /\ errors' \in Seq(Problems) /\ (errors' = <<>> => errors = <<>>)
<1>11. errors \in Seq(Problems) /\ tokens \in Seq(TokenSet) /\ Len(tokens) \in Nat
  BY DEF Typed
<1>12. CASE tokens' = tokens /\ errors' = errors /\ indentStack' = indentStack
  <2>1. StackTyped'
    BY <1>1, <1>12 DEF StackTyped
  <2>2. New
    BY <1>11, <1>12, EmitNone
  <2>. QED
    BY <1>1, <1>7, <1>9, <1>11, <1>12, <2>1, <2>2 DEF Scanned
<1>13. CASE /\ width > current /\ indentStack' = Append(indentStack, width)
            /\ tokens' = tokens \o <<t("INDENT")>> /\ errors' = errors
  <2>1. StackTyped'
    BY <1>1, <1>4, <1>13, StackPushed
  <2>2. OneMore(t("INDENT"))
    BY <1>6, <1>13, EmitOne
  <2>3. \A i \in Len(tokens) + 1 .. Len(tokens') : i = Len(tokens) + 1
    BY <1>11, <2>2 DEF OneMore
  <2>4. New
    BY <1>10, <2>2, <2>3 DEF OneMore
  <2>. QED
    BY <1>1, <1>7, <1>9, <1>11, <1>13, <2>1, <2>4 DEF Scanned
<1>14. CASE /\ indentStack' = kept /\ tokens' = tokens \o [i \in 1 .. n - Len(kept) |-> t("DEDENT")]
            /\ errors' = errors \/ errors' = Append(errors, "inconsistent indentation")
  <2>1. StackTyped' /\ Len(kept) \in 1 .. n
    BY <1>1, <1>4, <1>14, StackDropped DEF kept
  <2>2. n - Len(kept) \in Nat
    BY <1>1, <2>1 DEF StackTyped
  <2>3. New
    BY <1>6, <1>10, <1>14, <2>2, EmitMany
  <2>4. errors' \in Seq(Problems) /\ (errors' = <<>> => errors = <<>>)
    BY <1>11, <1>14, ErrorAdded DEF Problems
  <2>. QED
    BY <1>1, <1>7, <1>9, <2>1, <2>3, <2>4 DEF Scanned
<1>. QED
  BY <1>8, <1>12, <1>13, <1>14

\* The breaks from one place to before another, and their number.
BreaksFrom(i, k) == {j \in i .. k - 1 : src[j] = "\n"}
\* The breaks of a block comment.
LEMMA BreaksFromFacts ==
    ASSUME NEW i \in Int, NEW k \in Int
    PROVE  IsFiniteSet(BreaksFrom(i, k)) /\ Cardinality(BreaksFrom(i, k)) \in Nat
<1>1. IsFiniteSet(i .. k - 1)
  BY FS_Interval
<1>2. BreaksFrom(i, k) \in SUBSET (i .. k - 1)
  BY DEF BreaksFrom
<1>3. IsFiniteSet(BreaksFrom(i, k))
  BY <1>1, <1>2, FS_Subset
<1>. QED
  BY <1>3, FS_CardinalityType

\* Behind a block comment the place is counted from the last break in it.
LEMMA CommentFacts ==
    ASSUME Typed, SkipBlockComment
    PROVE  /\ pos' \in pos + 2 .. Len(src) + 1
           /\ line' = line + Cardinality(BreaksFrom(pos, pos'))
           /\ BreaksFrom(pos, pos') = {} => col' = col + pos' - pos
           /\ BreaksFrom(pos, pos') # {} =>
                 \E b \in BreaksFrom(pos, pos') : col' = pos' - b /\ \A j \in BreaksFrom(pos, pos') : j <= b
<1> DEFINE breaks == BreaksFrom(pos, pos')
           lastBreak == CHOOSE i \in breaks : \A j \in breaks : j <= i
<1>1. Len(src) \in Nat /\ pos \in Nat \ {0} /\ pos + 2 <= Len(src) + 1
  <2>1. NextCh = "-" /\ CursorTyped
    BY DEF Typed, SkipBlockComment, AtBlockComment
  <2>2. Len(src) \in Nat /\ pos \in Nat \ {0} /\ pos + 1 <= Len(src)
    BY <2>1, CharFacts
  <2>. QED
    BY <2>2
<1>2. CommentEnd \in SkipSet(pos + 2)
  BY <1>1, CommentEndIs
<1>3. CommentEnd.at \in pos + 2 .. Len(src) + 1
  BY <1>2 DEF SkipSet
<1>4. /\ pos' = CommentEnd.at /\ line' = line + Cardinality(breaks)
      /\ col' = IF breaks = {} THEN col + pos' - pos ELSE pos' - lastBreak
  <2>1. pos' = CommentEnd.at
    BY DEF SkipBlockComment
  <2> DEFINE inside == {i \in pos .. CommentEnd.at - 1 : src[i] = "\n"}
  <2>2. breaks = inside
    BY <2>1 DEF BreaksFrom
  <2>3. line' = line + Cardinality(inside)
    BY DEF SkipBlockComment
  <2>4. col' = IF inside = {} THEN col + CommentEnd.at - pos
               ELSE CommentEnd.at - CHOOSE i \in inside : \A j \in inside : j <= i
    BY DEF SkipBlockComment
  <2> HIDE DEF inside, breaks
  <2>. QED
    BY <2>1, <2>2, <2>3, <2>4
<1>5. breaks # {} => lastBreak \in breaks /\ \A j \in breaks : j <= lastBreak
  <2>1. ASSUME breaks # {} PROVE \E i \in breaks : \A j \in breaks : j <= i
    <3>1. breaks \in SUBSET Nat /\ pos' \in Nat /\ \A j \in breaks : j <= pos'
      BY <1>1, <1>3, <1>4 DEF BreaksFrom
    <3> HIDE DEF breaks
    <3>. QED
      BY <2>1, <3>1, GreatestNat
  <2> HIDE DEF breaks
  <2>. QED
    BY <2>1
<1> HIDE DEF lastBreak
<1>. QED
  BY <1>3, <1>4, <1>5

LEMMA SkipBlockCommentScans == ASSUME Typed, SkipBlockComment PROVE Scanned
<1>1. CursorTyped /\ src' = src /\ Scan /\ Len(src) \in Nat /\ pos \in Nat \ {0} /\ line \in Nat \ {0} /\ col \in Nat \ {0}
      /\ src \in Seq(Chars)
  BY CharFacts DEF Typed, SkipBlockComment, Scan, CursorTyped
<1>2. pos' \in pos + 2 .. Len(src) + 1
  BY CommentFacts
<1>3. line' \in Nat \ {0}
  <2> DEFINE m == Cardinality(BreaksFrom(pos, pos'))
  <2>1. m \in Nat /\ line' = line + m
    BY <1>1, <1>2, CommentFacts, BreaksFromFacts
  <2> HIDE DEF m
  <2>. QED
    BY <1>1, <2>1
<1>4. col' \in Nat \ {0}
  <2>1. CASE BreaksFrom(pos, pos') = {}
    <3>1. col' = col + pos' - pos
      BY <2>1, CommentFacts
    <3>2. pos' \in Int /\ pos' >= pos + 2
      BY <1>1, <1>2
    <3>3. pos \in Int /\ col \in Int /\ col >= 1
      BY <1>1
    <3>4. \A c, p, q \in Int : c >= 1 /\ q >= p + 2 => c + q - p \in Nat \ {0}
      OBVIOUS
    <3>5. col + pos' - pos \in Nat \ {0}
      BY <3>2, <3>3, <3>4
    <3>. QED
      BY <3>1, <3>5
  <2>2. CASE BreaksFrom(pos, pos') # {}
    <3>1. PICK b \in BreaksFrom(pos, pos') : col' = pos' - b
      BY <2>2, CommentFacts
    <3>2. b \in pos .. pos' - 1
      BY DEF BreaksFrom
    <3>3. pos' \in Int /\ pos \in Int
      BY <1>1, <1>2
    <3>4. \A p, q \in Int : \A i \in p .. q - 1 : q - i \in Nat \ {0}
      OBVIOUS
    <3>5. pos' - b \in Nat \ {0}
      BY <3>2, <3>3, <3>4
    <3>. QED
      BY <3>1, <3>5
  <2>. QED
    BY <2>1, <2>2
<1>5. CursorTyped' /\ pos <= pos'
  BY <1>1, <1>2, <1>3, <1>4 DEF CursorTyped
<1>6. calls' = calls /\ atLineStart' = atLineStart /\ tokens' = tokens
      /\ (errors' = errors \/ errors' = Append(errors, "unterminated block comment"))
  BY DEF SkipBlockComment, Quietly, AddError
<1>7. "unterminated block comment" \in Problems
  BY DEF Problems
<1>. QED
  BY <1>1, <1>5, <1>6, <1>7, ScannedOne

LEMMA FinishScans == ASSUME Typed, Finish PROVE Scanned
<1> DEFINE m == Len(indentStack) - 1
           dedent == Layout("DEDENT", 0)
           eof == Layout("EOF", 0)
           more == [i \in 1 .. m |-> dedent] \o <<eof>>
<1>1. CursorTyped /\ pos \in Nat \ {0} /\ Len(src) \in Nat /\ tokens \in Seq(TokenSet) /\ Len(tokens) \in Nat
  BY CharFacts DEF Typed
<1>2. /\ dedent \in TokenSet /\ dedent.type = "DEDENT" /\ dedent.from = pos /\ dedent.to = pos
      /\ eof \in TokenSet /\ eof.type = "EOF" /\ eof.from = pos /\ eof.to = pos
      /\ TokenAt(dedent, Here) /\ TokenAt(eof, Here)
  <2>1. HereAfter(0) \in Places /\ HereAfter(0).from = pos /\ pos + 0 = pos /\ col + 0 = col
    BY <1>1, HereTyped DEF HereAfter, CursorTyped
  <2>2. "DEDENT" \in Types /\ "EOF" \in Types
    BY DEF Types, Marks
  <2>3. dedent \in TokenSet /\ eof \in TokenSet
    BY <1>1, <2>1, <2>2, TokenTyped DEF Layout
  <2>. QED
    BY <2>1, <2>3 DEF Layout, Token, TokenAt, Here, HereAfter
<1>3. /\ src' = src /\ pos' = pos /\ line' = line /\ col' = col /\ calls' = calls /\ calls = <<>>
      /\ atLineStart' = atLineStart /\ inToken' = inToken /\ done' = TRUE /\ indentStack' = <<0>> /\ errors' = errors
      /\ tokens' = tokens \o more
  BY DEF Finish, cursor, Emit
<1>4. m \in Nat
  BY DEF Typed, StackTyped
<1> HIDE DEF dedent, eof, m
<1>5. /\ more \in Seq(TokenSet) /\ Len(more) \in Nat
      /\ \A i \in 1 .. Len(more) : more[i] = dedent \/ more[i] = eof
  <2> DEFINE some == [i \in 1 .. m |-> dedent]
  <2>1. some \in Seq(TokenSet) /\ Len(some) = m /\ \A i \in 1 .. m : some[i] = dedent
    BY <1>2, <1>4, IsASeq, LenProperties
  <2> HIDE DEF some
  <2>2. more = Append(some, eof)
    BY <1>2, <2>1, AppendIsConcat DEF some, more
  <2>3. /\ Append(some, eof) \in Seq(TokenSet) /\ Len(Append(some, eof)) = m + 1
        /\ \A i \in 1 .. m : Append(some, eof)[i] = some[i]
        /\ Append(some, eof)[m + 1] = eof
    BY <1>2, <2>1, AppendProperties
  <2> HIDE DEF more
  <2>4. \A i \in 1 .. m + 1 : i \in 1 .. m \/ i = m + 1
    BY <1>4
  <2>. QED
    BY <1>4, <2>1, <2>2, <2>3, <2>4
<1> HIDE DEF more
<1>6. /\ tokens' \in Seq(TokenSet) /\ Len(tokens') = Len(tokens) + Len(more)
      /\ \A i \in 1 .. Len(tokens) + Len(more) :
            tokens'[i] = IF i <= Len(tokens) THEN tokens[i] ELSE more[i - Len(tokens)]
  BY <1>1, <1>3, <1>5, ConcatProperties
<1>7. Extends(tokens, tokens')
  <2>1. \A i \in 1 .. Len(tokens) : tokens'[i] = tokens[i]
    BY <1>1, <1>5, <1>6
  <2>. QED
    BY <1>1, <1>5, <1>6, <2>1 DEF Extends
<1>8. ASSUME NEW i \in Len(tokens) + 1 .. Len(tokens') PROVE NewToken(tokens'[i])
  <2>1. i \in 1 .. Len(tokens) + Len(more) /\ ~(i <= Len(tokens)) /\ i - Len(tokens) \in 1 .. Len(more)
    BY <1>1, <1>5, <1>6
  <2>2. tokens'[i] = dedent \/ tokens'[i] = eof
    BY <1>5, <1>6, <2>1
  <2>3. "DEDENT" \in Plain /\ "EOF" \in Plain
    BY DEF Plain, Types, Marks
  <2>4. pos <= pos /\ pos' = pos
    BY <1>1, <1>3
  <2>. QED
    BY <1>2, <2>2, <2>3, <2>4 DEF NewToken
<1>9. StackTyped'
  <2>1. <<0>> \in Seq(Nat) /\ Len(<<0>>) = 1 /\ <<0>>[1] = 0
    OBVIOUS
  <2>2. \A i, j \in 1 .. 1 : ~(i < j)
    OBVIOUS
  <2>. QED
    BY <1>3, <2>1, <2>2 DEF StackTyped
<1>10. CursorTyped' /\ pos <= pos'
  BY <1>1, <1>3 DEF CursorTyped
<1>11. errors' \in Seq(Problems) /\ atLineStart' \in BOOLEAN /\ inToken' \in BOOLEAN /\ Running = "run"
  BY <1>3 DEF Typed, Running
<1>. QED
  BY <1>3, <1>6, <1>7, <1>8, <1>9, <1>10, <1>11, Zenon DEF Scanned

\* The rounds of scanToken that start no string, and the end of run.
ScanRound == SkipBlank \/ Newline \/ CarriageReturn \/ SkipLineComment \/ SkipBlockComment \/ ScanWord \/ ScanOperator
LEMMA RoundsScan == ASSUME Typed, HandleIndentation \/ ScanRound \/ Finish PROVE Scanned
BY HandleIndentationScans, SkipBlankScans, NewlineScans, CarriageReturnScans, SkipLineCommentScans,
   SkipBlockCommentScans, ScanWordScans, ScanOperatorScans, FinishScans DEF ScanRound

\* Two tokens are added.
LEMMA EmitTwo ==
    ASSUME Typed, NEW t \in TokenSet, NEW u \in TokenSet, tokens' = tokens \o <<t, u>>
    PROVE  /\ tokens' \in Seq(TokenSet) /\ Len(tokens') = Len(tokens) + 2 /\ Extends(tokens, tokens')
           /\ tokens'[Len(tokens) + 1] = t /\ tokens'[Len(tokens) + 2] = u
<1> DEFINE n == Len(tokens)
           two == <<t, u>>
<1>1. tokens \in Seq(TokenSet) /\ n \in Nat
  BY DEF Typed
<1>2. two \in Seq(TokenSet) /\ Len(two) = 2 /\ two[1] = t /\ two[2] = u
  OBVIOUS
<1> HIDE DEF two
<1>3. /\ tokens' \in Seq(TokenSet) /\ Len(tokens') = n + 2
      /\ \A i \in 1 .. n + 2 : tokens'[i] = IF i <= n THEN tokens[i] ELSE two[i - n]
  BY <1>1, <1>2, ConcatProperties DEF two
<1> HIDE DEF n
<1>4. \A i \in 1 .. n : i \in 1 .. n + 2 /\ i <= n
  BY <1>1
<1>5. n + 1 \in 1 .. n + 2 /\ ~(n + 1 <= n) /\ (n + 1) - n = 1 /\ n + 2 \in 1 .. n + 2 /\ ~(n + 2 <= n) /\ (n + 2) - n = 2
  BY <1>1
<1>6. tokens'[n + 1] = t /\ tokens'[n + 2] = u
  BY <1>2, <1>3, <1>5
<1>7. n <= n + 2 /\ \A i \in 1 .. n : tokens'[i] = tokens[i]
  BY <1>1, <1>3, <1>4
<1>8. Extends(tokens, tokens')
  BY <1>3, <1>7 DEF Extends, n
<1>. QED
  BY <1>3, <1>6, <1>8 DEF n

\* What every step does, as far as types and places ask.
NewPlaced(t) ==
    /\ t.from <= pos' /\ t.to <= pos'
    /\ \/ t.type = "NEWLINE" /\ pos < t.to
       \/ t.type # "NEWLINE" /\ (TokenAt(t, Here) \/ TokenAt(t, Here'))
       \/ t.type # "NEWLINE" /\ \E c \in 1 .. Len(calls) : calls[c].fn = "string" /\ TokenAt(t, calls[c].start)
StartsKept ==
    \A c \in 1 .. Len(calls') : calls'[c].fn = "string" =>
        \/ calls'[c].start = Here'
        \/ c \in 1 .. Len(calls) /\ calls[c].fn = "string" /\ calls'[c].start = calls[c].start
Stepped ==
    /\ src' = src /\ CursorTyped' /\ pos <= pos'
    /\ tokens' \in Seq(TokenSet) /\ Extends(tokens, tokens')
    /\ \A i \in Len(tokens) + 1 .. Len(tokens') : NewPlaced(tokens'[i])
    /\ errors' \in Seq(Problems)
    /\ StackTyped' /\ atLineStart' \in BOOLEAN /\ inToken' \in BOOLEAN /\ done' \in BOOLEAN
    /\ calls' \in Seq(CallSet) /\ CallsAlternate(calls') /\ StartsKept
    /\ inToken' => Running' = "interp"

\* A round of scanToken is a step like the others.
LEMMA ScannedSteps == ASSUME Typed, InTokenOf, Scanned PROVE Stepped
<1>1. \A i \in Len(tokens) + 1 .. Len(tokens') : NewPlaced(tokens'[i])
  <2>1. \A t : NewToken(t) => NewPlaced(t)
    BY DEF NewToken, NewPlaced
  <2>. QED
    BY <2>1 DEF Scanned
<1>2. calls' = calls /\ calls \in Seq(CallSet) /\ CallsAlternate(calls)
  BY DEF Scanned, Typed, CallSet
<1>3. StartsKept
  BY <1>2 DEF StartsKept
<1>4. inToken' => Running' = "interp"
  <2>1. Running' = Running
    BY <1>2 DEF Running, Top
  <2>. QED
    BY <2>1 DEF Scanned, InTokenOf
<1>. QED
  BY <1>1, <1>2, <1>3, <1>4 DEF Scanned, Stepped

\* The calls of scanInterpolation are the same.
SameInterps ==
    \A c \in 1 .. Len(calls') : calls'[c].fn = "interp" =>
        /\ c \in 1 .. Len(calls) /\ calls'[c] = calls[c]
        /\ c + 2 <= Len(calls') <=> c + 2 <= Len(calls)

\* Every second call is one of scanInterpolation.
LEMMA InterpsAreEven ==
    ASSUME NEW cs, CallsAlternate(cs), NEW c \in 1 .. Len(cs)
    PROVE  (cs[c].fn = "interp" <=> c % 2 # 1) /\ (cs[c].fn = "string" <=> c % 2 = 1)
BY DEF CallsAlternate, StringCallSet, InterpCallSet

\* Typed, in the parts that proofs cite.
LEMMA TypedFacts ==
    ASSUME Typed
    PROVE  /\ src \in Seq(Chars) /\ Len(src) \in Nat /\ pos \in Nat \ {0} /\ pos <= Len(src) + 1
           /\ line \in Nat \ {0} /\ col \in Nat \ {0} /\ CursorTyped
           /\ tokens \in Seq(TokenSet) /\ Len(tokens) \in Nat /\ errors \in Seq(Problems)
           /\ StackTyped /\ atLineStart \in BOOLEAN /\ inToken \in BOOLEAN /\ done \in BOOLEAN
           /\ calls \in Seq(CallSet) /\ CallsAlternate(calls) /\ Len(calls) \in Nat
BY DEF Typed, CursorTyped, CallSet

\* The cursor moves on along the line.
LEMMA Advances ==
    ASSUME Typed, src' = src, NEW k \in Nat, pos + k <= Len(src) + 1, Advance(k)
    PROVE  /\ CursorTyped' /\ pos <= pos' /\ pos' = pos + k /\ line' = line /\ col' = col + k
           /\ Here' = HereAfter(k)
<1>1. pos' = pos + k /\ line' = line /\ col' = col + k
  BY DEF Advance
<1>2. pos' \in 1 .. Len(src) + 1 /\ col' \in Nat \ {0} /\ pos <= pos'
  BY <1>1, TypedFacts
<1>3. CursorTyped'
  BY <1>1, <1>2, TypedFacts DEF CursorTyped
<1>. QED
  BY <1>1, <1>2, <1>3 DEF Here, HereAfter

\* The layout stays as it was.
LEMMA StillLaid ==
    ASSUME Typed, indentStack' = indentStack, atLineStart' = atLineStart, done' = done
    PROVE  StackTyped' /\ atLineStart' \in BOOLEAN /\ done' \in BOOLEAN
BY TypedFacts DEF StackTyped

\* Where no token is emitted nothing is to be shown of new ones.
LEMMA NoneNew ==
    ASSUME Typed, tokens' = tokens
    PROVE  /\ tokens' \in Seq(TokenSet) /\ Extends(tokens, tokens')
           /\ \A i \in Len(tokens) + 1 .. Len(tokens') : NewPlaced(tokens'[i])
<1>1. \A n \in Nat : n + 1 .. n = {}
  OBVIOUS
<1>2. Len(tokens) + 1 .. Len(tokens') = {}
  BY <1>1, TypedFacts
<1>. QED
  BY <1>2, TypedFacts, EmitNone

\* scanString is called.
LEMMA StartStringDoes ==
    ASSUME Typed, StartString
    PROVE  /\ Stepped /\ SameInterps /\ tokens' = tokens /\ errors' = errors /\ inToken' = FALSE
           /\ Running \in {"run", "interp"} /\ Running' = "string" /\ ~Top'.interp
           /\ \A i \in 1 .. Len(calls) : calls'[i] = calls[i]
           /\ Advance(1) /\ Ch = "\"" /\ ~atLineStart' /\ ~AtEnd
           /\ Len(calls') = Len(calls) + 1 /\ Len(calls) % 2 = 0
<1> DEFINE call == StringCall(HereAfter(1), FALSE, FALSE)
           n == Len(calls)
<1>1. /\ Advance(1) /\ src' = src /\ tokens' = tokens /\ errors' = errors
      /\ inToken' = FALSE /\ ~atLineStart' /\ atLineStart' = atLineStart /\ done' = done /\ Ch = "\"" /\ ~AtEnd
      /\ indentStack' = indentStack /\ Running \in {"run", "interp"} /\ calls' = Append(calls, call)
  BY DEF StartString, Scan, InScanToken, Quietly
<1>2. pos + 1 <= Len(src) + 1 /\ CursorTyped /\ 1 \in Nat
  <2>1. CursorTyped
    BY TypedFacts
  <2>2. pos <= Len(src) /\ pos \in Nat /\ Len(src) \in Nat
    BY <1>1, <2>1, CharFacts
  <2>. QED
    BY <2>1, <2>2
<1>3. n \in Nat /\ n % 2 = 0 /\ calls \in Seq(CallSet) /\ CallsAlternate(calls)
  BY <1>1, TopFacts, TypedFacts
<1>4. call \in StringCallSet /\ call.fn = "string" /\ call.interp = FALSE /\ call.start = HereAfter(1)
  BY <1>2, HereTyped DEF StringCall, StringCallSet
<1>5. CursorTyped' /\ pos <= pos' /\ Here' = HereAfter(1)
  BY <1>1, <1>2, Advances
<1> HIDE DEF call
<1>6. /\ calls' \in Seq(CallSet) /\ CallsAlternate(calls') /\ Len(calls') = n + 1
      /\ \A i \in 1 .. n : calls'[i] = calls[i]
      /\ calls'[n + 1] = call
  BY <1>1, <1>3, <1>4, CallMade DEF CallSet
<1>7. StackTyped' /\ atLineStart' \in BOOLEAN /\ done' \in BOOLEAN
  BY <1>1, StillLaid
<1>8. \A c \in 1 .. n + 1 : c \in 1 .. n \/ c = n + 1
  BY <1>3
<1>9. StartsKept
  BY <1>4, <1>5, <1>6, <1>8 DEF StartsKept
<1>10. SameInterps
  <2> SUFFICES ASSUME NEW c \in 1 .. n + 1, calls'[c].fn = "interp"
               PROVE  c \in 1 .. n /\ calls'[c] = calls[c] /\ (c + 2 <= n + 1 <=> c + 2 <= n)
    BY <1>6 DEF SameInterps
  <2>1. c \in 1 .. n /\ calls'[c] = calls[c]
    BY <1>4, <1>6, <1>8
  <2>2. c % 2 = 0
    BY <1>6, InterpsAreEven, Parity
  <2>3. c + 2 # n + 1
    <3>1. (c + 2) % 2 = 0 /\ (n + 1) % 2 = 1
      BY <1>3, <2>2, Parity
    <3>. QED
      BY <3>1
  <2>. QED
    BY <1>3, <2>1, <2>3
<1>11. Running' = "string" /\ Top' = call
  <2>1. calls' # <<>> /\ Top' = call
    BY <1>3, <1>6 DEF Top
  <2>. QED
    BY <1>4, <2>1 DEF Running
<1>12. Stepped
  BY <1>1, <1>5, <1>6, <1>7, <1>9, NoneNew, TypedFacts DEF Stepped
<1>. QED
  BY <1>1, <1>3, <1>4, <1>6, <1>10, <1>11, <1>12

\* A string's call is altered by no step but that it has text, or interpolations.
LEMMA StringGoesOn ==
    ASSUME Typed, InTokenOf, StringChar \/ (StringEscape /\ pos # Len(src))
    PROVE  /\ Stepped /\ SameInterps /\ tokens' = tokens /\ errors' = errors /\ inToken' = FALSE
           /\ Running = "string" /\ Running' = "string" /\ Top'.interp = Top.interp
           /\ Len(calls') = Len(calls) /\ \A i \in 1 .. Len(calls) - 1 : calls'[i] = calls[i]
           /\ atLineStart' = atLineStart
           /\ (Advance(1) /\ Ch # "\n" /\ ~AtEnd) \/ (Advance(2) /\ Ch = "\\" /\ pos + 1 <= Len(src))
<1> DEFINE call == [Top EXCEPT !.text = TRUE]
           n == Len(calls)
<1>1. /\ tokens' = tokens /\ errors' = errors /\ Running = "string" /\ calls' = WithTop(call)
      /\ src' = src /\ indentStack' = indentStack /\ atLineStart' = atLineStart /\ inToken' = inToken /\ done' = done
      /\ (Advance(1) /\ Ch # "\n" /\ Ch # "end") \/ (Advance(2) /\ Ch = "\\" /\ pos # Len(src))
  <2>1. CASE StringChar
    BY <2>1 DEF StringChar, InString, layout, Quietly
  <2>2. CASE StringEscape /\ pos # Len(src)
    BY <2>2 DEF StringEscape, InString, layout, Quietly
  <2>. QED
    BY <2>1, <2>2
<1>2. \/ Advance(1) /\ Ch # "\n" /\ ~AtEnd /\ pos + 1 <= Len(src) + 1
      \/ Advance(2) /\ Ch = "\\" /\ pos + 1 <= Len(src) /\ pos + 2 <= Len(src) + 1
  <2>1. Ch # "end" => pos <= Len(src)
    BY TypedFacts, CharFacts
  <2>2. Ch = "\\" => Ch # "end"
    OBVIOUS
  <2>. QED
    BY <1>1, <2>1, <2>2, TypedFacts DEF AtEnd
<1>3. CursorTyped' /\ pos <= pos'
  <2>1. 1 \in Nat /\ 2 \in Nat
    OBVIOUS
  <2>. QED
    BY <1>1, <1>2, <2>1, Advances
<1>4. n \in Nat /\ n > 0 /\ n % 2 = 1 /\ Top \in StringCallSet /\ Top = calls[n]
  BY <1>1, TopFacts, TypedFacts
<1>5. call \in StringCallSet /\ call.fn = Top.fn /\ call.interp = Top.interp /\ call.start = Top.start
  BY <1>4 DEF StringCallSet
<1> HIDE DEF call
<1>6. /\ calls' \in Seq(CallSet) /\ CallsAlternate(calls') /\ Len(calls') = n
      /\ \A i \in 1 .. n : calls'[i] = IF i = n THEN call ELSE calls[i]
  BY <1>1, <1>4, <1>5, TopReplaced DEF CallSet
<1>7. calls'[n] = call /\ \A i \in 1 .. n - 1 : i \in 1 .. n /\ i # n /\ calls'[i] = calls[i]
  BY <1>4, <1>6
<1>8. Running' = "string" /\ Top' = call
  <2>1. calls' # <<>> /\ Top' = call
    BY <1>4, <1>6, <1>7 DEF Top
  <2>. QED
    BY <1>4, <1>5, <2>1 DEF Running, StringCallSet
<1>9. \A c \in 1 .. n : c \in 1 .. n - 1 \/ c = n
  BY <1>4
<1>10. StartsKept
  BY <1>4, <1>5, <1>6, <1>7, <1>9 DEF StartsKept
<1>11. SameInterps
  <2>1. calls'[n].fn # "interp"
    BY <1>4, <1>5, <1>7 DEF StringCallSet
  <2>. QED
    BY <1>6, <1>7, <1>9, <2>1 DEF SameInterps
<1>12. inToken' = FALSE
  BY <1>1, TypedFacts DEF InTokenOf
<1>13. Stepped
  BY <1>1, <1>3, <1>6, <1>10, <1>12, NoneNew, StillLaid, TypedFacts DEF Stepped
<1>14. (Advance(1) /\ Ch # "\n" /\ ~AtEnd) \/ (Advance(2) /\ Ch = "\\" /\ pos + 1 <= Len(src))
  BY <1>2
<1>15. Len(calls') = Len(calls) /\ \A i \in 1 .. Len(calls) - 1 : calls'[i] = calls[i]
  BY <1>6, <1>7
<1>16. Running' = "string" /\ Top'.interp = Top.interp
  BY <1>5, <1>8
<1>. QED
  BY <1>1, <1>11, <1>12, <1>13, <1>14, <1>15, <1>16

\* The innermost call of scanString returns.
LEMMA StringReturns ==
    ASSUME Typed, InTokenOf, InString, calls' = Below, CursorTyped', pos <= pos',
           tokens' \in Seq(TokenSet), Extends(tokens, tokens'),
           \A i \in Len(tokens) + 1 .. Len(tokens') : NewPlaced(tokens'[i]),
           errors' \in Seq(Problems)
    PROVE  /\ Stepped /\ SameInterps /\ inToken' = FALSE /\ atLineStart' = atLineStart
           /\ Running = "string" /\ Running' \in {"run", "interp"}
           /\ Len(calls') = Len(calls) - 1 /\ \A i \in 1 .. Len(calls) - 1 : calls'[i] = calls[i]
<1> DEFINE n == Len(calls)
<1>1. /\ Running = "string" /\ src' = src /\ indentStack' = indentStack /\ atLineStart' = atLineStart
      /\ inToken' = inToken /\ done' = done
  BY DEF InString, layout
<1>2. n \in Nat /\ n > 0 /\ n % 2 = 1
  BY <1>1, TopFacts, TypedFacts
<1>3. /\ calls' \in Seq(CallSet) /\ CallsAlternate(calls') /\ Len(calls') = n - 1
      /\ \A i \in 1 .. n - 1 : calls'[i] = calls[i]
  BY <1>2, CallReturns
<1>4. \A c \in 1 .. n - 1 : c \in 1 .. n
  BY <1>2
<1>5. (n - 1) % 2 = 0 /\ n - 1 \in Nat
  <2>1. n - 1 \in Nat /\ (n - 1) + 1 = n
    BY <1>2
  <2>2. ((n - 1) + 1) % 2 = 1 - ((n - 1) % 2) /\ (n - 1) % 2 \in {0, 1}
    BY <2>1, Parity
  <2>. QED
    BY <1>2, <2>1, <2>2
<1>6. StartsKept
  BY <1>3, <1>4 DEF StartsKept
<1>7. SameInterps
  <2> SUFFICES ASSUME NEW c \in 1 .. n - 1, calls'[c].fn = "interp"
               PROVE  c \in 1 .. n /\ calls'[c] = calls[c] /\ (c + 2 <= n - 1 <=> c + 2 <= n)
    BY <1>3 DEF SameInterps
  <2>1. c % 2 = 0
    <3>1. c \in 1 .. Len(calls') /\ CallsAlternate(calls') /\ c \in Nat
      BY <1>2, <1>3
    <3>2. c % 2 # 1
      BY <3>1, InterpsAreEven
    <3>. QED
      BY <3>1, <3>2, Parity
  <2>2. c + 2 # n
    <3>1. (c + 2) % 2 = 0
      BY <2>1, Parity
    <3>. QED
      BY <1>2, <3>1
  <2>3. c + 2 <= n - 1 <=> c + 2 <= n
    BY <1>2, <2>2
  <2>. QED
    BY <1>3, <1>4, <2>3
<1>8. Running' \in {"run", "interp"}
  <2>1. CASE n - 1 = 0
    <3>1. calls' = <<>>
      BY <1>3, <2>1, EmptySeq
    <3>. QED
      BY <3>1 DEF Running
  <2>2. CASE n - 1 # 0
    <3>1. n - 1 \in 1 .. n - 1 /\ calls' # <<>> /\ Top' = calls'[n - 1]
      BY <1>3, <1>5, <2>2 DEF Top
    <3>2. calls'[n - 1] \in InterpCallSet
      BY <1>3, <1>5, <3>1 DEF CallsAlternate
    <3>. QED
      BY <3>1, <3>2 DEF Running, InterpCallSet
  <2>. QED
    BY <2>1, <2>2
<1>9. inToken' = FALSE
  BY <1>1, TypedFacts DEF InTokenOf
<1>10. Stepped
  BY <1>1, <1>3, <1>6, <1>9, StillLaid, TypedFacts DEF Stepped
<1>. QED
  BY <1>1, <1>3, <1>7, <1>8, <1>9, <1>10

\* scanString reports an error and returns.
LEMMA StringFails ==
    ASSUME Typed, InTokenOf, (StringEscape /\ pos = Len(src)) \/ BreakString
    PROVE  /\ Stepped /\ SameInterps /\ inToken' = FALSE /\ errors' # <<>> /\ tokens' = tokens
           /\ atLineStart' = atLineStart /\ Running = "string" /\ Len(calls') = Len(calls) - 1
           /\ (Advance(1) /\ Ch = "\\" /\ ~AtEnd) \/ Advance(0)
<1>1. InString /\ calls' = Below /\ tokens' = tokens /\ src' = src
  <2>1. CASE StringEscape /\ pos = Len(src)
    BY <2>1 DEF StringEscape, InString, AddError
  <2>2. CASE BreakString
    BY <2>2 DEF BreakString, InString, AddError
  <2>. QED
    BY <2>1, <2>2
<1>2. errors' \in Seq(Problems) /\ errors' # <<>>
  <2>1. CASE StringEscape /\ pos = Len(src)
    BY <2>1, ErrorAdded DEF StringEscape, AddError, Problems
  <2>2. CASE BreakString
    BY <2>2, ErrorAdded DEF BreakString, AddError, Problems
  <2>. QED
    BY <2>1, <2>2
<1>3. (Advance(1) /\ Ch = "\\" /\ ~AtEnd /\ pos + 1 <= Len(src) + 1) \/ Advance(0)
  <2>1. CASE StringEscape /\ pos = Len(src)
    <3>1. Advance(1) /\ Ch = "\\" /\ pos = Len(src)
      BY <2>1 DEF StringEscape
    <3>. QED
      BY <3>1, TypedFacts DEF AtEnd
  <2>2. CASE BreakString
    BY <2>2 DEF BreakString
  <2>. QED
    BY <2>1, <2>2
<1>4. CursorTyped' /\ pos <= pos'
  <2>1. CASE Advance(0)
    <3>1. 0 \in Nat /\ pos + 0 <= Len(src) + 1
      BY TypedFacts
    <3>. QED
      BY <1>1, <2>1, <3>1, Advances
  <2>2. CASE Advance(1) /\ pos + 1 <= Len(src) + 1
    <3>1. 1 \in Nat
      OBVIOUS
    <3>. QED
      BY <1>1, <2>2, <3>1, Advances
  <2>. QED
    BY <1>3, <2>1, <2>2
<1>5. /\ tokens' \in Seq(TokenSet) /\ Extends(tokens, tokens')
      /\ \A i \in Len(tokens) + 1 .. Len(tokens') : NewPlaced(tokens'[i])
  BY <1>1, NoneNew
<1>6. /\ Stepped /\ SameInterps /\ inToken' = FALSE
      /\ atLineStart' = atLineStart /\ Running = "string" /\ Len(calls') = Len(calls) - 1
  BY <1>1, <1>2, <1>4, <1>5, StringReturns
<1>. QED
  BY <1>1, <1>2, <1>3, <1>6

\* A string began where the cursor is or before.
StartsBehind == \A c \in 1 .. Len(calls) : calls[c].fn = "string" => calls[c].start.from <= pos

\* scanString emits its last piece, or the whole string, and returns.
LEMMA EndStringDoes ==
    ASSUME Typed, InTokenOf, StartsBehind, EndString
    PROVE  /\ Stepped /\ SameInterps /\ inToken' = FALSE /\ atLineStart' = atLineStart /\ errors' = errors
           /\ OneMore(Token(IF Top.interp THEN "STRING_END" ELSE "STRING", Top.start, pos))
           /\ Advance(1) /\ Ch = "\"" /\ ~AtEnd
           /\ Running = "string" /\ Running' \in {"run", "interp"}
           /\ Len(calls') = Len(calls) - 1 /\ \A i \in 1 .. Len(calls) - 1 : calls'[i] = calls[i]
<1> DEFINE t == Token(IF Top.interp THEN "STRING_END" ELSE "STRING", Top.start, pos)
           n == Len(calls)
<1>1. /\ InString /\ Running = "string" /\ calls' = Below /\ tokens' = tokens \o <<t>> /\ errors' = errors
      /\ src' = src /\ Advance(1) /\ Ch = "\""
  BY DEF EndString, InString, Emit
<1>2. pos <= Len(src) /\ ~AtEnd
  <2>1. Ch # "end"
    BY <1>1
  <2>. QED
    BY <2>1, TypedFacts, CharFacts DEF AtEnd
<1>3. CursorTyped' /\ pos <= pos' /\ pos' = pos + 1
  <2>1. 1 \in Nat /\ pos + 1 <= Len(src) + 1
    BY <1>2, TypedFacts
  <2>. QED
    BY <1>1, <2>1, Advances
<1>4. n \in Nat /\ n > 0 /\ Top \in StringCallSet /\ Top = calls[n]
  BY <1>1, TopFacts
<1>5. Top.start \in Places /\ Top.start.from \in Nat
  BY <1>4 DEF StringCallSet, Places
<1>6. /\ t \in TokenSet /\ TokenAt(t, Top.start) /\ t.to = pos /\ t.from = Top.start.from
      /\ t.type \in {"STRING_END", "STRING"}
  <2>1. "STRING_END" \in Types /\ "STRING" \in Types /\ pos \in Nat
    BY TypedFacts DEF Types, Marks
  <2>2. t \in TokenSet
    BY <1>5, <2>1, TokenTyped
  <2>. QED
    BY <2>2 DEF Token, TokenAt
<1> HIDE DEF t
<1>7. OneMore(t)
  BY <1>1, <1>6, EmitOne
<1>8. NewPlaced(t)
  <2>1. n \in 1 .. Len(calls) /\ calls[n].fn = "string" /\ TokenAt(t, calls[n].start)
    BY <1>4, <1>6 DEF StringCallSet
  <2>2. t.from <= pos
    BY <1>4, <1>6, <2>1 DEF StartsBehind
  <2>3. t.from <= pos' /\ t.to <= pos'
    BY <1>3, <1>5, <1>6, <2>2, TypedFacts
  <2>. QED
    BY <1>6, <2>1, <2>3 DEF NewPlaced
<1>9. \A i \in Len(tokens) + 1 .. Len(tokens') : NewPlaced(tokens'[i])
  <2>1. \A m \in Nat : \A i \in m + 1 .. m + 1 : i = m + 1
    OBVIOUS
  <2>. QED
    BY <1>7, <1>8, <2>1, TypedFacts DEF OneMore
<1>10. tokens' \in Seq(TokenSet) /\ Extends(tokens, tokens') /\ errors' \in Seq(Problems)
  BY <1>1, <1>7, TypedFacts DEF OneMore
<1>11. /\ Stepped /\ SameInterps /\ inToken' = FALSE /\ atLineStart' = atLineStart
       /\ Running' \in {"run", "interp"}
       /\ Len(calls') = Len(calls) - 1 /\ \A i \in 1 .. Len(calls) - 1 : calls'[i] = calls[i]
  BY <1>1, <1>3, <1>9, <1>10, StringReturns
<1>. QED
  BY <1>1, <1>2, <1>7, <1>11 DEF t

\* scanString emits a piece and calls scanInterpolation.
LEMMA StartInterpolationDoes ==
    ASSUME Typed, InTokenOf, StartsBehind, StartInterpolation
    PROVE  /\ Stepped /\ inToken' = FALSE /\ atLineStart' = atLineStart /\ errors' = errors
           /\ Len(tokens') = Len(tokens) + 2
           /\ tokens'[Len(tokens) + 1] = Token(PieceType, Top.start, pos)
           /\ tokens'[Len(tokens) + 2] = Token("INTERP_START", Here, pos + 1)
           /\ Advance(1) /\ Ch = "{" /\ ~AtEnd
           /\ Running = "string" /\ Running' = "interp"
           /\ Len(calls') = Len(calls) + 1 /\ \A i \in 1 .. Len(calls) - 1 : calls'[i] = calls[i]
           /\ calls'[Len(calls)].fn = "string" /\ calls'[Len(calls)].interp
           /\ calls'[Len(calls) + 1] = InterpCall(1, Len(tokens) + 2)
           /\ Len(calls) \in Nat /\ Len(calls) > 0 /\ Len(calls) % 2 = 1 /\ Top = calls[Len(calls)]
<1> DEFINE t == Token(PieceType, Top.start, pos)
           u == Token("INTERP_START", Here, pos + 1)
           n == Len(calls)
           call == [Top EXCEPT !.text = FALSE, !.interp = TRUE]
           next == InterpCall(1, Len(tokens) + 2)
<1>1. /\ Running = "string" /\ calls' = Append(WithTop(call), next) /\ tokens' = tokens \o <<t, u>>
      /\ errors' = errors /\ Advance(1) /\ Ch = "{"
      /\ src' = src /\ indentStack' = indentStack /\ atLineStart' = atLineStart /\ inToken' = inToken /\ done' = done
  BY DEF StartInterpolation, InString, Emit, layout
<1>2. pos <= Len(src) /\ ~AtEnd
  <2>1. Ch # "end"
    BY <1>1
  <2>. QED
    BY <2>1, TypedFacts, CharFacts DEF AtEnd
<1>3. CursorTyped' /\ pos <= pos' /\ pos' = pos + 1
  <2>1. 1 \in Nat /\ pos + 1 <= Len(src) + 1
    BY <1>2, TypedFacts
  <2>. QED
    BY <1>1, <2>1, Advances
<1>4. n \in Nat /\ n > 0 /\ n % 2 = 1 /\ Top \in StringCallSet /\ Top = calls[n]
  BY <1>1, TopFacts
<1>5. Top.start \in Places /\ Top.start.from \in Nat
  BY <1>4 DEF StringCallSet, Places
<1>6. PieceType \in {"STRING_PART", "STRING_START"} /\ PieceType \in Types
  BY DEF PieceType, Types, Marks
<1>7. /\ t \in TokenSet /\ TokenAt(t, Top.start) /\ t.to = pos /\ t.from = Top.start.from /\ t.type # "NEWLINE"
      /\ u \in TokenSet /\ TokenAt(u, Here) /\ u.to = pos + 1 /\ u.from = pos /\ u.type # "NEWLINE"
  <2>1. "INTERP_START" \in Types /\ pos \in Nat /\ pos + 1 \in Nat /\ Here \in Places
    <3>1. CursorTyped /\ 0 \in Nat
      BY TypedFacts
    <3>2. Here \in Places
      BY <3>1, HereTyped
    <3>. QED
      BY <3>2, TypedFacts DEF Types, Marks
  <2>2. t \in TokenSet /\ u \in TokenSet
    BY <1>5, <1>6, <2>1, TokenTyped
  <2>3. t.type = PieceType /\ u.type = "INTERP_START"
    BY DEF Token
  <2>. QED
    BY <1>6, <2>2, <2>3 DEF Token, TokenAt, Here
<1>8. call \in StringCallSet /\ call.fn = "string" /\ Top.fn = "string" /\ call.interp /\ call.start = Top.start
  BY <1>4 DEF StringCallSet
<1>9. next \in InterpCallSet /\ next.fn = "interp"
  <2>1. Len(tokens) + 2 \in Nat /\ 1 \in Nat \ {0}
    BY TypedFacts
  <2>. QED
    BY <2>1 DEF InterpCall, InterpCallSet
<1> DEFINE cs == WithTop(call)
<1> HIDE DEF t, u, call, next
<1>10. /\ cs \in Seq(CallSet) /\ CallsAlternate(cs) /\ Len(cs) = n
       /\ \A i \in 1 .. n : cs[i] = IF i = n THEN call ELSE calls[i]
  BY <1>4, <1>8, TopReplaced DEF CallSet
<1>11. calls' = Append(cs, next)
  BY <1>1
<1> HIDE DEF cs
<1>12. cs[n] = call /\ \A i \in 1 .. n - 1 : cs[i] = calls[i]
  <2>1. n \in 1 .. n /\ \A i \in 1 .. n - 1 : i \in 1 .. n /\ i # n
    BY <1>4
  <2>. QED
    BY <1>10, <2>1
<1>13. /\ calls' \in Seq(CallSet) /\ CallsAlternate(calls') /\ Len(calls') = n + 1
       /\ \A i \in 1 .. n : calls'[i] = cs[i]
       /\ calls'[n + 1] = next
  <2>1. next \in CallSet /\ Len(cs) % 2 # 0 /\ cs[Len(cs)].interp
    BY <1>4, <1>8, <1>9, <1>10, <1>12 DEF CallSet
  <2>. QED
    BY <1>9, <1>10, <1>11, <2>1, CallMade
<1>14. calls'[n] = call /\ \A i \in 1 .. n - 1 : calls'[i] = calls[i]
  <2>1. n \in 1 .. n /\ \A i \in 1 .. n - 1 : i \in 1 .. n
    BY <1>4
  <2>. QED
    BY <1>12, <1>13, <2>1
<1>15. StartsKept
  <2>1. \A c \in 1 .. n + 1 : c \in 1 .. n - 1 \/ c = n \/ c = n + 1
    BY <1>4
  <2>2. n \in 1 .. n /\ \A c \in 1 .. n - 1 : c \in 1 .. n
    BY <1>4
  <2>. QED
    BY <1>4, <1>8, <1>9, <1>13, <1>14, <2>1, <2>2 DEF StartsKept
<1>16. Running' = "interp"
  <2>1. calls' # <<>> /\ Top' = next
    BY <1>4, <1>13 DEF Top
  <2>. QED
    BY <1>9, <2>1 DEF Running
<1>17. inToken' = FALSE
  BY <1>1, TypedFacts DEF InTokenOf
<1>18. /\ tokens' \in Seq(TokenSet) /\ Len(tokens') = Len(tokens) + 2 /\ Extends(tokens, tokens')
       /\ tokens'[Len(tokens) + 1] = t /\ tokens'[Len(tokens) + 2] = u
  BY <1>1, <1>7, EmitTwo
<1>19. NewPlaced(t)
  <2>1. n \in 1 .. Len(calls) /\ calls[n].fn = "string" /\ TokenAt(t, calls[n].start)
    BY <1>4, <1>7, <1>8
  <2>2. t.from <= pos
    BY <1>4, <1>7, <2>1 DEF StartsBehind
  <2>3. t.from <= pos' /\ t.to <= pos'
    BY <1>3, <1>5, <1>7, <2>2, TypedFacts
  <2>. QED
    BY <1>7, <2>1, <2>3 DEF NewPlaced
<1>20. NewPlaced(u)
  <2>1. u.from <= pos' /\ u.to <= pos'
    BY <1>3, <1>7, TypedFacts
  <2>. QED
    BY <1>7, <2>1 DEF NewPlaced
<1>21. \A i \in Len(tokens) + 1 .. Len(tokens') : NewPlaced(tokens'[i])
  <2>1. \A m \in Nat : \A i \in m + 1 .. m + 2 : i = m + 1 \/ i = m + 2
    OBVIOUS
  <2>. QED
    BY <1>18, <1>19, <1>20, <2>1, TypedFacts
<1>22. Stepped
  BY <1>1, <1>3, <1>13, <1>15, <1>17, <1>18, <1>21, StillLaid, TypedFacts DEF Stepped
<1>. QED
  BY <1>1, <1>2, <1>4, <1>8, <1>13, <1>14, <1>16, <1>17, <1>18, <1>22 DEF t, u, next

\* The depth of an interpolation when the character at the cursor is counted.
Counted(depth) == IF AtClosing THEN depth - 1 ELSE IF AtOpening THEN depth + 1 ELSE depth

\* scanInterpolation counts the brace it sees, if it sees one, and calls scanToken.
LEMMA InterpolationTokenDoes ==
    ASSUME Typed, InTokenOf, InterpolationToken
    PROVE  /\ Stepped /\ inToken' = TRUE /\ ~inToken /\ atLineStart' = atLineStart
           /\ errors' = errors /\ tokens' = tokens /\ pos' = pos /\ line' = line /\ col' = col
           /\ Running = "interp" /\ Running' = "interp"
           /\ Len(calls') = Len(calls) /\ \A i \in 1 .. Len(calls) - 1 : calls'[i] = calls[i]
           /\ calls'[Len(calls)] = [Top EXCEPT !.depth = Counted(Top.depth)]
           /\ Len(calls) \in Nat /\ Len(calls) > 0 /\ Top = calls[Len(calls)] /\ Top \in InterpCallSet
<1> DEFINE n == Len(calls)
           call == [Top EXCEPT !.depth = Counted(Top.depth)]
<1>1. /\ Running = "interp" /\ ~inToken /\ inToken' = TRUE /\ calls' = WithTop(call) /\ (AtClosing => Top.depth > 1)
      /\ pos' = pos /\ line' = line /\ col' = col /\ tokens' = tokens /\ errors' = errors
      /\ src' = src /\ indentStack' = indentStack /\ atLineStart' = atLineStart /\ done' = done
  BY DEF InterpolationToken, InInterpolation, layout, cursor, Counted, AtOpening, AtClosing
<1>2. n \in Nat /\ n > 1 /\ n > 0 /\ n % 2 = 0 /\ Top \in InterpCallSet /\ Top = calls[n]
  BY <1>1, TopFacts
<1>3. Top.fn = "interp" /\ Top.depth \in Nat \ {0} /\ Top.since \in Nat
      /\ Top = [fn |-> "interp", depth |-> Top.depth, since |-> Top.since]
  BY <1>2 DEF InterpCallSet
<1>4. call.fn = "interp" /\ call \in InterpCallSet
  <2> DEFINE d == Counted(Top.depth)
  <2>0. \A m \in Nat \ {0} : (AtClosing => m > 1) => Counted(m) \in Nat \ {0}
    BY DEF Counted
  <2>1. d \in Nat \ {0}
    BY <1>1, <1>3, <2>0
  <2> HIDE DEF d
  <2>2. call = [fn |-> "interp", depth |-> d, since |-> Top.since]
    BY <1>3 DEF d
  <2> HIDE DEF call
  <2>. QED
    BY <1>3, <2>1, <2>2 DEF InterpCallSet
<1> HIDE DEF call
<1>5. /\ calls' \in Seq(CallSet) /\ CallsAlternate(calls') /\ Len(calls') = n
      /\ \A i \in 1 .. n : calls'[i] = IF i = n THEN call ELSE calls[i]
  BY <1>1, <1>2, <1>3, <1>4, TopReplaced DEF CallSet
<1>6. calls'[n] = call /\ \A i \in 1 .. n - 1 : calls'[i] = calls[i]
  <2>1. n \in 1 .. n /\ \A i \in 1 .. n - 1 : i \in 1 .. n /\ i # n
    BY <1>2
  <2>. QED
    BY <1>5, <2>1
<1>7. Running' = "interp"
  <2>1. calls' # <<>> /\ Top' = call
    BY <1>2, <1>5, <1>6 DEF Top
  <2>. QED
    BY <1>4, <2>1 DEF Running
<1>8. StartsKept
  <2>1. \A c \in 1 .. n : (c \in 1 .. n - 1 /\ c \in 1 .. n) \/ c = n
    BY <1>2
  <2>. QED
    BY <1>4, <1>5, <1>6, <2>1 DEF StartsKept
<1>9. CursorTyped' /\ pos <= pos' /\ inToken' \in BOOLEAN
  <2>1. CursorTyped /\ pos \in Nat
    BY TypedFacts
  <2>. QED
    BY <1>1, <2>1 DEF CursorTyped
<1>10. Stepped
  BY <1>1, <1>5, <1>7, <1>8, <1>9, NoneNew, StillLaid, TypedFacts DEF Stepped
<1>. QED
  BY <1>1, <1>2, <1>5, <1>6, <1>7, <1>10 DEF call

\* scanInterpolation returns.
LEMMA InterpReturns ==
    ASSUME Typed, InTokenOf, InInterpolation, inToken' = inToken, BackInString(Here'), CursorTyped', pos <= pos',
           tokens' \in Seq(TokenSet), Extends(tokens, tokens'),
           \A i \in Len(tokens) + 1 .. Len(tokens') : NewPlaced(tokens'[i]),
           errors' \in Seq(Problems)
    PROVE  /\ Stepped /\ inToken' = FALSE /\ ~inToken /\ atLineStart' = atLineStart
           /\ Running = "interp" /\ Running' = "string" /\ Top'.interp
           /\ Len(calls') = Len(calls) - 1 /\ \A i \in 1 .. Len(calls) - 2 : calls'[i] = calls[i]
           /\ Len(calls) \in Nat /\ Len(calls) > 1 /\ Len(calls) % 2 = 0
           /\ calls'[Len(calls) - 1].fn = "string" /\ calls[Len(calls) - 1].fn = "string"
           /\ Top = calls[Len(calls)] /\ Top \in InterpCallSet
<1> DEFINE n == Len(calls)
<1>1. /\ Running = "interp" /\ ~inToken /\ inToken' = FALSE
      /\ src' = src /\ indentStack' = indentStack /\ atLineStart' = atLineStart /\ done' = done
  BY TypedFacts DEF InInterpolation, layout
<1>2. /\ n \in Nat /\ n > 1 /\ n % 2 = 0 /\ Top \in InterpCallSet /\ Top = calls[n]
      /\ calls[n - 1] \in StringCallSet
  BY <1>1, TopFacts
<1>3. Here' \in Places
  BY DEF CursorTyped, Here, Places
<1>4. /\ calls' \in Seq(CallSet) /\ CallsAlternate(calls') /\ Len(calls') = n - 1
      /\ \A i \in 1 .. n - 2 : calls'[i] = calls[i]
      /\ calls'[n - 1] = [calls[n - 1] EXCEPT !.start = Here']
      /\ calls'[n - 1] \in StringCallSet /\ calls'[n - 1].interp
  BY <1>1, <1>3, BackFacts
<1>5. calls'[n - 1].start = Here' /\ calls'[n - 1].fn = "string" /\ calls[n - 1].fn = "string"
  BY <1>2, <1>4 DEF StringCallSet
<1>6. Running' = "string" /\ Top' = calls'[n - 1]
  <2>1. calls' # <<>> /\ Top' = calls'[n - 1]
    BY <1>2, <1>4 DEF Top
  <2>2. Running' = Top'.fn
    BY <2>1 DEF Running
  <2>. QED
    BY <1>5, <2>1, <2>2
<1>7. StartsKept
  <2>1. \A m \in Nat : \A c \in 1 .. m - 1 : (c \in 1 .. m - 2 /\ c \in 1 .. m) \/ c = m - 1
    OBVIOUS
  <2>2. \A c \in 1 .. n - 1 : (c \in 1 .. n - 2 /\ c \in 1 .. n) \/ c = n - 1
    BY <1>2, <2>1
  <2>. QED
    BY <1>4, <1>5, <2>2 DEF StartsKept
<1>8. Stepped
  BY <1>1, <1>4, <1>7, StillLaid DEF Stepped
<1>. QED
  BY <1>1, <1>2, <1>4, <1>5, <1>6, <1>8

\* scanInterpolation comes to its own brace and returns to scanString.
LEMMA EndInterpolationDoes ==
    ASSUME Typed, InTokenOf, EndInterpolation
    PROVE  /\ Stepped /\ inToken' = FALSE /\ ~inToken /\ atLineStart' = atLineStart
           /\ Running = "interp" /\ Running' = "string" /\ Top'.interp
           /\ Len(calls') = Len(calls) - 1 /\ \A i \in 1 .. Len(calls) - 2 : calls'[i] = calls[i]
           /\ Len(calls) \in Nat /\ Len(calls) > 1 /\ Len(calls) % 2 = 0
           /\ calls'[Len(calls) - 1].fn = "string" /\ calls[Len(calls) - 1].fn = "string"
           /\ Top = calls[Len(calls)] /\ Top \in InterpCallSet
           /\ errors' = errors /\ OneMore(Token("INTERP_END", Here, pos + 1)) /\ Top.depth = 1
           /\ Advance(1) /\ Ch = "}" /\ ~AtEnd
<1> DEFINE t == Token("INTERP_END", Here, pos + 1)
<1>1. /\ InInterpolation /\ inToken' = inToken /\ BackInString(HereAfter(1)) /\ tokens' = tokens \o <<t>>
      /\ errors' = errors /\ Top.depth = 1 /\ Advance(1) /\ Ch = "}" /\ src' = src
  BY DEF EndInterpolation, Emit, InInterpolation
<1>2. pos <= Len(src) /\ ~AtEnd
  <2>1. Ch # "end"
    BY <1>1
  <2>. QED
    BY <2>1, TypedFacts, CharFacts DEF AtEnd
<1>3. CursorTyped' /\ pos <= pos' /\ pos' = pos + 1 /\ Here' = HereAfter(1)
  <2>1. 1 \in Nat /\ pos + 1 <= Len(src) + 1
    BY <1>2, TypedFacts
  <2>. QED
    BY <1>1, <2>1, Advances
<1>4. t \in TokenSet /\ TokenAt(t, Here) /\ t.from = pos /\ t.to = pos + 1 /\ t.type = "INTERP_END"
  <2>1. CursorTyped /\ 0 \in Nat
    BY TypedFacts
  <2>2. "INTERP_END" \in Types /\ pos + 1 \in Nat /\ Here \in Places
    BY <2>1, HereTyped, TypedFacts DEF Types, Marks
  <2>3. t \in TokenSet
    BY <2>2, TokenTyped
  <2>. QED
    BY <2>3 DEF Token, TokenAt, Here
<1> HIDE DEF t
<1>5. OneMore(t)
  BY <1>1, <1>4, EmitOne
<1>6. NewPlaced(t)
  <2>1. t.from <= pos' /\ t.to <= pos'
    BY <1>3, <1>4, TypedFacts
  <2>. QED
    BY <1>4, <2>1 DEF NewPlaced
<1>7. \A i \in Len(tokens) + 1 .. Len(tokens') : NewPlaced(tokens'[i])
  <2>1. \A m \in Nat : \A i \in m + 1 .. m + 1 : i = m + 1
    OBVIOUS
  <2>. QED
    BY <1>5, <1>6, <2>1, TypedFacts DEF OneMore
<1>8. BackInString(Here')
  BY <1>1, <1>3
<1>9. tokens' \in Seq(TokenSet) /\ Extends(tokens, tokens') /\ errors' \in Seq(Problems)
  BY <1>1, <1>5, TypedFacts DEF OneMore
<1>10. /\ Stepped /\ inToken' = FALSE /\ ~inToken /\ atLineStart' = atLineStart
       /\ Running = "interp" /\ Running' = "string" /\ Top'.interp
       /\ Len(calls') = Len(calls) - 1 /\ \A i \in 1 .. Len(calls) - 2 : calls'[i] = calls[i]
       /\ Len(calls) \in Nat /\ Len(calls) > 1 /\ Len(calls) % 2 = 0
       /\ calls'[Len(calls) - 1].fn = "string" /\ calls[Len(calls) - 1].fn = "string"
       /\ Top = calls[Len(calls)] /\ Top \in InterpCallSet
  BY <1>1, <1>3, <1>7, <1>8, <1>9, InterpReturns
<1>. QED
  BY <1>1, <1>2, <1>5, <1>10 DEF t

\* scanInterpolation comes to the end of the source, and returns with an error.
LEMMA BreakInterpolationDoes ==
    ASSUME Typed, InTokenOf, BreakInterpolation
    PROVE  /\ Stepped /\ inToken' = FALSE /\ atLineStart' = atLineStart
           /\ Running = "interp" /\ Running' = "string"
           /\ Len(calls') = Len(calls) - 1 /\ \A i \in 1 .. Len(calls) - 2 : calls'[i] = calls[i]
           /\ Len(calls) \in Nat /\ Len(calls) > 1 /\ Len(calls) % 2 = 0
           /\ calls'[Len(calls) - 1].fn = "string" /\ calls[Len(calls) - 1].fn = "string"
           /\ errors' # <<>> /\ tokens' = tokens /\ Advance(0)
<1>1. /\ InInterpolation /\ inToken' = inToken /\ BackInString(Here) /\ tokens' = tokens
      /\ errors' = Append(errors, "unterminated string interpolation") /\ Advance(0) /\ src' = src
  BY DEF BreakInterpolation, AddError, InInterpolation
<1>2. 0 \in Nat /\ pos + 0 <= Len(src) + 1
  BY TypedFacts
<1>3. CursorTyped' /\ pos <= pos' /\ Here' = HereAfter(0)
  BY <1>1, <1>2, Advances
<1>4. HereAfter(0) = Here
  BY TypedFacts DEF Here, HereAfter
<1>5. BackInString(Here')
  BY <1>1, <1>3, <1>4
<1>6. errors' \in Seq(Problems) /\ errors' # <<>>
  BY <1>1, ErrorAdded DEF Problems
<1>7. /\ Stepped /\ inToken' = FALSE /\ atLineStart' = atLineStart
      /\ Running = "interp" /\ Running' = "string"
      /\ Len(calls') = Len(calls) - 1 /\ \A i \in 1 .. Len(calls) - 2 : calls'[i] = calls[i]
      /\ Len(calls) \in Nat /\ Len(calls) > 1 /\ Len(calls) % 2 = 0
      /\ calls'[Len(calls) - 1].fn = "string" /\ calls[Len(calls) - 1].fn = "string"
  BY <1>1, <1>3, <1>5, <1>6, NoneNew, InterpReturns
<1>. QED
  BY <1>1, <1>6, <1>7

--------------------------------------------------------------------------------
\* Types and places are kept.

LEMMA StuttersStep == ASSUME Typed, InTokenOf, UNCHANGED vars PROVE Stepped
<1>1. /\ src' = src /\ pos' = pos /\ line' = line /\ col' = col /\ tokens' = tokens /\ errors' = errors
      /\ indentStack' = indentStack /\ atLineStart' = atLineStart /\ calls' = calls /\ inToken' = inToken
      /\ done' = done
  BY DEF vars, cursor, layout
<1>2. CursorTyped' /\ pos <= pos'
  <2>1. CursorTyped /\ pos \in Nat
    BY TypedFacts
  <2>. QED
    BY <1>1, <2>1 DEF CursorTyped
<1>3. StartsKept
  BY <1>1 DEF StartsKept
<1>4. inToken' => Running' = "interp"
  BY <1>1 DEF InTokenOf, Running, Top
<1>. QED
  BY <1>1, <1>2, <1>3, <1>4, NoneNew, StillLaid, TypedFacts DEF Stepped

\* Every action is a step of that kind.
LEMMA EveryStep == ASSUME Typed, InTokenOf, StartsBehind, [Next]_vars PROVE Stepped
<1>1. CASE HandleIndentation \/ ScanRound \/ Finish
  BY <1>1, RoundsScan, ScannedSteps
<1>2. CASE StartString
  BY <1>2, StartStringDoes
<1>3. CASE StringChar \/ (StringEscape /\ pos # Len(src))
  BY <1>3, StringGoesOn
<1>4. CASE (StringEscape /\ pos = Len(src)) \/ BreakString
  BY <1>4, StringFails
<1>5. CASE EndString
  BY <1>5, EndStringDoes
<1>6. CASE StartInterpolation
  BY <1>6, StartInterpolationDoes
<1>7. CASE InterpolationToken
  BY <1>7, InterpolationTokenDoes
<1>8. CASE EndInterpolation
  BY <1>8, EndInterpolationDoes
<1>9. CASE BreakInterpolation
  BY <1>9, BreakInterpolationDoes
<1>10. CASE UNCHANGED vars
  BY <1>10, StuttersStep
<1>. QED
  BY <1>1, <1>2, <1>3, <1>4, <1>5, <1>6, <1>7, <1>8, <1>9, <1>10 DEF Next, ScanRound

\* Such a step keeps the types.
LEMMA StepTyped == ASSUME Stepped PROVE Typed' /\ InTokenOf'
<1>1. Typed'
  BY DEF Typed, Stepped, CallSet
<1>2. InTokenOf'
  BY DEF InTokenOf, Stepped
<1>. QED
  BY <1>1, <1>2

\* The breaks and the places of a text and its tokens, in one state or the next.
TakenIn(ts, i) == \E k \in 1 .. Len(ts) : ts[k].type = "NEWLINE" /\ ts[k].to = i + 1
BreaksIn(s, ts, n) == {i \in 1 .. n - 1 : s[i] = "\n" \/ (s[i] = "\r" /\ TakenIn(ts, i))}
EscapedIn(s, n) == \E i \in 1 .. n - 2 : s[i] = "\\" /\ s[i + 1] = "\n"
CountedFrom(breaks, at) ==
    /\ at.line = 1 + Cardinality(breaks)
    /\ \E start \in {0} \cup breaks : (\A b \in breaks : b <= start) /\ at.col = at.from - start
TrueIn(s, ts, at) == EscapedIn(s, at.from) \/ CountedFrom(BreaksIn(s, ts, at.from), at)

\* A true place, by the breaks before it.
LEMMA TrueIs ==
    ASSUME NEW at
    PROVE  TruePlace(at) <=> TrueIn(src, tokens, at)
BY DEF TruePlace, TrueIn, LineBreaks, TakenForBreak, EscapedBreak, BreaksIn, TakenIn, EscapedIn, CountedFrom

LEMMA TrueIsNext == TruePlace(Here)' <=> TrueIn(src', tokens', Here')
BY DEF TruePlace, TrueIn, LineBreaks, TakenForBreak, EscapedBreak, BreaksIn, TakenIn, EscapedIn, CountedFrom

\* A set of breaks is finite.
LEMMA BreaksFinite ==
    ASSUME NEW s, NEW ts, NEW n \in Int
    PROVE  IsFiniteSet(BreaksIn(s, ts, n)) /\ Cardinality(BreaksIn(s, ts, n)) \in Nat
<1>1. IsFiniteSet(1 .. n - 1)
  <2>1. n - 1 \in Int
    OBVIOUS
  <2>. QED
    BY <2>1, FS_Interval
<1>2. BreaksIn(s, ts, n) \in SUBSET (1 .. n - 1)
  BY DEF BreaksIn
<1>3. IsFiniteSet(BreaksIn(s, ts, n))
  BY <1>1, <1>2, FS_Subset
<1>. QED
  BY <1>3, FS_CardinalityType

\* No token ends ahead of the cursor, and no new NEWLINE at it or before.
TokensBehind == \A i \in 1 .. Len(tokens) : tokens[i].from <= pos /\ tokens[i].to <= pos

\* What was a break before the cursor stays one, and what was none is none.
LEMMA BreaksStay ==
    ASSUME Typed, Stepped, NEW n \in Nat, n <= pos
    PROVE  BreaksIn(src, tokens', n) = BreaksIn(src, tokens, n)
<1>1. ASSUME NEW i \in 1 .. n - 1 PROVE TakenIn(tokens', i) <=> TakenIn(tokens, i)
  <2>1. /\ Len(tokens) \in Nat /\ Len(tokens') \in Nat /\ Len(tokens) <= Len(tokens')
        /\ \A k \in 1 .. Len(tokens) : tokens'[k] = tokens[k]
    BY TypedFacts DEF Stepped, Extends
  <2>2. ASSUME TakenIn(tokens, i) PROVE TakenIn(tokens', i)
    <3>1. \A k \in 1 .. Len(tokens) : k \in 1 .. Len(tokens')
      BY <2>1
    <3>. QED
      BY <2>1, <2>2, <3>1 DEF TakenIn
  <2>3. ASSUME TakenIn(tokens', i) PROVE TakenIn(tokens, i)
    <3>1. PICK k \in 1 .. Len(tokens') : tokens'[k].type = "NEWLINE" /\ tokens'[k].to = i + 1
      BY <2>3 DEF TakenIn
    <3>2. k \in Len(tokens) + 1 .. Len(tokens') => pos < tokens'[k].to
      BY <3>1 DEF Stepped, NewPlaced
    <3>3. ~(pos < i + 1)
      BY TypedFacts
    <3>4. k \in 1 .. Len(tokens)
      BY <2>1, <3>1, <3>2, <3>3
    <3>. QED
      BY <2>1, <3>1, <3>4 DEF TakenIn
  <2>. QED
    BY <2>2, <2>3
<1>. QED
  BY <1>1 DEF BreaksIn

LEMMA PlacesStay ==
    ASSUME Typed, Stepped, NEW at, at.from \in Nat, at.from <= pos
    PROVE  TrueIn(src', tokens', at) <=> TrueIn(src, tokens, at)
BY BreaksStay DEF TrueIn, Stepped

LEMMA EscapedStays ==
    ASSUME NEW s, NEW m \in Int, NEW n \in Int, m <= n, EscapedIn(s, m)
    PROVE  EscapedIn(s, n)
BY DEF EscapedIn

\* The place of the cursor in the next state.
LEMMA HereIs ==
    /\ Here.from = pos /\ Here.line = line /\ Here.col = col
    /\ Here'.from = pos' /\ Here'.line = line' /\ Here'.col = col'
BY DEF Here

\* Behind the cursor no break is added but where the step's tokens or the text say.
LEMMA BreaksAhead ==
    ASSUME Typed, Stepped, TokensBehind
    PROVE  /\ \A i \in 1 .. pos - 1 : i \in BreaksIn(src, tokens', pos') <=> i \in BreaksIn(src, tokens, pos)
           /\ \A i \in pos .. pos' - 1 : i \in BreaksIn(src, tokens', pos') <=>
                 \/ src[i] = "\n"
                 \/ /\ src[i] = "\r"
                    /\ \E k \in Len(tokens) + 1 .. Len(tokens') : tokens'[k].type = "NEWLINE" /\ tokens'[k].to = i + 1
           /\ \A i \in BreaksIn(src, tokens, pos) : i \in 1 .. pos - 1
           /\ \A i \in BreaksIn(src, tokens', pos') : i \in 1 .. pos - 1 \/ i \in pos .. pos' - 1
<1>1. /\ pos \in Nat \ {0} /\ pos' \in Nat /\ pos <= pos' /\ Len(tokens) \in Nat /\ Len(tokens') \in Nat
      /\ Len(tokens) <= Len(tokens') /\ \A k \in 1 .. Len(tokens) : tokens'[k] = tokens[k]
  <2>1. pos \in Nat \ {0} /\ Len(tokens) \in Nat
    BY TypedFacts
  <2>2. pos' \in Nat
    BY DEF Stepped, CursorTyped
  <2>. QED
    BY <2>1, <2>2 DEF Stepped, Extends
<1>2. BreaksIn(src, tokens', pos) = BreaksIn(src, tokens, pos)
  BY <1>1, BreaksStay
<1>3. \A i \in 1 .. pos - 1 : i \in BreaksIn(src, tokens', pos') <=> i \in BreaksIn(src, tokens, pos)
  <2>1. \A i \in 1 .. pos - 1 : i \in BreaksIn(src, tokens', pos') <=> i \in BreaksIn(src, tokens', pos)
    <3>1. \A p, q \in Nat : p <= q => \A i \in 1 .. p - 1 : i \in 1 .. q - 1
      OBVIOUS
    <3>2. \A i \in 1 .. pos - 1 : i \in 1 .. pos' - 1
      BY <1>1, <3>1
    <3>. QED
      BY <3>2 DEF BreaksIn
  <2>. QED
    BY <1>2, <2>1
<1>4. ASSUME NEW i \in pos .. pos' - 1
      PROVE  i \in BreaksIn(src, tokens', pos') <=>
                 \/ src[i] = "\n"
                 \/ /\ src[i] = "\r"
                    /\ \E k \in Len(tokens) + 1 .. Len(tokens') : tokens'[k].type = "NEWLINE" /\ tokens'[k].to = i + 1
  <2>1. i \in 1 .. pos' - 1
    BY <1>1
  <2>2. \A k \in 1 .. Len(tokens) : tokens'[k].to # i + 1
    <3>1. \A k \in 1 .. Len(tokens) : tokens'[k].to <= pos /\ ~(i + 1 <= pos)
      BY <1>1 DEF TokensBehind
    <3>. QED
      BY <3>1
  <2>3. \A k \in 1 .. Len(tokens') : k \in 1 .. Len(tokens) \/ k \in Len(tokens) + 1 .. Len(tokens')
    BY <1>1
  <2>4. \A k \in Len(tokens) + 1 .. Len(tokens') : k \in 1 .. Len(tokens')
    BY <1>1
  <2>5. TakenIn(tokens', i) <=>
          \E k \in Len(tokens) + 1 .. Len(tokens') : tokens'[k].type = "NEWLINE" /\ tokens'[k].to = i + 1
    BY <2>2, <2>3, <2>4 DEF TakenIn
  <2>. QED
    BY <2>1, <2>5 DEF BreaksIn
<1>5. \A i \in BreaksIn(src, tokens, pos) : i \in 1 .. pos - 1
  BY DEF BreaksIn
<1>6. \A i \in BreaksIn(src, tokens', pos') : i \in 1 .. pos - 1 \/ i \in pos .. pos' - 1
  <2>1. \A i \in BreaksIn(src, tokens', pos') : i \in 1 .. pos' - 1
    BY DEF BreaksIn
  <2>. QED
    BY <1>1, <2>1
<1>. QED
  BY <1>3, <1>4, <1>5, <1>6

\* Along the line the column grows with the place.
LEMMA OnLine ==
    ASSUME Typed, Stepped, TokensBehind, TruePlace(Here), NEW k \in Nat, Advance(k),
           \A i \in pos .. pos + k - 1 : src[i] # "\n",
           tokens' = tokens \/ \A i \in pos .. pos + k - 1 : src[i] # "\r"
    PROVE  TruePlace(Here)'
<1>1. /\ pos \in Nat \ {0} /\ pos' = pos + k /\ line' = line /\ col' = col + k /\ line \in Nat /\ col \in Nat
      /\ src' = src
  BY TypedFacts DEF Advance, Stepped
<1>2. BreaksIn(src, tokens', pos') = BreaksIn(src, tokens, pos)
  <2>1. \A i \in pos .. pos' - 1 : i \notin BreaksIn(src, tokens', pos')
    <3>1. \A i \in pos .. pos' - 1 : src[i] # "\n"
      BY <1>1
    <3>2. CASE \A i \in pos .. pos + k - 1 : src[i] # "\r"
      BY <1>1, <3>1, <3>2, BreaksAhead
    <3>3. CASE tokens' = tokens
      <4>1. \A m \in Nat : m + 1 .. m = {}
        OBVIOUS
      <4>2. Len(tokens) + 1 .. Len(tokens') = {}
        BY <3>3, <4>1, TypedFacts
      <4>. QED
        BY <3>1, <4>2, BreaksAhead
    <3>. QED
      BY <3>2, <3>3
  <2>2. \A i \in BreaksIn(src, tokens', pos') : i \in BreaksIn(src, tokens, pos)
    BY <2>1, BreaksAhead
  <2>3. \A i \in BreaksIn(src, tokens, pos) : i \in BreaksIn(src, tokens', pos')
    BY BreaksAhead
  <2>. QED
    BY <2>2, <2>3
<1>3. TrueIn(src, tokens, Here)
  BY TrueIs
<1>4. CASE EscapedIn(src, pos)
  <2>1. EscapedIn(src, pos')
    BY <1>1, <1>4, EscapedStays
  <2>. QED
    BY <1>1, <2>1, HereIs, TrueIsNext DEF TrueIn
<1>5. CASE CountedFrom(BreaksIn(src, tokens, pos), Here)
  <2> DEFINE breaks == BreaksIn(src, tokens, pos)
  <2>1. PICK start \in {0} \cup breaks : (\A b \in breaks : b <= start) /\ col = pos - start
    BY <1>5, HereIs DEF CountedFrom
  <2>2. line = 1 + Cardinality(breaks)
    BY <1>5, HereIs DEF CountedFrom
  <2>3. start \in Int
    BY <1>1, <2>1, BreaksAhead
  <2>4. col' = pos' - start
    BY <1>1, <2>1, <2>3
  <2>5. CountedFrom(breaks, Here')
    BY <1>1, <2>1, <2>2, <2>4, HereIs DEF CountedFrom
  <2>. QED
    BY <1>1, <1>2, <2>5, HereIs, TrueIsNext DEF TrueIn
<1>. QED
  BY <1>3, <1>4, <1>5, HereIs DEF TrueIn

\* Behind breaks the lines are counted, and the column is from the last one.
LEMMA OnBreaks ==
    ASSUME Typed, Stepped, TokensBehind, TruePlace(Here),
           NEW new, new \subseteq pos .. pos' - 1, NEW last \in new, \A b \in new : b <= last,
           \A i \in pos .. pos' - 1 : i \in BreaksIn(src, tokens', pos') <=> i \in new,
           line' = line + Cardinality(new), col' = pos' - last
    PROVE  TruePlace(Here)'
<1> DEFINE breaks == BreaksIn(src, tokens, pos)
<1>1. pos \in Nat \ {0} /\ pos' \in Nat /\ line \in Nat /\ src' = src
  BY TypedFacts DEF Stepped, CursorTyped
<1>2. BreaksIn(src, tokens', pos') = breaks \cup new
  <2>1. \A i \in BreaksIn(src, tokens', pos') : i \in breaks \cup new
    BY BreaksAhead
  <2>2. \A i \in breaks \cup new : i \in BreaksIn(src, tokens', pos')
    BY BreaksAhead
  <2>. QED
    BY <2>1, <2>2
<1>3. breaks \cap new = {}
  <2>1. \A i \in breaks : i \in 1 .. pos - 1
    BY BreaksAhead
  <2>2. \A p, q \in Nat : \A i \in 1 .. p - 1 : i \notin p .. q - 1
    OBVIOUS
  <2>3. \A i \in 1 .. pos - 1 : i \notin pos .. pos' - 1
    BY <1>1, <2>2
  <2>. QED
    BY <2>1, <2>3
<1>4. IsFiniteSet(breaks) /\ Cardinality(breaks) \in Nat
  BY <1>1, BreaksFinite
<1>5. IsFiniteSet(new) /\ Cardinality(new) \in Nat
  <2>1. IsFiniteSet(pos .. pos' - 1)
    <3>1. pos \in Int /\ pos' - 1 \in Int
      BY <1>1
    <3>. QED
      BY <3>1, FS_Interval
  <2>2. IsFiniteSet(new)
    BY <2>1, FS_Subset
  <2>. QED
    BY <2>2, FS_CardinalityType
<1>6. Cardinality(breaks \cup new) = Cardinality(breaks) + Cardinality(new)
  <2>1. Cardinality(breaks \cup new) = Cardinality(breaks) + Cardinality(new) - Cardinality(breaks \cap new)
    BY <1>4, <1>5, FS_Union
  <2>2. Cardinality(breaks \cap new) = 0
    BY <1>3, FS_EmptySet
  <2>. QED
    BY <1>4, <1>5, <2>1, <2>2
<1>7. TrueIn(src, tokens, Here)
  BY TrueIs
<1>8. CASE EscapedIn(src, pos)
  <2>1. EscapedIn(src, pos')
    BY <1>1, <1>8, EscapedStays DEF Stepped
  <2>. QED
    BY <1>1, <2>1, HereIs, TrueIsNext DEF TrueIn
<1>9. CASE CountedFrom(breaks, Here)
  <2>1. line = 1 + Cardinality(breaks)
    BY <1>9, HereIs DEF CountedFrom
  <2>2. line' = 1 + Cardinality(breaks \cup new)
    BY <1>4, <1>5, <1>6, <2>1
  <2>3. \A b \in breaks \cup new : b <= last
    <3>1. \A b \in breaks : b \in 1 .. pos - 1 /\ last \in pos .. pos' - 1
      BY BreaksAhead
    <3>2. \A p, q \in Nat : \A i \in 1 .. p - 1, j \in p .. q - 1 : i <= j
      OBVIOUS
    <3>3. \A b \in breaks : b <= last
      BY <1>1, <3>1, <3>2
    <3>. QED
      BY <3>3
  <2>4. CountedFrom(breaks \cup new, Here')
    BY <2>2, <2>3, HereIs DEF CountedFrom
  <2>. QED
    BY <1>1, <1>2, <2>4, HereIs, TrueIsNext DEF TrueIn
<1>. QED
  BY <1>7, <1>8, <1>9, HereIs DEF TrueIn

\* The cursor's place is true after each action.
LEMMA HereAfterSame ==
    ASSUME Typed, Stepped, TokensBehind, TruePlace(Here), pos' = pos, line' = line, col' = col
    PROVE  TruePlace(Here)'
<1>1. 0 \in Nat /\ pos + 0 = pos /\ col + 0 = col /\ \A i \in pos .. pos + 0 - 1 : FALSE
  BY TypedFacts
<1>2. Advance(0)
  BY <1>1 DEF Advance
<1>. QED
  BY <1>1, <1>2, OnLine

\* One character that is no break.
LEMMA HereAfterOne ==
    ASSUME Typed, Stepped, TokensBehind, TruePlace(Here), Advance(1), ~AtEnd, Ch # "\n",
           Ch # "\r" \/ tokens' = tokens
    PROVE  TruePlace(Here)'
<1>1. 1 \in Nat /\ \A i \in pos .. pos + 1 - 1 : i = pos
  BY TypedFacts
<1>2. CursorTyped
  BY TypedFacts
<1>3. \A i \in pos .. pos + 1 - 1 : src[i] = Ch
  BY <1>1, <1>2, CharFacts
<1>. QED
  BY <1>1, <1>3, OnLine

\* Characters of a kind that has no breaks.
LEMMA HereAfterSome ==
    ASSUME Typed, Stepped, TokensBehind, TruePlace(Here), NEW chars, "end" \notin chars, "\n" \notin chars,
           Advance(After(pos, chars) - pos), "\r" \notin chars \/ tokens' = tokens
    PROVE  TruePlace(Here)'
<1> DEFINE k == After(pos, chars)
<1>1. /\ CursorTyped /\ pos \in 1 .. Len(src) + 1 /\ Len(src) \in Nat
  BY TypedFacts
<1>2. k \in pos .. Len(src) + 1 /\ \A j \in pos .. k - 1 : CharAt(j) \in chars
  BY <1>1, AfterIs
<1> HIDE DEF k
<1>3. k - pos \in Nat /\ pos + (k - pos) - 1 = k - 1 /\ \A j \in pos .. k - 1 : j \in 1 .. Len(src)
  BY <1>1, <1>2
<1>4. \A j \in pos .. k - 1 : src[j] \in chars
  BY <1>1, <1>2, <1>3, CharFacts
<1>5. \A j \in pos .. k - 1 : src[j] # "\n"
  BY <1>4
<1>6. tokens' = tokens \/ \A j \in pos .. k - 1 : src[j] # "\r"
  BY <1>4
<1>7. Advance(k - pos)
  BY DEF k
<1>. QED
  BY <1>3, <1>5, <1>6, <1>7, OnLine

\* An operator has no break.
LEMMA HereAfterOperator ==
    ASSUME Typed, Stepped, TokensBehind, TruePlace(Here), ScanOperator
    PROVE  TruePlace(Here)'
<1>1. CASE AtOperator = {}
  <2>1. Advance(1) /\ ~AtEnd /\ tokens' = tokens
    BY <1>1 DEF ScanOperator, AddError, Scan, InScanToken
  <2>2. Ch \notin Blanks \cup {"\n", "\r", "\"", "x"}
    BY DEF ScanOperator
  <2>3. Ch # "\n"
    BY <2>2, Zenon
  <2>. QED
    BY <2>1, <2>3, HereAfterOne
<1>2. CASE AtOperator # {}
  <2> DEFINE k == Len(Longest)
  <2>1. Advance(k)
    BY <1>2 DEF ScanOperator, Longest
  <2>2. CursorTyped /\ pos \in Nat
    BY TypedFacts
  <2>3. Longest \in Operators /\ k \in Nat \ {0} /\ \A i \in 1 .. k : Longest[i] = src[pos + i - 1]
    BY <1>2, <2>2, LongestFacts
  <2>4. \A i \in 1 .. k : Longest[i] \notin Marks \cup {"\n", "\r"}
    <3>1. Longest \in Seq(STRING) /\ \A i \in DOMAIN Longest : Longest[i] \notin Marks \cup {"\n", "\r"}
      BY <2>3, OperatorsAssumption
    <3>2. DOMAIN Longest = 1 .. k
      BY <3>1
    <3>. QED
      BY <3>1, <3>2
  <2> HIDE DEF k
  <2>5. \A i \in pos .. pos + k - 1 : (i - pos) + 1 \in 1 .. k /\ pos + ((i - pos) + 1) - 1 = i
    BY <2>2, <2>3
  <2>6. \A i \in pos .. pos + k - 1 : src[i] \notin Marks \cup {"\n", "\r"}
    BY <2>3, <2>4, <2>5
  <2>7. \A i \in pos .. pos + k - 1 : src[i] # "\n" /\ src[i] # "\r"
    BY <2>6, Zenon
  <2>. QED
    BY <2>1, <2>3, <2>7, OnLine
<1>. QED
  BY <1>1, <1>2

\* Behind one break, of one character or two.
LEMMA HereAfterBreak ==
    ASSUME Typed, Stepped, TokensBehind, TruePlace(Here), NEW k \in {1, 2}, pos' = pos + k, line' = line + 1,
           col' = 1, NEW t, OneMore(t), t.type = "NEWLINE", t.to = pos + k,
           src[pos + k - 1] \in {"\n", "\r"}, k = 2 => src[pos] = "\r"
    PROVE  TruePlace(Here)'
<1> DEFINE last == pos + k - 1
           new == {last}
<1>1. pos \in Nat \ {0} /\ Len(tokens) \in Nat /\ line \in Nat
  BY TypedFacts
<1>2. \A i \in Len(tokens) + 1 .. Len(tokens') : i = Len(tokens) + 1
  BY <1>1 DEF OneMore
<1>3. Len(tokens) + 1 \in Len(tokens) + 1 .. Len(tokens') /\ tokens'[Len(tokens) + 1] = t
  BY <1>1 DEF OneMore
<1>4. \A i : (\E j \in Len(tokens) + 1 .. Len(tokens') : tokens'[j].type = "NEWLINE" /\ tokens'[j].to = i + 1)
             <=> pos + k = i + 1
  BY <1>2, <1>3
<1>5. last \in pos .. pos' - 1 /\ pos + k = last + 1
  BY <1>1
<1>6. \A i \in pos .. pos' - 1 : i = last \/ (i = pos /\ k = 2 /\ pos + k # i + 1)
  BY <1>1
<1>7. ASSUME NEW i \in pos .. pos' - 1 PROVE i \in BreaksIn(src, tokens', pos') <=> i \in new
  <2>1. i \in BreaksIn(src, tokens', pos') <=> src[i] = "\n" \/ (src[i] = "\r" /\ pos + k = i + 1)
    BY <1>4, BreaksAhead
  <2>2. CASE i = last
    BY <1>5, <2>1, <2>2
  <2>3. CASE i # last
    <3>1. i = pos /\ k = 2 /\ pos + k # i + 1
      BY <1>6, <2>3
    <3>2. "\r" # "\n"
      OBVIOUS
    <3>. QED
      BY <2>1, <2>3, <3>1, <3>2
  <2>. QED
    BY <2>2, <2>3
<1>8. Cardinality(new) = 1
  BY FS_Singleton
<1>9. last \in new /\ new \subseteq pos .. pos' - 1 /\ \A b \in new : b <= last
  BY <1>1, <1>5
<1>10. col' = pos' - last
  BY <1>1
<1>11. line' = line + Cardinality(new)
  BY <1>8
<1> HIDE DEF last, new
<1>. QED
  BY <1>7, <1>9, <1>10, <1>11, OnBreaks

\* After a break the cursor is in the first column of the next line.
LEMMA HereAfterNewline ==
    ASSUME Typed, Stepped, TokensBehind, TruePlace(Here), Newline \/ CarriageReturn
    PROVE  TruePlace(Here)'
<1> DEFINE k == IF Ch = "\r" /\ NextCh = "\n" THEN 2 ELSE 1
           t == Token("NEWLINE", IF Ch = "\n" THEN Here ELSE HereAfter(k), pos + k)
<1>1. /\ pos' = pos + k /\ line' = line + 1 /\ col' = 1 /\ tokens' = tokens \o <<t>>
      /\ (Ch = "\n" \/ Ch = "\r") /\ ~AtEnd
  <2>1. CASE Newline
    <3>1. Ch = "\n" /\ Ch # "\r"
      BY <2>1 DEF Newline
    <3>. QED
      BY <2>1, <3>1 DEF Newline, Emit, Scan, InScanToken
  <2>2. CASE CarriageReturn
    <3>1. Ch = "\r" /\ Ch # "\n"
      BY <2>2 DEF CarriageReturn
    <3>. QED
      BY <2>2, <3>1 DEF CarriageReturn, Emit, Scan, InScanToken
  <2>. QED
    BY <2>1, <2>2
<1>2. k \in {1, 2} /\ k \in Nat /\ CursorTyped /\ pos \in Nat
  BY TypedFacts
<1>3. t \in TokenSet
  <2>1. "NEWLINE" \in Types /\ pos + k \in Nat
    BY <1>2 DEF Types, Marks
  <2>2. Here \in Places /\ HereAfter(k) \in Places
    BY <1>2, HereTyped
  <2>. QED
    BY <2>1, <2>2, TokenTyped
<1>4. t.type = "NEWLINE" /\ t.to = pos + k
  BY DEF Token
<1>5. pos <= Len(src) /\ Ch = src[pos]
  BY <1>1, <1>2, CharFacts
<1>6. src[pos + k - 1] \in {"\n", "\r"} /\ (k = 2 => src[pos] = "\r")
  <2>1. CASE k = 1
    <3>1. pos + k - 1 = pos
      BY <1>2, <2>1
    <3>. QED
      BY <1>1, <1>5, <2>1, <3>1
  <2>2. CASE k = 2
    <3>1. Ch = "\r" /\ NextCh = "\n"
      BY <2>2
    <3>2. pos + 1 <= Len(src) /\ NextCh = src[pos + 1]
      <4>1. pos + 1 \in 1 .. Len(src)
        BY <1>2, <3>1, CharFacts
      <4>. QED
        BY <1>2, <4>1, CharFacts DEF NextCh
    <3>3. pos + k - 1 = pos + 1
      BY <1>2, <2>2
    <3>. QED
      BY <1>5, <3>1, <3>2, <3>3
  <2>. QED
    BY <1>2, <2>1, <2>2
<1> HIDE DEF k, t
<1>7. OneMore(t)
  BY <1>1, <1>3, EmitOne
<1>. QED
  BY <1>1, <1>2, <1>4, <1>6, <1>7, HereAfterBreak

\* A block comment counts its own breaks.
LEMMA HereAfterComment ==
    ASSUME Typed, Stepped, TokensBehind, TruePlace(Here), SkipBlockComment
    PROVE  TruePlace(Here)'
<1> DEFINE breaks == BreaksFrom(pos, pos')
<1>1. pos \in Nat \ {0} /\ col \in Nat /\ line \in Nat /\ Len(src) \in Nat
  BY TypedFacts
<1>2. pos' \in pos + 2 .. Len(src) + 1 /\ line' = line + Cardinality(breaks)
  BY CommentFacts
<1>3. tokens' = tokens
  BY DEF SkipBlockComment, AddError, Quietly
<1>4. \A i \in pos .. pos' - 1 : i \in BreaksIn(src, tokens', pos') <=> i \in breaks
  <2>1. \A m \in Nat : m + 1 .. m = {}
    OBVIOUS
  <2>2. Len(tokens) + 1 .. Len(tokens') = {}
    BY <1>3, <2>1, TypedFacts
  <2>3. \A i \in pos .. pos' - 1 : i \in BreaksIn(src, tokens', pos') <=> src[i] = "\n"
    BY <2>2, BreaksAhead
  <2>. QED
    BY <2>3 DEF BreaksFrom
<1>5. CASE breaks = {}
  <2>1. col' = col + pos' - pos
    BY <1>5, CommentFacts
  <2>2. Cardinality(breaks) = 0
    BY <1>5, FS_EmptySet
  <2>3. \A p, q, c \in Nat : q \in p + 2 .. Len(src) + 1 =>
            q - p \in Nat /\ q = p + (q - p) /\ c + q - p = c + (q - p) /\ p + (q - p) - 1 = q - 1
    BY <1>1
  <2>4. pos' \in Nat
    BY <1>1, <1>2
  <2> DEFINE k == pos' - pos
  <2>5. k \in Nat /\ pos' = pos + k /\ col + pos' - pos = col + k /\ pos + k - 1 = pos' - 1
    BY <1>1, <1>2, <2>3, <2>4
  <2> HIDE DEF k
  <2>6. Advance(k)
    BY <1>1, <1>2, <2>1, <2>2, <2>5 DEF Advance
  <2>7. \A i \in pos .. pos + k - 1 : src[i] # "\n"
    BY <1>5, <2>5 DEF BreaksFrom
  <2>. QED
    BY <1>3, <2>5, <2>6, <2>7, OnLine
<1>6. CASE breaks # {}
  <2>1. PICK b \in breaks : col' = pos' - b /\ \A j \in breaks : j <= b
    BY <1>6, CommentFacts
  <2>2. breaks \subseteq pos .. pos' - 1
    BY DEF BreaksFrom
  <2> HIDE DEF breaks
  <2>. QED
    BY <1>2, <1>4, <2>1, <2>2, OnBreaks
<1>. QED
  BY <1>5, <1>6

\* In a string only an escaped break goes uncounted.
LEMMA HereInString ==
    ASSUME Typed, InTokenOf, Stepped, TokensBehind, TruePlace(Here), StringChar \/ (StringEscape /\ pos # Len(src))
    PROVE  TruePlace(Here)'
<1>1. tokens' = tokens /\ src' = src
  BY StringGoesOn DEF Stepped
<1>2. CASE Advance(1) /\ Ch # "\n" /\ ~AtEnd
  BY <1>1, <1>2, HereAfterOne
<1>3. CASE Advance(2) /\ Ch = "\\" /\ pos + 1 <= Len(src)
  <2>1. pos \in Nat \ {0} /\ Len(src) \in Nat /\ CursorTyped
    BY TypedFacts
  <2>2. Ch = src[pos]
    BY <1>3, <2>1, CharFacts DEF AtEnd
  <2>3. pos' = pos + 2
    BY <1>3 DEF Advance
  <2>4. CASE src[pos + 1] = "\n"
    <3>1. \A p, q \in Nat : q = p + 2 /\ p # 0 => p \in 1 .. q - 2
      OBVIOUS
    <3>2. pos \in 1 .. pos' - 2
      BY <2>1, <2>3, <3>1
    <3>3. EscapedIn(src', pos')
      BY <1>1, <1>3, <2>2, <2>4, <3>2 DEF EscapedIn
    <3>. QED
      BY <3>3, HereIs, TrueIsNext DEF TrueIn
  <2>5. CASE src[pos + 1] # "\n"
    <3>1. \A i \in pos .. pos + 2 - 1 : i = pos \/ i = pos + 1
      BY <2>1
    <3>2. \A i \in pos .. pos + 2 - 1 : src[i] # "\n"
      BY <1>3, <2>2, <2>5, <3>1
    <3>. QED
      BY <1>1, <1>3, <3>2, OnLine
  <2>. QED
    BY <2>4, <2>5
<1>. QED
  BY <1>2, <1>3, StringGoesOn

\* The place of the cursor stays true in every step.
LEMMA HereStaysTrue ==
    ASSUME Typed, InTokenOf, StartsBehind, TokensBehind, TruePlace(Here), [Next]_vars
    PROVE  TruePlace(Here)'
<1>0. Stepped
  BY EveryStep
<1>1. CASE HandleIndentation
  <2>1. Advance(After(pos, Blanks) - pos)
    BY <1>1 DEF HandleIndentation
  <2>2. "end" \notin Blanks /\ "\n" \notin Blanks /\ "\r" \notin Blanks
    BY DEF Blanks
  <2>. QED
    BY <1>0, <2>1, <2>2, HereAfterSome
<1>2. CASE SkipBlank
  <2>1. Advance(1) /\ ~AtEnd /\ Ch \in Blanks
    BY <1>2 DEF SkipBlank, Scan, InScanToken
  <2>2. Ch # "\n" /\ Ch # "\r"
    BY <2>1 DEF Blanks
  <2>. QED
    BY <1>0, <2>1, <2>2, HereAfterOne
<1>3. CASE Newline \/ CarriageReturn
  BY <1>0, <1>3, HereAfterNewline
<1>4. CASE SkipLineComment
  <2> DEFINE chars == {src[i] : i \in DOMAIN src} \ {"\n"}
  <2>1. Advance(After(pos, chars) - pos) /\ tokens' = tokens
    BY <1>4 DEF SkipLineComment, Quietly
  <2>2. "end" \notin chars /\ "\n" \notin chars
    <3>1. src \in Seq(Chars)
      BY TypedFacts
    <3>. QED
      BY <3>1 DEF Chars
  <2> HIDE DEF chars
  <2>. QED
    BY <1>0, <2>1, <2>2, HereAfterSome
<1>5. CASE SkipBlockComment
  BY <1>0, <1>5, HereAfterComment
<1>6. CASE ScanWord
  <2>1. Advance(After(pos, {"x"}) - pos)
    BY <1>6 DEF ScanWord
  <2>. QED
    BY <1>0, <2>1, HereAfterSome
<1>7. CASE ScanOperator
  BY <1>0, <1>7, HereAfterOperator
<1>8. CASE StartString
  <2>1. Advance(1) /\ ~AtEnd /\ Ch = "\"" /\ tokens' = tokens
    BY <1>8 DEF StartString, Scan, InScanToken, Quietly
  <2>2. Ch # "\n"
    BY <2>1
  <2>. QED
    BY <1>0, <2>1, <2>2, HereAfterOne
<1>9. CASE StringChar \/ (StringEscape /\ pos # Len(src))
  BY <1>0, <1>9, HereInString
<1>10. ASSUME Advance(0) PROVE TruePlace(Here)'
  <2>1. pos' = pos /\ line' = line /\ col' = col
    BY <1>10, TypedFacts DEF Advance
  <2>. QED
    BY <1>0, <2>1, HereAfterSame
<1>11. CASE (StringEscape /\ pos = Len(src)) \/ BreakString
  <2>1. tokens' = tokens /\ ((Advance(1) /\ Ch = "\\" /\ ~AtEnd) \/ Advance(0))
    BY <1>11, StringFails
  <2>2. Ch = "\\" => Ch # "\n"
    OBVIOUS
  <2>. QED
    BY <1>0, <1>10, <2>1, <2>2, HereAfterOne
<1>12. CASE EndString
  <2>1. Advance(1) /\ ~AtEnd /\ Ch = "\""
    BY <1>12, EndStringDoes
  <2>2. Ch # "\n" /\ Ch # "\r"
    BY <2>1
  <2>. QED
    BY <1>0, <2>1, <2>2, HereAfterOne
<1>13. CASE StartInterpolation
  <2>1. Advance(1) /\ ~AtEnd
    BY <1>13, StartInterpolationDoes
  <2>2. Ch # "\n" /\ Ch # "\r"
    BY <1>13, Zenon DEF StartInterpolation
  <2>. QED
    BY <1>0, <2>1, <2>2, HereAfterOne
<1>14. CASE InterpolationToken
  <2>1. pos' = pos /\ line' = line /\ col' = col
    BY <1>14, InterpolationTokenDoes
  <2>. QED
    BY <1>0, <2>1, HereAfterSame
<1>15. CASE EndInterpolation
  <2>1. Advance(1) /\ ~AtEnd
    BY <1>15, EndInterpolationDoes
  <2>2. Ch # "\n" /\ Ch # "\r"
    BY <1>15, Zenon DEF EndInterpolation
  <2>. QED
    BY <1>0, <2>1, <2>2, HereAfterOne
<1>16. CASE BreakInterpolation
  BY <1>10, <1>16 DEF BreakInterpolation
<1>17. CASE Finish \/ UNCHANGED vars
  <2>1. pos' = pos /\ line' = line /\ col' = col
    BY <1>17 DEF Finish, vars, cursor
  <2>. QED
    BY <1>0, <2>1, HereAfterSame
<1>. QED
  BY <1>1, <1>2, <1>3, <1>4, <1>5, <1>6, <1>7, <1>8, <1>9, <1>11, <1>12, <1>13, <1>14, <1>15, <1>16, <1>17 DEF Next

\* A token that stands at a place is as true as the place.
LEMMA TrueAlike ==
    ASSUME NEW s, NEW ts, NEW t, NEW at, TokenAt(t, at)
    PROVE  TrueIn(s, ts, t) <=> TrueIn(s, ts, at)
BY DEF TokenAt, TrueIn, CountedFrom

\* The place a call of scanString keeps.
LEMMA StartTyped ==
    ASSUME Typed, NEW c \in 1 .. Len(calls), calls[c].fn = "string"
    PROVE  calls[c].start \in Places /\ calls[c].start.from \in Nat
BY DEF Typed, CallsAlternate, InterpCallSet, StringCallSet, Places

\* The fields of a token.
LEMMA TokenFacts ==
    ASSUME Typed, NEW i \in 1 .. Len(tokens)
    PROVE  tokens[i] \in TokenSet /\ tokens[i].type \in Types /\ tokens[i].from \in Nat /\ tokens[i].to \in Nat
<1>1. tokens[i] \in TokenSet
  BY TypedFacts
<1>. QED
  BY <1>1 DEF TokenSet

\* Every step keeps the places true: the cursor's, the tokens' and those of open strings.
LEMMA PlacesStayTrue ==
    ASSUME Typed, InTokenOf, PlacesTrue, [Next]_vars
    PROVE  PlacesTrue'
<1>1. StartsBehind /\ TokensBehind /\ TruePlace(Here) /\ PositionsTrue
  BY DEF PlacesTrue, StartsBehind, TokensBehind
<1>2. Stepped /\ TruePlace(Here)'
  BY <1>1, EveryStep, HereStaysTrue
<1>3. /\ pos \in Nat /\ pos' \in Nat /\ pos <= pos' /\ Len(tokens) \in Nat /\ Len(tokens') \in Nat
      /\ Len(tokens) <= Len(tokens') /\ \A i \in 1 .. Len(tokens) : tokens'[i] = tokens[i]
      /\ tokens \in Seq(TokenSet)
  <2>1. pos \in Nat /\ Len(tokens) \in Nat /\ tokens \in Seq(TokenSet)
    BY TypedFacts
  <2>2. pos' \in Nat
    BY <1>2 DEF Stepped, CursorTyped
  <2>. QED
    BY <1>2, <2>1, <2>2 DEF Stepped, Extends
<1>4. \A i \in 1 .. Len(tokens') : i \in 1 .. Len(tokens) \/ i \in Len(tokens) + 1 .. Len(tokens')
  BY <1>3
<1>5. \A i \in Len(tokens) + 1 .. Len(tokens') : NewPlaced(tokens'[i])
  BY <1>2 DEF Stepped
<1>6. \A i \in 1 .. Len(tokens') : tokens'[i].from <= pos' /\ tokens'[i].to <= pos'
  <2>1. ASSUME NEW i \in 1 .. Len(tokens) PROVE tokens'[i].from <= pos' /\ tokens'[i].to <= pos'
    <3>1. tokens[i].from <= pos /\ tokens[i].to <= pos
      BY <1>1 DEF TokensBehind
    <3>2. tokens[i].from \in Nat /\ tokens[i].to \in Nat /\ tokens'[i] = tokens[i]
      BY <1>3, TokenFacts
    <3>. QED
      BY <1>3, <3>1, <3>2
  <2>2. \A i \in Len(tokens) + 1 .. Len(tokens') : tokens'[i].from <= pos' /\ tokens'[i].to <= pos'
    BY <1>5 DEF NewPlaced
  <2>. QED
    BY <1>4, <2>1, <2>2
<1>7. TrueIn(src', tokens', Here')
  BY <1>2, TrueIsNext
<1>8. ASSUME NEW at, at.from \in Nat, at.from <= pos, TruePlace(at) PROVE TrueIn(src', tokens', at)
  BY <1>2, <1>8, TrueIs, PlacesStay
<1>9. ASSUME NEW c \in 1 .. Len(calls), calls[c].fn = "string"
      PROVE  calls[c].start.from \in Nat /\ calls[c].start.from <= pos /\ TruePlace(calls[c].start)
  BY <1>9, StartTyped DEF PlacesTrue
<1>10. ASSUME NEW c \in 1 .. Len(calls'), calls'[c].fn = "string"
       PROVE  calls'[c].start.from <= pos' /\ TrueIn(src', tokens', calls'[c].start)
  <2>1. CASE calls'[c].start = Here'
    <3>1. Here'.from = pos' /\ pos' <= pos'
      BY <1>3, HereIs
    <3>. QED
      BY <1>7, <2>1, <3>1
  <2>2. CASE c \in 1 .. Len(calls) /\ calls[c].fn = "string" /\ calls'[c].start = calls[c].start
    <3>1. calls[c].start.from \in Nat /\ calls[c].start.from <= pos /\ TruePlace(calls[c].start)
      BY <1>9, <2>2
    <3>. QED
      BY <1>3, <1>8, <2>2, <3>1
  <2>. QED
    BY <1>2, <1>10, <2>1, <2>2 DEF Stepped, StartsKept
<1>11. ASSUME NEW i \in 1 .. Len(tokens'), tokens'[i].type # "NEWLINE" PROVE TrueIn(src', tokens', tokens'[i])
  <2>1. CASE i \in 1 .. Len(tokens)
    <3>1. tokens[i].from \in Nat /\ tokens'[i] = tokens[i] /\ tokens[i].from <= pos
      BY <1>1, <1>3, <2>1, TokenFacts DEF TokensBehind
    <3>2. TruePlace(tokens[i])
      BY <1>1, <1>11, <2>1, <3>1 DEF PositionsTrue
    <3>. QED
      BY <1>8, <3>1, <3>2
  <2>2. CASE i \in Len(tokens) + 1 .. Len(tokens')
    <3>1. NewPlaced(tokens'[i])
      BY <1>5, <2>2
    <3>2. CASE TokenAt(tokens'[i], Here)
      <4>1. Here.from \in Nat /\ Here.from <= pos
        BY <1>3, HereIs
      <4>2. TrueIn(src', tokens', Here)
        BY <1>1, <1>8, <4>1
      <4>. QED
        BY <3>2, <4>2, TrueAlike
    <3>3. CASE TokenAt(tokens'[i], Here')
      BY <1>7, <3>3, TrueAlike
    <3>4. CASE \E c \in 1 .. Len(calls) : calls[c].fn = "string" /\ TokenAt(tokens'[i], calls[c].start)
      <4>1. PICK c \in 1 .. Len(calls) : calls[c].fn = "string" /\ TokenAt(tokens'[i], calls[c].start)
        BY <3>4
      <4>2. TrueIn(src', tokens', calls[c].start)
        BY <1>8, <1>9, <4>1
      <4>. QED
        BY <4>1, <4>2, TrueAlike
    <3>. QED
      BY <1>11, <3>1, <3>2, <3>3, <3>4 DEF NewPlaced
  <2>. QED
    BY <1>4, <2>1, <2>2
<1>12. PositionsTrue' <=> \A i \in 1 .. Len(tokens') : tokens'[i].type = "NEWLINE" \/ TrueIn(src', tokens', tokens'[i])
  BY DEF PositionsTrue, TruePlace, TrueIn, LineBreaks, TakenForBreak, EscapedBreak, BreaksIn, TakenIn, EscapedIn,
         CountedFrom
<1>13. \A c \in 1 .. Len(calls') : TruePlace(calls[c].start)' <=> TrueIn(src', tokens', calls'[c].start)
  BY DEF TruePlace, TrueIn, LineBreaks, TakenForBreak, EscapedBreak, BreaksIn, TakenIn, EscapedIn, CountedFrom
<1>. QED
  BY <1>2, <1>6, <1>10, <1>11, <1>12, <1>13 DEF PlacesTrue

--------------------------------------------------------------------------------
\* The pieces of strings nest.

\* The functions of the first m calls, and how many of them the tokens show.
FnsOf(cs, m) == [i \in 1 .. m |-> cs[i].fn]
InPieces(cs) == cs # <<>> /\ cs[Len(cs)].fn = "string" /\ cs[Len(cs)].interp
ShownIn(cs) == IF cs # <<>> /\ cs[Len(cs)].fn = "string" /\ ~cs[Len(cs)].interp THEN Len(cs) - 1 ELSE Len(cs)
Between == {"STRING_START", "STRING_PART", "INTERP_END"}
PiecesIn(cs, ts) ==
    /\ NestingIn(ts) = FnsOf(cs, ShownIn(cs))
    /\ IF InPieces(cs) THEN LastOf(ts) = "INTERP_END" ELSE LastOf(ts) \notin Between

\* OpenCalls, by the number of calls that show in the tokens.
LEMMA OpenOf ==
    ASSUME NEW cs \in Seq(CallSet), NEW shown,
           shown = IF cs # <<>> /\ cs[Len(cs)].fn = "string" /\ ~cs[Len(cs)].interp
                   THEN SubSeq(cs, 1, Len(cs) - 1) ELSE cs
    PROVE  [i \in 1 .. Len(shown) |-> shown[i].fn] = FnsOf(cs, ShownIn(cs))
<1>1. CASE cs # <<>> /\ cs[Len(cs)].fn = "string" /\ ~cs[Len(cs)].interp
  <2>1. Len(cs) \in Nat /\ Len(cs) # 0
    BY <1>1, EmptySeq
  <2> DEFINE m == Len(cs) - 1
  <2>3. m \in Int /\ m + 1 = Len(cs) /\ 1 <= m + 1 /\ m <= Len(cs) /\ \A i \in 1 .. m : cs[i] \in CallSet
    BY <2>1
  <2> HIDE DEF m
  <2>4. Len(SubSeq(cs, 1, m)) = m /\ \A i \in 1 .. m : SubSeq(cs, 1, m)[i] = cs[i]
    BY <2>3, SubSeqProperties
  <2>. QED
    BY <1>1, <2>4 DEF FnsOf, ShownIn, m
<1>2. CASE ~(cs # <<>> /\ cs[Len(cs)].fn = "string" /\ ~cs[Len(cs)].interp)
  BY <1>2 DEF FnsOf, ShownIn
<1>. QED
  BY <1>1, <1>2

\* The definitions of the model, by functions of the tokens and the calls.
LEMMA NestingIs == Nesting = NestingIn(tokens) /\ Nesting' = NestingIn(tokens')
BY DEF Nesting, NestingIn, NestingFun, NestingStep

LEMMA LastTypeIs == LastType = LastOf(tokens) /\ LastType' = LastOf(tokens')
BY DEF LastType, LastOf

\* Pieces, by such functions, in one state and in the next.
LEMMA PiecesAre ==
    ASSUME calls \in Seq(CallSet)
    PROVE  (Nesting = OpenCalls /\ LastPiece) <=> PiecesIn(calls, tokens)
<1> DEFINE shown == IF calls # <<>> /\ calls[Len(calls)].fn = "string" /\ ~calls[Len(calls)].interp
                    THEN SubSeq(calls, 1, Len(calls) - 1) ELSE calls
<1>1. OpenCalls = [i \in 1 .. Len(shown) |-> shown[i].fn]
  BY DEF OpenCalls, Running, Top, Below
<1>2. OpenCalls = FnsOf(calls, ShownIn(calls))
  <2> HIDE DEF shown
  <2>1. [i \in 1 .. Len(shown) |-> shown[i].fn] = FnsOf(calls, ShownIn(calls))
    BY OpenOf DEF shown
  <2>. QED
    BY <1>1, <2>1
<1>3. (Running = "string" /\ Top.interp) <=> InPieces(calls)
  BY DEF Running, Top, InPieces
<1>. QED
  BY <1>2, <1>3, NestingIs, LastTypeIs DEF PiecesIn, LastPiece, Between

LEMMA PiecesAreNext ==
    ASSUME calls' \in Seq(CallSet)
    PROVE  (Nesting' = OpenCalls' /\ LastPiece') <=> PiecesIn(calls', tokens')
<1> DEFINE cs == calls'
           shown == IF cs # <<>> /\ cs[Len(cs)].fn = "string" /\ ~cs[Len(cs)].interp
                    THEN SubSeq(cs, 1, Len(cs) - 1) ELSE cs
<1>1. OpenCalls' = [i \in 1 .. Len(shown) |-> shown[i].fn]
  BY DEF OpenCalls, Running, Top, Below
<1>2. OpenCalls' = FnsOf(cs, ShownIn(cs))
  <2> HIDE DEF shown
  <2>1. [i \in 1 .. Len(shown) |-> shown[i].fn] = FnsOf(cs, ShownIn(cs))
    BY OpenOf DEF shown
  <2>. QED
    BY <1>1, <2>1
<1>3. (Running' = "string" /\ Top'.interp) <=> InPieces(cs)
  BY DEF Running, Top, InPieces
<1>. QED
  BY <1>2, <1>3, NestingIs, LastTypeIs DEF PiecesIn, LastPiece, Between

\* A sequence of functions, longer or shorter by one.
LEMMA FnsFacts ==
    ASSUME NEW cs \in Seq(CallSet), NEW m \in 0 .. Len(cs)
    PROVE  /\ FnsOf(cs, m) \in Seq({"string", "interp"}) /\ Len(FnsOf(cs, m)) = m
           /\ m > 0 => /\ FnsOf(cs, m) # <<>> /\ FnsOf(cs, m)[m] = cs[m].fn
                       /\ SubSeq(FnsOf(cs, m), 1, m - 1) = FnsOf(cs, m - 1)
           /\ m = 0 => FnsOf(cs, m) = <<>>
           /\ m < Len(cs) => Append(FnsOf(cs, m), cs[m + 1].fn) = FnsOf(cs, m + 1)
<1> DEFINE F(k) == FnsOf(cs, k)
           Fns == {"string", "interp"}
<1>1. Len(cs) \in Nat /\ m \in Nat /\ m <= Len(cs)
  OBVIOUS
<1>2. \A i \in 1 .. Len(cs) : cs[i].fn \in Fns
  BY DEF CallSet, StringCallSet, InterpCallSet
<1>3. ASSUME NEW k \in 0 .. Len(cs) PROVE F(k) \in Seq(Fns) /\ Len(F(k)) = k /\ \A i \in 1 .. k : F(k)[i] = cs[i].fn
  <2>1. \A i \in 1 .. k : i \in 1 .. Len(cs)
    BY <1>1
  <2>2. F(k) = [i \in 1 .. k |-> cs[i].fn] /\ k \in Nat
    BY <1>1 DEF FnsOf
  <2> HIDE DEF F, Fns
  <2>. QED
    BY <1>2, <2>1, <2>2
<1>4. m > 0 => SubSeq(F(m), 1, m - 1) = F(m - 1)
  <2> HAVE m > 0
  <2>1. m \in 0 .. Len(cs) /\ m - 1 \in 0 .. Len(cs) /\ m - 1 \in Int /\ 1 <= m - 1 + 1 /\ m - 1 <= m
    BY <1>1
  <2>2. /\ F(m) \in Seq(Fns) /\ Len(F(m)) = m /\ \A i \in 1 .. m : F(m)[i] = cs[i].fn
        /\ F(m - 1) \in Seq(Fns) /\ Len(F(m - 1)) = m - 1 /\ \A i \in 1 .. m - 1 : F(m - 1)[i] = cs[i].fn
    BY <1>3, <2>1
  <2> DEFINE sub == SubSeq(F(m), 1, m - 1)
  <2> HIDE DEF F, Fns
  <2>3. \A i \in 1 .. m - 1 : F(m)[i] \in Fns
    BY <2>1, <2>2
  <2>4. sub \in Seq(Fns) /\ Len(sub) = m - 1 /\ \A i \in 1 .. m - 1 : sub[i] = F(m)[i]
    BY <2>1, <2>2, <2>3, SubSeqProperties
  <2>5. \A i \in 1 .. m - 1 : i \in 1 .. m
    BY <2>1
  <2>6. \A i \in 1 .. m - 1 : sub[i] = F(m - 1)[i]
    BY <2>2, <2>4, <2>5
  <2> HIDE DEF sub
  <2>7. sub = F(m - 1)
    BY <2>2, <2>4, <2>6, SeqEqual
  <2>. QED
    BY <2>7 DEF sub
<1>5. m < Len(cs) => Append(F(m), cs[m + 1].fn) = F(m + 1)
  <2> HAVE m < Len(cs)
  <2>1. m + 1 \in 0 .. Len(cs) /\ m + 1 \in 1 .. Len(cs)
    BY <1>1
  <2>2. /\ F(m) \in Seq(Fns) /\ Len(F(m)) = m /\ \A i \in 1 .. m : F(m)[i] = cs[i].fn
        /\ F(m + 1) \in Seq(Fns) /\ Len(F(m + 1)) = m + 1 /\ \A i \in 1 .. m + 1 : F(m + 1)[i] = cs[i].fn
        /\ cs[m + 1].fn \in Fns
    BY <1>2, <1>3, <2>1
  <2> DEFINE fn == cs[m + 1].fn
             app == Append(F(m), fn)
  <2> HIDE DEF F, Fns, fn
  <2>3. /\ app \in Seq(Fns) /\ Len(app) = m + 1
        /\ \A i \in 1 .. m : app[i] = F(m)[i]
        /\ app[m + 1] = fn
    BY <2>2, AppendProperties DEF fn
  <2>4. \A i \in 1 .. m + 1 : i \in 1 .. m \/ i = m + 1
    BY <1>1
  <2>5. \A i \in 1 .. m + 1 : app[i] = F(m + 1)[i]
    BY <2>2, <2>3, <2>4 DEF fn
  <2> HIDE DEF app
  <2>6. app = F(m + 1)
    BY <2>2, <2>3, <2>5, SeqEqual
  <2>. QED
    BY <2>6 DEF app, fn
<1>6. F(m) \in Seq(Fns) /\ Len(F(m)) = m /\ \A i \in 1 .. m : F(m)[i] = cs[i].fn
  BY <1>3
<1>7. (m > 0 => F(m) # <<>> /\ F(m)[m] = cs[m].fn) /\ (m = 0 => F(m) = <<>>)
  <2> HIDE DEF F, Fns
  <2>. QED
    BY <1>1, <1>6, EmptySeq
<1>. QED
  BY <1>4, <1>5, <1>6, <1>7

\* Calls of the same functions.
LEMMA FnsSame ==
    ASSUME NEW cs, NEW ds, NEW m \in Nat, \A i \in 1 .. m : cs[i].fn = ds[i].fn
    PROVE  FnsOf(cs, m) = FnsOf(ds, m)
BY DEF FnsOf

\* What is innermost, as the tokens show it.
LEMMA ShownFacts ==
    ASSUME Typed
    PROVE  /\ Running \in {"run", "interp"} => ~InPieces(calls) /\ ShownIn(calls) = Len(calls)
           /\ Running = "string" => (InPieces(calls) <=> Top.interp)
           /\ Running = "string" /\ Top.interp => ShownIn(calls) = Len(calls)
           /\ Running = "string" /\ ~Top.interp => ShownIn(calls) = Len(calls) - 1
           /\ ShownIn(calls) \in 0 .. Len(calls) /\ Len(calls) \in Nat
<1>1. /\ Len(calls) \in Nat /\ (calls = <<>> <=> Len(calls) = 0) /\ Running \in {"run", "string", "interp"}
      /\ (Running = "run" <=> calls = <<>>)
  BY TopFacts
<1>2. calls # <<>> => Running = calls[Len(calls)].fn /\ Top = calls[Len(calls)]
  BY DEF Running, Top
<1>. QED
  BY <1>1, <1>2 DEF InPieces, ShownIn

\* The lexer's own open calls do not end with a string where a token may stand.
LEMMA InnerInterp ==
    ASSUME Typed, Running \in {"run", "interp"}
    PROVE  LET open == FnsOf(calls, ShownIn(calls)) IN open = <<>> \/ open[Len(open)] # "string"
<1>1. /\ Len(calls) \in Nat /\ (calls = <<>> <=> Len(calls) = 0) /\ (Running = "run" <=> calls = <<>>)
      /\ ShownIn(calls) = Len(calls) /\ calls \in Seq(CallSet) /\ Len(calls) \in 0 .. Len(calls)
  BY TopFacts, ShownFacts, TypedFacts
<1>2. /\ Len(FnsOf(calls, Len(calls))) = Len(calls)
      /\ Len(calls) > 0 => FnsOf(calls, Len(calls))[Len(calls)] = calls[Len(calls)].fn
      /\ Len(calls) = 0 => FnsOf(calls, Len(calls)) = <<>>
  BY <1>1, FnsFacts
<1>3. Len(calls) > 0 => calls[Len(calls)].fn = "interp"
  BY <1>1 DEF Running, Top
<1>. QED
  BY <1>1, <1>2, <1>3

\* Each kind of step keeps the pieces nested.
LEMMA PiecesOfScanned ==
    ASSUME Typed, Scanned, PiecesIn(calls, tokens)
    PROVE  PiecesIn(calls', tokens')
<1>1. /\ calls' = calls /\ tokens' \in Seq(TokenSet) /\ Extends(tokens, tokens') /\ Running \in {"run", "interp"}
      /\ \A i \in Len(tokens) + 1 .. Len(tokens') : NewToken(tokens'[i])
  BY DEF Scanned
<1>2. \A i \in Len(tokens) + 1 .. Len(tokens') : tokens'[i].type \in Plain
  BY <1>1 DEF NewToken
<1>3. /\ ~InPieces(calls) /\ NestingIn(tokens) = FnsOf(calls, ShownIn(calls)) /\ LastOf(tokens) \notin Between
  BY <1>1, ShownFacts DEF PiecesIn
<1>4. NestingIn(tokens) = <<>> \/ NestingIn(tokens)[Len(NestingIn(tokens))] # "string"
  BY <1>1, <1>3, InnerInterp
<1>5. NestingIn(tokens') = NestingIn(tokens) /\ LastOf(tokens') \notin Between
  <2>1. tokens \in Seq(TokenSet)
    BY TypedFacts
  <2>. QED
    BY <1>1, <1>2, <1>3, <1>4, <2>1, NestingOfPlain DEF Between
<1>. QED
  BY <1>1, <1>3, <1>5 DEF PiecesIn

\* The calls change, but not what the tokens show of them.
LEMMA PiecesOfCalls ==
    ASSUME NEW cs \in Seq(CallSet), NEW ds \in Seq(CallSet), NEW ts, PiecesIn(cs, ts), ShownIn(ds) = ShownIn(cs),
           InPieces(ds) <=> InPieces(cs), \A i \in 1 .. ShownIn(cs) : ds[i].fn = cs[i].fn
    PROVE  PiecesIn(ds, ts)
<1>1. FnsOf(ds, ShownIn(ds)) = FnsOf(cs, ShownIn(cs))
  BY DEF FnsOf
<1>. QED
  BY <1>1 DEF PiecesIn

LEMMA PiecesOfStart ==
    ASSUME Typed, InTokenOf, StartString, PiecesIn(calls, tokens)
    PROVE  PiecesIn(calls', tokens')
<1>1. /\ tokens' = tokens /\ Running' = "string" /\ ~Top'.interp
      /\ Running \in {"run", "interp"} /\ calls \in Seq(CallSet) /\ calls' \in Seq(CallSet) /\ Len(calls) \in Nat
      /\ Len(calls') = Len(calls) + 1 /\ \A i \in 1 .. Len(calls) : calls'[i] = calls[i]
  BY StartStringDoes, TypedFacts DEF Stepped
<1>2. calls' # <<>> /\ Top' = calls'[Len(calls')]
  BY <1>1 DEF Top
<1>3. calls'[Len(calls')].fn = "string" /\ ~calls'[Len(calls')].interp
  BY <1>1, <1>2 DEF Running
<1>4. ~InPieces(calls) /\ ~InPieces(calls') /\ ShownIn(calls) = Len(calls) /\ ShownIn(calls') = Len(calls)
  BY <1>1, <1>2, <1>3, ShownFacts DEF InPieces, ShownIn
<1>. QED
  BY <1>1, <1>4, PiecesOfCalls

LEMMA PiecesOfString ==
    ASSUME Typed, InTokenOf, StringChar \/ (StringEscape /\ pos # Len(src)), PiecesIn(calls, tokens)
    PROVE  PiecesIn(calls', tokens')
<1>1. /\ tokens' = tokens /\ Running = "string" /\ Running' = "string" /\ Top'.interp = Top.interp
      /\ Len(calls') = Len(calls) /\ \A i \in 1 .. Len(calls) - 1 : calls'[i] = calls[i]
      /\ calls' \in Seq(CallSet)
  BY StringGoesOn DEF Stepped
<1>2. calls \in Seq(CallSet) /\ Len(calls) \in Nat /\ Len(calls) > 0
  BY <1>1, TypedFacts, TopFacts
<1>3. calls # <<>> /\ calls' # <<>> /\ Top = calls[Len(calls)] /\ Top' = calls'[Len(calls)]
  BY <1>1, <1>2 DEF Top
<1>4. calls[Len(calls)].fn = "string" /\ calls'[Len(calls)].fn = "string"
  BY <1>1, <1>3 DEF Running
<1>5. ShownIn(calls') = ShownIn(calls) /\ (InPieces(calls') <=> InPieces(calls)) /\ ShownIn(calls) <= Len(calls)
  BY <1>1, <1>2, <1>3, <1>4 DEF InPieces, ShownIn
<1>6. \A i \in 1 .. Len(calls) : calls'[i].fn = calls[i].fn
  <2>1. \A i \in 1 .. Len(calls) : i \in 1 .. Len(calls) - 1 \/ i = Len(calls)
    BY <1>2
  <2>. QED
    BY <1>1, <1>4, <2>1
<1>7. \A i \in 1 .. ShownIn(calls) : i \in 1 .. Len(calls)
  BY <1>2, <1>5, ShownFacts
<1>. QED
  BY <1>1, <1>2, <1>5, <1>6, <1>7, PiecesOfCalls

LEMMA PiecesOfInterpolationToken ==
    ASSUME Typed, InTokenOf, InterpolationToken, PiecesIn(calls, tokens)
    PROVE  PiecesIn(calls', tokens')
<1>1. /\ tokens' = tokens /\ Running = "interp" /\ Running' = "interp"
      /\ Len(calls') = Len(calls) /\ \A i \in 1 .. Len(calls) - 1 : calls'[i] = calls[i]
      /\ calls' \in Seq(CallSet) /\ Len(calls) \in Nat /\ Len(calls) > 0
  BY InterpolationTokenDoes DEF Stepped
<1>2. calls \in Seq(CallSet)
  BY TypedFacts
<1>3. calls # <<>> /\ calls' # <<>> /\ Top = calls[Len(calls)] /\ Top' = calls'[Len(calls)]
  BY <1>1, <1>2 DEF Top
<1>4. calls[Len(calls)].fn = "interp" /\ calls'[Len(calls)].fn = "interp"
  BY <1>1, <1>3 DEF Running
<1>5. ShownIn(calls') = Len(calls) /\ ShownIn(calls) = Len(calls) /\ ~InPieces(calls') /\ ~InPieces(calls)
  BY <1>1, <1>2, <1>3, <1>4 DEF InPieces, ShownIn
<1>6. \A i \in 1 .. Len(calls) : calls'[i].fn = calls[i].fn
  <2>1. \A i \in 1 .. Len(calls) : i \in 1 .. Len(calls) - 1 \/ i = Len(calls)
    BY <1>1
  <2>. QED
    BY <1>1, <1>4, <2>1
<1>. QED
  BY <1>1, <1>2, <1>5, <1>6, PiecesOfCalls

\* One token is added, of this type.
LEMMA NestingOfEmitted ==
    ASSUME Typed, NEW t, OneMore(t)
    PROVE  /\ NestingIn(tokens') = Opens(NestingIn(tokens), LastOf(tokens), t.type)
           /\ LastOf(tokens') = t.type
<1>1. Len(tokens) \in Nat /\ (tokens = <<>> <=> Len(tokens) = 0)
  BY TypedFacts, EmptySeq
<1>2. /\ Extends(tokens, tokens') /\ Len(tokens') = Len(tokens) + 1 /\ Len(tokens') \in Nat
      /\ tokens'[Len(tokens')] = t /\ tokens' # <<>>
  BY <1>1, EmptySeq DEF OneMore
<1>. QED
  BY <1>1, <1>2, NestingOfOneMore DEF LastOf

LEMMA PiecesOfEndString ==
    ASSUME Typed, InTokenOf, StartsBehind, EndString, PiecesIn(calls, tokens)
    PROVE  PiecesIn(calls', tokens')
<1> DEFINE t == Token(IF Top.interp THEN "STRING_END" ELSE "STRING", Top.start, pos)
           n == Len(calls)
           open == NestingIn(tokens)
<1>1. /\ Running = "string" /\ Running' \in {"run", "interp"} /\ calls' \in Seq(CallSet)
      /\ Len(calls') = n - 1 /\ \A i \in 1 .. n - 1 : calls'[i] = calls[i]
      /\ OneMore(t)
  BY EndStringDoes DEF Stepped
<1>2. t.type = IF Top.interp THEN "STRING_END" ELSE "STRING"
  BY DEF Token
<1> HIDE DEF t
<1>3. /\ NestingIn(tokens') = Opens(open, LastOf(tokens), t.type) /\ LastOf(tokens') = t.type
  BY <1>1, NestingOfEmitted
<1>4. calls \in Seq(CallSet) /\ n \in Nat /\ n > 0 /\ n \in 0 .. n /\ n - 1 \in 0 .. n
  BY <1>1, TypedFacts, TopFacts
<1>5. ~InPieces(calls') /\ ShownIn(calls') = n - 1
  <2>1. calls' = <<>> \/ calls'[Len(calls')].fn # "string"
    BY <1>1 DEF Running, Top
  <2>. QED
    BY <1>1, <2>1 DEF InPieces, ShownIn
<1>6. FnsOf(calls', n - 1) = FnsOf(calls, n - 1)
  BY <1>1 DEF FnsOf
<1>7. LastOf(tokens') \notin Between
  BY <1>2, <1>3 DEF Between
<1>8. CASE Top.interp
  <2>1. open = FnsOf(calls, n) /\ LastOf(tokens) = "INTERP_END"
    BY <1>1, <1>8, ShownFacts DEF PiecesIn
  <2>2. Len(open) = n /\ SubSeq(open, 1, n - 1) = FnsOf(calls, n - 1)
    BY <1>4, <2>1, FnsFacts
  <2>3. t.type = "STRING_END"
    BY <1>2, <1>8
  <2> HIDE DEF open, n
  <2>4. NestingIn(tokens') = SubSeq(open, 1, n - 1)
    BY <1>3, <2>1, <2>2, <2>3 DEF Opens
  <2>. QED
    BY <1>5, <1>6, <1>7, <2>2, <2>4 DEF PiecesIn
<1>9. CASE ~Top.interp
  <2>1. open = FnsOf(calls, n - 1) /\ LastOf(tokens) \notin Between
    BY <1>1, <1>9, ShownFacts DEF PiecesIn
  <2>2. t.type = "STRING"
    BY <1>2, <1>9
  <2>3. open = <<>> \/ open[Len(open)] # "string"
    <3>1. /\ Len(open) = n - 1 /\ (n - 1 > 0 => open[n - 1] = calls[n - 1].fn) /\ (n - 1 = 0 => open = <<>>)
      BY <1>4, <2>1, FnsFacts
    <3>2. n - 1 > 0 => calls'[n - 1].fn # "string"
      <4>1. n - 1 > 0 => calls' # <<>>
        BY <1>1
      <4>. QED
        BY <1>1, <4>1 DEF Running, Top
    <3>3. n - 1 > 0 => n - 1 \in 1 .. n - 1
      BY <1>4
    <3>. QED
      BY <1>1, <1>4, <3>1, <3>2, <3>3
  <2> HIDE DEF open, n
  <2>4. NestingIn(tokens') = open
    BY <1>3, <2>1, <2>2, <2>3 DEF Opens, Between
  <2>. QED
    BY <1>5, <1>6, <1>7, <2>1, <2>4 DEF PiecesIn
<1>. QED
  BY <1>8, <1>9

LEMMA PiecesOfEndInterpolation ==
    ASSUME Typed, InTokenOf, EndInterpolation, PiecesIn(calls, tokens)
    PROVE  PiecesIn(calls', tokens')
<1> DEFINE t == Token("INTERP_END", Here, pos + 1)
           n == Len(calls)
           open == NestingIn(tokens)
<1>1. /\ Running = "interp" /\ Running' = "string" /\ Top'.interp /\ calls' \in Seq(CallSet)
      /\ Len(calls') = n - 1 /\ \A i \in 1 .. n - 2 : calls'[i] = calls[i]
      /\ n \in Nat /\ n > 1 /\ calls'[n - 1].fn = "string" /\ calls[n - 1].fn = "string" /\ Top = calls[n]
      /\ OneMore(t)
  BY EndInterpolationDoes DEF Stepped
<1>2. t.type = "INTERP_END"
  BY DEF Token
<1> HIDE DEF t
<1>3. NestingIn(tokens') = Opens(open, LastOf(tokens), t.type) /\ LastOf(tokens') = t.type
  BY <1>1, NestingOfEmitted
<1>4. calls \in Seq(CallSet) /\ n \in 0 .. n /\ n - 1 \in 0 .. n - 1
  BY <1>1, TypedFacts
<1>5. calls' # <<>> /\ Top' = calls'[Len(calls')] /\ calls # <<>>
  BY <1>1, <1>4 DEF Top
<1>6. InPieces(calls') /\ ShownIn(calls') = n - 1
  BY <1>1, <1>5 DEF InPieces, ShownIn
<1>7. open = FnsOf(calls, n) /\ calls[n].fn = "interp"
  BY <1>1, <1>5, ShownFacts DEF PiecesIn, Running
<1>8. Len(open) = n /\ open # <<>> /\ open[n] = "interp" /\ SubSeq(open, 1, n - 1) = FnsOf(calls, n - 1)
  <2>1. /\ Len(FnsOf(calls, n)) = n
        /\ n > 0 => /\ FnsOf(calls, n) # <<>> /\ FnsOf(calls, n)[n] = calls[n].fn
                    /\ SubSeq(FnsOf(calls, n), 1, n - 1) = FnsOf(calls, n - 1)
    BY <1>4, FnsFacts
  <2> HIDE DEF n, open
  <2>. QED
    BY <1>1, <1>7, <2>1
<1>9. FnsOf(calls', n - 1) = FnsOf(calls, n - 1)
  <2>1. \A i \in 1 .. n - 1 : i \in 1 .. n - 2 \/ i = n - 1
    BY <1>1
  <2>2. \A i \in 1 .. n - 1 : calls'[i].fn = calls[i].fn
    BY <1>1, <2>1
  <2>. QED
    BY <2>2 DEF FnsOf
<1> HIDE DEF open, n
<1>10. NestingIn(tokens') = SubSeq(open, 1, n - 1)
  BY <1>2, <1>3, <1>8 DEF Opens
<1>. QED
  BY <1>2, <1>3, <1>6, <1>8, <1>9, <1>10 DEF PiecesIn

LEMMA PiecesOfStartInterpolation ==
    ASSUME Typed, InTokenOf, StartsBehind, StartInterpolation, PiecesIn(calls, tokens)
    PROVE  PiecesIn(calls', tokens')
<1> DEFINE n == Len(calls)
           m == Len(tokens)
           open == NestingIn(tokens)
           mid == Append(tokens, tokens'[m + 1])
<1>1. /\ Running = "string" /\ Running' = "interp" /\ calls' \in Seq(CallSet)
      /\ Len(tokens') = m + 2 /\ tokens' \in Seq(TokenSet) /\ Extends(tokens, tokens')
      /\ tokens'[m + 1] = Token(PieceType, Top.start, pos) /\ tokens'[m + 2] = Token("INTERP_START", Here, pos + 1)
      /\ Len(calls') = n + 1 /\ \A i \in 1 .. n - 1 : calls'[i] = calls[i]
      /\ calls'[n].fn = "string" /\ n \in Nat /\ n > 0 /\ Top = calls[n]
  BY StartInterpolationDoes, Zenon DEF Stepped
<1>2. tokens'[m + 1].type = PieceType /\ tokens'[m + 2].type = "INTERP_START"
  BY <1>1 DEF Token
<1>3. m \in Nat /\ (tokens = <<>> <=> m = 0) /\ tokens \in Seq(TokenSet) /\ calls \in Seq(CallSet)
  BY TypedFacts, EmptySeq
<1>4. tokens'[m + 1] \in TokenSet
  BY <1>1, <1>3
<1>5. Len(mid) = m + 1 /\ mid[m + 1] = tokens'[m + 1] /\ \A i \in 1 .. m : mid[i] = tokens[i]
  BY <1>3, <1>4, AppendProperties
<1>6. mid # <<>>
  BY <1>3, <1>5, EmptySeq
<1> HIDE DEF mid
<1>7. Extends(tokens, mid) /\ Extends(mid, tokens')
  <2>1. \A i \in 1 .. m + 1 : i \in 1 .. m \/ i = m + 1
    BY <1>3
  <2>2. \A i \in 1 .. m : tokens'[i] = tokens[i]
    BY <1>1 DEF Extends
  <2>. QED
    BY <1>1, <1>3, <1>5, <2>1, <2>2 DEF Extends
<1>8. NestingIn(mid) = Opens(open, LastOf(tokens), PieceType) /\ LastOf(mid) = PieceType
  <2>1. mid[Len(mid)].type = PieceType
    BY <1>2, <1>5
  <2>. QED
    BY <1>3, <1>5, <1>6, <1>7, <2>1, NestingOfOneMore DEF LastOf
<1>9. NestingIn(tokens') = Opens(NestingIn(mid), PieceType, "INTERP_START")
  <2>1. /\ Len(mid) \in Nat /\ Len(tokens') = Len(mid) + 1 /\ (mid = <<>> <=> Len(mid) = 0)
        /\ tokens'[Len(tokens')].type = "INTERP_START"
    BY <1>1, <1>2, <1>3, <1>5, <1>6
  <2>. QED
    BY <1>7, <1>8, <2>1, NestingOfOneMore
<1>10. LastOf(tokens') = "INTERP_START"
  <2>1. tokens' # <<>>
    BY <1>1, <1>3, EmptySeq
  <2>. QED
    BY <1>1, <1>2, <2>1 DEF LastOf
<1>11. calls'[n + 1].fn = "interp" /\ calls[n].fn = "string"
  <2>1. calls' # <<>> /\ Top' = calls'[n + 1] /\ calls # <<>>
    BY <1>1, <1>3, EmptySeq DEF Top
  <2>. QED
    BY <1>1, <2>1 DEF Running
<1>12. ~InPieces(calls') /\ ShownIn(calls') = n + 1
  BY <1>1, <1>11 DEF InPieces, ShownIn
<1>13. FnsOf(calls', n) = FnsOf(calls, n)
  <2>1. \A i \in 1 .. n : i \in 1 .. n - 1 \/ i = n
    BY <1>1
  <2>2. \A i \in 1 .. n : calls'[i].fn = calls[i].fn
    BY <1>1, <1>11, <2>1
  <2>. QED
    BY <2>2 DEF FnsOf
<1>14. FnsOf(calls', n + 1) = Append(FnsOf(calls, n), "interp")
  <2>1. n \in 0 .. Len(calls') /\ n < Len(calls')
    BY <1>1
  <2>. QED
    BY <1>1, <1>11, <1>13, <2>1, FnsFacts
<1>15. NestingIn(mid) = FnsOf(calls, n) /\ PieceType \in {"STRING_START", "STRING_PART"}
  <2>1. CASE Top.interp
    <3>1. open = FnsOf(calls, n) /\ LastOf(tokens) = "INTERP_END"
      BY <1>1, <2>1, ShownFacts DEF PiecesIn
    <3>2. PieceType \in {"STRING_START", "STRING_PART"}
      BY DEF PieceType
    <3>3. Opens(open, "INTERP_END", PieceType) = open
      BY <3>2 DEF Opens
    <3>. QED
      BY <1>8, <3>1, <3>2, <3>3
  <2>2. CASE ~Top.interp
    <3>1. open = FnsOf(calls, n - 1) /\ LastOf(tokens) \notin Between
      BY <1>1, <2>2, ShownFacts DEF PiecesIn
    <3>2. PieceType = "STRING_START"
      BY <3>1, LastTypeIs DEF PieceType, Between
    <3>3. Opens(open, LastOf(tokens), "STRING_START") = Append(open, "string")
      BY <3>1 DEF Opens, Between
    <3>4. Append(FnsOf(calls, n - 1), "string") = FnsOf(calls, n)
      <4>1. n - 1 \in 0 .. Len(calls) /\ n - 1 < Len(calls) /\ n - 1 + 1 = n
        BY <1>1
      <4>2. Append(FnsOf(calls, n - 1), calls[n - 1 + 1].fn) = FnsOf(calls, n - 1 + 1)
        BY <1>3, <4>1, FnsFacts
      <4> HIDE DEF n
      <4>. QED
        BY <1>11, <4>1, <4>2
    <3>. QED
      BY <1>8, <3>1, <3>2, <3>3, <3>4
  <2>. QED
    BY <2>1, <2>2
<1>16. Opens(NestingIn(mid), PieceType, "INTERP_START") = Append(NestingIn(mid), "interp")
  BY <1>15 DEF Opens
<1>. QED
  BY <1>9, <1>10, <1>12, <1>14, <1>15, <1>16 DEF PiecesIn, Between

\* Every step keeps the pieces nested.
LEMMA PiecesStay ==
    ASSUME Typed, InTokenOf, StartsBehind, Pieces, [Next]_vars
    PROVE  Pieces'
<1>1. calls' \in Seq(CallSet) /\ calls \in Seq(CallSet) /\ errors \in Seq(Problems)
  BY EveryStep, TypedFacts DEF Stepped
<1>2. SUFFICES ASSUME errors' = <<>> PROVE PiecesIn(calls', tokens')
  BY <1>1, PiecesAreNext DEF Pieces
<1>3. errors = <<>> => PiecesIn(calls, tokens)
  BY <1>1, PiecesAre DEF Pieces
<1>4. CASE HandleIndentation \/ ScanRound \/ Finish
  <2>1. Scanned
    BY <1>4, RoundsScan
  <2>. QED
    BY <1>2, <1>3, <2>1, PiecesOfScanned DEF Scanned
<1>5. CASE StartString
  BY <1>2, <1>3, <1>5, StartStringDoes, PiecesOfStart
<1>6. CASE StringChar \/ (StringEscape /\ pos # Len(src))
  BY <1>2, <1>3, <1>6, StringGoesOn, PiecesOfString
<1>7. CASE (StringEscape /\ pos = Len(src)) \/ BreakString
  BY <1>2, <1>7, StringFails
<1>8. CASE EndString
  BY <1>2, <1>3, <1>8, EndStringDoes, PiecesOfEndString
<1>9. CASE StartInterpolation
  <2>1. errors' = errors
    BY <1>9 DEF StartInterpolation, Emit
  <2>. QED
    BY <1>2, <1>3, <1>9, <2>1, PiecesOfStartInterpolation
<1>10. CASE InterpolationToken
  BY <1>2, <1>3, <1>10, InterpolationTokenDoes, PiecesOfInterpolationToken
<1>11. CASE EndInterpolation
  <2>1. errors' = errors
    BY <1>11 DEF EndInterpolation, Emit
  <2>. QED
    BY <1>2, <1>3, <1>11, <2>1, PiecesOfEndInterpolation
<1>12. CASE BreakInterpolation
  BY <1>2, <1>12, BreakInterpolationDoes
<1>13. CASE UNCHANGED vars
  BY <1>2, <1>3, <1>13 DEF vars
<1>. QED
  BY <1>4, <1>5, <1>6, <1>7, <1>8, <1>9, <1>10, <1>11, <1>12, <1>13 DEF Next, ScanRound

--------------------------------------------------------------------------------
\* Interpolations and their tokens.

LastIn(cs, ts, c) == IF c + 2 <= Len(cs) THEN cs[c + 2].since - 1 ELSE Len(ts)
InterpTokensIn(cs, ts, p, c) ==
    /\ cs[c].since \in 1 .. LastIn(cs, ts, c) /\ LastIn(cs, ts, c) <= Len(ts)
    /\ ts[cs[c].since].from < p
    /\ c + 2 <= Len(cs) => ts[cs[c].since].from <= ts[cs[c + 2].since].from

\* InterpTokens, by a function of the calls and the tokens.
LEMMA InterpTokensIs ==
    /\ InterpTokens <=> \A c \in 1 .. Len(calls) : calls[c].fn = "interp" => InterpTokensIn(calls, tokens, pos, c)
    /\ InterpTokens' <=>
          \A c \in 1 .. Len(calls') : calls'[c].fn = "interp" => InterpTokensIn(calls', tokens', pos', c)
BY DEF InterpTokens, InterpTokensIn, First, Last, LastIn

\* The call at c is the same one, though its depth may be another.
InterpKept(c) ==
    /\ c \in 1 .. Len(calls) /\ calls[c].fn = "interp" /\ calls'[c].since = calls[c].since
    /\ c + 2 <= Len(calls') => c + 2 <= Len(calls)

\* Behind a call of scanInterpolation is every second one.
LEMMA InterpAbove ==
    ASSUME NEW cs \in Seq(CallSet), CallsAlternate(cs), NEW c \in 1 .. Len(cs), cs[c].fn = "interp"
    PROVE  /\ c % 2 = 0 /\ c \in Nat /\ cs[c].since \in Nat /\ cs[c].depth \in Nat
           /\ c + 2 <= Len(cs) => c + 2 \in 1 .. Len(cs) /\ cs[c + 2].fn = "interp" /\ cs[c + 2].since \in Nat
<1>1. c \in Nat /\ c % 2 # 1 /\ Len(cs) \in Nat /\ c <= Len(cs)
  BY InterpsAreEven
<1>2. c % 2 = 0 /\ (c + 2) % 2 = 0
  BY <1>1, Parity
<1>3. \A i \in 1 .. Len(cs) : i % 2 = 0 => cs[i] \in InterpCallSet
  <2>1. \A i \in 1 .. Len(cs) : IF i % 2 = 1 THEN cs[i] \in StringCallSet ELSE cs[i] \in InterpCallSet
    BY DEF CallsAlternate
  <2>. QED
    BY <2>1
<1>4. \A i \in 1 .. Len(cs) : i % 2 = 0 => cs[i].fn = "interp" /\ cs[i].since \in Nat /\ cs[i].depth \in Nat
  BY <1>3 DEF InterpCallSet
<1>5. c + 2 <= Len(cs) => c + 2 \in 1 .. Len(cs)
  BY <1>1
<1>. QED
  BY <1>1, <1>2, <1>4, <1>5

\* A call that goes on keeps its tokens.
LEMMA InterpTokensKept ==
    ASSUME Typed, Stepped, InterpTokens, NEW c \in 1 .. Len(calls'), calls'[c].fn = "interp", InterpKept(c),
           c + 2 <= Len(calls') => calls'[c + 2].since = calls[c + 2].since
    PROVE  InterpTokensIn(calls', tokens', pos', c)
<1>1. /\ calls \in Seq(CallSet) /\ CallsAlternate(calls) /\ calls' \in Seq(CallSet) /\ CallsAlternate(calls')
      /\ Len(calls) \in Nat /\ Len(tokens) \in Nat /\ Len(tokens') \in Nat /\ Len(tokens) <= Len(tokens')
      /\ pos \in Nat /\ pos' \in Nat /\ pos <= pos'
      /\ \A i \in 1 .. Len(tokens) : tokens'[i] = tokens[i]
  <2>1. pos' \in Nat
    BY DEF Stepped, CursorTyped
  <2>. QED
    BY <2>1, TypedFacts DEF Stepped, Extends
<1>2. /\ calls[c].fn = "interp" /\ c \in 1 .. Len(calls) /\ calls'[c].since = calls[c].since
      /\ c + 2 <= Len(calls') => calls'[c + 2].since = calls[c + 2].since /\ c + 2 <= Len(calls)
  BY DEF InterpKept
<1>3. /\ calls[c].since \in 1 .. LastIn(calls, tokens, c) /\ LastIn(calls, tokens, c) <= Len(tokens)
      /\ tokens[calls[c].since].from < pos
      /\ c + 2 <= Len(calls) => tokens[calls[c].since].from <= tokens[calls[c + 2].since].from
  BY <1>2, InterpTokensIs DEF InterpTokensIn
<1>4. /\ calls[c].since \in Nat
      /\ c + 2 <= Len(calls) => c + 2 \in 1 .. Len(calls) /\ calls[c + 2].fn = "interp" /\ calls[c + 2].since \in Nat
  BY <1>1, <1>2, InterpAbove
<1>5. LastIn(calls, tokens, c) \in Int /\ calls[c].since \in 1 .. Len(tokens)
  BY <1>1, <1>3, <1>4 DEF LastIn
<1>6. c + 2 <= Len(calls) => calls[c + 2].since \in 1 .. Len(tokens)
  <2> HAVE c + 2 <= Len(calls)
  <2>1. /\ calls[c + 2].since \in 1 .. LastIn(calls, tokens, c + 2) /\ LastIn(calls, tokens, c + 2) <= Len(tokens)
    BY <1>4, InterpTokensIs DEF InterpTokensIn
  <2>2. LastIn(calls, tokens, c + 2) \in Int
    <3>1. c + 2 + 2 <= Len(calls) => calls[c + 2 + 2].since \in Nat
      BY <1>1, <1>4, InterpAbove
    <3>. QED
      BY <1>1, <3>1 DEF LastIn
  <2>. QED
    BY <1>1, <1>4, <2>1, <2>2
<1>7. calls[c].since <= LastIn(calls', tokens', c) /\ LastIn(calls', tokens', c) <= Len(tokens')
      /\ LastIn(calls', tokens', c) \in Int
  <2>1. CASE c + 2 <= Len(calls')
    <3>1. LastIn(calls', tokens', c) = LastIn(calls, tokens, c)
      BY <1>2, <2>1 DEF LastIn
    <3>. QED
      BY <1>1, <1>3, <1>5, <3>1
  <2>2. CASE ~(c + 2 <= Len(calls'))
    <3>1. LastIn(calls', tokens', c) = Len(tokens')
      BY <2>2 DEF LastIn
    <3>. QED
      BY <1>1, <1>3, <1>5, <3>1
  <2>. QED
    BY <2>1, <2>2
<1>8. tokens'[calls[c].since].from < pos'
  <2>1. tokens'[calls[c].since] = tokens[calls[c].since] /\ tokens[calls[c].since].from \in Nat
    BY <1>1, <1>5, TokenFacts
  <2>. QED
    BY <1>1, <1>3, <2>1
<1>9. c + 2 <= Len(calls') => tokens'[calls[c].since].from <= tokens'[calls[c + 2].since].from
  BY <1>1, <1>2, <1>3, <1>5, <1>6
<1>10. calls[c].since \in 1 .. LastIn(calls', tokens', c)
  BY <1>4, <1>5, <1>7
<1>. QED
  BY <1>2, <1>7, <1>8, <1>9, <1>10 DEF InterpTokensIn

\* All calls of scanInterpolation are kept but where one is made.
LEMMA InterpsKept ==
    ASSUME Typed, InTokenOf, StartsBehind, [Next]_vars, ~StartInterpolation
    PROVE  \A c \in 1 .. Len(calls') : calls'[c].fn = "interp" => InterpKept(c)
<1>1. calls \in Seq(CallSet) /\ CallsAlternate(calls) /\ Len(calls) \in Nat
  BY TypedFacts
<1>2. Stepped /\ calls' \in Seq(CallSet) /\ CallsAlternate(calls')
  BY EveryStep DEF Stepped
<1>3. CASE SameInterps
  <2>1. ASSUME NEW c \in 1 .. Len(calls'), calls'[c].fn = "interp" PROVE InterpKept(c)
    BY <1>3, <2>1 DEF SameInterps, InterpKept
  <2>. QED
    BY <2>1
<1>4. CASE calls' = calls
  BY <1>4 DEF InterpKept
<1>5. CASE InterpolationToken
  <2>1. /\ Len(calls') = Len(calls) /\ \A i \in 1 .. Len(calls) - 1 : calls'[i] = calls[i]
        /\ calls'[Len(calls)] = [Top EXCEPT !.depth = Counted(Top.depth)]
        /\ Top = calls[Len(calls)] /\ Top \in InterpCallSet /\ Len(calls) \in Nat
    BY <1>5, InterpolationTokenDoes
  <2>2. calls'[Len(calls)].since = calls[Len(calls)].since /\ calls[Len(calls)].fn = "interp"
    <3>1. [Top EXCEPT !.depth = Counted(Top.depth)].since = Top.since /\ Top.fn = "interp"
      BY <2>1 DEF InterpCallSet
    <3>. QED
      BY <2>1, <3>1
  <2>3. \A c \in 1 .. Len(calls) : c \in 1 .. Len(calls) - 1 \/ c = Len(calls)
    BY <2>1
  <2>. QED
    BY <2>1, <2>2, <2>3 DEF InterpKept
<1>6. CASE EndInterpolation \/ BreakInterpolation
  <2>1. /\ Len(calls') = Len(calls) - 1 /\ \A i \in 1 .. Len(calls) - 2 : calls'[i] = calls[i]
        /\ Len(calls) > 1 /\ calls'[Len(calls) - 1].fn = "string"
    BY <1>6, EndInterpolationDoes, BreakInterpolationDoes
  <2>2. \A c \in 1 .. Len(calls') : c \in 1 .. Len(calls) /\ (c \in 1 .. Len(calls) - 2 \/ c = Len(calls) - 1)
    BY <1>1, <2>1
  <2>3. \A c \in 1 .. Len(calls') : c + 2 <= Len(calls') => c + 2 <= Len(calls)
    BY <1>1, <2>1
  <2>4. \A c \in 1 .. Len(calls') : calls'[c].fn = "interp" => c \in 1 .. Len(calls) - 2
    <3>1. "string" # "interp"
      OBVIOUS
    <3>. QED
      BY <2>1, <2>2, <3>1
  <2>. QED
    BY <2>1, <2>2, <2>3, <2>4 DEF InterpKept
<1>7. CASE HandleIndentation \/ ScanRound \/ Finish
  BY <1>4, <1>7, RoundsScan DEF Scanned
<1>8. CASE StartString \/ EndString
  BY <1>3, <1>8, StartStringDoes, EndStringDoes
<1>9. CASE StringChar \/ (StringEscape /\ pos # Len(src))
  BY <1>3, <1>9, StringGoesOn
<1>10. CASE (StringEscape /\ pos = Len(src)) \/ BreakString
  BY <1>3, <1>10, StringFails
<1>11. CASE UNCHANGED vars
  BY <1>4, <1>11 DEF vars
<1>. QED
  BY <1>5, <1>6, <1>7, <1>8, <1>9, <1>10, <1>11 DEF Next, ScanRound

\* Every step keeps the tokens of open interpolations apart.
LEMMA InterpTokensStay ==
    ASSUME Typed, InTokenOf, StartsBehind, InterpTokens, [Next]_vars
    PROVE  InterpTokens'
<1>1. /\ Stepped /\ calls' \in Seq(CallSet) /\ CallsAlternate(calls')
  BY EveryStep DEF Stepped
<1>2. CASE ~StartInterpolation
  <2>1. \A c \in 1 .. Len(calls') : calls'[c].fn = "interp" => InterpKept(c)
    BY <1>2, InterpsKept
  <2>2. ASSUME NEW c \in 1 .. Len(calls'), calls'[c].fn = "interp" PROVE InterpTokensIn(calls', tokens', pos', c)
    <3>1. c + 2 <= Len(calls') => calls'[c + 2].since = calls[c + 2].since
      BY <1>1, <2>1, <2>2, InterpAbove DEF InterpKept
    <3>. QED
      BY <1>1, <2>1, <2>2, <3>1, InterpTokensKept
  <2>. QED
    BY <2>2, InterpTokensIs
<1>3. CASE StartInterpolation
  <2> DEFINE n == Len(calls)
             m == Len(tokens)
  <2>1. /\ Len(tokens') = m + 2 /\ tokens'[m + 2] = Token("INTERP_START", Here, pos + 1)
        /\ Len(calls') = n + 1 /\ \A i \in 1 .. n - 1 : calls'[i] = calls[i]
        /\ calls'[n].fn = "string" /\ calls'[n + 1] = InterpCall(1, m + 2)
        /\ n \in Nat /\ n > 0 /\ n % 2 = 1
    BY <1>3, StartInterpolationDoes, Zenon
  <2>2. m \in Nat /\ pos \in Nat /\ calls \in Seq(CallSet) /\ CallsAlternate(calls)
    BY TypedFacts
  <2>3. pos' = pos + 1
    BY <1>3, Zenon DEF StartInterpolation, Advance
  <2>4. calls'[n + 1].since = m + 2 /\ tokens'[m + 2].from = pos /\ ~(n + 1 + 2 <= Len(calls'))
    BY <2>1 DEF InterpCall, Token, Here
  <2>5. InterpTokensIn(calls', tokens', pos', n + 1)
    BY <2>1, <2>2, <2>3, <2>4 DEF InterpTokensIn, LastIn
  <2>6. ASSUME NEW c \in 1 .. n - 1, calls'[c].fn = "interp" PROVE InterpTokensIn(calls', tokens', pos', c)
    <3>1. c \in 1 .. n /\ c \in Nat /\ calls'[c] = calls[c] /\ c \in 1 .. Len(calls')
      BY <2>1
    <3>2. c % 2 = 0 /\ calls[c].since \in Nat
      BY <2>2, <2>6, <3>1, InterpAbove
    <3>3. CASE c + 2 <= n
      <4>1. c + 2 # n
        <5>1. (c + 2) % 2 = 0
          BY <3>1, <3>2, Parity
        <5>2. 0 # 1
          OBVIOUS
        <5>. QED
          BY <2>1, <5>1, <5>2, Zenon
      <4>2. c + 2 \in 1 .. n - 1
        BY <2>1, <3>1, <3>3, <4>1
      <4>3. c + 2 <= Len(calls') => calls'[c + 2].since = calls[c + 2].since
        BY <2>1, <4>2
      <4>4. InterpKept(c)
        BY <2>6, <3>1, <3>3 DEF InterpKept
      <4>. QED
        BY <1>1, <2>6, <3>1, <4>3, <4>4, InterpTokensKept
    <3>4. CASE ~(c + 2 <= n)
      <4>1. c + 2 = n + 1
        BY <2>1, <3>1, <3>4
      <4>2. calls[c].since \in 1 .. m /\ tokens[calls[c].since].from < pos
        BY <2>6, <3>1, <3>4, InterpTokensIs DEF InterpTokensIn, LastIn
      <4>3. tokens'[calls[c].since] = tokens[calls[c].since] /\ tokens[calls[c].since].from \in Nat
        BY <1>1, <4>2, TokenFacts DEF Stepped, Extends
      <4>4. LastIn(calls', tokens', c) = m + 1
        <5>1. c + 2 <= Len(calls') /\ calls'[c + 2].since = m + 2
          BY <2>1, <2>4, <4>1
        <5>. QED
          BY <2>2, <5>1 DEF LastIn
      <4>5. calls'[c + 2].since = m + 2 /\ calls'[c].since = calls[c].since
        BY <2>4, <3>1, <4>1
      <4> HIDE DEF m, n
      <4>6. calls[c].since \in 1 .. m + 1 /\ m + 1 <= Len(tokens')
        BY <2>1, <2>2, <4>2
      <4>7. tokens'[calls[c].since].from < pos' /\ tokens'[calls[c].since].from <= tokens'[m + 2].from
        BY <2>2, <2>3, <2>4, <4>2, <4>3
      <4>. QED
        BY <4>4, <4>5, <4>6, <4>7 DEF InterpTokensIn
    <3>. QED
      BY <3>3, <3>4
  <2>7. \A c \in 1 .. Len(calls') : c \in 1 .. n - 1 \/ c = n \/ c = n + 1
    BY <2>1
  <2>8. ASSUME NEW c \in 1 .. Len(calls'), calls'[c].fn = "interp" PROVE InterpTokensIn(calls', tokens', pos', c)
    <3>1. c # n
      BY <2>1, <2>8
    <3>. QED
      BY <2>5, <2>6, <2>7, <2>8, <3>1
  <2>. QED
    BY <2>8, InterpTokensIs
<1>. QED
  BY <1>2, <1>3

\* The tokens of a type are those there were and the new ones.
LEMMA CountAdded ==
    ASSUME NEW s, NEW t, NEW type, Len(s) \in Nat, Len(t) \in Nat, Extends(s, t)
    PROVE  /\ CountIn(t, type, 1, Len(t)) = CountIn(s, type, 1, Len(s)) + CountIn(t, type, Len(s) + 1, Len(t))
           /\ CountIn(s, type, 1, Len(s)) \in Nat /\ CountIn(t, type, Len(s) + 1, Len(t)) \in Nat
<1> DEFINE m == Len(s)
           n == Len(t)
<1>1. m \in Nat /\ n \in Nat /\ m <= n /\ \A i \in 1 .. m : t[i] = s[i]
  BY DEF Extends
<1> HIDE DEF m, n
<1>2. CountIn(t, type, 1, m) = CountIn(s, type, 1, m)
  BY <1>1, CountSame
<1>3. CountIn(t, type, 1, n) = CountIn(t, type, 1, m) + CountIn(t, type, m + 1, n)
  <2>1. 1 \in Int /\ m \in Int /\ n \in Int /\ 1 <= m + 1
    BY <1>1
  <2>. QED
    BY <1>1, <2>1, CountSplit
<1>4. CountIn(s, type, 1, m) \in Nat /\ CountIn(t, type, m + 1, n) \in Nat
  <2>1. 1 \in Int /\ m \in Int /\ n \in Int /\ m + 1 \in Int
    BY <1>1
  <2>. QED
    BY <2>1, CountType
<1>. QED
  BY <1>2, <1>3, <1>4 DEF m, n

\* New tokens that are of another type, and one that is of this type.
LEMMA CountAddedNone ==
    ASSUME NEW s, NEW t, NEW type, Len(s) \in Nat, Len(t) \in Nat, Extends(s, t),
           \A i \in Len(s) + 1 .. Len(t) : t[i].type # type
    PROVE  CountIn(t, type, 1, Len(t)) = CountIn(s, type, 1, Len(s))
<1>1. CountIn(t, type, Len(s) + 1, Len(t)) = 0
  BY CountNone
<1>. QED
  BY <1>1, CountAdded

LEMMA CountAddedOne ==
    ASSUME Typed, NEW t, OneMore(t), NEW type
    PROVE  /\ CountIn(tokens', type, 1, Len(tokens'))
                = CountIn(tokens, type, 1, Len(tokens)) + IF t.type = type THEN 1 ELSE 0
           /\ CountIn(tokens, type, 1, Len(tokens)) \in Nat
<1>1. Len(tokens) \in Nat /\ Len(tokens') = Len(tokens) + 1 /\ tokens'[Len(tokens) + 1] = t /\ Extends(tokens, tokens')
  BY TypedFacts DEF OneMore
<1>2. CountIn(tokens', type, Len(tokens) + 1, Len(tokens) + 1) = IF t.type = type THEN 1 ELSE 0
  <2>1. Len(tokens) + 1 \in Int
    BY <1>1
  <2>2. CountIn(tokens', type, Len(tokens) + 1, Len(tokens) + 1) =
            IF tokens'[Len(tokens) + 1].type = type THEN 1 ELSE 0
    BY <2>1, CountOne
  <2>. QED
    BY <1>1, <2>2
<1>3. Len(tokens') \in Nat
  BY <1>1
<1>. QED
  BY <1>1, <1>2, <1>3, CountAdded

\* How many interpolations the tokens leave open.
CountedIn(cs, ts) ==
    CountIn(ts, "INTERP_START", 1, Len(ts)) = CountIn(ts, "INTERP_END", 1, Len(ts)) + Len(cs) \div 2

\* InterpsCounted, by a function of the calls and the tokens.
LEMMA InterpsCountedIs ==
    /\ InterpsCounted <=> (errors = <<>> \/ ~AtEnd => CountedIn(calls, tokens))
    /\ InterpsCounted' <=> (errors' = <<>> \/ ~AtEnd' => CountedIn(calls', tokens'))
BY DEF InterpsCounted, CountedIn, Count, CountIn, OfType

\* A step without a boundary of an interpolation keeps them counted.
LEMMA CountedOfNone ==
    ASSUME Typed, Stepped, CountedIn(calls, tokens), Len(calls') \div 2 = Len(calls) \div 2,
           \A i \in Len(tokens) + 1 .. Len(tokens') : tokens'[i].type \notin {"INTERP_START", "INTERP_END"}
    PROVE  CountedIn(calls', tokens')
<1>1. Len(tokens) \in Nat /\ Len(tokens') \in Nat /\ Extends(tokens, tokens')
  BY TypedFacts DEF Stepped
<1>2. \A type \in {"INTERP_START", "INTERP_END"} :
          CountIn(tokens', type, 1, Len(tokens')) = CountIn(tokens, type, 1, Len(tokens))
  BY <1>1, CountAddedNone
<1>. QED
  BY <1>2 DEF CountedIn

\* The half of a number is that of its odd neighbour above.
LEMMA Halves ==
    ASSUME NEW n \in Nat, n > 0
    PROVE  /\ n % 2 = 1 => n \div 2 = (n - 1) \div 2 /\ (n + 1) \div 2 = n \div 2 + 1
           /\ n % 2 = 0 => (n - 1) \div 2 + 1 = n \div 2
           /\ n \div 2 \in Nat /\ (n - 1) \div 2 \in Nat
<1>. QED
  OBVIOUS

LEMMA NoneNewTokens ==
    ASSUME Typed, tokens' = tokens
    PROVE  Len(tokens) + 1 .. Len(tokens') = {}
<1>1. \A m \in Nat : m + 1 .. m = {}
  OBVIOUS
<1>. QED
  BY <1>1, TypedFacts

\* Every step keeps the number of interpolations that is open.
LEMMA InterpsStayCounted ==
    ASSUME Typed, InTokenOf, StartsBehind, InterpsCounted, [Next]_vars
    PROVE  InterpsCounted'
<1>1. Stepped /\ Len(calls) \in Nat /\ Len(tokens) \in Nat /\ Len(tokens') \in Nat /\ Extends(tokens, tokens')
  BY EveryStep, TypedFacts DEF Stepped
<1>2. SUFFICES ASSUME errors' = <<>> \/ ~AtEnd' PROVE CountedIn(calls', tokens')
  BY InterpsCountedIs
<1>3. errors = <<>> \/ ~AtEnd' => CountedIn(calls, tokens)
  <2>1. ~AtEnd' => ~AtEnd
    <3>1. pos \in Nat /\ pos' \in Nat /\ pos <= pos' /\ src' = src /\ Len(src) \in Nat
      BY <1>1, TypedFacts DEF Stepped, CursorTyped
    <3>. QED
      BY <3>1 DEF AtEnd
  <2>. QED
    BY <2>1, InterpsCountedIs
<1>4. ASSUME errors = <<>> \/ ~AtEnd', tokens' = tokens, Len(calls') \div 2 = Len(calls) \div 2
      PROVE  CountedIn(calls', tokens')
  BY <1>1, <1>3, <1>4, CountedOfNone, NoneNewTokens
<1>5. CASE HandleIndentation \/ ScanRound \/ Finish
  <2>1. Scanned
    BY <1>5, RoundsScan
  <2>2. \A i \in Len(tokens) + 1 .. Len(tokens') : tokens'[i].type \notin {"INTERP_START", "INTERP_END"}
    BY <2>1 DEF Scanned, NewToken, Plain
  <2>3. calls' = calls /\ (errors = <<>> \/ ~AtEnd')
    BY <1>2, <2>1 DEF Scanned
  <2>. QED
    BY <1>1, <1>3, <2>2, <2>3, CountedOfNone
<1>6. CASE StartString
  <2>1. Len(calls') = Len(calls) + 1 /\ Len(calls) % 2 = 0 /\ errors' = errors /\ tokens' = tokens
    BY <1>6, StartStringDoes
  <2>2. Len(calls') \div 2 = Len(calls) \div 2
    BY <1>1, <2>1, Parity
  <2>. QED
    BY <1>2, <1>4, <2>1, <2>2
<1>7. CASE StringChar \/ (StringEscape /\ pos # Len(src))
  <2>1. Len(calls') = Len(calls) /\ errors' = errors /\ tokens' = tokens
    BY <1>7, StringGoesOn
  <2>. QED
    BY <1>2, <1>4, <2>1
<1>8. CASE (StringEscape /\ pos = Len(src)) \/ BreakString
  <2>1. Len(calls') = Len(calls) - 1 /\ errors' # <<>> /\ tokens' = tokens /\ Running = "string"
    BY <1>8, StringFails
  <2>2. Len(calls) % 2 = 1 /\ Len(calls) > 0
    BY <2>1, TopFacts
  <2>3. Len(calls') \div 2 = Len(calls) \div 2
    BY <1>1, <2>1, <2>2, Halves
  <2>. QED
    BY <1>2, <1>4, <2>1, <2>3
<1>9. CASE EndString
  <2> DEFINE t == Token(IF Top.interp THEN "STRING_END" ELSE "STRING", Top.start, pos)
  <2>1. Len(calls') = Len(calls) - 1 /\ errors' = errors /\ OneMore(t) /\ Running = "string"
    BY <1>9, EndStringDoes
  <2>2. t.type \notin {"INTERP_START", "INTERP_END"}
    BY DEF Token
  <2> HIDE DEF t
  <2>3. Len(calls) % 2 = 1 /\ Len(calls) > 0
    BY <2>1, TopFacts
  <2>4. Len(calls') \div 2 = Len(calls) \div 2
    BY <1>1, <2>1, <2>3, Halves
  <2>5. \A i \in Len(tokens) + 1 .. Len(tokens') : tokens'[i] = t
    BY <1>1, <2>1 DEF OneMore
  <2>. QED
    BY <1>1, <1>2, <1>3, <2>1, <2>2, <2>4, <2>5, CountedOfNone
<1>10. CASE StartInterpolation
  <2> DEFINE m == Len(tokens)
             C(type) == CountIn(tokens', type, m + 1, Len(tokens'))
  <2>1. /\ Len(tokens') = m + 2 /\ tokens'[m + 1] = Token(PieceType, Top.start, pos)
        /\ tokens'[m + 2] = Token("INTERP_START", Here, pos + 1) /\ errors' = errors
        /\ Len(calls') = Len(calls) + 1 /\ Len(calls) > 0 /\ Len(calls) % 2 = 1
    BY <1>10, StartInterpolationDoes, Zenon
  <2>2. tokens'[m + 1].type \in {"STRING_START", "STRING_PART"} /\ tokens'[m + 2].type = "INTERP_START"
    BY <2>1 DEF Token, PieceType
  <2>3. Len(calls') \div 2 = Len(calls) \div 2 + 1 /\ Len(calls) \div 2 \in Nat
    BY <1>1, <2>1, Halves
  <2>4. \A type : CountIn(tokens', type, m + 1, m + 1) = IF tokens'[m + 1].type = type THEN 1 ELSE 0
    <3>1. m + 1 \in Int
      BY <1>1
    <3>. QED
      BY <3>1, CountOne
  <2>5. \A type : CountIn(tokens', type, m + 2, m + 2) = IF tokens'[m + 2].type = type THEN 1 ELSE 0
    <3>1. m + 2 \in Int
      BY <1>1
    <3>. QED
      BY <3>1, CountOne
  <2>6. \A type : CountIn(tokens', type, m + 1, m + 2)
                    = CountIn(tokens', type, m + 1, m + 1) + CountIn(tokens', type, m + 2, m + 2)
    <3>1. m + 1 \in Int /\ m + 2 \in Int /\ m + 1 <= m + 1 + 1 /\ m + 1 <= m + 2 /\ m + 1 + 1 = m + 2
      BY <1>1
    <3> HIDE DEF m
    <3>2. \A type : CountIn(tokens', type, m + 1, m + 2)
                    = CountIn(tokens', type, m + 1, m + 1) + CountIn(tokens', type, m + 1 + 1, m + 2)
      BY <3>1, CountSplit
    <3>. QED
      BY <3>1, <3>2
  <2>7. C("INTERP_START") = 1 /\ C("INTERP_END") = 0
    BY <2>1, <2>2, <2>4, <2>5, <2>6
  <2>8. \A type : /\ CountIn(tokens', type, 1, Len(tokens')) = CountIn(tokens, type, 1, m) + C(type)
                  /\ CountIn(tokens, type, 1, m) \in Nat
    BY <1>1, CountAdded
  <2> HIDE DEF m, C
  <2>9. CountedIn(calls, tokens)
    BY <1>2, <1>3, <2>1
  <2>10. CountIn(tokens, "INTERP_START", 1, m) = CountIn(tokens, "INTERP_END", 1, m) + Len(calls) \div 2
    BY <2>9 DEF CountedIn, m
  <2>. QED
    BY <2>3, <2>7, <2>8, <2>10 DEF CountedIn
<1>11. CASE InterpolationToken
  <2>1. Len(calls') = Len(calls) /\ errors' = errors /\ tokens' = tokens
    BY <1>11, InterpolationTokenDoes
  <2>. QED
    BY <1>2, <1>4, <2>1
<1>12. CASE EndInterpolation
  <2> DEFINE t == Token("INTERP_END", Here, pos + 1)
  <2>1. Len(calls') = Len(calls) - 1 /\ errors' = errors /\ OneMore(t) /\ Len(calls) > 1 /\ Len(calls) % 2 = 0
    BY <1>12, EndInterpolationDoes, Zenon
  <2>2. t.type = "INTERP_END"
    BY DEF Token
  <2> HIDE DEF t
  <2>3. Len(calls') \div 2 + 1 = Len(calls) \div 2 /\ Len(calls') \div 2 \in Nat
    BY <1>1, <2>1, Halves
  <2>4. \A type : /\ CountIn(tokens', type, 1, Len(tokens'))
                       = CountIn(tokens, type, 1, Len(tokens)) + IF t.type = type THEN 1 ELSE 0
                  /\ CountIn(tokens, type, 1, Len(tokens)) \in Nat
    BY <2>1, CountAddedOne
  <2>5. /\ CountIn(tokens', "INTERP_START", 1, Len(tokens')) = CountIn(tokens, "INTERP_START", 1, Len(tokens))
        /\ CountIn(tokens', "INTERP_END", 1, Len(tokens')) = CountIn(tokens, "INTERP_END", 1, Len(tokens)) + 1
        /\ CountIn(tokens, "INTERP_START", 1, Len(tokens)) \in Nat
        /\ CountIn(tokens, "INTERP_END", 1, Len(tokens)) \in Nat
    BY <2>2, <2>4
  <2>6. CountIn(tokens, "INTERP_START", 1, Len(tokens)) =
            CountIn(tokens, "INTERP_END", 1, Len(tokens)) + Len(calls) \div 2
    BY <1>2, <1>3, <2>1 DEF CountedIn
  <2>. QED
    BY <2>3, <2>5, <2>6 DEF CountedIn
<1>13. CASE BreakInterpolation
  <2>1. errors' # <<>> /\ Advance(0) /\ AtEnd /\ src' = src
    BY <1>13, BreakInterpolationDoes DEF BreakInterpolation, InInterpolation
  <2>2. AtEnd'
    BY <2>1, TypedFacts DEF Advance, AtEnd
  <2>. QED
    BY <1>2, <2>1, <2>2
<1>14. CASE UNCHANGED vars
  BY <1>2, <1>4, <1>14 DEF vars
<1>. QED
  BY <1>5, <1>6, <1>7, <1>8, <1>9, <1>10, <1>11, <1>12, <1>13, <1>14 DEF Next, ScanRound

\* A line began inside an interpolation.
BrokenAt(ts, i) ==
    ts[i].type = "NEWLINE" /\ CountIn(ts, "INTERP_START", 1, i) > CountIn(ts, "INTERP_END", 1, i)

\* BrokenInterpolation, by a function of the tokens.
LEMMA BrokenIs ==
    /\ BrokenInterpolation <=> \E i \in 1 .. Len(tokens) : BrokenAt(tokens, i)
    /\ BrokenInterpolation' <=> \E i \in 1 .. Len(tokens') : BrokenAt(tokens', i)
BY DEF BrokenInterpolation, BrokenAt, Count, CountIn, OfType

\* Once it has, it has.
LEMMA StaysBroken ==
    ASSUME Typed, Stepped, BrokenInterpolation
    PROVE  BrokenInterpolation'
<1>1. PICK i \in 1 .. Len(tokens) : BrokenAt(tokens, i)
  BY BrokenIs
<1>2. /\ Len(tokens) \in Nat /\ Len(tokens') \in Nat /\ Len(tokens) <= Len(tokens')
      /\ \A k \in 1 .. Len(tokens) : tokens'[k] = tokens[k]
  BY TypedFacts DEF Stepped, Extends
<1>3. i \in 1 .. Len(tokens') /\ \A k \in 1 .. i : tokens'[k] = tokens[k]
  BY <1>2
<1>4. \A type : CountIn(tokens', type, 1, i) = CountIn(tokens, type, 1, i)
  BY <1>3, CountSame
<1>5. BrokenAt(tokens', i)
  BY <1>1, <1>3, <1>4 DEF BrokenAt
<1>. QED
  BY <1>3, <1>5, BrokenIs

\* Every step keeps it so that lines in interpolations begin after a NEWLINE there.
LEMMA LineStartsStayBroken ==
    ASSUME Typed, InTokenOf, StartsBehind, InterpsCounted, LineStartBroken, [Next]_vars
    PROVE  LineStartBroken'
<1>1. Stepped /\ Len(calls) \in Nat /\ (calls = <<>> <=> Len(calls) = 0)
  BY EveryStep, TopFacts
<1>2. SUFFICES ASSUME atLineStart', calls' # <<>> PROVE BrokenInterpolation'
  BY DEF LineStartBroken
<1>3. ASSUME atLineStart, calls # <<>> PROVE BrokenInterpolation'
  BY <1>1, <1>3, StaysBroken DEF LineStartBroken
<1>4. CASE HandleIndentation \/ ScanRound \/ Finish
  <2>1. Scanned
    BY <1>4, RoundsScan
  <2>2. calls' = calls /\ Running \in {"run", "interp"}
    BY <1>2, <2>1 DEF Scanned
  <2>3. CASE atLineStart
    BY <1>2, <1>3, <2>2, <2>3
  <2>4. CASE ~atLineStart
    <3>1. Len(tokens') > Len(tokens) /\ tokens'[Len(tokens')].type = "NEWLINE"
      BY <1>2, <2>1, <2>4 DEF Scanned
    <3>2. Len(tokens) \in Nat /\ Len(tokens') \in Nat
      BY <1>1, TypedFacts DEF Stepped
    <3>3. Len(tokens') \in 1 .. Len(tokens')
      BY <3>1, <3>2
    <3>4. Len(calls) % 2 = 0 /\ Len(calls) >= 2
      <4>1. Running = "interp"
        BY <1>2, <2>2, TopFacts
      <4>. QED
        BY <1>1, <4>1, TopFacts
    <3>5. Len(calls) \div 2 \in Nat /\ Len(calls) \div 2 > 0
      BY <1>1, <3>4, Parity
    <3>6. CountedIn(calls', tokens')
      <4>1. ~AtEnd
        BY <1>2, <1>4, <2>4
           DEF HandleIndentation, Finish, ScanRound, SkipBlank, Newline, CarriageReturn, SkipLineComment,
               SkipBlockComment, ScanWord, ScanOperator, Scan, InScanToken, layout
      <4>2. CountedIn(calls, tokens)
        BY <4>1, InterpsCountedIs
      <4>3. \A i \in Len(tokens) + 1 .. Len(tokens') : tokens'[i].type \notin {"INTERP_START", "INTERP_END"}
        BY <2>1 DEF Scanned, NewToken, Plain
      <4>. QED
        BY <1>1, <2>2, <4>2, <4>3, CountedOfNone
    <3>7. CountIn(tokens', "INTERP_END", 1, Len(tokens')) \in Nat
      BY <3>2, CountType
    <3>8. BrokenAt(tokens', Len(tokens'))
      BY <2>2, <3>1, <3>5, <3>6, <3>7 DEF CountedIn, BrokenAt
    <3>. QED
      BY <3>3, <3>8, BrokenIs
  <2>. QED
    BY <2>3, <2>4
<1>5. CASE StartString
  BY <1>2, <1>5, StartStringDoes
<1>6. CASE StringChar \/ (StringEscape /\ pos # Len(src))
  <2>1. atLineStart' = atLineStart /\ Running = "string"
    BY <1>6, StringGoesOn
  <2>. QED
    BY <1>2, <1>3, <2>1, TopFacts
<1>7. CASE (StringEscape /\ pos = Len(src)) \/ BreakString
  <2>1. atLineStart' = atLineStart /\ Running = "string"
    BY <1>7, StringFails
  <2>. QED
    BY <1>2, <1>3, <2>1, TopFacts
<1>8. CASE EndString
  <2>1. atLineStart' = atLineStart /\ Running = "string"
    BY <1>8, EndStringDoes
  <2>. QED
    BY <1>2, <1>3, <2>1, TopFacts
<1>9. CASE StartInterpolation
  <2>1. atLineStart' = atLineStart /\ Running = "string"
    BY <1>9, StartInterpolationDoes, Zenon
  <2>. QED
    BY <1>2, <1>3, <2>1, TopFacts
<1>10. CASE InterpolationToken
  <2>1. atLineStart' = atLineStart /\ Running = "interp"
    BY <1>10, InterpolationTokenDoes
  <2>. QED
    BY <1>2, <1>3, <2>1, TopFacts
<1>11. CASE EndInterpolation
  <2>1. atLineStart' = atLineStart /\ Running = "interp"
    BY <1>11, EndInterpolationDoes, Zenon
  <2>. QED
    BY <1>2, <1>3, <2>1, TopFacts
<1>12. CASE BreakInterpolation
  <2>1. atLineStart' = atLineStart /\ Running = "interp"
    BY <1>12, BreakInterpolationDoes
  <2>. QED
    BY <1>2, <1>3, <2>1, TopFacts
<1>13. CASE UNCHANGED vars
  BY <1>2, <1>3, <1>13 DEF vars, layout
<1>. QED
  BY <1>4, <1>5, <1>6, <1>7, <1>8, <1>9, <1>10, <1>11, <1>12, <1>13 DEF Next, ScanRound

--------------------------------------------------------------------------------
\* The depth of an interpolation.

CommentFrom(n, p) == \E i \in n .. p - 1 : CommentAt(i)
Balance(ts, from, to) == CountIn(ts, Opening, from, to) - CountIn(ts, Shutting, from, to)
AheadOf(ch) == IF ch = Opening THEN 1 ELSE IF ch = Shutting THEN -1 ELSE 0
DepthIn(cs, ts, p, c, ahead) ==
    \/ CommentFrom(ts[cs[c].since].from, p)
    \/ cs[c].depth = 1 + Balance(ts, cs[c].since, LastIn(cs, ts, c)) + ahead

\* Braces are counted in numbers.
LEMMA CountedTyped ==
    ASSUME NEW ts, NEW from \in Int, NEW to \in Int
    PROVE  /\ CountIn(ts, Opening, from, to) \in Nat /\ CountIn(ts, Shutting, from, to) \in Nat
           /\ Balance(ts, from, to) \in Int
<1>1. CountIn(ts, Opening, from, to) \in Nat /\ CountIn(ts, Shutting, from, to) \in Nat
  BY CountType
<1>. QED
  BY <1>1 DEF Balance

\* The balance of tokens that are the same, and of those up to one and from there on.
LEMMA BalanceSame ==
    ASSUME NEW s, NEW t, NEW from \in Int, NEW to \in Int, \A i \in from .. to : s[i] = t[i]
    PROVE  Balance(s, from, to) = Balance(t, from, to)
BY CountSame DEF Balance

LEMMA BalanceSplit ==
    ASSUME NEW s, NEW a \in Int, NEW b \in Int, NEW c \in Int, a <= b + 1, b <= c
    PROVE  Balance(s, a, c) = Balance(s, a, b) + Balance(s, b + 1, c)
<1>1. \A type : CountIn(s, type, a, c) = CountIn(s, type, a, b) + CountIn(s, type, b + 1, c)
  BY CountSplit
<1>2. b + 1 \in Int
  OBVIOUS
<1>3. \A type : CountIn(s, type, a, b) \in Nat /\ CountIn(s, type, b + 1, c) \in Nat
  BY <1>2, CountType
<1>. QED
  BY <1>1, <1>3 DEF Balance

\* Tokens that are not braces leave braces balanced as they are.
LEMMA BalanceNone ==
    ASSUME NEW s, NEW from \in Int, NEW to \in Int,
           \A i \in from .. to : s[i].type \notin {Opening, Shutting}
    PROVE  Balance(s, from, to) = 0
<1>1. CountIn(s, Opening, from, to) = 0 /\ CountIn(s, Shutting, from, to) = 0
  BY CountNone
<1>. QED
  BY <1>1 DEF Balance

\* The types of braces are two, and no other tokens' types.
LEMMA BracesDiffer == Opening # Shutting /\ Opening \notin Marks /\ Shutting \notin Marks
BY Zenon DEF Opening, Shutting, Marks

\* A brace changes the balance by one.
LEMMA BalanceOne ==
    ASSUME NEW s, NEW at \in Int
    PROVE  Balance(s, at, at) = AheadOf(s[at].type)
<1>1. \A type : CountIn(s, type, at, at) = IF s[at].type = type THEN 1 ELSE 0
  BY CountOne
<1>. QED
  BY <1>1, BracesDiffer DEF Balance, AheadOf

\* Ahead and Depths, by functions of the character, the calls and the tokens.
LEMMA AheadIs ==
    ASSUME NEW c
    PROVE  Ahead(c) = IF c = Len(calls) /\ inToken THEN AheadOf(Ch) ELSE 0
<1>1. AtOpening <=> Ch = Opening
  BY Zenon DEF AtOpening, Opening
<1>2. AtClosing <=> Ch = Shutting
  BY Zenon DEF AtClosing, Shutting
<1>. QED
  BY <1>1, <1>2 DEF Ahead, AheadOf

DepthsAre(cs, ts, p, braced) ==
    \A c \in 1 .. Len(cs) : cs[c].fn = "interp" =>
        DepthIn(cs, ts, p, c, IF c = Len(cs) /\ braced THEN AheadOf(CharAt(p)) ELSE 0)

LEMMA DepthsIs ==
    ASSUME src' = src
    PROVE  /\ Depths <=> (errors = <<>> /\ ~BrokenInterpolation => DepthsAre(calls, tokens, pos, inToken))
           /\ Depths' <=> (errors' = <<>> /\ ~BrokenInterpolation' => DepthsAre(calls', tokens', pos', inToken'))
<1>1. \A c : Ahead(c) = IF c = Len(calls) /\ inToken THEN AheadOf(CharAt(pos)) ELSE 0
  BY AheadIs DEF Ch
<1>2. \A c : Ahead(c)' = IF c = Len(calls') /\ inToken' THEN AheadOf(CharAt(pos')) ELSE 0
  <2> SUFFICES ASSUME NEW c
               PROVE  Ahead(c)' = IF c = Len(calls') /\ inToken' THEN AheadOf(CharAt(pos')) ELSE 0
    OBVIOUS
  <2>1. Ch' = CharAt(pos')
    BY DEF Ch, CharAt
  <2>2. AtOpening' <=> CharAt(pos') = Opening
    BY <2>1, Zenon DEF AtOpening, Opening
  <2>3. AtClosing' <=> CharAt(pos') = Shutting
    BY <2>1, Zenon DEF AtClosing, Shutting
  <2>. QED
    BY <2>2, <2>3 DEF Ahead, AheadOf
<1>3. \A c : BracesOpen(c) = Balance(tokens, calls[c].since, LastIn(calls, tokens, c))
  BY DEF BracesOpen, Balance, Count, CountIn, OfType, First, Last, LastIn
<1>4. \A c : BracesOpen(c)' = Balance(tokens', calls'[c].since, LastIn(calls', tokens', c))
  BY DEF BracesOpen, Balance, Count, CountIn, OfType, First, Last, LastIn, Opening, Shutting
<1>5. \A i : CommentAt(i)' <=> CommentAt(i)
  BY DEF CommentAt, CharAt
<1>6. \A n : CommentIn(n) <=> CommentFrom(n, pos)
  BY DEF CommentIn, CommentFrom
<1>7. \A c : CommentIn(tokens[First(c)].from)' <=> CommentFrom(tokens'[calls'[c].since].from, pos')
  BY <1>5 DEF CommentIn, CommentFrom, First
<1>8. Depths <=> (errors = <<>> /\ ~BrokenInterpolation => DepthsAre(calls, tokens, pos, inToken))
  BY <1>1, <1>3, <1>6 DEF Depths, DepthsAre, DepthIn, First
<1>9. Depths' <=> (errors' = <<>> /\ ~BrokenInterpolation' => DepthsAre(calls', tokens', pos', inToken'))
  BY <1>2, <1>4, <1>7 DEF Depths, DepthsAre, DepthIn
<1>. QED
  BY <1>8, <1>9

\* What the first tokens show of an interpolation.
LEMMA InterpTyped ==
    ASSUME Typed, InterpTokens, NEW c \in 1 .. Len(calls), calls[c].fn = "interp"
    PROVE  /\ calls[c].since \in 1 .. Len(tokens) /\ calls[c].depth \in Int /\ LastIn(calls, tokens, c) \in 0 .. Len(tokens)
           /\ calls[c].since <= LastIn(calls, tokens, c)
           /\ tokens[calls[c].since].from \in Nat /\ tokens[calls[c].since].from < pos
           /\ c % 2 = 0 /\ (c + 2 <= Len(calls) => c + 2 \in 1 .. Len(calls) /\ calls[c + 2].fn = "interp")
           /\ ~(c + 2 <= Len(calls)) => LastIn(calls, tokens, c) = Len(tokens)
           /\ c + 2 <= Len(calls) => /\ LastIn(calls, tokens, c) = calls[c + 2].since - 1
                                     /\ tokens[calls[c].since].from <= tokens[calls[c + 2].since].from
<1>1. /\ calls \in Seq(CallSet) /\ CallsAlternate(calls) /\ Len(tokens) \in Nat
  BY TypedFacts
<1>2. /\ c % 2 = 0 /\ calls[c].since \in Nat /\ calls[c].depth \in Nat
      /\ c + 2 <= Len(calls) => c + 2 \in 1 .. Len(calls) /\ calls[c + 2].fn = "interp" /\ calls[c + 2].since \in Nat
  BY <1>1, InterpAbove
<1>3. /\ calls[c].since \in 1 .. LastIn(calls, tokens, c) /\ LastIn(calls, tokens, c) <= Len(tokens)
      /\ tokens[calls[c].since].from < pos
      /\ c + 2 <= Len(calls) => tokens[calls[c].since].from <= tokens[calls[c + 2].since].from
  BY InterpTokensIs DEF InterpTokensIn
<1>4. LastIn(calls, tokens, c) \in Int
  BY <1>1, <1>2 DEF LastIn
<1>5. calls[c].since \in 1 .. Len(tokens) /\ LastIn(calls, tokens, c) \in 0 .. Len(tokens)
      /\ calls[c].since <= LastIn(calls, tokens, c)
  BY <1>1, <1>2, <1>3, <1>4
<1>6. tokens[calls[c].since].from \in Nat
  BY <1>5, TokenFacts
<1>. QED
  BY <1>2, <1>3, <1>5, <1>6 DEF LastIn

\* A comment that was behind the cursor stays behind it.
LEMMA CommentStays ==
    ASSUME Typed, Stepped, NEW n, CommentFrom(n, pos)
    PROVE  CommentFrom(n, pos')
<1>1. pos \in Nat /\ pos' \in Nat /\ pos <= pos'
  BY TypedFacts DEF Stepped, CursorTyped
<1>2. \A p, q \in Nat : p <= q => \A i \in n .. p - 1 : i \in n .. q - 1
  OBVIOUS
<1>3. \A i \in n .. pos - 1 : i \in n .. pos' - 1
  BY <1>1, <1>2
<1>. QED
  BY <1>3 DEF CommentFrom

LEMMA Sums ==
    ASSUME NEW a \in Int, NEW b \in Int, NEW d \in Int, NEW e \in Int, NEW s \in Int, NEW m \in Int,
           e + a = d + m + b, d = 1 + s + a
    PROVE  e = 1 + (s + m) + b
OBVIOUS

\* The depth goes on to be right when it changes as the braces do that are added.
LEMMA DepthGoesOn ==
    ASSUME Typed, Stepped, InterpTokens, NEW c \in 1 .. Len(calls), calls[c].fn = "interp",
           calls'[c].since = calls[c].since, calls'[c].depth \in Int, NEW a \in Int, NEW b \in Int,
           NEW to \in Nat, to = LastIn(calls', tokens', c), LastIn(calls, tokens, c) <= to,
           calls'[c].depth + a = calls[c].depth + Balance(tokens', LastIn(calls, tokens, c) + 1, to) + b,
           DepthIn(calls, tokens, pos, c, a)
    PROVE  DepthIn(calls', tokens', pos', c, b)
<1> DEFINE since == calls[c].since
           last == LastIn(calls, tokens, c)
<1>1. /\ since \in 1 .. Len(tokens) /\ calls[c].depth \in Int /\ last \in 0 .. Len(tokens)
      /\ since <= last
  BY InterpTyped
<1>2. Len(tokens) \in Nat /\ \A i \in 1 .. Len(tokens) : tokens'[i] = tokens[i]
  BY TypedFacts DEF Stepped, Extends
<1>3. CASE CommentFrom(tokens[since].from, pos)
  <2>1. CommentFrom(tokens'[since].from, pos')
    BY <1>1, <1>2, <1>3, CommentStays
  <2>. QED
    BY <2>1 DEF DepthIn
<1>4. CASE ~CommentFrom(tokens[since].from, pos)
  <2>1. calls[c].depth = 1 + Balance(tokens, since, last) + a
    BY <1>4 DEF DepthIn
  <2> HIDE DEF since, last
  <2>2. \A i \in since .. last : i \in 1 .. Len(tokens)
    BY <1>1, <1>2
  <2>3. Balance(tokens', since, last) = Balance(tokens, since, last)
    BY <1>1, <1>2, <2>2, BalanceSame
  <2>4. Balance(tokens', since, to) = Balance(tokens', since, last) + Balance(tokens', last + 1, to)
    <3>1. since \in Int /\ last \in Int /\ to \in Int /\ since <= last + 1 /\ last <= to
      BY <1>1, <1>2 DEF last
    <3>. QED
      BY <3>1, BalanceSplit
  <2>5. Balance(tokens', since, last) \in Int /\ Balance(tokens', last + 1, to) \in Int
    <3>1. since \in Int /\ last \in Int /\ to \in Int /\ last + 1 \in Int
      BY <1>1, <1>2
    <3>. QED
      BY <3>1, CountedTyped
  <2>6. calls'[c].depth + a = calls[c].depth + Balance(tokens', last + 1, to) + b
    BY DEF last
  <2>7. calls'[c].depth = 1 + Balance(tokens', since, to) + b
    <3> DEFINE d == calls[c].depth
               e == calls'[c].depth
               s == Balance(tokens', since, last)
               m == Balance(tokens', last + 1, to)
    <3>1. d \in Int /\ e \in Int /\ s \in Int /\ m \in Int
      BY <1>1, <2>5
    <3>2. e + a = d + m + b
      BY <2>6
    <3>3. d = 1 + s + a
      BY <2>1, <2>3
    <3> HIDE DEF d, e, s, m
    <3>4. e = 1 + (s + m) + b
      BY <3>1, <3>2, <3>3
    <3>. QED
      BY <2>4, <3>4 DEF e, s, m
  <2>. QED
    BY <2>7 DEF DepthIn, since
<1>. QED
  BY <1>3, <1>4

\* No braces are among these tokens.
LEMMA BalanceEmpty == ASSUME NEW s, NEW n \in Nat PROVE Balance(s, n + 1, n) = 0
<1>1. n + 1 .. n = {} /\ n + 1 \in Int /\ n \in Int
  OBVIOUS
<1>. QED
  BY <1>1, BalanceNone

\* Tokens that are not braces are added.
LEMMA BalanceNew ==
    ASSUME Typed, Stepped, \A i \in Len(tokens) + 1 .. Len(tokens') : tokens'[i].type \in Marks
    PROVE  Balance(tokens', Len(tokens) + 1, Len(tokens')) = 0
<1>1. Len(tokens) + 1 \in Int /\ Len(tokens') \in Int
  BY TypedFacts DEF Stepped
<1>2. \A i \in Len(tokens) + 1 .. Len(tokens') : tokens'[i].type \notin {Opening, Shutting}
  BY BracesDiffer
<1>. QED
  BY <1>1, <1>2, BalanceNone

\* Nothing happens to braces, in the tokens or to those ahead.
LEMMA DepthsOfMarks ==
    ASSUME Typed, Stepped, InterpTokens, SameInterps, ~inToken', DepthsAre(calls, tokens, pos, inToken),
           inToken => AheadOf(CharAt(pos)) = 0,
           \A i \in Len(tokens) + 1 .. Len(tokens') : tokens'[i].type \in Marks
    PROVE  DepthsAre(calls', tokens', pos', inToken')
<1>1. /\ calls' \in Seq(CallSet) /\ CallsAlternate(calls') /\ Len(tokens) \in Nat /\ Len(tokens') \in Nat
      /\ Len(tokens) <= Len(tokens')
  BY TypedFacts DEF Stepped, Extends
<1>2. SUFFICES ASSUME NEW c \in 1 .. Len(calls'), calls'[c].fn = "interp"
               PROVE  DepthIn(calls', tokens', pos', c, 0)
  BY DEF DepthsAre
<1>3. /\ c \in 1 .. Len(calls) /\ calls'[c] = calls[c] /\ (c + 2 <= Len(calls') <=> c + 2 <= Len(calls))
  BY <1>2 DEF SameInterps
<1>4. DepthIn(calls, tokens, pos, c, 0)
  BY <1>2, <1>3 DEF DepthsAre
<1>5. calls[c].depth \in Int /\ LastIn(calls, tokens, c) \in 0 .. Len(tokens) /\ calls[c].fn = "interp"
  BY <1>2, <1>3, InterpTyped
<1>6. CASE c + 2 <= Len(calls)
  <2>1. c + 2 \in 1 .. Len(calls') /\ calls'[c + 2].fn = "interp"
    BY <1>1, <1>2, <1>3, <1>6, InterpAbove
  <2>2. LastIn(calls', tokens', c) = LastIn(calls, tokens, c)
    BY <1>3, <1>6, <2>1 DEF SameInterps, LastIn
  <2> DEFINE last == LastIn(calls, tokens, c)
  <2>3. last \in Nat /\ last = LastIn(calls', tokens', c) /\ LastIn(calls, tokens, c) <= last
    BY <1>1, <1>5, <2>2
  <2>4. Balance(tokens', last + 1, last) = 0
    BY <2>3, BalanceEmpty
  <2>5. calls'[c].depth + 0 = calls[c].depth + Balance(tokens', last + 1, last) + 0
    BY <1>3, <1>5, <2>4
  <2>. QED
    BY <1>3, <1>4, <1>5, <2>3, <2>5, DepthGoesOn
<1>7. CASE ~(c + 2 <= Len(calls))
  <2>1. LastIn(calls', tokens', c) = Len(tokens') /\ LastIn(calls, tokens, c) = Len(tokens)
    BY <1>3, <1>7 DEF LastIn
  <2>2. Balance(tokens', Len(tokens) + 1, Len(tokens')) = 0
    BY BalanceNew
  <2>3. calls'[c].depth + 0 = calls[c].depth + Balance(tokens', LastIn(calls, tokens, c) + 1, Len(tokens')) + 0
    BY <1>3, <1>5, <2>1, <2>2
  <2>. QED
    BY <1>1, <1>3, <1>4, <1>5, <2>1, <2>3, DepthGoesOn
<1>. QED
  BY <1>6, <1>7

\* A round of scanToken scans the brace that the interpolation has counted, if
\* it has, or a block comment.
LEMMA RoundsBalance ==
    ASSUME Typed, ScanRound, errors' = <<>>
    PROVE  \/ CommentAt(pos) /\ pos < pos'
           \/ Balance(tokens', Len(tokens) + 1, Len(tokens')) = AheadOf(CharAt(pos))
<1>1. Len(tokens) \in Nat /\ CursorTyped
  BY TypedFacts
<1>2. ASSUME tokens' = tokens PROVE Balance(tokens', Len(tokens) + 1, Len(tokens')) = 0
  BY <1>1, <1>2, BalanceEmpty
<1>3. ASSUME NEW t \in TokenSet, tokens' = tokens \o <<t>>
      PROVE  Balance(tokens', Len(tokens) + 1, Len(tokens')) = AheadOf(t.type)
  <2>1. OneMore(t)
    BY <1>3, EmitOne
  <2>2. Len(tokens) + 1 \in Int /\ Len(tokens') = Len(tokens) + 1 /\ tokens'[Len(tokens) + 1] = t
    BY <1>1, <2>1 DEF OneMore
  <2>. QED
    BY <2>2, BalanceOne
<1>4. ASSUME NEW t, t.type \in Marks PROVE AheadOf(t.type) = 0
  BY <1>4, BracesDiffer DEF AheadOf
<1>5. \A ch : ch \in Blanks \cup {"\n", "\r", "x", "-"} => AheadOf(ch) = 0
  <2>1. Opening \notin Blanks \cup {"\n", "\r", "x", "-"} /\ Shutting \notin Blanks \cup {"\n", "\r", "x", "-"}
    BY Zenon DEF Opening, Shutting, Blanks
  <2>. QED
    BY <2>1 DEF AheadOf
<1>6. CASE SkipBlank
  BY <1>2, <1>5, <1>6 DEF SkipBlank, Quietly, Ch
<1>7. CASE Newline \/ CarriageReturn
  <2>1. PICK t \in TokenSet : tokens' = tokens \o <<t>> /\ t.type = "NEWLINE"
    <3>1. \A at \in Places, to \in Nat : Token("NEWLINE", at, to) \in TokenSet /\ Token("NEWLINE", at, to).type = "NEWLINE"
      <4>1. "NEWLINE" \in Types
        BY DEF Types, Marks
      <4>. QED
        BY <4>1, TokenTyped DEF Token
    <3>2. CASE Newline
      <4>1. Here \in Places /\ pos + 1 \in Nat
        BY <1>1, HereTyped, TypedFacts
      <4>2. tokens' = tokens \o <<Token("NEWLINE", Here, pos + 1)>>
        BY <3>2 DEF Newline, Emit
      <4>. QED
        BY <3>1, <4>1, <4>2
    <3>3. CASE CarriageReturn
      <4> DEFINE k == IF NextCh = "\n" THEN 2 ELSE 1
      <4>1. HereAfter(k) \in Places /\ pos + k \in Nat
        BY <1>1, HereTyped, TypedFacts
      <4>2. tokens' = tokens \o <<Token("NEWLINE", HereAfter(k), pos + k)>>
        BY <3>3 DEF CarriageReturn, Emit
      <4> HIDE DEF k
      <4>. QED
        BY <3>1, <4>1, <4>2
    <3>. QED
      BY <1>7, <3>2, <3>3
  <2>2. AheadOf(t.type) = 0
    BY <1>4, <2>1 DEF Marks
  <2>3. AheadOf(CharAt(pos)) = 0
    BY <1>5, <1>7 DEF Newline, CarriageReturn, Ch
  <2>. QED
    BY <1>3, <2>1, <2>2, <2>3
<1>8. CASE SkipLineComment
  BY <1>2, <1>5, <1>8 DEF SkipLineComment, AtLineComment, Quietly, Ch
<1>9. CASE SkipBlockComment
  <2>1. pos' \in pos + 2 .. Len(src) + 1 /\ pos \in Nat
    BY <1>9, CommentFacts, TypedFacts
  <2>2. pos < pos'
    BY <2>1
  <2>3. pos <= Len(src) /\ Ch = src[pos]
    <3>1. Ch # "end"
      BY <1>9, Zenon DEF SkipBlockComment, AtBlockComment
    <3>2. ~AtEnd
      BY <1>9 DEF SkipBlockComment, Scan, InScanToken
    <3>. QED
      BY <1>1, <3>2, CharFacts
  <2>4. CommentAt(pos)
    BY <1>9, <2>3, Zenon DEF SkipBlockComment, AtBlockComment, CommentAt, NextCh
  <2>. QED
    BY <2>2, <2>4
<1>10. CASE ScanWord
  <2> DEFINE t == Token("WORD", Here, After(pos, {"x"}))
  <2>1. tokens' = tokens \o <<t>> /\ Ch = "x"
    BY <1>10 DEF ScanWord, Emit
  <2>2. t \in TokenSet
    <3>1. "WORD" \in Types /\ Here \in Places
      BY <1>1, HereTyped DEF Types, Marks
    <3>2. After(pos, {"x"}) \in Nat
      <4>1. pos \in 1 .. Len(src) + 1 /\ Len(src) \in Nat
        BY TypedFacts
      <4>2. After(pos, {"x"}) \in pos .. Len(src) + 1
        BY <4>1, AfterIs
      <4>. QED
        BY <4>1, <4>2
    <3>. QED
      BY <3>1, <3>2, TokenTyped
  <2>3. t.type \in Marks
    BY DEF Token, Marks
  <2> HIDE DEF t
  <2>4. AheadOf(t.type) = 0 /\ AheadOf(CharAt(pos)) = 0
    BY <1>4, <1>5, <2>1, <2>3 DEF Ch
  <2>. QED
    BY <1>3, <2>1, <2>2, <2>4
<1>11. CASE ScanOperator
  <2>1. AtOperator # {}
    <3>1. CASE AtOperator = {}
      BY <1>11, <3>1, ErrorAdded DEF ScanOperator, AddError, Problems
    <3>. QED
      BY <3>1
  <2> DEFINE t == Token(Longest[1], Here, pos + Len(Longest))
  <2>2. tokens' = tokens \o <<t>>
    BY <1>11, <2>1 DEF ScanOperator, Emit, Longest
  <2>3. /\ Longest \in Operators /\ Len(Longest) \in Nat \ {0} /\ Longest[1] \in Types
        /\ \A i \in 1 .. Len(Longest) : Longest[i] = src[pos + i - 1]
    BY <1>1, <2>1, LongestFacts
  <2>4. pos \in Nat /\ ~AtEnd
    BY <1>11, TypedFacts DEF ScanOperator, Scan, InScanToken
  <2>5. Longest[1] = Ch
    <3>1. 1 \in 1 .. Len(Longest) /\ pos + 1 - 1 = pos
      BY <2>3, <2>4
    <3>2. Ch = src[pos]
      BY <1>1, <2>4, CharFacts
    <3>. QED
      BY <2>3, <3>1, <3>2
  <2>6. t \in TokenSet /\ t.type = Ch
    <3>1. Here \in Places /\ pos + Len(Longest) \in Nat
      BY <1>1, <2>3, <2>4, HereTyped
    <3>2. t.type = Longest[1]
      BY DEF Token
    <3>. QED
      BY <2>3, <2>5, <3>1, <3>2, TokenTyped
  <2> HIDE DEF t
  <2>. QED
    BY <1>3, <2>2, <2>6 DEF Ch
<1>. QED
  BY <1>6, <1>7, <1>8, <1>9, <1>10, <1>11 DEF ScanRound

\* Nothing happens to the call at c and to its tokens.
LEMMA DepthUnmoved ==
    ASSUME Typed, Stepped, InterpTokens, NEW c \in 1 .. Len(calls), calls[c].fn = "interp",
           calls'[c] = calls[c], LastIn(calls', tokens', c) = LastIn(calls, tokens, c),
           DepthIn(calls, tokens, pos, c, 0)
    PROVE  DepthIn(calls', tokens', pos', c, 0)
<1> DEFINE last == LastIn(calls, tokens, c)
<1>1. calls[c].depth \in Int /\ last \in 0 .. Len(tokens) /\ Len(tokens) \in Nat
  BY InterpTyped, TypedFacts
<1>2. last \in Nat /\ last = LastIn(calls', tokens', c) /\ LastIn(calls, tokens, c) <= last
  BY <1>1
<1>3. Balance(tokens', last + 1, last) = 0
  BY <1>2, BalanceEmpty
<1>4. calls'[c].depth + 0 = calls[c].depth + Balance(tokens', last + 1, last) + 0
  BY <1>1, <1>3
<1>. QED
  BY <1>1, <1>2, <1>4, DepthGoesOn

\* The brace that was counted is scanned.
LEMMA DepthsOfRound ==
    ASSUME Typed, InTokenOf, InterpTokens, ScanRound, errors' = <<>>, DepthsAre(calls, tokens, pos, inToken)
    PROVE  DepthsAre(calls', tokens', pos', inToken')
<1>1. Scanned /\ Stepped
  BY RoundsScan, ScannedSteps
<1>2. calls' = calls /\ Len(tokens) \in Nat /\ Len(tokens') \in Nat /\ Len(tokens) <= Len(tokens') /\ Len(calls) \in Nat
  BY <1>1, TypedFacts DEF Scanned, Extends
<1>3. inToken' = FALSE /\ (Running = "interp" => inToken) /\ Running \in {"run", "interp"}
  BY DEF ScanRound, SkipBlank, Newline, CarriageReturn, SkipLineComment, SkipBlockComment, ScanWord, ScanOperator,
         Scan, InScanToken
<1>4. SUFFICES ASSUME NEW c \in 1 .. Len(calls), calls[c].fn = "interp"
               PROVE  DepthIn(calls', tokens', pos', c, 0)
  BY <1>2, <1>3 DEF DepthsAre
<1>5. Running = "interp" /\ inToken /\ Len(calls) % 2 = 0
  <2>1. Len(calls) # 0
    BY <1>2
  <2>. QED
    BY <1>3, <2>1, TopFacts
<1>6. /\ calls[c].since \in 1 .. Len(tokens) /\ calls[c].depth \in Int
      /\ tokens[calls[c].since].from \in Nat /\ tokens[calls[c].since].from < pos
      /\ ~(c + 2 <= Len(calls)) => LastIn(calls, tokens, c) = Len(tokens)
  BY <1>4, InterpTyped
<1>7. CASE c + 2 <= Len(calls)
  <2>1. c # Len(calls)
    BY <1>2, <1>7
  <2>2. DepthIn(calls, tokens, pos, c, 0)
    BY <1>4, <2>1 DEF DepthsAre
  <2>3. LastIn(calls', tokens', c) = LastIn(calls, tokens, c)
    BY <1>2, <1>7 DEF LastIn
  <2>. QED
    BY <1>1, <1>2, <1>4, <2>2, <2>3, DepthUnmoved
<1>8. CASE ~(c + 2 <= Len(calls))
  <2>1. c = Len(calls)
    <3>1. c % 2 = 0 /\ c \in Nat
      BY <1>4, InterpTyped
    <3>2. (c + 1) % 2 = 1
      BY <3>1, Parity
    <3>3. c + 1 # Len(calls)
      BY <1>5, <3>2
    <3>. QED
      BY <1>2, <1>8, <3>1, <3>3
  <2>2. DepthIn(calls, tokens, pos, c, AheadOf(CharAt(pos)))
    BY <1>4, <1>5, <2>1 DEF DepthsAre
  <2>3. LastIn(calls, tokens, c) = Len(tokens) /\ LastIn(calls', tokens', c) = Len(tokens')
    BY <1>2, <1>8 DEF LastIn
  <2>4. CASE CommentAt(pos) /\ pos < pos'
    <3>1. tokens'[calls[c].since] = tokens[calls[c].since]
      BY <1>1, <1>6 DEF Scanned, Extends
    <3>2. pos \in Nat /\ pos' \in Nat
      BY <1>1, TypedFacts DEF Scanned, CursorTyped
    <3>3. \A n, p, q \in Nat : n < p /\ p < q => p \in n .. q - 1
      OBVIOUS
    <3>4. pos \in tokens'[calls'[c].since].from .. pos' - 1
      BY <1>2, <1>6, <2>4, <3>1, <3>2, <3>3
    <3>. QED
      BY <2>4, <3>4 DEF DepthIn, CommentFrom
  <2>5. CASE Balance(tokens', Len(tokens) + 1, Len(tokens')) = AheadOf(CharAt(pos))
    <3> DEFINE a == AheadOf(CharAt(pos))
    <3>1. a \in Int
      BY DEF AheadOf
    <3>2. calls'[c].depth = calls[c].depth /\ calls'[c].since = calls[c].since /\ calls'[c].depth \in Int
      BY <1>2, <1>6
    <3>3. calls'[c].depth + a = calls[c].depth + Balance(tokens', LastIn(calls, tokens, c) + 1, Len(tokens')) + 0
      <4>1. Balance(tokens', LastIn(calls, tokens, c) + 1, Len(tokens')) = a
        BY <2>3, <2>5
      <4> HIDE DEF a
      <4>. QED
        BY <1>6, <3>1, <3>2, <4>1
    <3> HIDE DEF a
    <3>4. DepthIn(calls, tokens, pos, c, a)
      BY <2>2 DEF a
    <3>. QED
      BY <1>1, <1>2, <1>4, <2>3, <3>1, <3>2, <3>3, <3>4, DepthGoesOn
  <2>. QED
    BY <2>4, <2>5, RoundsBalance
<1>. QED
  BY <1>7, <1>8

\* A brace is counted that scanToken will scan.
LEMMA DepthsOfInterpolationToken ==
    ASSUME Typed, InTokenOf, InterpTokens, InterpolationToken, DepthsAre(calls, tokens, pos, inToken)
    PROVE  DepthsAre(calls', tokens', pos', inToken')
<1>1. /\ Stepped /\ inToken' = TRUE /\ ~inToken /\ tokens' = tokens /\ pos' = pos
      /\ Len(calls') = Len(calls) /\ \A i \in 1 .. Len(calls) - 1 : calls'[i] = calls[i]
      /\ calls'[Len(calls)] = [Top EXCEPT !.depth = Counted(Top.depth)]
      /\ Len(calls) \in Nat /\ Len(calls) > 0 /\ Top = calls[Len(calls)] /\ Top \in InterpCallSet
  BY InterpolationTokenDoes
<1>2. src' = src
  BY DEF InterpolationToken, InInterpolation
<1>3. /\ calls'[Len(calls)].fn = "interp" /\ calls[Len(calls)].fn = "interp"
      /\ calls'[Len(calls)].since = calls[Len(calls)].since
      /\ calls'[Len(calls)].depth = Counted(calls[Len(calls)].depth)
  BY <1>1 DEF InterpCallSet
<1>4. /\ calls \in Seq(CallSet) /\ CallsAlternate(calls) /\ calls' \in Seq(CallSet) /\ CallsAlternate(calls')
      /\ Len(tokens) \in Nat
  BY <1>1, TypedFacts DEF Stepped
<1>5. \A c \in 1 .. Len(calls) : /\ calls'[c].fn = calls[c].fn /\ calls'[c].since = calls[c].since
                                 /\ c # Len(calls) => calls'[c] = calls[c]
  <2>1. \A c \in 1 .. Len(calls) : c \in 1 .. Len(calls) - 1 \/ c = Len(calls)
    BY <1>1
  <2>. QED
    BY <1>1, <1>3, <2>1
<1>6. SUFFICES ASSUME NEW c \in 1 .. Len(calls), calls[c].fn = "interp"
               PROVE  DepthIn(calls', tokens', pos', c, IF c = Len(calls) THEN AheadOf(CharAt(pos)) ELSE 0)
  <2>1. CharAt(pos') = CharAt(pos)
    BY <1>1
  <2>. QED
    BY <1>1, <1>5, <2>1 DEF DepthsAre
<1>7. DepthIn(calls, tokens, pos, c, 0)
  BY <1>1, <1>6 DEF DepthsAre
<1>8. LastIn(calls', tokens', c) = LastIn(calls, tokens, c)
  <2>1. c + 2 <= Len(calls) => c + 2 \in 1 .. Len(calls)
    BY <1>1
  <2>. QED
    BY <1>1, <1>5, <2>1 DEF LastIn
<1>9. CASE c # Len(calls)
  BY <1>1, <1>5, <1>6, <1>7, <1>8, <1>9, DepthUnmoved
<1>10. CASE c = Len(calls)
  <2> DEFINE a == AheadOf(CharAt(pos))
             last == LastIn(calls, tokens, c)
  <2>1. calls[c].depth \in Int /\ last \in 0 .. Len(tokens)
    BY <1>6, InterpTyped
  <2>2. a \in Int /\ calls'[c].depth = calls[c].depth + a
    <3>1. (AtOpening <=> CharAt(pos) = Opening) /\ (AtClosing <=> CharAt(pos) = Shutting)
      BY Zenon DEF AtOpening, AtClosing, Opening, Shutting, Ch
    <3>2. a \in Int
      BY DEF AheadOf
    <3>3. Counted(calls[c].depth) = calls[c].depth + a
      BY <2>1, <3>1, BracesDiffer DEF Counted, AheadOf
    <3>. QED
      BY <1>3, <1>10, <3>2, <3>3
  <2>3. last \in Nat /\ last = LastIn(calls', tokens', c) /\ LastIn(calls, tokens, c) <= last
    BY <1>4, <1>8, <2>1
  <2>4. Balance(tokens', last + 1, last) = 0
    BY <2>3, BalanceEmpty
  <2> HIDE DEF a
  <2>5. calls'[c].depth \in Int /\ calls'[c].depth + 0 = calls[c].depth + Balance(tokens', last + 1, last) + a
    BY <2>1, <2>2, <2>4
  <2>6. DepthIn(calls', tokens', pos', c, a)
    BY <1>1, <1>5, <1>6, <1>7, <2>2, <2>3, <2>5, DepthGoesOn
  <2>. QED
    BY <1>10, <2>6 DEF a
<1>. QED
  BY <1>9, <1>10

\* Strings have no braces of their own in the tokens.
LEMMA DepthsOfStrings ==
    ASSUME Typed, InTokenOf, StartsBehind, InterpTokens, DepthsAre(calls, tokens, pos, inToken),
           \/ StartString \/ StringChar \/ (StringEscape /\ pos # Len(src)) \/ EndString
    PROVE  DepthsAre(calls', tokens', pos', inToken')
<1>1. Len(tokens) \in Nat
  BY TypedFacts
<1>2. ASSUME tokens' = tokens PROVE \A i \in Len(tokens) + 1 .. Len(tokens') : tokens'[i].type \in Marks
  <2>1. \A n \in Nat : n + 1 .. n = {}
    OBVIOUS
  <2>. QED
    BY <1>1, <1>2, <2>1
<1>3. CASE StartString
  <2>1. Stepped /\ SameInterps /\ tokens' = tokens /\ inToken' = FALSE /\ Ch = "\""
    BY <1>3, StartStringDoes
  <2>2. "\"" # Opening /\ "\"" # Shutting
    BY Zenon DEF Opening, Shutting
  <2>3. AheadOf(CharAt(pos)) = 0
    BY <2>1, <2>2 DEF AheadOf, Ch
  <2>. QED
    BY <1>2, <2>1, <2>3, DepthsOfMarks
<1>4. CASE StringChar \/ (StringEscape /\ pos # Len(src))
  <2>1. Stepped /\ SameInterps /\ tokens' = tokens /\ inToken' = FALSE /\ Running = "string"
    BY <1>4, StringGoesOn
  <2>2. ~inToken
    BY <2>1 DEF InTokenOf
  <2>. QED
    BY <1>2, <2>1, <2>2, DepthsOfMarks
<1>5. CASE EndString
  <2> DEFINE t == Token(IF Top.interp THEN "STRING_END" ELSE "STRING", Top.start, pos)
  <2>1. Stepped /\ SameInterps /\ OneMore(t) /\ inToken' = FALSE /\ Running = "string"
    BY <1>5, EndStringDoes
  <2>2. ~inToken
    BY <2>1 DEF InTokenOf
  <2>3. t.type \in Marks
    BY DEF Token, Marks
  <2> HIDE DEF t
  <2>4. \A i \in Len(tokens) + 1 .. Len(tokens') : tokens'[i].type \in Marks
    <3>1. \A n \in Nat : \A i \in n + 1 .. n + 1 : i = n + 1
      OBVIOUS
    <3>. QED
      BY <1>1, <2>1, <2>3, <3>1 DEF OneMore
  <2>. QED
    BY <2>1, <2>2, <2>4, DepthsOfMarks
<1>. QED
  BY <1>3, <1>4, <1>5

\* No braces are open in an interpolation that begins.
LEMMA DepthsOfStart ==
    ASSUME Typed, InTokenOf, StartsBehind, InterpTokens, StartInterpolation, DepthsAre(calls, tokens, pos, inToken)
    PROVE  DepthsAre(calls', tokens', pos', inToken')
<1> DEFINE n == Len(calls)
           m == Len(tokens)
<1>1. /\ Stepped /\ inToken' = FALSE /\ Len(tokens') = m + 2
      /\ tokens'[m + 1] = Token(PieceType, Top.start, pos)
      /\ tokens'[m + 2] = Token("INTERP_START", Here, pos + 1)
      /\ Running = "string" /\ Len(calls') = n + 1 /\ \A i \in 1 .. n - 1 : calls'[i] = calls[i]
      /\ calls'[n].fn = "string" /\ calls'[n + 1] = InterpCall(1, m + 2)
      /\ n \in Nat /\ n > 0 /\ n % 2 = 1
  BY StartInterpolationDoes, Zenon
<1>2. m \in Nat /\ calls \in Seq(CallSet) /\ CallsAlternate(calls)
  BY TypedFacts
<1>3. ~inToken
  BY <1>1 DEF InTokenOf
<1>4. tokens'[m + 1].type \in Marks /\ tokens'[m + 2].type \in Marks
  <2>1. PieceType \in Marks /\ "INTERP_START" \in Marks
    BY DEF PieceType, Marks
  <2>. QED
    BY <1>1, <2>1 DEF Token
<1>5. SUFFICES ASSUME NEW c \in 1 .. Len(calls'), calls'[c].fn = "interp"
               PROVE  DepthIn(calls', tokens', pos', c, 0)
  BY <1>1 DEF DepthsAre
<1>6. c \in 1 .. n - 1 \/ c = n + 1
  <2>1. c \in 1 .. n - 1 \/ c = n \/ c = n + 1
    BY <1>1
  <2>2. "interp" # "string"
    OBVIOUS
  <2>. QED
    BY <1>1, <1>5, <2>1, <2>2
<1>7. CASE c = n + 1
  <2>1. calls'[c].depth = 1 /\ calls'[c].since = m + 2
    BY <1>1, <1>7 DEF InterpCall
  <2>2. LastIn(calls', tokens', c) = m + 2
    BY <1>1, <1>7 DEF LastIn
  <2>3. Balance(tokens', m + 2, m + 2) = 0
    <3>1. m + 2 \in Int
      BY <1>2
    <3>2. AheadOf(tokens'[m + 2].type) = 0
      BY <1>4, BracesDiffer DEF AheadOf
    <3>. QED
      BY <3>1, <3>2, BalanceOne
  <2>4. calls'[c].depth = 1 + Balance(tokens', calls'[c].since, LastIn(calls', tokens', c)) + 0
    BY <2>1, <2>2, <2>3
  <2>. QED
    BY <2>4 DEF DepthIn
<1>8. CASE c \in 1 .. n - 1
  <2>1. c \in 1 .. n /\ c \in Nat /\ calls'[c] = calls[c] /\ calls[c].fn = "interp"
    BY <1>1, <1>5, <1>8
  <2>2. c % 2 = 0 /\ calls[c].depth \in Int /\ (~(c + 2 <= n) => LastIn(calls, tokens, c) = m)
    BY <2>1, InterpTyped
  <2>3. DepthIn(calls, tokens, pos, c, 0)
    BY <1>3, <2>1 DEF DepthsAre
  <2>4. CASE c + 2 <= n
    <3>1. c + 2 # n
      <4>1. (c + 2) % 2 = 0
        BY <2>1, <2>2, Parity
      <4>2. 0 # 1
        OBVIOUS
      <4>. QED
        BY <1>1, <4>1, <4>2, Zenon
    <3>2. c + 2 \in 1 .. n - 1
      BY <1>1, <2>1, <2>4, <3>1
    <3>3. calls'[c + 2] = calls[c + 2] /\ c + 2 <= Len(calls')
      BY <1>1, <2>1, <2>4, <3>2
    <3>4. LastIn(calls', tokens', c) = LastIn(calls, tokens, c)
      BY <2>4, <3>3 DEF LastIn
    <3>. QED
      BY <1>1, <2>1, <2>3, <3>4, DepthUnmoved
  <2>5. CASE ~(c + 2 <= n)
    <3>1. c + 2 = n + 1
      BY <1>1, <2>1, <2>5, <1>8
    <3>2. LastIn(calls, tokens, c) = m /\ LastIn(calls', tokens', c) = m + 1
      <4>1. c + 2 <= Len(calls') /\ calls'[c + 2].since = m + 2
        BY <1>1, <3>1 DEF InterpCall
      <4>. QED
        BY <1>2, <2>2, <2>5, <4>1 DEF LastIn
    <3>3. Balance(tokens', m + 1, m + 1) = 0
      <4>1. m + 1 \in Int
        BY <1>2
      <4>2. AheadOf(tokens'[m + 1].type) = 0
        BY <1>4, BracesDiffer DEF AheadOf
      <4>. QED
        BY <4>1, <4>2, BalanceOne
    <3>4. Balance(tokens', LastIn(calls, tokens, c) + 1, m + 1) = 0
      BY <3>2, <3>3
    <3>5. calls'[c].depth + 0 = calls[c].depth + Balance(tokens', LastIn(calls, tokens, c) + 1, m + 1) + 0
      BY <2>1, <2>2, <3>4
    <3>6. m + 1 \in Nat /\ m + 1 = LastIn(calls', tokens', c) /\ LastIn(calls, tokens, c) <= m + 1
      BY <1>2, <3>2
    <3>7. calls'[c].since = calls[c].since /\ calls'[c].depth \in Int /\ 0 \in Int
      BY <2>1, <2>2
    <3> HIDE DEF m, n
    <3>8. c \in 1 .. Len(calls)
      BY <2>1 DEF n
    <3>. QED
      BY <1>1, <2>1, <2>3, <3>5, <3>6, <3>7, <3>8, DepthGoesOn
  <2>. QED
    BY <2>4, <2>5
<1>. QED
  BY <1>6, <1>7, <1>8

\* The braces of an interpolation that ends are balanced.
LEMMA DepthsOfEnd ==
    ASSUME Typed, InTokenOf, InterpTokens, EndInterpolation, DepthsAre(calls, tokens, pos, inToken)
    PROVE  DepthsAre(calls', tokens', pos', inToken')
<1> DEFINE n == Len(calls)
           m == Len(tokens)
           s == calls[n].since
<1>1. /\ Stepped /\ inToken' = FALSE /\ ~inToken
      /\ Len(calls') = n - 1 /\ \A i \in 1 .. n - 2 : calls'[i] = calls[i]
      /\ n \in Nat /\ n > 1 /\ n % 2 = 0
      /\ calls'[n - 1].fn = "string" /\ Top = calls[n] /\ Top \in InterpCallSet /\ Top.depth = 1
      /\ OneMore(Token("INTERP_END", Here, pos + 1))
  BY EndInterpolationDoes, Zenon
<1>0. calls[n].fn = "interp" /\ calls[n].depth = 1
  BY <1>1 DEF InterpCallSet
<1>2. m \in Nat /\ Len(tokens') = m + 1 /\ tokens'[m + 1].type = "INTERP_END"
      /\ \A i \in 1 .. m : tokens'[i] = tokens[i]
  BY <1>1, TypedFacts DEF OneMore, Token, Stepped, Extends
<1>3. /\ calls \in Seq(CallSet) /\ CallsAlternate(calls) /\ calls' \in Seq(CallSet) /\ CallsAlternate(calls')
  BY <1>1, TypedFacts DEF Stepped
<1>4. SUFFICES ASSUME NEW c \in 1 .. Len(calls'), calls'[c].fn = "interp"
               PROVE  DepthIn(calls', tokens', pos', c, 0)
  BY <1>1 DEF DepthsAre
<1>5. \A d \in 1 .. Len(calls') : calls'[d].fn = "interp" => d \in 1 .. n - 2
  <2>1. \A d \in 1 .. n - 1 : d \in 1 .. n - 2 \/ d = n - 1
    BY <1>1
  <2>2. "string" # "interp"
    OBVIOUS
  <2>. QED
    BY <1>1, <2>1, <2>2
<1>6. c \in 1 .. n - 2 /\ c \in 1 .. n /\ c \in Nat /\ calls'[c] = calls[c] /\ calls[c].fn = "interp"
  <2>1. c \in 1 .. n - 2
    BY <1>4, <1>5
  <2>2. calls'[c] = calls[c] /\ calls[c].fn = "interp"
    BY <1>1, <1>4, <2>1
  <2>3. \A k \in Nat : \A i \in 1 .. k - 2 : i \in 1 .. k /\ i \in Nat
    OBVIOUS
  <2>4. n \in Nat
    BY <1>1
  <2>5. c \in 1 .. n /\ c \in Nat
    BY <2>1, <2>3, <2>4
  <2>. QED
    BY <2>1, <2>2, <2>5
<1>7. DepthIn(calls, tokens, pos, c, 0)
  BY <1>1, <1>6 DEF DepthsAre
<1>8. CASE c + 2 <= Len(calls')
  <2>1. c + 2 \in 1 .. n - 2
    BY <1>3, <1>4, <1>5, <1>8, InterpAbove
  <2>2. calls'[c + 2] = calls[c + 2] /\ c + 2 <= n
    BY <1>1, <2>1
  <2>3. LastIn(calls', tokens', c) = LastIn(calls, tokens, c)
    BY <1>8, <2>2 DEF LastIn
  <2>. QED
    BY <1>1, <1>6, <1>7, <2>3, DepthUnmoved
<1>9. CASE ~(c + 2 <= Len(calls'))
  <2>1. c + 2 = n /\ n \in 1 .. n
    BY <1>1, <1>6, <1>9
  <2>2. /\ calls[c].depth \in Int /\ calls[c].since \in 1 .. m
        /\ tokens[calls[c].since].from \in Nat /\ tokens[calls[c].since].from <= tokens[s].from
        /\ LastIn(calls, tokens, c) = s - 1
    <3>1. c + 2 <= n
      BY <1>1, <2>1
    <3>2. /\ calls[c].depth \in Int /\ calls[c].since \in 1 .. m
          /\ tokens[calls[c].since].from \in Nat /\ tokens[calls[c].since].from <= tokens[calls[c + 2].since].from
          /\ LastIn(calls, tokens, c) = calls[c + 2].since - 1
      BY <1>6, <3>1, InterpTyped
    <3>. QED
      BY <2>1, <3>2
  <2>3. s \in 1 .. m /\ LastIn(calls, tokens, n) = m /\ tokens[s].from \in Nat
    BY <1>0, <2>1, InterpTyped
  <2>4. DepthIn(calls, tokens, pos, n, 0)
    BY <1>0, <1>1, <2>1 DEF DepthsAre
  <2>5. LastIn(calls', tokens', c) = m + 1
    BY <1>2, <1>9 DEF LastIn
  <2>6. CASE CommentFrom(tokens[s].from, pos)
    <3>1. \A p, q, r \in Nat : p <= q => \A i \in q .. r - 1 : i \in p .. r - 1
      OBVIOUS
    <3>2. pos \in Nat
      BY TypedFacts
    <3>3. \A i \in tokens[s].from .. pos - 1 : i \in tokens[calls[c].since].from .. pos - 1
      BY <2>2, <2>3, <3>1, <3>2
    <3>4. CommentFrom(tokens[calls[c].since].from, pos)
      BY <2>6, <3>3 DEF CommentFrom
    <3>5. CommentFrom(tokens[calls[c].since].from, pos')
      BY <1>1, <3>4, CommentStays
    <3>6. tokens'[calls'[c].since] = tokens[calls[c].since]
      BY <1>2, <1>6, <2>2
    <3>. QED
      BY <3>5, <3>6 DEF DepthIn
  <2>7. CASE ~CommentFrom(tokens[s].from, pos)
    <3>1. Balance(tokens, s, m) = 0
      <4>1. 1 = 1 + Balance(tokens, s, m) + 0
        BY <1>0, <2>3, <2>4, <2>7 DEF DepthIn
      <4>2. Balance(tokens, s, m) \in Int
        BY <1>2, <2>3, CountedTyped
      <4>. QED
        BY <4>1, <4>2
    <3>2. s \in Int /\ m \in Int /\ m + 1 \in Int /\ s <= m + 1 /\ m <= m + 1
      BY <1>2, <2>3
    <3> HIDE DEF m, n, s
    <3>3. Balance(tokens', s, m) = 0
      <4>1. \A i \in s .. m : tokens'[i] = tokens[i]
        BY <1>2, <2>3
      <4>. QED
        BY <3>1, <3>2, <4>1, BalanceSame
    <3>4. Balance(tokens', m + 1, m + 1) = 0
      <4>1. "INTERP_END" \in Marks
        BY DEF Marks
      <4>2. AheadOf(tokens'[m + 1].type) = 0
        BY <1>2, <4>1, BracesDiffer DEF AheadOf
      <4>. QED
        BY <3>2, <4>2, BalanceOne
    <3>5. Balance(tokens', s, m + 1) = 0
      <4>1. Balance(tokens', s, m + 1) = Balance(tokens', s, m) + Balance(tokens', m + 1, m + 1)
        BY <3>2, BalanceSplit
      <4>. QED
        BY <3>3, <3>4, <4>1
    <3>6. LastIn(calls, tokens, c) + 1 = s
      BY <2>2, <3>2
    <3>7. calls'[c].depth + 0 = calls[c].depth + Balance(tokens', LastIn(calls, tokens, c) + 1, m + 1) + 0
      BY <1>6, <2>2, <3>5, <3>6
    <3>8. m + 1 \in Nat /\ LastIn(calls, tokens, c) <= m + 1
      BY <1>2, <2>2, <3>2
    <3>9. calls'[c].since = calls[c].since /\ calls'[c].depth \in Int /\ 0 \in Int /\ c \in 1 .. Len(calls)
      BY <1>6, <2>2 DEF n
    <3>. QED
      BY <1>1, <1>6, <1>7, <2>5, <3>7, <3>8, <3>9, DepthGoesOn
  <2>. QED
    BY <2>6, <2>7
<1>. QED
  BY <1>8, <1>9

\* The depths of interpolations count braces through every step.
LEMMA DepthsStay ==
    ASSUME Typed, InTokenOf, StartsBehind, InterpTokens, LineStartBroken, Depths, [Next]_vars
    PROVE  Depths'
<1>1. Stepped
  BY EveryStep
<1>2. src' = src
  BY <1>1 DEF Stepped
<1>3. SUFFICES ASSUME errors' = <<>>, ~BrokenInterpolation'
               PROVE  DepthsAre(calls', tokens', pos', inToken')
  BY <1>2, DepthsIs
<1>4. ~BrokenInterpolation
  BY <1>1, <1>3, StaysBroken
<1>5. ASSUME errors = <<>> PROVE DepthsAre(calls, tokens, pos, inToken)
  BY <1>2, <1>4, <1>5, DepthsIs
<1>6. CASE HandleIndentation \/ Finish
  <2>1. Scanned
    BY <1>6, RoundsScan
  <2>2. errors = <<>> /\ calls' = calls
    BY <1>3, <2>1 DEF Scanned
  <2>3. calls = <<>>
    <3>1. CASE HandleIndentation
      BY <1>4, <2>2, <3>1 DEF HandleIndentation, LineStartBroken
    <3>2. CASE Finish
      BY <3>2 DEF Finish
    <3>. QED
      BY <1>6, <3>1, <3>2
  <2>. QED
    BY <2>2, <2>3 DEF DepthsAre
<1>7. CASE ScanRound
  <2>1. Scanned
    BY <1>7, RoundsScan
  <2>2. errors = <<>>
    BY <1>3, <2>1 DEF Scanned
  <2>. QED
    BY <1>3, <1>5, <1>7, <2>2, DepthsOfRound
<1>8. CASE StartString \/ StringChar \/ (StringEscape /\ pos # Len(src)) \/ EndString
  <2>1. errors' = errors
    BY <1>8, StartStringDoes, StringGoesOn, EndStringDoes
  <2>. QED
    BY <1>3, <1>5, <1>8, <2>1, DepthsOfStrings
<1>9. CASE (StringEscape /\ pos = Len(src)) \/ BreakString
  BY <1>3, <1>9, StringFails
<1>10. CASE StartInterpolation
  <2>1. errors' = errors
    BY <1>10, StartInterpolationDoes, Zenon
  <2>. QED
    BY <1>3, <1>5, <1>10, <2>1, DepthsOfStart
<1>11. CASE InterpolationToken
  <2>1. errors' = errors
    BY <1>11, InterpolationTokenDoes
  <2>. QED
    BY <1>3, <1>5, <1>11, <2>1, DepthsOfInterpolationToken
<1>12. CASE EndInterpolation
  <2>1. errors' = errors
    BY <1>12, EndInterpolationDoes, Zenon
  <2>. QED
    BY <1>3, <1>5, <1>12, <2>1, DepthsOfEnd
<1>13. CASE BreakInterpolation
  BY <1>3, <1>13, BreakInterpolationDoes
<1>14. CASE UNCHANGED vars
  BY <1>3, <1>5, <1>14 DEF vars, cursor
<1>. QED
  BY <1>6, <1>7, <1>8, <1>9, <1>10, <1>11, <1>12, <1>13, <1>14 DEF Next, ScanRound

--------------------------------------------------------------------------------
\* The invariant, and the properties it implies.

\* The invariant holds at the start, part by part.
LEMMA InitTyped == ASSUME Init PROVE Typed /\ InTokenOf
<1>1. src \in Seq(Chars)
  BY SourcesAssumption DEF Init, Chars
<1>2. CursorTyped
  BY <1>1 DEF Init, CursorTyped
<1>3. StackTyped
  <2>1. indentStack = <<0>>
    BY DEF Init
  <2>2. Len(indentStack) = 1 /\ indentStack[1] = 0 /\ indentStack \in Seq(Nat)
    BY <2>1
  <2>. QED
    BY <2>2 DEF StackTyped
<1>4. calls \in Seq(StringCallSet \cup InterpCallSet) /\ CallsAlternate(calls)
  BY DEF Init, CallsAlternate
<1>5. tokens \in Seq(TokenSet) /\ errors \in Seq(Problems)
  BY DEF Init
<1>6. atLineStart \in BOOLEAN /\ inToken \in BOOLEAN /\ done \in BOOLEAN /\ ~inToken
  BY DEF Init
<1>. QED
  BY <1>2, <1>3, <1>4, <1>5, <1>6 DEF Typed, InTokenOf

LEMMA InitPlacesTrue == ASSUME Init PROVE PlacesTrue
<1>1. pos = 1 /\ line = 1 /\ col = 1 /\ tokens = <<>> /\ Len(tokens) = 0 /\ calls = <<>> /\ Len(calls) = 0
  BY DEF Init
<1>2. Here.line = 1 /\ Here.col = 1 /\ Here.from = 1
  BY <1>1 DEF Here
<1>3. BreaksIn(src, tokens, Here.from) = {}
  BY <1>2 DEF BreaksIn
<1>4. CountedFrom({}, Here)
  <2>1. Cardinality({}) = 0
    BY FS_EmptySet
  <2>. QED
    BY <1>2, <2>1 DEF CountedFrom
<1>5. TruePlace(Here)
  BY <1>3, <1>4, TrueIs DEF TrueIn
<1>. QED
  BY <1>1, <1>5 DEF PlacesTrue, PositionsTrue

LEMMA InitPieces == ASSUME Init PROVE Pieces
<1>1. tokens = <<>> /\ Len(tokens) = 0 /\ calls = <<>> /\ Len(calls) = 0 /\ calls \in Seq(CallSet)
  BY DEF Init
<1>2. NestingIn(tokens) = <<>>
  <2>1. Len(tokens) \in Nat /\ 0 \in 0 .. Len(tokens)
    BY <1>1
  <2>2. NestingFun(tokens)[0] = NestingStep(NestingFun(tokens), tokens, 0)
    BY <2>1, NestingUnfolds
  <2>. QED
    BY <1>1, <2>2 DEF NestingIn, NestingStep
<1>3. ShownIn(calls) = 0 /\ ~InPieces(calls) /\ LastOf(tokens) \notin Between
  BY <1>1 DEF ShownIn, InPieces, LastOf, Between
<1>4. FnsOf(calls, 0) = <<>>
  BY DEF FnsOf
<1>5. PiecesIn(calls, tokens)
  BY <1>2, <1>3, <1>4 DEF PiecesIn
<1>. QED
  BY <1>1, <1>5, PiecesAre DEF Pieces

\* The invariant holds at the start.
LEMMA InitInvariant == Init => IInv
<1> SUFFICES ASSUME Init PROVE IInv
  OBVIOUS
<1>1. tokens = <<>> /\ Len(tokens) = 0 /\ calls = <<>> /\ Len(calls) = 0
  BY DEF Init
<1>2. InterpTokens /\ LineStartBroken /\ Depths
  BY <1>1 DEF InterpTokens, LineStartBroken, Depths
<1>3. InterpsCounted
  <2>1. \A type : CountIn(tokens, type, 1, 0) = 0
    <3>1. \A i \in 1 .. 0 : FALSE
      OBVIOUS
    <3>. QED
      BY <3>1, CountNone
  <2>2. 0 \div 2 = 0
    OBVIOUS
  <2>3. CountedIn(calls, tokens)
    BY <1>1, <2>1, <2>2 DEF CountedIn
  <2>. QED
    BY <2>3, InterpsCountedIs
<1>. QED
  BY <1>2, <1>3, InitTyped, InitPlacesTrue, InitPieces DEF IInv

\* Every step keeps the invariant.
LEMMA StepInvariant == IInv /\ [Next]_vars => IInv'
<1> SUFFICES ASSUME Typed, InTokenOf, PlacesTrue, Pieces, InterpTokens, InterpsCounted, LineStartBroken, Depths,
                    [Next]_vars
             PROVE  IInv'
  BY DEF IInv
<1>1. StartsBehind
  BY DEF PlacesTrue, StartsBehind
<1>2. Typed' /\ InTokenOf'
  BY <1>1, EveryStep, StepTyped
<1>3. PlacesTrue'
  BY PlacesStayTrue
<1>4. Pieces'
  BY <1>1, PiecesStay
<1>5. InterpTokens'
  BY <1>1, InterpTokensStay
<1>6. InterpsCounted' /\ LineStartBroken'
  BY <1>1, InterpsStayCounted, LineStartsStayBroken
<1>7. Depths'
  BY <1>1, DepthsStay
<1>. QED
  BY <1>2, <1>3, <1>4, <1>5, <1>6, <1>7 DEF IInv

\* Wherever the scanner is in a text, the places it has kept for later are true,
\* the calls on its stack are the strings and interpolations that its tokens have
\* open, and each depth is the braces open there and the one counted ahead.
THEOREM LexerInvariant == Spec => []IInv
<1>. QED
  BY InitInvariant, StepInvariant, PTL DEF Spec

\* The stack of levels grows from zero, and calls of scanString and
\* scanInterpolation alternate, each with what its function keeps.
THEOREM LexerTypes == Spec => []TypeOK
<1>1. Typed => TypeOK
  <2> SUFFICES ASSUME Typed PROVE TypeOK
    OBVIOUS
  <2>1. CursorTyped /\ StackTyped /\ CallsAlternate(calls) /\ tokens \in Seq(TokenSet)
        /\ atLineStart \in BOOLEAN /\ inToken \in BOOLEAN /\ done \in BOOLEAN
    BY TypedFacts
  <2>2. \A i \in 2 .. Len(indentStack) : indentStack[i - 1] < indentStack[i]
    <3>1. \A n \in Nat : \A i \in 2 .. n : i - 1 \in 1 .. n /\ i \in 1 .. n /\ i - 1 < i
      OBVIOUS
    <3>2. Len(indentStack) \in Nat
      BY <2>1 DEF StackTyped
    <3>. QED
      BY <2>1, <3>1, <3>2 DEF StackTyped
  <2>3. ASSUME NEW i \in 1 .. Len(calls)
        PROVE  IF i % 2 = 1
               THEN calls[i].fn = "string" /\ calls[i].start \in Places
               ELSE calls[i].fn = "interp" /\ calls[i].depth \in Nat \ {0} /\ calls[i - 1].interp
    <3>1. IF i % 2 = 1 THEN calls[i] \in StringCallSet ELSE calls[i] \in InterpCallSet /\ calls[i - 1].interp
      BY <2>1 DEF CallsAlternate
    <3>. QED
      BY <3>1 DEF StringCallSet, InterpCallSet
  <2>. QED
    BY <2>1, <2>2, <2>3 DEF TypeOK, CursorTyped, StackTyped, TokenSet
<1>2. IInv => TypeOK
  BY <1>1 DEF IInv
<1>. QED
  BY <1>2, LexerInvariant, PTL

\* Every token but a NEWLINE says the line and the column where it stands,
\* unless a backslash at the end of a line is before it.
THEOREM PositionsStayTrue == Spec => []PositionsTrue
<1>1. IInv => PositionsTrue
  BY DEF IInv, PlacesTrue
<1>. QED
  BY <1>1, LexerInvariant, PTL

\* Without an error, a parser that nests the pieces of strings and the
\* interpolations by their tokens has open what the scanner has.
THEOREM PiecesAlwaysNest == Spec => []PiecesNest
<1>1. IInv => PiecesNest
  BY DEF IInv, Pieces, PiecesNest
<1>. QED
  BY <1>1, LexerInvariant, PTL

\* An interpolation on one line and without a block comment ends at the brace
\* that matches its own.
THEOREM DepthsCountBraces == Spec => []DepthCountsBraces
<1>1. IInv => DepthCountsBraces
  <2> SUFFICES ASSUME IInv, errors = <<>>, Running = "interp", ~inToken, ~BrokenInterpolation,
                      ~CommentIn(tokens[Top.since].from)
               PROVE  Top.depth = 1 + Count(Opening, Top.since, Len(tokens)) - Count(Shutting, Top.since, Len(tokens))
    BY Zenon DEF DepthCountsBraces, CommentIn, CommentAt, Opening, Shutting
  <2> DEFINE n == Len(calls)
             opened == Count(Opening, Top.since, Len(tokens))
             shut == Count(Shutting, Top.since, Len(tokens))
  <2>1. Typed /\ Depths /\ InterpTokens
    BY DEF IInv
  <2>2. n \in Nat /\ n > 1 /\ Top = calls[n] /\ Top \in InterpCallSet
    BY <2>1, TopFacts
  <2>3. n \in 1 .. n /\ calls[n].fn = "interp" /\ ~(n + 2 <= n)
    BY <2>2 DEF InterpCallSet
  <2>4. Top.depth = 1 + BracesOpen(n) + Ahead(n)
    BY <2>1, <2>2, <2>3 DEF Depths, First
  <2>5. BracesOpen(n) = opened - shut /\ Ahead(n) = 0
    BY <2>2, <2>3 DEF BracesOpen, First, Last, Ahead
  <2>6. opened \in Nat /\ shut \in Nat
    <3>1. Top.since \in Int /\ Len(tokens) \in Int
      BY <2>1, <2>2, TypedFacts DEF InterpCallSet
    <3>. QED
      BY <3>1, CountType DEF Count, CountIn, OfType
  <2> HIDE DEF opened, shut
  <2>7. Top.depth = 1 + opened - shut
    BY <2>4, <2>5, <2>6
  <2>. QED
    BY <2>7 DEF opened, shut
<1>. QED
  BY <1>1, LexerInvariant, PTL
================================================================================
