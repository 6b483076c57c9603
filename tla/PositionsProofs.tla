--------------------------- MODULE PositionsProofs ---------------------------
(***************************************************************************)
(* The builtins that compute positions and integers, for integers of any   *)
(* width, arrays of any length and any of the code's limits: what they     *)
(* return is in the array or between the bounds, is all of it, and no sum   *)
(* that wraps does more harm than named.  Induction is by the least number *)
(* that fails (LeastNat).                                                  *)
(***************************************************************************)
EXTENDS Positions, FiniteSetTheorems, WellFoundedInduction, TLAPS

\* There is one negative integer more than positive ones.
LEMMA IntFacts == MaxInt \in Nat /\ MinInt = -MaxInt - 1 /\ MinInt \in Int /\ IntBits \in Nat
  BY ScalarsAssumption DEF MaxInt, MinInt

\* An integer stays as it is; a sum or a difference of two comes back by the whole width.
LEMMA WrapFacts ==
    ASSUME NEW n \in Int
    PROVE  /\ Wrap(n) \in IntRange
           /\ n \in IntRange => Wrap(n) = n
           /\ n > MaxInt /\ n <= 3 * MaxInt + 2 => Wrap(n) = n - 2 * MaxInt - 2
           /\ n < MinInt /\ n >= 3 * MinInt => Wrap(n) = n + 2 * MaxInt + 2
<1> DEFINE w == 2 * MaxInt + 2
           x == n - MinInt
<1>1. Wrap(n) = (x % w) + MinInt /\ w \in Nat /\ w > 0 /\ x \in Int
  BY IntFacts DEF Wrap
<1>2. \A y \in Int : y % w \in 0 .. w - 1 /\ (0 <= y /\ y < w => y % w = y)
          /\ (w <= y /\ y < 2 * w => y % w = y - w) /\ (-w <= y /\ y < 0 => y % w = y + w)
  BY <1>1
<1>. QED
  BY <1>1, <1>2, IntFacts DEF IntRange

--------------------------------------------------------------------------------
\* Arrays and their pieces.

\* An array and an integer are what they are made from.
LEMMA ArrFacts ==
    ASSUME NEW s, NEW n
    PROVE  /\ IsArray(Arr(s)) /\ Items(Arr(s)) = s /\ Arr(s)[2] = s
           /\ ToInt(Int64(n)) = n /\ Int64(n)[2] = n
           /\ Arr(s) # Panics /\ Arr(s) # Fails /\ Int64(n) # Panics
  BY DEF IsArray, Items, Arr, Kind, ToInt, Int64, Panics, Fails

\* arr[from:to] has the elements from one position to the other.
LEMMA PartFacts ==
    ASSUME NEW V, NEW s \in Seq(V), NEW from \in Int, NEW to \in Int, 0 <= from, to <= Len(s)
    PROVE  /\ Part(s, from, to) \in Seq(V)
           /\ Len(Part(s, from, to)) = IF from <= to THEN to - from ELSE 0
           /\ DOMAIN Part(s, from, to) = 1 .. Len(Part(s, from, to))
           /\ \A j \in 1 .. to - from : Part(s, from, to)[j] = s[from + j]
  BY DEF Part

\* Pieces are within the array.
LEMMA PartWithin ==
    ASSUME NEW V, NEW s \in Seq(V), NEW from \in Int, NEW to \in Int, 0 <= from, to <= Len(s)
    PROVE  Within(Arr(Part(s, from, to)), Arr(s))
<1> DEFINE p == Part(s, from, to)
<1>1. \A j \in DOMAIN p : from + j \in DOMAIN s /\ p[j] = s[from + j]
  BY PartFacts
<1>2. Range(p) \subseteq Range(s)
  BY <1>1 DEF Range
<1>. QED
  BY <1>2, ArrFacts DEF Within

\* So are the array itself and the empty one.
LEMMA EndsWithin ==
    ASSUME NEW V, NEW s \in Seq(V)
    PROVE  Within(Arr(s), Arr(s)) /\ Within(Arr(<<>>), Arr(s))
<1>1. Range(<<>>) = {}
  BY DEF Range
<1>. QED
  BY <1>1, ArrFacts DEF Within

\* A position that a program gives is brought into the array.
LEMMA IndexResolved ==
    ASSUME NEW i \in Int, NEW length \in Nat
    PROVE  ResolveIndex(i, length) \in 0 .. length
  BY DEF ResolveIndex

\* What head returns, for an array and an integer.
LEMMA HeadIs ==
    ASSUME NEW V, NEW s \in Seq(V), NEW n \in Int
    PROVE  FnHead(Arr(s), Int64(n)) =
               IF n >= Len(s) THEN Arr(s) ELSE IF n <= 0 THEN Arr(<<>>) ELSE Arr(Part(s, 0, n))
  BY ArrFacts DEF FnHead, OnArray

\* What tail returns.
LEMMA TailIs ==
    ASSUME NEW V, NEW s \in Seq(V), NEW n \in Int
    PROVE  FnTail(Arr(s), Int64(n)) =
               IF n >= Len(s) THEN Arr(s)
               ELSE IF n <= 0 THEN Arr(<<>>) ELSE Arr(Part(s, Len(s) - n, Len(s)))
  BY ArrFacts DEF FnTail, OnArray

\* What slice returns, given both positions.
LEMMA SliceIs ==
    ASSUME NEW V, NEW s \in Seq(V), NEW n \in Int, NEW m \in Int
    PROVE  FnSlice(<<Arr(s), Int64(n), Int64(m)>>) =
               IF ResolveIndex(m, Len(s)) < ResolveIndex(n, Len(s)) THEN Arr(<<>>)
               ELSE Arr(Part(s, ResolveIndex(n, Len(s)), ResolveIndex(m, Len(s))))
<1> DEFINE args == <<Arr(s), Int64(n), Int64(m)>>
<1>1. args[1] = Arr(s) /\ args[2] = Int64(n) /\ args[3] = Int64(m) /\ Len(args) > 2
  OBVIOUS
<1> HIDE DEF args
<1>2. FnSlice(args) =
          IF ResolveIndex(m, Len(s)) < ResolveIndex(n, Len(s)) THEN Arr(<<>>)
          ELSE Arr(Part(s, ResolveIndex(n, Len(s)), ResolveIndex(m, Len(s))))
  BY <1>1, ArrFacts DEF FnSlice, OnArray
<1>. QED
  BY <1>2 DEF args

\* What slice returns, given the first position only.
LEMMA SliceToEndIs ==
    ASSUME NEW V, NEW s \in Seq(V), NEW n \in Int
    PROVE  FnSlice(<<Arr(s), Int64(n)>>) = Arr(Part(s, ResolveIndex(n, Len(s)), Len(s)))
<1> DEFINE args == <<Arr(s), Int64(n)>>
<1>1. args[1] = Arr(s) /\ args[2] = Int64(n) /\ ~(Len(args) > 2)
  OBVIOUS
<1> HIDE DEF args
<1>2. FnSlice(args) =
          IF Len(s) < ResolveIndex(n, Len(s)) THEN Arr(<<>>)
          ELSE Arr(Part(s, ResolveIndex(n, Len(s)), Len(s)))
  BY <1>1, ArrFacts DEF FnSlice, OnArray
<1>3. ~(Len(s) < ResolveIndex(n, Len(s)))
  BY IndexResolved
<1>. QED
  BY <1>2, <1>3 DEF args

\* What windows returns.
LEMMA WindowsAre ==
    ASSUME NEW V, NEW s \in Seq(V), NEW n \in Int
    PROVE  FnWindows(Arr(s), Int64(n)) =
               Arr(IF n <= 0 \/ n > Len(s) THEN <<>>
                   ELSE [k \in 1 .. Len(s) - n + 1 |-> Arr(Part(s, k - 1, k - 1 + n))])
  BY ArrFacts DEF FnWindows, OnArray

--------------------------------------------------------------------------------
\* chunk.

\* Products keep the order of their factors.
LEMMA ProductOrder ==
    ASSUME NEW n \in Nat, NEW i \in Int, NEW j \in Int, i <= j
    PROVE  i * n \in Int /\ j * n \in Int /\ i * n <= j * n
<1>1. j - i \in Nat
  OBVIOUS
<1>2. (j - i) * n \in Nat
  BY <1>1
<1>3. (j - i) * n = j * n - i * n
  OBVIOUS
<1>. QED
  BY <1>2, <1>3

\* What is left of a number divided by another is less than that.
LEMMA Divided ==
    ASSUME NEW x \in Nat, NEW n \in Nat, n > 0
    PROVE  x \div n \in Nat /\ (x \div n) * n <= x /\ x < (x \div n) * n + n
  OBVIOUS

\* How many pieces of n there are, where each ends, and when room for them cannot be made.
PieceCount(len, n) == (len + n - 1) \div n
PieceEnd(len, n, k) == IF ((k - 1) + 1) * n > len THEN len ELSE ((k - 1) + 1) * n
PieceAt(s, n, k) == Arr(Part(s, (k - 1) * n, PieceEnd(Len(s), n, k)))
NoCapacity(len, n) == Quot(Wrap(Wrap(len + n) - 1), n) < 0

\* Each piece begins in the array, all but the last are full, and the last one ends the array.
LEMMA PieceBounds ==
    ASSUME NEW len \in Nat, NEW n \in Nat, n > 0
    PROVE  /\ PieceCount(len, n) \in Nat
           /\ \A k \in 1 .. PieceCount(len, n) :
                  /\ (k - 1) * n \in Nat /\ (k - 1) * n < len
                  /\ PieceEnd(len, n, k) \in Nat /\ PieceEnd(len, n, k) <= len
                  /\ (k - 1) * n < PieceEnd(len, n, k) /\ PieceEnd(len, n, k) <= (k - 1) * n + n
                  /\ k < PieceCount(len, n) => PieceEnd(len, n, k) = (k - 1) * n + n
                  /\ k = PieceCount(len, n) => PieceEnd(len, n, k) = len
           /\ len > 0 => PieceCount(len, n) > 0
<1> DEFINE q == PieceCount(len, n)
           x == len + n - 1
<1>1. x \in Nat /\ q = x \div n
  BY DEF PieceCount
<1>2. q \in Nat /\ q * n \in Int /\ q * n <= x /\ x < q * n + n
  BY <1>1, Divided
<1> HIDE DEF q
<1>3. ASSUME NEW k \in 1 .. q
      PROVE  /\ (k - 1) * n \in Nat /\ (k - 1) * n < len
             /\ PieceEnd(len, n, k) \in Nat /\ PieceEnd(len, n, k) <= len
             /\ (k - 1) * n < PieceEnd(len, n, k) /\ PieceEnd(len, n, k) <= (k - 1) * n + n
             /\ k < q => PieceEnd(len, n, k) = (k - 1) * n + n
             /\ k = q => PieceEnd(len, n, k) = len
  <2> DEFINE from == (k - 1) * n
  <2>1. from \in Nat
    OBVIOUS
  <2>2. ((k - 1) + 1) * n = from + n
    OBVIOUS
  <2>3. ((k - 1) + 1) * n <= q * n
    <3>1. (k - 1) + 1 \in Int /\ (k - 1) + 1 <= q
      BY <1>2
    <3>. QED
      BY <1>2, <3>1, ProductOrder
  <2>4. from + n <= q * n
    BY <2>2, <2>3
  <2>5. PieceEnd(len, n, k) = IF from + n > len THEN len ELSE from + n
    BY <2>2 DEF PieceEnd
  <2>6. k < q => from + n <= len
    <3>1. ASSUME k < q PROVE (((k - 1) + 1) + 1) * n <= q * n
      <4>1. ((k - 1) + 1) + 1 \in Int /\ ((k - 1) + 1) + 1 <= q
        BY <1>2, <3>1
      <4>. QED
        BY <1>2, <4>1, ProductOrder
    <3>2. (((k - 1) + 1) + 1) * n = from + n + n
      OBVIOUS
    <3>. QED
      BY <1>2, <2>1, <3>1, <3>2
  <2>7. k = q => from + n >= len
    <3>1. k = q => ((k - 1) + 1) * n = q * n
      BY <1>2
    <3>. QED
      BY <1>2, <2>1, <2>2, <3>1
  <2>8. from < len
    BY <1>2, <2>1, <2>4
  <2> HIDE DEF from
  <2>9. /\ PieceEnd(len, n, k) \in Nat /\ PieceEnd(len, n, k) <= len
        /\ from < PieceEnd(len, n, k) /\ PieceEnd(len, n, k) <= from + n
        /\ k < q => PieceEnd(len, n, k) = from + n
        /\ k = q => PieceEnd(len, n, k) = len
    BY <2>1, <2>5, <2>6, <2>7, <2>8
  <2>. QED
    BY <2>1, <2>8, <2>9 DEF from
<1>4. len > 0 => q > 0
  <2>1. 0 * n = 0
    OBVIOUS
  <2>2. len > 0 => q # 0
    BY <1>2, <2>1
  <2>. QED
    BY <1>2, <2>2
<1>. QED
  BY <1>2, <1>3, <1>4 DEF q

\* Division that truncates is not negative for what is not.
LEMMA QuotNatural ==
    ASSUME NEW x \in Nat, NEW n \in Nat, n > 0
    PROVE  Quot(x, n) \in Nat
<1>1. Sign(x) = 1 /\ Sign(n) = 1 /\ Abs(x) = x /\ Abs(n) = n
  BY DEF Sign, Abs
<1>2. x \div n \in Nat
  BY Divided
<1>. QED
  BY <1>1, <1>2 DEF Quot

\* The capacity of the result of chunk is not negative unless its sum wraps.
LEMMA CapacityFits ==
    ASSUME NEW len \in Nat, len <= MaxInt, NEW n \in IntRange, n > 0, len + n - 1 <= MaxInt
    PROVE  ~NoCapacity(len, n)
<1>1. MaxInt \in Nat /\ MinInt = -MaxInt - 1 /\ n \in Int /\ n <= MaxInt
  BY IntFacts DEF IntRange
<1>2. Wrap(Wrap(len + n) - 1) = len + n - 1
  <2>1. CASE len + n <= MaxInt
    <3>1. len + n \in IntRange /\ len + n - 1 \in IntRange
      BY <1>1, <2>1 DEF IntRange
    <3>2. Wrap(len + n) = len + n /\ Wrap(len + n - 1) = len + n - 1
      BY <1>1, <3>1, WrapFacts
    <3>. QED
      BY <1>1, <3>2
  <2>2. CASE len + n > MaxInt
    <3>1. len + n = MaxInt + 1
      BY <1>1, <2>2
    <3>2. Wrap(len + n) = MinInt
      BY <1>1, <3>1, WrapFacts
    <3>3. Wrap(MinInt - 1) = MaxInt
      BY <1>1, WrapFacts
    <3>. QED
      BY <1>1, <3>1, <3>2, <3>3
  <2>. QED
    BY <1>1, <2>1, <2>2
<1>3. len + n - 1 \in Nat /\ n \in Nat
  BY <1>1
<1>4. Quot(len + n - 1, n) \in Nat
  BY <1>3, QuotNatural
<1>. QED
  BY <1>2, <1>4 DEF NoCapacity

\* What chunk returns, when it does.
LEMMA ChunkIs ==
    ASSUME NEW V, NEW s \in Seq(V), NEW n \in Int
    PROVE  FnChunk(Arr(s), Int64(n)) =
               IF n <= 0 THEN Arr(<<Arr(s)>>)
               ELSE IF NoCapacity(Len(s), n) THEN Panics
               ELSE Arr([k \in 1 .. PieceCount(Len(s), n) |-> PieceAt(s, n, k)])
  BY ArrFacts DEF FnChunk, OnArray, PieceCount, PieceEnd, PieceAt, NoCapacity

--------------------------------------------------------------------------------
\* Nothing outside an array is reached.

\* chunk panics only when its sum wraps, and its pieces are within the array.
LEMMA ChunkWithin ==
    ASSUME NEW V, NEW s \in Seq(V), Len(s) <= MaxInt, NEW n \in IntRange
    PROVE  IF FnChunk(Arr(s), Int64(n)) = Panics THEN n + Len(s) - 1 > MaxInt
           ELSE PiecesWithin(FnChunk(Arr(s), Int64(n)), Arr(s))
<1>1. n \in Int /\ Len(s) \in Nat /\ MaxInt \in Nat
  BY IntFacts DEF IntRange
<1>2. CASE n <= 0
  <2> DEFINE one == <<Arr(s)>>
  <2>1. FnChunk(Arr(s), Int64(n)) = Arr(one)
    BY <1>1, <1>2, ChunkIs
  <2>2. \A k \in DOMAIN one : one[k] = Arr(s)
    OBVIOUS
  <2> HIDE DEF one
  <2>3. PiecesWithin(Arr(one), Arr(s))
    BY <2>2, ArrFacts, EndsWithin DEF PiecesWithin
  <2>. QED
    BY <2>1, <2>3, ArrFacts
<1>3. CASE n > 0 /\ NoCapacity(Len(s), n)
  <2>0. ~(n <= 0)
    BY <1>1, <1>3
  <2>1. FnChunk(Arr(s), Int64(n)) = Panics
    BY <1>1, <1>3, <2>0, ChunkIs, Zenon
  <2>2. ~(Len(s) + n - 1 <= MaxInt)
    BY <1>1, <1>3, CapacityFits
  <2>. QED
    BY <1>1, <2>1, <2>2
<1>4. CASE n > 0 /\ ~NoCapacity(Len(s), n)
  <2> DEFINE pieces == [k \in 1 .. PieceCount(Len(s), n) |-> PieceAt(s, n, k)]
  <2>0. ~(n <= 0)
    BY <1>1, <1>4
  <2>1. FnChunk(Arr(s), Int64(n)) = Arr(pieces)
    BY <1>1, <1>4, <2>0, ChunkIs, Zenon
  <2>2. \A k \in 1 .. PieceCount(Len(s), n) : Within(PieceAt(s, n, k), Arr(s))
    <3>1. TAKE k \in 1 .. PieceCount(Len(s), n)
    <3>2. (k - 1) * n \in Nat /\ PieceEnd(Len(s), n, k) \in Nat /\ PieceEnd(Len(s), n, k) <= Len(s)
      BY <1>1, <1>4, PieceBounds
    <3> DEFINE from == (k - 1) * n
               to == PieceEnd(Len(s), n, k)
    <3>3. from \in Int /\ to \in Int /\ 0 <= from /\ to <= Len(s)
      BY <3>2
    <3> HIDE DEF from, to
    <3>4. Within(Arr(Part(s, from, to)), Arr(s))
      BY <3>3, PartWithin
    <3>. QED
      BY <3>4 DEF from, to, PieceAt
  <2>3. \A k \in DOMAIN pieces : Within(pieces[k], Arr(s))
    BY <2>2
  <2> HIDE DEF pieces
  <2>4. PiecesWithin(Arr(pieces), Arr(s))
    BY <2>3, ArrFacts DEF PiecesWithin
  <2>. QED
    BY <2>1, <2>4, ArrFacts
<1>. QED
  BY <1>1, <1>2, <1>3, <1>4

\* So are the windows.
LEMMA WindowsWithin ==
    ASSUME NEW V, NEW s \in Seq(V), NEW n \in Int
    PROVE  PiecesWithin(FnWindows(Arr(s), Int64(n)), Arr(s))
<1> DEFINE window(k) == Arr(Part(s, k - 1, k - 1 + n))
           some == [k \in 1 .. Len(s) - n + 1 |-> window(k)]
<1>1. CASE n <= 0 \/ n > Len(s)
  <2>1. FnWindows(Arr(s), Int64(n)) = Arr(<<>>)
    BY <1>1, WindowsAre
  <2>2. PiecesWithin(Arr(<<>>), Arr(s))
    BY ArrFacts DEF PiecesWithin
  <2>. QED
    BY <2>1, <2>2
<1>2. CASE 0 < n /\ n <= Len(s)
  <2>1. FnWindows(Arr(s), Int64(n)) = Arr(some)
    BY <1>2, WindowsAre
  <2>2. \A k \in 1 .. Len(s) - n + 1 : Within(window(k), Arr(s))
    <3>1. TAKE k \in 1 .. Len(s) - n + 1
    <3>2. k - 1 \in Int /\ k - 1 + n \in Int /\ 0 <= k - 1 /\ k - 1 + n <= Len(s)
      BY <1>2
    <3>. QED
      BY <3>2, PartWithin
  <2> HIDE DEF window
  <2>3. \A k \in DOMAIN some : Within(some[k], Arr(s))
    BY <2>2
  <2> HIDE DEF some
  <2>. QED
    BY <2>1, <2>3, ArrFacts DEF PiecesWithin
<1>. QED
  BY <1>1, <1>2

\* Whatever integers are passed, of any width, the builtins that compute positions return
\* elements of their array; chunk alone panics, when its size and the length wrap.
THEOREM PositionsStayInBounds ==
    ASSUME NEW V, NEW s \in Seq(V), Len(s) <= MaxInt, NEW n \in IntRange, NEW m \in IntRange
    PROVE  InBounds(Arr(s), n, m)
<1>1. n \in Int /\ m \in Int /\ Len(s) \in Nat
  BY IntFacts DEF IntRange
<1>2. Within(FnHead(Arr(s), Int64(n)), Arr(s))
  <2>1. 0 < n /\ n < Len(s) => Within(Arr(Part(s, 0, n)), Arr(s))
    BY <1>1, PartWithin
  <2>. QED
    BY <1>1, <2>1, HeadIs, EndsWithin
<1>3. Within(FnTail(Arr(s), Int64(n)), Arr(s))
  <2>1. 0 < n /\ n < Len(s) => Within(Arr(Part(s, Len(s) - n, Len(s))), Arr(s))
    <3>1. 0 < n /\ n < Len(s) => 0 <= Len(s) - n /\ Len(s) - n \in Int
      BY <1>1
    <3>. QED
      BY <1>1, <3>1, PartWithin
  <2>. QED
    BY <1>1, <2>1, TailIs, EndsWithin
<1>4. Within(FnSlice(<<Arr(s), Int64(n), Int64(m)>>), Arr(s))
  <2>1. ResolveIndex(n, Len(s)) \in 0 .. Len(s) /\ ResolveIndex(m, Len(s)) \in 0 .. Len(s)
    BY <1>1, IndexResolved
  <2>2. Within(Arr(Part(s, ResolveIndex(n, Len(s)), ResolveIndex(m, Len(s)))), Arr(s))
    BY <1>1, <2>1, PartWithin
  <2>. QED
    BY <1>1, <2>2, SliceIs, EndsWithin
<1>5. PiecesWithin(FnWindows(Arr(s), Int64(n)), Arr(s))
  BY <1>1, WindowsWithin
<1>6. IF FnChunk(Arr(s), Int64(n)) = Panics THEN n + Len(s) - 1 > MaxInt
      ELSE PiecesWithin(FnChunk(Arr(s), Int64(n)), Arr(s))
  BY ChunkWithin
<1>7. Items(Arr(s)) = s
  BY ArrFacts
<1>. QED
  BY <1>2, <1>3, <1>4, <1>5, <1>6, <1>7 DEF InBounds

--------------------------------------------------------------------------------
\* The pieces are the array.

\* Sequences are equal when they are as long and have the same elements.
LEMMA SameElements ==
    ASSUME NEW V, NEW p \in Seq(V), NEW q \in Seq(V), Len(p) = Len(q), \A j \in 1 .. Len(p) : p[j] = q[j]
    PROVE  p = q
  OBVIOUS

\* Two pieces that meet make the array.
LEMMA PartsJoin ==
    ASSUME NEW V, NEW s \in Seq(V), NEW k \in 0 .. Len(s)
    PROVE  Part(s, 0, k) \o Part(s, k, Len(s)) = s
<1> DEFINE p == Part(s, 0, k)
           q == Part(s, k, Len(s))
<1>1. k \in Int /\ 0 <= k /\ k <= Len(s) /\ Len(s) \in Nat /\ Len(s) \in Int /\ 0 \in Int
  OBVIOUS
<1>2. p \in Seq(V) /\ Len(p) = k /\ \A j \in 1 .. k : p[j] = s[j]
  <2>1. /\ p \in Seq(V) /\ Len(p) = IF 0 <= k THEN k - 0 ELSE 0
        /\ \A j \in 1 .. k - 0 : p[j] = s[0 + j]
    BY <1>1, PartFacts
  <2>. QED
    BY <1>1, <2>1
<1>3. q \in Seq(V) /\ Len(q) = Len(s) - k /\ \A j \in 1 .. Len(s) - k : q[j] = s[k + j]
  <2>1. /\ q \in Seq(V) /\ Len(q) = IF k <= Len(s) THEN Len(s) - k ELSE 0
        /\ \A j \in 1 .. Len(s) - k : q[j] = s[k + j]
    BY <1>1, PartFacts
  <2>. QED
    BY <1>1, <2>1
<1> HIDE DEF p, q
<1>4. p \o q \in Seq(V) /\ Len(p \o q) = Len(s)
  BY <1>1, <1>2, <1>3
<1>5. \A j \in 1 .. Len(s) : (p \o q)[j] = s[j]
  <2>1. TAKE j \in 1 .. Len(s)
  <2>2. CASE j <= k
    BY <1>1, <1>2, <1>3, <2>2
  <2>3. CASE j > k
    <3>1. (p \o q)[j] = q[j - k]
      BY <1>1, <1>2, <1>3, <2>3
    <3>2. j - k \in 1 .. Len(s) - k /\ k + (j - k) = j
      BY <1>1, <2>3
    <3>. QED
      BY <1>3, <3>1, <3>2
  <2>4. j <= k \/ j > k
    BY <1>1
  <2>. QED
    BY <2>2, <2>3, <2>4, Zenon
<1>6. p \o q = s
  BY <1>4, <1>5, SameElements
<1>. QED
  BY <1>6 DEF p, q

\* The whole of an array, and pieces without length.
LEMMA PartsAtEnds ==
    ASSUME NEW V, NEW s \in Seq(V)
    PROVE  /\ Part(s, 0, Len(s)) = s /\ Part(s, Len(s), Len(s)) = <<>> /\ Part(s, 0, 0) = <<>>
           /\ <<>> \in Seq(V) /\ s \o <<>> = s /\ <<>> \o s = s
  BY DEF Part

\* head leaves what slice takes from there on.
LEMMA HeadAndRest ==
    ASSUME NEW V, NEW s \in Seq(V), NEW n \in Int, n >= 0
    PROVE  Items(FnHead(Arr(s), Int64(n))) \o Items(FnSlice(<<Arr(s), Int64(n)>>)) = s
<1> DEFINE k == IF n >= Len(s) THEN Len(s) ELSE n
<1>1. Len(s) \in Nat /\ k \in 0 .. Len(s)
  OBVIOUS
<1>2. ResolveIndex(n, Len(s)) = k
  BY <1>1 DEF ResolveIndex
<1>3. Items(FnSlice(<<Arr(s), Int64(n)>>)) = Part(s, k, Len(s))
  BY <1>2, SliceToEndIs, ArrFacts
<1>4. Items(FnHead(Arr(s), Int64(n))) = Part(s, 0, k)
  <2>1. CASE n >= Len(s)
    BY <2>1, HeadIs, ArrFacts, PartsAtEnds
  <2>2. CASE n < Len(s) /\ n > 0
    BY <1>1, <2>2, HeadIs, ArrFacts
  <2>3. CASE n < Len(s) /\ n = 0
    BY <1>1, <2>3, HeadIs, ArrFacts, PartsAtEnds
  <2>. QED
    BY <1>1, <2>1, <2>2, <2>3
<1> HIDE DEF k
<1>5. Part(s, 0, k) \o Part(s, k, Len(s)) = s
  BY <1>1, PartsJoin
<1>. QED
  BY <1>3, <1>4, <1>5, Zenon

\* tail leaves what slice takes up to there.
LEMMA RestAndTail ==
    ASSUME NEW V, NEW s \in Seq(V), NEW n \in Int, n > 0
    PROVE  Items(FnSlice(<<Arr(s), Int64(0), Int64(-n)>>)) \o Items(FnTail(Arr(s), Int64(n))) = s
<1> DEFINE k == IF n >= Len(s) THEN 0 ELSE Len(s) - n
<1>1. Len(s) \in Nat /\ k \in 0 .. Len(s) /\ ~(k < 0) /\ -n \in Int /\ -n < 0 /\ 0 \in Int
  OBVIOUS
<1>2. ResolveIndex(0, Len(s)) = 0 /\ ResolveIndex(-n, Len(s)) = k
  BY <1>1 DEF ResolveIndex
<1>3. Items(FnSlice(<<Arr(s), Int64(0), Int64(-n)>>)) = Part(s, 0, k)
  <2> DEFINE m == -n
  <2>1. m \in Int /\ 0 \in Int /\ ResolveIndex(0, Len(s)) = 0 /\ ResolveIndex(m, Len(s)) = k
    BY <1>1, <1>2
  <2> HIDE DEF m, k
  <2>2. FnSlice(<<Arr(s), Int64(0), Int64(m)>>) = IF k < 0 THEN Arr(<<>>) ELSE Arr(Part(s, 0, k))
    <3>1. FnSlice(<<Arr(s), Int64(0), Int64(m)>>) =
              IF ResolveIndex(m, Len(s)) < ResolveIndex(0, Len(s)) THEN Arr(<<>>)
              ELSE Arr(Part(s, ResolveIndex(0, Len(s)), ResolveIndex(m, Len(s))))
      BY <2>1, SliceIs
    <3>. QED
      BY <2>1, <3>1
  <2>. QED
    BY <1>1, <2>2, ArrFacts DEF m
<1>4. Items(FnTail(Arr(s), Int64(n))) = Part(s, k, Len(s))
  <2>1. CASE n >= Len(s)
    BY <1>1, <2>1, TailIs, ArrFacts, PartsAtEnds
  <2>2. CASE n < Len(s)
    BY <1>1, <2>2, TailIs, ArrFacts
  <2>. QED
    BY <1>1, <2>1, <2>2
<1> HIDE DEF k
<1>5. Part(s, 0, k) \o Part(s, k, Len(s)) = s
  BY <1>1, PartsJoin
<1>. QED
  BY <1>3, <1>4, <1>5, Zenon

\* Backwards, the head is the tail.
LEMMA HeadBackwards ==
    ASSUME NEW V, NEW s \in Seq(V), NEW n \in Int
    PROVE  FnReverseArr(FnHead(Arr(s), Int64(n))) = FnTail(FnReverseArr(Arr(s)), Int64(n))
<1>1. \A p \in Seq(V) : FnReverseArr(Arr(p)) = Arr(Reverse(p))
  BY ArrFacts DEF FnReverseArr, OnArray
<1>2. \A p \in Seq(V) : /\ Reverse(p) \in Seq(V) /\ Len(Reverse(p)) = Len(p)
                        /\ \A i \in 1 .. Len(p) : Reverse(p)[i] = p[(Len(p) - i) + 1]
  BY DEF Reverse
<1>3. <<>> \in Seq(V) /\ Reverse(<<>>) = <<>>
  BY DEF Reverse
<1> DEFINE r == Reverse(s)
<1>4. r \in Seq(V) /\ Len(r) = Len(s) /\ Len(s) \in Nat
  BY <1>2
<1>5. FnReverseArr(Arr(s)) = Arr(r)
  BY <1>1
<1>6. CASE n >= Len(s)
  <2>1. FnHead(Arr(s), Int64(n)) = Arr(s)
    BY <1>6, HeadIs
  <2>2. FnTail(Arr(r), Int64(n)) = Arr(r)
    BY <1>4, <1>6, TailIs
  <2>. QED
    BY <1>5, <2>1, <2>2
<1>7. CASE n < Len(s) /\ n <= 0
  <2>1. FnHead(Arr(s), Int64(n)) = Arr(<<>>)
    BY <1>4, <1>7, HeadIs
  <2>2. FnTail(Arr(r), Int64(n)) = Arr(<<>>)
    BY <1>4, <1>7, TailIs
  <2>. QED
    BY <1>1, <1>3, <1>5, <2>1, <2>2
<1>8. CASE n < Len(s) /\ n > 0
  <2> DEFINE p == Part(s, 0, n)
             q == Part(r, Len(r) - n, Len(r))
  <2>1. p \in Seq(V) /\ Len(p) = n /\ \A j \in 1 .. n : p[j] = s[j]
    <3>1. /\ p \in Seq(V) /\ Len(p) = IF 0 <= n THEN n - 0 ELSE 0
          /\ \A j \in 1 .. n - 0 : p[j] = s[0 + j]
      BY <1>4, <1>8, PartFacts
    <3>. QED
      BY <1>8, <3>1
  <2>2. q \in Seq(V) /\ Len(q) = n /\ \A j \in 1 .. n : q[j] = r[(Len(r) - n) + j]
    <3>1. Len(r) - n \in Int /\ 0 <= Len(r) - n /\ Len(r) \in Int /\ Len(r) <= Len(r) /\ Len(r) - n <= Len(r)
      BY <1>4, <1>8
    <3>2. /\ q \in Seq(V) /\ Len(q) = IF Len(r) - n <= Len(r) THEN Len(r) - (Len(r) - n) ELSE 0
          /\ \A j \in 1 .. Len(r) - (Len(r) - n) : q[j] = r[(Len(r) - n) + j]
      BY <1>4, <3>1, PartFacts
    <3>3. Len(r) - (Len(r) - n) = n
      BY <1>4
    <3>. QED
      BY <3>1, <3>2, <3>3
  <2>3. FnHead(Arr(s), Int64(n)) = Arr(p)
    BY <1>4, <1>8, HeadIs
  <2>4. FnTail(Arr(r), Int64(n)) = Arr(q)
    BY <1>4, <1>8, TailIs
  <2> HIDE DEF p, q
  <2>5. \A j \in 1 .. n : Reverse(p)[j] = q[j]
    <3>1. TAKE j \in 1 .. n
    <3>2. Reverse(p)[j] = p[(n - j) + 1]
      BY <1>2, <2>1
    <3>3. (n - j) + 1 \in 1 .. n
      BY <1>8
    <3>4. p[(n - j) + 1] = s[(n - j) + 1]
      BY <2>1, <3>3
    <3>5. (Len(s) - n) + j \in 1 .. Len(s) /\ (Len(s) - ((Len(s) - n) + j)) + 1 = (n - j) + 1
      BY <1>4, <1>8
    <3>6. r[(Len(s) - n) + j] = s[(n - j) + 1]
      BY <1>2, <3>5
    <3>. QED
      BY <1>4, <2>2, <3>2, <3>4, <3>6
  <2>6. Reverse(p) \in Seq(V) /\ Len(Reverse(p)) = n
    BY <1>2, <2>1
  <2>7. Reverse(p) = q
    BY <2>2, <2>5, <2>6, SameElements
  <2>. QED
    BY <1>1, <1>5, <2>1, <2>3, <2>4, <2>7
<1>. QED
  BY <1>4, <1>6, <1>7, <1>8

\* A window is what slice takes.
LEMMA WindowIsSlice ==
    ASSUME NEW V, NEW s \in Seq(V), NEW n \in Int, NEW k \in DOMAIN FnWindows(Arr(s), Int64(n))[2]
    PROVE  FnWindows(Arr(s), Int64(n))[2][k] = FnSlice(<<Arr(s), Int64(k - 1), Int64(k - 1 + n)>>)
<1> DEFINE some == [i \in 1 .. Len(s) - n + 1 |-> Arr(Part(s, i - 1, i - 1 + n))]
<1>1. FnWindows(Arr(s), Int64(n)) = Arr(IF n <= 0 \/ n > Len(s) THEN <<>> ELSE some)
  BY WindowsAre
<1> HIDE DEF some
<1>2. FnWindows(Arr(s), Int64(n))[2] = IF n <= 0 \/ n > Len(s) THEN <<>> ELSE some
  BY <1>1, ArrFacts
<1>3. 0 < n /\ n <= Len(s)
  BY <1>2
<1>4. k \in DOMAIN some
  BY <1>2, <1>3
<1>5. k \in 1 .. Len(s) - n + 1 /\ some[k] = Arr(Part(s, k - 1, k - 1 + n))
  BY <1>4 DEF some
<1>6. Len(s) \in Nat /\ k - 1 \in Int /\ k - 1 + n \in Int
  BY <1>5
<1>7. ResolveIndex(k - 1, Len(s)) = k - 1
  BY <1>3, <1>5, <1>6 DEF ResolveIndex
<1>8. ResolveIndex(k - 1 + n, Len(s)) = k - 1 + n /\ ~(k - 1 + n < k - 1)
  BY <1>3, <1>5, <1>6 DEF ResolveIndex
<1>9. FnSlice(<<Arr(s), Int64(k - 1), Int64(k - 1 + n)>>) = Arr(Part(s, k - 1, k - 1 + n))
  BY <1>6, <1>7, <1>8, SliceIs
<1>. QED
  BY <1>2, <1>3, <1>5, <1>9

\* All chunks but the last are full, and each has the elements from where the one before it ended.
LEMMA ChunksFit ==
    ASSUME NEW V, NEW s \in Seq(V), s # <<>>, NEW n \in Int, n > 0, FnChunk(Arr(s), Int64(n)) # Panics
    PROVE  AreChunks(FnChunk(Arr(s), Int64(n))[2], s, n)
<1> DEFINE len == Len(s)
           count == PieceCount(len, n)
           from(k) == (k - 1) * n
           to(k) == PieceEnd(len, n, k)
           pieces == [k \in 1 .. count |-> PieceAt(s, n, k)]
           chunks == FnChunk(Arr(s), Int64(n))[2]
           last == Len(chunks)
<1>1. len \in Nat /\ len > 0 /\ n \in Nat /\ ~(n <= 0)
  OBVIOUS
<1>2. FnChunk(Arr(s), Int64(n)) =
          IF n <= 0 THEN Arr(<<Arr(s)>>) ELSE IF NoCapacity(len, n) THEN Panics ELSE Arr(pieces)
  BY ChunkIs
<1>3. FnChunk(Arr(s), Int64(n)) = Arr(pieces)
  <2> HIDE DEF pieces
  <2>. QED
    BY <1>1, <1>2, Zenon
<1>4. chunks = pieces
  <2> HIDE DEF pieces
  <2>. QED
    BY <1>3, ArrFacts
<1>5. count \in Nat /\ count > 0
  BY <1>1, PieceBounds
<1>6. last = count
  BY <1>4, <1>5
<1>7. \A k \in 1 .. count :
          /\ from(k) \in Nat /\ from(k) < len /\ to(k) \in Nat /\ to(k) <= len
          /\ from(k) < to(k) /\ to(k) <= from(k) + n
          /\ (k < count => to(k) = from(k) + n) /\ (k = count => to(k) = len)
  BY <1>1, PieceBounds
<1>8. DOMAIN chunks = 1 .. count /\ \A k \in 1 .. count : chunks[k][2] = Part(s, from(k), to(k))
  <2>1. \A k \in 1 .. count : PieceAt(s, n, k)[2] = Part(s, from(k), to(k))
    BY ArrFacts DEF PieceAt
  <2>2. DOMAIN pieces = 1 .. count /\ \A k \in 1 .. count : pieces[k] = PieceAt(s, n, k)
    OBVIOUS
  <2> HIDE DEF pieces, count, from, to
  <2>. QED
    BY <1>4, <2>1, <2>2
<1> HIDE DEF pieces, from, to, count, len, chunks, last
<1>9. ASSUME NEW k \in 1 .. count
      PROVE  /\ Len(chunks[k][2]) = to(k) - from(k)
             /\ \A j \in DOMAIN chunks[k][2] : chunks[k][2][j] = s[from(k) + j]
  <2> DEFINE a == from(k)
             b == to(k)
             p == Part(s, a, b)
  <2>1. a \in Int /\ b \in Int /\ 0 <= a /\ b <= Len(s) /\ a < b
    BY <1>7 DEF len
  <2> HIDE DEF a, b
  <2>2. /\ Len(p) = IF a <= b THEN b - a ELSE 0
        /\ DOMAIN p = 1 .. Len(p) /\ \A j \in 1 .. b - a : p[j] = s[a + j]
    BY <2>1, PartFacts
  <2>3. Len(p) = b - a /\ \A j \in DOMAIN p : p[j] = s[a + j]
    BY <2>1, <2>2
  <2>4. chunks[k][2] = p
    BY <1>8 DEF a, b
  <2> HIDE DEF p
  <2>. QED
    BY <2>3, <2>4 DEF a, b
<1>10. \A k \in 1 .. last - 1 : Len(chunks[k][2]) = n
  <2>1. TAKE k \in 1 .. last - 1
  <2>2. k \in 1 .. count /\ k < count
    BY <1>5, <1>6
  <2>3. from(k) \in Nat /\ to(k) = from(k) + n
    BY <1>7, <2>2
  <2>4. Len(chunks[k][2]) = to(k) - from(k)
    BY <1>9, <2>2
  <2>. QED
    BY <1>1, <2>3, <2>4
<1>11. Len(chunks[last][2]) = len - from(last) /\ Len(chunks[last][2]) \in 1 .. n
  <2>1. count \in 1 .. count
    BY <1>5
  <2>2. /\ from(count) \in Nat /\ to(count) \in Nat /\ from(count) < to(count)
        /\ to(count) <= from(count) + n /\ to(count) = len
    BY <1>7, <2>1
  <2>3. Len(chunks[count][2]) = to(count) - from(count)
    BY <1>9, <2>1
  <2>. QED
    BY <1>1, <1>6, <2>2, <2>3
<1>12. \A k \in DOMAIN chunks : \A j \in DOMAIN chunks[k][2] : chunks[k][2][j] = s[from(k) + j]
  BY <1>8, <1>9
<1>13. \A k \in DOMAIN chunks : \A j \in DOMAIN chunks[k][2] : chunks[k][2][j] = s[(k - 1) * n + j]
  BY <1>12 DEF from
<1>14. Len(chunks[last][2]) = Len(s) - (last - 1) * n /\ Len(chunks[last][2]) \in 1 .. n
  BY <1>11 DEF from, len
<1>. QED
  BY <1>10, <1>13, <1>14, Zenon DEF chunks, last, AreChunks

\* PiecesFit, of an array and its elements.
Fit(v, s, n) ==
    LET i == Int64(n)
        windows == FnWindows(v, i)[2]
    IN  /\ n >= 0 => Items(FnHead(v, i)) \o Items(FnSlice(<<v, i>>)) = s
        /\ n > 0 => Items(FnSlice(<<v, Int64(0), Int64(-n)>>)) \o Items(FnTail(v, i)) = s
        /\ FnReverseArr(FnHead(v, i)) = FnTail(FnReverseArr(v), i)
        /\ \A k \in DOMAIN windows : windows[k] = FnSlice(<<v, Int64(k - 1), Int64(k - 1 + n)>>)
        /\ n > 0 /\ FnChunk(v, i) # Panics /\ s # <<>> => AreChunks(FnChunk(v, i)[2], s, n)

\* For any array and integer, what head, tail, slice, windows and chunk return are the pieces
\* of the array between the positions that belong to it: nothing twice and nothing lost.
THEOREM PiecesAlwaysFit ==
    ASSUME NEW V, NEW s \in Seq(V), NEW n \in IntRange
    PROVE  PiecesFit(Arr(s), n)
<1> DEFINE i == Int64(n)
           windows == FnWindows(Arr(s), i)[2]
<1>1. n \in Int /\ Items(Arr(s)) = s
  BY IntFacts, ArrFacts DEF IntRange
<1>2. n >= 0 => Items(FnHead(Arr(s), i)) \o Items(FnSlice(<<Arr(s), i>>)) = s
  BY <1>1, HeadAndRest
<1>3. n > 0 => Items(FnSlice(<<Arr(s), Int64(0), Int64(-n)>>)) \o Items(FnTail(Arr(s), i)) = s
  BY <1>1, RestAndTail
<1>4. FnReverseArr(FnHead(Arr(s), i)) = FnTail(FnReverseArr(Arr(s)), i)
  BY <1>1, HeadBackwards
<1>5. \A k \in DOMAIN windows : windows[k] = FnSlice(<<Arr(s), Int64(k - 1), Int64(k - 1 + n)>>)
  BY <1>1, WindowIsSlice
<1>6. n > 0 /\ FnChunk(Arr(s), i) # Panics /\ s # <<>> => AreChunks(FnChunk(Arr(s), i)[2], s, n)
  BY <1>1, ChunksFit
<1>7. Fit(Arr(s), s, n)
  BY <1>2, <1>3, <1>4, <1>5, <1>6, Zenon DEF Fit
<1>8. Fit(Arr(s), Items(Arr(s)), n)
  BY <1>1, <1>7
<1>9. \A v : Fit(v, Items(v), n) = PiecesFit(v, n)
  BY Zenon DEF Fit, PiecesFit
<1>. QED
  BY <1>8, <1>9

--------------------------------------------------------------------------------
\* Sequences of integers.

\* range returns the integers from one to the other, if it may.
LEMMA RangeIs ==
    ASSUME NEW a \in IntRange, NEW b \in IntRange
    PROVE  FnRange(<<Int64(a), Int64(b)>>) =
               IF b - a > MaxInt THEN Panics ELSE IF b - a > MaxRange THEN Fails ELSE Ints(a, b)
<1> DEFINE args == <<Int64(a), Int64(b)>>
           size == Wrap(b - a)
<1>1. a \in Int /\ b \in Int /\ MaxInt \in Nat /\ MinInt = -MaxInt - 1 /\ b - a <= 2 * MaxInt + 1
  BY IntFacts DEF IntRange
<1>2. Len(args) = 2 /\ args[1] = Int64(a) /\ Last(args) = Int64(b)
  BY DEF Last
<1> HIDE DEF args
<1>3. FnRange(args) =
          IF b <= a THEN Arr(<<>>) ELSE IF size > MaxRange THEN Fails ELSE IF size < 0 THEN Panics ELSE Ints(a, b)
  BY <1>2, ArrFacts DEF FnRange
<1>4. MaxRange \in Nat
  BY PositionsAssumption
<1>5. CASE b <= a
  <2>1. Ints(a, b) = Arr(<<>>)
    BY <1>1, <1>5 DEF Ints
  <2>. QED
    BY <1>1, <1>3, <1>4, <1>5, <2>1 DEF args
<1>6. CASE b > a /\ b - a <= MaxInt
  <2>1. b - a \in IntRange /\ b - a \in Int
    BY <1>1, <1>6 DEF IntRange
  <2>2. size = b - a
    BY <2>1, WrapFacts
  <2> HIDE DEF size
  <2>. QED
    BY <1>1, <1>3, <1>4, <1>6, <2>2 DEF args
<1>7. CASE b > a /\ b - a > MaxInt
  <2>1. b - a \in Int /\ b - a <= 3 * MaxInt + 2
    BY <1>1
  <2>2. size = (b - a) - 2 * MaxInt - 2
    BY <1>7, <2>1, WrapFacts
  <2> HIDE DEF size
  <2>3. size < 0 /\ ~(size > MaxRange)
    BY <1>1, <1>4, <2>2
  <2>. QED
    BY <1>1, <1>3, <1>7, <2>3 DEF args
<1>. QED
  BY <1>1, <1>5, <1>6, <1>7

\* random_int returns one of them, if it may.
LEMMA RandomWithin ==
    ASSUME NEW a \in IntRange, NEW b \in IntRange, NEW r \in FnRandomInt(a, b)
    PROVE  IF a < b /\ b - a >= MaxInt THEN r = Panics ELSE r[2] \in (a .. b) \cup {a}
<1> DEFINE size == Wrap(Wrap(b - a) + 1)
<1>1. a \in Int /\ b \in Int /\ MaxInt \in Nat /\ MinInt = -MaxInt - 1 /\ b - a <= 2 * MaxInt + 1
      /\ a >= MinInt /\ b <= MaxInt
  BY IntFacts DEF IntRange
<1>2. CASE a >= b
  <2>1. r = Int64(a)
    BY <1>2 DEF FnRandomInt
  <2>2. r[2] = a
    BY <2>1, ArrFacts
  <2>. QED
    BY <1>1, <1>2, <2>2
<1>3. CASE a < b /\ b - a < MaxInt
  <2>1. b - a \in IntRange /\ b - a + 1 \in IntRange
    BY <1>1, <1>3 DEF IntRange
  <2>2. Wrap(b - a) = b - a /\ Wrap(b - a + 1) = b - a + 1
    BY <1>1, <2>1, WrapFacts
  <2>3. size = b - a + 1
    BY <1>1, <2>2
  <2>4. FnRandomInt(a, b) = IF a >= b THEN {Int64(a)} ELSE IF size <= 0 THEN {Panics}
                            ELSE {Int64(Wrap(a + k)) : k \in 0 .. size - 1}
    BY DEF FnRandomInt
  <2> HIDE DEF size
  <2>5. FnRandomInt(a, b) = {Int64(Wrap(a + k)) : k \in 0 .. b - a}
    BY <1>1, <1>3, <2>3, <2>4
  <2>6. PICK k \in 0 .. b - a : r = Int64(Wrap(a + k))
    BY <2>5
  <2>7. a + k \in IntRange /\ a + k \in Int /\ a + k \in a .. b
    BY <1>1 DEF IntRange
  <2>8. r[2] = a + k
    BY <2>6, <2>7, WrapFacts, ArrFacts
  <2>. QED
    BY <1>1, <1>3, <2>7, <2>8
<1>4. CASE a < b /\ b - a >= MaxInt
  <2>1. size <= 0
    <3>1. CASE b - a = MaxInt
      <4>1. MaxInt \in IntRange
        BY <1>1 DEF IntRange
      <4>2. Wrap(b - a) = MaxInt
        BY <1>1, <3>1, <4>1, WrapFacts
      <4>3. Wrap(MaxInt + 1) = MinInt
        BY <1>1, WrapFacts
      <4>. QED
        BY <1>1, <4>2, <4>3
    <3>2. CASE b - a > MaxInt
      <4> DEFINE x == Wrap(b - a)
      <4>1. b - a \in Int /\ b - a <= 3 * MaxInt + 2
        BY <1>1
      <4>2. x = (b - a) - 2 * MaxInt - 2
        BY <3>2, <4>1, WrapFacts
      <4>3. x + 1 \in IntRange /\ x + 1 \in Int /\ x + 1 <= 0
        BY <1>1, <3>2, <4>2 DEF IntRange
      <4> HIDE DEF x
      <4>4. Wrap(x + 1) = x + 1
        BY <4>3, WrapFacts
      <4>. QED
        BY <4>3, <4>4 DEF x
    <3>. QED
      BY <1>1, <1>4, <3>1, <3>2
  <2>2. FnRandomInt(a, b) = IF a >= b THEN {Int64(a)} ELSE IF size <= 0 THEN {Panics}
                            ELSE {Int64(Wrap(a + k)) : k \in 0 .. size - 1}
    BY DEF FnRandomInt
  <2> HIDE DEF size
  <2>3. ~(a >= b)
    BY <1>1, <1>4
  <2>4. FnRandomInt(a, b) = {Panics}
    BY <2>1, <2>2, <2>3
  <2>. QED
    BY <1>4, <2>4
<1>. QED
  BY <1>1, <1>2, <1>3, <1>4

--------------------------------------------------------------------------------
\* The loop of seq.

\* Every set of numbers that is not empty has a least one.
LEMMA LeastNat ==
    ASSUME NEW T \in SUBSET Nat, T # {}
    PROVE  \E n \in T : \A m \in T : n <= m
<1> DEFINE R == OpToRel(<, Nat)
<1>1. IsWellFoundedOn(R, Nat)
  BY NatLessThanWellFounded
<1>2. \A x, y \in Nat : x < y => <<x, y>> \in R
  BY DEF OpToRel
<1> HIDE DEF R
<1>3. PICK n \in T : \A m \in T : ~(<<m, n>> \in R)
  BY <1>1, WFMin
<1>4. \A m \in T : m \in Nat /\ n \in Nat /\ ~(m < n)
  BY <1>2, <1>3
<1>5. \A m \in T : n <= m
  BY <1>4
<1>. QED
  BY <1>5

\* One round of the loop, and the values there are after so many.
Before(i, b, step) == IF step > 0 THEN i < b ELSE i > b
Round(s, n, a, b, step) ==
    LET i == IF s = <<>> THEN a ELSE Wrap(Last(s) + step)
    IN  IF Len(s) = n - 1 /\ Before(i, b, step) THEN Append(s, i) ELSE s
Rounds(a, b, step) ==
    LET upTo[n \in 0 .. MaxSeq + 1] == IF n = 0 THEN <<>> ELSE Round(upTo[n - 1], n, a, b, step)
    IN  upTo

\* seq returns what its loop leaves behind.
LEMMA SeqIs ==
    ASSUME NEW a, NEW b, NEW step
    PROVE  FnSeq(<<Int64(a), Int64(b), Int64(step)>>) =
               IF step = 0 THEN Arr(<<>>)
               ELSE LET s == Rounds(a, b, step)[MaxSeq + 1] IN Arr([k \in DOMAIN s |-> Int64(s[k])])
<1> DEFINE args == <<Int64(a), Int64(b), Int64(step)>>
<1>1. Len(args) = 3 /\ args[1] = Int64(a) /\ args[2] = Int64(b) /\ args[3] = Int64(step)
  OBVIOUS
<1>2. Len(args) # 1
  BY <1>1
<1> HIDE DEF args
<1>3. ToInt(args[1]) = a /\ ToInt(args[2]) = b /\ ToInt(args[3]) = step
  BY <1>1, ArrFacts
<1>4. FnSeq(args) =
          IF step = 0 THEN Arr(<<>>)
          ELSE LET s == Rounds(a, b, step)[MaxSeq + 1] IN Arr([k \in DOMAIN s |-> Int64(s[k])])
  BY <1>1, <1>2, <1>3 DEF FnSeq, Rounds, Round, Before
<1>. QED
  BY <1>4 DEF args

\* What is computed one step from another, so many times, is a function.
IsUpTo(f, N, a, b, step) == f = [n \in 0 .. N |-> IF n = 0 THEN <<>> ELSE Round(f[n - 1], n, a, b, step)]

\* There is such a function: otherwise take the least number of steps without one.
LEMMA UpToExists ==
    ASSUME NEW N \in Nat, NEW a, NEW b, NEW step
    PROVE  \E f : IsUpTo(f, N, a, b, step)
<1> DEFINE T == {m \in Nat : ~\E f : IsUpTo(f, m, a, b, step)}
<1>1. ASSUME T # {} PROVE FALSE
  <2>1. PICK m \in T : \A l \in T : m <= l
    BY <1>1, LeastNat
  <2>2. m \in Nat /\ ~\E f : IsUpTo(f, m, a, b, step)
    BY <2>1
  <2>3. CASE m = 0
    <3> DEFINE f == [n \in 0 .. 0 |-> <<>>]
    <3>1. f = [n \in 0 .. m |-> IF n = 0 THEN <<>> ELSE Round(f[n - 1], n, a, b, step)]
      BY <2>3
    <3>2. IsUpTo(f, m, a, b, step)
      BY <3>1 DEF IsUpTo
    <3>. QED
      BY <2>2, <3>2
  <2>4. CASE m # 0
    <3>1. m - 1 \in Nat /\ ~(m <= m - 1)
      BY <2>2, <2>4
    <3>2. PICK g : IsUpTo(g, m - 1, a, b, step)
      BY <2>1, <3>1
    <3> DEFINE f == [n \in 0 .. m |-> IF n < m THEN g[n] ELSE Round(g[m - 1], m, a, b, step)]
    <3>3. \A n \in 0 .. m - 1 : f[n] = g[n]
      BY <2>2
    <3>4. ASSUME NEW n \in 0 .. m PROVE f[n] = IF n = 0 THEN <<>> ELSE Round(f[n - 1], n, a, b, step)
      <4>1. CASE n = m
        <5>1. f[m] = Round(g[m - 1], m, a, b, step)
          BY <2>2
        <5>2. m - 1 \in 0 .. m - 1
          BY <3>1
        <5>3. f[m - 1] = g[m - 1]
          BY <3>3, <5>2
        <5> HIDE DEF f
        <5>. QED
          BY <2>4, <4>1, <5>1, <5>3
      <4>2. CASE n < m
        <5>1. n \in 0 .. m - 1
          BY <2>2, <4>2
        <5>2. g[n] = IF n = 0 THEN <<>> ELSE Round(g[n - 1], n, a, b, step)
          BY <3>2, <5>1 DEF IsUpTo
        <5>3. f[n] = g[n]
          BY <3>3, <5>1
        <5>4. n # 0 => f[n - 1] = g[n - 1]
          <6>1. n # 0 => n - 1 \in 0 .. m - 1
            BY <5>1
          <6>. QED
            BY <3>3, <6>1
        <5> HIDE DEF f
        <5>. QED
          BY <5>2, <5>3, <5>4
      <4>. QED
        BY <2>2, <4>1, <4>2
    <3>5. f = [n \in 0 .. m |-> f[n]]
      OBVIOUS
    <3> HIDE DEF f
    <3>6. IsUpTo(f, m, a, b, step)
      BY <3>4, <3>5 DEF IsUpTo
    <3>. QED
      BY <2>2, <3>6
  <2>. QED
    BY <2>3, <2>4
<1>2. N \notin T
  BY <1>1
<1>. QED
  BY <1>2

\* Each round of the loop goes on from the one before.
LEMMA RoundsAre ==
    ASSUME NEW a, NEW b, NEW step
    PROVE  /\ Rounds(a, b, step)[0] = <<>>
           /\ \A n \in 1 .. MaxSeq + 1 :
                  Rounds(a, b, step)[n] = Round(Rounds(a, b, step)[n - 1], n, a, b, step)
<1> DEFINE f == Rounds(a, b, step)
<1>1. MaxSeq \in Nat /\ MaxSeq + 1 \in Nat
  BY PositionsAssumption
<1>2. f = CHOOSE g : IsUpTo(g, MaxSeq + 1, a, b, step)
  BY DEF Rounds, IsUpTo
<1> HIDE DEF f
<1>3. IsUpTo(f, MaxSeq + 1, a, b, step)
  BY <1>1, <1>2, UpToExists
<1>4. \A n \in 0 .. MaxSeq + 1 : f[n] = IF n = 0 THEN <<>> ELSE Round(f[n - 1], n, a, b, step)
  BY <1>3 DEF IsUpTo
<1>5. 0 \in 0 .. MaxSeq + 1 /\ \A n \in 1 .. MaxSeq + 1 : n \in 0 .. MaxSeq + 1 /\ n # 0
  BY <1>1
<1>6. f[0] = <<>> /\ \A n \in 1 .. MaxSeq + 1 : f[n] = Round(f[n - 1], n, a, b, step)
  BY <1>4, <1>5
<1>. QED
  BY <1>6 DEF f

\* The loop makes no more rounds than it may.
LEMMA RoundsTyped ==
    ASSUME NEW a \in IntRange, NEW b \in IntRange, NEW step \in IntRange, NEW n \in 0 .. MaxSeq + 1
    PROVE  Rounds(a, b, step)[n] \in Seq(Int) /\ Len(Rounds(a, b, step)[n]) <= n
<1> DEFINE f == Rounds(a, b, step)
           T == {m \in Nat : m <= MaxSeq + 1 /\ ~(f[m] \in Seq(Int) /\ Len(f[m]) <= m)}
<1>1. a \in Int /\ step \in Int /\ MaxSeq \in Nat
  BY IntFacts, PositionsAssumption DEF IntRange
<1>2. f[0] = <<>> /\ \A m \in 1 .. MaxSeq + 1 : f[m] = Round(f[m - 1], m, a, b, step)
  BY RoundsAre
<1> HIDE DEF f
<1>3. ASSUME T # {} PROVE FALSE
  <2>1. PICK m \in T : \A l \in T : m <= l
    BY <1>3, LeastNat
  <2>2. m \in Nat /\ m <= MaxSeq + 1 /\ ~(f[m] \in Seq(Int) /\ Len(f[m]) <= m)
    BY <2>1
  <2>3. m # 0
    <3>1. <<>> \in Seq(Int) /\ Len(<<>>) <= 0
      OBVIOUS
    <3>2. m = 0 => f[m] = <<>>
      BY <1>2
    <3>. QED
      BY <2>2, <3>1, <3>2
  <2>4. m - 1 \in Nat /\ m - 1 <= MaxSeq + 1 /\ ~(m <= m - 1) /\ m \in 1 .. MaxSeq + 1
    BY <1>1, <2>2, <2>3
  <2> DEFINE s == f[m - 1]
             i == IF s = <<>> THEN a ELSE Wrap(Last(s) + step)
  <2>5. s \in Seq(Int) /\ Len(s) <= m - 1
    BY <2>1, <2>4
  <2>6. f[m] = IF Len(s) = m - 1 /\ Before(i, b, step) THEN Append(s, i) ELSE s
    BY <1>2, <2>4 DEF Round
  <2> HIDE DEF s
  <2>7. i \in Int
    <3>1. CASE s = <<>>
      BY <1>1, <3>1
    <3>2. CASE s # <<>>
      <4>1. Last(s) \in Int
        BY <2>5, <3>2 DEF Last
      <4>2. Last(s) + step \in Int
        BY <1>1, <4>1
      <4>3. Wrap(Last(s) + step) \in IntRange
        BY <4>2, WrapFacts
      <4>. QED
        BY <3>2, <4>3, IntFacts DEF IntRange
    <3>. QED
      BY <3>1, <3>2
  <2> HIDE DEF i
  <2>8. CASE Len(s) = m - 1 /\ Before(i, b, step)
    <3>1. f[m] = Append(s, i)
      BY <2>6, <2>8
    <3>2. Append(s, i) \in Seq(Int) /\ Len(Append(s, i)) = Len(s) + 1
      BY <2>5, <2>7
    <3>. QED
      BY <2>2, <2>8, <3>1, <3>2
  <2>9. CASE ~(Len(s) = m - 1 /\ Before(i, b, step))
    <3>1. f[m] = s
      BY <2>6, <2>9
    <3>. QED
      BY <2>2, <2>5, <3>1
  <2>. QED
    BY <2>8, <2>9
<1>4. n \in Nat /\ n <= MaxSeq + 1 /\ n \notin T
  BY <1>1, <1>3
<1>. QED
  BY <1>4 DEF f

--------------------------------------------------------------------------------
\* The terms of a progression.

TermOf(a, step, k) == a + k * step

\* They begin at a, and go by the same step in one direction.
LEMMA TermFacts ==
    ASSUME NEW a \in Int, NEW step \in Int
    PROVE  /\ TermOf(a, step, 0) = a
           /\ \A k \in Nat : TermOf(a, step, k) \in Int /\ TermOf(a, step, k + 1) = TermOf(a, step, k) + step
           /\ \A k \in Nat : IF step > 0 THEN a <= TermOf(a, step, k) ELSE a >= TermOf(a, step, k)
           /\ \A j, k \in Nat : j <= k =>
                  IF step > 0 THEN TermOf(a, step, j) <= TermOf(a, step, k)
                  ELSE TermOf(a, step, j) >= TermOf(a, step, k)
<1>1. TermOf(a, step, 0) = a
  BY DEF TermOf
<1>2. \A k \in Nat : TermOf(a, step, k) \in Int /\ TermOf(a, step, k + 1) = TermOf(a, step, k) + step
  BY DEF TermOf
<1>3. ASSUME NEW j \in Nat, NEW k \in Nat, j <= k
      PROVE  IF step > 0 THEN a <= TermOf(a, step, j) /\ TermOf(a, step, j) <= TermOf(a, step, k)
             ELSE a >= TermOf(a, step, j) /\ TermOf(a, step, j) >= TermOf(a, step, k)
  <2>1. CASE step > 0
    <3>1. step \in Nat /\ 0 \in Int /\ 0 <= j
      BY <2>1
    <3>2. j * step <= k * step /\ 0 * step <= j * step /\ j * step \in Int /\ k * step \in Int
      BY <1>3, <3>1, ProductOrder
    <3>3. 0 * step = 0
      OBVIOUS
    <3>. QED
      BY <2>1, <3>2, <3>3 DEF TermOf
  <2>2. CASE step <= 0
    <3> DEFINE n == -step
    <3>1. n \in Nat /\ 0 \in Int /\ 0 <= j
      BY <2>2
    <3>2. j * n <= k * n /\ 0 * n <= j * n /\ j * n \in Int /\ k * n \in Int
      <4> HIDE DEF n
      <4>. QED
        BY <1>3, <3>1, ProductOrder
    <3>3. 0 * n = 0 /\ j * n = -(j * step) /\ k * n = -(k * step) /\ j * step \in Int /\ k * step \in Int
      OBVIOUS
    <3> HIDE DEF n
    <3>4. 0 >= j * step /\ j * step >= k * step
      BY <3>2, <3>3
    <3>. QED
      BY <2>2, <3>3, <3>4 DEF TermOf
  <2>. QED
    BY <2>1, <2>2
<1>4. \A k \in Nat : k <= k
  OBVIOUS
<1>5. \A k \in Nat : IF step > 0 THEN a <= TermOf(a, step, k) ELSE a >= TermOf(a, step, k)
  BY <1>3, <1>4
<1>. QED
  BY <1>1, <1>2, <1>3, <1>5

\* Those before b are the first ones.
TermsOf(a, b, step) == {k \in 0 .. MaxSeq : Before(TermOf(a, step, k), b, step)}

\* Their number tells which they are; they are integers, and the next one is not before b.
LEMMA TermsAreFirst ==
    ASSUME NEW a \in IntRange, NEW b \in IntRange, NEW step \in IntRange, step # 0
    PROVE  LET c == Cardinality(TermsOf(a, b, step))
           IN  /\ c \in 0 .. MaxSeq + 1
               /\ \A k \in 0 .. c - 1 : Before(TermOf(a, step, k), b, step) /\ TermOf(a, step, k) \in IntRange
               /\ c <= MaxSeq => ~Before(TermOf(a, step, c), b, step)
<1> DEFINE T == {k \in Nat : k > MaxSeq \/ ~Before(TermOf(a, step, k), b, step)}
<1>1. a \in Int /\ b \in Int /\ step \in Int /\ MaxSeq \in Nat
  BY IntFacts, PositionsAssumption DEF IntRange
<1>2. MaxSeq + 1 \in T
  BY <1>1
<1>3. PICK c \in T : \A m \in T : c <= m
  BY <1>2, LeastNat
<1>4. c \in Nat /\ c <= MaxSeq + 1 /\ (c <= MaxSeq => ~Before(TermOf(a, step, c), b, step))
  BY <1>1, <1>2, <1>3
<1>5. \A k \in Nat : k < c => k <= MaxSeq /\ Before(TermOf(a, step, k), b, step)
  BY <1>1, <1>3, <1>4
<1> HIDE DEF T
<1>6. \A k \in 0 .. MaxSeq : c <= k => ~Before(TermOf(a, step, k), b, step)
  <2>1. TAKE k \in 0 .. MaxSeq
  <2>2. HAVE c <= k
  <2>3. c <= MaxSeq /\ k \in Nat
    BY <1>1, <1>4, <2>2
  <2>4. /\ TermOf(a, step, c) \in Int /\ TermOf(a, step, k) \in Int
        /\ IF step > 0 THEN TermOf(a, step, c) <= TermOf(a, step, k) ELSE TermOf(a, step, c) >= TermOf(a, step, k)
    BY <1>1, <1>4, <2>2, <2>3, TermFacts
  <2>. QED
    BY <1>1, <1>4, <2>3, <2>4 DEF Before
<1>7. TermsOf(a, b, step) = 0 .. c - 1
  <2>1. \A k \in 0 .. MaxSeq : Before(TermOf(a, step, k), b, step) <=> k < c
    <3>1. TAKE k \in 0 .. MaxSeq
    <3>2. k \in Nat
      OBVIOUS
    <3>3. CASE k < c
      BY <1>5, <3>2, <3>3
    <3>4. CASE c <= k
      BY <1>4, <1>6, <3>2, <3>4
    <3>. QED
      BY <1>4, <3>2, <3>3, <3>4
  <2>2. \A k \in 0 .. c - 1 : k \in 0 .. MaxSeq /\ k < c
    BY <1>1, <1>4
  <2>3. \A k \in 0 .. MaxSeq : k < c => k \in 0 .. c - 1
    BY <1>4
  <2>. QED
    BY <2>1, <2>2, <2>3 DEF TermsOf
<1>8. Cardinality(TermsOf(a, b, step)) = c
  <2>1. 0 \in Int /\ c - 1 \in Int
    BY <1>4
  <2>2. Cardinality(0 .. c - 1) = IF 0 > c - 1 THEN 0 ELSE (c - 1) - 0 + 1
    BY <2>1, FS_Interval
  <2>. QED
    BY <1>4, <1>7, <2>2
<1>9. \A k \in 0 .. c - 1 : Before(TermOf(a, step, k), b, step) /\ TermOf(a, step, k) \in IntRange
  <2>1. TAKE k \in 0 .. c - 1
  <2>2. k \in Nat /\ k < c
    BY <1>4
  <2>3. Before(TermOf(a, step, k), b, step)
    BY <1>5, <2>2
  <2>4. TermOf(a, step, k) \in Int /\ IF step > 0 THEN a <= TermOf(a, step, k) ELSE a >= TermOf(a, step, k)
    BY <1>1, <2>2, TermFacts
  <2>5. a >= MinInt /\ a <= MaxInt /\ b >= MinInt /\ b <= MaxInt /\ MinInt \in Int /\ MaxInt \in Int
    BY IntFacts DEF IntRange
  <2>6. TermOf(a, step, k) >= MinInt /\ TermOf(a, step, k) <= MaxInt
    BY <1>1, <2>3, <2>4, <2>5 DEF Before
  <2>. QED
    BY <2>3, <2>4, <2>5, <2>6 DEF IntRange
<1>. QED
  BY <1>4, <1>8, <1>9

\* The first n terms, one after another.
FirstTerms(a, step, n) == [k \in 1 .. n |-> TermOf(a, step, k - 1)]

\* They end with the last one, and one more follows them.
LEMMA FirstTermsFacts ==
    ASSUME NEW a \in Int, NEW step \in Int, NEW n \in Nat
    PROVE  /\ FirstTerms(a, step, n) \in Seq(Int) /\ Len(FirstTerms(a, step, n)) = n
           /\ n = 0 <=> FirstTerms(a, step, n) = <<>>
           /\ n > 0 => Last(FirstTerms(a, step, n)) = TermOf(a, step, n - 1)
           /\ Append(FirstTerms(a, step, n), TermOf(a, step, n)) = FirstTerms(a, step, n + 1)
<1> DEFINE s == FirstTerms(a, step, n)
           t == FirstTerms(a, step, n + 1)
<1>1. \A k \in Nat : TermOf(a, step, k) \in Int
  BY TermFacts
<1>2. ASSUME NEW m \in Nat
      PROVE  /\ FirstTerms(a, step, m) \in Seq(Int) /\ Len(FirstTerms(a, step, m)) = m
             /\ \A k \in 1 .. m : FirstTerms(a, step, m)[k] = TermOf(a, step, k - 1)
  <2>1. \A k \in 1 .. m : TermOf(a, step, k - 1) \in Int
    BY <1>1
  <2>. QED
    BY <2>1 DEF FirstTerms
<1>3. /\ s \in Seq(Int) /\ Len(s) = n /\ \A k \in 1 .. n : s[k] = TermOf(a, step, k - 1)
      /\ t \in Seq(Int) /\ Len(t) = n + 1 /\ \A k \in 1 .. n + 1 : t[k] = TermOf(a, step, k - 1)
  BY <1>2
<1> HIDE DEF s, t
<1>4. n = 0 <=> s = <<>>
  BY <1>3
<1>5. n > 0 => Last(s) = TermOf(a, step, n - 1)
  BY <1>3 DEF Last
<1>6. Append(s, TermOf(a, step, n)) = t
  <2> DEFINE x == TermOf(a, step, n)
             u == Append(s, x)
  <2>1. x \in Int /\ t[n + 1] = x
    <3>1. n + 1 \in 1 .. n + 1 /\ (n + 1) - 1 = n
      OBVIOUS
    <3>. QED
      BY <1>1, <1>3, <3>1
  <2> HIDE DEF x
  <2>2. u \in Seq(Int) /\ Len(u) = n + 1 /\ u[n + 1] = x /\ \A k \in 1 .. n : u[k] = s[k]
    BY <1>3, <2>1
  <2> HIDE DEF u
  <2>3. \A k \in 1 .. n + 1 : u[k] = t[k]
    <3>1. TAKE k \in 1 .. n + 1
    <3>2. CASE k = n + 1
      BY <2>1, <2>2, <3>2
    <3>3. CASE k # n + 1
      <4>1. k \in 1 .. n
        BY <3>3
      <4>. QED
        BY <1>3, <2>2, <4>1
    <3>. QED
      BY <3>2, <3>3
  <2>4. u = t
    BY <1>3, <2>2, <2>3, SameElements
  <2>. QED
    BY <2>4 DEF u, x
<1>. QED
  BY <1>3, <1>4, <1>5, <1>6 DEF s, t

\* The loop comes to the next term, if that is an integer.
LEMMA NextTerm ==
    ASSUME NEW a \in Int, NEW step \in Int, NEW n \in Nat, TermOf(a, step, n) \in IntRange
    PROVE  (IF FirstTerms(a, step, n) = <<>> THEN a ELSE Wrap(Last(FirstTerms(a, step, n)) + step))
               = TermOf(a, step, n)
<1>1. CASE n = 0
  BY <1>1, FirstTermsFacts, TermFacts
<1>2. CASE n # 0
  <2>1. n > 0 /\ n - 1 \in Nat /\ (n - 1) + 1 = n
    BY <1>2
  <2>2. FirstTerms(a, step, n) # <<>> /\ Last(FirstTerms(a, step, n)) = TermOf(a, step, n - 1)
    BY <1>2, <2>1, FirstTermsFacts
  <2>3. TermOf(a, step, n) = TermOf(a, step, n - 1) + step /\ TermOf(a, step, n) \in Int
    BY <2>1, TermFacts
  <2>4. Wrap(TermOf(a, step, n)) = TermOf(a, step, n)
    BY <2>3, WrapFacts
  <2>. QED
    BY <2>2, <2>3, <2>4
<1>. QED
  BY <1>1, <1>2

\* Unless the term behind the last one is no integer, the loop comes to the terms.
LEMMA RoundsAreTerms ==
    ASSUME NEW a \in IntRange, NEW b \in IntRange, NEW step \in IntRange, step # 0,
           NEW c, c = Cardinality(TermsOf(a, b, step)), c <= MaxSeq => TermOf(a, step, c) \in IntRange
    PROVE  Rounds(a, b, step)[MaxSeq + 1] = FirstTerms(a, step, c)
<1> DEFINE f == Rounds(a, b, step)
           upTo(m) == IF m <= c THEN m ELSE c
           T == {m \in Nat : m <= MaxSeq + 1 /\ f[m] # FirstTerms(a, step, upTo(m))}
<1>1. a \in Int /\ step \in Int /\ MaxSeq \in Nat
  BY IntFacts, PositionsAssumption DEF IntRange
<1>2. /\ c \in Nat /\ c <= MaxSeq + 1
      /\ \A k \in 0 .. c - 1 : Before(TermOf(a, step, k), b, step) /\ TermOf(a, step, k) \in IntRange
      /\ c <= MaxSeq => ~Before(TermOf(a, step, c), b, step)
  BY <1>1, TermsAreFirst
<1>3. f[0] = <<>> /\ \A m \in 1 .. MaxSeq + 1 : f[m] = Round(f[m - 1], m, a, b, step)
  BY RoundsAre
<1> HIDE DEF f
<1>4. ASSUME T # {} PROVE FALSE
  <2>1. PICK m \in T : \A l \in T : m <= l
    BY <1>4, LeastNat
  <2>2. m \in Nat /\ m <= MaxSeq + 1 /\ f[m] # FirstTerms(a, step, upTo(m))
    BY <2>1
  <2>3. m # 0
    <3>1. upTo(0) = 0 /\ 0 \in Nat
      BY <1>2
    <3>2. FirstTerms(a, step, 0) = <<>>
      BY <1>1, FirstTermsFacts
    <3>3. m = 0 => f[m] = <<>> /\ upTo(m) = 0
      BY <1>3, <3>1
    <3>. QED
      BY <2>2, <3>2, <3>3
  <2>4. m - 1 \in Nat /\ m - 1 <= MaxSeq /\ m - 1 <= MaxSeq + 1 /\ ~(m <= m - 1) /\ m \in 1 .. MaxSeq + 1
    BY <1>1, <2>2, <2>3
  <2> DEFINE h == upTo(m - 1)
             s == FirstTerms(a, step, h)
             i == IF s = <<>> THEN a ELSE Wrap(Last(s) + step)
  <2>5. f[m - 1] = s
    BY <2>1, <2>4
  <2>6. f[m] = IF Len(s) = m - 1 /\ Before(i, b, step) THEN Append(s, i) ELSE s
    BY <1>3, <2>4, <2>5 DEF Round
  <2>7. h \in Nat /\ Len(s) = h
    <3>1. h \in Nat
      BY <1>2, <2>4
    <3> HIDE DEF h
    <3>. QED
      BY <1>1, <3>1, FirstTermsFacts
  <2>8. CASE m - 1 < c
    <3>1. h = m - 1 /\ upTo(m) = m /\ m - 1 \in 0 .. c - 1 /\ h + 1 = m
      BY <1>2, <2>2, <2>4, <2>8
    <3>2. Before(TermOf(a, step, h), b, step) /\ TermOf(a, step, h) \in IntRange
      BY <1>2, <3>1
    <3>3. i = TermOf(a, step, h)
      <4> HIDE DEF h
      <4>. QED
        BY <1>1, <2>7, <3>2, NextTerm
    <3>4. Append(s, TermOf(a, step, h)) = FirstTerms(a, step, h + 1)
      <4> HIDE DEF h
      <4>. QED
        BY <1>1, <2>7, FirstTermsFacts
    <3> HIDE DEF s, i, h
    <3>5. f[m] = FirstTerms(a, step, m)
      BY <2>6, <2>7, <3>1, <3>2, <3>3, <3>4
    <3>. QED
      BY <2>2, <3>1, <3>5
  <2>9. CASE ~(m - 1 < c)
    <3>1. h = c /\ upTo(m) = c /\ c <= MaxSeq
      <4>1. c \in Nat /\ m \in Nat /\ MaxSeq \in Nat /\ c <= m - 1 /\ m - 1 <= MaxSeq
        BY <1>1, <1>2, <2>2, <2>4, <2>9
      <4>2. ~(m <= c) /\ c <= MaxSeq /\ (m - 1 <= c => m - 1 = c)
        BY <4>1
      <4>. QED
        BY <4>2
    <3>2. ~(Len(s) = m - 1 /\ Before(i, b, step))
      <4>1. TermOf(a, step, h) \in IntRange /\ ~Before(TermOf(a, step, h), b, step)
        BY <1>2, <3>1
      <4> HIDE DEF h
      <4>2. i = TermOf(a, step, h)
        BY <1>1, <2>7, <4>1, NextTerm
      <4>. QED
        BY <4>1, <4>2
    <3> HIDE DEF s, i, h
    <3>3. f[m] = FirstTerms(a, step, c)
      <4>1. f[m] = s
        BY <2>6, <3>2
      <4>. QED
        BY <3>1, <4>1 DEF s
    <3>. QED
      BY <2>2, <3>1, <3>3
  <2>. QED
    BY <2>8, <2>9
<1>5. MaxSeq + 1 \in Nat /\ MaxSeq + 1 \notin T /\ upTo(MaxSeq + 1) = c
  BY <1>1, <1>2, <1>4
<1>. QED
  BY <1>5 DEF f

\* For integers of any width, range, random_int and seq return those between their bounds
\* (collections.go:257, :726, math.go:117): the first two panic only where the distance is no
\* integer, and the loop of seq goes on, to its limit, only where the step behind the last is none.
THEOREM ProgressionsStayBetween ==
    ASSUME NEW a \in IntRange, NEW b \in IntRange, NEW step \in IntRange
    PROVE  Progresses(a, b, step)
<1> DEFINE seq == FnSeq(<<Int64(a), Int64(b), Int64(step)>>)[2]
           s == Rounds(a, b, step)[MaxSeq + 1]
           c == Cardinality(TermsOf(a, b, step))
<1>1. a \in Int /\ b \in Int /\ step \in Int /\ MaxSeq \in Nat /\ MaxSeq + 1 \in 0 .. MaxSeq + 1
  BY IntFacts, PositionsAssumption DEF IntRange
<1>2. s \in Seq(Int) /\ Len(s) <= MaxSeq + 1
  BY <1>1, RoundsTyped
<1> DEFINE t == [k \in DOMAIN s |-> Int64(s[k])]
<1>3. step = 0 => seq = <<>>
  <2>1. step = 0 => FnSeq(<<Int64(a), Int64(b), Int64(step)>>) = Arr(<<>>)
    BY SeqIs
  <2>. QED
    BY <2>1, ArrFacts
<1>4. step # 0 => seq = [k \in DOMAIN s |-> Int64(s[k])]
  <2>1. step # 0 => FnSeq(<<Int64(a), Int64(b), Int64(step)>>) = Arr(t)
    BY SeqIs
  <2>2. Arr(t)[2] = t
    <3> HIDE DEF t
    <3>. QED
      BY ArrFacts
  <2>. QED
    BY <2>1, <2>2
<1> HIDE DEF seq, s
<1>5. Len(seq) <= MaxSeq + 1
  <2>1. step = 0 => Len(seq) = 0
    BY <1>3
  <2>2. step # 0 => Len(seq) = Len(s)
    BY <1>2, <1>4
  <2>. QED
    BY <1>1, <1>2, <2>1, <2>2
<1>6. step # 0 /\ (c <= MaxSeq => TermOf(a, step, c) \in IntRange) =>
          seq = [k \in 1 .. c |-> Int64(TermOf(a, step, k - 1))]
  <2> HAVE step # 0 /\ (c <= MaxSeq => TermOf(a, step, c) \in IntRange)
  <2>1. s = FirstTerms(a, step, c)
    <3> HIDE DEF c
    <3>1. c = Cardinality(TermsOf(a, b, step))
      BY DEF c
    <3>. QED
      BY <3>1, RoundsAreTerms DEF s
  <2> HIDE DEF c
  <2>2. DOMAIN s = 1 .. c /\ \A k \in 1 .. c : s[k] = TermOf(a, step, k - 1)
    BY <2>1 DEF FirstTerms
  <2>. QED
    BY <1>4, <2>2
<1> DEFINE terms == {k \in 0 .. MaxSeq : IF step > 0 THEN a + k * step < b ELSE a + k * step > b}
<1>7. TermsOf(a, b, step) = terms
  BY DEF TermsOf, TermOf, Before
<1>8. \/ step = 0 /\ seq = <<>>
      \/ seq = [k \in 1 .. Cardinality(terms) |-> Int64(a + (k - 1) * step)]
      \/ Cardinality(terms) <= MaxSeq /\ a + Cardinality(terms) * step \notin IntRange
  <2>1. step # 0 /\ (c <= MaxSeq => a + c * step \in IntRange) =>
            seq = [k \in 1 .. c |-> Int64(a + (k - 1) * step)]
    BY <1>6 DEF TermOf
  <2>2. c = Cardinality(terms)
    BY <1>7
  <2> HIDE DEF c, terms
  <2>. QED
    BY <1>3, <2>1, <2>2
<1> HIDE DEF terms
<1>. QED
  BY <1>5, <1>8, RangeIs, RandomWithin DEF Progresses, seq, terms
================================================================================
