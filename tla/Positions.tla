------------------------------ MODULE Positions ------------------------------
(* The array builtins of stdlib/collections.go and collections_extra.go that compute  *)
(* positions or integers, one operator each, over the values of module Scalars.       *)
EXTENDS Scalars

CONSTANTS MaxRange,   \* maxRange, ten million in the code
          MaxSeq      \* the safety limit of seq, ten thousand in the code

ASSUME PositionsAssumption == MaxRange \in Nat /\ MaxSeq \in Nat

IsArray(v) == Kind(v) = "array"
Items(v) == IF IsArray(v) THEN v[2] ELSE <<>>
OnArray(v, result) == IF IsArray(v) THEN result ELSE Fails

--------------------------------------------------------------------------------
(* Pieces of an array.  Positions are Go's, from 0; arithmetic on them wraps.        *)

\* arr[from:to]
Part(s, from, to) == SubSeq(s, from + 1, to)

FnHead(v, n) ==
    LET k == ToInt(n) IN
    OnArray(v, IF k >= Len(Items(v)) THEN v ELSE Arr(IF k <= 0 THEN <<>> ELSE Part(Items(v), 0, k)))
FnTail(v, n) ==
    LET k == ToInt(n)
        len == Len(Items(v))
    IN  OnArray(v, IF k >= len THEN v
                   ELSE Arr(IF k <= 0 THEN <<>> ELSE Part(Items(v), len - k, len)))
FnFirst(v) == IF Items(v) = <<>> THEN Null ELSE Head(Items(v))
FnLast(v) == IF Items(v) = <<>> THEN Null ELSE Last(Items(v))

\* The capacity that make gets is computed first, and must not be negative.
FnChunk(v, n) ==
    LET size == ToInt(n)
        s == Items(v)
        len == Len(s)
        piece(i) == Part(s, i * size, IF (i + 1) * size > len THEN len ELSE (i + 1) * size)
    IN  OnArray(v,
            IF size <= 0 THEN Arr(<<v>>)
            ELSE IF Quot(Wrap(Wrap(len + size) - 1), size) < 0 THEN Panics
            ELSE Arr([k \in 1..((len + size - 1) \div size) |-> Arr(piece(k - 1))]))

FnWindows(v, n) ==
    LET size == ToInt(n)
        s == Items(v)
    IN  OnArray(v, Arr(IF size <= 0 \/ size > Len(s) THEN <<>>
                       ELSE [k \in 1..(Len(s) - size + 1) |-> Arr(Part(s, k - 1, k - 1 + size))]))

ResolveIndex(i, length) ==
    LET at == IF i < 0 THEN i + length ELSE i
    IN  IF at < 0 THEN 0 ELSE IF at > length THEN length ELSE at

\* args: the array, the start, perhaps the end.
FnSlice(args) ==
    LET s == Items(args[1])
        start == ResolveIndex(ToInt(args[2]), Len(s))
        end == IF Len(args) > 2 THEN ResolveIndex(ToInt(args[3]), Len(s)) ELSE Len(s)
    IN  OnArray(args[1], Arr(IF end < start THEN <<>> ELSE Part(s, start, end)))

FnReverseArr(v) == OnArray(v, Arr(Reverse(Items(v))))

--------------------------------------------------------------------------------
(* Sequences of integers. *)

Ints(from, to) == Arr([k \in 1..(to - from) |-> Int64(from + k - 1)])

FnRangeInclusive(args) ==   \* a mutant: reaches the end
    LET start == IF Len(args) = 2 THEN ToInt(args[1]) ELSE 0
        size == Wrap(ToInt(Last(args)) - start)
    IN  IF size > MaxRange THEN Fails ELSE IF size < 0 THEN Panics ELSE Ints(start, ToInt(Last(args)) + 1)

FnRange(args) ==
    LET start == IF Len(args) = 2 THEN ToInt(args[1]) ELSE 0
        end == ToInt(Last(args))
        size == Wrap(end - start)
    IN  IF end <= start THEN Arr(<<>>)
        ELSE IF size > MaxRange THEN Fails
        ELSE IF size < 0 THEN Panics
        ELSE Ints(start, end)

\* The loop of seq: i wraps when it passes the largest or the smallest integer.
FnSeq(args) ==
    LET start == IF Len(args) = 1 THEN 0 ELSE ToInt(args[1])
        end == IF Len(args) = 1 THEN ToInt(args[1]) ELSE ToInt(args[2])
        step == IF Len(args) = 3 THEN ToInt(args[3])
                ELSE IF Len(args) = 2 /\ start > end THEN -1 ELSE 1
        before(i) == IF step > 0 THEN i < end ELSE i > end
        upTo[n \in 0..(MaxSeq + 1)] ==
            IF n = 0 THEN <<>>
            ELSE LET s == upTo[n - 1]
                     i == IF s = <<>> THEN start ELSE Wrap(Last(s) + step)
                 IN  IF Len(s) = n - 1 /\ before(i) THEN Append(s, i) ELSE s
    IN  IF step = 0 THEN Arr(<<>>)
        ELSE LET s == upTo[MaxSeq + 1] IN Arr([k \in DOMAIN s |-> Int64(s[k])])

\* random_int of stdlib/math.go: the values it may return.
FnRandomInt(min, max) ==
    LET size == Wrap(Wrap(max - min) + 1)
    IN  IF min >= max THEN {Int64(min)}
        ELSE IF size <= 0 THEN {Panics}
        ELSE {Int64(Wrap(min + k)) : k \in 0..(size - 1)}

--------------------------------------------------------------------------------
(* What they promise, whatever integers a program passes.                            *)

\* Elements of the array w, or of arrays in v that are pieces of it.
Within(v, w) == IsArray(v) /\ Range(Items(v)) \subseteq Range(Items(w))
PiecesWithin(v, w) == IsArray(v) /\ \A k \in DOMAIN v[2] : Within(v[2][k], w)

\* The builtins that compute positions in an array return elements of it; only chunk panics,
\* and only by a size that wraps when the length is added to it (collections.go:349).
InBounds(v, n, m) ==
    LET i == Int64(n)
        chunks == FnChunk(v, i)
    IN  /\ Within(FnHead(v, i), v)
        /\ Within(FnTail(v, i), v)
        /\ Within(FnSlice(<<v, i, Int64(m)>>), v)
        /\ PiecesWithin(FnWindows(v, i), v)
        /\ IF chunks = Panics THEN n + Len(Items(v)) - 1 > MaxInt ELSE PiecesWithin(chunks, v)

\* The chunks of s by n: all but the last are full, and each goes on where the one before ends.
AreChunks(chunks, s, n) ==
    LET last == Len(chunks)
    IN  /\ \A k \in 1..(last - 1) : Len(chunks[k][2]) = n
        /\ Len(chunks[last][2]) = Len(s) - (last - 1) * n /\ Len(chunks[last][2]) \in 1..n
        /\ \A k \in DOMAIN chunks : \A j \in DOMAIN chunks[k][2] :
               chunks[k][2][j] = s[(k - 1) * n + j]

\* What they leave and what they take is the array: nothing twice, nothing lost.
PiecesFit(v, n) ==
    LET i == Int64(n)
        s == Items(v)
        windows == FnWindows(v, i)[2]
    IN  /\ n >= 0 => Items(FnHead(v, i)) \o Items(FnSlice(<<v, i>>)) = s
        /\ n > 0 => Items(FnSlice(<<v, Int64(0), Int64(-n)>>)) \o Items(FnTail(v, i)) = s
        /\ FnReverseArr(FnHead(v, i)) = FnTail(FnReverseArr(v), i)
        /\ \A k \in DOMAIN windows :
               windows[k] = FnSlice(<<v, Int64(k - 1), Int64(k - 1 + n)>>)
        /\ n > 0 /\ FnChunk(v, i) # Panics /\ s # <<>> => AreChunks(FnChunk(v, i)[2], s, n)

\* range, random_int and seq between two integers return those between them, except that the
\* first two panic over a distance that is no integer (:278, math.go:123) and the loop of seq
\* goes on, up to its limit, when its last step passes the integers (:752, :759).
Progresses(a, b, step) ==
    LET term(k) == a + k * step
        terms == {k \in 0..MaxSeq : IF step > 0 THEN term(k) < b ELSE term(k) > b}
        seq == FnSeq(<<Int64(a), Int64(b), Int64(step)>>)[2]
    IN  /\ FnRange(<<Int64(a), Int64(b)>>) =
                IF b - a > MaxInt THEN Panics
                ELSE IF b - a > MaxRange THEN Fails
                ELSE Ints(a, b)
        /\ \A r \in FnRandomInt(a, b) :
                IF a < b /\ b - a >= MaxInt THEN r = Panics ELSE r[2] \in (a..b) \cup {a}
        /\ Len(seq) <= MaxSeq + 1
        /\ \/ step = 0 /\ seq = <<>>
           \/ seq = [k \in 1..Cardinality(terms) |-> Int64(term(k - 1))]
           \/ Cardinality(terms) <= MaxSeq /\ term(Cardinality(terms)) \notin IntRange
================================================================================
