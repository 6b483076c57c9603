------------------------------- MODULE Library -------------------------------
(* What the builtins of stdlib promise each other: laws between functions that are         *)
(* written independently of one another, over the values that pipelines of calls           *)
(* produce (module Sharing).                                                            *)
EXTENDS Sharing, Statistics

CONSTANTS Lambdas,   \* the lambdas of an instance
          Numbers,   \* the integers of an instance's calls, the extremes among them
          Precise    \* a bound on the numbers whose squares TLC's integers have room for

Newest == Last(values)
Elems == Items(Newest)
Works(v) == v # Fails /\ v # Panics

--------------------------------------------------------------------------------
(* Numbers at their limits. *)

\* Whatever numbers a program passes, the builtins that compute positions in an array
\* return elements of it (InBounds); and top_n does, except that it panics by a negative
\* number (collections.go:403), from which nothing in the repository recovers.
PositionsWithin ==
    IsArray(Newest) =>
        \A n \in Numbers :
            /\ \A m \in Numbers : InBounds(Newest, n, m)
            /\ Within(FnTopN(Newest, Int64(n), Null), Newest) <=> n >= 0

\* So do those that compute integers, with the extremes among the numbers of an array.
ProgressionsWithin ==
    Progresses(ToInt(FnFirst(Newest)), ToInt(FnLast(Newest)),
               IF Len(Elems) > 2 THEN ToInt(Elems[2]) ELSE 1)

\* The two together: nothing outside an array or an interval is ever reached.
LimitsOnlyAtEdges == PositionsWithin /\ ProgressionsWithin

--------------------------------------------------------------------------------
(* Pieces, predicates and groups. *)

Pieces ==
    \A n \in Numbers :
        LET i == Int64(n)
            chunks == FnChunk(Newest, i)
        IN  /\ PiecesFit(Newest, n)
            /\ n >= 0 => FnConcat(<<FnHead(Newest, i), FnSlice(<<Newest, i>>)>>) = Newest
            /\ chunks # Panics => FnFlatten(chunks) = Newest

\* A predicate, by whichever function asks it.
Predicates(f) ==
    LET parts == FnPartition(Newest, f)
        yes == parts[2][1]
        no == parts[2][2]
        leading == FnTakeWhile(Newest, f)
        rest == FnDropWhile(Newest, f)
        found == FnFindIndex(Newest, f)
    IN  /\ leading = Fails <=> rest = Fails
        /\ leading # Fails => FnConcat(<<leading, rest>>) = Newest
        /\ parts # Fails =>
            /\ yes = FnFilter(Newest, f)
            /\ FnCountWhere(Newest, f) = FnCount(yes)
            /\ FnSumWhere(Newest, f) = FnSum(yes)
            /\ FnFind(Newest, f) = FnFirst(yes)
            /\ FnEvery(Newest, f) = Bool(no = Arr(<<>>))
            /\ FnSome(Newest, f) = Bool(yes # Arr(<<>>))
            /\ IF yes = Arr(<<>>) THEN found = Int64(-1)
               ELSE /\ FnSome(FnHead(Newest, found), f) = Bool(FALSE)
                    /\ Elems[found[2] + 1] = FnFirst(yes)

\* group_by keys by toString and distinct_by by %v, which tell different values apart.
Told(answers) ==
    \A x, y \in answers : (ToText(x) = ToText(y)) <=> (Printed(x) = Printed(y))

Groups(f) ==
    LET answers == FnMap(Newest, f)
        groups == FnGroupBy(Newest, f)
        group(k) == groups[2][k]
    IN  IF answers = Fails THEN groups = Fails
        ELSE /\ FnFlatMap(Newest, f) = FnFlatten(answers)
             /\ FnCountBy(Newest, f) = Obj([k \in DOMAIN groups[2] |-> FnCount(group(k))])
             /\ FnIndexBy(Newest, f) = Obj([k \in DOMAIN groups[2] |-> FnLast(group(k))])
             /\ FnSumBy(Newest, f) = FnSum(answers)
             /\ FnAvgBy(Newest, f) = FnAvg(answers)
             /\ Told(Range(answers[2])) =>
                    /\ Len(FnDistinctBy(Newest, f)[2]) = Cardinality(DOMAIN groups[2])
                    /\ Range(FnDistinctBy(Newest, f)[2]) =
                            {FnFirst(group(k)) : k \in DOMAIN groups[2]}

Sets(other) ==
    LET both == FnIntersection(Newest, other)
        left == FnDifference(Newest, other)
        right == FnDifference(other, Newest)
        all == FnUnion(Newest, other)
    IN  /\ KeysOf(all) = KeysOf(Newest) \cup KeysOf(other)
        /\ KeysOf(both) = KeysOf(FnIntersection(other, Newest))
        /\ Len(all[2]) = Cardinality(KeysOf(all))
        /\ Len(all[2]) = Len(both[2]) + Len(left[2]) + Len(right[2])
        /\ FnUnion(FnConcat(<<Newest, other>>), Arr(<<>>)) = all
        /\ \A x \in Range(Elems) : both = FnUnion(Newest, Newest) => FnIncludes(other, x)[2]
        /\ FnDifference(FnUnique(Newest), all) = Arr(<<>>)

\* The pieces of an array (head, tail, slice, chunk, windows, take_while, drop_while,
\* partition, group_by, the set operations) put together are the array, and every function
\* that asks a predicate or a key agrees with the others about its answers.
PiecesAgree ==
    IsArray(Newest) =>
        /\ Pieces
        /\ \A f \in Lambdas : Predicates(f) /\ Groups(f)
        /\ \A i \in Arrays : Sets(values[i])
        /\ LET zipped == FnZip(Newest, FnReverseArr(Newest))
           IN  FnUnzip(zipped) = Arr(<<Newest, FnReverseArr(Newest)>>)

--------------------------------------------------------------------------------
(* Order and statistics. *)

AtMost(x, y) == ~FloatLess(y, x)
Percent(p) == FnPercentile(Newest, Int64(p))
Score(i) == ToFloat(Elems[i])

\* The k-th of the elements by their number, equal ones as they come.
Before(i, j, descending) ==
    \/ IF descending THEN FloatLess(Score(j), Score(i)) ELSE FloatLess(Score(i), Score(j))
    \/ Score(i) = Score(j) /\ i < j
Ranked(k, descending) ==
    Elems[CHOOSE i \in DOMAIN Elems :
            Cardinality({j \in DOMAIN Elems : Before(j, i, descending)}) = k - 1]

Sorting ==
    LET down == FnSort(Newest, Str("desc"))
    IN  /\ \A n \in Numbers : n >= 0 => FnTopN(Newest, Int64(n), Null) = FnHead(down, Int64(n))
        /\ \A d \in BOOLEAN :
            FnSort(Newest, IF d THEN Str("desc") ELSE Null) =
                Arr([k \in DOMAIN Elems |-> Ranked(k, d)])
        /\ \A f \in Lambdas : FnMap(Newest, f) # Fails /\ Elems # <<>> =>
            LET best == Answer(f, FnMaxBy(Newest, f))
            IN  ToFloat(best) = FnMax(<<FnMap(Newest, f)>>)

Ranks ==
    /\ Percent(0) = FnMin(<<Newest>>)
    /\ Percent(100) = FnMax(<<Newest>>)
    /\ Percent(50) = FnMedian(Newest)
    /\ \A p \in {10, 25, 50, 75} :
        /\ AtMost(Percent(p), Percent(p + 15))
        /\ Percent(p) = FnQuantile(Newest, Float(p, 100))
    /\ LET fences == FnOutlierBounds(<<Newest>>)
       IN  AtMost(fences.lower, Percent(25)) /\ AtMost(Percent(75), fences.upper)

Moments ==
    LET n == Count(Elems)
    IN  /\ FnSum(Newest) = Mul(FnAvg(Newest), n)
        /\ AtMost(Percent(0), FnAvg(Newest)) /\ AtMost(FnAvg(Newest), Percent(100))
        /\ \A w \in Numbers :
            FnMovingAvg(Newest, Int64(w)) =
                FnAvg(IF w <= 0 THEN Newest ELSE FnTail(Newest, Int64(w)))
        /\ FnSumSquares(Newest) = Mul(FnVariance(Newest), n)
        /\ FnCovariance(Newest, Newest) = FnVariance(Newest)
        /\ (\A i \in DOMAIN Elems : Abs(Score(i)[2]) <= Precise) =>
           LET line == FnLinreg(Newest, FnReverseArr(Newest))
           IN  /\ AtMost(Zero, line.r2) /\ AtMost(line.r2, Float(1, 1))
               /\ AtMost(Square(line.slope), Float(1, 1))

\* Every value is counted once, in a bin whose range it is in; the ranges adjoin.
Bins ==
    \A n \in {1, 2, 3} :
        LET bins == FnHistogram(Newest, Int64(n))
            in(k) == {i \in DOMAIN Elems :
                        /\ AtMost(bins[k].start, Score(i))
                        /\ \/ FloatLess(Score(i), bins[k].end)
                           \/ k = n /\ Score(i) = bins[k].end}
        IN  /\ \A k \in 1..n : bins[k].count = Cardinality(in(k))
            /\ UNION {in(k) : k \in 1..n} = DOMAIN Elems
            /\ \A k \in 1..(n - 1) : bins[k].end = bins[k + 1].start

Frequent ==
    LET times(x) == Cardinality({i \in DOMAIN Elems : SetKey(Elems[i]) = SetKey(x)})
    IN  (\A x \in Range(Elems) : Printed(x) \in Range(Texts)) =>
            \A x \in Range(Elems) : times(FnMode(Newest)) >= times(x)

\* sort is the stable permutation by number and top_n its head; median, percentile, quantile,
\* min, max, avg, moving_avg, variance, sum_squares, covariance, linreg, histogram and mode
\* describe the same numbers.
StatisticsAgree == Elems # <<>> => Sorting /\ Ranks /\ Moments /\ Bins /\ Frequent

--------------------------------------------------------------------------------
(* Paths and objects. *)

\* A path through v that no element of an array is given up for when it is set.
Keeps(v, p) ==
    \A n \in 0..(Len(p) - 1) :
        LET c == FnPathGet(v, SubSeq(p, 1, n), Null)
        IN  IsArray(c) => Addresses(c, p[n + 1])
Apart(p, q) == ~IsPrefix(p, q) /\ ~IsPrefix(q, p)

Setting(v, p, x) ==
    LET after == FnPathSet(v, p, x)
    IN  /\ FnPathHas(after, p)
        /\ FnPathGet(after, p, Null) = x
        /\ Keeps(v, p) => \A q \in Ways : Apart(p, q) =>
                FnPathGet(after, q, Fails) = FnPathGet(v, q, Fails)
        /\ FnPathHas(v, p) => FnPathSet(after, p, FnPathGet(v, p, Null)) = v

Deleting(v, p) ==
    LET after == FnPathDelete(v, p)
        parent == FnPathGet(v, Front(p), Null)
    IN  /\ after = v <=> ~FnPathHas(v, p)
        /\ IsArray(parent) /\ FnPathHas(v, p) =>
                Len(FnPathGet(after, Front(p), Null)[2]) = Len(parent[2]) - 1
        /\ IsObject(parent) =>
            /\ ~FnPathHas(after, p)
            /\ FnPathHas(v, p) => FnPathDelete(FnPathSet(after, p, Null), p) = after
            /\ \A q \in Ways : Apart(p, q) => FnPathGet(after, q, Fails) = FnPathGet(v, q, Fails)

\* The leaves of an object determine it, and path::flatten lists them unless a key with a
\* dot has the name of another leaf.
Flattening(v) ==
    LET leaves == LeafPaths(v)
        flat == FnPathFlatten(v)[2]
        rebuilt == FoldSet(LAMBDA p, o : FnPathSet(o, p, FnPathGet(v, p, Null)), Empty, leaves)
    IN  /\ rebuilt = v
        /\ DOMAIN flat = {Dotted(p) : p \in leaves}
        /\ \A p \in leaves :
            \/ flat[Dotted(p)] = FnPathGet(v, p, Fails)
            \/ \E q \in leaves \ {p} : Dotted(p) = Dotted(q)

\* The leaves of the last layer show; those of an earlier one where no later one has a value
\* at, above or below them.  An empty object gives way to the fields of another.
Layering(v, w) ==
    LET merged == FnDeepMerge(<<v, w>>)
    IN  /\ \A p \in LeafPaths(w) : FnPathGet(w, p, Null) # Empty =>
                FnPathGet(merged, p, Fails) = FnPathGet(w, p, Null)
        /\ \A p \in LeafPaths(v) :
            \/ FnPathGet(merged, p, Fails) = FnPathGet(v, p, Null)
            \/ FnPathHas(w, p)
            \/ \E n \in 1..(Len(p) - 1) :
                    /\ FnPathHas(w, SubSeq(p, 1, n))
                    /\ ~IsObject(FnPathGet(w, SubSeq(p, 1, n), Null))
        /\ FnDeepMerge(<<merged, w>>) = merged
        /\ FnKeys(merged) = FnKeys(FnMerge(<<v, w>>))
        /\ FnMerge(<<FnPick(w, FnKeys(v)), FnOmit(w, FnKeys(v))>>) = w

Entries(v) ==
    /\ FnFromEntries(FnEntries(v)) = v
    /\ FnPluck(FnEntries(v), Str("value")) = FnValues(v)
    /\ LET inverse == FnInvert(v)[2]
       IN  /\ DOMAIN inverse = {ToText(x) : x \in Range(v[2])}
           /\ \A k \in DOMAIN inverse : ToText(GetField(v, inverse[k][2])) = k
    /\ \A f \in Lambdas : FnMapValues(v, f) # Fails =>
        /\ FnMap(FnValues(v), f) = FnValues(FnMapValues(v, f))
        /\ FnKeys(FnMapValues(v, f)) = FnKeys(v)

\* What is set at a path is found there and nothing apart from it is lost, but where the code
\* replaces an array; deleting undoes setting; the leaves of an object determine it; deep_merge
\* layers leaves; entries, keys, values, pick and omit take an object apart without loss.
PathsAnswer ==
    /\ \A p \in Ways : Setting(Newest, p, Int64(2)) /\ Deleting(Newest, p)
    /\ IsObject(Newest) =>
        /\ Flattening(Newest)
        /\ Entries(Newest)
        /\ \A i \in Objects : Layering(Newest, values[i]) /\ Layering(values[i], Newest)
================================================================================
