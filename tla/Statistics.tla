----------------------------- MODULE Statistics -----------------------------
(* The aggregations of stdlib/collections.go, stats.go, stats_extra.go and math.go     *)
(* that stay within fractions: those that take square roots are left out.            *)
EXTENDS Collections

Square(x) == Mul(x, x)
Total(floats) == FoldLeft(Add, Zero, floats)
Count(s) == Float(Len(s), 1)
Mean(floats) == IF floats = <<>> THEN Zero ELSE Div(Total(floats), Count(floats))

Floats(s) == [i \in DOMAIN s |-> ToFloat(s[i])]
SortedFloats(s) == StableSort(Floats(s), FloatLess)

\* A number for an array of at least one element, zero for anything else.
Summary(v, Of(_)) == IF Items(v) = <<>> THEN Zero ELSE Of(Floats(Items(v)))

FnSum(v) == IF IsArray(v) THEN Total(Floats(Items(v))) ELSE ToFloat(v)
FnAvg(v) == Summary(v, Mean)
FnCount(v) == Int64(IF IsArray(v) THEN Len(Items(v)) ELSE IF IsNull(v) THEN 0 ELSE 1)
FnSumWhere(v, f) ==
    Calling(v, f, LAMBDA ys : Total(Floats(Chosen(Items(v), Accepted(ys, TRUE)))))
FnSumBy(v, f) == OnArray(v, Calling(v, f, LAMBDA ys : Total(Floats(ys))))
FnAvgBy(v, f) ==
    OnArray(v, Calling(v, f, LAMBDA ys : IF ys = <<>> THEN Zero ELSE Div(Total(Floats(ys)), Count(ys))))

\* min and max: over an array that is the only argument, or over several arguments.
Extreme(args, Better(_, _)) ==
    LET best(s) == FoldLeft(LAMBDA b, x : IF Better(x, b) THEN x ELSE b, Head(s), Tail(s))
    IN  IF Len(args) > 1 THEN best(Floats(args))
        ELSE IF ~IsArray(args[1]) THEN args[1]
        ELSE IF Items(args[1]) = <<>> THEN Null
        ELSE best(Floats(Items(args[1])))
FnMin(args) == Extreme(args, FloatLess)
FnMax(args) == Extreme(args, LAMBDA x, y : FloatLess(y, x))

\* sum_squares and variance: of the deviations from the mean.
Deviations(floats) == Total([i \in DOMAIN floats |-> Square(Sub(floats[i], Mean(floats)))])
FnSumSquares(v) == Summary(v, Deviations)
FnVariance(v) ==
    Summary(v, LAMBDA fs : IF Len(fs) < 2 THEN Zero ELSE Div(Deviations(fs), Count(fs)))

FnMedian(v) ==
    Summary(v, LAMBDA fs :
        LET sorted == StableSort(fs, FloatLess)
            half == Len(fs) \div 2
        IN  IF Len(fs) % 2 = 1 THEN sorted[half + 1]
            ELSE Div(Add(sorted[half], sorted[half + 1]), Float(2, 1)))

PercentileFromSorted(sorted, p) ==
    LET rank == Mul(Div(p, Float(100, 1)), Float(Len(sorted) - 1, 1))
        lower == rank[2] \div rank[3]
        frac == Sub(rank, Float(lower, 1))
    IN  IF Len(sorted) = 1 THEN sorted[1]
        ELSE IF lower + 1 >= Len(sorted) THEN Last(sorted)
        ELSE Add(sorted[lower + 1], Mul(frac, Sub(sorted[lower + 2], sorted[lower + 1])))

Clamped(x, top) == IF FloatLess(x, Zero) THEN Zero ELSE IF FloatLess(top, x) THEN top ELSE x
FnPercentile(v, p) ==
    Summary(v, LAMBDA fs :
        PercentileFromSorted(StableSort(fs, FloatLess), Clamped(ToFloat(p), Float(100, 1))))
FnQuantile(v, q) ==
    Summary(v, LAMBDA fs :
        PercentileFromSorted(StableSort(fs, FloatLess),
                             Mul(Clamped(ToFloat(q), Float(1, 1)), Float(100, 1))))

\* args: the values, perhaps the factor.
FnOutlierBounds(args) ==
    LET quartile(p) == PercentileFromSorted(SortedFloats(Items(args[1])), Float(p, 1))
        factor == IF Len(args) > 1 THEN ToFloat(args[2]) ELSE Float(3, 2)
        reach == Mul(factor, Sub(quartile(75), quartile(25)))
    IN  IF Items(args[1]) = <<>> THEN [lower |-> Zero, upper |-> Zero]
        ELSE [lower |-> Sub(quartile(25), reach), upper |-> Add(quartile(75), reach)]

\* The bins, each with its range and the number of values in it.
FnHistogram(v, n) ==
    LET bins == IF ToInt(n) <= 0 THEN 10 ELSE ToInt(n)
        sorted == SortedFloats(Items(v))
        width == LET w == Div(Sub(Last(sorted), sorted[1]), Float(bins, 1))
                 IN  IF w = Zero THEN Float(1, 1) ELSE w
        edge(i) == Add(sorted[1], Mul(Float(i, 1), width))
        bin(x) == LET at == ToInt(Div(Sub(x, sorted[1]), width))
                  IN  IF at >= bins THEN bins - 1 ELSE IF at < 0 THEN 0 ELSE at
    IN  IF Items(v) = <<>> THEN <<>>
        ELSE [i \in 1..bins |->
                [bin |-> i - 1, start |-> edge(i - 1), end |-> edge(i),
                 count |-> Cardinality({k \in DOMAIN sorted : bin(sorted[k]) = i - 1})]]

\* mode: the most frequent key, the first in the order of keys among several; of the
\* values with that key the last.
KeyLess(k, l) ==
    LET kinds == <<"null", "array", "bool", "float", "int", "object", "string">>
        kind(x) == SelectInSeq(kinds, LAMBDA y : y = x[1])
    IN  \/ kind(k) < kind(l)
        \/ k[1] = l[1] /\ TextLess(k[2], l[2])
FnMode(v) ==
    LET s == Items(v)
        at(k) == {i \in DOMAIN s : SetKey(s[i]) = k}
        often(k) == Cardinality(at(k))
        best == CHOOSE k \in KeysOf(v) :
                    \A l \in KeysOf(v) \ {k} :
                        \/ often(l) < often(k)
                        \/ often(l) = often(k) /\ KeyLess(k, l)
    IN  IF s = <<>> THEN Null ELSE s[Max(at(best))]

FnMovingAvg(v, window) ==
    LET n == ToInt(window)
    IN  Summary(v, LAMBDA fs : Mean(IF n <= 0 \/ n > Len(fs) THEN fs
                                    ELSE Part(fs, Len(fs) - n, Len(fs))))

--------------------------------------------------------------------------------
(* Two arrays, up to the length of the shorter. *)

Paired(a, b) == [i \in DOMAIN Items(a) \cap DOMAIN Items(b) |->
                    [x |-> ToFloat(Items(a)[i]), y |-> ToFloat(Items(b)[i])]]
Xs(pairs) == [i \in DOMAIN pairs |-> pairs[i].x]
Ys(pairs) == [i \in DOMAIN pairs |-> pairs[i].y]

\* The sum of the products of the deviations.
Codeviation(pairs) ==
    Total([i \in DOMAIN pairs |-> Mul(Sub(pairs[i].x, Mean(Xs(pairs))),
                                      Sub(pairs[i].y, Mean(Ys(pairs))))])
FnCovariance(a, b) ==
    LET pairs == Paired(a, b)
    IN  IF pairs = <<>> THEN Zero ELSE Div(Codeviation(pairs), Count(pairs))

FnLinreg(a, b) ==
    LET pairs == Paired(a, b)
        sxx == Deviations(Xs(pairs))
        slope == Div(Codeviation(pairs), sxx)
        intercept == Sub(Mean(Ys(pairs)), Mul(slope, Mean(Xs(pairs))))
        residual(p) == Sub(p.y, Add(Mul(slope, p.x), intercept))
        ssRes == Total([i \in DOMAIN pairs |-> Square(residual(pairs[i]))])
        ssTot == Deviations(Ys(pairs))
    IN  IF pairs = <<>> \/ sxx = Zero THEN [slope |-> Zero, intercept |-> Zero, r2 |-> Zero]
        ELSE [slope |-> slope, intercept |-> intercept,
              r2 |-> IF ssTot = Zero THEN Float(1, 1) ELSE Sub(Float(1, 1), Div(ssRes, ssTot))]
================================================================================
