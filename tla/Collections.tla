----------------------------- MODULE Collections -----------------------------
(* The array builtins of stdlib/collections.go and collections_extra.go, one       *)
(* operator each, over the values of module Values.  An optional argument whose     *)
(* absence means what null means is a plain argument, null when it is absent;       *)
(* where the two differ the operator takes the sequence of the call's arguments.    *)
EXTENDS Values, Positions

CONSTANT Apply(_, _)   \* what a lambda returns for a sequence of arguments, or Fails

IsText(v, s) == ToText(v) = s

\* The elements of s at the positions in S, in order.
Chosen(s, S) ==
    FoldLeftDomain(LAMBDA acc, i : IF i \in S THEN Append(acc, s[i]) ELSE acc, <<>>, s)

\* The positions of s whose key occurs at no earlier position.
Firsts(s, Key(_)) == {i \in DOMAIN s : \A j \in 1..(i - 1) : Key(s[j]) # Key(s[i])}

GetField(v, key) ==
    IF Kind(v) = "object" /\ key \in DOMAIN v[2] THEN v[2][key] ELSE Null

--------------------------------------------------------------------------------
(* Lambdas.  A loop that calls its lambda for every element fails when any call      *)
(* fails; one that may stop earlier fails when the call it stops at does.           *)

CallLambda(f, args) == IF Kind(f) = "lambda" THEN Apply(f, args) ELSE Fails
Answer(f, x) == CallLambda(f, <<x>>)
Accepts(f, x) == Answer(f, x) # Fails /\ ToBool(Answer(f, x))

\* Result of the lambda's answers for all of v's elements.
Calling(v, f, Result(_)) ==
    LET answers == [i \in DOMAIN Items(v) |-> Answer(f, Items(v)[i])]
    IN  IF Fails \in Range(answers) THEN Fails ELSE Result(answers)

\* The first position where the lambda answers `wanted` or fails, 0 without one.
Stop(s, f, wanted) ==
    SelectInSeq(s, LAMBDA x : Answer(f, x) = Fails \/ Accepts(f, x) = wanted)

\* None of the elements, or Found of the position where the loop stops.
Until(v, f, wanted, none, Found(_)) ==
    LET i == Stop(Items(v), f, wanted)
    IN  IF i = 0 THEN none
        ELSE IF Answer(f, Items(v)[i]) = Fails THEN Fails ELSE Found(i)

Accepted(answers, wanted) == {i \in DOMAIN answers : ToBool(answers[i]) = wanted}
Grouped(keys, Group(_)) == Obj([k \in Range(keys) |-> Group({i \in DOMAIN keys : keys[i] = k})])
Texted(answers) == [i \in DOMAIN answers |-> ToText(answers[i])]

FnMap(v, f) == OnArray(v, Calling(v, f, Arr))
FnFilter(v, f) ==
    OnArray(v, Calling(v, f, LAMBDA ys : Arr(Chosen(Items(v), Accepted(ys, TRUE)))))
FnReduce(v, init, f) ==
    OnArray(v, FoldLeft(LAMBDA acc, x : IF acc = Fails THEN Fails ELSE CallLambda(f, <<acc, x>>),
                        init, Items(v)))
FnCountWhere(v, f) == Calling(v, f, LAMBDA ys : Int64(Cardinality(Accepted(ys, TRUE))))
FnGroupBy(v, f) ==
    OnArray(v, Calling(v, f, LAMBDA ys :
        Grouped(Texted(ys), LAMBDA S : Arr(Chosen(Items(v), S)))))
FnIndexBy(v, f) ==
    OnArray(v, Calling(v, f, LAMBDA ys : Grouped(Texted(ys), LAMBDA S : Items(v)[Max(S)])))
FnCountBy(v, f) ==
    OnArray(v, Calling(v, f, LAMBDA ys : Grouped(Texted(ys), LAMBDA S : Int64(Cardinality(S)))))
FnDistinctBy(v, f) ==
    OnArray(v, Calling(v, f, LAMBDA ys : Arr(Chosen(Items(v), Firsts(ys, Printed)))))
FnPartition(v, f) ==
    OnArray(v, Calling(v, f, LAMBDA ys :
        Arr(<<Arr(Chosen(Items(v), Accepted(ys, TRUE))),
              Arr(Chosen(Items(v), Accepted(ys, FALSE)))>>)))
FnFlatMap(v, f) ==
    OnArray(v, Calling(v, f, LAMBDA ys :
        Arr(FlattenSeq([i \in DOMAIN ys |-> IF IsArray(ys[i]) THEN ys[i][2] ELSE <<ys[i]>>]))))

FnFind(v, f) == Until(v, f, TRUE, Null, LAMBDA i : Items(v)[i])
FnFindIndex(v, f) == Until(v, f, TRUE, Int64(-1), LAMBDA i : Int64(i - 1))
FnEvery(v, f) == Until(v, f, FALSE, Bool(IsArray(v)), LAMBDA i : Bool(FALSE))
FnSome(v, f) == Until(v, f, TRUE, Bool(FALSE), LAMBDA i : Bool(TRUE))
FnTakeWhile(v, f) ==
    Until(v, f, FALSE, Arr(Items(v)), LAMBDA i : Arr(SubSeq(Items(v), 1, i - 1)))
FnDropWhileAnywhere(v, f) ==   \* a mutant: goes on dropping
    Calling(v, f, LAMBDA ys : Arr(Chosen(Items(v), Accepted(ys, FALSE))))
FnDropWhile(v, f) ==
    Until(v, f, FALSE, Arr(<<>>), LAMBDA i : Arr(SubSeq(Items(v), i, Len(Items(v)))))

--------------------------------------------------------------------------------
(* Arrays put together. *)

FnFlatten(v) ==
    OnArray(v, Arr(FlattenSeq([i \in DOMAIN Items(v) |->
                        IF IsArray(Items(v)[i]) THEN Items(v)[i][2] ELSE <<Items(v)[i]>>])))
FnConcat(args) ==
    IF \E i \in DOMAIN args : ~IsArray(args[i]) THEN Fails
    ELSE Arr(FlattenSeq([i \in DOMAIN args |-> args[i][2]]))
FnZip(a, b) ==
    IF IsArray(a) /\ IsArray(b)
    THEN Arr([i \in DOMAIN a[2] \cap DOMAIN b[2] |-> Arr(<<a[2][i], b[2][i]>>)])
    ELSE Fails
FnUnzip(v) ==
    LET pairs == SelectSeq(Items(v), LAMBDA x : IsArray(x) /\ Len(x[2]) >= 2)
        side(k) == Arr([i \in DOMAIN pairs |-> pairs[i][2][k]])
    IN  OnArray(v, Arr(<<side(1), side(2)>>))
FnCompact(v) == OnArray(v, Arr(SelectSeq(Items(v), LAMBDA x : ~IsNull(x))))
FnPluck(v, key) ==
    LET with == SelectSeq(Items(v), LAMBDA x : Kind(x) = "object" /\ ToText(key) \in DOMAIN x[2])
    IN  OnArray(v, Arr([i \in DOMAIN with |-> with[i][2][ToText(key)]]))

--------------------------------------------------------------------------------
(* Order.  Go's stable sort of at most twenty elements inserts one after another,    *)
(* each behind the elements that it is not less than.                               *)

StableSort(s, Less(_, _)) ==
    FoldLeft(LAMBDA sorted, x :
                 InsertAt(sorted, SelectLastInSeq(sorted, LAMBDA y : ~Less(x, y)) + 1, x),
             <<>>, s)

\* By the number Score gives an element.
Ordered(s, Score(_), descending) ==
    LET key(x) == ToFloat(Score(x))
    IN  StableSort(s, LAMBDA x, y : IF descending THEN FloatLess(key(y), key(x))
                                                  ELSE FloatLess(key(x), key(y)))

FnSort(v, dir) == OnArray(v, Arr(Ordered(Items(v), LAMBDA x : x, IsText(dir, "desc"))))
FnSortBy(v, key, dir) ==
    OnArray(v, Arr(Ordered(Items(v), LAMBDA x : GetField(x, ToText(key)), IsText(dir, "desc"))))

FnTopNReversed(v, n, key) ==   \* a mutant: the end of the ascending order
    LET k == ToInt(n)
        score(x) == IF IsText(key, "") THEN x ELSE GetField(x, ToText(key))
        sorted == Reverse(Ordered(Items(v), score, FALSE))
    IN  OnArray(v, IF k < 0 THEN Panics
                   ELSE Arr(Part(sorted, 0, IF k > Len(sorted) THEN Len(sorted) ELSE k)))

\* Like sort, but a negative n is not a bound of a slice.
FnTopN(v, n, key) ==
    LET k == ToInt(n)
        score(x) == IF IsText(key, "") THEN x ELSE GetField(x, ToText(key))
        sorted == Ordered(Items(v), score, TRUE)
    IN  OnArray(v, IF k < 0 THEN Panics
                   ELSE Arr(Part(sorted, 0, IF k > Len(sorted) THEN Len(sorted) ELSE k)))

\* min_by and max_by: the first of the best.
ExtremeBy(v, f, Better(_, _)) ==
    OnArray(v, Calling(v, f, LAMBDA ys :
        IF ys = <<>> THEN Null
        ELSE LET best == FoldLeftDomain(LAMBDA b, i :
                             IF Better(ToFloat(ys[i]), ToFloat(ys[b])) THEN i ELSE b, 1, ys)
             IN  Items(v)[best]))
FnMinBy(v, f) == ExtremeBy(v, f, FloatLess)
FnMaxBy(v, f) == ExtremeBy(v, f, LAMBDA x, y : FloatLess(y, x))

--------------------------------------------------------------------------------
(* Sets.  unique, includes and distinct_by compare the text of values, the set        *)
(* operations the text and the Go type.                                             *)

SetKey(v) == <<Kind(v), Printed(v)>>

FnUnique(v) == OnArray(v, Arr(Chosen(Items(v), Firsts(Items(v), Printed))))
FnIncludes(v, x) == Bool(\E i \in DOMAIN Items(v) : Printed(Items(v)[i]) = Printed(x))

SetOperation(a, b, s, Member(_)) ==
    IF IsArray(a) /\ IsArray(b)
    THEN Arr(Chosen(s, {i \in Firsts(s, SetKey) : Member(s[i])}))
    ELSE Fails
KeysOf(v) == {SetKey(x) : x \in Range(Items(v))}
FnIntersection(a, b) == SetOperation(a, b, Items(a), LAMBDA x : SetKey(x) \in KeysOf(b))
FnUnion(a, b) == SetOperation(a, b, Items(a) \o Items(b), LAMBDA x : TRUE)
FnDifference(a, b) == SetOperation(a, b, Items(a), LAMBDA x : SetKey(x) \notin KeysOf(b))
================================================================================
