------------------------------- MODULE Sharing -------------------------------
(* The builtins that rearrange arrays and objects, as they work on Go's memory.  A Go      *)
(* slice is a part of an array that other slices may share, a Go map is a reference;       *)
(* stdlib/collections.go copies some of them and hands out parts of others,                *)
(* stdlib/path.go copies the containers along a path and shares everything off it.         *)
(* Nothing may write to a container that another value reaches.                          *)
EXTENDS Paths

CONSTANTS Documents,   \* the values a host may pass in
          Indices,     \* the numbers of a call, as integers
          Ways,        \* the paths of a call
          KeySets,     \* the arrays of keys of a call
          MaxHeld(_)   \* a bound on the values a program that gets a document holds

ASSUME SharingAssumption ==
    /\ Documents # {}
    /\ \A v \in Documents : MaxHeld(v) \in Nat \ {0}

VARIABLES heap,    \* the arrays and maps allocated so far; their elements are references
          held,    \* the references a program holds
          values   \* history: what each of them was when the program got it

vars == <<heap, held, values>>

(* A reference is a scalar, a slice of an array in the heap, or a map in the heap. *)
Slice(a, from, to) == <<"slice", a, from, to>>
IsSlice(r) == Kind(r) = "slice"
IsMap(r) == Kind(r) = "map"

\* A reference's own container, with references in it.
Content(h, r) ==
    IF IsSlice(r) THEN Arr(Part(h[r[2]][2], r[3], r[4]))
    ELSE IF IsMap(r) THEN h[r[2]] ELSE r

\* The value that a reference stands for.
RECURSIVE Meaning(_, _)
Meaning(h, r) ==
    LET c == Content(h, r)
    IN  IF IsSlice(r) THEN Arr([i \in DOMAIN c[2] |-> Meaning(h, c[2][i])])
        ELSE IF IsMap(r) THEN Obj([k \in DOMAIN c[2] |-> Meaning(h, c[2][k])])
        ELSE r

\* The result of an operation: what it returns, and the heap after it.
Outcome(h, r) == [heap |-> h, ref |-> r]
New(h, c) ==
    Outcome(Append(h, c), IF IsArray(c) THEN Slice(Len(h) + 1, 0, Len(c[2])) ELSE <<"map", Len(h) + 1>>)
Write(h, r, k, v) == [h EXCEPT ![r[2]] = Obj(With(@[2], k, v))]

\* Operations one after the other, from the first to the last of s: Do(heap, element)
\* yields a reference for each.
Each(h, s, Do(_, _)) ==
    FoldLeft(LAMBDA acc, x : LET o == Do(acc.heap, x)
                             IN  [heap |-> o.heap, refs |-> Append(acc.refs, o.ref)],
             [heap |-> h, refs |-> <<>>], s)
NewEach(h, s, Do(_, _)) == LET o == Each(h, s, Do) IN New(o.heap, Arr(o.refs))

RECURSIVE Built(_, _)
Built(h, v) ==
    CASE IsArray(v) -> NewEach(h, v[2], Built)
      [] IsObject(v) ->
            LET ks == SortedKeys(v)
                o == Each(h, ks, LAMBDA g, k : Built(g, v[2][k]))
            IN  New(o.heap, Obj([k \in Range(ks) |-> o.refs[SelectInSeq(ks, LAMBDA l : l = k)]]))
      [] OTHER -> Outcome(h, v)

--------------------------------------------------------------------------------
(* Arrays: head, tail and chunk hand out parts of their argument, the others copy. *)

Length(r) == r[4] - r[3]
SubSlice(r, from, to) == Slice(r[2], r[3] + from, r[3] + to)
Elements(h, r) == Content(h, r)[2]

HeadOf(h, r, n) ==
    IF n >= Length(r) THEN Outcome(h, r)
    ELSE IF n <= 0 THEN New(h, Arr(<<>>))
    ELSE Outcome(h, SubSlice(r, 0, n))
TailOf(h, r, n) ==
    IF n >= Length(r) THEN Outcome(h, r)
    ELSE IF n <= 0 THEN New(h, Arr(<<>>))
    ELSE Outcome(h, SubSlice(r, Length(r) - n, Length(r)))
ChunkOf(h, r, n) ==
    LET end(k) == IF k * n > Length(r) THEN Length(r) ELSE k * n
    IN  New(h, Arr(IF n <= 0 THEN <<r>>
                   ELSE [k \in 1..((Length(r) + n - 1) \div n) |->
                            SubSlice(r, (k - 1) * n, end(k))]))
SliceOf(h, r, n) ==
    LET start == ResolveIndex(n, Length(r))
    IN  New(h, Arr(Part(Elements(h, r), start, Length(r))))
WindowsOf(h, r, n) ==
    IF n <= 0 \/ n > Length(r) THEN New(h, Arr(<<>>))
    ELSE NewEach(h, [k \in 1..(Length(r) - n + 1) |-> k],
                 LAMBDA g, k : New(g, Arr(Part(Elements(g, r), k - 1, k - 1 + n))))

\* sort sorts a copy where it stands.
SortInPlace(h, r) ==
    LET sorted == Ordered(Elements(h, r), LAMBDA x : x, TRUE)
    IN  Outcome([h EXCEPT ![r[2]][2] =
                    [i \in DOMAIN @ |-> IF i \in (r[3] + 1)..r[4] THEN sorted[i - r[3]] ELSE @[i]]], r)
SortOf(h, r) == LET copy == New(h, Content(h, r)) IN SortInPlace(copy.heap, copy.ref)
ReverseOf(h, r) == New(h, Arr(Reverse(Elements(h, r))))
FlattenOf(h, r) ==
    New(h, Arr(FlattenSeq([i \in 1..Length(r) |->
        LET x == Elements(h, r)[i] IN IF IsSlice(x) THEN Elements(h, x) ELSE <<x>>])))
ConcatOf(h, r, s) == New(h, Arr(Elements(h, r) \o Elements(h, s)))
ZipOf(h, r, s) ==
    NewEach(h, [k \in DOMAIN Elements(h, r) \cap DOMAIN Elements(h, s) |-> k],
            LAMBDA g, k : New(g, Arr(<<Elements(g, r)[k], Elements(g, s)[k]>>)))

--------------------------------------------------------------------------------
(* Paths: the containers along the path are copied. *)

RECURSIVE GetIn(_, _, _)
GetIn(h, r, path) ==
    IF path = <<>> THEN r
    ELSE LET c == Content(h, r)
         IN  IF Addresses(c, Head(path)) THEN GetIn(h, Descend(c, Head(path)), Tail(path)) ELSE Null

\* One level copied, with the outcome of `inner` at a segment.
Replaced(c, seg, inner) ==
    LET i == Position(seg, Len(Items(c)))
    IN  New(inner.heap, IF i # 0 THEN Arr(ReplaceAt(Items(c), i, inner.ref))
                        ELSE Obj(With(Fields(c), seg, inner.ref)))

RECURSIVE SetIn(_, _, _, _)
SetIn(h, r, path, value) ==
    IF path = <<>> THEN Outcome(h, value)
    ELSE LET c == Content(h, r)
             seg == Head(path)
             child == IF Addresses(c, seg) THEN Descend(c, seg) ELSE Null
         IN  Replaced(c, seg, SetIn(h, child, Tail(path), value))

RECURSIVE DeleteIn(_, _, _)
DeleteIn(h, r, path) ==
    LET c == Content(h, r)
    IN  IF path = <<>> \/ ~Addresses(c, Head(path)) THEN Outcome(h, r)
        ELSE IF Len(path) > 1
        THEN Replaced(c, Head(path), DeleteIn(h, Descend(c, Head(path)), Tail(path)))
        ELSE New(h, IF IsObject(c) THEN Obj(Without(c[2], {Head(path)}))
                    ELSE Arr(RemoveAt(c[2], Position(Head(path), Len(c[2])))))

\* path::flatten shares the leaves: a leaf is the reference at its path.
FlattenPathsOf(h, r) ==
    LET paths == NamedLeaves(Meaning(h, r))
    IN  New(h, Obj([k \in DOMAIN paths |-> GetIn(h, r, paths[k])]))

--------------------------------------------------------------------------------
(* Objects. *)

\* mergeInto copies the first object and writes the fields of the second into the copy;
\* where both have an object, what merging the two returns.
RECURSIVE MergeIn(_, _, _)
MergeIn(h, dst, src) ==
    LET out == New(h, Content(h, dst))
        new == Content(h, src)[2]
        put(g, k) ==
            LET old == At(Content(g, out.ref)[2], k)
                inner == IF IsMap(old) /\ IsMap(new[k]) THEN MergeIn(g, old, new[k])
                         ELSE Outcome(g, new[k])
            IN  Write(inner.heap, out.ref, k, inner.ref)
    IN  Outcome(FoldLeft(put, out.heap, SortedTexts(DOMAIN new)), out.ref)

DeepMergeOf(h, r, s) ==
    LET none == New(h, Empty)
        first == MergeIn(none.heap, none.ref, r)
    IN  MergeIn(first.heap, first.ref, s)
MergeOf(h, r, s) ==
    LET none == New(h, Empty)
        all(g, o) == FoldLeft(LAMBDA f, k : Write(f, none.ref, k, Content(h, o)[2][k]),
                              g, SortedKeys(Content(h, o)))
    IN  Outcome(all(all(none.heap, r), s), none.ref)
PickOf(h, r, keys) == New(h, FnPick(Content(h, r), keys))
OmitOf(h, r, keys) == New(h, FnOmit(Content(h, r), keys))
ValuesOf(h, r) == New(h, FnValues(Content(h, r)))
EntriesOf(h, r) ==
    NewEach(h, SortedKeys(Content(h, r)),
            LAMBDA g, k : New(g, Entry(Str(k), Content(g, r)[2][k])))

--------------------------------------------------------------------------------
(* A pipeline of calls: each adds a value computed from values the program holds, on     *)
(* the heap and, by the definition of the builtin, on values.                          *)

Init ==
    \E v \in Documents :
        LET o == Built(<<>>, v)
        IN  heap = o.heap /\ held = <<o.ref>> /\ values = <<v>>

Yield(o, v) ==
    /\ Len(held) < MaxHeld(values[1])
    /\ heap' = o.heap
    /\ held' = Append(held, o.ref)
    /\ values' = Append(values, v)

Arrays == {i \in DOMAIN held : IsSlice(held[i])}
Objects == {i \in DOMAIN held : IsMap(held[i])}

Cut ==
    \E i \in Arrays, n \in Indices :
        \/ Yield(HeadOf(heap, held[i], n), FnHead(values[i], Int64(n)))
        \/ Yield(TailOf(heap, held[i], n), FnTail(values[i], Int64(n)))
        \/ Yield(SliceOf(heap, held[i], n), FnSlice(<<values[i], Int64(n)>>))
        \/ Yield(ChunkOf(heap, held[i], n), FnChunk(values[i], Int64(n)))
        \/ Yield(WindowsOf(heap, held[i], n), FnWindows(values[i], Int64(n)))
Rearrange ==
    \E i \in Arrays :
        \/ Yield(ReverseOf(heap, held[i]), FnReverseArr(values[i]))
        \/ Yield(SortOf(heap, held[i]), FnSort(values[i], Str("desc")))
        \/ Yield(FlattenOf(heap, held[i]), FnFlatten(values[i]))
Combine ==
    \E i, j \in Arrays :
        \/ Yield(ConcatOf(heap, held[i], held[j]), FnConcat(<<values[i], values[j]>>))
        \/ Yield(ZipOf(heap, held[i], held[j]), FnZip(values[i], values[j]))
Reach ==
    \E i \in DOMAIN held, p \in Ways :
        Yield(Outcome(heap, GetIn(heap, held[i], p)), FnPathGet(values[i], p, Null))
Put ==
    \E i, j \in DOMAIN held, p \in Ways :
        Yield(SetIn(heap, held[i], p, held[j]), FnPathSet(values[i], p, values[j]))
Drop ==
    \E i \in DOMAIN held, p \in Ways :
        Yield(DeleteIn(heap, held[i], p), FnPathDelete(values[i], p))
Layer ==
    \E i, j \in Objects :
        \/ Yield(MergeOf(heap, held[i], held[j]), FnMerge(<<values[i], values[j]>>))
        \/ Yield(DeepMergeOf(heap, held[i], held[j]), FnDeepMerge(<<values[i], values[j]>>))
Restricted ==
    \E i \in Objects, ks \in KeySets :
        \/ Yield(PickOf(heap, held[i], ks), FnPick(values[i], ks))
        \/ Yield(OmitOf(heap, held[i], ks), FnOmit(values[i], ks))
Listed ==
    \E i \in Objects :
        \/ Yield(ValuesOf(heap, held[i]), FnValues(values[i]))
        \/ Yield(EntriesOf(heap, held[i]), FnEntries(values[i]))
        \/ Yield(FlattenPathsOf(heap, held[i]), FnPathFlatten(values[i]))

Next ==
    \/ Cut
    \/ Rearrange
    \/ Combine
    \/ Reach
    \/ Put
    \/ Drop
    \/ Layer
    \/ Restricted
    \/ Listed

Spec == Init /\ [][Next]_vars

--------------------------------------------------------------------------------

\* Every call returns what the builtin's definition on values says, and no value that the
\* program holds is changed by a later call, whatever they share (stdlib/path.go:96-98: "the
\* input is never mutated while untouched branches are not deep-copied either").
ValuesNeverChange == \A i \in DOMAIN held : Meaning(heap, held[i]) = values[i]
================================================================================
