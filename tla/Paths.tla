-------------------------------- MODULE Paths --------------------------------
(* The builtins of stdlib/path.go and stdlib/objects.go over nested values.  A path is   *)
(* the sequence of its segments: splitPath has split it at the dots.                   *)
EXTENDS Collections

IsObject(v) == Kind(v) = "object"
Fields(v) == IF IsObject(v) THEN v[2] ELSE [k \in {} |-> Null]
Empty == Obj([k \in {} |-> Null])

\* strconv.Atoi: the position a segment names in an array of n elements, 0 for none.
\* Positions are TLA+'s, one above Go's.
Position(seg, n) ==
    IF \E i \in 1..n : ToString(i - 1) = seg THEN CHOOSE i \in 1..n : ToString(i - 1) = seg ELSE 0

\* descend: whether a segment addresses something in a value, and what.
Addresses(v, seg) == seg \in DOMAIN Fields(v) \/ Position(seg, Len(Items(v))) # 0
Descend(v, seg) ==
    IF IsObject(v) THEN v[2][seg] ELSE Items(v)[Position(seg, Len(Items(v)))]

RECURSIVE FnPathHas(_, _)
FnPathHas(v, path) ==
    \/ path = <<>>
    \/ Addresses(v, Head(path)) /\ FnPathHas(Descend(v, Head(path)), Tail(path))

RECURSIVE FnPathGet(_, _, _)
FnPathGet(v, path, default) ==
    IF path = <<>> THEN v
    ELSE IF ~Addresses(v, Head(path)) THEN default
    ELSE FnPathGet(Descend(v, Head(path)), Tail(path), default)

\* The value at a key, null without it, as indexing a Go map gives it.
At(f, k) == IF k \in DOMAIN f THEN f[k] ELSE Null
With(f, k, v) == [l \in DOMAIN f \cup {k} |-> IF l = k THEN v ELSE f[l]]
Without(f, keys) == [k \in DOMAIN f \ keys |-> f[k]]

\* setPath: what a segment does not address becomes an object.
RECURSIVE FnPathSet(_, _, _)
FnPathSet(v, path, value) ==
    IF path = <<>> THEN value
    ELSE LET i == Position(Head(path), Len(Items(v)))
         IN  IF i # 0
             THEN Arr(ReplaceAt(Items(v), i, FnPathSet(Items(v)[i], Tail(path), value)))
             ELSE Obj(With(Fields(v), Head(path),
                           FnPathSet(At(Fields(v), Head(path)), Tail(path), value)))

RECURSIVE FnPathDelete(_, _)
FnPathDelete(v, path) ==
    IF path = <<>> \/ ~Addresses(v, Head(path)) THEN v
    ELSE LET seg == Head(path)
             i == Position(seg, Len(Items(v)))
             inner == FnPathDelete(Descend(v, seg), Tail(path))
         IN  CASE IsObject(v) /\ Len(path) = 1 -> Obj(Without(v[2], {seg}))
               [] IsObject(v) -> Obj(With(v[2], seg, inner))
               [] Len(path) = 1 -> Arr(RemoveAt(v[2], i))
               [] OTHER -> Arr(ReplaceAt(v[2], i, inner))

\* flattenInto: the paths of a value's leaves.  Empty objects and arrays are leaves.
RECURSIVE LeafPaths(_)
LeafPaths(v) ==
    UNION {LET inner == v[2][k]
           IN  IF IsObject(inner) /\ DOMAIN inner[2] # {}
               THEN {<<k>> \o p : p \in LeafPaths(inner)}
               ELSE {<<k>>} : k \in DOMAIN v[2]}
Dotted(path) == FoldLeft(LAMBDA s, seg : IF s = "" THEN seg ELSE s \o "." \o seg, "", path)

\* A key with a dot may be the name of another leaf: the one walked last stays.  Keys are
\* walked in order, depth first.
RECURSIVE WalkedBefore(_, _)
WalkedBefore(p, q) ==
    /\ p # <<>>
    /\ q # <<>>
    /\ \/ TextLess(Head(p), Head(q))
       \/ /\ Head(p) = Head(q)
          /\ WalkedBefore(Tail(p), Tail(q))
NamedLeaves(v) ==
    LET leaves == IF IsObject(v) THEN LeafPaths(v) ELSE {}
        named(k) == {p \in leaves : Dotted(p) = k}
    IN  [k \in {Dotted(p) : p \in leaves} |->
            CHOOSE p \in named(k) : \A q \in named(k) \ {p} : WalkedBefore(q, p)]
FnPathFlatten(v) ==
    LET paths == NamedLeaves(v) IN Obj([k \in DOMAIN paths |-> FnPathGet(v, paths[k], Null)])

--------------------------------------------------------------------------------
(* Objects. *)

SortedKeys(v) == SortedTexts(DOMAIN Fields(v))
FnHasKey(v, key) == Bool(ToText(key) \in DOMAIN Fields(v))
FnKeys(v) == LET ks == SortedKeys(v) IN Arr([i \in DOMAIN ks |-> Str(ks[i])])
FnValues(v) == LET ks == SortedKeys(v) IN Arr([i \in DOMAIN ks |-> v[2][ks[i]]])

Entry(k, v) == Obj([f \in {"key", "value"} |-> IF f = "key" THEN k ELSE v])
FnEntries(v) == LET ks == SortedKeys(v) IN Arr([i \in DOMAIN ks |-> Entry(Str(ks[i]), v[2][ks[i]])])
FnFromEntries(v) ==
    LET entries == SelectSeq(Items(v), LAMBDA e : "key" \in DOMAIN Fields(e))
        key(i) == ToText(entries[i][2]["key"])
        last(k) == Max({i \in DOMAIN entries : key(i) = k})
    IN  Obj([k \in {key(i) : i \in DOMAIN entries} |-> GetField(entries[last(k)], "value")])

\* A key computed for each of an object's keys, in order: the last of equal ones stays.
Renamed(v, Key(_), Value(_)) ==
    LET ks == SortedKeys(v)
        last(n) == ks[Max({i \in DOMAIN ks : Key(ks[i]) = n})]
    IN  Obj([n \in {Key(k) : k \in DOMAIN Fields(v)} |-> Value(last(n))])
FnInvert(v) == Renamed(v, LAMBDA k : ToText(v[2][k]), Str)
FnMapKeys(v, f) ==
    IF \E k \in DOMAIN Fields(v) : Answer(f, Str(k)) = Fails THEN Fails
    ELSE Renamed(v, LAMBDA k : ToText(Answer(f, Str(k))), LAMBDA k : v[2][k])
FnMapValues(v, f) ==
    LET answers == [k \in DOMAIN Fields(v) |-> Answer(f, v[2][k])]
    IN  IF Fails \in Range(answers) THEN Fails ELSE Obj(answers)

\* pick and omit take an array of keys, or do nothing.
KeyTexts(keys) == {ToText(k) : k \in Range(Items(keys))}
FnPick(v, keys) == Obj(Without(Fields(v), DOMAIN Fields(v) \ KeyTexts(keys)))
FnOmit(v, keys) == Obj(Without(Fields(v), KeyTexts(keys)))

\* Layers from the first to the last; objects at the same key are Joined, elsewhere the
\* later value stays.
Layered(a, b, Join(_, _)) ==
    Obj([k \in DOMAIN a[2] \cup DOMAIN b[2] |->
            IF k \in DOMAIN a[2] \cap DOMAIN b[2] /\ IsObject(a[2][k]) /\ IsObject(b[2][k])
            THEN Join(a[2][k], b[2][k])
            ELSE IF k \in DOMAIN b[2] THEN b[2][k] ELSE a[2][k]])
Merged(args, Merge(_, _)) ==
    IF \E i \in DOMAIN args : ~IsObject(args[i]) THEN Fails ELSE FoldLeft(Merge, Empty, args)
MergeIntoOverwrites(a, b) == Layered(a, b, LAMBDA x, y : y)   \* a mutant
RECURSIVE MergeInto(_, _)
MergeInto(a, b) == Layered(a, b, MergeInto)
FnMerge(args) == Merged(args, LAMBDA a, b : Layered(a, b, LAMBDA x, y : y))
FnDeepMerge(args) == Merged(args, MergeInto)
================================================================================
