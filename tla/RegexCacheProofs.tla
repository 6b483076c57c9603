--------------------------- MODULE RegexCacheProofs ----------------------------
(***************************************************************************)
(* The pattern cache, for any number of callers, patterns and places: the  *)
(* map and the list agree, the bound holds, a caller gets its own result,  *)
(* and the whole is a least-recently-used memo (PatternMemo).              *)
(***************************************************************************)
EXTENDS RegexCache, SequenceTheorems, TLAPS

\* Holding the mutex is being inside compilePattern.
MutexInv == \A c \in Callers : pc[c] \in Inside <=> mu = c

\* Every list element holds its pattern's compile result.
ResultsInv == \A i \in 1 .. Len(order) : order[i].res = Compile(order[i].pattern)

\* What the holder of the mutex knows at each of its steps.
HolderInv ==
    \A c \in Callers :
        /\ pc[c] # "idle" => arg[c] \in Patterns
        /\ pc[c] = "compile" => entries[arg[c]] = NoEntry
        /\ pc[c] = "evict" => /\ Len(order) > 0 /\ order[1].pattern = arg[c]
                              /\ ret[c] = Compile(arg[c])

\* Over the bound by one, and only between an insertion and its eviction.
BoundInv ==
    /\ Len(order) <= PatternCacheSize + 1
    /\ (\A c \in Callers : pc[c] # "evict") => Len(order) <= PatternCacheSize

IInv == /\ TypeOK
        /\ MutexInv
        /\ EntriesMatchOrder
        /\ ResultsInv
        /\ HolderInv
        /\ BoundInv
        /\ AnswersOwnPattern

--------------------------------------------------------------------------------
\* The list operations build lists.

LEMMA PushFrontSeq ==
    ASSUME NEW S, NEW s \in Seq(S), NEW e \in S
    PROVE  /\ PushFront(e, s) \in Seq(S)
           /\ Len(PushFront(e, s)) = Len(s) + 1
           /\ \A k \in 1 .. Len(s) + 1 : PushFront(e, s)[k] = IF k = 1 THEN e ELSE s[k - 1]
  BY DEF PushFront

LEMMA RemoveBackSeq ==
    ASSUME NEW S, NEW s \in Seq(S), Len(s) > 0
    PROVE  /\ RemoveBack(s) \in Seq(S)
           /\ Len(RemoveBack(s)) = Len(s) - 1
           /\ \A k \in 1 .. Len(s) - 1 : RemoveBack(s)[k] = s[k]
  BY DEF RemoveBack

LEMMA MoveToFrontSeq ==
    ASSUME NEW S, NEW s \in Seq(S), NEW i \in 1 .. Len(s),
           \A j \in 1 .. Len(s) : s[j] = s[i] => j = i
    PROVE  /\ MoveToFront(s[i], s) \in Seq(S)
           /\ Len(MoveToFront(s[i], s)) = Len(s)
           /\ \A k \in 1 .. Len(s) : MoveToFront(s[i], s)[k] =
                 IF k = 1 THEN s[i] ELSE IF k <= i THEN s[k - 1] ELSE s[k]
<1> DEFINE j == CHOOSE j \in 1 .. Len(s) : s[j] = s[i]
<1>1. j = i
  OBVIOUS
<1>2. Holds(s[i], s)
  BY DEF Holds
<1>3. MoveToFront(s[i], s) =
        [k \in 1 .. Len(s) |-> IF k = 1 THEN s[i] ELSE IF k <= i THEN s[k - 1] ELSE s[k]]
  BY <1>1, <1>2 DEF MoveToFront
<1>. QED
  BY <1>3

--------------------------------------------------------------------------------
\* The invariant holds at the start, is kept by each step, and implies what the
\* runs check.

LEMMA InitInv == Init => IInv
<1> SUFFICES ASSUME Init PROVE IInv
  OBVIOUS
<1> USE PatternCacheSizeAssumption, NoneAssumption DEF Init
<1>1. TypeOK
  BY DEF TypeOK
<1>2. MutexInv /\ HolderInv /\ AnswersOwnPattern
  BY DEF MutexInv, HolderInv, AnswersOwnPattern, Inside
<1>3. EntriesMatchOrder /\ ResultsInv /\ BoundInv
  BY DEF EntriesMatchOrder, ResultsInv, BoundInv, NoEntry
<1>. QED
  BY <1>1, <1>2, <1>3 DEF IInv

LEMMA CallKeepsInv ==
    ASSUME IInv, NEW c \in Callers, NEW p \in Patterns, Call(c, p)
    PROVE  IInv'
<1> USE DEF IInv, Call, Goto
<1>1. TypeOK'
  BY DEF TypeOK, Inside
<1>2. MutexInv'
  BY DEF TypeOK, MutexInv, Inside
<1>3. EntriesMatchOrder' /\ ResultsInv'
  BY DEF EntriesMatchOrder, ResultsInv, Holds
<1>4. HolderInv' /\ AnswersOwnPattern'
  BY DEF TypeOK, HolderInv, AnswersOwnPattern
<1>5. BoundInv'
  BY DEF TypeOK, BoundInv
<1>. QED
  BY <1>1, <1>2, <1>3, <1>4, <1>5

LEMMA LockKeepsInv ==
    ASSUME IInv, NEW c \in Callers, Lock(c)
    PROVE  IInv'
<1> USE DEF IInv, Lock, Goto
<1>1. TypeOK'
  BY DEF TypeOK, Inside
<1>2. MutexInv'
  BY NoneAssumption DEF TypeOK, MutexInv, Inside
<1>3. EntriesMatchOrder' /\ ResultsInv'
  BY DEF EntriesMatchOrder, ResultsInv, Holds
<1>4. HolderInv' /\ AnswersOwnPattern'
  BY DEF TypeOK, HolderInv, AnswersOwnPattern
<1>5. BoundInv'
  BY DEF TypeOK, BoundInv
<1>. QED
  BY <1>1, <1>2, <1>3, <1>4, <1>5

LEMMA HitKeepsInv ==
    ASSUME IInv, NEW c \in Callers, Hit(c)
    PROVE  IInv'
<1> DEFINE e == entries[arg[c]]
<1> USE DEF IInv
<1>1. arg[c] \in Patterns /\ e \in Entries /\ e.pattern = arg[c]
  BY DEF Hit, HolderInv, EntriesMatchOrder, TypeOK
<1>2. PICK i \in 1 .. Len(order) : order[i] = e
  BY <1>1 DEF Hit, EntriesMatchOrder, Holds
<1>3. \A j \in 1 .. Len(order) : order[j] = order[i] => j = i
  BY DEF EntriesMatchOrder
<1>4. /\ order' \in Seq(Entries)
      /\ Len(order') = Len(order)
      /\ \A k \in 1 .. Len(order) : order'[k] =
            IF k = 1 THEN order[i] ELSE IF k <= i THEN order[k - 1] ELSE order[k]
  BY <1>2, <1>3, MoveToFrontSeq DEF Hit, TypeOK
<1>. DEFINE from(k) == IF k = 1 THEN i ELSE IF k <= i THEN k - 1 ELSE k
<1>11. \A k \in 1 .. Len(order') : from(k) \in 1 .. Len(order) /\ order'[k] = order[from(k)]
  BY <1>4 DEF TypeOK
<1>12. \A k, l \in 1 .. Len(order') : from(k) = from(l) => k = l
  BY <1>4 DEF TypeOK
<1>13. entries' = entries
  BY DEF Hit
<1> HIDE DEF from
<1>5. TypeOK'
  BY <1>1, <1>4 DEF Hit, Goto, TypeOK, Inside, Entries
<1>6. MutexInv'
  BY DEF Hit, Goto, TypeOK, MutexInv, Inside
<1>7. ResultsInv'
  BY <1>11 DEF ResultsInv
<1>8. EntriesMatchOrder'
  <2>1. \A k \in 1 .. Len(order') : entries'[order'[k].pattern] = order'[k]
    BY <1>11, <1>13 DEF EntriesMatchOrder
  <2>2. \A k, l \in 1 .. Len(order') : order'[k].pattern = order'[l].pattern => k = l
    <3> SUFFICES ASSUME NEW k \in 1 .. Len(order'), NEW l \in 1 .. Len(order'),
                        order'[k].pattern = order'[l].pattern
                 PROVE  k = l
      OBVIOUS
    <3>1. from(k) = from(l)
      BY <1>11 DEF EntriesMatchOrder
    <3>. QED
      BY <3>1, <1>12
  <2>3. \A k \in 1 .. Len(order) : Holds(order[k], order')
    <3> SUFFICES ASSUME NEW k \in 1 .. Len(order)
                 PROVE  \E l \in 1 .. Len(order') : order'[l] = order[k]
      BY DEF Holds
    <3>1. CASE k < i
      BY <3>1, <1>4, k + 1 \in 1 .. Len(order') DEF TypeOK
    <3>2. CASE k = i
      BY <3>2, <1>4, 1 \in 1 .. Len(order') DEF TypeOK
    <3>3. CASE k > i
      BY <3>3, <1>4, k \in 1 .. Len(order') DEF TypeOK
    <3>. QED
      BY <3>1, <3>2, <3>3
  <2>4. \A p \in Patterns : entries'[p] # NoEntry =>
            entries'[p].pattern = p /\ Holds(entries'[p], order')
    BY <2>3, <1>13 DEF EntriesMatchOrder, Holds
  <2>. QED
    BY <2>1, <2>2, <2>4 DEF EntriesMatchOrder
<1>9. HolderInv' /\ AnswersOwnPattern'
  <2>1. order'[1] = e /\ e.res = Compile(arg[c])
    BY <1>1, <1>2, <1>4, 1 \in 1 .. Len(order) DEF ResultsInv, TypeOK
  <2>2. \A d \in Callers \ {c} : pc[d] \notin Inside
    BY DEF Hit, MutexInv, Inside
  <2>. QED
    BY <1>1, <1>4, <2>1, <2>2 DEF Hit, Goto, HolderInv, AnswersOwnPattern, TypeOK, Inside
<1>10. BoundInv'
  BY <1>4 DEF Hit, Goto, TypeOK, BoundInv
<1>. QED
  BY <1>5, <1>6, <1>7, <1>8, <1>9, <1>10

LEMMA MissKeepsInv ==
    ASSUME IInv, NEW c \in Callers, Miss(c)
    PROVE  IInv'
<1> USE DEF IInv, Miss, Goto
<1>1. TypeOK'
  BY DEF TypeOK, Inside
<1>2. MutexInv'
  BY DEF TypeOK, MutexInv, Inside
<1>3. EntriesMatchOrder' /\ ResultsInv'
  BY DEF EntriesMatchOrder, ResultsInv, Holds
<1>4. HolderInv' /\ AnswersOwnPattern'
  BY DEF TypeOK, HolderInv, AnswersOwnPattern
<1>5. BoundInv'
  BY DEF TypeOK, BoundInv
<1>. QED
  BY <1>1, <1>2, <1>3, <1>4, <1>5

LEMMA InsertKeepsInv ==
    ASSUME IInv, NEW c \in Callers, Insert(c)
    PROVE  IInv'
<1> DEFINE e == [pattern |-> arg[c], res |-> Compile(arg[c])]
<1> USE DEF IInv
<1>1. e \in Entries /\ e # NoEntry /\ arg[c] \in Patterns /\ entries[arg[c]] = NoEntry
  BY NoneAssumption DEF Insert, HolderInv, Entries, NoEntry, Compile, Outcomes
<1>2. /\ order' \in Seq(Entries)
      /\ Len(order') = Len(order) + 1
      /\ \A k \in 1 .. Len(order) + 1 : order'[k] = IF k = 1 THEN e ELSE order[k - 1]
  BY <1>1, PushFrontSeq DEF Insert, TypeOK
<1>3. Len(order) \in Nat
  BY DEF TypeOK
<1>4. entries' = [entries EXCEPT ![arg[c]] = e]
  BY DEF Insert
<1>5. \A k \in 1 .. Len(order) : order[k].pattern # arg[c] /\ order[k] \in Entries
  <2> SUFFICES ASSUME NEW k \in 1 .. Len(order)
               PROVE  order[k].pattern # arg[c] /\ order[k] \in Entries
    OBVIOUS
  <2>1. order[k] \in Entries
    BY DEF TypeOK
  <2>2. order[k] # NoEntry
    BY <2>1, NoneAssumption DEF Entries, NoEntry
  <2>3. entries[order[k].pattern] = order[k]
    BY DEF EntriesMatchOrder
  <2>. QED
    BY <1>1, <2>1, <2>2, <2>3
<1>6. \A d \in Callers \ {c} : pc[d] \notin Inside
  BY DEF Insert, MutexInv, Inside
<1>7. TypeOK'
  BY <1>1, <1>2 DEF Insert, Goto, TypeOK, Inside, Entries
<1>8. MutexInv'
  BY DEF Insert, Goto, TypeOK, MutexInv, Inside
<1>9. ResultsInv'
  BY <1>2, <1>3 DEF ResultsInv
<1>10. EntriesMatchOrder'
  <2>1. \A k \in 1 .. Len(order') : entries'[order'[k].pattern] = order'[k]
    <3> SUFFICES ASSUME NEW k \in 1 .. Len(order')
                 PROVE  entries'[order'[k].pattern] = order'[k]
      OBVIOUS
    <3>1. CASE k = 1
      BY <3>1, <1>1, <1>2, <1>3, <1>4 DEF TypeOK
    <3>2. CASE k # 1
      <4>1. k - 1 \in 1 .. Len(order) /\ order'[k] = order[k - 1]
        BY <3>2, <1>2, <1>3
      <4>2. order[k - 1].pattern # arg[c] /\ order[k - 1].pattern \in Patterns
        BY <4>1, <1>5 DEF Entries
      <4>. QED
        BY <4>1, <4>2, <1>4 DEF EntriesMatchOrder, TypeOK
    <3>. QED
      BY <3>1, <3>2
  <2>2. \A k, l \in 1 .. Len(order') : order'[k].pattern = order'[l].pattern => k = l
    <3> SUFFICES ASSUME NEW k \in 1 .. Len(order'), NEW l \in 1 .. Len(order'),
                        order'[k].pattern = order'[l].pattern
                 PROVE  k = l
      OBVIOUS
    <3>1. CASE k = 1 \/ l = 1
      <4>1. \A m \in 1 .. Len(order') : m # 1 => order'[m].pattern # arg[c]
        BY <1>2, <1>3, <1>5
      <4>2. order'[1].pattern = arg[c]
        BY <1>2, <1>3
      <4>. QED
        BY <3>1, <4>1, <4>2
    <3>2. CASE k # 1 /\ l # 1
      <4>1. /\ k - 1 \in 1 .. Len(order) /\ order'[k] = order[k - 1]
            /\ l - 1 \in 1 .. Len(order) /\ order'[l] = order[l - 1]
        BY <3>2, <1>2, <1>3
      <4>2. k - 1 = l - 1
        BY <4>1 DEF EntriesMatchOrder
      <4>. QED
        BY <4>2, <1>3
    <3>. QED
      BY <3>1, <3>2
  <2>3. \A p \in Patterns : entries'[p] # NoEntry =>
            entries'[p].pattern = p /\ Holds(entries'[p], order')
    <3> SUFFICES ASSUME NEW p \in Patterns, entries'[p] # NoEntry
                 PROVE  entries'[p].pattern = p /\ Holds(entries'[p], order')
      OBVIOUS
    <3>1. CASE p = arg[c]
      BY <3>1, <1>2, <1>3, <1>4, 1 \in 1 .. Len(order) + 1 DEF TypeOK, Holds
    <3>2. CASE p # arg[c]
      <4>1. entries'[p] = entries[p]
        BY <3>2, <1>4 DEF TypeOK
      <4>2. PICK i \in 1 .. Len(order) : order[i] = entries[p]
        BY <4>1 DEF EntriesMatchOrder, Holds
      <4>3. i + 1 \in 1 .. Len(order') /\ order'[i + 1] = order[i]
        BY <1>2, <1>3
      <4>. QED
        BY <4>1, <4>2, <4>3 DEF EntriesMatchOrder, Holds
    <3>. QED
      BY <3>1, <3>2
  <2>. QED
    BY <2>1, <2>2, <2>3 DEF EntriesMatchOrder
<1>11. HolderInv' /\ AnswersOwnPattern'
  <2>1. Len(order') > 0 /\ order'[1] = e
    BY <1>2, <1>3
  <2>2. pc' = [pc EXCEPT ![c] = "evict"] /\ arg' = arg /\ ret' = [ret EXCEPT ![c] = e.res]
    BY DEF Insert, Goto
  <2>. QED
    BY <1>1, <1>6, <2>1, <2>2 DEF HolderInv, AnswersOwnPattern, TypeOK, Inside
<1>12. BoundInv'
  <2>1. \A d \in Callers : pc[d] # "evict"
    BY <1>6 DEF Insert, Inside
  <2>2. Len(order) <= PatternCacheSize
    BY <2>1 DEF BoundInv
  <2>3. Len(order') <= PatternCacheSize + 1
    BY <2>2, <1>2, <1>3, PatternCacheSizeAssumption
  <2>4. pc'[c] = "evict"
    BY DEF Insert, Goto, TypeOK
  <2>. QED
    BY <2>3, <2>4 DEF BoundInv
<1>. QED
  BY <1>7, <1>8, <1>9, <1>10, <1>11, <1>12

LEMMA EvictKeepsInv ==
    ASSUME IInv, NEW c \in Callers, Evict(c)
    PROVE  IInv'
<1> USE DEF IInv
<1>1. /\ pc' = [pc EXCEPT ![c] = "unlock"] /\ UNCHANGED <<mu, arg, ret>>
      /\ pc[c] = "evict" /\ arg[c] \in Patterns
  BY DEF Evict, Overfull, Goto, HolderInv
<1>2. \A d \in Callers \ {c} : pc[d] \notin Inside
  BY <1>1 DEF MutexInv, Inside
<1>3. MutexInv'
  BY <1>1 DEF TypeOK, MutexInv, Inside
<1>4. Len(order) \in Nat /\ Len(order) > 0 /\ order[1].pattern = arg[c] /\ ret[c] = Compile(arg[c])
  BY <1>1 DEF HolderInv, TypeOK
<1>5. CASE Len(order) <= PatternCacheSize
  <2>1. entries' = entries /\ order' = order
    BY <1>5, <1>4, PatternCacheSizeAssumption DEF Evict, Overfull
  <2>2. TypeOK'
    BY <1>1, <2>1 DEF TypeOK, Inside
  <2>3. EntriesMatchOrder' /\ ResultsInv'
    BY <2>1 DEF EntriesMatchOrder, ResultsInv, Holds
  <2>4. HolderInv' /\ AnswersOwnPattern'
    BY <1>1, <1>2, <1>4, <2>1 DEF HolderInv, AnswersOwnPattern, TypeOK, Inside
  <2>5. BoundInv'
    BY <1>5, <2>1 DEF BoundInv
  <2>. QED
    BY <1>3, <2>2, <2>3, <2>4, <2>5
<1>6. CASE Len(order) > PatternCacheSize
  <2> DEFINE n == Len(order)
             last == order[Len(order)]
  <2>1. n > 1 /\ n <= PatternCacheSize + 1
    BY <1>4, <1>6, PatternCacheSizeAssumption DEF BoundInv
  <2>2. order' = RemoveBack(order) /\ entries' = [entries EXCEPT ![last.pattern] = NoEntry]
    BY <1>6 DEF Evict, Overfull
  <2>3. /\ order' \in Seq(Entries)
        /\ Len(order') = n - 1
        /\ \A k \in 1 .. n - 1 : order'[k] = order[k]
    BY <2>1, <2>2, RemoveBackSeq DEF TypeOK
  <2>11. \A k \in 1 .. n : order[k] \in Entries /\ order[k].pattern \in Patterns
    <3>1. \A k \in 1 .. n : order[k] \in Entries
      BY DEF TypeOK
    <3>. QED
      BY <3>1 DEF Entries
  <2>12. n \in 1 .. n /\ 1 .. n - 1 \subseteq 1 .. n
    BY <1>4
  <2>4. last \in Entries /\ last.pattern \in Patterns
    BY <2>11, <2>12
  <2>5. \A k \in 1 .. n - 1 : order[k].pattern # last.pattern /\ order[k].pattern \in Patterns
    <3> SUFFICES ASSUME NEW k \in 1 .. n - 1 PROVE order[k].pattern # last.pattern
      BY <2>11, <2>12
    <3>1. k \in 1 .. n /\ k # n
      BY <1>4
    <3>. QED
      BY <3>1, <2>12 DEF EntriesMatchOrder
  <2>6. TypeOK'
    BY <1>1, <2>2, <2>3 DEF TypeOK, Inside
  <2>7. ResultsInv'
    BY <2>3, <1>4 DEF ResultsInv
  <2>8. EntriesMatchOrder'
    <3>1. \A k \in 1 .. Len(order') : entries'[order'[k].pattern] = order'[k]
      <4> SUFFICES ASSUME NEW k \in 1 .. Len(order')
                   PROVE  entries'[order'[k].pattern] = order'[k]
        OBVIOUS
      <4>1. k \in 1 .. n - 1 /\ k \in 1 .. n /\ order'[k] = order[k]
        BY <2>3, <2>12
      <4>2. entries[order[k].pattern] = order[k]
        BY <4>1 DEF EntriesMatchOrder
      <4>. QED
        BY <4>1, <4>2, <2>2, <2>5 DEF TypeOK
    <3>2. \A k, l \in 1 .. Len(order') : order'[k].pattern = order'[l].pattern => k = l
      BY <2>3, <1>4 DEF EntriesMatchOrder
    <3>3. \A p \in Patterns : entries'[p] # NoEntry =>
              entries'[p].pattern = p /\ Holds(entries'[p], order')
      <4> SUFFICES ASSUME NEW p \in Patterns, entries'[p] # NoEntry
                   PROVE  entries'[p].pattern = p /\ Holds(entries'[p], order')
        OBVIOUS
      <4>1. p # last.pattern /\ entries'[p] = entries[p]
        BY <2>2, <2>4 DEF TypeOK
      <4>2. PICK i \in 1 .. n : order[i] = entries[p]
        BY <4>1 DEF EntriesMatchOrder, Holds
      <4>3. i # n /\ entries[p].pattern = p
        BY <4>1, <4>2 DEF EntriesMatchOrder
      <4>4. i \in 1 .. Len(order') /\ order'[i] = order[i]
        BY <4>3, <2>3, <1>4
      <4>. QED
        BY <4>1, <4>2, <4>3, <4>4 DEF Holds
    <3>. QED
      BY <3>1, <3>2, <3>3 DEF EntriesMatchOrder
  <2>9. HolderInv' /\ AnswersOwnPattern'
    <3>1. Len(order') > 0 /\ order'[1] = order[1]
      BY <2>1, <2>3, <1>4
    <3>. QED
      BY <1>1, <1>2, <1>4, <3>1 DEF HolderInv, AnswersOwnPattern, TypeOK, Inside
  <2>10. BoundInv'
    BY <2>1, <2>3, <1>4, PatternCacheSizeAssumption DEF BoundInv
  <2>. QED
    BY <1>3, <2>6, <2>7, <2>8, <2>9, <2>10
<1>. QED
  BY <1>4, <1>5, <1>6, PatternCacheSizeAssumption

LEMMA UnlockKeepsInv ==
    ASSUME IInv, NEW c \in Callers, Unlock(c)
    PROVE  IInv'
<1> USE DEF IInv, Unlock, Goto
<1>1. TypeOK'
  BY DEF TypeOK, Inside
<1>2. MutexInv'
  BY NoneAssumption DEF TypeOK, MutexInv, Inside
<1>3. EntriesMatchOrder' /\ ResultsInv'
  BY DEF EntriesMatchOrder, ResultsInv, Holds
<1>4. HolderInv' /\ AnswersOwnPattern'
  BY DEF TypeOK, HolderInv, AnswersOwnPattern
<1>5. BoundInv'
  <2>1. \A d \in Callers : pc[d] # "evict"
    BY DEF MutexInv, Inside
  <2>. QED
    BY <2>1 DEF BoundInv
<1>. QED
  BY <1>1, <1>2, <1>3, <1>4, <1>5

LEMMA StutterKeepsInv == IInv /\ UNCHANGED vars => IInv'
  BY DEF vars, IInv, TypeOK, MutexInv, EntriesMatchOrder, ResultsInv, HolderInv, BoundInv,
         AnswersOwnPattern, Holds

LEMMA StepKeepsInv == IInv /\ [Next]_vars => IInv'
<1> SUFFICES ASSUME IInv, [Next]_vars PROVE IInv'
  OBVIOUS
<1>1. ASSUME NEW c \in Callers, NEW p \in Patterns, Call(c, p) PROVE IInv'
  BY <1>1, CallKeepsInv
<1>2. ASSUME NEW c \in Callers, Lock(c) PROVE IInv'
  BY <1>2, LockKeepsInv
<1>3. ASSUME NEW c \in Callers, Critical(c) PROVE IInv'
  BY <1>3, HitKeepsInv, MissKeepsInv, InsertKeepsInv, EvictKeepsInv, UnlockKeepsInv DEF Critical
<1>4. CASE UNCHANGED vars
  BY <1>4, StutterKeepsInv
<1>. QED
  BY <1>1, <1>2, <1>3, <1>4 DEF Next

LEMMA InvImplies == IInv => EntriesMatchOrder /\ CacheBounded /\ AnswersOwnPattern
<1> SUFFICES ASSUME IInv PROVE CacheBounded
  BY DEF IInv
<1>. QED
  BY PatternCacheSizeAssumption DEF IInv, BoundInv, CacheBounded, TypeOK

--------------------------------------------------------------------------------
\* The inductive invariant, for any number of callers, patterns and places.
THEOREM CacheInvariant == Spec => []IInv
  BY InitInv, StepKeepsInv, PTL DEF Spec

\* At every step of every call the map and the list hold the same patterns once
\* each (compilePattern of stdlib/regex.go).
THEOREM MapAndListAgree == Spec => []EntriesMatchOrder
  BY CacheInvariant, InvImplies, PTL

\* The cache never exceeds its size but between an insertion and its eviction.
THEOREM CacheIsBounded == Spec => []CacheBounded
  BY CacheInvariant, InvImplies, PTL

\* compilePattern answers with the compile result of the pattern it was asked for.
THEOREM CallersGetTheirOwn == Spec => []AnswersOwnPattern
  BY CacheInvariant, InvImplies, PTL

--------------------------------------------------------------------------------
\* The cache implements the memo of PatternMemo: every step maps to a step of it
\* or to none.

\* The state of the memo, as the refinement reads it from the cache.
MemoAsked == [c \in Callers |-> IF pc[c] = "idle" THEN NoPattern ELSE arg[c]]
MemoAnswer == [c \in Callers |-> IF Served(c) THEN ret[c] ELSE "none"]
PatternsOf(s) == [k \in 1 .. Len(s) |-> s[k].pattern]
MemoRecent ==
    IF \E c \in Callers : pc[c] = "evict"
    THEN [k \in 1 .. Len(order) - 1 |-> order[k + 1].pattern]
    ELSE PatternsOf(order)

MemoStutters == MemoAsked' = MemoAsked /\ MemoAnswer' = MemoAnswer /\ MemoRecent' = MemoRecent

LEMMA MemoInitially == Init => Memo!MemoInit
<1> SUFFICES ASSUME Init PROVE Memo!MemoInit
  OBVIOUS
<1>1. MemoAsked = [c \in Callers |-> NoPattern] /\ MemoAnswer = [c \in Callers |-> "none"]
  BY DEF Init, MemoAsked, MemoAnswer, Served
<1>2. MemoRecent = <<>>
  BY DEF Init, MemoRecent, PatternsOf
<1>. QED
  BY <1>1, <1>2 DEF Memo!MemoInit, MemoAsked, MemoAnswer, MemoRecent, PatternsOf

\* A pattern that was not in the list goes in front of it.
LEMMA UsedNew ==
    ASSUME NEW p \in Patterns, NEW s \in Seq(Patterns), \A k \in 1 .. Len(s) : s[k] # p
    PROVE  /\ Memo!UsedNow(p, s) \in Seq(Patterns) /\ Len(Memo!UsedNow(p, s)) = Len(s) + 1
           /\ \A k \in 1 .. Len(s) + 1 : Memo!UsedNow(p, s)[k] = IF k = 1 THEN p ELSE s[k - 1]
<1>1. {i \in 1 .. Len(s) : s[i] = p} = {}
  OBVIOUS
<1>2. Memo!UsedNow(p, s) = <<p>> \o s
  BY <1>1 DEF Memo!UsedNow
<1>. QED
  BY <1>2

\* A pattern that was in the list moves to its front.
LEMMA UsedAgain ==
    ASSUME NEW s \in Seq(Patterns), NEW i \in 1 .. Len(s),
           \A k \in 1 .. Len(s) : s[k] = s[i] => k = i
    PROVE  /\ Memo!UsedNow(s[i], s) \in Seq(Patterns) /\ Len(Memo!UsedNow(s[i], s)) = Len(s)
           /\ \A k \in 1 .. Len(s) : Memo!UsedNow(s[i], s)[k] =
                  IF k = 1 THEN s[i] ELSE IF k <= i THEN s[k - 1] ELSE s[k]
<1> DEFINE others == [k \in 1 .. Len(s) - 1 |-> IF k < i THEN s[k] ELSE s[k + 1]]
<1>1. {j \in 1 .. Len(s) : s[j] = s[i]} = {i}
  OBVIOUS
<1>2. Memo!UsedNow(s[i], s) = <<s[i]>> \o others
  <2>1. (CHOOSE j \in {i} : TRUE) = i
    OBVIOUS
  <2>. QED
    BY <1>1, <2>1 DEF Memo!UsedNow
<1>3. /\ others \in Seq(Patterns) /\ Len(others) = Len(s) - 1
      /\ \A k \in 1 .. Len(s) - 1 : others[k] = IF k < i THEN s[k] ELSE s[k + 1]
  OBVIOUS
<1>4. s[i] \in Patterns /\ Len(s) \in Nat /\ Len(s) > 0
  OBVIOUS
<1> HIDE DEF others
<1>5. /\ <<s[i]>> \o others \in Seq(Patterns)
      /\ Len(<<s[i]>> \o others) = 1 + Len(others)
      /\ \A k \in 1 .. 1 + Len(others) : (<<s[i]>> \o others)[k] = IF k <= 1 THEN s[i] ELSE others[k - 1]
  BY <1>3, <1>4
<1>. QED
  BY <1>2, <1>3, <1>4, <1>5

\* A list within its bound is not cut, one over it by one loses its last.
LEMMA Truncated ==
    ASSUME NEW s \in Seq(Patterns), Len(s) > 0, Len(s) <= PatternCacheSize + 1
    PROVE  LET n == IF Len(s) > PatternCacheSize THEN Len(s) - 1 ELSE Len(s)
           IN  Memo!Truncate(s) = [k \in 1 .. n |-> s[k]]
<1> DEFINE n == IF Len(s) > PatternCacheSize THEN Len(s) - 1 ELSE Len(s)
           m == IF Len(s) > PatternCacheSize THEN PatternCacheSize ELSE Len(s)
<1>1. n \in Nat /\ n = m /\ n <= Len(s) /\ Len(s) \in Nat
  BY PatternCacheSizeAssumption
<1>2. Memo!Truncate(s) = SubSeq(s, 1, n)
  BY <1>1 DEF Memo!Truncate
<1> HIDE DEF n, m
<1>3. \A k \in 1 .. n : s[k] \in Patterns
  BY <1>1
<1>4. /\ SubSeq(s, 1, n) \in Seq(Patterns)
      /\ Len(SubSeq(s, 1, n)) = IF 1 <= n THEN n - 1 + 1 ELSE 0
      /\ \A k \in 1 .. n - 1 + 1 : SubSeq(s, 1, n)[k] = s[1 + k - 1]
  BY <1>1, <1>3, SubSeqProperties
<1>5. Len(SubSeq(s, 1, n)) = n /\ \A k \in 1 .. n : SubSeq(s, 1, n)[k] = s[k]
  BY <1>1, <1>4
<1>6. SubSeq(s, 1, n) = [k \in 1 .. n |-> s[k]]
  BY <1>1, <1>4, <1>5
<1>. QED
  BY <1>2, <1>6 DEF n

\* The memo sees a call begin.
LEMMA CallIsAsk ==
    ASSUME IInv, NEW c \in Callers, NEW p \in Patterns, Call(c, p)
    PROVE  Memo!Ask(c, p)
<1>1. /\ pc[c] = "idle" /\ pc' = [pc EXCEPT ![c] = "lock"] /\ arg' = [arg EXCEPT ![c] = p]
      /\ ret' = [ret EXCEPT ![c] = "none"] /\ order' = order
  BY DEF Call, Goto
<1>2. /\ pc \in [Callers -> {"idle", "lock"} \cup Inside]
      /\ arg \in [Callers -> Patterns \cup {NoPattern}] /\ ret \in [Callers -> Outcomes \cup {"none"}]
  BY DEF IInv, TypeOK
<1>3. MemoAsked[c] = NoPattern /\ MemoAsked' = [MemoAsked EXCEPT ![c] = p]
  BY <1>1, <1>2 DEF MemoAsked
<1>4. MemoAnswer' = [MemoAnswer EXCEPT ![c] = "none"]
  BY <1>1, <1>2 DEF MemoAnswer, Served
<1>5. MemoRecent' = MemoRecent
  BY <1>1, <1>2 DEF MemoRecent, PatternsOf
<1>. QED
  BY <1>3, <1>4, <1>5 DEF Memo!Ask, MemoAsked, MemoAnswer, MemoRecent, PatternsOf

\* Taking the mutex and looking in vain change nothing the memo shows.
LEMMA LockIsNothing == ASSUME IInv, NEW c \in Callers, Lock(c) \/ Miss(c) PROVE MemoStutters
<1>1. /\ pc[c] \in {"lock", "lookup"} /\ \E l \in {"lookup", "compile"} : pc' = [pc EXCEPT ![c] = l]
      /\ arg' = arg /\ ret' = ret /\ order' = order
  BY DEF Lock, Miss, Goto
<1>2. pc \in [Callers -> {"idle", "lock"} \cup Inside]
  BY DEF IInv, TypeOK
<1>3. MemoAsked' = MemoAsked
  BY <1>1, <1>2 DEF MemoAsked
<1>4. MemoAnswer' = MemoAnswer
  BY <1>1, <1>2 DEF MemoAnswer, Served
<1>5. MemoRecent' = MemoRecent
  BY <1>1, <1>2 DEF MemoRecent, PatternsOf
<1>. QED
  BY <1>3, <1>4, <1>5 DEF MemoStutters

\* While a caller is inside, no other caller is on its way to an eviction.
LEMMA OneInside ==
    ASSUME IInv, NEW c \in Callers, pc[c] \in Inside
    PROVE  \A d \in Callers \ {c} : pc[d] \notin Inside
  BY DEF IInv, MutexInv, Inside

\* What a hit and an eviction both come to for the memo: the caller has the
\* answer to its own question, and everybody else's is as it was.
LEMMA AnswerGiven ==
    ASSUME IInv, NEW c \in Callers, pc[c] \in {"lookup", "evict"}, pc' = [pc EXCEPT ![c] = "unlock"],
           arg' = arg, NEW r \in Outcomes, ret' = [ret EXCEPT ![c] = r], r = Compile(arg[c]),
           MemoRecent' = Memo!Truncate(Memo!UsedNow(arg[c], MemoRecent))
    PROVE  Memo!Use(c)
<1>1. /\ pc \in [Callers -> {"idle", "lock"} \cup Inside] /\ arg[c] \in Patterns
      /\ ret \in [Callers -> Outcomes \cup {"none"}]
  BY DEF IInv, TypeOK, HolderInv
<1>2. MemoAsked[c] = arg[c] /\ arg[c] # NoPattern /\ MemoAnswer[c] = "none"
  BY <1>1, NoneAssumption DEF MemoAsked, MemoAnswer, Served
<1>3. MemoAsked' = MemoAsked
  BY <1>1 DEF MemoAsked
<1>4. MemoAnswer' = [MemoAnswer EXCEPT ![c] = r]
  BY <1>1 DEF MemoAnswer, Served
<1>5. r = Memo!Result(MemoAsked[c])
  BY <1>2 DEF Compile, Memo!Result
<1>. QED
  BY <1>2, <1>3, <1>4, <1>5 DEF Memo!Use, MemoAsked, MemoAnswer, MemoRecent, PatternsOf

\* A hit moves the pattern to the front, as its use does.
LEMMA HitIsUse == ASSUME IInv, NEW c \in Callers, Hit(c) PROVE Memo!Use(c)
<1> DEFINE e == entries[arg[c]]
           s == PatternsOf(order)
<1>1. /\ pc[c] = "lookup" /\ pc' = [pc EXCEPT ![c] = "unlock"] /\ arg' = arg /\ entries' = entries
      /\ ret' = [ret EXCEPT ![c] = e.res] /\ order' = MoveToFront(e, order) /\ e # NoEntry
  BY DEF Hit, Goto
<1>2. arg[c] \in Patterns /\ e \in Entries /\ e.pattern = arg[c] /\ Holds(e, order)
  BY <1>1 DEF IInv, HolderInv, EntriesMatchOrder, TypeOK
<1>3. PICK i \in 1 .. Len(order) : order[i] = e
  BY <1>2 DEF Holds
<1>4. order \in Seq(Entries) /\ Len(order) \in Nat /\ \A k \in 1 .. Len(order) : order[k] \in Entries
  BY DEF IInv, TypeOK
<1>5. \A j \in 1 .. Len(order) : order[j].pattern = order[i].pattern => j = i
  BY DEF IInv, EntriesMatchOrder
<1>6. /\ order' \in Seq(Entries) /\ Len(order') = Len(order)
      /\ \A k \in 1 .. Len(order) : order'[k] =
            IF k = 1 THEN order[i] ELSE IF k <= i THEN order[k - 1] ELSE order[k]
  <2>1. order \in Seq(Entries) /\ \A j \in 1 .. Len(order) : order[j] = order[i] => j = i
    BY <1>4, <1>5
  <2>2. order' = MoveToFront(order[i], order)
    BY <1>1, <1>3
  <2>. QED
    BY <2>1, <2>2, MoveToFrontSeq
<1>7. /\ s \in Seq(Patterns) /\ Len(s) = Len(order)
      /\ \A k \in 1 .. Len(order) : s[k] = order[k].pattern
  BY <1>4 DEF PatternsOf, Entries
<1>8. \A d \in Callers : pc[d] # "evict" /\ pc'[d] # "evict"
  BY <1>1, OneInside DEF Inside, IInv, TypeOK
<1>9. MemoRecent = s /\ MemoRecent' = PatternsOf(order')
  BY <1>8 DEF MemoRecent, PatternsOf
<1>10. s[i] = arg[c]
  BY <1>2, <1>3, <1>7
<1> HIDE DEF s
<1> DEFINE used == Memo!UsedNow(s[i], s)
<1>11. /\ used \in Seq(Patterns) /\ Len(used) = Len(s)
       /\ \A k \in 1 .. Len(s) : used[k] = IF k = 1 THEN s[i] ELSE IF k <= i THEN s[k - 1] ELSE s[k]
  <2>1. i \in 1 .. Len(s) /\ \A k \in 1 .. Len(s) : s[k] = s[i] => k = i
    BY <1>5, <1>7
  <2>. QED
    BY <1>7, <2>1, UsedAgain
<1>12. Len(s) <= PatternCacheSize
  BY <1>7, <1>8 DEF IInv, BoundInv
<1> HIDE DEF used
<1>13. Len(used) > 0 /\ Len(used) <= PatternCacheSize + 1 /\ ~(Len(used) > PatternCacheSize)
  BY <1>4, <1>7, <1>11, <1>12, PatternCacheSizeAssumption
<1>14. Memo!Truncate(used) = [k \in 1 .. Len(used) |-> used[k]]
  BY <1>11, <1>13, Truncated
<1>15. PatternsOf(order') = [k \in 1 .. Len(used) |-> used[k]]
  <2>1. \A k \in 1 .. Len(used) : order'[k].pattern = used[k]
    <3>. SUFFICES ASSUME NEW k \in 1 .. Len(used) PROVE order'[k].pattern = used[k]
      OBVIOUS
    <3>1. k \in 1 .. Len(order) /\ (k # 1 /\ k <= i => k - 1 \in 1 .. Len(order))
      BY <1>4, <1>7, <1>11
    <3>. QED
      BY <3>1, <1>6, <1>7, <1>11
  <2>. QED
    BY <2>1, <1>6, <1>7, <1>11 DEF PatternsOf
<1>16. MemoRecent' = Memo!Truncate(Memo!UsedNow(arg[c], MemoRecent))
  BY <1>9, <1>10, <1>14, <1>15 DEF used
<1>17. e.res \in Outcomes /\ e.res = Compile(arg[c])
  BY <1>2, <1>3 DEF Entries, IInv, ResultsInv
<1>. QED
  BY <1>1, <1>16, <1>17, AnswerGiven

\* Until the eviction the memo does not show the element that was pushed.
LEMMA InsertIsNothing == ASSUME IInv, NEW c \in Callers, Insert(c) PROVE MemoStutters
<1> DEFINE e == [pattern |-> arg[c], res |-> Compile(arg[c])]
<1>1. /\ pc[c] = "compile" /\ pc' = [pc EXCEPT ![c] = "evict"] /\ arg' = arg
      /\ ret' = [ret EXCEPT ![c] = e.res] /\ order' = PushFront(e, order)
  BY DEF Insert, Goto
<1>2. /\ pc \in [Callers -> {"idle", "lock"} \cup Inside] /\ arg[c] \in Patterns
      /\ ret \in [Callers -> Outcomes \cup {"none"}] /\ order \in Seq(Entries) /\ Len(order) \in Nat
  BY <1>1 DEF IInv, TypeOK, HolderInv
<1>3. e \in Entries
  BY <1>2 DEF Entries, Compile, Outcomes
<1> HIDE DEF e
<1>4. /\ Len(order') = Len(order) + 1
      /\ \A k \in 1 .. Len(order) + 1 : order'[k] = IF k = 1 THEN e ELSE order[k - 1]
  <2>1. order \in Seq(Entries)
    BY <1>2
  <2>2. /\ Len(PushFront(e, order)) = Len(order) + 1
        /\ \A k \in 1 .. Len(order) + 1 : PushFront(e, order)[k] = IF k = 1 THEN e ELSE order[k - 1]
    BY <2>1, <1>3, PushFrontSeq
  <2>3. order' = PushFront(e, order)
    BY <1>1
  <2>. QED
    BY <2>2, <2>3
<1>5. \A d \in Callers : pc[d] # "evict"
  BY <1>1, OneInside DEF Inside
<1>6. pc'[c] = "evict"
  BY <1>1, <1>2
<1>7. MemoRecent = PatternsOf(order) /\ MemoRecent' = [k \in 1 .. Len(order') - 1 |-> order'[k + 1].pattern]
  BY <1>5, <1>6 DEF MemoRecent
<1>8. Len(order') - 1 = Len(order) /\ \A k \in 1 .. Len(order) : order'[k + 1] = order[k]
  BY <1>2, <1>4
<1>9. MemoRecent' = MemoRecent
  BY <1>7, <1>8 DEF PatternsOf
<1>10. MemoAsked' = MemoAsked
  BY <1>1, <1>2 DEF MemoAsked
<1>11. MemoAnswer' = MemoAnswer
  BY <1>1, <1>2 DEF MemoAnswer, Served
<1>. QED
  BY <1>9, <1>10, <1>11 DEF MemoStutters

\* With the eviction the pattern is in front and the oldest is gone.
LEMMA EvictIsUse == ASSUME IInv, NEW c \in Callers, Evict(c) PROVE Memo!Use(c)
<1> DEFINE n == Len(order)
           s == [k \in 1 .. n - 1 |-> order[k + 1].pattern]
<1>1. /\ pc[c] = "evict" /\ pc' = [pc EXCEPT ![c] = "unlock"] /\ arg' = arg /\ ret' = ret
      /\ order' = IF n > PatternCacheSize THEN RemoveBack(order) ELSE order
  BY DEF Evict, Goto, Overfull
<1>2. /\ pc \in [Callers -> {"idle", "lock"} \cup Inside] /\ arg[c] \in Patterns
      /\ ret \in [Callers -> Outcomes \cup {"none"}] /\ order \in Seq(Entries) /\ n \in Nat
  BY <1>1 DEF IInv, TypeOK, HolderInv
<1>3. n > 0 /\ order[1].pattern = arg[c] /\ ret[c] = Compile(arg[c])
  BY <1>1 DEF IInv, HolderInv
<1>4. \A k \in 1 .. n : order[k] \in Entries /\ order[k].pattern \in Patterns
  <2>1. order \in Seq(Entries)
    BY <1>2
  <2>2. \A k \in 1 .. n : order[k] \in Entries
    BY <2>1
  <2>. QED
    BY <2>2 DEF Entries
<1>5. \A j, k \in 1 .. n : order[j].pattern = order[k].pattern => j = k
  BY DEF IInv, EntriesMatchOrder
<1>6. n <= PatternCacheSize + 1
  BY DEF IInv, BoundInv
<1>7. \A d \in Callers : pc'[d] # "evict"
  BY <1>1, <1>2, OneInside DEF Inside
<1>8. MemoRecent = s /\ MemoRecent' = PatternsOf(order')
  BY <1>1, <1>7 DEF MemoRecent, PatternsOf
<1> HIDE DEF n
<1>9. /\ s \in Seq(Patterns) /\ Len(s) = n - 1
      /\ \A k \in 1 .. n - 1 : s[k] = order[k + 1].pattern
  <2>1. \A k \in 1 .. n - 1 : k + 1 \in 1 .. n
    BY <1>2 DEF n
  <2>2. n - 1 \in Nat
    BY <1>2, <1>3 DEF n
  <2>. QED
    BY <2>1, <2>2, <1>4
<1> HIDE DEF s
<1>10. \A k \in 1 .. Len(s) : s[k] # arg[c]
  <2>1. \A k \in 1 .. n - 1 : k + 1 \in 1 .. n /\ 1 \in 1 .. n /\ k + 1 # 1
    BY <1>2, <1>3
  <2>. QED
    BY <2>1, <1>3, <1>5, <1>9
<1> DEFINE used == Memo!UsedNow(arg[c], s)
<1>11. /\ used \in Seq(Patterns) /\ Len(used) = Len(s) + 1
       /\ \A k \in 1 .. Len(s) + 1 : used[k] = IF k = 1 THEN arg[c] ELSE s[k - 1]
  BY <1>2, <1>9, <1>10, UsedNew
<1> HIDE DEF used
<1>12. Len(used) = n /\ \A k \in 1 .. n : used[k] = order[k].pattern
  <2>1. Len(used) = n
    BY <1>2, <1>9, <1>11
  <2>2. \A k \in 1 .. n : k # 1 => k - 1 \in 1 .. n - 1 /\ (k - 1) + 1 = k
    BY <1>2
  <2>. QED
    BY <2>1, <2>2, <1>2, <1>3, <1>9, <1>11
<1> DEFINE m == IF n > PatternCacheSize THEN n - 1 ELSE n
<1>13. Memo!Truncate(used) = [k \in 1 .. m |-> used[k]]
  BY <1>3, <1>6, <1>11, <1>12, Truncated
<1>14. Len(order') = m /\ \A k \in 1 .. m : order'[k] = order[k]
  <2>1. CASE n > PatternCacheSize
    BY <2>1, <1>1, <1>2, <1>3, RemoveBackSeq DEF n
  <2>2. CASE ~(n > PatternCacheSize)
    BY <2>2, <1>1 DEF n
  <2>. QED
    BY <2>1, <2>2
<1>15. \A k \in 1 .. m : k \in 1 .. n
  BY <1>2, PatternCacheSizeAssumption
<1> HIDE DEF m
<1>16. PatternsOf(order') = [k \in 1 .. m |-> used[k]]
  BY <1>12, <1>14, <1>15 DEF PatternsOf
<1>17. MemoRecent' = Memo!Truncate(Memo!UsedNow(arg[c], MemoRecent))
  BY <1>8, <1>13, <1>16 DEF used
<1>18. ret[c] \in Outcomes /\ ret' = [ret EXCEPT ![c] = ret[c]]
  BY <1>1, <1>2, <1>3 DEF Compile, Outcomes
<1>. QED
  BY <1>1, <1>3, <1>17, <1>18, AnswerGiven

\* The memo sees the call return.
LEMMA UnlockIsReturn == ASSUME IInv, NEW c \in Callers, Unlock(c) PROVE Memo!Return(c)
<1>1. /\ pc[c] = "unlock" /\ pc' = [pc EXCEPT ![c] = "idle"]
      /\ arg' = arg /\ ret' = ret /\ order' = order
  BY DEF Unlock, Goto
<1>2. pc \in [Callers -> {"idle", "lock"} \cup Inside] /\ arg[c] \in Patterns
  BY <1>1 DEF IInv, TypeOK, HolderInv
<1>3. MemoAnswer[c] # "none"
  BY <1>1 DEF IInv, AnswersOwnPattern, Compile, MemoAnswer, Served
<1>4. MemoAsked[c] # NoPattern /\ MemoAsked' = [MemoAsked EXCEPT ![c] = NoPattern]
  BY <1>1, <1>2, NoneAssumption DEF MemoAsked
<1>5. MemoAnswer' = MemoAnswer
  BY <1>1, <1>2 DEF MemoAnswer, Served
<1>6. MemoRecent' = MemoRecent
  BY <1>1, <1>2 DEF MemoRecent, PatternsOf
<1>. QED
  BY <1>3, <1>4, <1>5, <1>6 DEF Memo!Return, MemoAsked, MemoAnswer, MemoRecent, PatternsOf

LEMMA StepIsMemoStep == IInv /\ [Next]_vars => [Memo!MemoNext]_(Memo!memoVars)
<1> SUFFICES ASSUME IInv, [Next]_vars PROVE Memo!MemoNext \/ UNCHANGED Memo!memoVars
  OBVIOUS
<1>1. MemoStutters => UNCHANGED Memo!memoVars
  BY DEF MemoStutters, Memo!memoVars, MemoAsked, MemoAnswer, MemoRecent, PatternsOf
<1>2. ASSUME NEW c \in Callers, NEW p \in Patterns, Call(c, p) PROVE Memo!MemoNext
  BY <1>2, CallIsAsk DEF Memo!MemoNext
<1>3. ASSUME NEW c \in Callers, Hit(c) \/ Evict(c) PROVE Memo!MemoNext
  BY <1>3, HitIsUse, EvictIsUse DEF Memo!MemoNext
<1>4. ASSUME NEW c \in Callers, Unlock(c) PROVE Memo!MemoNext
  BY <1>4, UnlockIsReturn DEF Memo!MemoNext
<1>5. ASSUME NEW c \in Callers, Lock(c) \/ Miss(c) \/ Insert(c) PROVE MemoStutters
  BY <1>5, LockIsNothing, InsertIsNothing
<1>6. ASSUME UNCHANGED vars PROVE MemoStutters
  BY <1>6 DEF vars, MemoStutters, MemoAsked, MemoAnswer, MemoRecent, Served, PatternsOf
<1>. QED
  BY <1>1, <1>2, <1>3, <1>4, <1>5, <1>6 DEF Next, Critical

\* The map, the list and the mutex of stdlib/regex.go are a least-recently-used
\* memo of the compiler, whatever the interleaving of the callers.
THEOREM CacheImplementsMemo == Spec => ImplementsMemo
  BY CacheInvariant, MemoInitially, StepIsMemoStep, PTL DEF Spec, ImplementsMemo, Memo!MemoSpec

\* The cache and its callers are always of their types.
THEOREM CacheTypes == Spec => []TypeOK
<1>1. IInv => TypeOK
  BY DEF IInv
<1>. QED
  BY <1>1, CacheInvariant, PTL
================================================================================
