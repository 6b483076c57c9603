---------------------------- MODULE RegistryProofs -----------------------------
(***************************************************************************)
(* The registry's cache, for any functions, any number of goroutines and   *)
(* any number of publications: types, the depth of an execution, and the   *)
(* one way the cache comes to hold a version that is not the stored one.   *)
(***************************************************************************)
EXTENDS Registry, SequenceTheorems, TLAPS

FrameSet == [fn : Names \cup {Inline}, ver : Versions, calls : SUBSET Names]

\* Who can be where, and what an actor's name is while it works on one.
PlaceInv ==
    /\ \A h \in Hosts : pc[h] \in {"idle", "resolve", "invalidate"}
    /\ \A t \in Threads : pc[t] # "invalidate"
    /\ \A a \in Actors : pc[a] \in {"lookup", "load", "resolve", "reread", "invalidate"} => want[a] \in Names
    /\ \A t \in Threads : pc[t] \in {"run", "inline"} => Len(frames[t]) > 0

\* A source on its way into the cache is the stored one, or its name is known
\* to be behind: this is what makes StaleOnlyWhenOvertaken inductive.
FillInv ==
    \A a \in Actors : pc[a] = "resolve" /\ src[a] # stored[want[a]]
                          => Publishing(want[a]) \/ want[a] \in unsettled

Coherent == FillInv /\ StaleOnlyWhenOvertaken

IInv == TypeOK /\ PlaceInv /\ Coherent /\ DepthBounded

--------------------------------------------------------------------------------
\* A thread's step leaves the host's publications alone, so it keeps the cache
\* coherent if what it takes from the loader is the stored source and what it
\* caches is what it took.
LEMMA ThreadKeepsCoherent ==
    ASSUME IInv, NEW t \in Threads,
           stored' = stored, unsettled' = unsettled,
           \A a \in Actors \ {t} : pc'[a] = pc[a] /\ want'[a] = want[a] /\ src'[a] = src[a],
           pc'[t] = "resolve" =>
              \/ src'[t] = stored[want'[t]]
              \/ pc[t] = "resolve" /\ src'[t] = src[t] /\ want'[t] = want[t],
           \/ compiled' = compiled
           \/ pc[t] = "resolve" /\ compiled' = [compiled EXCEPT ![want[t]] = src[t]]
    PROVE  Coherent'
<1> USE DEF IInv
<1>1. \A n : Publishing(n)' <=> Publishing(n)
  BY ActorsAssumption DEF Publishing, Actors
<1>2. FillInv'
  BY <1>1 DEF Coherent, FillInv
<1>3. StaleOnlyWhenOvertaken'
  <2>1. CASE compiled' = compiled
    BY <1>1, <2>1 DEF Coherent, StaleOnlyWhenOvertaken
  <2>2. CASE pc[t] = "resolve" /\ compiled' = [compiled EXCEPT ![want[t]] = src[t]]
    <3>1. compiled \in [Names -> Versions] /\ t \in Actors
      BY DEF TypeOK, Actors
    <3>. QED
      BY <1>1, <2>2, <3>1 DEF Coherent, StaleOnlyWhenOvertaken, FillInv
  <2>. QED
    BY <2>1, <2>2
<1>. QED
  BY <1>2, <1>3 DEF Coherent

\* Leaving an execution.
LEMMA AbortFacts ==
    ASSUME TypeOK, NEW t \in Threads, NEW why, Abort(t, why)
    PROVE  /\ pc' = [pc EXCEPT ![t] = "idle"]
           /\ outcome' = [outcome EXCEPT ![t] = why]
           /\ frames' = [frames EXCEPT ![t] = <<>>]
  BY DEF Abort, Goto

LEMMA NoFrames == <<>> \in Seq(FrameSet) /\ (MaxDepth > 0 => Len(<<>>) <= MaxDepth + 1)
<1>1. MaxDepth \in Nat
  BY BoundAssumption
<1>2. <<>> \in Seq(FrameSet) /\ Len(<<>>) = 0
  BY EmptySeq
<1>. QED
  BY <1>1, <1>2

\* Changing the frames of one thread.
LEMMA ChangeFrames ==
    ASSUME TypeOK, DepthBounded, NEW t \in Threads, NEW s \in Seq(FrameSet),
           MaxDepth > 0 => Len(s) <= MaxDepth + 1,
           frames' = [frames EXCEPT ![t] = s]
    PROVE  /\ frames' \in [Threads -> Seq(FrameSet)]
           /\ DepthBounded'
           /\ frames'[t] = s
           /\ \A u \in Threads \ {t} : frames'[u] = frames[u]
<1>1. frames \in [Threads -> Seq(FrameSet)]
  BY DEF TypeOK, FrameSet
<1>2. \A u \in Threads : frames'[u] = IF u = t THEN s ELSE frames[u]
  BY <1>1
<1>. QED
  BY <1>1, <1>2 DEF DepthBounded

\* A frame that is entered is a frame, and it is entered within the depth limit.
LEMMA EnterFacts ==
    ASSUME TypeOK, DepthBounded, NEW t \in Threads, NEW v \in Versions, want[t] \in Names, Enter(t, v)
    PROVE  /\ frames' \in [Threads -> Seq(FrameSet)]
           /\ DepthBounded'
           /\ outcome' \in [Threads -> {"none", "ok", "not found", "too deep", "rejected"}]
           /\ \E l \in {"idle", "run"} : pc' = [pc EXCEPT ![t] = l]
           /\ pc'[t] = "run" => Len(frames'[t]) > 0
           /\ \A u \in Threads \ {t} : frames'[u] = frames[u]
<1> DEFINE new == Frame(want[t], v, Deps[want[t]])
<1>1. /\ frames \in [Threads -> Seq(FrameSet)] /\ t \in Actors
      /\ pc \in [Actors -> {"idle", "lookup", "load", "resolve", "reread", "run", "inline", "invalidate"}]
  BY DEF TypeOK, FrameSet, Actors
<1>2. CASE MaxDepth > 0 /\ Len(frames[t]) > MaxDepth
  <2>1. Abort(t, "too deep")
    BY <1>2 DEF Enter
  <2>2. /\ pc' = [pc EXCEPT ![t] = "idle"]
        /\ outcome' = [outcome EXCEPT ![t] = "too deep"]
        /\ frames' = [frames EXCEPT ![t] = <<>>]
    BY <2>1, AbortFacts
  <2>4. /\ frames' \in [Threads -> Seq(FrameSet)]
        /\ DepthBounded'
        /\ \A u \in Threads \ {t} : frames'[u] = frames[u]
    BY <2>2, NoFrames, ChangeFrames
  <2>5. outcome' \in [Threads -> {"none", "ok", "not found", "too deep", "rejected"}]
    BY <2>2 DEF TypeOK
  <2>. QED
    BY <1>1, <2>2, <2>4, <2>5
<1>3. CASE ~(MaxDepth > 0 /\ Len(frames[t]) > MaxDepth)
  <2>1. /\ frames' = [frames EXCEPT ![t] = Append(@, new)]
        /\ pc' = [pc EXCEPT ![t] = "run"] /\ outcome' = outcome
    BY <1>3 DEF Enter, Goto
  <2>2. new \in FrameSet
    BY DepsAssumption DEF Frame, FrameSet
  <2>3. /\ Append(frames[t], new) \in Seq(FrameSet)
        /\ Len(Append(frames[t], new)) = Len(frames[t]) + 1 /\ Len(frames[t]) \in Nat
    BY <1>1, <2>2
  <2>4. MaxDepth > 0 => Len(Append(frames[t], new)) <= MaxDepth + 1
    BY <1>3, <2>3, BoundAssumption
  <2>5. frames' = [frames EXCEPT ![t] = Append(frames[t], new)]
    BY <2>1
  <2>6. /\ frames' \in [Threads -> Seq(FrameSet)]
        /\ DepthBounded'
        /\ frames'[t] = Append(frames[t], new)
        /\ \A u \in Threads \ {t} : frames'[u] = frames[u]
    BY <2>3, <2>4, <2>5, ChangeFrames
  <2>7. outcome' \in [Threads -> {"none", "ok", "not found", "too deep", "rejected"}]
    BY <2>1 DEF TypeOK
  <2>8. \E l \in {"idle", "run"} : pc' = [pc EXCEPT ![t] = l]
    BY <2>1
  <2>9. Len(frames'[t]) > 0
    BY <2>3, <2>6
  <2>. QED
    BY <2>6, <2>7, <2>8, <2>9
<1>. QED
  BY <1>2, <1>3

Places == {"idle", "lookup", "load", "resolve", "reread", "run", "inline", "invalidate"}

\* A thread goes from one place to another.
LEMMA ThreadKeepsPlaces ==
    ASSUME IInv, NEW t \in Threads, NEW l \in Places \ {"invalidate"},
           pc' = [pc EXCEPT ![t] = l],
           \A a \in Actors \ {t} : want'[a] = want[a],
           \A u \in Threads \ {t} : frames'[u] = frames[u],
           l \in {"lookup", "load", "resolve", "reread"} => want'[t] \in Names,
           l \in {"run", "inline"} => Len(frames'[t]) > 0
    PROVE  PlaceInv' /\ pc' \in [Actors -> Places]
<1>1. pc \in [Actors -> Places] /\ t \in Actors
  BY DEF IInv, TypeOK, Places, Actors
<1>2. \A a \in Actors : pc'[a] = IF a = t THEN l ELSE pc[a]
  BY <1>1
<1>. QED
  BY <1>1, <1>2, ActorsAssumption DEF IInv, PlaceInv, Actors

\* What GetCompiled's two looks into the map have in common.
LEMMA EnterKeepsInv ==
    ASSUME IInv, NEW t \in Threads, pc[t] \in {"lookup", "reread"},
           \/ Enter(t, compiled[want[t]])
           \/ Abort(t, "not found"),
           UNCHANGED <<store, compiled, want, src, todo, history>>
    PROVE  IInv'
<1>1. want[t] \in Names /\ compiled[want[t]] \in Versions /\ t \in Actors
  BY DEF IInv, PlaceInv, TypeOK, Actors
<1>2. /\ frames' \in [Threads -> Seq(FrameSet)]
      /\ DepthBounded'
      /\ outcome' \in [Threads -> {"none", "ok", "not found", "too deep", "rejected"}]
      /\ \E l \in {"idle", "run"} : pc' = [pc EXCEPT ![t] = l]
      /\ pc'[t] = "run" => Len(frames'[t]) > 0
      /\ \A u \in Threads \ {t} : frames'[u] = frames[u]
  <2>1. CASE Enter(t, compiled[want[t]])
    BY <1>1, <2>1, EnterFacts DEF IInv
  <2>2. CASE Abort(t, "not found")
    <3>1. /\ pc' = [pc EXCEPT ![t] = "idle"]
          /\ outcome' = [outcome EXCEPT ![t] = "not found"]
          /\ frames' = [frames EXCEPT ![t] = <<>>]
      BY <2>2, AbortFacts DEF IInv
    <3>3. /\ frames' \in [Threads -> Seq(FrameSet)]
          /\ DepthBounded'
          /\ \A u \in Threads \ {t} : frames'[u] = frames[u]
      BY <3>1, NoFrames, ChangeFrames DEF IInv
    <3>4. outcome' \in [Threads -> {"none", "ok", "not found", "too deep", "rejected"}]
      BY <3>1 DEF IInv, TypeOK
    <3>5. pc'[t] = "idle" /\ \E l \in {"idle", "run"} : pc' = [pc EXCEPT ![t] = l]
      BY <3>1, <1>1 DEF IInv, TypeOK
    <3>. QED
      BY <3>3, <3>4, <3>5
  <2>. QED
    BY <2>1, <2>2
<1>3. PICK l \in {"idle", "run"} : pc' = [pc EXCEPT ![t] = l]
  BY <1>2
<1>4. pc'[t] = l
  BY <1>1, <1>3 DEF IInv, TypeOK
<1>5. PlaceInv' /\ pc' \in [Actors -> Places]
  <2>1. l \in Places \ {"invalidate"} /\ l \notin {"lookup", "load", "resolve", "reread"}
    BY DEF Places
  <2>. QED
    BY <1>2, <1>3, <1>4, <2>1, ThreadKeepsPlaces
<1>6. Coherent'
  BY <1>3, <1>4, ThreadKeepsCoherent DEF store, history, IInv, TypeOK
<1>7. TypeOK'
  BY <1>2, <1>5 DEF IInv, TypeOK, store, history, Places, FrameSet
<1>. QED
  BY <1>2, <1>5, <1>6, <1>7 DEF IInv

Outcomes == {"none", "ok", "not found", "too deep", "rejected"}

\* What the steps that report an error have in common.
LEMMA AbortKeepsInv ==
    ASSUME IInv, NEW t \in Threads, NEW why \in Outcomes, Abort(t, why),
           UNCHANGED <<store, compiled, want, history>>,
           src' \in [Actors -> Versions], todo' \in [Actors -> SUBSET Names],
           \A a \in Actors \ {t} : src'[a] = src[a]
    PROVE  IInv'
<1>1. /\ pc' = [pc EXCEPT ![t] = "idle"]
      /\ outcome' = [outcome EXCEPT ![t] = why]
      /\ frames' = [frames EXCEPT ![t] = <<>>]
      /\ t \in Actors
  BY AbortFacts DEF IInv, Actors
<1>2. /\ frames' \in [Threads -> Seq(FrameSet)]
      /\ DepthBounded'
      /\ \A u \in Threads \ {t} : frames'[u] = frames[u]
  BY <1>1, NoFrames, ChangeFrames DEF IInv
<1>3. PlaceInv' /\ pc' \in [Actors -> Places]
  BY <1>1, <1>2, ThreadKeepsPlaces, "idle" \in Places \ {"invalidate"} DEF Places
<1>4. Coherent'
  BY <1>1, ThreadKeepsCoherent DEF store, history, IInv, TypeOK
<1>5. TypeOK'
  BY <1>1, <1>2, <1>3 DEF IInv, TypeOK, store, history, Places, FrameSet, Outcomes
<1>. QED
  BY <1>2, <1>3, <1>4, <1>5 DEF IInv

\* What the steps that leave the frames and the cache alone have in common.
LEMMA MoveKeepsInv ==
    ASSUME IInv, NEW t \in Threads, NEW l \in Places \ {"invalidate"},
           pc' = [pc EXCEPT ![t] = l],
           UNCHANGED <<store, frames, unsettled>>,
           \/ compiled' = compiled
           \/ pc[t] = "resolve" /\ compiled' = [compiled EXCEPT ![want[t]] = src[t]],
           want' \in [Actors -> Names \cup {NoName, Inline}],
           src' \in [Actors -> Versions], todo' \in [Actors -> SUBSET Names],
           outcome' \in [Threads -> Outcomes], dropped' \subseteq Threads,
           \A a \in Actors \ {t} : want'[a] = want[a] /\ src'[a] = src[a],
           l \in {"lookup", "load", "resolve", "reread"} => want'[t] \in Names,
           l = "resolve" => src'[t] = stored[want'[t]],
           l \in {"run", "inline"} => pc[t] \in {"run", "inline"}
    PROVE  IInv'
<1>1. t \in Actors /\ pc \in [Actors -> Places] /\ pc'[t] = l
  BY DEF IInv, TypeOK, Actors, Places
<1>2. PlaceInv' /\ pc' \in [Actors -> Places]
  <2>1. l \in {"run", "inline"} => Len(frames'[t]) > 0
    BY DEF IInv, PlaceInv
  <2>. QED
    BY <2>1, ThreadKeepsPlaces
<1>3. Coherent'
  BY <1>1, ThreadKeepsCoherent DEF store
<1>4. DepthBounded'
  BY DEF IInv, DepthBounded
<1>5. compiled' \in [Names -> Versions]
  <2>1. pc[t] = "resolve" => want[t] \in Names /\ src[t] \in Versions
    BY <1>1 DEF IInv, PlaceInv, TypeOK
  <2>. QED
    BY <2>1 DEF IInv, TypeOK
<1>6. TypeOK'
  BY <1>2, <1>5 DEF IInv, TypeOK, store, Places, Outcomes
<1>. QED
  BY <1>2, <1>3, <1>4, <1>6 DEF IInv

LEMMA ExecuteKeepsInv ==
    ASSUME IInv, NEW t \in Threads, NEW n \in Names, Execute(t, n)
    PROVE  IInv'
<1>1. t \in Actors /\ "lookup" \in Places \ {"invalidate"}
  BY DEF Actors, Places
<1>. QED
  BY <1>1, MoveKeepsInv DEF Execute, Goto, IInv, TypeOK, Outcomes, store

LEMMA GetCompiledKeepsInv ==
    ASSUME IInv, NEW t \in Threads,
           LookupHit(t) \/ LookupMiss(t) \/ Load(t) \/ LoadFails(t) \/ Cache(t) \/ Reread(t)
    PROVE  IInv'
<1>1. t \in Actors /\ {"load", "resolve", "reread"} \subseteq Places \ {"invalidate"}
  BY DEF Actors, Places
<1>2. pc[t] \in {"lookup", "load", "resolve", "reread"} => want[t] \in Names
  BY <1>1 DEF IInv, PlaceInv
<1>3. CASE LookupHit(t) \/ Reread(t)
  BY <1>3, EnterKeepsInv DEF LookupHit, Reread
<1>4. CASE LookupMiss(t)
  BY <1>1, <1>2, <1>4, MoveKeepsInv DEF LookupMiss, Goto, IInv, TypeOK, Outcomes, store, history
<1>5. CASE Load(t)
  <2>1. stored[want[t]] \in Versions /\ Deps[want[t]] \in SUBSET Names
    BY <1>2, <1>5, DepsAssumption DEF Load, IInv, TypeOK
  <2>. QED
    BY <1>1, <1>2, <1>5, <2>1, MoveKeepsInv DEF Load, Goto, IInv, TypeOK, Outcomes, store, history
<1>6. CASE LoadFails(t)
  BY <1>6, AbortKeepsInv DEF LoadFails, IInv, TypeOK, Outcomes
<1>7. CASE Cache(t)
  <2>1. 0 \in Versions
    BY BoundAssumption DEF Versions
  <2>. QED
    BY <1>1, <1>2, <1>7, <2>1, MoveKeepsInv DEF Cache, Goto, IInv, TypeOK, Outcomes, store, history
<1>. QED
  BY <1>3, <1>4, <1>5, <1>6, <1>7

\* The compiler resolves a name, in a thread or in the host.
LEMMA ResolveKeepsInv ==
    ASSUME IInv, NEW a \in Actors, NEW d \in Names, Resolve(a, d)
    PROVE  IInv'
<1> USE DEF Resolve, store, history
<1>1. TypeOK'
  BY DEF IInv, TypeOK
<1>2. PlaceInv' /\ DepthBounded'
  BY DEF IInv, PlaceInv, DepthBounded
<1>3. Coherent'
  BY DEF IInv, Coherent, FillInv, StaleOnlyWhenOvertaken, Publishing
<1>. QED
  BY <1>1, <1>2, <1>3 DEF IInv

LEMMA ResolveFailsKeepsInv ==
    ASSUME IInv, NEW t \in Threads, NEW d \in Names, ResolveFails(t, d)
    PROVE  IInv'
<1>1. 0 \in Versions
  BY BoundAssumption DEF Versions
<1>. QED
  BY <1>1, AbortKeepsInv DEF ResolveFails, IInv, TypeOK, Outcomes

\* A running thread has a frame.
LEMMA RunningFacts ==
    ASSUME IInv, NEW t \in Threads, pc[t] \in {"run", "inline"}
    PROVE  /\ frames \in [Threads -> Seq(FrameSet)]
           /\ frames[t] \in Seq(FrameSet)
           /\ Len(frames[t]) \in Nat /\ Len(frames[t]) > 0
           /\ t \in Actors /\ pc \in [Actors -> Places]
<1>1. frames \in [Threads -> Seq(FrameSet)] /\ pc \in [Actors -> Places]
  BY DEF IInv, TypeOK, FrameSet, Places
<1>2. frames[t] \in Seq(FrameSet) /\ t \in Actors
  BY <1>1 DEF Actors
<1>3. Len(frames[t]) \in Nat
  BY <1>2, LenProperties
<1>4. Len(frames[t]) > 0
  BY DEF IInv, PlaceInv
<1>. QED
  BY <1>1, <1>2, <1>3, <1>4

\* A call takes the callee off the caller's list and looks it up.
LEMMA CallDepKeepsInv ==
    ASSUME IInv, NEW t \in Threads, NEW d \in Names, CallDep(t, d)
    PROVE  IInv'
<1> DEFINE n == Len(frames[t])
           top == [frames[t][n] EXCEPT !.calls = @ \ {d}]
           s == [frames[t] EXCEPT ![n] = top]
<1>1. /\ frames[t] \in Seq(FrameSet) /\ n \in 1 .. n /\ t \in Actors
      /\ frames \in [Threads -> Seq(FrameSet)]
  BY RunningFacts DEF CallDep
<1>2. frames' = [frames EXCEPT ![t] = s]
  BY <1>1 DEF CallDep
<1>3. top \in FrameSet
  <2>1. frames[t][n] \in FrameSet
    BY <1>1
  <2>. QED
    BY <2>1 DEF FrameSet
<1>4. s \in Seq(FrameSet) /\ Len(s) = n
  BY <1>1, <1>3, ExceptSeq
<1>5. MaxDepth > 0 => Len(s) <= MaxDepth + 1
  BY <1>4 DEF IInv, DepthBounded
<1>6. /\ frames' \in [Threads -> Seq(FrameSet)]
      /\ DepthBounded'
      /\ \A u \in Threads \ {t} : frames'[u] = frames[u]
  BY <1>2, <1>4, <1>5, ChangeFrames DEF IInv
<1>7. /\ pc' = [pc EXCEPT ![t] = "lookup"] /\ want' = [want EXCEPT ![t] = d]
      /\ UNCHANGED <<store, compiled, src, todo, outcome, history>>
  BY DEF CallDep, Goto
<1>8. PlaceInv' /\ pc' \in [Actors -> Places]
  <2>1. "lookup" \in Places \ {"invalidate"} /\ want'[t] \in Names
    BY <1>1, <1>7 DEF Places, IInv, TypeOK
  <2>2. \A a \in Actors \ {t} : want'[a] = want[a]
    BY <1>7 DEF IInv, TypeOK
  <2>. QED
    BY <1>6, <1>7, <2>1, <2>2, ThreadKeepsPlaces
<1>9. Coherent'
  BY <1>1, <1>7, ThreadKeepsCoherent DEF store, history, IInv, TypeOK
<1>10. TypeOK'
  BY <1>1, <1>6, <1>7, <1>8 DEF IInv, TypeOK, store, history, Places, FrameSet
<1>. QED
  BY <1>6, <1>8, <1>9, <1>10 DEF IInv

LEMMA ReturnKeepsInv ==
    ASSUME IInv, NEW t \in Threads, Return(t)
    PROVE  IInv'
<1> DEFINE n == Len(frames[t])
           s == SubSeq(frames[t], 1, n - 1)
<1>1. /\ frames[t] \in Seq(FrameSet) /\ n \in Nat /\ n > 0 /\ t \in Actors
      /\ frames \in [Threads -> Seq(FrameSet)] /\ pc \in [Actors -> Places]
  BY RunningFacts DEF Return
<1>2. frames' = [frames EXCEPT ![t] = s]
  BY <1>1 DEF Return
<1>11. Return(t) <=> /\ pc[t] = "run"
                     /\ frames' = [frames EXCEPT ![t] = SubSeq(@, 1, Len(@) - 1)]
                     /\ IF n = 1
                        THEN Goto(t, "idle") /\ outcome' = [outcome EXCEPT ![t] = "ok"]
                        ELSE UNCHANGED <<pc, outcome>>
                     /\ UNCHANGED <<store, compiled, want, src, todo, history>>
  BY DEF Return
<1>12. MaxDepth > 0 => n <= MaxDepth + 1
  BY DEF IInv, DepthBounded
<1>13. \A i \in 1 .. n : frames[t][i] \in FrameSet
  BY <1>1
<1> HIDE DEF n
<1>3. s \in Seq(FrameSet) /\ Len(s) = n - 1
  <2>1. \A i \in 1 .. n - 1 : frames[t][i] \in FrameSet
    BY <1>1, <1>13
  <2>2. /\ s \in Seq(FrameSet)
        /\ Len(s) = IF 1 <= n - 1 THEN (n - 1) - 1 + 1 ELSE 0
    BY <1>1, <2>1, SubSeqProperties
  <2>. QED
    BY <1>1, <2>2
<1>4. MaxDepth > 0 => Len(s) <= MaxDepth + 1
  BY <1>1, <1>3, <1>12, BoundAssumption
<1>5. /\ frames' \in [Threads -> Seq(FrameSet)]
      /\ DepthBounded'
      /\ frames'[t] = s
      /\ \A u \in Threads \ {t} : frames'[u] = frames[u]
  BY <1>2, <1>3, <1>4, ChangeFrames DEF IInv
<1>6. UNCHANGED <<store, compiled, want, src, todo, history>>
  BY DEF Return
<1>7. PICK l \in {"idle", "run"} : /\ pc' = [pc EXCEPT ![t] = l] /\ (l = "run" => n > 1)
                                 /\ outcome' \in [Threads -> Outcomes]
  <2>1. CASE n = 1
    <3>1. pc' = [pc EXCEPT ![t] = "idle"] /\ outcome' = [outcome EXCEPT ![t] = "ok"]
      BY <2>1, <1>11 DEF Goto
    <3>. QED
      BY <3>1 DEF IInv, TypeOK, Outcomes
  <2>2. CASE n # 1
    <3>1. pc' = pc /\ outcome' = outcome /\ pc[t] = "run"
      BY <2>2, <1>11
    <3>2. pc' = [pc EXCEPT ![t] = "run"]
      BY <1>1, <3>1
    <3>3. n > 1
      BY <1>1, <2>2
    <3>4. outcome' \in [Threads -> Outcomes]
      BY <3>1 DEF IInv, TypeOK, Outcomes
    <3>. QED
      BY <3>2, <3>3, <3>4
  <2>. QED
    BY <2>1, <2>2
<1>8. PlaceInv' /\ pc' \in [Actors -> Places]
  <2>1. l \in Places \ {"invalidate"} /\ l \notin {"lookup", "load", "resolve", "reread"}
    BY DEF Places
  <2>2. l \in {"run", "inline"} => Len(frames'[t]) > 0
    BY <1>1, <1>3, <1>5, <1>7
  <2>. QED
    BY <1>5, <1>6, <1>7, <2>1, <2>2, ThreadKeepsPlaces
<1>9. Coherent'
  BY <1>1, <1>6, <1>7, ThreadKeepsCoherent DEF store, history
<1>10. TypeOK'
  BY <1>5, <1>6, <1>7, <1>8 DEF IInv, TypeOK, store, history, Places, FrameSet, Outcomes
<1>. QED
  BY <1>5, <1>8, <1>9, <1>10 DEF IInv

LEMMA ExecuteInlineKeepsInv ==
    ASSUME IInv, NEW t \in Threads, NEW ds \in InlineDeps, ExecuteInline(t, ds)
    PROVE  IInv'
<1> DEFINE s == <<Frame(Inline, 0, ds)>>
<1>1. s \in Seq(FrameSet) /\ Len(s) = 1
  BY DepsAssumption, BoundAssumption DEF Frame, FrameSet, Versions
<1>2. /\ pc' = [pc EXCEPT ![t] = "inline"] /\ frames' = [frames EXCEPT ![t] = s]
      /\ want' = [want EXCEPT ![t] = Inline]
      /\ todo' = [todo EXCEPT ![t] = ds]
      /\ outcome' = [outcome EXCEPT ![t] = "none"]
      /\ dropped' = dropped \ {t}
      /\ UNCHANGED <<store, compiled, src, unsettled>>
      /\ t \in Actors
  BY DEF ExecuteInline, Goto, Actors
<1>3. MaxDepth > 0 => Len(s) <= MaxDepth + 1
  BY <1>1, BoundAssumption
<1>4. /\ frames' \in [Threads -> Seq(FrameSet)]
      /\ DepthBounded'
      /\ frames'[t] = s
      /\ \A u \in Threads \ {t} : frames'[u] = frames[u]
  BY <1>1, <1>2, <1>3, ChangeFrames DEF IInv
<1>5. PlaceInv' /\ pc' \in [Actors -> Places]
  <2>1. "inline" \in Places \ {"invalidate"} /\ Len(frames'[t]) > 0
    BY <1>1, <1>4 DEF Places
  <2>2. \A a \in Actors \ {t} : want'[a] = want[a]
    BY <1>2 DEF IInv, TypeOK
  <2>. QED
    BY <1>2, <1>4, <2>1, <2>2, ThreadKeepsPlaces
<1>6. Coherent'
  BY <1>2, ThreadKeepsCoherent DEF store, IInv, TypeOK
<1>7. TypeOK'
  BY <1>2, <1>4, <1>5, DepsAssumption DEF IInv, TypeOK, store, Places, FrameSet
<1>. QED
  BY <1>4, <1>5, <1>6, <1>7 DEF IInv

LEMMA ResolveInlineKeepsInv ==
    ASSUME IInv, NEW t \in Threads, NEW d \in Names, ResolveInline(t, d)
    PROVE  IInv'
<1>1. todo' \in [Actors -> SUBSET Names]
  BY DEF ResolveInline, IInv, TypeOK
<1>2. CASE compiled[d] = 0
  BY <1>1, <1>2, AbortKeepsInv DEF ResolveInline, IInv, TypeOK, Outcomes
<1>3. CASE compiled[d] # 0
  <2>1. UNCHANGED <<pc, outcome, frames, store, compiled, want, src, history>>
    BY <1>3 DEF ResolveInline
  <2>2. TypeOK'
    BY <1>1, <2>1 DEF IInv, TypeOK, store, history
  <2>3. PlaceInv' /\ DepthBounded'
    BY <2>1 DEF IInv, PlaceInv, DepthBounded
  <2>4. Coherent'
    BY <2>1 DEF IInv, Coherent, FillInv, StaleOnlyWhenOvertaken, Publishing, store, history
  <2>. QED
    BY <2>2, <2>3, <2>4 DEF IInv
<1>. QED
  BY <1>2, <1>3

LEMMA RunInlineKeepsInv ==
    ASSUME IInv, NEW t \in Threads, RunInline(t)
    PROVE  IInv'
<1>1. "run" \in Places \ {"invalidate"}
  BY DEF Places
<1>. QED
  BY <1>1, MoveKeepsInv DEF RunInline, Goto, IInv, TypeOK, Outcomes, store, history

--------------------------------------------------------------------------------
\* The host.  Its steps leave the threads where they are.
LEMMA HostKeepsPlaces ==
    ASSUME IInv, NEW h \in Hosts, NEW l \in {"idle", "resolve", "invalidate"},
           pc' = [pc EXCEPT ![h] = l], frames' = frames,
           \A a \in Actors \ {h} : want'[a] = want[a],
           want'[h] \in Names \/ l = "idle"
    PROVE  PlaceInv' /\ DepthBounded' /\ pc' \in [Actors -> Places]
<1>1. pc \in [Actors -> Places] /\ h \in Actors
  BY DEF IInv, TypeOK, Places, Actors
<1>2. \A a \in Actors : pc'[a] = IF a = h THEN l ELSE pc[a]
  BY <1>1
<1>3. pc' \in [Actors -> Places]
  BY <1>1 DEF Places
<1>. QED
  BY <1>1, <1>2, <1>3, ActorsAssumption DEF IInv, PlaceInv, DepthBounded, Actors

\* A publication of n makes n behind, and leaves the other names as they were.
LEMMA AnnounceKeepsCoherent ==
    ASSUME IInv, NEW h \in Hosts, NEW n \in Names, NEW l \in {"resolve", "invalidate"},
           pc[h] = "idle",
           pc' = [pc EXCEPT ![h] = l], want' = [want EXCEPT ![h] = n],
           \A m \in Names \ {n} : stored'[m] = stored[m],
           \A a \in Actors \ {h} : src'[a] = src[a],
           compiled' = compiled, unsettled' = unsettled
    PROVE  Coherent'
<1>1. h \in Actors /\ pc \in [Actors -> Places] /\ want \in [Actors -> Names \cup {NoName, Inline}]
  BY DEF IInv, TypeOK, Actors, Places
<1>2. /\ \A a \in Actors : pc'[a] = IF a = h THEN l ELSE pc[a]
      /\ \A a \in Actors : want'[a] = IF a = h THEN n ELSE want[a]
  BY <1>1
<1>3. Publishing(n)'
  BY <1>1, <1>2 DEF Publishing
<1>4. ASSUME NEW m, Publishing(m) PROVE Publishing(m)'
  BY <1>2, <1>4 DEF Publishing, Actors
<1>5. FillInv'
  <2> SUFFICES ASSUME NEW a \in Actors, NEW m, want'[a] = m,
                      pc'[a] = "resolve", src'[a] # stored'[m], m # n
               PROVE  Publishing(m)' \/ m \in unsettled'
    BY <1>3 DEF FillInv, Publishing
  <2>1. a # h /\ pc[a] = "resolve" /\ want[a] = m /\ src[a] = src'[a]
    BY <1>2
  <2>2. m \in Names
    BY <2>1 DEF IInv, PlaceInv
  <2>3. Publishing(m) \/ m \in unsettled
    BY <2>1, <2>2 DEF IInv, Coherent, FillInv, Publishing
  <2>. QED
    BY <1>4, <2>3
<1>6. StaleOnlyWhenOvertaken'
  BY <1>3, <1>4 DEF IInv, Coherent, StaleOnlyWhenOvertaken
<1>. QED
  BY <1>5, <1>6 DEF Coherent

\* The registry is told about n: the host's own publication is over, and a fill
\* that is still carrying another source makes the name unsettled.
LEMMA SettleKeepsCoherent ==
    ASSUME IInv, NEW h \in Hosts, NEW n \in Names, NEW reached \in BOOLEAN,
           want[h] = n,
           pc' = [pc EXCEPT ![h] = "idle"], want' = want, stored' = stored,
           \A a \in Actors \ {h} : src'[a] = src[a],
           \A m \in Names \ {n} : compiled'[m] = compiled[m],
           reached => compiled'[n] \in {0, stored[n]},
           Settle(h, n, reached)
    PROVE  Coherent'
<1>1. h \in Actors /\ pc \in [Actors -> Places]
  BY DEF IInv, TypeOK, Actors, Places
<1>2. \A a \in Actors : pc'[a] = IF a = h THEN "idle" ELSE pc[a]
  BY <1>1
<1>3. ASSUME NEW m, m # n, Publishing(m) PROVE Publishing(m)'
  BY <1>2, <1>3 DEF Publishing, Actors
<1>4. ASSUME NEW m, m # n, m \in unsettled PROVE m \in unsettled'
  BY <1>4 DEF Settle
<1>5. FillInv'
  <2> SUFFICES ASSUME NEW a \in Actors, NEW m, want'[a] = m,
                      pc'[a] = "resolve", src'[a] # stored'[m]
               PROVE  Publishing(m)' \/ m \in unsettled'
    BY DEF FillInv, Publishing
  <2>1. a # h /\ pc[a] = "resolve" /\ want[a] = m /\ src[a] # stored[m]
    BY <1>2
  <2>2. CASE m = n
    BY <2>1, <2>2 DEF Settle, Overtaken
  <2>3. CASE m # n
    <3>1. Publishing(m) \/ m \in unsettled
      BY <2>1 DEF IInv, Coherent, FillInv, Publishing
    <3>. QED
      BY <2>3, <3>1, <1>3, <1>4
  <2>. QED
    BY <2>2, <2>3
<1>6. StaleOnlyWhenOvertaken'
  <2> SUFFICES ASSUME NEW m \in Names, compiled'[m] \notin {0, stored'[m]}
               PROVE  Publishing(m)' \/ m \in unsettled'
    BY DEF StaleOnlyWhenOvertaken
  <2>1. CASE m = n
    BY <2>1 DEF Settle
  <2>2. CASE m # n
    BY <2>2, <1>3, <1>4 DEF IInv, Coherent, StaleOnlyWhenOvertaken
  <2>. QED
    BY <2>1, <2>2
<1>. QED
  BY <1>5, <1>6 DEF Coherent

LEMMA ZeroVersion == 0 \in Versions
  BY BoundAssumption DEF Versions

LEMMA NextVersion ==
    ASSUME NEW v \in Versions, v < MaxVersion
    PROVE  v + 1 \in Versions
  BY BoundAssumption DEF Versions

\* What Settle leaves in unsettled are names.
LEMMA SettledNames ==
    ASSUME NEW h, NEW n \in Names, NEW reached, Settle(h, n, reached), unsettled \subseteq Names
    PROVE  unsettled' \subseteq Names
  BY DEF Settle

LEMMA PublishKeepsInv ==
    ASSUME IInv, NEW h \in Hosts, NEW n \in Names, NEW next \in {"invalidate", "resolve"},
           Publish(h, n, next)
    PROVE  IInv'
<1>1. /\ pc[h] = "idle" /\ h \in Actors
      /\ pc' = [pc EXCEPT ![h] = next] /\ want' = [want EXCEPT ![h] = n]
      /\ UNCHANGED <<compiled, frames, outcome, history>>
  BY DEF Publish, Goto, Actors
<1>a. version[n] \in Versions /\ version[n] < MaxVersion
  BY DEF Publish, IInv, TypeOK
<1>2. version[n] + 1 \in Versions /\ 0 \in Versions /\ Deps[n] \in SUBSET Names
  BY <1>a, NextVersion, ZeroVersion, DepsAssumption
<1>3. /\ stored' \in [Names -> Versions] /\ version' \in [Names -> Versions]
      /\ src' \in [Actors -> Versions] /\ todo' \in [Actors -> SUBSET Names]
      /\ want' \in [Actors -> Names \cup {NoName, Inline}]
  BY <1>2 DEF Publish, IInv, TypeOK
<1>4. /\ \A m \in Names \ {n} : stored'[m] = stored[m]
      /\ \A a \in Actors \ {h} : src'[a] = src[a] /\ want'[a] = want[a]
      /\ want'[h] = n
  BY <1>1 DEF Publish, IInv, TypeOK
<1>5. PlaceInv' /\ DepthBounded' /\ pc' \in [Actors -> Places]
  BY <1>1, <1>4, HostKeepsPlaces
<1>6. Coherent'
  BY <1>1, <1>4, AnnounceKeepsCoherent DEF history
<1>7. TypeOK'
  BY <1>1, <1>3, <1>5 DEF IInv, TypeOK, history, Places
<1>. QED
  BY <1>5, <1>6, <1>7 DEF IInv

LEMMA DeleteKeepsInv ==
    ASSUME IInv, NEW h \in Hosts, NEW n \in Names, Delete(h, n)
    PROVE  IInv'
<1>1. /\ pc[h] = "idle" /\ h \in Actors
      /\ pc' = [pc EXCEPT ![h] = "invalidate"] /\ want' = [want EXCEPT ![h] = n]
      /\ UNCHANGED <<version, compiled, src, todo, frames, outcome, history>>
  BY DEF Delete, Goto, Actors
<1>2. /\ stored' \in [Names -> Versions]
      /\ want' \in [Actors -> Names \cup {NoName, Inline}]
  BY <1>1, ZeroVersion DEF Delete, IInv, TypeOK
<1>3. /\ \A m \in Names \ {n} : stored'[m] = stored[m]
      /\ \A a \in Actors \ {h} : want'[a] = want[a]
      /\ want'[h] = n
  BY <1>1 DEF Delete, IInv, TypeOK
<1>4. PlaceInv' /\ DepthBounded' /\ pc' \in [Actors -> Places]
  BY <1>1, <1>3, HostKeepsPlaces
<1>5. Coherent'
  BY <1>1, <1>3, AnnounceKeepsCoherent DEF history
<1>6. TypeOK'
  BY <1>1, <1>2, <1>4 DEF IInv, TypeOK, history, Places
<1>. QED
  BY <1>4, <1>5, <1>6 DEF IInv

\* Invalidate, Register and a refused Register.
LEMMA InvalidateKeepsInv ==
    ASSUME IInv, NEW h \in Hosts, Invalidate(h)
    PROVE  IInv'
<1> DEFINE n == want[h]
<1>1. /\ pc' = [pc EXCEPT ![h] = "idle"] /\ compiled' = [compiled EXCEPT ![n] = 0]
      /\ Settle(h, n, TRUE) /\ dropped' \subseteq Threads
      /\ UNCHANGED <<store, want, src, todo, frames, outcome>>
      /\ h \in Actors /\ n \in Names
  BY DEF Invalidate, Goto, IInv, TypeOK, PlaceInv, Actors
<1>2. compiled' \in [Names -> Versions] /\ unsettled' \subseteq Names
  BY <1>1, ZeroVersion, SettledNames DEF IInv, TypeOK
<1>3. \A m \in Names : compiled'[m] = IF m = n THEN 0 ELSE compiled[m]
  BY <1>1 DEF IInv, TypeOK
<1>4. PlaceInv' /\ DepthBounded' /\ pc' \in [Actors -> Places]
  BY <1>1, HostKeepsPlaces
<1>5. Coherent'
  BY <1>1, <1>3, SettleKeepsCoherent DEF store
<1>6. TypeOK'
  BY <1>1, <1>2, <1>4 DEF IInv, TypeOK, store, Places
<1>. QED
  BY <1>4, <1>5, <1>6 DEF IInv

LEMMA RegisterKeepsInv ==
    ASSUME IInv, NEW h \in Hosts, Register(h)
    PROVE  IInv'
<1> DEFINE n == want[h]
           reached == src[h] = stored[n]
<1>1. /\ pc' = [pc EXCEPT ![h] = "idle"] /\ compiled' = [compiled EXCEPT ![n] = src[h]]
      /\ Settle(h, n, reached) /\ src' = [src EXCEPT ![h] = 0]
      /\ UNCHANGED <<store, want, todo, frames, outcome, dropped>>
      /\ h \in Actors /\ n \in Names
  BY DEF Register, Goto, IInv, TypeOK, PlaceInv, Actors
<1>a. unsettled' \subseteq Names
  BY <1>1, SettledNames DEF IInv, TypeOK
<1>2. compiled' \in [Names -> Versions] /\ unsettled' \subseteq Names /\ src' \in [Actors -> Versions]
  BY <1>1, <1>a, ZeroVersion DEF IInv, TypeOK
<1>3. /\ \A m \in Names : compiled'[m] = IF m = n THEN src[h] ELSE compiled[m]
      /\ \A a \in Actors \ {h} : src'[a] = src[a]
  BY <1>1 DEF IInv, TypeOK
<1>4. PlaceInv' /\ DepthBounded' /\ pc' \in [Actors -> Places]
  BY <1>1, HostKeepsPlaces
<1>5. Coherent'
  BY <1>1, <1>3, SettleKeepsCoherent DEF store
<1>6. TypeOK'
  BY <1>1, <1>2, <1>4 DEF IInv, TypeOK, store, Places
<1>. QED
  BY <1>4, <1>5, <1>6 DEF IInv

LEMMA RegisterFailsKeepsInv ==
    ASSUME IInv, NEW h \in Hosts, NEW d \in Names, RegisterFails(h, d)
    PROVE  IInv'
<1> DEFINE n == want[h]
<1>1. /\ pc' = [pc EXCEPT ![h] = "idle"] /\ Settle(h, n, FALSE)
      /\ src' = [src EXCEPT ![h] = 0] /\ todo' = [todo EXCEPT ![h] = {}]
      /\ UNCHANGED <<store, compiled, want, frames, outcome, dropped>>
      /\ h \in Actors /\ n \in Names
  BY DEF RegisterFails, Goto, IInv, TypeOK, PlaceInv, Actors
<1>2. /\ unsettled' \subseteq Names /\ src' \in [Actors -> Versions]
      /\ todo' \in [Actors -> SUBSET Names]
  BY <1>1, ZeroVersion, SettledNames DEF IInv, TypeOK
<1>3. \A a \in Actors \ {h} : src'[a] = src[a]
  BY <1>1 DEF IInv, TypeOK
<1>4. PlaceInv' /\ DepthBounded' /\ pc' \in [Actors -> Places]
  BY <1>1, HostKeepsPlaces
<1>5. Coherent'
  BY <1>1, <1>3, SettleKeepsCoherent DEF store
<1>6. TypeOK'
  BY <1>1, <1>2, <1>4 DEF IInv, TypeOK, store, Places
<1>. QED
  BY <1>4, <1>5, <1>6 DEF IInv

--------------------------------------------------------------------------------
LEMMA InitInv == Init => IInv
<1> SUFFICES ASSUME Init PROVE IInv
  OBVIOUS
<1> USE BoundAssumption DEF Init
<1>1. TypeOK
  BY EmptySeq DEF TypeOK, Versions
<1>2. PlaceInv /\ Coherent
  BY DEF PlaceInv, Coherent, FillInv, StaleOnlyWhenOvertaken, Actors
<1>3. DepthBounded
  BY NoFrames DEF DepthBounded
<1>. QED
  BY <1>1, <1>2, <1>3 DEF IInv

LEMMA StutterKeepsInv == IInv /\ UNCHANGED vars => IInv'
  BY DEF vars, store, local, history, IInv, TypeOK, PlaceInv, Coherent, FillInv,
         StaleOnlyWhenOvertaken, Publishing, DepthBounded

LEMMA StepKeepsInv == IInv /\ [Next]_vars => IInv'
<1> SUFFICES ASSUME IInv, [Next]_vars PROVE IInv'
  OBVIOUS
<1>1. ASSUME NEW t \in Threads, Begin(t) PROVE IInv'
  BY <1>1, ExecuteKeepsInv, ExecuteInlineKeepsInv DEF Begin
<1>2. ASSUME NEW t \in Threads, Step(t) PROVE IInv'
  <2>1. CASE LookupHit(t) \/ LookupMiss(t) \/ Load(t) \/ LoadFails(t) \/ Cache(t) \/ Reread(t)
    BY <2>1, GetCompiledKeepsInv
  <2>2. CASE Return(t) \/ RunInline(t)
    BY <2>2, ReturnKeepsInv, RunInlineKeepsInv
  <2>3. CASE \E d \in Names : Resolve(t, d) \/ ResolveFails(t, d) \/ CallDep(t, d) \/ ResolveInline(t, d)
    BY <2>3, ResolveKeepsInv, ResolveFailsKeepsInv, CallDepKeepsInv, ResolveInlineKeepsInv DEF Actors
  <2>. QED
    BY <1>2, <2>1, <2>2, <2>3 DEF Step
<1>3. ASSUME NEW h \in Hosts, HostStep(h) PROVE IInv'
  <2>1. CASE \E n \in Names : Delete(h, n) \/ \E next \in {"invalidate", "resolve"} : Publish(h, n, next)
    BY <2>1, DeleteKeepsInv, PublishKeepsInv
  <2>2. CASE Invalidate(h) \/ Register(h)
    BY <2>2, InvalidateKeepsInv, RegisterKeepsInv
  <2>3. CASE \E d \in Names : Resolve(h, d) \/ RegisterFails(h, d)
    BY <2>3, ResolveKeepsInv, RegisterFailsKeepsInv DEF Actors
  <2>. QED
    BY <1>3, <2>1, <2>2, <2>3 DEF HostStep
<1>4. CASE UNCHANGED vars
  BY <1>4, StutterKeepsInv
<1>. QED
  BY <1>1, <1>2, <1>3, <1>4 DEF Next

--------------------------------------------------------------------------------
\* The inductive invariant, for any functions, goroutines and publications.
THEOREM RegistryInvariant == Spec => []IInv
  BY InitInv, StepKeepsInv, PTL DEF Spec

\* Every variable of the registry keeps its type.
THEOREM RegistryTypes == Spec => []TypeOK
<1>1. IInv => TypeOK
  BY DEF IInv
<1>. QED
  BY <1>1, RegistryInvariant, PTL

\* GetCompiled, Register and Invalidate leave an old version in the cache only
\* when a publication was overtaken by a fill or refused (registry/registry.go).
THEOREM CacheCoherence == Spec => []StaleOnlyWhenOvertaken
<1>1. IInv => StaleOnlyWhenOvertaken
  BY DEF IInv, Coherent
<1>. QED
  BY <1>1, RegistryInvariant, PTL

\* An execution nests at most MaxDepth named functions below the outermost one,
\* whatever the call graph and however often functions are published again.
THEOREM NamedCallsBounded == Spec => []DepthBounded
<1>1. IInv => DepthBounded
  BY DEF IInv
<1>. QED
  BY <1>1, RegistryInvariant, PTL

--------------------------------------------------------------------------------
(* What an execution runs, and the one way it fails to find it: for any functions, any *)
(* number of goroutines and any number of publications.                               *)

\* Versions are handed from the loader to the compiler, from there to the cache
\* and from there to a frame, and a version that was published stays published.
Published ==
    /\ \A n \in Names : stored[n] <= version[n] /\ compiled[n] <= version[n]
    /\ \A a \in Actors : pc[a] = "resolve" => src[a] \in 1 .. version[want[a]]

\* A body calls n, and has made that call.
HasCalled(f, n) == (f.fn # Inline => n \in Deps[f.fn]) /\ n \notin f.calls

StackOK(s) ==
    \A i \in 1 .. Len(s) :
        /\ s[i].fn # Inline => s[i].ver \in 1 .. version[s[i].fn] /\ s[i].calls \subseteq Deps[s[i].fn]
        /\ i > 1 => HasCalled(s[i - 1], s[i].fn)

\* The function that GetCompiled is looking for is one that the innermost body
\* has called; there is none below an idle thread.
LookingFor(t) ==
    /\ pc[t] = "idle" => frames[t] = <<>>
    /\ pc[t] \in {"lookup", "load", "resolve", "reread"} /\ Len(frames[t]) > 0 =>
          HasCalled(frames[t][Len(frames[t])], want[t])

Calls == \A t \in Threads : StackOK(frames[t]) /\ LookingFor(t)

RunsInv == Published /\ Calls

\* A thread that has cached its function finds it again, or has been told it is dropped.
StillCached ==
    \A t \in Threads : pc[t] = "reread" => compiled[want[t]] # 0 \/ t \in dropped

FoundInv == (\A n \in Names : stored[n] # 0) /\ StillCached /\ NotFoundOnlyWhenDropped

--------------------------------------------------------------------------------
\* Stacks of frames, as the actions change them.
LEMMA EmptyStack == StackOK(<<>>)
BY DEF StackOK

LEMMA PushedStack ==
    ASSUME NEW s \in Seq(FrameSet), NEW f \in FrameSet, StackOK(s),
           f.fn # Inline => f.ver \in 1 .. version[f.fn] /\ f.calls \subseteq Deps[f.fn],
           Len(s) > 0 => HasCalled(s[Len(s)], f.fn)
    PROVE  StackOK(Append(s, f))
<1> DEFINE n == Len(s)
           u == Append(s, f)
<1>1. n \in Nat /\ Len(u) = n + 1 /\ u[n + 1] = f /\ \A i \in 1 .. n : u[i] = s[i]
  OBVIOUS
<1>2. n > 0 => HasCalled(s[n], f.fn)
  OBVIOUS
<1> HIDE DEF n, u
<1>3. ASSUME NEW i \in 1 .. n + 1
      PROVE  /\ u[i].fn # Inline => u[i].ver \in 1 .. version[u[i].fn] /\ u[i].calls \subseteq Deps[u[i].fn]
             /\ i > 1 => HasCalled(u[i - 1], u[i].fn)
  <2>1. CASE i = n + 1
    <3>1. u[i] = f /\ (i > 1 => i - 1 \in 1 .. n /\ i - 1 = n /\ n > 0)
      BY <2>1, <1>1
    <3>. QED
      BY <3>1, <1>1, <1>2
  <2>2. CASE i # n + 1
    <3>1. i \in 1 .. n /\ u[i] = s[i] /\ (i > 1 => i - 1 \in 1 .. n)
      BY <2>2, <1>1
    <3>2. /\ s[i].fn # Inline => s[i].ver \in 1 .. version[s[i].fn] /\ s[i].calls \subseteq Deps[s[i].fn]
          /\ i > 1 => HasCalled(s[i - 1], s[i].fn)
      BY <3>1 DEF StackOK, n
    <3>. QED
      BY <3>1, <3>2, <1>1
  <2>. QED
    BY <2>1, <2>2
<1>. QED
  BY <1>1, <1>3 DEF StackOK, u

LEMMA PoppedStack ==
    ASSUME NEW s \in Seq(FrameSet), Len(s) > 0, StackOK(s)
    PROVE  /\ SubSeq(s, 1, Len(s) - 1) \in Seq(FrameSet)
           /\ Len(SubSeq(s, 1, Len(s) - 1)) = Len(s) - 1
           /\ StackOK(SubSeq(s, 1, Len(s) - 1))
<1> DEFINE n == Len(s)
           u == SubSeq(s, 1, n - 1)
<1>1. n \in Nat /\ n > 0 /\ \A i \in 1 .. n : s[i] \in FrameSet
  OBVIOUS
<1>2. /\ u \in Seq(FrameSet) /\ Len(u) = n - 1
      /\ \A i \in 1 .. n - 1 : u[i] = s[i]
  <2>1. \A i \in 1 .. n - 1 : s[i] \in FrameSet
    BY <1>1
  <2>2. /\ u \in Seq(FrameSet)
        /\ Len(u) = IF 1 <= n - 1 THEN (n - 1) - 1 + 1 ELSE 0
        /\ \A i \in 1 .. (n - 1) - 1 + 1 : u[i] = s[1 + i - 1]
    <3> HIDE DEF n
    <3>. QED
      BY <1>1, <2>1, SubSeqProperties
  <2>3. \A i \in 1 .. n - 1 : i \in 1 .. (n - 1) - 1 + 1 /\ 1 + i - 1 = i
    BY <1>1
  <2> HIDE DEF n, u
  <2>. QED
    BY <1>1, <2>2, <2>3
<1>3. \A i \in 1 .. n - 1 : i \in 1 .. n /\ (i > 1 => i - 1 \in 1 .. n - 1)
  BY <1>1
<1>4. \A i \in 1 .. n :
        /\ s[i].fn # Inline => s[i].ver \in 1 .. version[s[i].fn] /\ s[i].calls \subseteq Deps[s[i].fn]
        /\ i > 1 => HasCalled(s[i - 1], s[i].fn)
  BY DEF StackOK
<1> HIDE DEF n, u
<1>5. \A i \in 1 .. Len(u) :
        /\ u[i].fn # Inline => u[i].ver \in 1 .. version[u[i].fn] /\ u[i].calls \subseteq Deps[u[i].fn]
        /\ i > 1 => HasCalled(u[i - 1], u[i].fn)
  BY <1>2, <1>3, <1>4
<1>. QED
  BY <1>2, <1>5 DEF StackOK, n, u

\* The innermost function makes the call of d.
LEMMA CalledStack ==
    ASSUME NEW s \in Seq(FrameSet), Len(s) > 0, StackOK(s), NEW d \in s[Len(s)].calls,
           NEW u, u = [s EXCEPT ![Len(s)].calls = @ \ {d}]
    PROVE  StackOK(u) /\ Len(u) = Len(s) /\ HasCalled(u[Len(u)], d)
<1> DEFINE n == Len(s)
           f == [s[n] EXCEPT !.calls = @ \ {d}]
<1>1. n \in Nat /\ n > 0 /\ s[n] \in FrameSet
  OBVIOUS
<1>2. f \in FrameSet /\ f.fn = s[n].fn /\ f.ver = s[n].ver /\ f.calls = s[n].calls \ {d}
  BY <1>1 DEF FrameSet
<1>3. u = [s EXCEPT ![n] = f]
  OBVIOUS
<1> HIDE DEF f
<1>4. Len(u) = n /\ u[n] = f /\ \A i \in 1 .. n : i # n => u[i] = s[i]
  BY <1>1, <1>2, <1>3
<1>5. \A i \in 1 .. n :
        /\ s[i].fn # Inline => s[i].ver \in 1 .. version[s[i].fn] /\ s[i].calls \subseteq Deps[s[i].fn]
        /\ i > 1 => HasCalled(s[i - 1], s[i].fn)
  BY DEF StackOK
<1> HIDE DEF n
<1>6. ASSUME NEW i \in 1 .. n
      PROVE  /\ u[i].fn # Inline => u[i].ver \in 1 .. version[u[i].fn] /\ u[i].calls \subseteq Deps[u[i].fn]
             /\ i > 1 => HasCalled(u[i - 1], u[i].fn)
  <2>1. i > 1 => i - 1 \in 1 .. n /\ i - 1 # n
    BY <1>1
  <2>2. i > 1 => u[i - 1] = s[i - 1]
    BY <2>1, <1>4
  <2>3. u[i].fn = s[i].fn /\ u[i].ver = s[i].ver /\ u[i].calls \subseteq s[i].calls
    BY <1>2, <1>4
  <2>. QED
    BY <2>2, <2>3, <1>5
<1>7. HasCalled(f, d)
  <2>1. f.fn # Inline => d \in Deps[f.fn]
    BY <1>1, <1>2, <1>5 DEF n
  <2>. QED
    BY <2>1, <1>2 DEF HasCalled
<1>. QED
  BY <1>4, <1>6, <1>7 DEF StackOK, n

LEMMA VersionsAreNumbers == \A v \in Versions : v \in Nat
  BY BoundAssumption DEF Versions

\* The version that is published next is not the one that stands for none.
LEMMA NextVersionIsOne == \A v \in Nat : v + 1 # 0
  OBVIOUS

\* Publishing more leaves stacks as they are.
LEMMA OlderStack ==
    ASSUME NEW s, StackOK(s), TypeOK, TypeOK', s \in Seq(FrameSet),
           \A n \in Names : version[n] <= version'[n]
    PROVE  StackOK(s)'
<1>1. \A i \in 1 .. Len(s) : s[i] \in FrameSet
  OBVIOUS
<1>2. \A n \in Names : version[n] \in Int /\ version'[n] \in Int
  <2>1. version \in [Names -> Versions] /\ version' \in [Names -> Versions']
    BY DEF TypeOK
  <2>2. Versions' = Versions
    BY DEF Versions
  <2>. QED
    BY <2>1, <2>2, VersionsAreNumbers
<1>3. ASSUME NEW i \in 1 .. Len(s), s[i].fn # Inline
      PROVE  s[i].ver \in 1 .. version'[s[i].fn] /\ s[i].calls \subseteq Deps[s[i].fn]
  <2>1. s[i].ver \in 1 .. version[s[i].fn] /\ s[i].calls \subseteq Deps[s[i].fn]
    BY <1>3 DEF StackOK
  <2>2. s[i].fn \in Names
    BY <1>1, <1>3 DEF FrameSet
  <2>. QED
    BY <2>1, <2>2, <1>2
<1>4. \A i \in 1 .. Len(s) : i > 1 => HasCalled(s[i - 1], s[i].fn)
  BY DEF StackOK
<1>. QED
  BY <1>3, <1>4 DEF StackOK, HasCalled

--------------------------------------------------------------------------------
\* A thread's step: what it leaves to the others, and what it owes.
LEMMA ThreadKeepsRuns ==
    ASSUME IInv, RunsInv, NEW t \in Threads, UNCHANGED store,
           \A a \in Actors \ {t} : pc'[a] = pc[a] /\ want'[a] = want[a] /\ src'[a] = src[a],
           \A u \in Threads \ {t} : frames'[u] = frames[u],
           \/ compiled' = compiled
           \/ pc[t] = "resolve" /\ compiled' = [compiled EXCEPT ![want[t]] = src[t]],
           pc'[t] = "resolve" => src'[t] \in 1 .. version[want'[t]],
           StackOK(frames'[t]), LookingFor(t)'
    PROVE  RunsInv'
<1>1. stored' = stored /\ version' = version
  BY DEF store
<1>2. \A n \in Names : stored'[n] <= version'[n] /\ compiled'[n] <= version'[n]
  <2>1. CASE compiled' = compiled
    BY <2>1, <1>1 DEF RunsInv, Published
  <2>2. CASE pc[t] = "resolve" /\ compiled' = [compiled EXCEPT ![want[t]] = src[t]]
    <3>0. src[t] \in 1 .. version[want[t]] /\ want[t] \in Names
      BY <2>2 DEF RunsInv, Published, IInv, PlaceInv, Actors
    <3>1. version[want[t]] \in Nat
      BY <3>0, VersionsAreNumbers DEF IInv, TypeOK
    <3>2. \A n \in Names : compiled'[n] = IF n = want[t] THEN src[t] ELSE compiled[n]
      BY <2>2 DEF IInv, TypeOK
    <3>. QED
      BY <3>0, <3>1, <3>2, <1>1 DEF RunsInv, Published
  <2>. QED
    BY <2>1, <2>2
<1>3. ASSUME NEW a \in Actors, pc'[a] = "resolve"
      PROVE  src'[a] \in 1 .. version'[want'[a]]
  BY <1>1, <1>3 DEF RunsInv, Published
<1>4. Published'
  BY <1>2, <1>3 DEF Published
<1>5. ASSUME NEW u \in Threads, u # t
      PROVE  StackOK(frames'[u]) /\ LookingFor(u)'
  BY <1>5 DEF RunsInv, Calls, LookingFor, HasCalled, Actors
<1>6. \A u \in Threads : StackOK(frames'[u]) /\ LookingFor(u)'
  BY <1>5
<1>7. Calls'
  BY <1>1, <1>6 DEF Calls, StackOK, HasCalled
<1>. QED
  BY <1>4, <1>7 DEF RunsInv

\* A host's step: publishing adds versions, and what it tells the registry is published.
LEMMA HostKeepsRuns ==
    ASSUME IInv, IInv', RunsInv, NEW h \in Hosts, frames' = frames,
           \A a \in Actors \ {h} : pc'[a] = pc[a] /\ want'[a] = want[a] /\ src'[a] = src[a],
           \A n \in Names : version[n] <= version'[n] /\ stored'[n] <= version'[n] /\ compiled'[n] <= version'[n],
           pc'[h] = "resolve" => src'[h] \in 1 .. version'[want'[h]]
    PROVE  RunsInv'
<1>1. ASSUME NEW a \in Actors, pc'[a] = "resolve"
      PROVE  src'[a] \in 1 .. version'[want'[a]]
  <2>1. CASE a = h
    BY <1>1, <2>1
  <2>2. CASE a # h
    <3>1. src[a] \in 1 .. version[want[a]] /\ want[a] \in Names /\ want'[a] = want[a] /\ src'[a] = src[a]
      BY <1>1, <2>2 DEF RunsInv, Published, IInv, PlaceInv
    <3>2. version[want[a]] \in Nat /\ version'[want[a]] \in Nat /\ version[want[a]] <= version'[want[a]]
      BY <3>1, VersionsAreNumbers DEF IInv, TypeOK
    <3>. QED
      BY <3>1, <3>2
  <2>. QED
    BY <2>1, <2>2
<1>2. Published'
  BY <1>1 DEF Published
<1>3. ASSUME NEW t \in Threads PROVE StackOK(frames[t])'
  <2>1. StackOK(frames[t]) /\ frames[t] \in Seq(FrameSet)
    BY DEF RunsInv, Calls, IInv, TypeOK, FrameSet
  <2>2. \A s : s = frames[t] => StackOK(s)'
    BY <2>1, OlderStack DEF IInv
  <2>. QED
    BY <2>2
<1>4. ASSUME NEW t \in Threads PROVE LookingFor(t)'
  BY ActorsAssumption DEF RunsInv, Calls, LookingFor, HasCalled, Actors
<1>. QED
  BY <1>2, <1>3, <1>4 DEF RunsInv, Calls

--------------------------------------------------------------------------------
\* An execution that has ended has no frames.
LEMMA AbortLeavesNothing ==
    ASSUME IInv, NEW t \in Threads, NEW why, Abort(t, why)
    PROVE  /\ StackOK(frames'[t]) /\ LookingFor(t)' /\ pc'[t] = "idle"
           /\ \A a \in Actors \ {t} : pc'[a] = pc[a]
           /\ \A u \in Threads \ {t} : frames'[u] = frames[u]
<1>1. pc' = [pc EXCEPT ![t] = "idle"] /\ frames' = [frames EXCEPT ![t] = <<>>] /\ t \in Actors
  BY AbortFacts DEF IInv, Actors
<1>2. pc'[t] = "idle" /\ frames'[t] = <<>>
  BY <1>1 DEF IInv, TypeOK
<1>. QED
  BY <1>1, <1>2, EmptyStack DEF LookingFor, IInv, TypeOK

\* A function that is entered is the one that was looked for, in the version cached.
LEMMA EnterKeepsStack ==
    ASSUME IInv, RunsInv, NEW t \in Threads, pc[t] \in {"lookup", "reread"},
           compiled[want[t]] # 0, Enter(t, compiled[want[t]])
    PROVE  /\ StackOK(frames'[t]) /\ LookingFor(t)' /\ pc'[t] \in {"idle", "run"}
           /\ \A a \in Actors \ {t} : pc'[a] = pc[a]
           /\ \A u \in Threads \ {t} : frames'[u] = frames[u]
<1> DEFINE n == want[t]
           v == compiled[n]
           new == Frame(n, v, Deps[n])
<1>1. CASE MaxDepth > 0 /\ Len(frames[t]) > MaxDepth
  <2>1. Abort(t, "too deep")
    BY <1>1 DEF Enter
  <2>. QED
    BY <2>1, AbortLeavesNothing
<1>2. CASE ~(MaxDepth > 0 /\ Len(frames[t]) > MaxDepth)
  <2>1. frames' = [frames EXCEPT ![t] = Append(@, new)] /\ pc' = [pc EXCEPT ![t] = "run"]
    BY <1>2 DEF Enter, Goto
  <2>2. n \in Names /\ v \in Versions /\ v <= version[n] /\ version[n] \in Versions /\ v # 0 /\ t \in Actors
    BY DEF IInv, PlaceInv, TypeOK, RunsInv, Published, Actors
  <2>3. v \in 1 .. version[n]
    BY <2>2, VersionsAreNumbers
  <2>4. new \in FrameSet /\ new.fn = n /\ new.ver = v /\ new.calls = Deps[n]
    BY <2>2, DepsAssumption DEF Frame, FrameSet
  <2>5. frames \in [Threads -> Seq(FrameSet)] /\ pc \in [Actors -> Places]
    BY DEF IInv, TypeOK, FrameSet, Places
  <2>6. StackOK(frames[t]) /\ LookingFor(t)
    BY DEF RunsInv, Calls
  <2>7. Len(frames[t]) > 0 => HasCalled(frames[t][Len(frames[t])], n)
    BY <2>6 DEF LookingFor
  <2> HIDE DEF n, v, new
  <2>8. StackOK(Append(frames[t], new))
    BY <2>3, <2>4, <2>5, <2>6, <2>7, PushedStack
  <2>9. frames'[t] = Append(frames[t], new) /\ pc'[t] = "run"
    BY <2>1, <2>2, <2>5
  <2>. QED
    BY <2>1, <2>5, <2>8, <2>9 DEF LookingFor
<1>. QED
  BY <1>1, <1>2

LEMMA GetCompiledKeepsRuns ==
    ASSUME IInv, RunsInv, NEW t \in Threads,
           LookupHit(t) \/ LookupMiss(t) \/ Load(t) \/ LoadFails(t) \/ Cache(t) \/ Reread(t)
    PROVE  RunsInv'
<1>1. /\ t \in Actors /\ pc \in [Actors -> Places] /\ src \in [Actors -> Versions]
      /\ StackOK(frames[t]) /\ LookingFor(t)
      /\ pc[t] \in {"lookup", "load", "resolve", "reread"} => want[t] \in Names
  BY DEF IInv, PlaceInv, TypeOK, RunsInv, Calls, Actors, Places
<1>2. CASE LookupHit(t) \/ Reread(t)
  <2>1. /\ UNCHANGED <<store, compiled, want, src, todo, history>>
        /\ \/ compiled[want[t]] # 0 /\ Enter(t, compiled[want[t]])
           \/ Abort(t, "not found")
        /\ pc[t] \in {"lookup", "reread"}
    BY <1>2 DEF LookupHit, Reread
  <2>2. /\ StackOK(frames'[t]) /\ LookingFor(t)' /\ pc'[t] \in {"idle", "run"}
        /\ \A a \in Actors \ {t} : pc'[a] = pc[a]
        /\ \A u \in Threads \ {t} : frames'[u] = frames[u]
    BY <2>1, EnterKeepsStack, AbortLeavesNothing
  <2>. QED
    BY <2>1, <2>2, ThreadKeepsRuns
<1>3. CASE LookupMiss(t)
  <2>1. LookingFor(t)'
    BY <1>1, <1>3 DEF LookupMiss, Goto, LookingFor
  <2>. QED
    BY <1>1, <1>3, <2>1, ThreadKeepsRuns DEF LookupMiss, Goto
<1>4. CASE Load(t)
  <2>1. LookingFor(t)'
    BY <1>1, <1>4 DEF Load, Goto, LookingFor
  <2>2. stored[want[t]] \in 1 .. version[want[t]]
    <3>1. stored[want[t]] \in Versions /\ version[want[t]] \in Versions
          /\ stored[want[t]] # 0 /\ stored[want[t]] <= version[want[t]]
      BY <1>1, <1>4 DEF Load, IInv, TypeOK, RunsInv, Published
    <3>. QED
      BY <3>1, VersionsAreNumbers
  <2>3. src'[t] \in 1 .. version[want'[t]]
    BY <1>1, <1>4, <2>2 DEF Load
  <2>. QED
    BY <1>1, <1>4, <2>1, <2>3, ThreadKeepsRuns DEF Load, Goto
<1>5. CASE LoadFails(t)
  <2>1. Abort(t, "not found") /\ UNCHANGED <<store, compiled, want, src, todo, history>>
    BY <1>5 DEF LoadFails
  <2>2. /\ StackOK(frames'[t]) /\ LookingFor(t)' /\ pc'[t] = "idle"
        /\ \A a \in Actors \ {t} : pc'[a] = pc[a]
        /\ \A u \in Threads \ {t} : frames'[u] = frames[u]
    BY <2>1, AbortLeavesNothing
  <2>. QED
    BY <2>1, <2>2, ThreadKeepsRuns
<1>6. CASE Cache(t)
  <2>1. LookingFor(t)'
    BY <1>1, <1>6 DEF Cache, Goto, LookingFor
  <2>. QED
    BY <1>1, <1>6, <2>1, ThreadKeepsRuns DEF Cache, Goto
<1>. QED
  BY <1>2, <1>3, <1>4, <1>5, <1>6

LEMMA ResolveKeepsRuns ==
    ASSUME IInv, RunsInv, NEW a \in Actors, NEW d \in Names, Resolve(a, d)
    PROVE  RunsInv'
BY DEF Resolve, store, RunsInv, Published, Calls, StackOK, HasCalled, LookingFor

LEMMA ResolveFailsKeepsRuns ==
    ASSUME IInv, RunsInv, NEW t \in Threads, NEW d \in Names, ResolveFails(t, d)
    PROVE  RunsInv'
<1>1. /\ Abort(t, "not found") /\ UNCHANGED <<store, compiled, want, history>>
      /\ src' = [src EXCEPT ![t] = 0]
  BY DEF ResolveFails
<1>2. /\ StackOK(frames'[t]) /\ LookingFor(t)' /\ pc'[t] = "idle"
      /\ \A a \in Actors \ {t} : pc'[a] = pc[a]
      /\ \A u \in Threads \ {t} : frames'[u] = frames[u]
  BY <1>1, AbortLeavesNothing
<1>. QED
  BY <1>1, <1>2, ThreadKeepsRuns DEF IInv, TypeOK

LEMMA ExecuteKeepsRuns ==
    ASSUME IInv, RunsInv, NEW t \in Threads, NEW n \in Names, Execute(t, n)
    PROVE  RunsInv'
<1>1. frames[t] = <<>> /\ t \in Actors /\ pc \in [Actors -> Places] /\ want' = [want EXCEPT ![t] = n]
      /\ pc[t] = "idle" /\ pc' = [pc EXCEPT ![t] = "lookup"] /\ frames' = frames
      /\ UNCHANGED <<store, compiled, src>>
  BY DEF Execute, Goto, RunsInv, Calls, LookingFor, IInv, TypeOK, Actors, Places
<1>2. LookingFor(t)' /\ StackOK(frames'[t]) /\ pc'[t] = "lookup"
  BY <1>1, EmptyStack DEF LookingFor
<1>. QED
  BY <1>1, <1>2, ThreadKeepsRuns DEF IInv, TypeOK

LEMMA CallDepKeepsRuns ==
    ASSUME IInv, RunsInv, NEW t \in Threads, NEW d \in Names, CallDep(t, d)
    PROVE  RunsInv'
<1> DEFINE s == frames[t]
           u == [s EXCEPT ![Len(s)].calls = @ \ {d}]
<1>1. /\ s \in Seq(FrameSet) /\ Len(s) > 0 /\ t \in Actors /\ StackOK(s)
      /\ frames \in [Threads -> Seq(FrameSet)] /\ pc \in [Actors -> Places]
  BY RunningFacts DEF CallDep, RunsInv, Calls
<1>2. d \in s[Len(s)].calls
  BY DEF CallDep, Top
<1>3. StackOK(u) /\ Len(u) = Len(s) /\ HasCalled(u[Len(u)], d)
  BY <1>1, <1>2, CalledStack
<1>4. frames'[t] = u /\ \A v \in Threads \ {t} : frames'[v] = frames[v]
  BY <1>1 DEF CallDep
<1>5. /\ pc' = [pc EXCEPT ![t] = "lookup"] /\ want' = [want EXCEPT ![t] = d]
      /\ UNCHANGED <<store, compiled, src>>
  BY DEF CallDep, Goto
<1>6. pc'[t] = "lookup" /\ want'[t] = d
  BY <1>1, <1>5 DEF IInv, TypeOK
<1> HIDE DEF u
<1>7. LookingFor(t)'
  BY <1>3, <1>4, <1>6 DEF LookingFor, HasCalled
<1>. QED
  BY <1>1, <1>3, <1>4, <1>5, <1>6, <1>7, ThreadKeepsRuns DEF IInv, TypeOK

LEMMA ReturnKeepsRuns ==
    ASSUME IInv, RunsInv, NEW t \in Threads, Return(t)
    PROVE  RunsInv'
<1> DEFINE s == frames[t]
           u == SubSeq(s, 1, Len(s) - 1)
<1>1. /\ s \in Seq(FrameSet) /\ Len(s) > 0 /\ t \in Actors /\ StackOK(s) /\ Len(s) \in Nat
      /\ frames \in [Threads -> Seq(FrameSet)] /\ pc \in [Actors -> Places]
  BY RunningFacts DEF Return, RunsInv, Calls
<1>2. u \in Seq(FrameSet) /\ Len(u) = Len(s) - 1 /\ StackOK(u)
  BY <1>1, PoppedStack
<1>3. frames'[t] = u /\ \A v \in Threads \ {t} : frames'[v] = frames[v]
  BY <1>1 DEF Return
<1>4. /\ UNCHANGED <<store, compiled, want, src>>
      /\ pc[t] = "run"
      /\ IF Len(s) = 1 THEN pc' = [pc EXCEPT ![t] = "idle"] ELSE pc' = pc
  BY DEF Return, Goto
<1> HIDE DEF u
<1>5. /\ \A a \in Actors \ {t} : pc'[a] = pc[a]
      /\ pc'[t] \in {"idle", "run"} /\ (pc'[t] = "idle" => Len(u) = 0)
  BY <1>1, <1>2, <1>4
<1>6. Len(u) = 0 => u = <<>>
  BY <1>2, EmptySeq
<1>7. LookingFor(t)'
  BY <1>3, <1>5, <1>6 DEF LookingFor
<1>. QED
  BY <1>2, <1>3, <1>4, <1>5, <1>7, ThreadKeepsRuns

LEMMA ExecuteInlineKeepsRuns ==
    ASSUME IInv, RunsInv, NEW t \in Threads, NEW ds \in InlineDeps, ExecuteInline(t, ds)
    PROVE  RunsInv'
<1> DEFINE s == <<Frame(Inline, 0, ds)>>
<1>1. /\ pc' = [pc EXCEPT ![t] = "inline"] /\ frames' = [frames EXCEPT ![t] = s]
      /\ want' = [want EXCEPT ![t] = Inline] /\ UNCHANGED <<store, compiled, src>> /\ t \in Actors
  BY DEF ExecuteInline, Goto, Actors
<1>2. StackOK(s)
  BY DEF StackOK, Frame
<1>3. pc'[t] = "inline" /\ frames'[t] = s
  BY <1>1 DEF IInv, TypeOK
<1>4. LookingFor(t)'
  BY <1>3 DEF LookingFor
<1>. QED
  BY <1>1, <1>2, <1>3, <1>4, ThreadKeepsRuns DEF IInv, TypeOK

LEMMA InlineKeepsRuns ==
    ASSUME IInv, RunsInv, NEW t \in Threads, RunInline(t) \/ \E d \in Names : ResolveInline(t, d)
    PROVE  RunsInv'
<1>1. UNCHANGED <<store, compiled, want, src>> /\ pc[t] = "inline" /\ t \in Actors
  BY DEF ResolveInline, RunInline, Actors
<1>2. /\ StackOK(frames'[t]) /\ LookingFor(t)' /\ pc'[t] # "resolve"
      /\ \A a \in Actors \ {t} : pc'[a] = pc[a]
      /\ \A u \in Threads \ {t} : frames'[u] = frames[u]
  <2>1. ASSUME NEW d \in Names, ResolveInline(t, d), compiled[d] = 0
        PROVE  Abort(t, "rejected")
    BY <2>1 DEF ResolveInline
  <2>2. ASSUME NEW d \in Names, ResolveInline(t, d), compiled[d] # 0
        PROVE  /\ StackOK(frames'[t]) /\ LookingFor(t)' /\ pc'[t] # "resolve"
               /\ pc' = pc /\ frames' = frames
    BY <2>2, <1>1 DEF ResolveInline, RunsInv, Calls, LookingFor, HasCalled
  <2>3. CASE RunInline(t)
    BY <2>3, <1>1 DEF RunInline, Goto, RunsInv, Calls, LookingFor, HasCalled, IInv, TypeOK
  <2>. QED
    BY <2>1, <2>2, <2>3, AbortLeavesNothing
<1>. QED
  BY <1>1, <1>2, ThreadKeepsRuns

--------------------------------------------------------------------------------
\* The host publishes a version after the last one, or takes the stored one away.
LEMMA PublishKeepsRuns ==
    ASSUME IInv, IInv', RunsInv, NEW h \in Hosts, NEW n \in Names, NEW next \in {"invalidate", "resolve"},
           Publish(h, n, next)
    PROVE  RunsInv'
<1> DEFINE v == version[n] + 1
<1>1. /\ pc' = [pc EXCEPT ![h] = next] /\ want' = [want EXCEPT ![h] = n]
      /\ version' = [version EXCEPT ![n] = v] /\ stored' = [stored EXCEPT ![n] = v]
      /\ src' = [src EXCEPT ![h] = IF next = "resolve" THEN v ELSE 0]
      /\ UNCHANGED <<compiled, frames>> /\ h \in Actors
  BY DEF Publish, Goto, IInv, TypeOK, Actors
<1>2. \A m \in Names : version[m] \in Nat /\ stored[m] <= version[m] /\ compiled[m] <= version[m]
                       /\ compiled[m] \in Nat /\ stored[m] \in Nat
  BY VersionsAreNumbers DEF IInv, TypeOK, RunsInv, Published
<1>3. \A m \in Names : /\ version'[m] = IF m = n THEN v ELSE version[m]
                       /\ stored'[m] = IF m = n THEN v ELSE stored[m]
  BY <1>1 DEF IInv, TypeOK
<1>4. \A m \in Names : version[m] <= version'[m] /\ stored'[m] <= version'[m] /\ compiled'[m] <= version'[m]
  BY <1>1, <1>2, <1>3
<1>5. pc'[h] = next /\ want'[h] = n /\ (next = "resolve" => src'[h] = v)
  BY <1>1 DEF IInv, TypeOK
<1>6. v \in 1 .. version'[n]
  BY <1>2, <1>3
<1>. QED
  BY <1>1, <1>4, <1>5, <1>6, HostKeepsRuns DEF IInv, TypeOK

LEMMA DeleteKeepsRuns ==
    ASSUME IInv, IInv', RunsInv, NEW h \in Hosts, NEW n \in Names, Delete(h, n)
    PROVE  RunsInv'
<1>1. /\ pc' = [pc EXCEPT ![h] = "invalidate"] /\ want' = [want EXCEPT ![h] = n]
      /\ stored' = [stored EXCEPT ![n] = 0] /\ UNCHANGED <<version, compiled, src, frames>> /\ h \in Actors
  BY DEF Delete, Goto, Actors
<1>2. \A m \in Names : version[m] \in Nat /\ stored[m] <= version[m] /\ compiled[m] <= version[m]
  BY VersionsAreNumbers DEF IInv, TypeOK, RunsInv, Published
<1>3. \A m \in Names : stored'[m] = IF m = n THEN 0 ELSE stored[m]
  BY <1>1 DEF IInv, TypeOK
<1>4. \A m \in Names : version[m] <= version'[m] /\ stored'[m] <= version'[m] /\ compiled'[m] <= version'[m]
  BY <1>1, <1>2, <1>3
<1>5. pc'[h] = "invalidate"
  BY <1>1 DEF IInv, TypeOK
<1>. QED
  BY <1>1, <1>4, <1>5, HostKeepsRuns DEF IInv, TypeOK

\* The registry is told: what it caches is what the host published, or nothing.
LEMMA ToldKeepsRuns ==
    ASSUME IInv, IInv', RunsInv, NEW h \in Hosts,
           Invalidate(h) \/ Register(h) \/ \E d \in Names : RegisterFails(h, d)
    PROVE  RunsInv'
<1> DEFINE n == want[h]
<1>1. /\ pc' = [pc EXCEPT ![h] = "idle"] /\ UNCHANGED <<stored, version, want, frames>> /\ h \in Actors
      /\ n \in Names
      /\ \/ src' = src
         \/ src' = [src EXCEPT ![h] = 0]
      /\ \/ compiled' = compiled
         \/ compiled' = [compiled EXCEPT ![n] = 0]
         \/ compiled' = [compiled EXCEPT ![n] = src[h]] /\ src[h] \in 1 .. version[n]
  <2>1. h \in Actors /\ (pc[h] \in {"resolve", "invalidate"} => n \in Names)
    BY DEF IInv, PlaceInv, Actors
  <2>2. pc[h] = "resolve" => src[h] \in 1 .. version[n]
    BY <2>1 DEF RunsInv, Published
  <2>. QED
    BY <2>1, <2>2 DEF Invalidate, Register, RegisterFails, Goto, store
<1>2. \A m \in Names : version[m] \in Nat /\ stored[m] <= version[m] /\ compiled[m] <= version[m]
  BY VersionsAreNumbers DEF IInv, TypeOK, RunsInv, Published
<1>3. \A m \in Names : compiled'[m] <= version[m]
  <2>1. \A m \in Names : m # n => compiled'[m] = compiled[m]
    BY <1>1 DEF IInv, TypeOK
  <2>2. compiled'[n] = compiled[n] \/ compiled'[n] = 0 \/ compiled'[n] \in 1 .. version[n]
    BY <1>1 DEF IInv, TypeOK
  <2>. QED
    BY <1>1, <1>2, <2>1, <2>2
<1>4. \A m \in Names : version[m] <= version'[m] /\ stored'[m] <= version'[m] /\ compiled'[m] <= version'[m]
  BY <1>1, <1>2, <1>3
<1>5. pc'[h] = "idle" /\ \A a \in Actors \ {h} : pc'[a] = pc[a] /\ want'[a] = want[a] /\ src'[a] = src[a]
  BY <1>1 DEF IInv, TypeOK
<1>. QED
  BY <1>1, <1>4, <1>5, HostKeepsRuns

LEMMA InitRuns == Init => RunsInv
<1> SUFFICES ASSUME Init PROVE RunsInv
  OBVIOUS
<1>1. Published
  BY BoundAssumption DEF Init, Published
<1>2. \A t \in Threads : frames[t] = <<>> /\ LookingFor(t)
  BY DEF Init, LookingFor, Actors
<1>. QED
  BY <1>1, <1>2, EmptyStack DEF RunsInv, Calls

LEMMA StepKeepsRuns == IInv /\ IInv' /\ RunsInv /\ [Next]_vars => RunsInv'
<1> SUFFICES ASSUME IInv, IInv', RunsInv, [Next]_vars PROVE RunsInv'
  OBVIOUS
<1>1. ASSUME NEW t \in Threads, Begin(t) PROVE RunsInv'
  BY <1>1, ExecuteKeepsRuns, ExecuteInlineKeepsRuns DEF Begin
<1>2. ASSUME NEW t \in Threads, Step(t) PROVE RunsInv'
  <2>1. CASE LookupHit(t) \/ LookupMiss(t) \/ Load(t) \/ LoadFails(t) \/ Cache(t) \/ Reread(t)
    BY <2>1, GetCompiledKeepsRuns
  <2>2. CASE Return(t)
    BY <2>2, ReturnKeepsRuns
  <2>3. CASE RunInline(t) \/ \E d \in Names : ResolveInline(t, d)
    BY <2>3, InlineKeepsRuns
  <2>4. CASE \E d \in Names : Resolve(t, d) \/ ResolveFails(t, d) \/ CallDep(t, d)
    BY <2>4, ResolveKeepsRuns, ResolveFailsKeepsRuns, CallDepKeepsRuns DEF Actors
  <2>. QED
    BY <1>2, <2>1, <2>2, <2>3, <2>4 DEF Step
<1>3. ASSUME NEW h \in Hosts, HostStep(h) PROVE RunsInv'
  <2>1. CASE \E n \in Names : Delete(h, n) \/ \E next \in {"invalidate", "resolve"} : Publish(h, n, next)
    BY <2>1, DeleteKeepsRuns, PublishKeepsRuns
  <2>2. CASE Invalidate(h) \/ Register(h) \/ \E d \in Names : RegisterFails(h, d)
    BY <2>2, ToldKeepsRuns
  <2>3. CASE \E d \in Names : Resolve(h, d)
    BY <2>3, ResolveKeepsRuns DEF Actors
  <2>. QED
    BY <1>3, <2>1, <2>2, <2>3 DEF HostStep
<1>4. CASE UNCHANGED vars
  BY <1>4 DEF vars, store, local, RunsInv, Published, Calls, StackOK, LookingFor, HasCalled
<1>. QED
  BY <1>1, <1>2, <1>3, <1>4 DEF Next

--------------------------------------------------------------------------------
\* The cache is told of a name that a thread is about to read again: the thread is
\* marked.  Nothing else takes an entry away.
LEMMA FoundKept ==
    ASSUME ~LoaderMayFail, ~CanDelete, IInv, RunsInv, FoundInv, [Next]_vars
    PROVE  FoundInv'
<1>1. /\ \A n \in Names : stored[n] # 0
      /\ StillCached /\ NotFoundOnlyWhenDropped
      /\ \A n \in Names : ~LoaderMisses(n)
  BY DEF FoundInv, LoaderMisses
<1>2. /\ pc \in [Actors -> Places] /\ want \in [Actors -> Names \cup {NoName, Inline}]
      /\ compiled \in [Names -> Versions] /\ outcome \in [Threads -> Outcomes]
      /\ stored \in [Names -> Versions] /\ version \in [Names -> Versions]
      /\ \A a \in Actors : pc[a] \in {"lookup", "load", "resolve", "reread", "invalidate"} => want[a] \in Names
  BY DEF IInv, PlaceInv, TypeOK, Places, Outcomes
<1>3. \A a \in Actors : pc[a] = "resolve" => src[a] # 0
  BY DEF RunsInv, Published
<1>4. ASSUME NEW t \in Threads, Begin(t) PROVE FoundInv'
  <2>1. t \in Actors
    BY DEF Actors
  <2>. QED
    BY <1>1, <1>2, <1>4, <2>1 DEF Begin, Execute, ExecuteInline, Goto, FoundInv, StillCached,
                             NotFoundOnlyWhenDropped, store, Actors
<1>5. ASSUME NEW t \in Threads, Step(t) PROVE FoundInv'
  <2>1. t \in Actors /\ (pc[t] \in {"lookup", "load", "resolve", "reread"} => want[t] \in Names)
    BY <1>2 DEF Actors
  <2>2. \A u \in Threads : u \in Actors
    BY DEF Actors
  <2> USE DEF FoundInv, StillCached, NotFoundOnlyWhenDropped
  <2>3. CASE LookupHit(t)
    BY <1>1, <1>2, <2>1, <2>2, <2>3 DEF LookupHit, Enter, Abort, Goto, store, history
  <2>4. CASE LookupMiss(t) \/ Load(t)
    BY <1>1, <1>2, <2>1, <2>2, <2>4 DEF LookupMiss, Load, Goto, store, history
  <2>5. CASE LoadFails(t) \/ \E d \in Names : ResolveFails(t, d)
    BY <1>1, <2>1, <2>5 DEF LoadFails, ResolveFails
  <2>6. CASE Cache(t)
    BY <1>1, <1>2, <1>3, <2>1, <2>2, <2>6 DEF Cache, Goto, store, history
  <2>7. CASE Reread(t)
    <3>1. CASE compiled[want[t]] # 0
      BY <1>1, <1>2, <2>1, <2>2, <2>7, <3>1 DEF Reread, Enter, Abort, Goto, store, history
    <3>2. CASE compiled[want[t]] = 0
      <4>1. t \in dropped
        BY <1>1, <2>7, <3>2 DEF Reread
      <4>. QED
        BY <1>1, <1>2, <2>1, <2>2, <2>7, <3>2, <4>1 DEF Reread, Abort, Goto, store, history
    <3>. QED
      BY <3>1, <3>2
  <2>8. CASE Return(t)
    BY <1>1, <1>2, <2>1, <2>2, <2>8 DEF Return, Goto, store, history
  <2>9. CASE RunInline(t) \/ \E d \in Names : ResolveInline(t, d)
    BY <1>1, <1>2, <2>1, <2>2, <2>9 DEF RunInline, ResolveInline, Abort, Goto, store, history
  <2>10. CASE \E d \in Names : Resolve(t, d)
    BY <1>1, <2>10 DEF Resolve, store, history
  <2>11. CASE \E d \in Names : CallDep(t, d)
    BY <1>1, <1>2, <2>1, <2>2, <2>11 DEF CallDep, Goto, store, history
  <2>. QED
    BY <1>5, <2>3, <2>4, <2>5, <2>6, <2>7, <2>8, <2>9, <2>10, <2>11 DEF Step
<1>6. ASSUME NEW h \in Hosts, HostStep(h) PROVE FoundInv'
  <2>1. h \in Actors /\ h \notin Threads /\ (pc[h] \in {"resolve", "invalidate"} => want[h] \in Names)
    BY <1>2, ActorsAssumption DEF Actors
  <2>2. \A u \in Threads : u \in Actors /\ u # h
    BY <2>1 DEF Actors
  <2> USE DEF FoundInv, StillCached, NotFoundOnlyWhenDropped
  <2>3. CASE \E n \in Names : Delete(h, n)
    BY <2>3 DEF Delete
  <2>4. ASSUME NEW n \in Names, NEW next \in {"invalidate", "resolve"}, Publish(h, n, next)
        PROVE  FoundInv'
    <3>0. version[n] \in Nat
      <4>1. version[n] \in Versions
        BY <1>2
      <4>. QED
        BY <4>1, VersionsAreNumbers
    <3>1. version[n] + 1 # 0
      BY <3>0, NextVersionIsOne
    <3>2. \A m \in Names : stored'[m] = IF m = n THEN version[n] + 1 ELSE stored[m]
      BY <1>2, <2>4 DEF Publish
    <3>3. \A m \in Names : stored'[m] # 0
      BY <1>1, <3>1, <3>2
    <3>4. StillCached' /\ NotFoundOnlyWhenDropped'
      BY <1>1, <1>2, <2>1, <2>2, <2>4 DEF Publish, Goto, history
    <3>. QED
      BY <3>3, <3>4
  <2>5. CASE Invalidate(h)
    BY <1>1, <1>2, <2>1, <2>2, <2>5 DEF Invalidate, Goto, store
  <2>6. CASE Register(h)
    BY <1>1, <1>2, <1>3, <2>1, <2>2, <2>6 DEF Register, Goto, store
  <2>7. CASE \E d \in Names : Resolve(h, d) \/ RegisterFails(h, d)
    BY <1>1, <1>2, <2>1, <2>2, <2>7 DEF Resolve, RegisterFails, Goto, store, history
  <2>. QED
    BY <1>6, <2>3, <2>4, <2>5, <2>6, <2>7 DEF HostStep
<1>7. CASE UNCHANGED vars
  BY <1>1, <1>7 DEF vars, store, local, history, FoundInv, StillCached, NotFoundOnlyWhenDropped
<1>. QED
  BY <1>4, <1>5, <1>6, <1>7 DEF Next

--------------------------------------------------------------------------------
\* What executions run and look for, for any functions, goroutines and publications.
THEOREM CallsInvariant == Spec => []RunsInv
  BY RegistryInvariant, InitRuns, StepKeepsRuns, PTL DEF Spec

\* GetCompiled (registry/registry.go) never hands out one name's function for
\* another's, nor a source that was not published: every frame runs a published
\* version of a function that the body below it names and calls.
THEOREM RunsWhatWasPublished == Spec => []RunsPublishedVersion
<1>1. RunsInv => RunsPublishedVersion
  BY DEF RunsInv, Calls, StackOK, HasCalled, RunsPublishedVersion
<1>. QED
  BY <1>1, CallsInvariant, PTL

\* With every function stored and none deleted, and a loader that does not fail,
\* an execution ends "not found" only when an Invalidate came between Register
\* and the second look that GetCompiled takes into the map.
THEOREM NotFoundMeansDropped ==
    ASSUME ~LoaderMayFail, ~CanDelete, MaxVersion > 0
    PROVE  Spec => []NotFoundOnlyWhenDropped
<1>1. Init => FoundInv
  BY DEF Init, FoundInv, StillCached, NotFoundOnlyWhenDropped, Actors
<1>2. IInv /\ RunsInv /\ FoundInv /\ [Next]_vars => FoundInv'
  BY FoundKept
<1>3. FoundInv => NotFoundOnlyWhenDropped
  BY DEF FoundInv
<1>. QED
  BY <1>1, <1>2, <1>3, RegistryInvariant, CallsInvariant, PTL DEF Spec
================================================================================
