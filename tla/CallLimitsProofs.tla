--------------------------- MODULE CallLimitsProofs ----------------------------
(***************************************************************************)
(* The limits of an execution, for any functions, limits and bounds: every *)
(* activation and every lambda has the execution's own start, so nothing   *)
(* starts past the deadline; and outside lambdas the context is the host's *)
(* with the authority of the function that runs.  The depth counter is the *)
(* number of nested calls, by an invariant of its own over the levels that *)
(* the activations and the lambdas keep.                                   *)
(***************************************************************************)
EXTENDS CallLimits, SequenceTheorems, FiniteSetTheorems, TLAPS

FrameSet == [kind : Kinds, fn : Functions \cup {Root}, depth : Nat, start : Nat,
             ctx : Contexts, level : Levels]
ClosureSet == [depth : Nat, start : Nat, level : Levels]

\* An execution is running exactly when it has an activation.
Running == mode \in {"eval", "raise"} => Len(frames) > 0

\* Starts are handed on: by calls, by tries, and by lambdas from where they are
\* written to where they are applied.
StartsInherited ==
    /\ \A i \in 1 .. Len(frames) : frames[i].start = began
    /\ \A c \in closures : c.start = began
    /\ mode = "idle" => closures = {}

\* The outermost activation is a function's: a try is always inside one.
Rooted == Len(frames) > 0 => frames[1].kind = "fn"

IInv == TypeOK /\ Running /\ Rooted /\ StartsInherited /\ HostContextOutsideLambdas

--------------------------------------------------------------------------------
LEMMA TopFacts ==
    ASSUME IInv, Len(frames) > 0
    PROVE  /\ frames \in Seq(FrameSet) /\ Len(frames) \in Nat
           /\ Top \in FrameSet /\ Top.start = began
           /\ ~InLambda(Len(frames)) => Top.ctx = HostContext(Top.fn)
<1>1. frames \in Seq(FrameSet) /\ Len(frames) \in 1 .. Len(frames)
  BY DEF IInv, TypeOK, FrameSet
<1>2. Top \in FrameSet
  BY <1>1 DEF Top
<1>. QED
  BY <1>1, <1>2 DEF Top, IInv, StartsInherited, HostContextOutsideLambdas

\* An activation is added, with the limits of this execution.
LEMMA PushKeeps ==
    ASSUME IInv, Len(frames) > 0, NEW child \in FrameSet, frames' = Append(frames, child), began' = began,
           child.start = began,
           child.kind = "lambda" \/ InLambda(Len(frames)) \/ child.ctx = HostContext(child.fn)
    PROVE  /\ frames' \in Seq(FrameSet) /\ Len(frames') > 0
           /\ \A i \in 1 .. Len(frames') : frames'[i].start = began'
           /\ HostContextOutsideLambdas' /\ Rooted'
<1>1. frames \in Seq(FrameSet) /\ Len(frames) \in Nat
  BY DEF IInv, TypeOK, FrameSet
<1> DEFINE n == Len(frames)
<1>2. /\ frames' \in Seq(FrameSet) /\ Len(frames') = n + 1
      /\ \A i \in 1 .. n : frames'[i] = frames[i]
      /\ frames'[n + 1] = child
  BY <1>1
<1> HIDE DEF n
<1>3. n \in Nat
  BY <1>1 DEF n
<1>4. ASSUME NEW i \in 1 .. Len(frames') PROVE frames'[i].start = began'
  <2>1. CASE i = n + 1
    BY <2>1, <1>2
  <2>2. CASE i # n + 1
    <3>1. i \in 1 .. n
      BY <2>2, <1>2, <1>3
    <3>. QED
      BY <3>1, <1>2 DEF IInv, StartsInherited, n
  <2>. QED
    BY <2>1, <2>2
<1>5. ASSUME NEW i \in 1 .. Len(frames'), ~InLambda(i)'
      PROVE  frames'[i].ctx = HostContext(frames'[i].fn)
  <2>0. \A j \in 1 .. i : frames'[j].kind # "lambda"
    BY <1>5 DEF InLambda
  <2>1. CASE i = n + 1
    <3>1. child.kind # "lambda"
      BY <2>0, <2>1, <1>2, <1>3
    <3>2. ~InLambda(n)
      BY <2>0, <2>1, <1>2, <1>3 DEF InLambda
    <3>. QED
      BY <3>1, <3>2, <2>1, <1>2 DEF n
  <2>2. CASE i # n + 1
    <3>1. i \in 1 .. n
      BY <2>2, <1>2, <1>3
    <3>2. ~InLambda(i)
      BY <2>0, <3>1, <1>2, <1>3 DEF InLambda
    <3>. QED
      BY <3>1, <3>2, <1>2 DEF IInv, HostContextOutsideLambdas, n
  <2>. QED
    BY <2>1, <2>2
<1>6. HostContextOutsideLambdas'
  BY <1>5 DEF HostContextOutsideLambdas
<1>7. n > 0
  BY DEF n
<1>8. Rooted'
  BY <1>2, <1>3, <1>7 DEF IInv, Rooted, n
<1>. QED
  BY <1>2, <1>3, <1>4, <1>6, <1>8

\* The innermost activation ends.
LEMMA PopKeeps ==
    ASSUME IInv, Len(frames) > 0, frames' = Below, began' = began
    PROVE  /\ frames' \in Seq(FrameSet) /\ Len(frames') = Len(frames) - 1
           /\ \A i \in 1 .. Len(frames') : frames'[i].start = began'
           /\ HostContextOutsideLambdas' /\ Rooted'
<1>1. frames \in Seq(FrameSet) /\ Len(frames) \in Nat
  BY DEF IInv, TypeOK, FrameSet
<1> DEFINE n == Len(frames)
           s == SubSeq(frames, 1, n - 1)
<1>2. \A i \in 1 .. n : frames[i] \in FrameSet
  BY <1>1
<1>9. frames' = s
  BY DEF Below
<1>4. n \in Nat /\ n > 0
  BY <1>1
<1> HIDE DEF n
<1>3. /\ frames' \in Seq(FrameSet) /\ Len(frames') = n - 1
      /\ \A i \in 1 .. n - 1 : frames'[i] = frames[i]
  <2>1. \A i \in 1 .. n - 1 : frames[i] \in FrameSet
    BY <1>2, <1>4
  <2>2. /\ s \in Seq(FrameSet)
        /\ Len(s) = IF 1 <= n - 1 THEN (n - 1) - 1 + 1 ELSE 0
        /\ \A i \in 1 .. (n - 1) - 1 + 1 : s[i] = frames[1 + i - 1]
    BY <1>4, <2>1, SubSeqProperties
  <2>3. \A i \in 1 .. n - 1 : i \in 1 .. (n - 1) - 1 + 1 /\ 1 + i - 1 = i
    BY <1>4
  <2>. QED
    BY <1>4, <1>9, <2>2, <2>3
<1>5. \A i \in 1 .. Len(frames') : i \in 1 .. n
  BY <1>3, <1>4
<1>6. \A i \in 1 .. Len(frames') : frames'[i].start = began'
  BY <1>3, <1>5 DEF IInv, StartsInherited, n
<1>7. ASSUME NEW i \in 1 .. Len(frames'), ~InLambda(i)'
      PROVE  frames'[i].ctx = HostContext(frames'[i].fn)
  <2>1. \A j \in 1 .. i : frames'[j].kind # "lambda" /\ frames'[j] = frames[j]
    BY <1>7, <1>3, <1>4 DEF InLambda
  <2>2. ~InLambda(i)
    BY <2>1 DEF InLambda
  <2>. QED
    BY <2>2, <1>3, <1>5 DEF IInv, HostContextOutsideLambdas, n
<1>8. HostContextOutsideLambdas'
  BY <1>7 DEF HostContextOutsideLambdas
<1>10. Rooted'
  <2>. SUFFICES ASSUME Len(frames') > 0 PROVE frames'[1].kind = "fn"
    BY DEF Rooted
  <2>1. n > 0 /\ 1 \in 1 .. n - 1
    BY <1>3, <1>4
  <2>. QED
    BY <1>3, <2>1 DEF IInv, Rooted, n
<1>. QED
  BY <1>3, <1>6, <1>8, <1>10 DEF n

--------------------------------------------------------------------------------
LEMMA InitInv == Init => IInv
<1> SUFFICES ASSUME Init PROVE IInv
  OBVIOUS
<1>1. frames \in Seq(FrameSet) /\ Len(frames) = 0
  BY EmptySeq DEF Init
<1>2. TypeOK
  BY <1>1 DEF Init, TypeOK, FrameSet, Errs, NoErr
<1>. QED
  BY <1>1, <1>2 DEF Init, IInv, Running, Rooted, StartsInherited, HostContextOutsideLambdas

LEMMA ExecuteKeepsInv == ASSUME IInv, Execute PROVE IInv'
<1> DEFINE root == Frame("fn", Root, 0, clock, HostContext(Root), 0)
<1>1. /\ frames' = <<root>> /\ began' = clock /\ mode' = "eval" /\ closures = {} /\ clock \in Nat
      /\ UNCHANGED <<closures, err, clock, cancelled>>
  BY DEF Execute, IInv, StartsInherited, TypeOK
<1>2. root \in FrameSet /\ root.start = clock /\ root.ctx = HostContext(root.fn)
  BY <1>1 DEF Frame, FrameSet, Kinds, HostContext, Contexts, Levels
<1> HIDE DEF root
<1>3. /\ frames' \in Seq(FrameSet) /\ Len(frames') = 1
      /\ \A i \in 1 .. 1 : frames'[i] = root
  BY <1>1, <1>2
<1>4. TypeOK'
  BY <1>1, <1>3 DEF IInv, TypeOK, FrameSet
<1>5. root.kind = "fn"
  BY DEF root, Frame
<1>. QED
  BY <1>1, <1>2, <1>3, <1>4, <1>5 DEF IInv, Running, Rooted, StartsInherited, HostContextOutsideLambdas

\* What the errors of checkLimits are.
LEMMA LimitIsErr == \A f : Limit(f) \in Errs
  BY DEF Limit, Errs, NoErr

LEMMA EnterKeepsInv ==
    ASSUME IInv, mode = "eval", NEW child \in FrameSet, child.start = began,
           child.kind = "lambda" \/ InLambda(Len(frames)) \/ child.ctx = HostContext(child.fn),
           Enter(child), UNCHANGED <<closures, clock, began, cancelled>>
    PROVE  IInv'
<1>0. Len(frames) > 0
  BY DEF IInv, Running
<1>1. CASE Limit(child) = NoErr
  <2>1. frames' = Append(frames, child) /\ mode' = mode /\ err' = err
    BY <1>1 DEF Enter
  <2>2. /\ frames' \in Seq(FrameSet) /\ Len(frames') > 0
        /\ \A i \in 1 .. Len(frames') : frames'[i].start = began'
        /\ HostContextOutsideLambdas' /\ Rooted'
    BY <2>1, <1>0, PushKeeps
  <2>3. TypeOK'
    BY <2>1, <2>2 DEF IInv, TypeOK, FrameSet
  <2>. QED
    BY <2>1, <2>2, <2>3 DEF IInv, Running, StartsInherited
<1>2. CASE Limit(child) # NoErr
  <2>1. frames' = frames /\ mode' = "raise" /\ err' \in Errs
    BY <1>2, LimitIsErr DEF Enter, RaiseErr
  <2>2. TypeOK'
    BY <2>1 DEF IInv, TypeOK
  <2>3. HostContextOutsideLambdas'
    BY <2>1 DEF IInv, HostContextOutsideLambdas, InLambda
  <2>. QED
    BY <1>0, <2>1, <2>2, <2>3 DEF IInv, Running, Rooted, StartsInherited
<1>. QED
  BY <1>1, <1>2

LEMMA CallUserKeepsInv ==
    ASSUME IInv, NEW fn \in Functions, CallUser(fn)
    PROVE  IInv'
<1>1. /\ mode = "eval" /\ Len(frames) > 0 /\ Enter(UserFrame(fn))
      /\ UNCHANGED <<closures, clock, began, cancelled>>
  BY DEF CallUser, Evaluating, IInv, Running
<1>2. /\ Top \in FrameSet /\ Top.start = began
      /\ ~InLambda(Len(frames)) => Top.ctx = HostContext(Top.fn)
  BY <1>1, TopFacts
<1>3. EnterCapability(Top.ctx, fn) \in Contexts
  BY <1>2 DEF EnterCapability, HostContext, FrameSet, Contexts
<1>4. Top.depth + 1 \in Nat /\ Top.level \in Levels
      /\ (IF Top.level = NoLevel THEN NoLevel ELSE Top.level + 1) \in Levels
  BY <1>2 DEF FrameSet, Levels, NoLevel
<1>5. UserFrame(fn) \in FrameSet /\ UserFrame(fn).start = began
  BY <1>2, <1>3, <1>4 DEF UserFrame, Frame, FrameSet, Kinds
<1>6. InLambda(Len(frames)) \/ UserFrame(fn).ctx = HostContext(UserFrame(fn).fn)
  BY <1>2 DEF UserFrame, Frame, EnterCapability, HostContext
<1>. QED
  BY <1>1, <1>5, <1>6, EnterKeepsInv

LEMMA ApplyLambdaKeepsInv ==
    ASSUME IInv, NEW c \in closures, ApplyLambda(c)
    PROVE  IInv'
<1>1. /\ mode = "eval" /\ Len(frames) > 0 /\ Enter(LambdaFrame(c))
      /\ UNCHANGED <<closures, clock, began, cancelled>>
  BY DEF ApplyLambda, Evaluating, IInv, Running
<1>2. Top \in FrameSet /\ c \in ClosureSet /\ c.start = began
  BY <1>1, TopFacts DEF IInv, TypeOK, ClosureSet, StartsInherited
<1>3. (IF Top.level # NoLevel /\ c.level = Top.level THEN Top.level + 1 ELSE NoLevel) \in Levels
  BY <1>2 DEF FrameSet, Levels, NoLevel
<1>4. Background \in Contexts
  BY DEF Background, Contexts
<1>5. c.depth + 1 \in Nat /\ c.start \in Nat
  BY <1>2 DEF ClosureSet
<1>6. Top.fn \in Functions \cup {Root} /\ "lambda" \in Kinds
  BY <1>2 DEF FrameSet, Kinds
<1>7. LambdaFrame(c) \in FrameSet
  BY <1>3, <1>4, <1>5, <1>6 DEF LambdaFrame, Frame, FrameSet
<1>8. LambdaFrame(c).start = began /\ LambdaFrame(c).kind = "lambda"
  BY <1>2 DEF LambdaFrame, Frame
<1>. QED
  BY <1>1, <1>7, <1>8, EnterKeepsInv

LEMMA EnterTryKeepsInv ==
    ASSUME IInv, NEW kind \in {"try", "try default"}, EnterTry(kind)
    PROVE  IInv'
<1> DEFINE child == [Top EXCEPT !.kind = kind]
<1>1. /\ mode = "eval" /\ Len(frames) > 0 /\ frames' = Append(frames, child)
      /\ UNCHANGED <<closures, mode, err, clock, began, cancelled>>
  BY DEF EnterTry, Evaluating, IInv, Running
<1>2. /\ Top \in FrameSet /\ Top.start = began
      /\ ~InLambda(Len(frames)) => Top.ctx = HostContext(Top.fn)
  BY <1>1, TopFacts
<1>3. /\ child \in FrameSet /\ child.start = began
      /\ InLambda(Len(frames)) \/ child.ctx = HostContext(child.fn)
  BY <1>2 DEF FrameSet, Kinds
<1> HIDE DEF child
<1>4. /\ frames' \in Seq(FrameSet) /\ Len(frames') > 0
      /\ \A i \in 1 .. Len(frames') : frames'[i].start = began'
      /\ HostContextOutsideLambdas' /\ Rooted'
  BY <1>1, <1>3, PushKeeps
<1>5. TypeOK'
  BY <1>1, <1>4 DEF IInv, TypeOK, FrameSet
<1>. QED
  BY <1>1, <1>4, <1>5 DEF IInv, Running, StartsInherited

\* Steps that leave the activations as they are.
LEMMA SameFramesKeep ==
    ASSUME IInv, frames' = frames, began' = began,
           closures' = closures \/ (mode # "idle" /\ \A c \in closures' : c.start = began),
           mode' = mode \/ (mode = "eval" /\ mode' = "raise")
    PROVE  Running' /\ Rooted' /\ StartsInherited' /\ HostContextOutsideLambdas'
<1>1. Running'
  BY DEF IInv, Running
<1>2. StartsInherited'
  BY DEF IInv, StartsInherited
<1>3. HostContextOutsideLambdas'
  BY DEF IInv, HostContextOutsideLambdas, InLambda
<1>4. Rooted'
  BY DEF IInv, Rooted
<1>. QED
  BY <1>1, <1>2, <1>3, <1>4

LEMMA WriteLambdaKeepsInv == ASSUME IInv, WriteLambda PROVE IInv'
<1> DEFINE c == [depth |-> Top.depth, start |-> Top.start, level |-> Top.level]
<1>1. /\ mode = "eval" /\ Len(frames) > 0 /\ closures' = closures \cup {c}
      /\ UNCHANGED <<frames, mode, err, clock, began, cancelled>>
  BY DEF WriteLambda, Evaluating, IInv, Running
<1>2. Top \in FrameSet /\ Top.start = began
  BY <1>1, TopFacts
<1>3. c \in ClosureSet /\ c.start = began
  BY <1>2 DEF FrameSet, ClosureSet
<1> HIDE DEF c
<1>4. TypeOK'
  BY <1>1, <1>3 DEF IInv, TypeOK, ClosureSet
<1>5. mode # "idle" /\ \A d \in closures' : d.start = began
  BY <1>1, <1>3 DEF IInv, StartsInherited
<1>. QED
  BY <1>1, <1>4, <1>5, SameFramesKeep DEF IInv

LEMMA RaiseKeepsInv == ASSUME IInv, Raise \/ HitLimit PROVE IInv'
<1>1. /\ mode = "eval" /\ mode' = "raise"
      /\ UNCHANGED <<frames, closures, clock, began, cancelled>>
      /\ err' = "raised" \/ err' = Limit(Top)
  BY DEF Raise, HitLimit, Evaluating, RaiseErr
<1>3. Limit(Top) \in Errs /\ "raised" \in Errs
  BY LimitIsErr DEF Errs
<1>4. err' \in Errs
  BY <1>1, <1>3
<1>2. TypeOK'
  BY <1>1, <1>4 DEF IInv, TypeOK
<1>. QED
  BY <1>1, <1>2, SameFramesKeep DEF IInv

LEMMA OutsideKeepsInv == ASSUME IInv, Tick \/ Cancel \/ Finished \/ UNCHANGED vars PROVE IInv'
<1>1. frames' = frames /\ closures' = closures /\ mode' = mode /\ err' = err /\ began' = began
  BY DEF Tick, Cancel, Finished, vars
<1>3. clock \in Nat /\ cancelled \in BOOLEAN
  BY DEF IInv, TypeOK
<1>4. clock' \in Nat
  <2>1. clock' = clock \/ clock' = clock + 1
    BY DEF Tick, Cancel, Finished, vars
  <2>. QED
    BY <1>3, <2>1
<1>5. cancelled' \in BOOLEAN
  <2>1. CASE Cancel
    BY <2>1, Zenon DEF Cancel
  <2>2. CASE Tick \/ Finished \/ UNCHANGED vars
    BY <2>2, <1>3, Zenon DEF Tick, Finished, vars
  <2>. QED
    BY <2>1, <2>2
<1>2. TypeOK'
  BY <1>1, <1>4, <1>5 DEF IInv, TypeOK
<1>. QED
  BY <1>1, <1>2, SameFramesKeep DEF IInv

\* Steps that end an activation.
LEMMA PopKeepsInv ==
    ASSUME IInv, Len(frames) > 0, frames' = Below,
           UNCHANGED <<closures, clock, began, cancelled>>,
           mode # "idle", mode' \in {"eval", "raise", "done"}, err' \in Errs,
           mode' # "done" => Len(frames) # 1
    PROVE  IInv'
<1>1. /\ frames' \in Seq(FrameSet) /\ Len(frames') = Len(frames) - 1
      /\ \A i \in 1 .. Len(frames') : frames'[i].start = began'
      /\ HostContextOutsideLambdas' /\ Rooted'
  BY PopKeeps
<1>2. TypeOK'
  BY <1>1 DEF IInv, TypeOK, FrameSet
<1>3. Len(frames) \in Nat
  BY TopFacts
<1>4. Running'
  BY <1>1, <1>3 DEF Running
<1>. QED
  BY <1>1, <1>2, <1>4 DEF IInv, StartsInherited

LEMMA ReturnKeepsInv == ASSUME IInv, Return \/ Unwind PROVE IInv'
<1>1. /\ Len(frames) > 0 /\ frames' = Below
      /\ UNCHANGED <<closures, err, clock, began, cancelled>>
      /\ mode # "idle" /\ mode' \in {"eval", "raise", "done"}
      /\ mode' # "done" => Len(frames) # 1
  BY DEF Return, Unwind, IInv, Running
<1>2. err' \in Errs
  BY <1>1 DEF IInv, TypeOK
<1>. QED
  BY <1>1, <1>2, PopKeepsInv

\* A try is inside the activation of a function, so an error that is caught
\* leaves something to go on with.
LEMMA CatchKeepsInv == ASSUME IInv, Catch PROVE IInv'
<1>1. /\ Len(frames) > 0 /\ frames' = Below /\ mode # "idle"
      /\ UNCHANGED <<closures, clock, began, cancelled>>
      /\ Top.kind \in {"try", "try default"}
      /\ \/ mode' = "raise" /\ err' = Limit(Top)
         \/ mode' = "eval" /\ err' = NoErr
  BY DEF Catch, RaiseErr, IInv, Running
<1>2. Len(frames) # 1
  BY <1>1 DEF IInv, Rooted, Top
<1>3. Limit(Top) \in Errs /\ NoErr \in Errs
  BY LimitIsErr DEF Errs, NoErr
<1>4. mode' \in {"eval", "raise", "done"} /\ err' \in Errs
  BY <1>1, <1>3
<1>. QED
  BY <1>1, <1>2, <1>4, PopKeepsInv

LEMMA NextKeepsInv == ASSUME IInv, [Next]_vars PROVE IInv'
<1>1. CASE Execute
  BY <1>1, ExecuteKeepsInv
<1>2. CASE Step
  <2>1. CASE \E fn \in Functions : CallUser(fn)
    BY <2>1, CallUserKeepsInv
  <2>2. CASE \E c \in closures : ApplyLambda(c)
    BY <2>2, ApplyLambdaKeepsInv
  <2>3. CASE \E kind \in {"try", "try default"} : EnterTry(kind)
    BY <2>3, EnterTryKeepsInv
  <2>4. CASE WriteLambda
    BY <2>4, WriteLambdaKeepsInv
  <2>5. CASE Raise \/ HitLimit
    BY <2>5, RaiseKeepsInv
  <2>6. CASE Return \/ Unwind
    BY <2>6, ReturnKeepsInv
  <2>7. CASE Catch
    BY <2>7, CatchKeepsInv
  <2>. QED
    BY <1>2, <2>1, <2>2, <2>3, <2>4, <2>5, <2>6, <2>7 DEF Step
<1>3. CASE Tick \/ Cancel \/ Finished \/ UNCHANGED vars
  BY <1>3, OutsideKeepsInv
<1>. QED
  BY <1>1, <1>2, <1>3 DEF Next

--------------------------------------------------------------------------------
THEOREM Invariant == Spec => []IInv
<1>1. Init => IInv
  BY InitInv
<1>2. IInv /\ [Next]_vars => IInv'
  BY NextKeepsInv
<1>. QED
  BY <1>1, <1>2, PTL DEF Spec

\* The activations, the lambdas and the errors are always of their types.
THEOREM TypeCorrect == Spec => []TypeOK
<1>1. IInv => TypeOK
  BY DEF IInv
<1>. QED
  BY <1>1, Invariant, PTL

\* Outside lambdas a function runs under its own authority and sees the host's
\* cancellation, however deep the calls are.
THEOREM HostContextKept == Spec => []HostContextOutsideLambdas
<1>1. IInv => HostContextOutsideLambdas
  BY DEF IInv
<1>. QED
  BY <1>1, Invariant, PTL

\* No activation begins past the deadline.
THEOREM DeadlineKept == Spec => NothingStartsPastDeadline
<1> DEFINE Kept == mode = "eval" /\ Len(frames') > Len(frames) /\ Timeout > 0 => clock - began <= Timeout
<1>1. IInv /\ [Next]_vars => [Kept]_vars
  <2>. SUFFICES ASSUME IInv, [Next]_vars, mode = "eval", Len(frames') > Len(frames), Timeout > 0
                PROVE  clock - began <= Timeout
    OBVIOUS
  <2>1. /\ Len(frames) > 0 /\ Len(frames) \in Nat /\ Top.start = began
        /\ frames \in Seq(FrameSet)
    BY TopFacts DEF IInv, Running
  <2>2. Evaluating
    <3>1. frames' # frames
      BY <2>1
    <3>2. frames' # Below
      BY <2>1 DEF Below
    <3>. QED
      BY <3>1, <3>2 DEF Next, Step, Execute, CallUser, ApplyLambda, EnterTry, WriteLambda, Raise,
         HitLimit, Return, Unwind, Catch, Tick, Cancel, Finished, vars
  <2>3. ~(clock - Top.start > Timeout)
    BY <2>2 DEF Evaluating, Limit, NoErr
  <2>4. clock \in Nat /\ began \in Nat /\ Timeout \in Nat
    BY LimitsAssumption DEF IInv, TypeOK
  <2>. QED
    BY <2>1, <2>3, <2>4
<1>. QED
  BY <1>1, Invariant, PTL DEF Spec, NothingStartsPastDeadline

--------------------------------------------------------------------------------
\* What makes the depth counter true: where a level is kept it is the depth, in
\* an activation as in a lambda it wrote, and it is the number of calls below.
Counted ==
    /\ \A i \in 1 .. Len(frames) :
         frames[i].level # NoLevel =>
             /\ frames[i].depth = frames[i].level
             /\ frames[i].level = Cardinality(Calls(i))
    /\ \A c \in closures : c.level # NoLevel => c.depth = c.level

\* The calls below an activation are finitely many.
LEMMA CallsFinite == \A i \in Nat : IsFiniteSet(Calls(i)) /\ Cardinality(Calls(i)) \in Nat
<1>. SUFFICES ASSUME NEW i \in Nat PROVE IsFiniteSet(Calls(i)) /\ Cardinality(Calls(i)) \in Nat
  OBVIOUS
<1>1. IsFiniteSet(2 .. i)
  BY FS_Interval
<1>2. Calls(i) \subseteq 2 .. i
  BY DEF Calls
<1>. QED
  BY <1>1, <1>2, FS_Subset, FS_CardinalityType

\* The level of the innermost activation, where it is kept, is its depth.
LEMMA TopCounted ==
    ASSUME IInv, Counted, Len(frames) > 0
    PROVE  Top.level # NoLevel => Top.depth = Top.level
<1>1. Len(frames) \in 1 .. Len(frames)
  BY TopFacts
<1>. QED
  BY <1>1 DEF Counted, Top

\* A frame whose level follows from its writer's or its caller's has the depth
\* that goes with it, and a call adds one to the calls below, a try none.
LEMMA PushCounts ==
    ASSUME IInv, Counted, Len(frames) > 0, NEW child \in FrameSet, frames' = Append(frames, child),
           closures' = closures,
           child.level # NoLevel =>
               /\ child.depth = child.level
               /\ Top.level # NoLevel
               /\ child.level = IF child.kind \in {"fn", "lambda"} THEN Top.level + 1 ELSE Top.level
    PROVE  Counted'
<1> DEFINE n == Len(frames)
           calls(i) == {j \in 2 .. i : frames'[j].kind \in {"fn", "lambda"}}
<1>1. frames \in Seq(FrameSet) /\ n \in Nat
  BY DEF IInv, TypeOK, FrameSet
<1>2. /\ Len(frames') = n + 1
      /\ \A i \in 1 .. n : frames'[i] = frames[i]
      /\ frames'[n + 1] = child
  BY <1>1
<1>3. n \in Nat /\ n > 0 /\ Top = frames[n]
  BY <1>1 DEF Top
<1>4. \A i \in 1 .. n : frames[i].level # NoLevel => frames[i].depth = frames[i].level /\ frames[i].level = Cardinality(Calls(i))
  BY DEF Counted
<1>5. IsFiniteSet(Calls(n)) /\ n + 1 \notin Calls(n)
  BY <1>3, CallsFinite DEF Calls
<1> HIDE DEF n
<1>6. \A i \in 1 .. n : calls(i) = Calls(i)
  <2>. SUFFICES ASSUME NEW i \in 1 .. n PROVE calls(i) = Calls(i)
    OBVIOUS
  <2>1. \A j \in 2 .. i : j \in 1 .. n
    BY <1>3
  <2>. QED
    BY <2>1, <1>2 DEF Calls
<1>7. calls(n + 1) = IF child.kind \in {"fn", "lambda"} THEN Calls(n) \cup {n + 1} ELSE Calls(n)
  <2>1. \A j : j \in 2 .. n + 1 <=> (j \in 2 .. n \/ j = n + 1)
    BY <1>3
  <2>2. \A j \in 2 .. n : frames'[j] = frames[j]
    BY <1>2, <1>3
  <2>. QED
    BY <2>1, <2>2, <1>2 DEF Calls
<1>8. Cardinality(Calls(n) \cup {n + 1}) = Cardinality(Calls(n)) + 1
  BY <1>5, FS_AddElement
<1> HIDE DEF calls
<1>9. \A i \in 1 .. n + 1 : frames'[i].level # NoLevel =>
          frames'[i].depth = frames'[i].level /\ frames'[i].level = Cardinality(calls(i))
  <2>. SUFFICES ASSUME NEW i \in 1 .. n + 1, frames'[i].level # NoLevel
                PROVE  frames'[i].depth = frames'[i].level /\ frames'[i].level = Cardinality(calls(i))
    OBVIOUS
  <2>1. CASE i \in 1 .. n
    BY <2>1, <1>2, <1>4, <1>6
  <2>2. CASE i = n + 1
    <3>1. frames'[i] = child
      BY <2>2, <1>2
    <3>2. n \in 1 .. n
      BY <1>3
    <3>3. child.level # NoLevel
      BY <3>1
    <3>4. Top.level = Cardinality(Calls(n))
      BY <3>3, <3>2, <1>3, <1>4
    <3>5. child.level = Cardinality(calls(n + 1))
      BY <3>3, <3>4, <1>7, <1>8
    <3>6. frames'[i].depth = frames'[i].level /\ frames'[i].level = Cardinality(calls(n + 1))
      BY <3>1, <3>3, <3>5
    <3>. QED
      BY <3>6, <2>2
  <2>3. i \in 1 .. n \/ i = n + 1
    BY <1>3
  <2>. QED
    BY <2>1, <2>2, <2>3
<1>10. \A c \in closures' : c.level # NoLevel => c.depth = c.level
  BY DEF Counted
<1>. QED
  BY <1>2, <1>9, <1>10 DEF Counted, Calls, calls

\* Ending an activation leaves the calls below the others as they were.
LEMMA PopCounts ==
    ASSUME IInv, Counted, Len(frames) > 0, frames' = Below, closures' = closures
    PROVE  Counted'
<1>1. frames \in Seq(FrameSet) /\ Len(frames) \in Nat
  BY DEF IInv, TypeOK, FrameSet
<1> DEFINE n == Len(frames)
<1>2. \A i \in 1 .. n - 1 : frames[i] \in FrameSet
  BY <1>1
<1>3. n \in Nat /\ n > 0 /\ frames' = SubSeq(frames, 1, n - 1)
  BY <1>1 DEF Below
<1>4. \A i \in 1 .. n : frames[i].level # NoLevel => frames[i].depth = frames[i].level /\ frames[i].level = Cardinality(Calls(i))
  BY DEF Counted
<1> HIDE DEF n
<1>5. Len(frames') = n - 1 /\ \A i \in 1 .. n - 1 : frames'[i] = frames[i]
  <2>1. /\ Len(SubSeq(frames, 1, n - 1)) = IF 1 <= n - 1 THEN (n - 1) - 1 + 1 ELSE 0
        /\ \A i \in 1 .. (n - 1) - 1 + 1 : SubSeq(frames, 1, n - 1)[i] = frames[1 + i - 1]
    BY <1>3, <1>2, SubSeqProperties
  <2>2. \A i \in 1 .. n - 1 : i \in 1 .. (n - 1) - 1 + 1 /\ 1 + i - 1 = i
    BY <1>3
  <2>. QED
    BY <1>3, <2>1, <2>2
<1>6. \A i \in 1 .. n - 1 : {j \in 2 .. i : frames'[j].kind \in {"fn", "lambda"}} = Calls(i)
  <2>. SUFFICES ASSUME NEW i \in 1 .. n - 1
                PROVE  {j \in 2 .. i : frames'[j].kind \in {"fn", "lambda"}} = Calls(i)
    OBVIOUS
  <2>1. \A j \in 2 .. i : j \in 1 .. n - 1
    BY <1>3
  <2>. QED
    BY <2>1, <1>5 DEF Calls
<1>7. \A i \in 1 .. n - 1 : i \in 1 .. n
  BY <1>3
<1>8. \A i \in 1 .. n - 1 : frames'[i].level # NoLevel =>
          /\ frames'[i].depth = frames'[i].level
          /\ frames'[i].level = Cardinality({j \in 2 .. i : frames'[j].kind \in {"fn", "lambda"}})
  BY <1>4, <1>5, <1>6, <1>7
<1>9. \A c \in closures' : c.level # NoLevel => c.depth = c.level
  BY DEF Counted
<1>. QED
  BY <1>5, <1>8, <1>9 DEF Counted, Calls

\* A step that leaves the activations alone, and adds no lambda but one whose
\* level is its depth.
LEMMA SameFramesCount ==
    ASSUME Counted, frames' = frames,
           \A c \in closures' : c \in closures \/ (c.level # NoLevel => c.depth = c.level)
    PROVE  Counted'
BY DEF Counted, Calls

LEMMA InitCounted == Init => Counted
BY DEF Init, Counted

LEMMA ExecuteKeepsCounted == ASSUME IInv, Execute PROVE Counted'
<1> DEFINE root == Frame("fn", Root, 0, clock, HostContext(Root), 0)
<1>1. Len(frames') = 1 /\ frames'[1] = root /\ closures' = {}
  BY DEF Execute, IInv, StartsInherited
<1>2. root.depth = 0 /\ root.level = 0
  BY DEF Frame
<1>3. {j \in 2 .. 1 : frames'[j].kind \in {"fn", "lambda"}} = {}
  OBVIOUS
<1>4. Cardinality({}) = 0
  BY FS_EmptySet
<1> HIDE DEF root
<1>5. \A i \in 1 .. 1 : i = 1
  OBVIOUS
<1>. QED
  BY <1>1, <1>2, <1>3, <1>4, <1>5 DEF Counted, Calls

LEMMA CallUserKeepsCounted ==
    ASSUME IInv, Counted, NEW fn \in Functions, CallUser(fn)
    PROVE  Counted'
<1> DEFINE child == UserFrame(fn)
           level == IF Top.level = NoLevel THEN NoLevel ELSE Top.level + 1
<1>1. Len(frames) > 0 /\ Enter(child) /\ closures' = closures
  BY DEF CallUser, Evaluating, IInv, Running
<1>2. Top \in FrameSet
  BY <1>1, TopFacts
<1>3. Top.level # NoLevel => Top.depth = Top.level
  BY <1>1, TopCounted
<1>4. EnterCapability(Top.ctx, fn) \in Contexts /\ Top.depth + 1 \in Nat /\ Top.start \in Nat
  BY <1>2 DEF EnterCapability, HostContext, FrameSet, Contexts
<1>5. Top.level \in Levels /\ level \in Levels
  BY <1>2 DEF FrameSet, Levels, NoLevel
<1>6. /\ child.kind = "fn" /\ child.depth = Top.depth + 1 /\ child.level = level
  BY DEF UserFrame, Frame
<1>7. child \in FrameSet
  BY <1>4, <1>5 DEF UserFrame, Frame, FrameSet, Kinds
<1>8. child.level # NoLevel => /\ child.depth = child.level
                               /\ Top.level # NoLevel
                               /\ child.level = Top.level + 1
  BY <1>3, <1>6
<1> HIDE DEF child
<1>9. CASE frames' = Append(frames, child)
  BY <1>1, <1>6, <1>7, <1>8, <1>9, PushCounts
<1>10. CASE frames' = frames
  BY <1>1, <1>10, SameFramesCount
<1>. QED
  BY <1>1, <1>9, <1>10 DEF Enter

LEMMA ApplyLambdaKeepsCounted ==
    ASSUME IInv, Counted, NEW c \in closures, ApplyLambda(c)
    PROVE  Counted'
<1> DEFINE child == LambdaFrame(c)
           level == IF Top.level # NoLevel /\ c.level = Top.level THEN Top.level + 1 ELSE NoLevel
<1>1. Len(frames) > 0 /\ Enter(child) /\ closures' = closures
  BY DEF ApplyLambda, Evaluating, IInv, Running
<1>2. Top \in FrameSet /\ c \in ClosureSet
  BY <1>1, TopFacts DEF IInv, TypeOK, ClosureSet
<1>3. c.level # NoLevel => c.depth = c.level
  BY DEF Counted
<1>4. Background \in Contexts /\ c.depth + 1 \in Nat /\ c.start \in Nat
  BY <1>2 DEF Background, Contexts, ClosureSet
<1>5. level \in Levels
  BY <1>2 DEF FrameSet, Levels, NoLevel
<1>6. Top.fn \in Functions \cup {Root} /\ "lambda" \in Kinds
  BY <1>2 DEF FrameSet, Kinds
<1>7. child \in FrameSet
  BY <1>4, <1>5, <1>6 DEF LambdaFrame, Frame, FrameSet
<1>8. child.kind = "lambda" /\ child.depth = c.depth + 1 /\ child.level = level
  BY DEF LambdaFrame, Frame
<1>9. child.level # NoLevel => /\ child.depth = child.level
                               /\ Top.level # NoLevel
                               /\ child.level = Top.level + 1
  BY <1>3, <1>8
<1> HIDE DEF child
<1>10. CASE frames' = Append(frames, child)
  BY <1>1, <1>7, <1>8, <1>9, <1>10, PushCounts
<1>11. CASE frames' = frames
  BY <1>1, <1>11, SameFramesCount
<1>. QED
  BY <1>1, <1>10, <1>11 DEF Enter

\* A try is not a call.
LEMMA EnterTryKeepsCounted ==
    ASSUME IInv, Counted, NEW kind \in {"try", "try default"}, EnterTry(kind)
    PROVE  Counted'
<1> DEFINE child == [Top EXCEPT !.kind = kind]
<1>1. Len(frames) > 0 /\ frames' = Append(frames, child) /\ closures' = closures
  BY DEF EnterTry, Evaluating, IInv, Running
<1>0. Len(frames) > 0
  BY <1>1
<1>2. Top \in FrameSet /\ Len(frames) \in Nat
  BY <1>0, TopFacts
<1>3. Top.level # NoLevel => Top.depth = Top.level
  BY <1>0, TopCounted
<1>4. /\ child \in FrameSet /\ child.kind \notin {"fn", "lambda"}
      /\ child.depth = Top.depth /\ child.level = Top.level
  BY <1>2 DEF FrameSet, Kinds
<1> HIDE DEF child
<1>. QED
  BY <1>1, <1>3, <1>4, PushCounts

LEMMA WriteLambdaKeepsCounted == ASSUME IInv, Counted, WriteLambda PROVE Counted'
<1> DEFINE c == [depth |-> Top.depth, start |-> Top.start, level |-> Top.level]
<1>1. Len(frames) > 0 /\ closures' = closures \cup {c} /\ frames' = frames
  BY DEF WriteLambda, Evaluating, IInv, Running
<1>3. Top.level # NoLevel => Top.depth = Top.level
  BY <1>1, TopCounted
<1>4. c.level # NoLevel => c.depth = c.level
  BY <1>3
<1> HIDE DEF c
<1>. QED
  BY <1>1, <1>4, SameFramesCount

LEMMA NextKeepsCounted == ASSUME IInv, Counted, [Next]_vars PROVE Counted'
<1>1. CASE Execute
  BY <1>1, ExecuteKeepsCounted
<1>2. CASE Step
  <2>1. CASE \E fn \in Functions : CallUser(fn)
    BY <2>1, CallUserKeepsCounted
  <2>2. CASE \E c \in closures : ApplyLambda(c)
    BY <2>2, ApplyLambdaKeepsCounted
  <2>3. CASE \E kind \in {"try", "try default"} : EnterTry(kind)
    BY <2>3, EnterTryKeepsCounted
  <2>4. CASE WriteLambda
    BY <2>4, WriteLambdaKeepsCounted
  <2>5. CASE Raise \/ HitLimit
    BY <2>5, SameFramesCount DEF Raise, HitLimit
  <2>6. CASE Return \/ Unwind \/ Catch
    <3>1. Len(frames) > 0 /\ frames' = Below /\ closures' = closures
      BY <2>6 DEF Return, Unwind, Catch, IInv, Running
    <3>. QED
      BY <3>1, PopCounts
  <2>. QED
    BY <1>2, <2>1, <2>2, <2>3, <2>4, <2>5, <2>6 DEF Step
<1>3. CASE Tick \/ Cancel \/ Finished \/ UNCHANGED vars
  <2>1. frames' = frames /\ closures' = closures
    BY <1>3 DEF Tick, Cancel, Finished, vars
  <2>. QED
    BY <2>1, SameFramesCount
<1>. QED
  BY <1>1, <1>2, <1>3 DEF Next

\* As long as lambdas are applied where they were written, the depth is the
\* number of nested calls, whatever was called, tried, raised and caught before.
THEOREM DepthCountsCalls == Spec => []DepthIsNesting
<1>1. Init => Counted
  BY InitCounted
<1>2. IInv /\ Counted /\ [Next]_vars => Counted'
  BY NextKeepsCounted
<1>3. Counted => DepthIsNesting
  BY DEF Counted, DepthIsNesting
<1>. QED
  BY <1>1, <1>2, <1>3, Invariant, PTL DEF Spec
================================================================================
