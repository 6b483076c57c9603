------------------------------ MODULE CallLimits -------------------------------
(***************************************************************************)
(* One execution of the tree-walking evaluator (executor/executor.go), as  *)
(* far as its limits and its context go: calls of user functions, lambdas  *)
(* written in one place and applied in another through the stdlib's        *)
(* higher-order functions, try, errors, the deadline, the depth limit and  *)
(* the host's context with its capability interceptor.                     *)
(*                                                                         *)
(* The Go stack of evalExpr activations is frames; what an expression      *)
(* computes is left out, so the program being run is any program: at each  *)
(* step it may call, write a lambda, apply one, enter a try, raise or      *)
(* finish.  Time and cancellation come from outside at any moment.         *)
(***************************************************************************)
EXTENDS Integers, Sequences, FiniteSets

CONSTANTS
    Functions,     \* names of user functions
    MaxDepth,      \* ExecConfig.MaxDepth, 0 when unbounded
    Timeout,       \* ExecConfig.Timeout in ticks, 0 when unbounded
    StackBound,    \* bound: evaluator activations
    MaxClosures,   \* bound: lambdas written
    MaxClock,      \* bound: ticks
    Root           \* the function the host executes

ASSUME LimitsAssumption == MaxDepth \in Nat /\ Timeout \in Nat
ASSUME BoundsAssumption == StackBound \in Nat /\ MaxClosures \in Nat /\ MaxClock \in Nat
ASSUME RootAssumption == Root \notin Functions

VARIABLES
    frames,     \* the activations, outermost first
    closures,   \* the lambdas written so far
    mode,       \* "eval", "raise" while an error unwinds, "done", or "idle"
    err,        \* the error that unwinds, and at the end the one Execute returns
    clock, began, cancelled

vars == <<frames, closures, mode, err, clock, began, cancelled>>

NoErr == "none"
NoLevel == -1

\* A context: the host's carries its interceptor, and the authority it last set.
HostContext(auth) == [host |-> TRUE, auth |-> auth]
Background == [host |-> FALSE, auth |-> Root]
\* Mutant: the executor does not enter the function's capability.
EnterNothing(ctx, fn) == ctx

\* capability.Enter: the interceptor re-scopes, and without one the gate is inert.
EnterCapability(ctx, fn) == IF ctx.host THEN HostContext(fn) ELSE ctx

\* An activation with its evalCtx.  level is a history field: the number of
\* calls below it when each lambda among them was applied by the activation
\* that wrote it, NoLevel otherwise.
Frame(kind, fn, depth, start, ctx, level) ==
    [kind |-> kind, fn |-> fn, depth |-> depth, start |-> start, ctx |-> ctx, level |-> level]

Top == frames[Len(frames)]
Below == SubSeq(frames, 1, Len(frames) - 1)

\* Mutant: the deadline is not checked.
LimitWithoutDeadline(f) ==
    IF MaxDepth > 0 /\ f.depth > MaxDepth THEN "depth"
    ELSE IF f.ctx.host /\ cancelled THEN "cancelled"
    ELSE NoErr

\* evalCtx.checkLimits
Limit(f) ==
    IF Timeout > 0 /\ clock - f.start > Timeout THEN "timeout"
    ELSE IF MaxDepth > 0 /\ f.depth > MaxDepth THEN "depth"
    ELSE IF f.ctx.host /\ cancelled THEN "cancelled"
    ELSE NoErr

Init ==
    /\ frames = <<>> /\ closures = {}
    /\ mode = "idle" /\ err = NoErr
    /\ clock = 0 /\ began = 0 /\ cancelled = FALSE

\* ExecuteInto: depth 0, the clock's start, and the host's context as it came.
Execute ==
    /\ mode = "idle"
    /\ frames' = <<Frame("fn", Root, 0, clock, HostContext(Root), 0)>>
    /\ began' = clock
    /\ mode' = "eval"
    /\ UNCHANGED <<closures, err, clock, cancelled>>

Evaluating == mode = "eval" /\ Limit(Top) = NoErr

RaiseErr(e) == mode' = "raise" /\ err' = e

\* A child evalCtx checks the limits before anything runs in it; an error is the
\* caller's then.
Enter(child) ==
    IF Limit(child) = NoErr
    THEN /\ Len(frames) < StackBound
         /\ frames' = Append(frames, child)
         /\ UNCHANGED <<mode, err>>
    ELSE RaiseErr(Limit(child)) /\ UNCHANGED frames

UserFrame(fn) ==
    Frame("fn", fn, Top.depth + 1, Top.start, EnterCapability(Top.ctx, fn),
          IF Top.level = NoLevel THEN NoLevel ELSE Top.level + 1)

\* callUserFunction, reached by name or through a use declaration.
CallUser(fn) ==
    /\ Evaluating
    /\ Enter(UserFrame(fn))
    /\ UNCHANGED <<closures, clock, began, cancelled>>

\* Mutant: the closure keeps its writer's caller's depth.
WriteLambdaAtCaller ==
    /\ Evaluating
    /\ Cardinality(closures) < MaxClosures
    /\ closures' = closures \cup {[depth |-> Top.depth - 1, start |-> Top.start, level |-> Top.level]}
    /\ UNCHANGED <<frames, mode, err, clock, began, cancelled>>

\* evalLambda: the closure keeps the limits in force where it is written.
WriteLambda ==
    /\ Evaluating
    /\ Cardinality(closures) < MaxClosures
    /\ closures' = closures \cup {[depth |-> Top.depth, start |-> Top.start, level |-> Top.level]}
    /\ UNCHANGED <<frames, mode, err, clock, began, cancelled>>

\* Mutant: applying a lambda does not count as a call.
LambdaFrameUncounted(c) ==
    Frame("lambda", Top.fn, c.depth, c.start, Background,
          IF Top.level # NoLevel /\ c.level = Top.level THEN Top.level + 1 ELSE NoLevel)

\* Mutant: every application of a lambda has the whole timeout to itself.
LambdaFrameRestarted(c) ==
    Frame("lambda", Top.fn, c.depth + 1, clock, Background,
          IF Top.level # NoLevel /\ c.level = Top.level THEN Top.level + 1 ELSE NoLevel)

LambdaFrame(c) ==
    Frame("lambda", Top.fn, c.depth + 1, c.start, Background,
          IF Top.level # NoLevel /\ c.level = Top.level THEN Top.level + 1 ELSE NoLevel)

\* lambdaClosure.Call, from a higher-order builtin: stdlib's CallLambda passes
\* context.Background(), and Call takes the closure's own depth and start.
ApplyLambda(c) ==
    /\ Evaluating
    /\ Enter(LambdaFrame(c))
    /\ UNCHANGED <<closures, clock, began, cancelled>>

\* evalTry evaluates its expression in the same evalCtx.
EnterTry(kind) ==
    /\ Evaluating
    /\ Len(frames) < StackBound
    /\ frames' = Append(frames, [Top EXCEPT !.kind = kind])
    /\ UNCHANGED <<closures, mode, err, clock, began, cancelled>>

\* A raise, or a builtin that returns an error.
Raise ==
    /\ Evaluating
    /\ RaiseErr("raised")
    /\ UNCHANGED <<frames, closures, clock, began, cancelled>>

\* execStmt and evalExpr check the limits before they do anything.
HitLimit ==
    /\ mode = "eval"
    /\ Limit(Top) # NoErr
    /\ RaiseErr(Limit(Top))
    /\ UNCHANGED <<frames, closures, clock, began, cancelled>>

\* The activation has its value; it needs no further evaluation.
Return ==
    /\ mode = "eval"
    /\ frames' = Below
    /\ mode' = IF Len(frames) = 1 THEN "done" ELSE "eval"
    /\ UNCHANGED <<closures, err, clock, began, cancelled>>

\* An error leaves an activation, up to the nearest try.
Unwind ==
    /\ mode = "raise"
    /\ Top.kind \in {"fn", "lambda"}
    /\ frames' = Below
    /\ mode' = IF Len(frames) = 1 THEN "done" ELSE "raise"
    /\ UNCHANGED <<closures, err, clock, began, cancelled>>

\* evalTry: without a default the value is null, whatever the error was; a
\* default is evaluated, and so checked, in the enclosing evalCtx.
Catch ==
    /\ mode = "raise"
    /\ Top.kind \in {"try", "try default"}
    /\ frames' = Below
    /\ IF Top.kind = "try default" /\ Limit(Top) # NoErr
       THEN RaiseErr(Limit(Top))
       ELSE mode' = "eval" /\ err' = NoErr
    /\ UNCHANGED <<closures, clock, began, cancelled>>

\* Before the execution begins the clock stops short enough of its bound for the
\* deadline to be met within it.
Tick ==
    /\ clock < MaxClock
    /\ mode = "idle" => clock + Timeout + 1 < MaxClock
    /\ clock' = clock + 1
    /\ UNCHANGED <<frames, closures, mode, err, began, cancelled>>

Cancel ==
    /\ ~cancelled
    /\ cancelled' = TRUE
    /\ UNCHANGED <<frames, closures, mode, err, clock, began>>

Finished == mode = "done" /\ UNCHANGED vars

Step ==
    \/ \E fn \in Functions : CallUser(fn)
    \/ \E c \in closures : ApplyLambda(c)
    \/ \E kind \in {"try", "try default"} : EnterTry(kind)
    \/ WriteLambda \/ Raise \/ HitLimit \/ Return \/ Unwind \/ Catch

Next == Execute \/ Step \/ Tick \/ Cancel \/ Finished

Spec == Init /\ [][Next]_vars

\* The goroutine of the execution runs and time passes.
FairSpec == Spec /\ WF_vars(Step) /\ WF_vars(Tick)

--------------------------------------------------------------------------------
Kinds == {"fn", "lambda", "try", "try default"}
Errs == {"none", "timeout", "depth", "cancelled", "raised"}
Contexts == [host : BOOLEAN, auth : Functions \cup {Root}]
Levels == Nat \cup {NoLevel}

TypeOK ==
    /\ frames \in Seq([kind : Kinds, fn : Functions \cup {Root}, depth : Nat, start : Nat,
                       ctx : Contexts, level : Levels])
    /\ closures \subseteq [depth : Nat, start : Nat, level : Levels]
    /\ mode \in {"idle", "eval", "raise", "done"} /\ err \in Errs
    /\ clock \in Nat /\ began \in Nat /\ cancelled \in BOOLEAN

\* The calls, of user functions and of lambdas, below the i-th activation.
Calls(i) == {j \in 2 .. i : frames[j].kind \in {"fn", "lambda"}}
UserCalls(i) == {j \in 2 .. i : frames[j].kind = "fn"}
InLambda(i) == \E j \in 1 .. i : frames[j].kind = "lambda"

\* The depth counter is the true number of nested calls, neither more (a program
\* within the limit is never refused) nor less, as long as each lambda is
\* applied by the activation that wrote it: map(xs, x => f(x)) at any nesting.
DepthIsNesting ==
    \A i \in 1 .. Len(frames) : frames[i].level # NoLevel => frames[i].depth = Cardinality(Calls(i))

\* No call starts, in a function, in a lambda or in a default, once the
\* execution's own deadline has passed, wherever the lambda was written.
NothingStartsPastDeadline ==
    [][mode = "eval" /\ Len(frames') > Len(frames) /\ Timeout > 0 => clock - began <= Timeout]_vars

\* Outside lambdas a user function runs under the authority the interceptor gave
\* it, not its caller's, and it sees the host's cancellation; on the way back its
\* caller has its own authority again.
HostContextOutsideLambdas ==
    \A i \in 1 .. Len(frames) : ~InLambda(i) => frames[i].ctx = HostContext(frames[i].fn)

\* With a timeout set, an execution ends, whatever the program does: loops of
\* calls, lambdas that apply themselves, errors caught and tried again.
ExecutionEnds == mode = "eval" ~> mode = "done"

\* "Enter is called by the executor immediately before running a user function"
\* (capability.go): each function runs under its own authority.
EveryFunctionConfined ==
    \A i \in 1 .. Len(frames) : frames[i].kind = "fn" => frames[i].ctx.auth = frames[i].fn
================================================================================
