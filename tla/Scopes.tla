-------------------------------- MODULE Scopes ---------------------------------
(***************************************************************************)
(* The environments of the evaluator (executor/executor.go): scopes that   *)
(* are chained by reference, closures that hold one, the argument scope a  *)
(* closure keeps and rebinds from call to call, and the copy evalLambda    *)
(* takes of a scope that is going to be rebound.  DTL's variables are      *)
(* assigned once, so what a program must never see is one of them change.  *)
(*                                                                         *)
(* The program is any program: at each step the innermost activation may   *)
(* bind a let, call a user function, write a lambda, apply any lambda      *)
(* written so far, start or continue a for loop, or finish.                *)
(***************************************************************************)
EXTENDS Integers, Sequences

CONSTANTS
    Vars,         \* variable names
    Params,       \* those lambdas take as their parameter
    LoopVars,     \* those for loops bind
    Lets,         \* those parameters and lets of function bodies bind
    Args,         \* the values that calls bind to parameters of lambdas
    Locals,       \* and those that loops and function bodies bind
    Unbound,
    MaxEnvs,      \* bound: scopes allocated
    MaxClosures,  \* bound: lambdas evaluated
    MaxFrames     \* bound: nested activations

Values == Args \cup Locals

ASSUME NamesAssumption == Params \cup LoopVars \cup Lets \subseteq Vars
ASSUME UnboundAssumption == Unbound \notin Values
ASSUME BoundsAssumption == MaxEnvs \in Nat /\ MaxClosures \in Nat /\ MaxFrames \in Nat

VARIABLES
    heap,      \* the scopes, by address; address 0 is nil
    closures,  \* the lambda closures, by address
    frames     \* the activations, outermost first

vars == <<heap, closures, frames>>

Bindings == [Vars -> Values \cup {Unbound}]
NoBinding == [v \in Vars |-> Unbound]

Env(parent, vals, reusable) == [parent |-> parent, vals |-> vals, reusable |-> reusable]

\* env.get, for every variable at once: the innermost binding along the chain.
View(h, e) ==
    [v \in Vars |->
        LET get[i \in 0 .. Len(h)] ==
                IF i = 0 THEN Unbound
                ELSE IF h[i].vals[v] # Unbound THEN h[i].vals[v] ELSE get[h[i].parent]
        IN  get[e]]

\* Mutant: a closure keeps the scope itself.
SnapshotShares(h, e) == <<h, e>>

\* Mutant: the copy and the address that is kept differ by one.
SnapshotBeside(h, e) ==
    IF e = 0 \/ ~h[e].reusable THEN <<h, e>>
    ELSE <<Append(h, Env(h[e].parent, h[e].vals, FALSE)), Len(h) + 2>>

\* env.snapshot: the heap afterwards and the address to keep.
Snapshot(h, e) ==
    LET snapshot[i \in 0 .. Len(h)] ==
            IF i = 0 \/ ~h[i].reusable THEN <<h, i>>
            ELSE LET up == snapshot[h[i].parent]
                 IN  <<Append(up[1], Env(up[2], h[i].vals, FALSE)), Len(up[1]) + 1>>
    IN  snapshot[e]

\* Mutant: the scope has a new parent and keeps what the last call bound.
ResetKeepsBindings(h, e, parent) == [h EXCEPT ![e].parent = parent]

\* env.reset
Reset(h, e, parent) == [h EXCEPT ![e] = [@ EXCEPT !.parent = parent, !.vals = NoBinding]]

\* env.set; an argument that was not passed is not bound.
Bind(h, e, v, val) == IF val = Unbound THEN h ELSE [h EXCEPT ![e].vals[v] = val]

\* view and home are history fields: the bindings the activation has by the rules of
\* lexical scope, and the scope of the function body its text stands in.
Frame(kind, env, clo, reused, view, home) ==
    [kind |-> kind, env |-> env, clo |-> clo, reused |-> reused, view |-> view, home |-> home]

Top == frames[Len(frames)]
Push(f) == frames' = Append(frames, f)
Below == SubSeq(frames, 1, Len(frames) - 1)

Room(h) == Len(h) <= MaxEnvs

\* ExecuteInto: the outermost scope.
Init ==
    /\ heap = <<Env(0, NoBinding, FALSE)>>
    /\ closures = <<>>
    /\ frames = <<Frame("fn", 1, 0, FALSE, NoBinding, 1)>>

\* A parameter or a let of a function body; the compiler refuses a second
\* declaration in the same scope.  The lambdas that stand in the body share its
\* scope, so those already written have the variable too from now on, unless a
\* loop variable or a parameter of the same name is nearer to them.
Let(v, val) ==
    /\ frames # <<>> /\ Top.kind = "fn"
    /\ heap[Top.env].vals[v] = Unbound
    /\ heap' = Bind(heap, Top.env, v, val)
    /\ frames' = [frames EXCEPT ![Len(frames)].view[v] = val]
    /\ closures' = [c \in DOMAIN closures |->
          IF closures[c].home = Top.env /\ closures[c].seen[v] = Unbound
          THEN [closures[c] EXCEPT !.seen[v] = val] ELSE closures[c]]

\* callUserFunction: a clean scope, with no way to the caller's.
CallUser ==
    /\ frames # <<>> /\ Len(frames) < MaxFrames
    /\ heap' = Append(heap, Env(0, NoBinding, FALSE))
    /\ Room(heap')
    /\ Push(Frame("fn", Len(heap) + 1, 0, FALSE, NoBinding, Len(heap) + 1))
    /\ UNCHANGED closures

\* The text being evaluated stands in a for loop of a lambda: in the loop body of
\* the innermost lambda, or in a lambda that stands in one itself.
LoopInLambda ==
    \E i \in 1 .. Len(frames) :
        /\ frames[i].kind = "lambda"
        /\ \A j \in i + 1 .. Len(frames) : frames[j].kind = "for"
        /\ i < Len(frames) \/ closures[frames[i].clo].looped

\* evalLambda.  seen, looped and home are history fields: what the lambda's text
\* can see, whether it stands in a for loop of another lambda, and the scope of
\* the function body it stands in.
WriteLambda(param) ==
    /\ frames # <<>> /\ Len(closures) < MaxClosures
    /\ LET snap == Snapshot(heap, Top.env)
       IN  /\ heap' = snap[1]
           /\ closures' = Append(closures,
                  [param |-> param, env |-> snap[2], scratch |-> 0, inCall |-> FALSE,
                   seen |-> Top.view, looped |-> LoopInLambda, home |-> Top.home])
    /\ Room(heap')
    /\ UNCHANGED frames

\* Mutant: the closure's own scope is used by every call.
ScratchShared(c) == TRUE

ScratchFree(c) == ~closures[c].inCall

\* lambdaClosure.Call while no call of the closure is running: its own argument
\* scope, made on the first call and rebound on the later ones.  An argument the
\* caller did not pass (val = Unbound) leaves its parameter unbound.
Apply(c, val) ==
    /\ frames # <<>> /\ Len(frames) < MaxFrames
    /\ ScratchFree(c)
    /\ LET clo == closures[c]
           s == IF clo.scratch = 0 THEN Len(heap) + 1 ELSE clo.scratch
           h == IF clo.scratch = 0 THEN Append(heap, Env(clo.env, NoBinding, TRUE))
                                   ELSE Reset(heap, s, clo.env)
       IN  /\ heap' = Bind(h, s, clo.param, val)
           /\ closures' = [closures EXCEPT ![c].scratch = s, ![c].inCall = TRUE]
           /\ Push(Frame("lambda", s, c, TRUE,
                         IF val = Unbound THEN clo.seen ELSE [clo.seen EXCEPT ![clo.param] = val],
                         clo.home))
    /\ Room(heap')

\* A body that reaches its own closure again gets a scope of its own.
ApplyAgain(c, val) ==
    /\ frames # <<>> /\ Len(frames) < MaxFrames
    /\ closures[c].inCall
    /\ LET clo == closures[c]
       IN  /\ heap' = Append(heap, Env(clo.env, [NoBinding EXCEPT ![clo.param] = val], TRUE))
           /\ Push(Frame("lambda", Len(heap) + 1, c, FALSE,
                         IF val = Unbound THEN clo.seen ELSE [clo.seen EXCEPT ![clo.param] = val],
                         clo.home))
    /\ Room(heap')
    /\ UNCHANGED closures

\* evalFor: each iteration has a new scope under the enclosing one.
ForIteration(parent, v, val, view) ==
    /\ heap' = Append(heap, Env(parent, [NoBinding EXCEPT ![v] = val], FALSE))
    /\ Room(heap')
    /\ UNCHANGED closures

EnterFor(v, val) ==
    /\ frames # <<>> /\ Len(frames) < MaxFrames
    /\ ForIteration(Top.env, v, val, Top.view)
    /\ Push(Frame("for", Len(heap) + 1, 0, FALSE, [Top.view EXCEPT ![v] = val], Top.home))

NextIteration(v, val) ==
    /\ frames # <<>> /\ Top.kind = "for"
    /\ heap[Top.env].vals[v] # Unbound
    /\ LET outer == Below[Len(Below)]
       IN  /\ ForIteration(outer.env, v, val, outer.view)
           /\ frames' = Append(Below, Frame("for", Len(heap) + 1, 0, FALSE,
                                            [outer.view EXCEPT ![v] = val], outer.home))

\* The activation ends, with a value or an error; Call's deferred function
\* frees the closure's own scope for the next call.
Finish ==
    /\ frames # <<>>
    /\ frames' = Below
    /\ closures' = IF Top.reused THEN [closures EXCEPT ![Top.clo].inCall = FALSE] ELSE closures
    /\ UNCHANGED heap

Next ==
    \/ \E v \in Lets, val \in Locals : Let(v, val)
    \/ \E v \in LoopVars, val \in Locals : EnterFor(v, val) \/ NextIteration(v, val)
    \/ \E v \in Params : WriteLambda(v)
    \/ \E c \in 1 .. Len(closures), val \in Args \cup {Unbound} : Apply(c, val) \/ ApplyAgain(c, val)
    \/ CallUser
    \/ Finish

Spec == Init /\ [][Next]_vars

--------------------------------------------------------------------------------
Addresses == 0 .. Len(heap)

TypeOK ==
    /\ \A e \in 1 .. Len(heap) : heap[e] \in [parent : Addresses, vals : Bindings, reusable : BOOLEAN]
    /\ \A c \in 1 .. Len(closures) :
          closures[c] \in [param : Vars, env : Addresses, scratch : Addresses, inCall : BOOLEAN,
                           seen : Bindings, looped : BOOLEAN, home : Addresses]
    /\ \A i \in 1 .. Len(frames) :
          frames[i] \in [kind : {"fn", "lambda", "for"}, env : Addresses, clo : 0 .. Len(closures),
                         reused : BOOLEAN, view : Bindings, home : Addresses]

Keeps(c) == View(heap, closures[c].env) = closures[c].seen

\* "snapshot returns a scope with the same bindings that will not be rebound"
\* (executor.go): whatever happens after a lambda was evaluated, it sees the
\* variables its text saw then.
CapturesStable == \A c \in 1 .. Len(closures) : Keeps(c)

\* That holds of every lambda but those written in a for loop inside a lambda,
\* however long it outlives the activation that wrote it and however often the
\* enclosing lambda runs again: no variable it saw has changed or gone, and none
\* has come but the lets that its function made since.
CapturesStableOutsideLoops == \A c \in 1 .. Len(closures) : ~closures[c].looped => Keeps(c)

\* The i-th activation is not in the body of a lambda that stands in a for loop
\* of a lambda, nor in a loop of that body.
OutsideLoops(i) ==
    \A k \in 1 .. i :
        frames[k].kind = "lambda" /\ (\A j \in k + 1 .. i : frames[j].kind = "for")
            => ~closures[frames[k].clo].looped

\* From its start to its end an activation sees the bindings lexical scope gives
\* it, with their values, and no others: no call it makes, of its own closure
\* included, takes one away or changes one, and none is left over from an earlier
\* call of its closure, one with more arguments included.  The activations of the
\* lambdas that CapturesStableOutsideLoops leaves out are left out here too, each
\* by itself.
ActivationsIsolated ==
    \A i \in 1 .. Len(frames) :
        OutsideLoops(i) => View(heap, frames[i].env) = frames[i].view

\* A closure's own scope serves one activation at a time.
ScratchExclusive ==
    \A i, j \in 1 .. Len(frames) :
        frames[i].kind # "for" /\ frames[j].kind # "for" /\ frames[i].env = frames[j].env => i = j
================================================================================
