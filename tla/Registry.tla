------------------------------- MODULE Registry --------------------------------
(***************************************************************************)
(* The registry's cache of compiled functions (registry/registry.go) under *)
(* concurrent use.  Goroutines execute functions by name or from an inline *)
(* source; a name that is not cached is read through the loader, compiled  *)
(* and registered, with the lock taken for each map access and not across  *)
(* them.  Meanwhile the host publishes new sources in its own storage and  *)
(* then invalidates the name, or registers the new source.                 *)
(*                                                                         *)
(* A source is its version; what it says is the names it calls, Deps.      *)
(* Storage, the loader and the host are outside the repository: they are   *)
(* modelled from FunctionLoader's contract and from the registry's calls.  *)
(***************************************************************************)
EXTENDS Integers, Sequences

CONSTANTS
    Names,          \* fully qualified function names
    Threads,        \* goroutines that execute functions
    Hosts,          \* goroutines that publish sources
    Deps,           \* name -> the user functions its body calls
    InlineDeps,     \* the same for the sources given to ExecuteInline
    MaxVersion,     \* bound: sources published per name
    MaxDepth,       \* what resolveMaxDepth made of Config.MaxCallDepth
    LoaderMayFail,  \* the loader may return an error for a stored name
    CanDelete,      \* the host may remove a name from storage
    NoName, Inline

ASSUME DepsAssumption == Deps \in [Names -> SUBSET Names] /\ InlineDeps \subseteq SUBSET Names
ASSUME BoundAssumption == MaxVersion \in Nat /\ MaxDepth \in Nat
ASSUME FlagAssumption == LoaderMayFail \in BOOLEAN /\ CanDelete \in BOOLEAN
ASSUME ActorsAssumption == Threads \cap Hosts = {}
ASSUME NoneAssumption == NoName \notin Names /\ Inline \notin Names /\ NoName # Inline

VARIABLES
    stored,     \* the host's storage: the version of each name, 0 when it has none
    version,    \* the last version published of each name
    compiled,   \* r.compiled: the version cached for each name, 0 when absent
    pc,         \* where each actor is
    want,       \* the name its GetCompiled, Register or Invalidate is about
    src,        \* the version of the source it read and has not cached yet
    todo,       \* the names its compiler still has to resolve
    frames,     \* the functions each thread is running, outermost first
    outcome,    \* how its last execution ended
    unsettled,  \* history: names whose last publication missed the cache
    dropped     \* history: threads that lost an entry between caching and re-reading it

store == <<stored, version>>
local == <<pc, want, src, todo>>
history == <<unsettled, dropped>>
vars == <<store, compiled, local, frames, outcome, history>>

Actors == Threads \cup Hosts
Versions == 0 .. MaxVersion

Goto(a, l) == pc' = [pc EXCEPT ![a] = l]

Init ==
    /\ stored = [n \in Names |-> IF MaxVersion > 0 THEN 1 ELSE 0]
    /\ version = stored
    /\ compiled = [n \in Names |-> 0]
    /\ pc = [a \in Actors |-> "idle"]
    /\ want = [a \in Actors |-> NoName]
    /\ src = [a \in Actors |-> 0]
    /\ todo = [a \in Actors |-> {}]
    /\ frames = [t \in Threads |-> <<>>]
    /\ outcome = [t \in Threads |-> "none"]
    /\ unsettled = {}
    /\ dropped = {}

--------------------------------------------------------------------------------
(* GetCompiled, and Register under it. *)

Frame(n, v, ds) == [fn |-> n, ver |-> v, calls |-> ds]

\* An error leaves every frame of the execution (try is CallLimits' business).
Abort(t, why) ==
    /\ outcome' = [outcome EXCEPT ![t] = why]
    /\ frames' = [frames EXCEPT ![t] = <<>>]
    /\ Goto(t, "idle")

\* Mutant: the depth check is off by one.
EnterOneTooDeep(t, v) ==
    IF MaxDepth > 0 /\ Len(frames[t]) > MaxDepth + 1
    THEN Abort(t, "too deep")
    ELSE /\ frames' = [frames EXCEPT ![t] = Append(@, Frame(want[t], v, Deps[want[t]]))]
         /\ Goto(t, "run")
         /\ UNCHANGED outcome

\* GetCompiled found the function: callUserFunction (or ExecuteInto, for the
\* outermost one, at depth 0) checks the depth and runs it.
Enter(t, v) ==
    IF MaxDepth > 0 /\ Len(frames[t]) > MaxDepth
    THEN Abort(t, "too deep")
    ELSE /\ frames' = [frames EXCEPT ![t] = Append(@, Frame(want[t], v, Deps[want[t]]))]
         /\ Goto(t, "run")
         /\ UNCHANGED outcome

Execute(t, n) ==
    /\ pc[t] = "idle"
    /\ Goto(t, "lookup")
    /\ want' = [want EXCEPT ![t] = n]
    /\ outcome' = [outcome EXCEPT ![t] = "none"]
    /\ dropped' = dropped \ {t}
    /\ UNCHANGED <<store, compiled, src, todo, frames, unsettled>>

LookupHit(t) ==
    /\ pc[t] = "lookup"
    /\ compiled[want[t]] # 0
    /\ Enter(t, compiled[want[t]])
    /\ UNCHANGED <<store, compiled, want, src, todo, history>>

LookupMiss(t) ==
    /\ pc[t] = "lookup"
    /\ compiled[want[t]] = 0
    /\ Goto(t, "load")
    /\ UNCHANGED <<store, compiled, want, src, todo, frames, outcome, history>>

\* The loader returns a source that Register then compiles.
Load(t) ==
    /\ pc[t] = "load"
    /\ stored[want[t]] # 0
    /\ src' = [src EXCEPT ![t] = stored[want[t]]]
    /\ todo' = [todo EXCEPT ![t] = Deps[want[t]]]
    /\ Goto(t, "resolve")
    /\ UNCHANGED <<store, compiled, want, frames, outcome, history>>

\* Mutant: the loader is not asked.
LoaderUnset(n) == TRUE

LoaderMisses(n) == stored[n] = 0 \/ LoaderMayFail

\* Mutant: the loader's own error reaches the caller.
LoadFailsRaw(t) ==
    /\ pc[t] = "load"
    /\ LoaderMisses(want[t])
    /\ Abort(t, "loader error")
    /\ UNCHANGED <<store, compiled, want, src, todo, history>>

\* Mutant: a failed load is tried again.
LoadRetries(t) ==
    /\ pc[t] = "load"
    /\ LoaderMisses(want[t])
    /\ Goto(t, "lookup")
    /\ UNCHANGED <<store, compiled, want, src, todo, frames, outcome, history>>

LoadFails(t) ==
    /\ pc[t] = "load"
    /\ LoaderMisses(want[t])
    /\ Abort(t, "not found")
    /\ UNCHANGED <<store, compiled, want, src, todo, history>>

\* registerResolver.ResolveFunction: the cache, else the loader.
Resolvable(d) == compiled[d] # 0 \/ stored[d] # 0

Resolve(a, d) ==
    /\ pc[a] = "resolve"
    /\ d \in todo[a]
    /\ Resolvable(d)
    /\ todo' = [todo EXCEPT ![a] = @ \ {d}]
    /\ UNCHANGED <<store, compiled, pc, want, src, frames, outcome, history>>

\* A name that does not resolve is a compile error: Register fails, and
\* GetCompiled reports the function as not found.
ResolveFails(t, d) ==
    /\ pc[t] = "resolve"
    /\ d \in todo[t]
    /\ compiled[d] = 0
    /\ LoaderMisses(d)
    /\ Abort(t, "not found")
    /\ src' = [src EXCEPT ![t] = 0]
    /\ todo' = [todo EXCEPT ![t] = {}]
    /\ UNCHANGED <<store, compiled, want, history>>

Cache(t) ==
    /\ pc[t] = "resolve"
    /\ todo[t] = {}
    /\ compiled' = [compiled EXCEPT ![want[t]] = src[t]]
    /\ src' = [src EXCEPT ![t] = 0]
    /\ Goto(t, "reread")
    /\ UNCHANGED <<store, want, todo, frames, outcome, history>>

\* Mutant: the second look into the map is not checked.
RereadUnchecked(t) ==
    /\ pc[t] = "reread"
    /\ Enter(t, compiled[want[t]])
    /\ UNCHANGED <<store, compiled, want, src, todo, history>>

Reread(t) ==
    /\ pc[t] = "reread"
    /\ IF compiled[want[t]] # 0 THEN Enter(t, compiled[want[t]]) ELSE Abort(t, "not found")
    /\ UNCHANGED <<store, compiled, want, src, todo, history>>

--------------------------------------------------------------------------------
(* Execution: a function calls functions its body names, each at most once *)
(* and through GetCompiled; the caller keeps the version it entered with.  *)

Top(t) == frames[t][Len(frames[t])]

CallDep(t, d) ==
    /\ pc[t] = "run"
    /\ d \in Top(t).calls
    /\ frames' = [frames EXCEPT ![t][Len(frames[t])].calls = @ \ {d}]
    /\ want' = [want EXCEPT ![t] = d]
    /\ Goto(t, "lookup")
    /\ UNCHANGED <<store, compiled, src, todo, outcome, history>>

\* The end of the body: branches not taken leave calls unmade.
Return(t) ==
    /\ pc[t] = "run"
    /\ frames' = [frames EXCEPT ![t] = SubSeq(@, 1, Len(@) - 1)]
    /\ IF Len(frames[t]) = 1
       THEN Goto(t, "idle") /\ outcome' = [outcome EXCEPT ![t] = "ok"]
       ELSE UNCHANGED <<pc, outcome>>
    /\ UNCHANGED <<store, compiled, want, src, todo, history>>

\* ExecuteInline compiles against the registry itself, not against the loader.
ExecuteInline(t, ds) ==
    /\ pc[t] = "idle"
    /\ Goto(t, "inline")
    /\ want' = [want EXCEPT ![t] = Inline]
    /\ todo' = [todo EXCEPT ![t] = ds]
    /\ outcome' = [outcome EXCEPT ![t] = "none"]
    /\ dropped' = dropped \ {t}
    /\ frames' = [frames EXCEPT ![t] = <<Frame(Inline, 0, ds)>>]
    /\ UNCHANGED <<store, compiled, src, unsettled>>

ResolveInline(t, d) ==
    /\ pc[t] = "inline"
    /\ d \in todo[t]
    /\ todo' = [todo EXCEPT ![t] = IF compiled[d] # 0 THEN @ \ {d} ELSE {}]
    /\ IF compiled[d] # 0 THEN UNCHANGED <<pc, outcome, frames>> ELSE Abort(t, "rejected")
    /\ UNCHANGED <<store, compiled, want, src, history>>

RunInline(t) ==
    /\ pc[t] = "inline"
    /\ todo[t] = {}
    /\ Goto(t, "run")
    /\ UNCHANGED <<store, compiled, want, src, todo, frames, outcome, history>>

--------------------------------------------------------------------------------
(* The host: it changes its storage and then tells the registry.           *)

\* Some actor other than h is about to cache a source of n that storage no longer holds.
Overtaken(h, n) ==
    \E a \in Actors \ {h} : pc[a] = "resolve" /\ want[a] = n /\ src[a] # stored[n]

Settle(h, n, reached) ==
    unsettled' = IF reached /\ ~Overtaken(h, n) THEN unsettled \ {n} ELSE unsettled \cup {n}

Publish(h, n, next) ==
    /\ pc[h] = "idle"
    /\ version[n] < MaxVersion
    /\ version' = [version EXCEPT ![n] = @ + 1]
    /\ stored' = [stored EXCEPT ![n] = version[n] + 1]
    /\ want' = [want EXCEPT ![h] = n]
    /\ src' = [src EXCEPT ![h] = IF next = "resolve" THEN version[n] + 1 ELSE 0]
    /\ todo' = [todo EXCEPT ![h] = IF next = "resolve" THEN Deps[n] ELSE {}]
    /\ Goto(h, next)
    /\ UNCHANGED <<compiled, frames, outcome, history>>

Delete(h, n) ==
    /\ pc[h] = "idle"
    /\ CanDelete /\ stored[n] # 0
    /\ stored' = [stored EXCEPT ![n] = 0]
    /\ want' = [want EXCEPT ![h] = n]
    /\ Goto(h, "invalidate")
    /\ UNCHANGED <<version, compiled, src, todo, frames, outcome, history>>

Invalidate(h) ==
    /\ pc[h] = "invalidate"
    /\ compiled' = [compiled EXCEPT ![want[h]] = 0]
    /\ Settle(h, want[h], TRUE)
    /\ dropped' = dropped \cup {t \in Threads : pc[t] = "reread" /\ want[t] = want[h]}
    /\ Goto(h, "idle")
    /\ UNCHANGED <<store, want, src, todo, frames, outcome>>

\* Mutant: a name that is cached already is not replaced.
RegisterIfAbsent(h) ==
    /\ pc[h] = "resolve"
    /\ todo[h] = {}
    /\ compiled' = [compiled EXCEPT ![want[h]] = IF @ = 0 THEN src[h] ELSE @]
    /\ Settle(h, want[h], src[h] = stored[want[h]])
    /\ src' = [src EXCEPT ![h] = 0]
    /\ Goto(h, "idle")
    /\ UNCHANGED <<store, want, todo, frames, outcome, dropped>>

\* Register, called by the host with the source it has just stored.
Register(h) ==
    /\ pc[h] = "resolve"
    /\ todo[h] = {}
    /\ compiled' = [compiled EXCEPT ![want[h]] = src[h]]
    /\ Settle(h, want[h], src[h] = stored[want[h]])
    /\ src' = [src EXCEPT ![h] = 0]
    /\ Goto(h, "idle")
    /\ UNCHANGED <<store, want, todo, frames, outcome, dropped>>

\* Register returns the compile error and leaves the cache as it was.
RegisterFails(h, d) ==
    /\ pc[h] = "resolve"
    /\ d \in todo[h]
    /\ compiled[d] = 0
    /\ LoaderMisses(d)
    /\ Settle(h, want[h], FALSE)
    /\ src' = [src EXCEPT ![h] = 0]
    /\ todo' = [todo EXCEPT ![h] = {}]
    /\ Goto(h, "idle")
    /\ UNCHANGED <<store, compiled, want, frames, outcome, dropped>>

--------------------------------------------------------------------------------
Step(t) ==
    \/ LookupHit(t) \/ LookupMiss(t) \/ Load(t) \/ LoadFails(t) \/ Cache(t) \/ Reread(t)
    \/ Return(t) \/ RunInline(t)
    \/ \E d \in Names : Resolve(t, d) \/ ResolveFails(t, d) \/ CallDep(t, d) \/ ResolveInline(t, d)

HostStep(h) ==
    \/ \E n \in Names : Delete(h, n) \/ \E next \in {"invalidate", "resolve"} : Publish(h, n, next)
    \/ Invalidate(h) \/ Register(h)
    \/ \E d \in Names : Resolve(h, d) \/ RegisterFails(h, d)

Begin(t) == (\E n \in Names : Execute(t, n)) \/ (\E ds \in InlineDeps : ExecuteInline(t, ds))

Next == (\E t \in Threads : Begin(t) \/ Step(t)) \/ (\E h \in Hosts : HostStep(h))

Spec == Init /\ [][Next]_vars

\* A goroutine that has begun an execution is scheduled until it ends.
FairSpec == Spec /\ \A t \in Threads : WF_vars(Step(t))

--------------------------------------------------------------------------------
TypeOK ==
    /\ stored \in [Names -> Versions] /\ version \in [Names -> Versions]
    /\ compiled \in [Names -> Versions]
    /\ pc \in [Actors -> {"idle", "lookup", "load", "resolve", "reread", "run", "inline", "invalidate"}]
    /\ want \in [Actors -> Names \cup {NoName, Inline}]
    /\ src \in [Actors -> Versions]
    /\ todo \in [Actors -> SUBSET Names]
    /\ frames \in [Threads -> Seq([fn : Names \cup {Inline}, ver : Versions, calls : SUBSET Names])]
    /\ outcome \in [Threads -> {"none", "ok", "not found", "too deep", "rejected"}]
    /\ unsettled \subseteq Names /\ dropped \subseteq Threads

\* A publication the host has not told the registry about yet.
Publishing(n) == \E h \in Hosts : want[h] = n /\ pc[h] \in {"resolve", "invalidate"}

\* A cached function is the stored one, unless its publication is still on its
\* way to the registry or missed it: a read-through fill that took the older
\* source before the publication and cached it after (GetCompiled holds no lock
\* from the loader to Register), or a registration that was refused.  Nothing
\* else lets the cache serve an old version.
StaleOnlyWhenOvertaken ==
    \A n \in Names : compiled[n] \notin {0, stored[n]} => Publishing(n) \/ n \in unsettled

\* An execution of functions the host stores and never deletes, with a loader
\* that does not fail, ends "not found" for one reason only: an Invalidate
\* between GetCompiled's Register and its second look into the map.
NotFoundOnlyWhenDropped ==
    \A t \in Threads : outcome[t] = "not found" => t \in dropped

\* However functions come to call each other, by re-registration or through
\* the loader, and whatever is invalidated meanwhile, an execution has at most
\* MaxDepth functions below the outermost one.
DepthBounded == MaxDepth > 0 => \A t \in Threads : Len(frames[t]) <= MaxDepth + 1

\* Every frame runs a version that was published, of the function its caller
\* named: the cache never hands out one name's function for another's, and the
\* source that is compiled is the one that is cached and run.
RunsPublishedVersion ==
    \A t \in Threads : \A i \in 1 .. Len(frames[t]) :
        LET f == frames[t][i] IN
        /\ f.fn # Inline => f.ver \in 1 .. version[f.fn]
        /\ i > 1 => /\ frames[t][i - 1].fn # Inline => f.fn \in Deps[frames[t][i - 1].fn]
                    /\ f.fn \notin frames[t][i - 1].calls

\* Every execution ends, with functions that call each other too.
ExecutionsEnd == \A t \in Threads : pc[t] # "idle" ~> pc[t] = "idle"
================================================================================
