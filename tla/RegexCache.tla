------------------------------ MODULE RegexCache -------------------------------
(***************************************************************************)
(* The process-wide cache of compiled patterns (stdlib/regex.go): a map    *)
(* from pattern to list element, a list of entries with the most recently  *)
(* used at the front, and one mutex held across the whole of               *)
(* compilePattern.  The goroutines of a registry that serves concurrent    *)
(* executions are the callers; each step of compilePattern is one action,  *)
(* so a caller may be overtaken between any two of them.                   *)
(***************************************************************************)
EXTENDS Integers, Sequences

CONSTANTS
    Callers,           \* goroutines evaluating regex:: builtins
    Patterns,          \* pattern strings
    ValidPatterns,     \* those regexp.Compile accepts
    PatternCacheSize,  \* 256 in the code
    NoPattern, NoCaller

ASSUME PatternCacheSizeAssumption == PatternCacheSize \in Nat \ {0}
ASSUME NoneAssumption == NoPattern \notin Patterns /\ NoCaller \notin Callers
ASSUME ValidAssumption == ValidPatterns \subseteq Patterns

VARIABLES
    mu,        \* the caller holding patternCache.mu, or NoCaller
    entries,   \* pattern -> the entry of its list element, NoEntry when absent
    order,     \* the list, front first
    pc,        \* where each caller is in compilePattern
    arg,       \* the pattern each caller asked for
    ret        \* what compilePattern returns to each caller

vars == <<mu, entries, order, pc, arg, ret>>

Outcomes == {"compiled", "error"}
Entries == [pattern : Patterns, res : Outcomes]
NoEntry == [pattern |-> NoPattern, res |-> "none"]

\* Mutant: a pattern that does not compile leaves no outcome in its entry.
CompileToNothing(p) == IF p \in ValidPatterns THEN "compiled" ELSE "none"

\* regexp.Compile: a regexp or an error, always the same one for a pattern.
Compile(p) == IF p \in ValidPatterns THEN "compiled" ELSE "error"

\* container/list, on a list given as a sequence of its values.
PushFront(e, s) == [k \in 1 .. Len(s) + 1 |-> IF k = 1 THEN e ELSE s[k - 1]]
RemoveBack(s) == [k \in 1 .. Len(s) - 1 |-> s[k]]
Holds(e, s) == \E i \in 1 .. Len(s) : s[i] = e
\* Mutant: use does not refresh an entry, so the oldest one is evicted.
KeepPlace(e, s) == s

\* An element that is no longer of the list is left where it is.
MoveToFront(e, s) ==
    IF ~Holds(e, s) THEN s
    ELSE LET i == CHOOSE j \in 1 .. Len(s) : s[j] = e
         IN  [k \in 1 .. Len(s) |-> IF k = 1 THEN e ELSE IF k <= i THEN s[k - 1] ELSE s[k]]

Init ==
    /\ mu = NoCaller
    /\ entries = [p \in Patterns |-> NoEntry]
    /\ order = <<>>
    /\ pc = [c \in Callers |-> "idle"]
    /\ arg = [c \in Callers |-> NoPattern]
    /\ ret = [c \in Callers |-> "none"]

Goto(c, l) == pc' = [pc EXCEPT ![c] = l]

\* A builtin reaches compilePattern with the pattern its arguments hold.
Call(c, p) ==
    /\ pc[c] = "idle"
    /\ Goto(c, "lock")
    /\ arg' = [arg EXCEPT ![c] = p]
    /\ ret' = [ret EXCEPT ![c] = "none"]
    /\ UNCHANGED <<mu, entries, order>>

\* Mutant: compilePattern without its Lock.
LockNothing(c) ==
    /\ pc[c] = "lock"
    /\ mu' = c
    /\ Goto(c, "lookup")
    /\ UNCHANGED <<entries, order, arg, ret>>

Lock(c) ==
    /\ pc[c] = "lock"
    /\ mu = NoCaller
    /\ mu' = c
    /\ Goto(c, "lookup")
    /\ UNCHANGED <<entries, order, arg, ret>>

Hit(c) ==
    /\ pc[c] = "lookup"
    /\ entries[arg[c]] # NoEntry
    /\ order' = MoveToFront(entries[arg[c]], order)
    /\ ret' = [ret EXCEPT ![c] = entries[arg[c]].res]
    /\ Goto(c, "unlock")
    /\ UNCHANGED <<mu, entries, arg>>

Miss(c) ==
    /\ pc[c] = "lookup"
    /\ entries[arg[c]] = NoEntry
    /\ Goto(c, "compile")
    /\ UNCHANGED <<mu, entries, order, arg, ret>>

\* Mutant: failures are not cached but tried again.
InsertOrRetry(c) ==
    /\ pc[c] = "compile"
    /\ LET e == [pattern |-> arg[c], res |-> Compile(arg[c])]
       IN  IF e.res = "error"
           THEN Goto(c, "lookup") /\ UNCHANGED <<mu, entries, order, arg, ret>>
           ELSE /\ order' = PushFront(e, order)
                /\ entries' = [entries EXCEPT ![arg[c]] = e]
                /\ ret' = [ret EXCEPT ![c] = e.res]
                /\ Goto(c, "evict")
                /\ UNCHANGED <<mu, arg>>

\* Compile and insert: the entry is cached whether or not the pattern compiled.
Insert(c) ==
    /\ pc[c] = "compile"
    /\ LET e == [pattern |-> arg[c], res |-> Compile(arg[c])]
       IN  /\ order' = PushFront(e, order)
           /\ entries' = [entries EXCEPT ![arg[c]] = e]
           /\ ret' = [ret EXCEPT ![c] = e.res]
    /\ Goto(c, "evict")
    /\ UNCHANGED <<mu, arg>>

\* Mutant: the eviction is off by one.
OverfullByTwo == Len(order) > PatternCacheSize + 1

Overfull == Len(order) > PatternCacheSize

\* Mutant: the element leaves the list and its key stays in the map.
EvictFromListOnly(c) ==
    /\ pc[c] = "evict"
    /\ order' = IF Overfull THEN RemoveBack(order) ELSE order
    /\ Goto(c, "unlock")
    /\ UNCHANGED <<mu, entries, arg, ret>>

Evict(c) ==
    /\ pc[c] = "evict"
    /\ IF Overfull
       THEN /\ order' = RemoveBack(order)
            /\ entries' = [entries EXCEPT ![order[Len(order)].pattern] = NoEntry]
       ELSE UNCHANGED <<entries, order>>
    /\ Goto(c, "unlock")
    /\ UNCHANGED <<mu, arg, ret>>

\* The deferred Unlock, and the return to the builtin.
Unlock(c) ==
    /\ pc[c] = "unlock"
    /\ mu' = NoCaller
    /\ Goto(c, "idle")
    /\ UNCHANGED <<entries, order, arg, ret>>

Critical(c) == Hit(c) \/ Miss(c) \/ Insert(c) \/ Evict(c) \/ Unlock(c)

Next == \E c \in Callers : (\E p \in Patterns : Call(c, p)) \/ Lock(c) \/ Critical(c)

Spec == Init /\ [][Next]_vars

\* A goroutine inside compilePattern keeps running, and sync.Mutex hands the
\* lock to a waiter that has waited too long, so a waiter is not overtaken for ever.
FairSpec == Spec /\ \A c \in Callers : WF_vars(Critical(c)) /\ SF_vars(Lock(c))

--------------------------------------------------------------------------------
Inside == {"lookup", "compile", "evict", "unlock"}

TypeOK ==
    /\ mu \in Callers \cup {NoCaller}
    /\ entries \in [Patterns -> Entries \cup {NoEntry}]
    /\ order \in Seq(Entries)
    /\ pc \in [Callers -> {"idle", "lock"} \cup Inside]
    /\ arg \in [Callers -> Patterns \cup {NoPattern}]
    /\ ret \in [Callers -> Outcomes \cup {"none"}]

\* The map and the list describe the same set of patterns, each once, at every
\* step and not only between calls: the map finds the element that is in the
\* list, and every element of the list can be found.  (regexCache, and the
\* delete beside order.Remove in compilePattern.)
EntriesMatchOrder ==
    /\ \A i \in 1 .. Len(order) : entries[order[i].pattern] = order[i]
    /\ \A p \in Patterns : entries[p] # NoEntry => entries[p].pattern = p /\ Holds(entries[p], order)
    /\ \A i, j \in 1 .. Len(order) : order[i].pattern = order[j].pattern => i = j

\* The bound that the cache exists for: one entry over it at most, and that only
\* while its inserter still holds the mutex on its way to the eviction.
CacheBounded ==
    Len(order) <= PatternCacheSize + (IF \E c \in Callers : pc[c] = "evict" THEN 1 ELSE 0)

\* A caller on its way out holds the result of its own pattern, whoever compiled
\* it, and its pattern is still cached at the front: no call evicts its own entry.
AnswersOwnPattern ==
    \A c \in Callers : pc[c] = "unlock" =>
        /\ ret[c] = Compile(arg[c])
        /\ Len(order) > 0 /\ order[1].pattern = arg[c]

\* Every call of compilePattern returns, however many others compete for the mutex.
EveryCallReturns == \A c \in Callers : pc[c] = "lock" ~> pc[c] = "idle"

--------------------------------------------------------------------------------
\* The cache as the builtins see it: a call has its effect when it has the
\* answer and the list is within its bound again.
Served(c) == pc[c] \in {"unlock", "idle"}
Memo == INSTANCE PatternMemo WITH
    asked <- [c \in Callers |-> IF pc[c] = "idle" THEN NoPattern ELSE arg[c]],
    answer <- [c \in Callers |-> IF Served(c) THEN ret[c] ELSE "none"],
    recent <- IF \E c \in Callers : pc[c] = "evict"
              THEN [k \in 1 .. Len(order) - 1 |-> order[k + 1].pattern]
              ELSE [k \in 1 .. Len(order) |-> order[k].pattern]

\* The cache is a least-recently-used memo of the pattern compiler: every step
\* of it is a step of the atomic specification or none.
\* While an inserter has pushed its element but not evicted yet, the memo is
\* still the one before the insertion.
ImplementsMemo == Memo!MemoSpec
================================================================================
