---------------------------- MODULE NameResolution -----------------------------
(***************************************************************************)
(* Which function a call names.  The compiler decides it once, in the      *)
(* order of the text (compiler/compiler.go, resolveFn); the executor       *)
(* decides it again at each call (executor/executor.go, callFunction and   *)
(* resolveViaUses), with the namespaces of the use statements that have    *)
(* been executed.  A lambda is compiled where it stands and looks the      *)
(* namespaces up when it is applied, which may be later, further down in   *)
(* the function or after it has returned.  Each name that is tried is a    *)
(* look into the registry, and the host may register functions and drop    *)
(* others between any two of them.                                         *)
(*                                                                         *)
(* The function is any function of up to MaxStmts statements.  Arguments   *)
(* and what the callees do are left out: a callee has a scope of its own   *)
(* and leaves the namespaces of its caller alone.                          *)
(***************************************************************************)
EXTENDS Integers, Sequences

CONSTANTS
    Names,        \* names that calls are written with
    Spaces,       \* namespaces that use statements name
    Legacy,       \* those of legacyBuiltinRedirect
    Intercepted,  \* spellings of debug and print
    InitialKeys,  \* what the registry may know at first
    MaxStmts,     \* bound: statements of the function
    MaxChanges,   \* bound: changes of the registry
    NoSpace

ASSUME SubsetAssumption == Legacy \subseteq Names /\ Intercepted \subseteq Names
ASSUME BoundAssumption == MaxStmts \in Nat /\ MaxChanges \in Nat
ASSUME NoSpaceAssumption == NoSpace \notin Spaces

\* What the registry knows functions by: the bare name, app:ns::name, ns::name.
Key(form, ns, n) == [form |-> form, ns |-> ns, name |-> n]
Bare(n) == Key("bare", NoSpace, n)
Keys == {Bare(n) : n \in Names} \cup {Key(form, ns, n) : form \in {"app", "plain"}, ns \in Spaces, n \in Names}

ASSUME KeysAssumption == InitialKeys \subseteq SUBSET Keys

\* What else a call may come to: the compiler's error, the executor's, or the
\* output of debug and print.
Outcome(o) == Key(o, NoSpace, NoSpace)
Rejected == Outcome("rejected")
Undefined == Outcome("undefined")
Captured == Outcome("captured")

VARIABLES
    known,      \* the keys that resolve: builtins, cached functions, the loader's
    prog,       \* the statements compiled so far
    declared,   \* compileCtx.uses
    phase,      \* "compile", "resolve", "run" or "lookup"
    pc,         \* the next statement to execute
    uses,       \* __uses__ in the scope of the activation
    lambdas,    \* the lambda expressions evaluated, by statement
    cursor,     \* how many names the current resolution has tried
    call,       \* the call being resolved or made last: its statement and its target
    learned, forgotten, changes   \* history: keys registered, and dropped, so far

registry == <<known, learned, forgotten, changes>>
text == <<prog, declared>>
run == <<pc, uses, lambdas>>
vars == <<registry, text, run, phase, cursor, call>>

NoTarget == Outcome("none")
Stmt(op, arg, target) == [op |-> op, arg |-> arg, declared |-> declared, target |-> target]

Init ==
    /\ known \in InitialKeys
    /\ prog = <<>> /\ declared = <<>>
    /\ phase = "compile"
    /\ pc = 1 /\ uses = <<>> /\ lambdas = {}
    /\ cursor = 0
    /\ call = [at |-> 0, target |-> NoTarget]
    /\ learned = {} /\ forgotten = {} /\ changes = 0

\* Namespace by namespace, the app: form before the plain one.
Tried(us, n) ==
    [k \in 1 .. 2 * Len(us) |-> Key(IF k % 2 = 1 THEN "app" ELSE "plain", us[(k + 1) \div 2], n)]

--------------------------------------------------------------------------------
(* The compiler.  An error does not stop it; it keeps the program from being run. *)

CompileUse(ns) ==
    /\ phase = "compile" /\ Len(prog) < MaxStmts
    /\ prog' = Append(prog, Stmt("use", ns, NoTarget))
    /\ declared' = Append(declared, ns)
    /\ UNCHANGED <<registry, run, phase, cursor, call>>

\* A call, by itself or as the body of a lambda, which is compiled with the
\* namespaces declared so far.
CompileCall(op, n) ==
    /\ phase = "compile" /\ Len(prog) < MaxStmts
    /\ prog' = Append(prog, Stmt(op, n, Rejected))
    /\ phase' = IF n \in Legacy THEN "compile" ELSE "resolve"
    /\ cursor' = 0
    /\ UNCHANGED <<registry, declared, run, call>>

Current == prog[Len(prog)]

\* resolveFn: the bare name first, then the declared namespaces.
ResolveKey == IF cursor = 0 THEN Bare(Current.arg) ELSE Tried(declared, Current.arg)[cursor]

ResolveHit ==
    /\ phase = "resolve" /\ cursor <= 2 * Len(declared)
    /\ ResolveKey \in known
    /\ prog' = [prog EXCEPT ![Len(prog)].target = ResolveKey]
    /\ phase' = "compile"
    /\ UNCHANGED <<registry, declared, run, cursor, call>>

ResolveMiss ==
    /\ phase = "resolve" /\ cursor <= 2 * Len(declared)
    /\ ResolveKey \notin known
    /\ cursor' = cursor + 1
    /\ UNCHANGED <<registry, text, run, phase, call>>

ResolveFails ==
    /\ phase = "resolve" /\ cursor > 2 * Len(declared)
    /\ phase' = "compile"
    /\ UNCHANGED <<registry, text, run, cursor, call>>

Accepted == \A i \in 1 .. Len(prog) : prog[i].target # Rejected

--------------------------------------------------------------------------------
(* The executor. *)

Begin ==
    /\ phase = "compile" /\ Accepted
    /\ phase' = "run"
    /\ UNCHANGED <<registry, text, run, cursor, call>>

At(op) == phase = "run" /\ pc <= Len(prog) /\ prog[pc].op = op

\* Mutant: the statement after a use is skipped.
RunUseAndNext ==
    /\ At("use")
    /\ uses' = Append(uses, prog[pc].arg)
    /\ pc' = pc + 2
    /\ UNCHANGED <<registry, text, lambdas, phase, cursor, call>>

RunUse ==
    /\ At("use")
    /\ uses' = Append(uses, prog[pc].arg)
    /\ pc' = pc + 1
    /\ UNCHANGED <<registry, text, lambdas, phase, cursor, call>>

EvalLambda ==
    /\ At("lambda")
    /\ lambdas' = lambdas \cup {pc}
    /\ pc' = pc + 1
    /\ UNCHANGED <<registry, text, uses, phase, cursor, call>>

\* callFunction for the call of statement i; debug and print are taken first,
\* whatever they are called by.
StartCall(i) ==
    /\ call' = [at |-> i, target |-> IF prog[i].arg \in Intercepted THEN Captured ELSE NoTarget]
    /\ phase' = IF prog[i].arg \in Intercepted THEN "run" ELSE "lookup"
    /\ cursor' = 1

RunCall ==
    /\ At("call")
    /\ StartCall(pc)
    /\ pc' = pc + 1
    /\ UNCHANGED <<registry, text, uses, lambdas>>

\* A lambda is applied by a builtin or by a function it was passed or returned to.
ApplyLambda(i) ==
    /\ phase = "run"
    /\ i \in lambdas
    /\ StartCall(i)
    /\ UNCHANGED <<registry, text, run>>

\* Mutant: the app: form is not tried.
LookupKeyPlain ==
    LET n == prog[call.at].arg
    IN  IF cursor <= 2 * Len(uses) THEN [Tried(uses, n)[cursor] EXCEPT !.form = "plain"] ELSE Bare(n)

\* Mutant: the namespace declared last is tried first.
LookupKeyLatestFirst ==
    LET n == prog[call.at].arg
    IN  IF cursor <= 2 * Len(uses) THEN Tried(uses, n)[2 * Len(uses) + 1 - cursor] ELSE Bare(n)

\* resolveViaUses, and after the last namespace the bare name.
LookupKey ==
    LET n == prog[call.at].arg
    IN  IF cursor <= 2 * Len(uses) THEN Tried(uses, n)[cursor] ELSE Bare(n)

LookupHit ==
    /\ phase = "lookup" /\ cursor <= 2 * Len(uses) + 1
    /\ LookupKey \in known
    /\ call' = [call EXCEPT !.target = LookupKey]
    /\ phase' = "run"
    /\ UNCHANGED <<registry, text, run, cursor>>

LookupMiss ==
    /\ phase = "lookup" /\ cursor <= 2 * Len(uses) + 1
    /\ LookupKey \notin known
    /\ cursor' = cursor + 1
    /\ UNCHANGED <<registry, text, run, phase, call>>

LookupFails ==
    /\ phase = "lookup" /\ cursor > 2 * Len(uses) + 1
    /\ call' = [call EXCEPT !.target = Undefined]
    /\ phase' = "run"
    /\ UNCHANGED <<registry, text, run, cursor>>

--------------------------------------------------------------------------------
(* The host: RegisterBuiltin, Register, its storage; Invalidate, a removal from storage. *)

Change == changes < MaxChanges /\ changes' = changes + 1

Learn(k) ==
    /\ Change
    /\ k \notin known
    /\ known' = known \cup {k} /\ learned' = learned \cup {k}
    /\ UNCHANGED <<forgotten, text, run, phase, cursor, call>>

Forget(k) ==
    /\ Change
    /\ k \in known
    /\ known' = known \ {k} /\ forgotten' = forgotten \cup {k}
    /\ UNCHANGED <<learned, text, run, phase, cursor, call>>

Next ==
    \/ \E ns \in Spaces : CompileUse(ns)
    \/ \E op \in {"call", "lambda"}, n \in Names : CompileCall(op, n)
    \/ ResolveHit \/ ResolveMiss \/ ResolveFails
    \/ Begin \/ RunUse \/ EvalLambda \/ RunCall
    \/ \E i \in 1 .. Len(prog) : ApplyLambda(i)
    \/ LookupHit \/ LookupMiss \/ LookupFails
    \/ \E k \in Keys : Learn(k) \/ Forget(k)

Spec == Init /\ [][Next]_vars

--------------------------------------------------------------------------------
Targets == Keys \cup {NoTarget, Rejected, Undefined, Captured}

TypeOK ==
    /\ known \subseteq Keys /\ learned \subseteq Keys /\ forgotten \subseteq Keys
    /\ prog \in Seq([op : {"use", "call", "lambda"}, arg : Names \cup Spaces,
                     declared : Seq(Spaces), target : Keys \cup {NoTarget, Rejected}])
    /\ declared \in Seq(Spaces) /\ uses \in Seq(Spaces)
    /\ phase \in {"compile", "resolve", "run", "lookup"}
    /\ pc \in 1 .. Len(prog) + 1
    /\ lambdas \subseteq 1 .. Len(prog)
    /\ cursor \in Nat /\ changes \in Nat
    /\ call \in [at : 0 .. Len(prog), target : Targets]

\* What compiles is found: a call that the compiler resolved, in a lambda too,
\* wherever and whenever that is applied, is not "not defined" at run time unless
\* the very function it was resolved to has been dropped since.
FoundUnlessForgotten ==
    call.target = Undefined => prog[call.at].target \in forgotten

\* A namespace in force where the call is made.
Shadows(k) == \E i \in 1 .. pc - 1 : prog[i].op = "use" /\ prog[i].arg = k.ns

\* What compiles is what runs, but for these cases: the function it was resolved
\* to has been dropped, or the one that runs has been registered since; the name
\* is also a bare one, which the compiler prefers, and a namespace declared by
\* then provides it, which the executor prefers; or it spells debug or print.
RunsWhatWasCompiled ==
    LET compiled == prog[call.at].target IN
    call.target \in Keys /\ call.target # compiled =>
        \/ compiled \in forgotten
        \/ call.target \in learned
        \/ compiled.form = "bare" /\ Shadows(call.target)
================================================================================
