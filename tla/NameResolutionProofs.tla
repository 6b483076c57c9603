------------------------- MODULE NameResolutionProofs --------------------------
(***************************************************************************)
(* The two resolutions of a name agree, for any names, namespaces and      *)
(* registry, and for functions and lives of any length.                    *)
(***************************************************************************)
EXTENDS NameResolution, SequenceTheorems, TLAPS

Begins(s, t) == Len(s) <= Len(t) /\ \A k \in 1 .. Len(s) : t[k] = s[k]

\* Known now only if it has been registered since the start.
Fresh(k) == k \in known => k \in learned

Running == phase \in {"run", "lookup"}

\* The namespaces a statement is compiled with are those of the statement
\* before it, and that statement's own if it is a use.
NextDeclared(i) == IF i = Len(prog) THEN declared ELSE prog[i + 1].declared
DeclaredInOrder ==
    /\ prog = <<>> => declared = <<>>
    /\ prog # <<>> => prog[1].declared = <<>>
    /\ \A i \in 1 .. Len(prog) :
         NextDeclared(i) = IF prog[i].op = "use" THEN Append(prog[i].declared, prog[i].arg)
                                                 ELSE prog[i].declared

\* The call the compiler is at, and the names it has passed over.
Resolving ==
    phase = "resolve" =>
        /\ prog # <<>> /\ Current.op # "use" /\ Current.target = Rejected
        /\ cursor > 0 => Fresh(Bare(Current.arg))
        /\ \A d \in 1 .. 2 * Len(declared) : d < cursor => Fresh(Tried(declared, Current.arg)[d])

\* What the compiler found was known, and nothing that it tried before.
FoundByCompiler(i) ==
    LET s == prog[i] IN
    s.target \in Keys =>
        /\ s.target \in known \cup forgotten
        /\ \/ s.target = Bare(s.arg)
           \/ /\ Fresh(Bare(s.arg))
              /\ \E c \in 1 .. 2 * Len(s.declared) :
                    /\ s.target = Tried(s.declared, s.arg)[c]
                    /\ \A d \in 1 .. c - 1 : Fresh(Tried(s.declared, s.arg)[d])
Compiled ==
    \A i \in 1 .. Len(prog) : (prog[i].op # "use" => prog[i].target # NoTarget) /\ FoundByCompiler(i)

\* Nothing runs before the text is accepted.  From then on the namespaces in
\* use are those declared at the statement that is next, hence begin with those
\* of every statement before it.
UsesAsDeclared ==
    /\ ~Running => pc = 1 /\ uses = <<>> /\ lambdas = {} /\ call = [at |-> 0, target |-> NoTarget]
    /\ Running => Accepted /\ uses = NextDeclared(pc - 1)
    /\ \A i \in 1 .. pc - 1 : Begins(prog[i].declared, uses)
    /\ \A k \in 1 .. Len(uses) : \E j \in 1 .. pc - 1 : prog[j].op = "use" /\ prog[j].arg = uses[k]

\* A call that is looked up is one that has been reached, and so is the
\* expression of every lambda that may be applied.
Reached(i) == i \in 1 .. pc - 1 /\ prog[i].op # "use"
CallsReached ==
    /\ \A i \in lambdas : Reached(i)
    /\ phase = "lookup" \/ call.target # NoTarget => Reached(call.at)
    /\ phase = "lookup" => call.target = NoTarget /\ cursor >= 1

\* The lookup has passed over what the call was resolved to only when that was gone.
PassedOver ==
    phase = "lookup" =>
        \A c \in 1 .. cursor - 1 : 
            LET n == prog[call.at].arg
                k == IF c <= 2 * Len(uses) THEN Tried(uses, n)[c] ELSE Bare(n)
            IN  prog[call.at].target = k => k \in forgotten

IInv ==
    /\ TypeOK /\ DeclaredInOrder /\ Resolving /\ Compiled
    /\ UsesAsDeclared /\ CallsReached /\ PassedOver
    /\ FoundUnlessForgotten /\ RunsWhatWasCompiled

--------------------------------------------------------------------------------
StmtSet == [op : {"use", "call", "lambda"}, arg : Names \cup Spaces,
            declared : Seq(Spaces), target : Keys \cup {NoTarget, Rejected}]

\* What a call comes to without a function is not a function.
LEMMA OutcomesAreNotKeys ==
    /\ NoTarget \notin Keys /\ Rejected \notin Keys /\ Undefined \notin Keys /\ Captured \notin Keys
    /\ NoTarget # Rejected /\ NoTarget # Undefined /\ NoTarget # Captured
    /\ Rejected # Undefined /\ Undefined # Captured
<1>1. \A k \in Keys : k.form \in {"bare", "app", "plain"}
  BY DEF Keys, Key, Bare
<1>2. /\ NoTarget.form = "none" /\ Rejected.form = "rejected"
      /\ Undefined.form = "undefined" /\ Captured.form = "captured"
  BY DEF NoTarget, Rejected, Undefined, Captured, Outcome, Key
<1>3. NoTarget \notin Keys /\ Rejected \notin Keys /\ Undefined \notin Keys /\ Captured \notin Keys
  BY <1>1, <1>2
<1>4. /\ NoTarget # Rejected /\ NoTarget # Undefined /\ NoTarget # Captured
      /\ Rejected # Undefined /\ Undefined # Captured
  BY <1>2
<1>. QED
  BY <1>3, <1>4

LEMMA TypeFacts ==
    ASSUME TypeOK
    PROVE  /\ prog \in Seq(StmtSet) /\ Len(prog) \in Nat
           /\ \A i \in 1 .. Len(prog) : prog[i] \in StmtSet
           /\ declared \in Seq(Spaces) /\ uses \in Seq(Spaces)
           /\ Len(declared) \in Nat /\ Len(uses) \in Nat
           /\ pc \in Nat /\ pc >= 1 /\ pc <= Len(prog) + 1
           /\ cursor \in Nat
<1>1. prog \in Seq(StmtSet) /\ declared \in Seq(Spaces) /\ uses \in Seq(Spaces)
  BY DEF TypeOK, StmtSet
<1>2. Len(prog) \in Nat /\ Len(declared) \in Nat /\ Len(uses) \in Nat
  BY <1>1
<1>3. \A i \in 1 .. Len(prog) : prog[i] \in StmtSet
  BY <1>1
<1>. QED
  BY <1>1, <1>2, <1>3 DEF TypeOK

LEMMA InitHolds == Init => IInv
<1>. SUFFICES ASSUME Init PROVE IInv
  OBVIOUS
<1>1. known \subseteq Keys
  BY KeysAssumption DEF Init
<1>2. /\ prog = <<>> /\ declared = <<>> /\ uses = <<>> /\ Len(prog) = 0 /\ Len(uses) = 0
      /\ lambdas = {} /\ pc = 1 /\ phase = "compile" /\ cursor = 0
      /\ call = [at |-> 0, target |-> NoTarget]
      /\ learned = {} /\ forgotten = {} /\ changes = 0
  BY DEF Init
<1>3. TypeOK
  BY <1>1, <1>2 DEF TypeOK, Targets
<1>4. DeclaredInOrder /\ Resolving
  BY <1>2 DEF DeclaredInOrder, Resolving
<1>5. Compiled /\ UsesAsDeclared
  BY <1>2 DEF Compiled, UsesAsDeclared, Running
<1>6. CallsReached /\ PassedOver /\ FoundUnlessForgotten /\ RunsWhatWasCompiled
  BY <1>2, OutcomesAreNotKeys DEF CallsReached, PassedOver, FoundUnlessForgotten, RunsWhatWasCompiled
<1>. QED
  BY <1>3, <1>4, <1>5, <1>6 DEF IInv

--------------------------------------------------------------------------------
\* The text grows by one statement.
LEMMA AppendFacts ==
    ASSUME TypeOK, NEW s \in StmtSet, prog' = Append(prog, s)
    PROVE  /\ prog' \in Seq(StmtSet) /\ Len(prog') = Len(prog) + 1 /\ Len(prog) \in Nat
           /\ prog'[Len(prog) + 1] = s /\ prog' # <<>>
           /\ \A i \in 1 .. Len(prog) : prog'[i] = prog[i]
<1>1. prog \in Seq(StmtSet) /\ Len(prog) \in Nat
  BY TypeFacts
<1>2. prog' \in Seq(StmtSet) /\ Len(prog') = Len(prog) + 1
  BY <1>1
<1>3. prog'[Len(prog) + 1] = s /\ \A i \in 1 .. Len(prog) : prog'[i] = prog[i]
  BY <1>1
<1>4. prog' # <<>>
  BY <1>1, <1>2
<1>. QED
  BY <1>1, <1>2, <1>3, <1>4

\* A statement that follows all others, compiled with the namespaces declared so far.
LEMMA AppendKeepsOrder ==
    ASSUME IInv, ~Running, NEW s \in StmtSet, prog' = Append(prog, s), s.declared = declared,
           declared' = IF s.op = "use" THEN Append(declared, s.arg) ELSE declared
    PROVE  DeclaredInOrder'
<1> DEFINE n == Len(prog)
<1>1. /\ Len(prog') = n + 1 /\ n \in Nat /\ prog'[n + 1] = s /\ prog' # <<>>
      /\ \A i \in 1 .. n : prog'[i] = prog[i]
  BY AppendFacts DEF IInv
<1>2. /\ prog = <<>> => declared = <<>>
      /\ prog # <<>> => prog[1].declared = <<>>
      /\ \A i \in 1 .. n : NextDeclared(i) = IF prog[i].op = "use" THEN Append(prog[i].declared, prog[i].arg)
                                                                   ELSE prog[i].declared
  BY DEF IInv, DeclaredInOrder
<1>3. n = 0 <=> prog = <<>>
  BY TypeFacts, EmptySeq DEF IInv
<1> HIDE DEF n
<1>4. prog'[1].declared = <<>>
  <2>1. CASE n = 0
    BY <2>1, <1>1, <1>2, <1>3
  <2>2. CASE n # 0
    BY <2>2, <1>1, <1>2, <1>3
  <2>. QED
    BY <2>1, <2>2
<1>5. ASSUME NEW i \in 1 .. n + 1
      PROVE  NextDeclared(i)' = IF prog'[i].op = "use" THEN Append(prog'[i].declared, prog'[i].arg)
                                                       ELSE prog'[i].declared
  <2>1. CASE i = n + 1
    BY <2>1, <1>1 DEF NextDeclared
  <2>2. CASE i = n /\ n # 0
    <3>1. i \in 1 .. n /\ i # n + 1
      BY <2>2, <1>1
    <3>2. NextDeclared(i)' = declared /\ NextDeclared(i) = declared
      BY <2>2, <3>1, <1>1 DEF NextDeclared, n
    <3>. QED
      BY <3>1, <3>2, <1>1, <1>2
  <2>3. CASE i < n
    <3>1. i \in 1 .. n /\ i + 1 \in 1 .. n /\ i # n + 1 /\ i # n
      BY <2>3, <1>1
    <3>2. NextDeclared(i)' = prog[i + 1].declared /\ NextDeclared(i) = prog[i + 1].declared
      BY <3>1, <1>1 DEF NextDeclared, n
    <3>. QED
      BY <3>1, <3>2, <1>1, <1>2
  <2>. QED
    BY <2>1, <2>2, <2>3, <1>1
<1>. QED
  BY <1>1, <1>4, <1>5 DEF DeclaredInOrder

\* What a change of the registry leaves true of what has been found in it.
RegistryGrows ==
    /\ known \cup forgotten \subseteq known' \cup forgotten'
    /\ forgotten \subseteq forgotten' /\ learned \subseteq learned'
    /\ known' \subseteq known \cup learned'

LEMMA RegistryFacts ==
    ASSUME UNCHANGED registry \/ \E k \in Keys : Learn(k) \/ Forget(k)
    PROVE  RegistryGrows
BY DEF registry, Learn, Forget, RegistryGrows

LEMMA FreshKept ==
    ASSUME RegistryGrows, NEW k, Fresh(k)
    PROVE  Fresh(k)'
BY DEF RegistryGrows, Fresh

\* What the compiler found in an older registry.
LEMMA FoundByCompilerKept ==
    ASSUME RegistryGrows, NEW i, prog'[i] = prog[i], FoundByCompiler(i)
    PROVE  FoundByCompiler(i)'
<1> DEFINE s == prog[i]
<1>. SUFFICES ASSUME s.target \in Keys
              PROVE  /\ s.target \in known' \cup forgotten'
                     /\ \/ s.target = Bare(s.arg)
                        \/ /\ Fresh(Bare(s.arg))'
                           /\ \E c \in 1 .. 2 * Len(s.declared) :
                                 /\ s.target = Tried(s.declared, s.arg)[c]
                                 /\ \A d \in 1 .. c - 1 : Fresh(Tried(s.declared, s.arg)[d])'
  BY DEF FoundByCompiler, Fresh
<1>1. s.target \in known \cup forgotten
  BY DEF FoundByCompiler
<1>2. CASE s.target = Bare(s.arg)
  BY <1>1, <1>2 DEF RegistryGrows
<1>3. CASE s.target # Bare(s.arg)
  <2>1. PICK c \in 1 .. 2 * Len(s.declared) :
                /\ s.target = Tried(s.declared, s.arg)[c]
                /\ \A d \in 1 .. c - 1 : Fresh(Tried(s.declared, s.arg)[d])
    BY <1>3 DEF FoundByCompiler
  <2>2. \A d \in 1 .. c - 1 : Fresh(Tried(s.declared, s.arg)[d])'
    BY <2>1, FreshKept
  <2>3. Fresh(Bare(s.arg))'
    BY <1>3, FreshKept DEF FoundByCompiler
  <2>. QED
    BY <2>1, <2>2, <2>3, <1>1 DEF RegistryGrows
<1>. QED
  BY <1>2, <1>3

\* A statement that has no function yet leaves what was found as it is.
LEMMA AppendKeepsCompiled ==
    ASSUME IInv, NEW s \in StmtSet, prog' = Append(prog, s), UNCHANGED registry,
           s.target \notin Keys, s.op # "use" => s.target # NoTarget
    PROVE  Compiled'
<1>1. /\ Len(prog') = Len(prog) + 1 /\ Len(prog) \in Nat /\ prog'[Len(prog) + 1] = s
      /\ \A i \in 1 .. Len(prog) : prog'[i] = prog[i]
  BY AppendFacts DEF IInv
<1>2. ASSUME NEW i \in 1 .. Len(prog')
      PROVE  (prog'[i].op # "use" => prog'[i].target # NoTarget) /\ FoundByCompiler(i)'
  <2>1. CASE i = Len(prog) + 1
    BY <2>1, <1>1 DEF FoundByCompiler
  <2>2. CASE i # Len(prog) + 1
    <3>1. i \in 1 .. Len(prog) /\ prog'[i] = prog[i]
      BY <2>2, <1>1
    <3>2. FoundByCompiler(i) /\ (prog[i].op # "use" => prog[i].target # NoTarget)
      BY <3>1 DEF IInv, Compiled
    <3>. QED
      BY <3>1, <3>2, RegistryFacts, FoundByCompilerKept
  <2>. QED
    BY <2>1, <2>2
<1>. QED
  BY <1>2 DEF Compiled

\* While the compiler is at work the executor has done nothing.
LEMMA CompilingKeepsRest ==
    ASSUME IInv, ~Running, ~Running', UNCHANGED <<run, call>>
    PROVE  /\ UsesAsDeclared' /\ CallsReached' /\ PassedOver'
           /\ FoundUnlessForgotten' /\ RunsWhatWasCompiled'
<1>1. pc' = 1 /\ uses' = <<>> /\ lambdas' = {} /\ call' = [at |-> 0, target |-> NoTarget]
  BY DEF IInv, UsesAsDeclared, run
<1>2. phase' # "lookup" /\ call'.target = NoTarget
  BY <1>1 DEF Running
<1>3. UsesAsDeclared'
  BY <1>1 DEF UsesAsDeclared
<1>. QED
  BY <1>1, <1>2, <1>3, OutcomesAreNotKeys
     DEF CallsReached, PassedOver, FoundUnlessForgotten, RunsWhatWasCompiled

LEMMA CompileUseKeepsInv ==
    ASSUME IInv, NEW ns \in Spaces, CompileUse(ns)
    PROVE  IInv'
<1> DEFINE s == Stmt("use", ns, NoTarget)
<1>1. s \in StmtSet
  BY TypeFacts DEF IInv, StmtSet, Stmt
<1>2. prog' = Append(prog, s) /\ declared' = Append(declared, ns) /\ phase = "compile" /\ phase' = phase
  BY DEF CompileUse
<1>3. /\ s.op = "use" /\ s.arg = ns /\ s.target = NoTarget /\ s.declared = declared
  BY DEF Stmt
<1>4. UNCHANGED <<run, call>> /\ UNCHANGED registry /\ UNCHANGED cursor
  BY DEF CompileUse
<1>5. Len(prog') = Len(prog) + 1 /\ prog' \in Seq(StmtSet) /\ Len(prog) \in Nat
  BY <1>1, <1>2, AppendFacts DEF IInv
<1>6. declared' \in Seq(Spaces)
  BY <1>2, TypeFacts DEF IInv
<1>7. ~Running /\ ~Running'
  BY <1>2 DEF Running
<1> HIDE DEF s
<1>8. TypeOK'
  BY <1>2, <1>4, <1>5, <1>6 DEF IInv, TypeOK, StmtSet, registry, run
<1>9. DeclaredInOrder'
  BY <1>1, <1>2, <1>3, <1>7, AppendKeepsOrder
<1>10. Resolving'
  BY <1>2 DEF Resolving
<1>11. Compiled'
  BY <1>1, <1>2, <1>3, <1>4, AppendKeepsCompiled, OutcomesAreNotKeys
<1>. QED
  BY <1>4, <1>7, <1>8, <1>9, <1>10, <1>11, CompilingKeepsRest DEF IInv

LEMMA CompileCallKeepsInv ==
    ASSUME IInv, NEW op \in {"call", "lambda"}, NEW n \in Names, CompileCall(op, n)
    PROVE  IInv'
<1> DEFINE s == Stmt(op, n, Rejected)
<1>1. s \in StmtSet
  BY TypeFacts DEF IInv, StmtSet, Stmt
<1>2. prog' = Append(prog, s) /\ declared' = declared /\ phase = "compile" /\ cursor' = 0
      /\ phase' \in {"compile", "resolve"}
  BY DEF CompileCall
<1>3. /\ s.op # "use" /\ s.target = Rejected /\ s.declared = declared
  BY DEF Stmt
<1>4. UNCHANGED <<run, call>> /\ UNCHANGED registry
  BY DEF CompileCall
<1>5. Len(prog') = Len(prog) + 1 /\ prog' \in Seq(StmtSet) /\ Len(prog) \in Nat
      /\ prog'[Len(prog')] = s /\ prog' # <<>>
  BY <1>1, <1>2, AppendFacts DEF IInv
<1>7. ~Running /\ ~Running'
  BY <1>2 DEF Running
<1> HIDE DEF s
<1>8. TypeOK'
  BY <1>2, <1>4, <1>5 DEF IInv, TypeOK, StmtSet, registry, run
<1>9. DeclaredInOrder'
  BY <1>1, <1>2, <1>3, <1>7, AppendKeepsOrder
<1>10. Resolving'
  <2>1. \A d \in 1 .. 2 * Len(declared') : ~(d < 0)
    BY TypeFacts, <1>2 DEF IInv
  <2>. QED
    BY <2>1, <1>2, <1>3, <1>5 DEF Resolving, Current
<1>11. Compiled'
  BY <1>1, <1>2, <1>3, <1>4, AppendKeepsCompiled, OutcomesAreNotKeys
<1>. QED
  BY <1>4, <1>7, <1>8, <1>9, <1>10, <1>11, CompilingKeepsRest DEF IInv

\* The call that the compiler is at was compiled with the namespaces declared now.
LEMMA CurrentFacts ==
    ASSUME IInv, phase = "resolve"
    PROVE  /\ Len(prog) \in Nat /\ Len(prog) > 0 /\ Current \in StmtSet
           /\ Current.op # "use" /\ Current.target = Rejected /\ Current.declared = declared
<1>1. Len(prog) \in Nat /\ Len(prog) > 0
  BY TypeFacts, EmptySeq DEF IInv, Resolving
<1>2. Current \in StmtSet /\ Current.op # "use" /\ Current.target = Rejected
  BY <1>1, TypeFacts DEF IInv, Resolving, Current
<1>3. NextDeclared(Len(prog)) = Current.declared
  BY <1>1, <1>2 DEF IInv, DeclaredInOrder, Current
<1>. QED
  BY <1>1, <1>2, <1>3 DEF NextDeclared

LEMMA ResolveHitKeepsInv ==
    ASSUME IInv, ResolveHit
    PROVE  IInv'
<1> DEFINE n == Len(prog)
           k == ResolveKey
<1>1. /\ phase = "resolve" /\ phase' = "compile" /\ cursor <= 2 * Len(declared)
      /\ k \in known /\ prog' = [prog EXCEPT ![n].target = k]
      /\ UNCHANGED registry /\ UNCHANGED <<run, call>> /\ declared' = declared /\ cursor' = cursor
  BY DEF ResolveHit
<1>2. /\ n \in Nat /\ n > 0 /\ Current \in StmtSet /\ Current.op # "use" /\ Current.declared = declared
  BY <1>1, CurrentFacts
<1>3. known \subseteq Keys /\ prog \in Seq(StmtSet) /\ Len(declared) \in Nat /\ cursor \in Nat
  BY TypeFacts DEF IInv, TypeOK
<1>4. /\ Len(prog') = n /\ prog' \in Seq(StmtSet) /\ prog' # <<>>
      /\ \A i \in 1 .. n : i # n => prog'[i] = prog[i]
      /\ prog'[n] = [Current EXCEPT !.target = k]
  <2>1. [Current EXCEPT !.target = k] \in StmtSet
    BY <1>1, <1>2, <1>3 DEF StmtSet
  <2>2. prog' = [prog EXCEPT ![n] = [Current EXCEPT !.target = k]]
    BY <1>1 DEF Current
  <2>. QED
    BY <2>1, <2>2, <1>2, <1>3
<1>5. /\ prog'[n].op = Current.op /\ prog'[n].arg = Current.arg
      /\ prog'[n].declared = declared /\ prog'[n].target = k
  BY <1>4, <1>2 DEF StmtSet
<1>6. \A i \in 1 .. n : prog'[i].op = prog[i].op /\ prog'[i].arg = prog[i].arg
                        /\ prog'[i].declared = prog[i].declared
  BY <1>2, <1>4, <1>5 DEF Current
<1>7. ~Running /\ ~Running'
  BY <1>1 DEF Running
<1>8. TypeOK'
  BY <1>1, <1>4 DEF IInv, TypeOK, StmtSet, registry, run
<1>9. DeclaredInOrder'
  <2>1. ASSUME NEW i \in 1 .. n PROVE NextDeclared(i)' = NextDeclared(i)
    BY <1>1, <1>2, <1>4, <1>6 DEF NextDeclared
  <2>2. /\ prog # <<>> /\ prog[1].declared = <<>>
        /\ \A i \in 1 .. n : NextDeclared(i) = IF prog[i].op = "use" THEN Append(prog[i].declared, prog[i].arg)
                                                                     ELSE prog[i].declared
    BY <1>1 DEF IInv, DeclaredInOrder, Resolving
  <2>. QED
    BY <2>1, <2>2, <1>2, <1>4, <1>6 DEF DeclaredInOrder
<1>10. Resolving'
  BY <1>1 DEF Resolving
<1>11. Compiled'
  <2>1. ASSUME NEW i \in 1 .. n, i # n
        PROVE  (prog'[i].op # "use" => prog'[i].target # NoTarget) /\ FoundByCompiler(i)'
    BY <2>1, <1>1, <1>4, RegistryFacts, FoundByCompilerKept DEF IInv, Compiled
  <2>2. prog'[n].target # NoTarget
    BY <1>1, <1>3, <1>5, OutcomesAreNotKeys
  <2>3. ASSUME NEW i \in 1 .. n, i = n
        PROVE  FoundByCompiler(i)'
    <3>0. /\ prog'[i].op = Current.op /\ prog'[i].arg = Current.arg
          /\ prog'[i].declared = declared /\ prog'[i].target = k
      BY <2>3, <1>5
    <3>1. k \in known' /\ \A x : Fresh(x)' = Fresh(x)
      BY <1>1 DEF registry, Fresh
    <3>2. CASE cursor = 0
      BY <3>1, <3>2, <3>0 DEF ResolveKey, FoundByCompiler
    <3>3. CASE cursor # 0
      <4>1. cursor \in 1 .. 2 * Len(declared) /\ k = Tried(declared, Current.arg)[cursor]
        BY <3>3, <1>1, <1>3 DEF ResolveKey
      <4>2. Fresh(Bare(Current.arg))
        BY <3>3, <1>1, <1>3 DEF IInv, Resolving
      <4>3. \A d \in 1 .. cursor - 1 : Fresh(Tried(declared, Current.arg)[d])
        <5>1. \A d \in 1 .. cursor - 1 : d \in 1 .. 2 * Len(declared) /\ d < cursor
          BY <4>1, <1>3
        <5>. QED
          BY <5>1, <1>1 DEF IInv, Resolving
      <4> HIDE DEF k
      <4>. QED
        BY <4>1, <4>2, <4>3, <3>1, <3>0 DEF FoundByCompiler
    <3>. QED
      BY <3>2, <3>3
  <2>. QED
    BY <2>1, <2>2, <2>3, <1>4 DEF Compiled
<1>. QED
  BY <1>1, <1>7, <1>8, <1>9, <1>10, <1>11, CompilingKeepsRest DEF IInv

\* The text and the registry are as they were.
LEMMA SameTextKept ==
    ASSUME IInv, UNCHANGED text, RegistryGrows
    PROVE  DeclaredInOrder' /\ Compiled'
<1>1. DeclaredInOrder'
  BY DEF IInv, DeclaredInOrder, NextDeclared, text
<1>2. \A i \in 1 .. Len(prog) : FoundByCompiler(i)'
  BY FoundByCompilerKept DEF IInv, Compiled, text
<1>. QED
  BY <1>1, <1>2 DEF IInv, Compiled, text

LEMMA ResolveMissKeepsInv ==
    ASSUME IInv, ResolveMiss
    PROVE  IInv'
<1>1. /\ phase = "resolve" /\ phase' = phase /\ cursor <= 2 * Len(declared)
      /\ ResolveKey \notin known /\ cursor' = cursor + 1
      /\ UNCHANGED registry /\ UNCHANGED text /\ UNCHANGED <<run, call>>
  BY DEF ResolveMiss
<1>2. cursor \in Nat /\ Len(declared) \in Nat
  BY TypeFacts DEF IInv
<1>3. ~Running /\ ~Running'
  BY <1>1 DEF Running
<1>4. TypeOK'
  BY <1>1, <1>2 DEF IInv, TypeOK, registry, run, text
<1>5. DeclaredInOrder' /\ Compiled'
  BY <1>1, SameTextKept, RegistryFacts
<1>6. Resolving'
  <2>1. prog' = prog /\ declared' = declared /\ Current' = Current /\ \A x : Fresh(x)' = Fresh(x)
    BY <1>1 DEF text, registry, Current, Fresh
  <2>2. Fresh(ResolveKey)
    BY <1>1 DEF Fresh
  <2>3. Fresh(Bare(Current.arg))
    <3>1. CASE cursor = 0
      BY <3>1, <2>2 DEF ResolveKey
    <3>2. CASE cursor # 0
      BY <3>2, <1>1, <1>2 DEF IInv, Resolving
    <3>. QED
      BY <3>1, <3>2
  <2>4. ASSUME NEW d \in 1 .. 2 * Len(declared), d < cursor + 1
        PROVE  Fresh(Tried(declared, Current.arg)[d])
    <3>1. CASE d = cursor
      <4>1. cursor # 0
        BY <3>1, <1>2
      <4>. QED
        BY <3>1, <4>1, <2>2 DEF ResolveKey
    <3>2. CASE d < cursor
      BY <3>2, <1>1 DEF IInv, Resolving
    <3>. QED
      BY <3>1, <3>2, <2>4, <1>2
  <2>5. prog # <<>> /\ Current.op # "use" /\ Current.target = Rejected
    BY <1>1 DEF IInv, Resolving
  <2>. QED
    BY <2>1, <2>3, <2>4, <2>5, <1>1 DEF Resolving
<1>. QED
  BY <1>1, <1>3, <1>4, <1>5, <1>6, CompilingKeepsRest DEF IInv

LEMMA ResolveFailsKeepsInv ==
    ASSUME IInv, ResolveFails
    PROVE  IInv'
<1>1. /\ phase = "resolve" /\ phase' = "compile" /\ cursor' = cursor
      /\ UNCHANGED registry /\ UNCHANGED text /\ UNCHANGED <<run, call>>
  BY DEF ResolveFails
<1>2. ~Running /\ ~Running'
  BY <1>1 DEF Running
<1>3. TypeOK'
  BY <1>1 DEF IInv, TypeOK, registry, run, text
<1>4. DeclaredInOrder' /\ Compiled'
  BY <1>1, SameTextKept, RegistryFacts
<1>5. Resolving'
  BY <1>1 DEF Resolving
<1>. QED
  BY <1>1, <1>2, <1>3, <1>4, <1>5, CompilingKeepsRest DEF IInv

--------------------------------------------------------------------------------
LEMMA BeginKeepsInv ==
    ASSUME IInv, Begin
    PROVE  IInv'
<1>1. /\ phase = "compile" /\ phase' = "run" /\ Accepted /\ cursor' = cursor /\ call' = call
      /\ UNCHANGED registry /\ UNCHANGED text /\ UNCHANGED run
  BY DEF Begin
<1>2. /\ pc = 1 /\ uses = <<>> /\ lambdas = {} /\ call = [at |-> 0, target |-> NoTarget]
  BY <1>1 DEF IInv, UsesAsDeclared, Running
<1>3. prog' = prog /\ declared' = declared /\ pc' = 1 /\ uses' = <<>> /\ lambdas' = {} /\ call'.target = NoTarget
  BY <1>1, <1>2 DEF text, run
<1>4. TypeOK'
  BY <1>1, <1>3 DEF IInv, TypeOK, registry, run
<1>5. DeclaredInOrder' /\ Compiled'
  BY <1>1, SameTextKept, RegistryFacts
<1>6. UsesAsDeclared'
  <2>1. (NextDeclared(0))' = <<>>
    <3>1. prog = <<>> <=> Len(prog) = 0
      BY TypeFacts, EmptySeq DEF IInv
    <3>2. CASE prog = <<>>
      BY <3>1, <3>2, <1>3 DEF IInv, DeclaredInOrder, NextDeclared
    <3>3. CASE prog # <<>>
      BY <3>1, <3>3, <1>3 DEF IInv, DeclaredInOrder, NextDeclared
    <3>. QED
      BY <3>2, <3>3
  <2>2. Accepted'
    BY <1>1, <1>3 DEF Accepted
  <2>3. pc' - 1 = 0 /\ Len(uses') = 0
    BY <1>3
  <2>. QED
    BY <2>1, <2>2, <2>3, <1>1, <1>3 DEF UsesAsDeclared, Running
<1>7. Resolving'
  BY <1>1 DEF Resolving
<1>8. CallsReached' /\ PassedOver' /\ FoundUnlessForgotten' /\ RunsWhatWasCompiled'
  BY <1>1, <1>3, OutcomesAreNotKeys DEF CallsReached, PassedOver, FoundUnlessForgotten, RunsWhatWasCompiled
<1>. QED
  BY <1>4, <1>5, <1>6, <1>7, <1>8 DEF IInv

\* The next statement is executed, and what was reached or declared before it still is.
LEMMA NextStatementFacts ==
    ASSUME IInv, phase = "run", pc <= Len(prog), UNCHANGED text, pc' = pc + 1,
           uses' = IF prog[pc].op = "use" THEN Append(uses, prog[pc].arg) ELSE uses,
           phase' \in {"run", "lookup"}
    PROVE  /\ UsesAsDeclared' /\ pc' \in 1 .. Len(prog') + 1 /\ uses' \in Seq(Spaces)
           /\ \A i : Reached(i) => Reached(i)'
           /\ \A k : Shadows(k) => Shadows(k)'
<1>1. /\ prog' = prog /\ declared' = declared /\ pc \in Nat /\ pc >= 1 /\ Len(prog) \in Nat
      /\ pc \in 1 .. Len(prog) /\ uses \in Seq(Spaces) /\ Len(uses) \in Nat
      /\ prog[pc] \in StmtSet
  BY TypeFacts DEF text, IInv
<1>2. Accepted /\ uses = NextDeclared(pc - 1)
  BY DEF IInv, UsesAsDeclared, Running
<1>3. uses = prog[pc].declared
  BY <1>1, <1>2 DEF NextDeclared
<1>4. uses' = NextDeclared(pc)
  BY <1>1, <1>3 DEF IInv, DeclaredInOrder
<1>5. uses' \in Seq(Spaces)
  <2>1. CASE pc = Len(prog)
    BY <2>1, <1>4, TypeFacts DEF NextDeclared, IInv
  <2>2. CASE pc # Len(prog)
    <3>1. prog[pc + 1] \in StmtSet
      BY <2>2, <1>1, TypeFacts DEF IInv
    <3>. QED
      BY <3>1, <2>2, <1>4 DEF NextDeclared, StmtSet
  <2>. QED
    BY <2>1, <2>2
<1>6. NextDeclared(pc - 1)' = NextDeclared(pc)
  <2>1. pc' - 1 = pc
    BY <1>1
  <2>. QED
    BY <1>1, <2>1 DEF NextDeclared
<1>7. /\ Len(uses') = IF prog[pc].op = "use" THEN Len(uses) + 1 ELSE Len(uses)
      /\ \A k \in 1 .. Len(uses) : uses'[k] = uses[k]
      /\ prog[pc].op = "use" => uses'[Len(uses) + 1] = prog[pc].arg
  <2>1. CASE prog[pc].op = "use"
    <3>. DEFINE a == prog[pc].arg
    <3>1. uses' = Append(uses, a)
      BY <2>1
    <3>2. a \in Names \cup Spaces
      BY <1>1 DEF StmtSet
    <3>3. uses \in Seq(Names \cup Spaces)
      BY <1>1
    <3> HIDE DEF a
    <3>4. /\ Len(uses') = Len(uses) + 1 /\ uses'[Len(uses) + 1] = a
          /\ \A k \in 1 .. Len(uses) : uses'[k] = uses[k]
      BY <3>1, <3>2, <3>3
    <3>. QED
      BY <2>1, <3>4 DEF a
  <2>2. CASE prog[pc].op # "use"
    BY <2>2
  <2>. QED
    BY <2>1, <2>2
<1>8. ASSUME NEW i \in 1 .. pc
      PROVE  Begins(prog[i].declared, uses')
  <2>1. CASE i = pc
    BY <2>1, <1>1, <1>3, <1>7 DEF Begins
  <2>2. CASE i # pc
    <3>1. Begins(prog[i].declared, uses) /\ prog[i] \in StmtSet
      BY <2>2, <1>1, TypeFacts DEF IInv, UsesAsDeclared
    <3>2. Len(prog[i].declared) \in Nat
      BY <3>1 DEF StmtSet
    <3>. QED
      BY <3>1, <3>2, <1>1, <1>7 DEF Begins
  <2>. QED
    BY <2>1, <2>2
<1>9. ASSUME NEW k \in 1 .. Len(uses')
      PROVE  \E j \in 1 .. pc : prog[j].op = "use" /\ prog[j].arg = uses'[k]
  <2>1. CASE k \in 1 .. Len(uses)
    <3>1. PICK j \in 1 .. pc - 1 : prog[j].op = "use" /\ prog[j].arg = uses[k]
      BY <2>1 DEF IInv, UsesAsDeclared
    <3>. QED
      BY <3>1, <2>1, <1>1, <1>7
  <2>2. CASE k \notin 1 .. Len(uses)
    <3>1. k = Len(uses) + 1 /\ prog[pc].op = "use"
      BY <2>2, <1>1, <1>7
    <3>. QED
      BY <3>1, <1>1, <1>7
  <2>. QED
    BY <2>1, <2>2
<1>10. UsesAsDeclared'
  <2>1. Accepted'
    BY <1>1, <1>2 DEF Accepted
  <2>2. 1 .. pc' - 1 = 1 .. pc
    BY <1>1
  <2>3. \A i \in 1 .. pc' - 1 : Begins(prog'[i].declared, uses')
    BY <2>2, <1>1, <1>8
  <2>4. \A k \in 1 .. Len(uses') : \E j \in 1 .. pc' - 1 : prog'[j].op = "use" /\ prog'[j].arg = uses'[k]
    BY <2>2, <1>1, <1>9
  <2>. QED
    BY <2>1, <2>3, <2>4, <1>4, <1>6 DEF UsesAsDeclared, Running, Begins
<1>11. 1 .. pc - 1 \subseteq 1 .. pc' - 1
  BY <1>1
<1>. QED
  BY <1>1, <1>5, <1>10, <1>11 DEF Reached, Shadows

\* Of what a call came to, nothing changes but what comes to be in force or dropped.
LEMMA SameCallKept ==
    ASSUME IInv, UNCHANGED <<text, call>>, RegistryGrows,
           \A k : Shadows(k) => Shadows(k)'
    PROVE  FoundUnlessForgotten' /\ RunsWhatWasCompiled'
<1>1. prog' = prog /\ call' = call /\ forgotten \subseteq forgotten' /\ learned \subseteq learned'
  BY DEF text, RegistryGrows
<1>2. FoundUnlessForgotten'
  BY <1>1 DEF IInv, FoundUnlessForgotten
<1>3. RunsWhatWasCompiled'
  BY <1>1 DEF IInv, RunsWhatWasCompiled
<1>. QED
  BY <1>2, <1>3

LEMMA RunUseKeepsInv ==
    ASSUME IInv, RunUse
    PROVE  IInv'
<1>1. /\ phase = "run" /\ phase' = phase /\ pc <= Len(prog) /\ prog[pc].op = "use"
      /\ UNCHANGED registry /\ UNCHANGED text /\ lambdas' = lambdas /\ cursor' = cursor /\ call' = call
      /\ uses' = Append(uses, prog[pc].arg) /\ pc' = pc + 1
  BY DEF RunUse, At
<1>2. /\ UsesAsDeclared' /\ pc' \in 1 .. Len(prog') + 1 /\ uses' \in Seq(Spaces)
      /\ \A i : Reached(i) => Reached(i)'
      /\ \A k : Shadows(k) => Shadows(k)'
  BY <1>1, NextStatementFacts
<1>3. TypeOK'
  BY <1>1, <1>2 DEF IInv, TypeOK, registry, text
<1>4. DeclaredInOrder' /\ Compiled'
  BY <1>1, SameTextKept, RegistryFacts
<1>5. FoundUnlessForgotten' /\ RunsWhatWasCompiled'
  BY <1>1, <1>2, SameCallKept, RegistryFacts
<1>6. Resolving' /\ PassedOver' /\ CallsReached'
  BY <1>1, <1>2 DEF IInv, Resolving, PassedOver, CallsReached
<1>. QED
  BY <1>2, <1>3, <1>4, <1>5, <1>6 DEF IInv

LEMMA EvalLambdaKeepsInv ==
    ASSUME IInv, EvalLambda
    PROVE  IInv'
<1>1. /\ phase = "run" /\ phase' = phase /\ pc <= Len(prog) /\ prog[pc].op = "lambda"
      /\ UNCHANGED registry /\ UNCHANGED text /\ uses' = uses /\ cursor' = cursor /\ call' = call
      /\ lambdas' = lambdas \cup {pc} /\ pc' = pc + 1
  BY DEF EvalLambda, At
<1>2. /\ UsesAsDeclared' /\ pc' \in 1 .. Len(prog') + 1 /\ uses' \in Seq(Spaces)
      /\ \A i : Reached(i) => Reached(i)'
      /\ \A k : Shadows(k) => Shadows(k)'
  BY <1>1, NextStatementFacts
<1>3. pc \in 1 .. Len(prog) /\ \A i : i = pc => Reached(i)'
  BY <1>1, TypeFacts DEF Reached, text, IInv
<1>4. TypeOK'
  BY <1>1, <1>2, <1>3 DEF IInv, TypeOK, registry, text
<1>5. DeclaredInOrder' /\ Compiled'
  BY <1>1, SameTextKept, RegistryFacts
<1>6. FoundUnlessForgotten' /\ RunsWhatWasCompiled'
  BY <1>1, <1>2, SameCallKept, RegistryFacts
<1>7. CallsReached'
  <2>1. \A i \in lambdas' : Reached(i)'
    BY <1>1, <1>2, <1>3 DEF IInv, CallsReached
  <2>. QED
    BY <2>1, <1>1, <1>2 DEF IInv, CallsReached
<1>8. Resolving' /\ PassedOver'
  BY <1>1, <1>2 DEF IInv, Resolving, PassedOver
<1>. QED
  BY <1>2, <1>4, <1>5, <1>6, <1>7, <1>8 DEF IInv

\* A call begins: nothing has been tried yet, and it has come to nothing.
LEMMA StartCallFacts ==
    ASSUME IInv, NEW i \in 1 .. Len(prog), StartCall(i), prog[i].op # "use", i \in 1 .. pc' - 1, UNCHANGED text
    PROVE  /\ call' \in [at : 0 .. Len(prog'), target : Targets] /\ cursor' \in Nat
           /\ phase' \in {"run", "lookup"}
           /\ PassedOver' /\ FoundUnlessForgotten' /\ RunsWhatWasCompiled'
           /\ phase' = "lookup" \/ call'.target # NoTarget => Reached(call.at)'
           /\ phase' = "lookup" => call'.target = NoTarget /\ cursor' >= 1
<1>1. /\ call'.at = i /\ call'.target \in {Captured, NoTarget} /\ cursor' = 1
      /\ call'.target = NoTarget <=> phase' = "lookup"
      /\ phase' \in {"run", "lookup"}
      /\ call' = [at |-> i, target |-> call'.target]
  BY OutcomesAreNotKeys DEF StartCall
<1>2. prog' = prog /\ Len(prog) \in Nat
  BY TypeFacts DEF text, IInv
<1>3. call' \in [at : 0 .. Len(prog'), target : Targets]
  BY <1>1, <1>2 DEF Targets
<1>4. PassedOver'
  BY <1>1 DEF PassedOver
<1>5. FoundUnlessForgotten' /\ RunsWhatWasCompiled'
  BY <1>1, OutcomesAreNotKeys DEF FoundUnlessForgotten, RunsWhatWasCompiled
<1>6. Reached(call.at)'
  BY <1>1, <1>2 DEF Reached
<1>. QED
  BY <1>1, <1>3, <1>4, <1>5, <1>6

LEMMA RunCallKeepsInv ==
    ASSUME IInv, RunCall
    PROVE  IInv'
<1>1. /\ phase = "run" /\ pc <= Len(prog) /\ prog[pc].op = "call" /\ StartCall(pc)
      /\ UNCHANGED registry /\ UNCHANGED text /\ uses' = uses /\ lambdas' = lambdas /\ pc' = pc + 1
  BY DEF RunCall, At
<1>2. pc \in 1 .. Len(prog) /\ pc \in 1 .. pc' - 1
  BY <1>1, TypeFacts DEF IInv
<1>3. /\ call' \in [at : 0 .. Len(prog'), target : Targets] /\ cursor' \in Nat
      /\ phase' \in {"run", "lookup"}
      /\ PassedOver' /\ FoundUnlessForgotten' /\ RunsWhatWasCompiled'
      /\ phase' = "lookup" \/ call'.target # NoTarget => Reached(call.at)'
      /\ phase' = "lookup" => call'.target = NoTarget /\ cursor' >= 1
  BY <1>1, <1>2, StartCallFacts
<1>4. /\ UsesAsDeclared' /\ pc' \in 1 .. Len(prog') + 1 /\ uses' \in Seq(Spaces)
      /\ \A i : Reached(i) => Reached(i)'
  BY <1>1, <1>3, NextStatementFacts
<1>5. TypeOK'
  BY <1>1, <1>3, <1>4 DEF IInv, TypeOK, registry, text
<1>6. DeclaredInOrder' /\ Compiled'
  BY <1>1, SameTextKept, RegistryFacts
<1>7. CallsReached'
  BY <1>1, <1>3, <1>4 DEF IInv, CallsReached
<1>8. Resolving'
  BY <1>3 DEF Resolving
<1>. QED
  BY <1>3, <1>4, <1>5, <1>6, <1>7, <1>8 DEF IInv

\* Between two calls the namespaces in use are what they were.
LEMMA SameUsesKept ==
    ASSUME IInv, Running, Running', UNCHANGED <<text, run>>
    PROVE  UsesAsDeclared' /\ (\A i : Reached(i)' = Reached(i)) /\ (\A k : Shadows(k)' = Shadows(k))
<1>1. /\ prog' = prog /\ declared' = declared /\ pc' = pc /\ uses' = uses
  BY DEF text, run
<1>2. UsesAsDeclared'
  BY <1>1 DEF IInv, UsesAsDeclared, Accepted, NextDeclared
<1>. QED
  BY <1>1, <1>2 DEF Reached, Shadows

LEMMA ApplyLambdaKeepsInv ==
    ASSUME IInv, NEW i \in 1 .. Len(prog), ApplyLambda(i)
    PROVE  IInv'
<1>1. /\ phase = "run" /\ i \in lambdas /\ StartCall(i)
      /\ UNCHANGED registry /\ UNCHANGED text /\ UNCHANGED run
  BY DEF ApplyLambda
<1>2. prog[i].op # "use" /\ i \in 1 .. pc' - 1
  BY <1>1 DEF IInv, CallsReached, Reached, run
<1>3. /\ call' \in [at : 0 .. Len(prog'), target : Targets] /\ cursor' \in Nat
      /\ phase' \in {"run", "lookup"}
      /\ PassedOver' /\ FoundUnlessForgotten' /\ RunsWhatWasCompiled'
      /\ phase' = "lookup" \/ call'.target # NoTarget => Reached(call.at)'
      /\ phase' = "lookup" => call'.target = NoTarget /\ cursor' >= 1
  BY <1>1, <1>2, StartCallFacts
<1>4. UsesAsDeclared' /\ \A j : Reached(j)' = Reached(j)
  BY <1>1, <1>3, SameUsesKept DEF Running
<1>5. TypeOK'
  BY <1>1, <1>3 DEF IInv, TypeOK, registry, text, run
<1>6. DeclaredInOrder' /\ Compiled'
  BY <1>1, SameTextKept, RegistryFacts
<1>7. CallsReached'
  BY <1>1, <1>3, <1>4 DEF IInv, CallsReached, run
<1>8. Resolving'
  BY <1>3 DEF Resolving
<1>. QED
  BY <1>3, <1>4, <1>5, <1>6, <1>7, <1>8 DEF IInv

--------------------------------------------------------------------------------
\* More namespaces are tried after those that were there, not before or between.
LEMMA TriedPrefix ==
    ASSUME NEW d \in Seq(Spaces), NEW u \in Seq(Spaces), Begins(d, u), NEW n, NEW k \in 1 .. 2 * Len(d)
    PROVE  k \in 1 .. 2 * Len(u) /\ Tried(d, n)[k] = Tried(u, n)[k]
<1>1. Len(d) \in Nat /\ Len(u) \in Nat /\ Len(d) <= Len(u)
  BY DEF Begins
<1>2. k \in 1 .. 2 * Len(u) /\ (k + 1) \div 2 \in 1 .. Len(d)
  BY <1>1
<1>3. u[(k + 1) \div 2] = d[(k + 1) \div 2]
  BY <1>2 DEF Begins
<1>. QED
  BY <1>2, <1>3 DEF Tried

\* The namespace of a name that is tried is one of those in use.
LEMMA TriedSpace ==
    ASSUME NEW u \in Seq(Spaces), NEW n, NEW k \in 1 .. 2 * Len(u)
    PROVE  \E j \in 1 .. Len(u) : Tried(u, n)[k].ns = u[j]
<1>1. Len(u) \in Nat
  OBVIOUS
<1>2. (k + 1) \div 2 \in 1 .. Len(u)
  BY <1>1
<1>. QED
  BY <1>2 DEF Tried, Key

\* The call that is looked up: the compiler found a function for it, by the bare
\* name or with namespaces that the executor tries in the same places.
LEMMA LookupFacts ==
    ASSUME IInv, phase = "lookup"
    PROVE  LET s == prog[call.at] IN
           /\ Reached(call.at) /\ call.at \in 1 .. Len(prog) /\ s.target \in Keys
           /\ s.target \in known \cup forgotten
           /\ Begins(s.declared, uses) /\ s.declared \in Seq(Spaces) /\ uses \in Seq(Spaces)
           /\ Len(uses) \in Nat /\ cursor \in Nat
           /\ \/ s.target = Bare(s.arg)
              \/ \E c \in 1 .. 2 * Len(uses) :
                    /\ s.target = Tried(uses, s.arg)[c]
                    /\ \A d \in 1 .. c - 1 : Fresh(Tried(uses, s.arg)[d])
<1> DEFINE i == call.at
           s == prog[i]
<1>1. Reached(i)
  BY DEF IInv, CallsReached
<1>2. i \in 1 .. Len(prog) /\ i \in 1 .. pc - 1 /\ s.op # "use"
  BY <1>1, TypeFacts DEF Reached, IInv
<1>3. s \in StmtSet /\ uses \in Seq(Spaces) /\ Len(uses) \in Nat /\ cursor \in Nat
  BY <1>2, TypeFacts DEF IInv
<1>4. s.target # Rejected /\ s.target # NoTarget /\ FoundByCompiler(i)
  BY <1>2 DEF IInv, UsesAsDeclared, Running, Accepted, Compiled
<1>5. s.target \in Keys
  BY <1>3, <1>4 DEF StmtSet
<1>6. Begins(s.declared, uses)
  BY <1>2 DEF IInv, UsesAsDeclared
<1>7. s.declared \in Seq(Spaces)
  BY <1>3 DEF StmtSet
<1>8. s.target \in known \cup forgotten
  BY <1>4, <1>5 DEF FoundByCompiler
<1>9. ASSUME s.target # Bare(s.arg)
      PROVE  \E c \in 1 .. 2 * Len(uses) :
                /\ s.target = Tried(uses, s.arg)[c]
                /\ \A d \in 1 .. c - 1 : Fresh(Tried(uses, s.arg)[d])
  <2>1. PICK c \in 1 .. 2 * Len(s.declared) :
                /\ s.target = Tried(s.declared, s.arg)[c]
                /\ \A d \in 1 .. c - 1 : Fresh(Tried(s.declared, s.arg)[d])
    BY <1>4, <1>5, <1>9 DEF FoundByCompiler
  <2>2. Len(s.declared) \in Nat
    BY <1>7
  <2> HIDE DEF s
  <2>3. c \in 1 .. 2 * Len(uses) /\ s.target = Tried(uses, s.arg)[c]
    BY <2>1, <1>3, <1>6, <1>7, TriedPrefix
  <2>4. ASSUME NEW d \in 1 .. c - 1
        PROVE  Fresh(Tried(uses, s.arg)[d])
    <3>1. d \in 1 .. 2 * Len(s.declared)
      BY <2>2
    <3>2. Tried(s.declared, s.arg)[d] = Tried(uses, s.arg)[d]
      BY <3>1, <1>3, <1>6, <1>7, TriedPrefix
    <3>. QED
      BY <3>2, <2>1
  <2>. QED
    BY <2>3, <2>4
<1>. QED
  BY <1>1, <1>2, <1>3, <1>5, <1>6, <1>7, <1>8, <1>9

\* What the call is resolved to is either what it was compiled to, or one of the
\* exceptions that RunsWhatWasCompiled names.
LEMMA HitIsExcused ==
    ASSUME IInv, phase = "lookup", cursor <= 2 * Len(uses) + 1, LookupKey \in known, cursor >= 1,
           LookupKey # prog[call.at].target
    PROVE  \/ prog[call.at].target \in forgotten
           \/ LookupKey \in learned
           \/ prog[call.at].target.form = "bare" /\ Shadows(LookupKey)
<1> DEFINE s == prog[call.at]
           k == LookupKey
<1>. SUFFICES ASSUME s.target \notin forgotten
              PROVE  k \in learned \/ (s.target.form = "bare" /\ Shadows(k))
  OBVIOUS
<1>1. uses \in Seq(Spaces) /\ Len(uses) \in Nat /\ cursor \in Nat
  BY LookupFacts
<1>2. k = IF cursor <= 2 * Len(uses) THEN Tried(uses, s.arg)[cursor] ELSE Bare(s.arg)
  BY DEF LookupKey
<1>3. CASE s.target = Bare(s.arg)
  <2>1. cursor \in 1 .. 2 * Len(uses) /\ k = Tried(uses, s.arg)[cursor]
    BY <1>1, <1>2, <1>3
  <2>2. PICK j \in 1 .. Len(uses) : k.ns = uses[j]
    BY <2>1, <1>1, TriedSpace
  <2>3. PICK h \in 1 .. pc - 1 : prog[h].op = "use" /\ prog[h].arg = uses[j]
    BY DEF IInv, UsesAsDeclared
  <2>4. Shadows(k)
    BY <2>2, <2>3 DEF Shadows
  <2>5. s.target.form = "bare"
    BY <1>3 DEF Bare, Key
  <2>. QED
    BY <2>4, <2>5
<1>4. CASE s.target # Bare(s.arg)
  <2>1. PICK c \in 1 .. 2 * Len(uses) :
                /\ s.target = Tried(uses, s.arg)[c]
                /\ \A d \in 1 .. c - 1 : Fresh(Tried(uses, s.arg)[d])
    BY <1>4, LookupFacts
  <2>2. CASE cursor < c
    <3>1. cursor \in 1 .. c - 1 /\ cursor <= 2 * Len(uses)
      BY <2>2, <1>1
    <3>2. k = Tried(uses, s.arg)[cursor]
      BY <3>1, <1>2
    <3>. QED
      BY <3>1, <3>2, <2>1 DEF Fresh
  <2>3. CASE cursor = c
    BY <2>1, <2>3, <1>1, <1>2
  <2>4. CASE cursor > c
    <3>1. c \in 1 .. cursor - 1 /\ c <= 2 * Len(uses)
      BY <2>4, <1>1
    <3>2. s.target = Tried(uses, s.arg)[c] => s.target \in forgotten
      BY <3>1 DEF IInv, PassedOver
    <3>. QED
      BY <3>2, <2>1
  <2>. QED
    BY <2>2, <2>3, <2>4, <1>1
<1>. QED
  BY <1>3, <1>4

LEMMA LookupHitKeepsInv ==
    ASSUME IInv, LookupHit
    PROVE  IInv'
<1>1. /\ phase = "lookup" /\ phase' = "run" /\ cursor <= 2 * Len(uses) + 1
      /\ LookupKey \in known /\ call' = [call EXCEPT !.target = LookupKey]
      /\ UNCHANGED registry /\ UNCHANGED text /\ UNCHANGED run /\ cursor' = cursor
  BY DEF LookupHit
<1>2. known \subseteq Keys /\ call \in [at : 0 .. Len(prog), target : Targets] /\ cursor \in Nat
  BY DEF IInv, TypeOK
<1>3. call' = [at |-> call.at, target |-> LookupKey] /\ call'.at = call.at /\ call'.target = LookupKey
  BY <1>1, <1>2
<1>4. prog' = prog /\ pc' = pc /\ uses' = uses /\ lambdas' = lambdas /\ learned' = learned /\ forgotten' = forgotten
  BY <1>1 DEF text, run, registry
<1>5. TypeOK'
  <2>1. call' \in [at : 0 .. Len(prog'), target : Targets]
    BY <1>1, <1>2, <1>3, <1>4 DEF Targets
  <2>. QED
    BY <2>1, <1>1 DEF IInv, TypeOK, registry, text, run
<1>6. DeclaredInOrder' /\ Compiled'
  BY <1>1, SameTextKept, RegistryFacts
<1>7. UsesAsDeclared' /\ (\A i : Reached(i)' = Reached(i)) /\ (\A k : Shadows(k)' = Shadows(k))
  BY <1>1, SameUsesKept DEF Running
<1>8. Reached(call.at)
  BY <1>1, LookupFacts
<1>9. CallsReached'
  BY <1>1, <1>3, <1>4, <1>7, <1>8 DEF IInv, CallsReached
<1>10. Resolving' /\ PassedOver'
  BY <1>1 DEF Resolving, PassedOver
<1>11. FoundUnlessForgotten'
  BY <1>1, <1>2, <1>3, OutcomesAreNotKeys DEF FoundUnlessForgotten
<1>12. cursor >= 1
  BY <1>1 DEF IInv, CallsReached
<1>13. RunsWhatWasCompiled'
  BY <1>1, <1>3, <1>4, <1>7, <1>12, HitIsExcused DEF RunsWhatWasCompiled
<1>. QED
  BY <1>5, <1>6, <1>7, <1>9, <1>10, <1>11, <1>12, <1>13 DEF IInv

LEMMA LookupMissKeepsInv ==
    ASSUME IInv, LookupMiss
    PROVE  IInv'
<1>1. /\ phase = "lookup" /\ phase' = phase /\ cursor <= 2 * Len(uses) + 1
      /\ LookupKey \notin known /\ cursor' = cursor + 1 /\ call' = call
      /\ UNCHANGED registry /\ UNCHANGED text /\ UNCHANGED run
  BY DEF LookupMiss
<1>2. prog' = prog /\ uses' = uses /\ lambdas' = lambdas /\ forgotten' = forgotten
  BY <1>1 DEF text, run, registry
<1>3. Len(uses) \in Nat /\ cursor \in Nat /\ prog[call.at].target \in known \cup forgotten
  BY <1>1, LookupFacts
<1>4. TypeOK'
  BY <1>1, <1>3 DEF IInv, TypeOK, registry, text, run
<1>5. DeclaredInOrder' /\ Compiled'
  BY <1>1, SameTextKept, RegistryFacts
<1>6. UsesAsDeclared' /\ (\A i : Reached(i)' = Reached(i)) /\ (\A k : Shadows(k)' = Shadows(k))
  BY <1>1, SameUsesKept DEF Running
<1>7. FoundUnlessForgotten' /\ RunsWhatWasCompiled'
  BY <1>1, <1>6, SameCallKept, RegistryFacts
<1>8. CallsReached'
  BY <1>1, <1>2, <1>3, <1>6 DEF IInv, CallsReached
<1>9. PassedOver'
  <2>1. ASSUME NEW c \in 1 .. cursor,
               prog[call.at].target = IF c <= 2 * Len(uses) THEN Tried(uses, prog[call.at].arg)[c]
                                                            ELSE Bare(prog[call.at].arg)
        PROVE  prog[call.at].target \in forgotten
    <3>1. CASE c = cursor
      <4>1. prog[call.at].target = LookupKey
        BY <2>1, <3>1 DEF LookupKey
      <4>. QED
        BY <4>1, <1>1, <1>3
    <3>2. CASE c # cursor
      <4>1. c \in 1 .. cursor - 1
        BY <3>2, <1>3
      <4>. QED
        BY <4>1, <2>1, <1>1 DEF IInv, PassedOver
    <3>. QED
      BY <3>1, <3>2
  <2>2. 1 .. cursor' - 1 = 1 .. cursor
    BY <1>1, <1>3
  <2>. QED
    BY <2>1, <2>2, <1>1, <1>2 DEF PassedOver
<1>10. Resolving'
  BY <1>1, <1>3 DEF Resolving
<1>. QED
  BY <1>4, <1>5, <1>6, <1>7, <1>8, <1>9, <1>10 DEF IInv

LEMMA LookupFailsKeepsInv ==
    ASSUME IInv, LookupFails
    PROVE  IInv'
<1>1. /\ phase = "lookup" /\ phase' = "run" /\ cursor > 2 * Len(uses) + 1
      /\ call' = [call EXCEPT !.target = Undefined]
      /\ UNCHANGED registry /\ UNCHANGED text /\ UNCHANGED run /\ cursor' = cursor
  BY DEF LookupFails
<1>2. call \in [at : 0 .. Len(prog), target : Targets]
  BY DEF IInv, TypeOK
<1>3. call' = [at |-> call.at, target |-> Undefined] /\ call'.at = call.at /\ call'.target = Undefined
  BY <1>1, <1>2
<1>4. prog' = prog /\ pc' = pc /\ lambdas' = lambdas /\ forgotten' = forgotten
  BY <1>1 DEF text, run, registry
<1>5. TypeOK'
  <2>1. call' \in [at : 0 .. Len(prog'), target : Targets]
    BY <1>2, <1>3, <1>4 DEF Targets
  <2>. QED
    BY <2>1, <1>1 DEF IInv, TypeOK, registry, text, run
<1>6. DeclaredInOrder' /\ Compiled'
  BY <1>1, SameTextKept, RegistryFacts
<1>7. UsesAsDeclared' /\ (\A i : Reached(i)' = Reached(i)) /\ (\A k : Shadows(k)' = Shadows(k))
  BY <1>1, SameUsesKept DEF Running
<1>8. CallsReached'
  BY <1>1, <1>3, <1>4, <1>7, LookupFacts DEF IInv, CallsReached
<1>9. FoundUnlessForgotten'
  <2> DEFINE s == prog[call.at]
  <2>1. Len(uses) \in Nat /\ cursor \in Nat
    BY <1>1, LookupFacts
  <2>2. CASE s.target = Bare(s.arg)
    <3>1. 2 * Len(uses) + 1 \in 1 .. cursor - 1 /\ ~(2 * Len(uses) + 1 <= 2 * Len(uses))
      BY <2>1, <1>1
    <3>2. s.target \in forgotten
      BY <3>1, <2>2, <1>1 DEF IInv, PassedOver
    <3>. QED
      BY <3>2, <1>3, <1>4 DEF FoundUnlessForgotten
  <2>3. CASE s.target # Bare(s.arg)
    <3>1. PICK c \in 1 .. 2 * Len(uses) : s.target = Tried(uses, s.arg)[c]
      BY <2>3, <1>1, LookupFacts
    <3>2. c \in 1 .. cursor - 1 /\ c <= 2 * Len(uses)
      BY <2>1, <1>1
    <3>3. s.target \in forgotten
      BY <3>1, <3>2, <1>1 DEF IInv, PassedOver
    <3>. QED
      BY <3>3, <1>3, <1>4 DEF FoundUnlessForgotten
  <2>. QED
    BY <2>2, <2>3
<1>10. RunsWhatWasCompiled'
  BY <1>3, OutcomesAreNotKeys DEF RunsWhatWasCompiled
<1>11. Resolving' /\ PassedOver'
  BY <1>1 DEF Resolving, PassedOver
<1>. QED
  BY <1>5, <1>6, <1>7, <1>8, <1>9, <1>10, <1>11 DEF IInv

--------------------------------------------------------------------------------
\* The host registers a function or drops one, in the middle of anything.
LEMMA ChangeKeepsInv ==
    ASSUME IInv, NEW k \in Keys, Learn(k) \/ Forget(k)
    PROVE  IInv'
<1>1. UNCHANGED text /\ UNCHANGED run /\ UNCHANGED <<phase, cursor, call>>
  BY DEF Learn, Forget
<1>2. prog' = prog /\ declared' = declared /\ pc' = pc /\ uses' = uses /\ lambdas' = lambdas
      /\ phase' = phase /\ cursor' = cursor /\ call' = call
  BY <1>1 DEF text, run
<1>3. RegistryGrows
  BY RegistryFacts
<1>4. known' \subseteq Keys /\ learned' \subseteq Keys /\ forgotten' \subseteq Keys /\ changes' \in Nat
  BY DEF IInv, TypeOK, Learn, Forget, Change
<1>5. TypeOK'
  BY <1>2, <1>4 DEF IInv, TypeOK
<1>6. DeclaredInOrder' /\ Compiled'
  BY <1>1, <1>3, SameTextKept
<1>7. Resolving'
  BY <1>2, <1>3, FreshKept DEF IInv, Resolving, Current
<1>8. UsesAsDeclared' /\ \A x : Shadows(x)' = Shadows(x)
  BY <1>2 DEF IInv, UsesAsDeclared, Accepted, NextDeclared, Running, Shadows
<1>9. CallsReached'
  BY <1>2 DEF IInv, CallsReached, Reached
<1>10. PassedOver'
  BY <1>2, <1>3 DEF IInv, PassedOver, RegistryGrows
<1>11. FoundUnlessForgotten' /\ RunsWhatWasCompiled'
  BY <1>1, <1>3, <1>8, SameCallKept
<1>. QED
  BY <1>5, <1>6, <1>7, <1>8, <1>9, <1>10, <1>11 DEF IInv

--------------------------------------------------------------------------------
\* Every state satisfies the inductive invariant.
THEOREM ResolutionInvariant == Spec => []IInv
<1>1. Init => IInv
  BY InitHolds
<1>2. ASSUME IInv, [Next]_vars
      PROVE  IInv'
  <2>1. ASSUME NEW ns \in Spaces, CompileUse(ns) PROVE IInv'
    BY <1>2, <2>1, CompileUseKeepsInv
  <2>2. ASSUME NEW op \in {"call", "lambda"}, NEW n \in Names, CompileCall(op, n) PROVE IInv'
    BY <1>2, <2>2, CompileCallKeepsInv
  <2>3. CASE ResolveHit
    BY <1>2, <2>3, ResolveHitKeepsInv
  <2>4. CASE ResolveMiss
    BY <1>2, <2>4, ResolveMissKeepsInv
  <2>5. CASE ResolveFails
    BY <1>2, <2>5, ResolveFailsKeepsInv
  <2>6. CASE Begin
    BY <1>2, <2>6, BeginKeepsInv
  <2>7. CASE RunUse
    BY <1>2, <2>7, RunUseKeepsInv
  <2>8. CASE EvalLambda
    BY <1>2, <2>8, EvalLambdaKeepsInv
  <2>9. CASE RunCall
    BY <1>2, <2>9, RunCallKeepsInv
  <2>10. ASSUME NEW i \in 1 .. Len(prog), ApplyLambda(i) PROVE IInv'
    BY <1>2, <2>10, ApplyLambdaKeepsInv
  <2>11. CASE LookupHit
    BY <1>2, <2>11, LookupHitKeepsInv
  <2>12. CASE LookupMiss
    BY <1>2, <2>12, LookupMissKeepsInv
  <2>13. CASE LookupFails
    BY <1>2, <2>13, LookupFailsKeepsInv
  <2>14. ASSUME NEW k \in Keys, Learn(k) \/ Forget(k) PROVE IInv'
    BY <1>2, <2>14, ChangeKeepsInv
  <2>15. CASE UNCHANGED vars
    <3>1. UNCHANGED <<text, run>> /\ UNCHANGED registry /\ UNCHANGED <<phase, cursor, call>>
      BY <2>15 DEF vars
    <3>. QED
      BY <3>1, <1>2
         DEF IInv, TypeOK, DeclaredInOrder, NextDeclared, Resolving, Current, Compiled, FoundByCompiler,
             Fresh, UsesAsDeclared, Running, Accepted, CallsReached, Reached, PassedOver,
             FoundUnlessForgotten, RunsWhatWasCompiled, Shadows, text, run, registry
  <2>. QED
    BY <1>2, <2>1, <2>2, <2>3, <2>4, <2>5, <2>6, <2>7, <2>8, <2>9, <2>10, <2>11, <2>12, <2>13, <2>14, <2>15
       DEF Next
<1>. QED
  BY <1>1, <1>2, PTL DEF Spec

\* The types of the resolution's state.
THEOREM ResolutionTypes == Spec => []TypeOK
<1>1. IInv => TypeOK
  BY DEF IInv
<1>. QED
  BY <1>1, ResolutionInvariant, PTL

\* What compiles is found: whatever names, namespaces and changes of the registry,
\* and wherever and whenever a lambda is applied, a call is "not defined" at run
\* time only if the function the compiler found for it has been dropped.
THEOREM WhatCompilesIsFound == Spec => []FoundUnlessForgotten
<1>1. IInv => FoundUnlessForgotten
  BY DEF IInv
<1>. QED
  BY <1>1, ResolutionInvariant, PTL

\* What compiles is what runs, but for what is dropped or registered afterwards
\* and for a bare name that a namespace in use also provides.
THEOREM WhatCompilesRuns == Spec => []RunsWhatWasCompiled
<1>1. IInv => RunsWhatWasCompiled
  BY DEF IInv
<1>. QED
  BY <1>1, ResolutionInvariant, PTL
================================================================================
