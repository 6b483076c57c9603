----------------------------- MODULE ScopesProofs ------------------------------
(***************************************************************************)
(* Scopes, closures and the scratch scope of a closure, for any names,     *)
(* values and bounds: what a lambda captured stays as it was, unless it    *)
(* stands in a for loop of a lambda, an activation sees its own bindings,  *)
(* and no two activations share an argument scope.                         *)
(*                                                                         *)
(* The chain of a scope is walked by env.get and env.snapshot, which are   *)
(* recursive functions of the address here.  Parents come before their     *)
(* children in the heap, so the functions exist, and what holds along a    *)
(* chain is shown for the least address at which it could fail.            *)
(***************************************************************************)
EXTENDS Scopes, SequenceTheorems, WellFoundedInduction, TLAPS

EnvSet == [parent : Nat, vals : Bindings, reusable : BOOLEAN]
ClosureSet == [param : Vars, env : Nat, scratch : Nat, inCall : BOOLEAN,
               seen : Bindings, looped : BOOLEAN, home : Nat]
FrameSet == [kind : {"fn", "lambda", "for"}, env : Nat, clo : Nat, reused : BOOLEAN,
             view : Bindings, home : Nat]

Typed == heap \in Seq(EnvSet) /\ closures \in Seq(ClosureSet) /\ frames \in Seq(FrameSet)

\* Parents are older than their children, so chains end.
Ordered(h) == \A e \in 1 .. Len(h) : h[e].parent \in 0 .. e - 1

\* No argument scope is the parent of another: the copying of a chain by
\* snapshot stops after one scope.
ReusableOverShared(h) ==
    \A e \in 1 .. Len(h) : h[e].reusable => h[e].parent = 0 \/ ~h[h[e].parent].reusable

\* A scope is solid when its chain holds none that is rebound.
Solid(h, A) == \A e \in A : e = 0 \/ (~h[e].reusable /\ h[e].parent \in A)
IsSolid(h, e) == \E A \in SUBSET (0 .. Len(h)) : e \in A /\ Solid(h, A)

\* What a closure refers to.
ClosureScope(h, clo) ==
    /\ clo.env \in 0 .. Len(h) /\ clo.scratch \in 0 .. Len(h)
    /\ clo.env = 0 \/ ~h[clo.env].reusable
    /\ clo.scratch # 0 => /\ clo.env < clo.scratch /\ h[clo.scratch].reusable
                          /\ h[clo.scratch].parent = clo.env
    /\ ~clo.looped => IsSolid(h, clo.env)
ClosureScopes(h, cs) == \A c \in 1 .. Len(cs) : ClosureScope(h, cs[c])

ScratchOfOne(cs) ==
    \A c, d \in 1 .. Len(cs) : cs[c].scratch # 0 /\ cs[c].scratch = cs[d].scratch => c = d

\* What an activation refers to, by its kind.
FrameScope(h, cs, fs, i) ==
    /\ fs[i].env \in 1 .. Len(h)
    /\ fs[i].kind = "fn" =>
           /\ ~h[fs[i].env].reusable /\ h[fs[i].env].parent = 0
           /\ ~fs[i].reused /\ fs[i].clo = 0
    /\ fs[i].kind = "lambda" =>
           /\ fs[i].clo \in 1 .. Len(cs)
           /\ h[fs[i].env].reusable /\ h[fs[i].env].parent = cs[fs[i].clo].env
    /\ fs[i].kind = "for" =>
           /\ i > 1 /\ ~h[fs[i].env].reusable /\ h[fs[i].env].parent = fs[i - 1].env
           /\ ~fs[i].reused /\ fs[i].clo = 0
FrameScopes(h, cs, fs) == \A i \in 1 .. Len(fs) : FrameScope(h, cs, fs, i)

\* A call that runs in the closure's own scope has set inCall, and one that does
\* not runs in a scope that is no closure's own.
InUse(cs, f) ==
    f.kind = "lambda" =>
        /\ f.reused => cs[f.clo].inCall /\ f.env = cs[f.clo].scratch
        /\ ~f.reused => \A c \in 1 .. Len(cs) : f.env # cs[c].scratch
ScratchInUse(cs, fs) == \A i \in 1 .. Len(fs) : InUse(cs, fs[i])

\* The activation is not, at any nesting of loops, in the body of a lambda that
\* stands in a for loop of a lambda.
Clean(cs, fs, i) ==
    \A k \in 1 .. i :
        fs[k].kind = "lambda" /\ (\A j \in k + 1 .. i : fs[j].kind = "for") => ~cs[fs[k].clo].looped

Sees(h, e, view) == \A v \in Vars : View(h, e)[v] = view[v]
FramesSee(h, cs, fs) == \A i \in 1 .. Len(fs) : Clean(cs, fs, i) => Sees(h, fs[i].env, fs[i].view)
ClosuresSee(h, cs) == \A c \in 1 .. Len(cs) : ~cs[c].looped => Sees(h, cs[c].env, cs[c].seen)

\* The chains of the scopes in A end with the scope r.
Rooted(h, A, r) ==
    \A a \in A : IF h[a].parent = 0 THEN a = r ELSE h[a].parent \in A
IsRooted(h, e, r) == \E A \in SUBSET (1 .. Len(h)) : e \in A /\ Rooted(h, A, r)

\* The chain of every closure and activation ends with the scope of the function
\* body it stands in, and that is none of a function called since.
AtHome(h, x) == x.home \in 1 .. Len(h) /\ IsRooted(h, x.env, x.home)
ClosureHomes(h, cs) == \A c \in 1 .. Len(cs) : AtHome(h, cs[c])
FrameHomes(h, fs) ==
    \A i \in 1 .. Len(fs) :
        /\ AtHome(h, fs[i])
        /\ fs[i].kind = "fn" =>
               fs[i].home = fs[i].env /\ \A j \in 1 .. i - 1 : fs[j].home # fs[i].env

IInv ==
    /\ Typed
    /\ Ordered(heap) /\ ReusableOverShared(heap)
    /\ ClosureScopes(heap, closures) /\ ScratchOfOne(closures) /\ ClosuresSee(heap, closures)
    /\ FrameScopes(heap, closures, frames) /\ ScratchInUse(closures, frames)
    /\ ScratchExclusive /\ FramesSee(heap, closures, frames)
    /\ ClosureHomes(heap, closures) /\ FrameHomes(heap, frames)

--------------------------------------------------------------------------------
\* Walking a chain.

\* A set of numbers that is not empty has a least one.
LEMMA LeastNat ==
    ASSUME NEW T \in SUBSET Nat, T # {}
    PROVE  \E n \in T : \A m \in T : n <= m
<1> DEFINE R == OpToRel(<, Nat)
<1>1. IsWellFoundedOn(R, Nat)
  BY NatLessThanWellFounded
<1>2. \A x, y \in Nat : x < y => <<x, y>> \in R
  BY DEF OpToRel
<1> HIDE DEF R
<1>3. PICK n \in T : \A m \in T : ~(<<m, n>> \in R)
  BY <1>1, WFMin
<1>4. \A m \in T : m \in Nat /\ n \in Nat /\ ~(m < n)
  BY <1>2, <1>3
<1>5. \A m \in T : n <= m
  BY <1>4
<1>. QED
  BY <1>5

\* One step of env.get, when g is what it finds from the parents.
GetFrom(h, v, g, i) ==
    IF i = 0 THEN Unbound ELSE IF h[i].vals[v] # Unbound THEN h[i].vals[v] ELSE g[h[i].parent]

\* env.get finds something, or nothing, for every scope: the chain ends.
LEMMA GetExists ==
    ASSUME NEW h, NEW v, Len(h) \in Nat, Ordered(h)
    PROVE  \E g : g = [i \in 0 .. Len(h) |-> GetFrom(h, v, g, i)]
<1> DEFINE Upto(n) == \E g : g = [i \in 0 .. n |-> GetFrom(h, v, g, i)]
           T == {n \in Nat : n <= Len(h) /\ ~Upto(n)}
<1>1. ASSUME T # {} PROVE FALSE
  <2>1. PICK n \in T : \A m \in T : n <= m
    BY <1>1, LeastNat
  <2>2. n \in Nat /\ n <= Len(h) /\ ~Upto(n)
    BY <2>1
  <2>3. CASE n = 0
    <3> DEFINE g == [i \in 0 .. 0 |-> Unbound]
    <3>1. g = [i \in 0 .. 0 |-> GetFrom(h, v, g, i)]
      BY DEF GetFrom
    <3>. QED
      BY <2>2, <2>3, <3>1
  <2>4. CASE n # 0
    <3>1. n - 1 \in Nat /\ n - 1 \notin T
      BY <2>1, <2>2, <2>4
    <3>2. Upto(n - 1)
      BY <3>1, <2>2
    <3>3. PICK f : f = [i \in 0 .. n - 1 |-> GetFrom(h, v, f, i)]
      BY <3>2
    <3> DEFINE g == [i \in 0 .. n |-> IF i = n THEN GetFrom(h, v, f, n) ELSE f[i]]
    <3>4. ASSUME NEW i \in 0 .. n PROVE GetFrom(h, v, g, i) = GetFrom(h, v, f, i)
      <4>1. i # 0 => h[i].parent \in 0 .. n - 1
        BY <2>2 DEF Ordered
      <4>2. i # 0 => g[h[i].parent] = f[h[i].parent]
        BY <4>1, <2>2
      <4>. QED
        BY <4>2 DEF GetFrom
    <3>5. \A i \in 0 .. n : g[i] = GetFrom(h, v, f, i)
      BY <3>3, <2>2
    <3>6. g = [i \in 0 .. n |-> GetFrom(h, v, g, i)]
      BY <3>4, <3>5
    <3>. QED
      BY <3>6, <2>2
  <2>. QED
    BY <2>3, <2>4
<1>2. Upto(Len(h))
  BY <1>1
<1>. QED
  BY <1>2

\* env.get takes the scope's own binding, or else its parent's.
LEMMA ViewUnfolds ==
    ASSUME NEW h, Len(h) \in Nat, Ordered(h), NEW e \in 0 .. Len(h), NEW v \in Vars
    PROVE  View(h, e)[v] = IF e = 0 THEN Unbound
                           ELSE IF h[e].vals[v] # Unbound THEN h[e].vals[v]
                           ELSE View(h, h[e].parent)[v]
<1> DEFINE get == CHOOSE g : g = [i \in 0 .. Len(h) |->
                     IF i = 0 THEN Unbound
                     ELSE IF h[i].vals[v] # Unbound THEN h[i].vals[v] ELSE g[h[i].parent]]
<1>1. \A i : View(h, i)[v] = get[i]
  BY DEF View
<1>2. get = [i \in 0 .. Len(h) |->
                IF i = 0 THEN Unbound
                ELSE IF h[i].vals[v] # Unbound THEN h[i].vals[v] ELSE get[h[i].parent]]
  <2>1. \E g : g = [i \in 0 .. Len(h) |->
                     IF i = 0 THEN Unbound
                     ELSE IF h[i].vals[v] # Unbound THEN h[i].vals[v] ELSE g[h[i].parent]]
    BY GetExists DEF GetFrom
  <2>. QED
    BY <2>1
<1> HIDE DEF get
<1>3. get[e] = IF e = 0 THEN Unbound
               ELSE IF h[e].vals[v] # Unbound THEN h[e].vals[v] ELSE get[h[e].parent]
  BY <1>2
<1>. QED
  BY <1>1, <1>3

\* env.snapshot copies the scope when it is an argument scope, and no other.
LEMMA SnapshotIs ==
    ASSUME NEW h, Len(h) \in Nat, Ordered(h), ReusableOverShared(h), NEW e \in 0 .. Len(h)
    PROVE  Snapshot(h, e) = IF e = 0 \/ ~h[e].reusable THEN <<h, e>>
                            ELSE <<Append(h, Env(h[e].parent, h[e].vals, FALSE)), Len(h) + 1>>
<1> DEFINE From(g, i) ==
               IF i = 0 \/ ~h[i].reusable THEN <<h, i>>
               ELSE <<Append(g[h[i].parent][1], Env(g[h[i].parent][2], h[i].vals, FALSE)),
                      Len(g[h[i].parent][1]) + 1>>
           snap == CHOOSE g : g = [i \in 0 .. Len(h) |-> From(g, i)]
           copied == [i \in 0 .. Len(h) |->
                        IF i = 0 \/ ~h[i].reusable THEN <<h, i>>
                        ELSE <<Append(h, Env(h[i].parent, h[i].vals, FALSE)), Len(h) + 1>>]
<1>1. Snapshot(h, e) = snap[e]
  BY DEF Snapshot
<1>2. \A i \in 0 .. Len(h) : i # 0 /\ h[i].reusable
          => h[i].parent \in 0 .. Len(h) /\ (h[i].parent = 0 \/ ~h[h[i].parent].reusable)
  BY DEF Ordered, ReusableOverShared
<1>3. \A i \in 0 .. Len(h) : i # 0 /\ h[i].reusable =>
          copied[h[i].parent] = <<h, h[i].parent>>
          /\ copied[h[i].parent][1] = h /\ copied[h[i].parent][2] = h[i].parent
  BY <1>2
<1>4. ASSUME NEW i \in 0 .. Len(h) PROVE From(copied, i) = copied[i]
  <2>1. CASE i = 0 \/ ~h[i].reusable
    BY <2>1
  <2>2. CASE ~(i = 0 \/ ~h[i].reusable)
    <3>1. copied[h[i].parent][1] = h /\ copied[h[i].parent][2] = h[i].parent
      BY <2>2, <1>3
    <3>2. copied[i] = <<Append(h, Env(h[i].parent, h[i].vals, FALSE)), Len(h) + 1>>
      BY <2>2
    <3> HIDE DEF copied
    <3>. QED
      BY <2>2, <3>1, <3>2
  <2>. QED
    BY <2>1, <2>2
<1>5. copied = [i \in 0 .. Len(h) |-> From(copied, i)]
  BY <1>4
<1>6. snap = [i \in 0 .. Len(h) |-> From(snap, i)]
  BY <1>5
<1> HIDE DEF snap, copied
<1>7. \A i \in 0 .. Len(h) : snap[i] = From(snap, i)
  BY <1>6
<1>8. ASSUME NEW i \in 0 .. Len(h), i # 0, h[i].reusable
      PROVE  snap[h[i].parent][1] = h /\ snap[h[i].parent][2] = h[i].parent
  <2>1. snap[h[i].parent] = <<h, h[i].parent>>
    BY <1>2, <1>7, <1>8
  <2>. QED
    BY <2>1
<1>9. snap[e] = IF e = 0 \/ ~h[e].reusable THEN <<h, e>>
                ELSE <<Append(h, Env(h[e].parent, h[e].vals, FALSE)), Len(h) + 1>>
  BY <1>7, <1>8
<1>. QED
  BY <1>1, <1>9

\* A is closed under parents, and nothing of its scopes changes.
Unchanged(h, h2, A) ==
    \A a \in A : a # 0 =>
        h[a].parent \in A /\ h2[a].parent = h[a].parent /\ h2[a].vals = h[a].vals

\* What is seen from such a scope stays the same.
LEMMA ViewSame ==
    ASSUME NEW h, NEW h2, Len(h) \in Nat, Len(h2) \in Nat, Len(h) <= Len(h2), Ordered(h), Ordered(h2),
           NEW A \in SUBSET (0 .. Len(h)), Unchanged(h, h2, A)
    PROVE  \A a \in A : \A v \in Vars : View(h2, a)[v] = View(h, a)[v]
<1> SUFFICES ASSUME NEW v \in Vars
             PROVE  \A a \in A : View(h2, a)[v] = View(h, a)[v]
  OBVIOUS
<1> DEFINE T == {a \in A : View(h2, a)[v] # View(h, a)[v]}
<1>1. ASSUME T # {} PROVE FALSE
  <2>1. T \in SUBSET Nat
    <3>1. \A a \in A : a \in 0 .. Len(h)
      OBVIOUS
    <3>2. \A a \in 0 .. Len(h) : a \in Nat
      OBVIOUS
    <3>. QED
      BY <3>1, <3>2
  <2>2. PICK a \in T : \A b \in T : a <= b
    BY <1>1, <2>1, LeastNat
  <2>3. /\ a \in A /\ a \in 0 .. Len(h) /\ a \in 0 .. Len(h2)
        /\ View(h2, a)[v] # View(h, a)[v]
    BY <2>2
  <2>4. View(h, a)[v] = IF a = 0 THEN Unbound
                        ELSE IF h[a].vals[v] # Unbound THEN h[a].vals[v]
                        ELSE View(h, h[a].parent)[v]
    BY <2>3, ViewUnfolds
  <2>5. View(h2, a)[v] = IF a = 0 THEN Unbound
                         ELSE IF h2[a].vals[v] # Unbound THEN h2[a].vals[v]
                         ELSE View(h2, h2[a].parent)[v]
    BY <2>3, ViewUnfolds
  <2>6. a # 0
    BY <2>3, <2>4, <2>5
  <2> DEFINE p == h[a].parent
  <2>7. p \in A /\ p \in 0 .. a - 1 /\ h2[a].parent = p /\ h2[a].vals = h[a].vals
    BY <2>3, <2>6 DEF Ordered, Unchanged
  <2>8. View(h2, p)[v] # View(h, p)[v]
    BY <2>3, <2>4, <2>5, <2>6, <2>7
  <2>9. p \in T /\ p < a
    BY <2>3, <2>7, <2>8
  <2>10. a <= p /\ a \in Nat /\ p \in Nat
    BY <2>2, <2>3, <2>7, <2>9
  <2>. QED
    BY <2>9, <2>10
<1>. QED
  BY <1>1

\* The outermost scope e gets a binding for v, and nothing else changes.
BindsAt(h, h2, e, v, val) ==
    /\ e \in 1 .. Len(h) /\ h[e].parent = 0 /\ h[e].vals[v] = Unbound
    /\ \A a \in 1 .. Len(h) :
          /\ h2[a].parent = h[a].parent
          /\ \A w \in Vars : h2[a].vals[w] = IF a = e /\ w = v THEN val ELSE h[a].vals[w]

\* It shows from a scope whose chain ends with e, where nothing nearer binds v.
Shows(h, h2, e, v, val, a, r) ==
    \A w \in Vars :
        View(h2, a)[w] = IF w = v /\ r = e /\ View(h, a)[w] = Unbound THEN val ELSE View(h, a)[w]

\* That is so, and from no other scope.
LEMMA ViewGains ==
    ASSUME NEW h, NEW h2, Len(h) \in Nat, Len(h2) \in Nat, Len(h) <= Len(h2), Ordered(h), Ordered(h2),
           NEW e, NEW v \in Vars, NEW val \in Values, BindsAt(h, h2, e, v, val),
           NEW r, NEW a0, IsRooted(h, a0, r)
    PROVE  Shows(h, h2, e, v, val, a0, r)
<1>1. PICK A \in SUBSET (1 .. Len(h)) : a0 \in A /\ Rooted(h, A, r)
  BY DEF IsRooted
<1> SUFFICES ASSUME NEW w \in Vars
             PROVE  View(h2, a0)[w] = IF w = v /\ r = e /\ View(h, a0)[w] = Unbound THEN val ELSE View(h, a0)[w]
  BY DEF Shows
<1> DEFINE Gained(a) == IF w = v /\ r = e /\ View(h, a)[w] = Unbound THEN val ELSE View(h, a)[w]
           T == {a \in A : View(h2, a)[w] # Gained(a)}
<1>2. val # Unbound
  BY UnboundAssumption
<1>3. ASSUME T # {} PROVE FALSE
  <2>1. T \in SUBSET Nat
    <3>1. \A a \in A : a \in 1 .. Len(h)
      OBVIOUS
    <3>2. \A a \in 1 .. Len(h) : a \in Nat
      OBVIOUS
    <3>. QED
      BY <3>1, <3>2
  <2>2. PICK a \in T : \A b \in T : a <= b
    BY <1>3, <2>1, LeastNat
  <2>3. /\ a \in A /\ a \in 1 .. Len(h) /\ a \in 1 .. Len(h2) /\ View(h2, a)[w] # Gained(a)
        /\ a \in 0 .. Len(h) /\ a \in 0 .. Len(h2) /\ a # 0
    BY <2>2
  <2>4. View(h, a)[w] = IF h[a].vals[w] # Unbound THEN h[a].vals[w] ELSE View(h, h[a].parent)[w]
    BY <2>3, ViewUnfolds
  <2>5. View(h2, a)[w] = IF h2[a].vals[w] # Unbound THEN h2[a].vals[w] ELSE View(h2, h2[a].parent)[w]
    BY <2>3, ViewUnfolds
  <2>6. /\ h2[a].parent = h[a].parent
        /\ h2[a].vals[w] = IF a = e /\ w = v THEN val ELSE h[a].vals[w]
        /\ h[e].parent = 0 /\ h[e].vals[v] = Unbound
    BY <2>3 DEF BindsAt
  <2>7. CASE h[a].parent = 0
    <3>1. View(h, 0)[w] = Unbound /\ View(h2, 0)[w] = Unbound
      <4>1. 0 \in 0 .. Len(h) /\ 0 \in 0 .. Len(h2)
        OBVIOUS
      <4>. QED
        BY <4>1, ViewUnfolds
    <3>2. a = r
      BY <1>1, <2>3, <2>7 DEF Rooted
    <3>. QED
      BY <1>2, <2>3, <2>4, <2>5, <2>6, <2>7, <3>1, <3>2
  <2>8. CASE h[a].parent # 0
    <3> DEFINE p == h[a].parent
    <3>1. p \in A /\ p \in 0 .. a - 1 /\ a # e
      BY <1>1, <2>3, <2>6, <2>8 DEF Rooted, Ordered
    <3>2. p \notin T
      BY <2>2, <2>3, <3>1
    <3>3. View(h2, p)[w] = Gained(p)
      BY <3>1, <3>2
    <3>. QED
      BY <2>3, <2>4, <2>5, <2>6, <3>1, <3>3
  <2>. QED
    BY <2>7, <2>8
<1>4. a0 \notin T
  BY <1>3
<1>. QED
  BY <1>1, <1>4

\* An outermost scope is the end of its own chain, and a child's chain ends where
\* its parent's does.
LEMMA RootFacts ==
    ASSUME NEW h, Len(h) \in Nat, NEW e \in 1 .. Len(h)
    PROVE  /\ h[e].parent = 0 => IsRooted(h, e, e)
           /\ \A r : IsRooted(h, h[e].parent, r) => IsRooted(h, e, r)
           /\ \A a, r : IsRooted(h, a, r) => a \in 1 .. Len(h)
<1>1. ASSUME h[e].parent = 0 PROVE IsRooted(h, e, e)
  <2>1. {e} \in SUBSET (1 .. Len(h)) /\ Rooted(h, {e}, e)
    BY <1>1 DEF Rooted
  <2>. QED
    BY <2>1 DEF IsRooted
<1>2. ASSUME NEW r, IsRooted(h, h[e].parent, r) PROVE IsRooted(h, e, r)
  <2>1. PICK A \in SUBSET (1 .. Len(h)) : h[e].parent \in A /\ Rooted(h, A, r)
    BY <1>2 DEF IsRooted
  <2>2. A \cup {e} \in SUBSET (1 .. Len(h)) /\ h[e].parent # 0
    BY <2>1
  <2>3. Rooted(h, A \cup {e}, r)
    BY <2>1, <2>2 DEF Rooted
  <2>. QED
    BY <2>2, <2>3 DEF IsRooted
<1>3. \A a, r : IsRooted(h, a, r) => a \in 1 .. Len(h)
  BY DEF IsRooted
<1>. QED
  BY <1>1, <1>2, <1>3

--------------------------------------------------------------------------------
\* What a step may do to the heap.

\* The scopes that closures and activations outside loops of lambdas look at.
Live == {e \in 0 .. Len(heap) : IsSolid(heap, e)}
          \cup {frames[i].env : i \in {j \in 1 .. Len(frames) : Clean(closures, frames, j)}}

\* Nil is solid, and a solid scope's parent is.
LEMMA SolidFacts ==
    ASSUME NEW h, Len(h) \in Nat
    PROVE  /\ IsSolid(h, 0)
           /\ \A e : IsSolid(h, e) => /\ e \in 0 .. Len(h)
                                      /\ e # 0 => ~h[e].reusable /\ IsSolid(h, h[e].parent)
<1>1. IsSolid(h, 0)
  <2>1. {0} \in SUBSET (0 .. Len(h)) /\ Solid(h, {0})
    BY DEF Solid
  <2>. QED
    BY <2>1 DEF IsSolid
<1>2. ASSUME NEW e, IsSolid(h, e)
      PROVE  e \in 0 .. Len(h) /\ (e # 0 => ~h[e].reusable /\ IsSolid(h, h[e].parent))
  BY <1>2 DEF IsSolid, Solid
<1>. QED
  BY <1>1, <1>2

\* A shared scope over a solid one is solid.
LEMMA SolidChild ==
    ASSUME NEW h, Len(h) \in Nat, NEW e \in 1 .. Len(h), ~h[e].reusable, IsSolid(h, h[e].parent)
    PROVE  IsSolid(h, e)
<1>1. PICK A \in SUBSET (0 .. Len(h)) : h[e].parent \in A /\ Solid(h, A)
  BY DEF IsSolid
<1>2. A \cup {e} \in SUBSET (0 .. Len(h))
  OBVIOUS
<1>3. Solid(h, A \cup {e})
  BY <1>1 DEF Solid
<1>. QED
  BY <1>2, <1>3 DEF IsSolid

\* What the types give of the three variables and of their elements.
LEMMA Types ==
    ASSUME IInv
    PROVE  /\ heap \in Seq(EnvSet) /\ Len(heap) \in Nat
           /\ closures \in Seq(ClosureSet) /\ Len(closures) \in Nat
           /\ frames \in Seq(FrameSet) /\ Len(frames) \in Nat
           /\ \A e \in 1 .. Len(heap) : heap[e] \in EnvSet
           /\ \A c \in 1 .. Len(closures) : closures[c] \in ClosureSet
           /\ \A i \in 1 .. Len(frames) : frames[i] \in FrameSet
  BY DEF IInv, Typed

\* The body of a loop is outside loops of lambdas when what it stands in is.
LEMMA CleanBelow ==
    ASSUME NEW cs, NEW fs, NEW i \in Nat, i > 1, fs[i].kind = "for", Clean(cs, fs, i)
    PROVE  Clean(cs, fs, i - 1)
<1> SUFFICES ASSUME NEW k \in 1 .. i - 1, fs[k].kind = "lambda",
                    \A j \in k + 1 .. i - 1 : fs[j].kind = "for"
             PROVE  ~cs[fs[k].clo].looped
  BY DEF Clean
<1>1. k \in 1 .. i /\ \A j \in k + 1 .. i : j = i \/ j \in k + 1 .. i - 1
  OBVIOUS
<1>. QED
  BY <1>1 DEF Clean

\* A lambda's body is outside loops of lambdas when the lambda is.
LEMMA CleanLambda ==
    ASSUME NEW cs, NEW fs, NEW i \in Nat, i > 0, fs[i].kind = "lambda", Clean(cs, fs, i)
    PROVE  ~cs[fs[i].clo].looped
<1>1. i \in 1 .. i /\ i + 1 .. i = {}
  OBVIOUS
<1>. QED
  BY <1>1 DEF Clean

\* Those scopes include their parents.
LEMMA LiveClosed ==
    ASSUME IInv
    PROVE  /\ Live \in SUBSET (0 .. Len(heap))
           /\ \A a \in Live : a # 0 => heap[a].parent \in Live
<1>1. Len(heap) \in Nat /\ Len(frames) \in Nat
  BY Types
<1>2. \A i \in 1 .. Len(frames) : frames[i].env \in 1 .. Len(heap)
  BY DEF IInv, FrameScopes, FrameScope
<1>3. Live \in SUBSET (0 .. Len(heap))
  BY <1>1, <1>2 DEF Live
<1>4. ASSUME NEW a \in 0 .. Len(heap), IsSolid(heap, a), a # 0 PROVE heap[a].parent \in Live
  BY <1>1, <1>4, SolidFacts DEF Live
<1>5. ASSUME NEW i \in 1 .. Len(frames), Clean(closures, frames, i)
      PROVE  heap[frames[i].env].parent \in Live
  <2>1. FrameScope(heap, closures, frames, i) /\ frames[i] \in FrameSet
    BY Types DEF IInv, FrameScopes
  <2>2. CASE frames[i].kind = "fn"
    <3>1. heap[frames[i].env].parent = 0
      BY <2>1, <2>2 DEF FrameScope
    <3>2. IsSolid(heap, 0) /\ 0 \in 0 .. Len(heap)
      BY <1>1, SolidFacts
    <3>. QED
      BY <3>1, <3>2 DEF Live
  <2>3. CASE frames[i].kind = "lambda"
    <3>1. /\ frames[i].clo \in 1 .. Len(closures)
          /\ heap[frames[i].env].parent = closures[frames[i].clo].env
      BY <2>1, <2>3 DEF FrameScope
    <3>2. ~closures[frames[i].clo].looped
      BY <1>1, <1>5, <2>3, CleanLambda
    <3>3. /\ IsSolid(heap, closures[frames[i].clo].env)
          /\ closures[frames[i].clo].env \in 0 .. Len(heap)
      BY <3>1, <3>2 DEF IInv, ClosureScopes, ClosureScope
    <3>. QED
      BY <3>1, <3>3 DEF Live
  <2>4. CASE frames[i].kind = "for"
    <3>1. i > 1 /\ heap[frames[i].env].parent = frames[i - 1].env
      BY <2>1, <2>4 DEF FrameScope
    <3>2. i - 1 \in 1 .. Len(frames) /\ Clean(closures, frames, i - 1)
      BY <1>1, <1>5, <2>4, <3>1, CleanBelow
    <3>. QED
      BY <3>1, <3>2 DEF Live
  <2>. QED
    BY <2>1, <2>2, <2>3, <2>4 DEF FrameSet
<1>. QED
  BY <1>3, <1>4, <1>5 DEF Live

\* The heap grows; every scope keeps its parent, and is rebound only if it may be.
Grown(h, h2, s) ==
    /\ h2 \in Seq(EnvSet) /\ Len(h) <= Len(h2)
    /\ \A a \in 1 .. Len(h) : h2[a].reusable = h[a].reusable /\ h2[a].parent = h[a].parent
    /\ s # 0 => s \in 1 .. Len(h) /\ h[s].reusable

\* No scope but s has other bindings than before.
Rebinds(h, h2, s) == \A a \in 1 .. Len(h) : a # s => h2[a].vals = h[a].vals

\* A scope that is new or rebound is a child of an older one, and not an argument
\* scope over an argument scope.
PutUnder(h, h2, s) ==
    \A a \in 1 .. Len(h2) : a = s \/ a > Len(h) =>
        /\ h2[a].parent \in 0 .. a - 1 /\ h2[a].parent <= Len(h)
        /\ h2[a].reusable => h2[a].parent = 0 \/ ~h[h2[a].parent].reusable

\* Such a step keeps the chains of the heap in order.
LEMMA HeapKeepsOrder ==
    ASSUME IInv, NEW s, Grown(heap, heap', s), PutUnder(heap, heap', s)
    PROVE  Ordered(heap') /\ ReusableOverShared(heap')
<1>1. Len(heap) \in Nat /\ Len(heap') \in Nat /\ Len(heap) <= Len(heap')
  BY Types DEF Grown
<1>2. ASSUME NEW e \in 1 .. Len(heap')
      PROVE  /\ heap'[e].parent \in 0 .. e - 1
             /\ heap'[e].reusable => heap'[e].parent = 0 \/ ~heap'[heap'[e].parent].reusable
  <2>1. CASE e = s \/ e > Len(heap)
    <3>1. /\ heap'[e].parent \in 0 .. e - 1 /\ heap'[e].parent <= Len(heap)
          /\ heap'[e].reusable => heap'[e].parent = 0 \/ ~heap[heap'[e].parent].reusable
      BY <2>1 DEF PutUnder
    <3>2. heap'[e].parent # 0 => heap'[e].parent \in 1 .. Len(heap)
      BY <1>1, <3>1
    <3>3. heap'[e].parent # 0 => heap'[heap'[e].parent].reusable = heap[heap'[e].parent].reusable
      BY <3>2 DEF Grown
    <3>. QED
      BY <3>1, <3>3
  <2>2. CASE ~(e = s \/ e > Len(heap))
    <3>1. e \in 1 .. Len(heap) /\ e # s
      BY <1>1, <2>2
    <3>2. heap'[e].parent = heap[e].parent /\ heap'[e].reusable = heap[e].reusable
      BY <3>1 DEF Grown
    <3>3. /\ heap[e].parent \in 0 .. e - 1
          /\ heap[e].reusable => heap[e].parent = 0 \/ ~heap[heap[e].parent].reusable
      BY <3>1 DEF IInv, Ordered, ReusableOverShared
    <3>4. heap[e].parent # 0 => heap[e].parent \in 1 .. Len(heap)
      BY <1>1, <3>1, <3>3
    <3>5. heap[e].parent # 0 => heap'[heap[e].parent].reusable = heap[heap[e].parent].reusable
      BY <3>4 DEF Grown
    <3>. QED
      BY <3>2, <3>3, <3>5
  <2>. QED
    BY <2>1, <2>2
<1>. QED
  BY <1>2 DEF Ordered, ReusableOverShared

\* What is solid stays solid: only argument scopes are rebound.
LEMMA SolidKept ==
    ASSUME IInv, NEW s, Grown(heap, heap', s), NEW e, IsSolid(heap, e)
    PROVE  IsSolid(heap', e)
<1>1. Len(heap) \in Nat /\ Len(heap') \in Nat /\ Len(heap) <= Len(heap')
  BY Types DEF Grown
<1>2. PICK A \in SUBSET (0 .. Len(heap)) : e \in A /\ Solid(heap, A)
  BY DEF IsSolid
<1>3. A \in SUBSET (0 .. Len(heap'))
  BY <1>1
<1>4. ASSUME NEW a \in A PROVE a = 0 \/ (~heap'[a].reusable /\ heap'[a].parent \in A)
  <2>1. CASE a # 0
    <3>1. a \in 1 .. Len(heap) /\ ~heap[a].reusable /\ heap[a].parent \in A
      BY <1>1, <1>2, <2>1 DEF Solid
    <3>2. a # s
      BY <3>1 DEF Grown
    <3>. QED
      BY <3>1, <3>2 DEF Grown
  <2>. QED
    BY <2>1
<1>5. Solid(heap', A)
  BY <1>4 DEF Solid
<1>. QED
  BY <1>2, <1>3, <1>5 DEF IsSolid

\* Chains end where they ended.
LEMMA RootKept ==
    ASSUME IInv, NEW s, Grown(heap, heap', s), NEW e, NEW r, IsRooted(heap, e, r)
    PROVE  IsRooted(heap', e, r)
<1>1. Len(heap) \in Nat /\ Len(heap') \in Nat /\ Len(heap) <= Len(heap')
  BY Types DEF Grown
<1>2. PICK A \in SUBSET (1 .. Len(heap)) : e \in A /\ Rooted(heap, A, r)
  BY DEF IsRooted
<1>3. A \in SUBSET (1 .. Len(heap'))
  BY <1>1
<1>4. \A a \in A : heap'[a].parent = heap[a].parent
  BY <1>2 DEF Grown
<1>5. Rooted(heap', A, r)
  BY <1>2, <1>4 DEF Rooted
<1>. QED
  BY <1>2, <1>3, <1>5 DEF IsRooted

\* What is seen from a scope that is looked at stays the same, when the scope that
\* is rebound is no activation's.
LEMMA SeenKept ==
    ASSUME IInv, NEW s, Grown(heap, heap', s), PutUnder(heap, heap', s), Rebinds(heap, heap', s),
           \A i \in 1 .. Len(frames) : frames[i].env # s,
           NEW a \in Live, NEW view, Sees(heap, a, view)
    PROVE  Sees(heap', a, view)
<1>1. Len(heap) \in Nat /\ Len(heap') \in Nat /\ Len(heap) <= Len(heap')
  BY Types DEF Grown
<1>2. Ordered(heap) /\ Ordered(heap')
  BY HeapKeepsOrder DEF IInv
<1>3. /\ Live \in SUBSET (0 .. Len(heap))
      /\ \A b \in Live : b # 0 => heap[b].parent \in Live
  BY LiveClosed
<1>4. \A b \in Live : b # 0 => b # s
  <2> SUFFICES ASSUME NEW b \in Live, b # 0 PROVE b # s
    OBVIOUS
  <2>1. CASE IsSolid(heap, b)
    <3>1. ~heap[b].reusable
      BY <1>1, <2>1, SolidFacts
    <3>. QED
      BY <3>1 DEF Grown
  <2>2. CASE \E i \in 1 .. Len(frames) : b = frames[i].env
    BY <2>2
  <2>. QED
    BY <2>1, <2>2 DEF Live
<1>5. Unchanged(heap, heap', Live)
  <2> SUFFICES ASSUME NEW b \in Live, b # 0
               PROVE  heap'[b].parent = heap[b].parent /\ heap'[b].vals = heap[b].vals
    BY <1>3 DEF Unchanged
  <2>1. b \in 1 .. Len(heap) /\ b # s
    BY <1>1, <1>3, <1>4
  <2>. QED
    BY <2>1 DEF Grown, Rebinds
<1>6. \A b \in Live : \A v \in Vars : View(heap', b)[v] = View(heap, b)[v]
  BY <1>1, <1>2, <1>3, <1>5, ViewSame
<1>. QED
  BY <1>6 DEF Sees

--------------------------------------------------------------------------------
\* What a step may do to the closures and to the activations.

\* The closure c has the scope of its own it had, or c is c0 and got the newest
\* scope, an argument scope.
ScratchKept(h, h2, cs, cs2, c, c0) ==
    \/ cs2[c].scratch = cs[c].scratch
    \/ /\ c = c0 /\ cs2[c].scratch = Len(h) + 1
       /\ Len(h) + 1 \in 1 .. Len(h2) /\ h2[Len(h) + 1].reusable
       /\ h2[Len(h) + 1].parent = cs[c].env

\* A closure keeps what it captured, and all but one their own scope.
ClosuresKept(h, h2, cs, cs2) ==
    /\ \A c \in 1 .. Len(cs) :
          /\ c \in 1 .. Len(cs2)
          /\ cs2[c].env = cs[c].env /\ cs2[c].looped = cs[c].looped /\ cs2[c].home = cs[c].home
    /\ \E c0 : \A c \in 1 .. Len(cs) : ScratchKept(h, h2, cs, cs2, c, c0)

\* The lambdas see what they saw.
SeenSame(cs, cs2) == \A c \in 1 .. Len(cs) : cs2[c].seen = cs[c].seen

\* What the closures and the first m activations see is what is recorded of them.
StillSeen(m) ==
    /\ \A c \in 1 .. Len(closures) :
          ~closures[c].looped => Sees(heap', closures[c].env, closures'[c].seen)
    /\ \A i \in 1 .. m : Clean(closures, frames, i) => Sees(heap', frames[i].env, frames[i].view)

\* It is when no scope that is looked at is rebound.
LEMMA SeenStays ==
    ASSUME IInv, NEW s, Grown(heap, heap', s), PutUnder(heap, heap', s), Rebinds(heap, heap', s),
           \A i \in 1 .. Len(frames) : frames[i].env # s,
           SeenSame(closures, closures'), NEW m \in 0 .. Len(frames)
    PROVE  StillSeen(m)
<1>1. ASSUME NEW c \in 1 .. Len(closures), ~closures[c].looped
      PROVE  Sees(heap', closures[c].env, closures'[c].seen)
  <2>1. Sees(heap, closures[c].env, closures[c].seen) /\ closures'[c].seen = closures[c].seen
    BY <1>1 DEF IInv, ClosuresSee, SeenSame
  <2>2. IsSolid(heap, closures[c].env) /\ closures[c].env \in 0 .. Len(heap)
    BY <1>1 DEF IInv, ClosureScopes, ClosureScope
  <2>3. closures[c].env \in Live
    BY <2>2 DEF Live
  <2>. QED
    BY <2>1, <2>3, SeenKept
<1>2. ASSUME NEW i \in 1 .. m, Clean(closures, frames, i)
      PROVE  Sees(heap', frames[i].env, frames[i].view)
  <2>1. i \in 1 .. Len(frames)
    BY Types
  <2>2. Sees(heap, frames[i].env, frames[i].view) /\ frames[i].env \in Live
    BY <1>2, <2>1 DEF IInv, FramesSee, Live
  <2>. QED
    BY <2>2, SeenKept
<1>. QED
  BY <1>1, <1>2 DEF StillSeen

\* A lambda that is evaluated has no scope of its own yet and sees what its text
\* can see.
NewClosure(h, cs, c) ==
    /\ cs[c].scratch = 0
    /\ ClosureScope(h, cs[c])
    /\ ~cs[c].looped => Sees(h, cs[c].env, cs[c].seen)
    /\ AtHome(h, cs[c])

\* Such a step keeps what the invariant says of the closures.
LEMMA ClosuresStay ==
    ASSUME IInv, NEW s, Grown(heap, heap', s), PutUnder(heap, heap', s),
           \A i \in 1 .. Len(frames) : frames[i].env # s,
           ClosuresKept(heap, heap', closures, closures'), NEW m, StillSeen(m),
           \A c \in 1 .. Len(closures') : c \in 1 .. Len(closures) \/ NewClosure(heap', closures', c)
    PROVE  /\ ClosureScopes(heap', closures') /\ ScratchOfOne(closures')
           /\ ClosuresSee(heap', closures') /\ ClosureHomes(heap', closures')
<1>1. Len(heap) \in Nat /\ Len(heap') \in Nat /\ Len(heap) <= Len(heap')
  BY Types DEF Grown
<1>2. \A c \in 1 .. Len(closures) :
          /\ ClosureScope(heap, closures[c])
          /\ closures'[c].env = closures[c].env /\ closures'[c].looped = closures[c].looped
          /\ closures'[c].home = closures[c].home
  BY DEF IInv, ClosureScopes, ClosuresKept
<1>3. PICK c0 : \A c \in 1 .. Len(closures) :
          \/ closures'[c].scratch = closures[c].scratch
          \/ /\ c = c0 /\ closures'[c].scratch = Len(heap) + 1
             /\ Len(heap) + 1 \in 1 .. Len(heap') /\ heap'[Len(heap) + 1].reusable
             /\ heap'[Len(heap) + 1].parent = closures[c].env
  BY DEF ClosuresKept, ScratchKept
<1>4. ASSUME NEW c \in 1 .. Len(closures) PROVE ClosureScope(heap', closures'[c])
  <2>1. /\ closures[c].env \in 0 .. Len(heap) /\ closures[c].scratch \in 0 .. Len(heap)
        /\ closures[c].env = 0 \/ ~heap[closures[c].env].reusable
        /\ closures[c].scratch # 0 =>
               /\ closures[c].env < closures[c].scratch /\ heap[closures[c].scratch].reusable
               /\ heap[closures[c].scratch].parent = closures[c].env
        /\ ~closures[c].looped => IsSolid(heap, closures[c].env)
    BY <1>2 DEF ClosureScope
  <2>2. closures'[c].env \in 0 .. Len(heap') /\ closures'[c].scratch \in 0 .. Len(heap')
    BY <1>1, <1>2, <1>3, <2>1
  <2>3. closures'[c].env = 0 \/ ~heap'[closures'[c].env].reusable
    <3>1. closures[c].env # 0 => closures[c].env \in 1 .. Len(heap)
      BY <1>1, <2>1
    <3>. QED
      BY <1>2, <2>1, <3>1 DEF Grown
  <2>4. closures'[c].scratch # 0 =>
            /\ closures'[c].env < closures'[c].scratch /\ heap'[closures'[c].scratch].reusable
            /\ heap'[closures'[c].scratch].parent = closures'[c].env
    <3>1. CASE closures'[c].scratch = closures[c].scratch
      <4>1. closures[c].scratch # 0 => closures[c].scratch \in 1 .. Len(heap)
        BY <1>1, <2>1
      <4>. QED
        BY <1>2, <2>1, <3>1, <4>1 DEF Grown
    <3>2. CASE /\ closures'[c].scratch = Len(heap) + 1 /\ heap'[Len(heap) + 1].reusable
               /\ heap'[Len(heap) + 1].parent = closures[c].env
      BY <1>1, <1>2, <2>1, <3>2
    <3>. QED
      BY <1>3, <3>1, <3>2
  <2>5. ~closures'[c].looped => IsSolid(heap', closures'[c].env)
    BY <1>2, <2>1, SolidKept
  <2>. QED
    BY <2>2, <2>3, <2>4, <2>5 DEF ClosureScope
<1>5. ClosureScopes(heap', closures')
  BY <1>4 DEF ClosureScopes, NewClosure
<1>6. ScratchOfOne(closures')
  <2> SUFFICES ASSUME NEW c \in 1 .. Len(closures'), NEW d \in 1 .. Len(closures'),
                      closures'[c].scratch # 0, closures'[c].scratch = closures'[d].scratch
               PROVE  c = d
    BY DEF ScratchOfOne
  <2>1. c \in 1 .. Len(closures) /\ d \in 1 .. Len(closures)
    BY DEF NewClosure
  <2>2. closures[c].scratch \in 0 .. Len(heap) /\ closures[d].scratch \in 0 .. Len(heap)
    BY <1>2, <2>1 DEF ClosureScope
  <2>3. closures[c].scratch # Len(heap) + 1 /\ closures[d].scratch # Len(heap) + 1
    BY <1>1, <2>2
  <2>4. CASE closures'[c].scratch = closures[c].scratch /\ closures'[d].scratch = closures[d].scratch
    BY <2>1, <2>4 DEF IInv, ScratchOfOne
  <2>5. CASE ~(closures'[c].scratch = closures[c].scratch /\ closures'[d].scratch = closures[d].scratch)
    BY <1>3, <2>1, <2>3, <2>5
  <2>. QED
    BY <2>4, <2>5
<1>7. ASSUME NEW c \in 1 .. Len(closures), ~closures'[c].looped
      PROVE  Sees(heap', closures'[c].env, closures'[c].seen)
  BY <1>2, <1>7 DEF StillSeen
<1>8. ClosuresSee(heap', closures')
  BY <1>7 DEF ClosuresSee, NewClosure
<1>9. ASSUME NEW c \in 1 .. Len(closures) PROVE AtHome(heap', closures'[c])
  <2>1. closures[c].home \in 1 .. Len(heap) /\ IsRooted(heap, closures[c].env, closures[c].home)
    BY DEF IInv, ClosureHomes, AtHome
  <2>2. closures[c].home \in 1 .. Len(heap')
    BY <1>1, <2>1
  <2>3. IsRooted(heap', closures[c].env, closures[c].home)
    BY <2>1, RootKept
  <2>. QED
    BY <1>2, <2>2, <2>3 DEF AtHome
<1>10. ClosureHomes(heap', closures')
  BY <1>9 DEF ClosureHomes, NewClosure
<1>. QED
  BY <1>5, <1>6, <1>8, <1>10

\* The activation at the top of the stack is as it should be.
NewTop(h, cs, fs, i) ==
    /\ FrameScope(h, cs, fs, i)
    /\ InUse(cs, fs[i])
    /\ fs[i].kind # "for" => \A j \in 1 .. i - 1 : fs[j].kind # "for" => fs[j].env # fs[i].env
    /\ Clean(cs, fs, i) => Sees(h, fs[i].env, fs[i].view)
    /\ AtHome(h, fs[i])
    /\ fs[i].kind = "fn" => fs[i].home = fs[i].env /\ \A j \in 1 .. i - 1 : fs[j].home # fs[i].env

\* Such a step keeps what the invariant says of the activations: the first m stay
\* as they were, and one may be over them that is as it should be.
LEMMA FramesStay ==
    ASSUME IInv, NEW s, Grown(heap, heap', s), PutUnder(heap, heap', s),
           \A i \in 1 .. Len(frames) : frames[i].env # s,
           ClosuresKept(heap, heap', closures, closures'),
           NEW m \in 0 .. Len(frames), StillSeen(m),
           frames' \in Seq(FrameSet), Len(frames') \in {m, m + 1},
           \A i \in 1 .. m : frames'[i] = frames[i] /\ InUse(closures', frames[i]),
           Len(frames') = m + 1 => NewTop(heap', closures', frames', m + 1)
    PROVE  /\ FrameScopes(heap', closures', frames') /\ ScratchInUse(closures', frames')
           /\ ScratchExclusive' /\ FramesSee(heap', closures', frames') /\ FrameHomes(heap', frames')
<1>1. /\ Len(heap) \in Nat /\ Len(heap') \in Nat /\ Len(heap) <= Len(heap')
      /\ Len(frames) \in Nat /\ m \in Nat /\ m <= Len(frames)
      /\ \A i \in 1 .. Len(frames) : frames[i] \in FrameSet
  BY Types DEF Grown
<1>2. \A i \in 1 .. m : i \in 1 .. Len(frames) /\ frames'[i] = frames[i]
  BY <1>1
<1>3. \A i \in 1 .. Len(frames') : i \in 1 .. m \/ (i = m + 1 /\ Len(frames') = m + 1)
  BY <1>1
<1>4. \A c \in 1 .. Len(closures) :
          /\ c \in 1 .. Len(closures')
          /\ closures'[c].env = closures[c].env /\ closures'[c].looped = closures[c].looped
  BY DEF ClosuresKept
<1>5. ASSUME NEW i \in 1 .. m PROVE FrameScope(heap', closures', frames', i)
  <2>1. /\ FrameScope(heap, closures, frames, i) /\ frames'[i] = frames[i]
        /\ i \in 1 .. Len(frames) /\ frames[i] \in FrameSet
    BY <1>1, <1>2 DEF IInv, FrameScopes
  <2> DEFINE e == frames[i].env
  <2>2. /\ e \in 1 .. Len(heap) /\ e \in 1 .. Len(heap')
    BY <1>1, <2>1 DEF FrameScope
  <2>3. heap'[e].reusable = heap[e].reusable /\ heap'[e].parent = heap[e].parent
    BY <2>2 DEF Grown
  <2>4. CASE frames[i].kind = "fn"
    BY <2>1, <2>2, <2>3, <2>4 DEF FrameScope
  <2>5. CASE frames[i].kind = "lambda"
    BY <1>4, <2>1, <2>2, <2>3, <2>5 DEF FrameScope
  <2>6. CASE frames[i].kind = "for"
    <3>1. i > 1 /\ ~heap[e].reusable /\ heap[e].parent = frames[i - 1].env
          /\ ~frames[i].reused /\ frames[i].clo = 0
      BY <2>1, <2>6 DEF FrameScope
    <3>2. i - 1 \in 1 .. m
      BY <1>1, <3>1
    <3>3. frames'[i - 1] = frames[i - 1]
      BY <1>2, <3>2
    <3>. QED
      BY <2>1, <2>2, <2>3, <2>6, <3>1, <3>3 DEF FrameScope
  <2>. QED
    BY <2>1, <2>4, <2>5, <2>6 DEF FrameSet
<1>6. FrameScopes(heap', closures', frames')
  BY <1>3, <1>5 DEF FrameScopes, NewTop
<1>7. ScratchInUse(closures', frames')
  BY <1>2, <1>3 DEF ScratchInUse, NewTop
<1>8. ScratchExclusive'
  <2> SUFFICES ASSUME NEW i \in 1 .. Len(frames'), NEW j \in 1 .. Len(frames'),
                      frames'[i].kind # "for", frames'[j].kind # "for",
                      frames'[i].env = frames'[j].env
               PROVE  i = j
    BY DEF ScratchExclusive
  <2>1. CASE i \in 1 .. m /\ j \in 1 .. m
    BY <1>2, <2>1 DEF IInv, ScratchExclusive
  <2>2. CASE i \in 1 .. m /\ j = m + 1 /\ Len(frames') = m + 1
    <3>1. i \in 1 .. (m + 1) - 1
      BY <1>1, <2>2
    <3>. QED
      BY <2>2, <3>1 DEF NewTop
  <2>3. CASE j \in 1 .. m /\ i = m + 1 /\ Len(frames') = m + 1
    <3>1. j \in 1 .. (m + 1) - 1
      BY <1>1, <2>3
    <3>. QED
      BY <2>3, <3>1 DEF NewTop
  <2>. QED
    BY <1>3, <2>1, <2>2, <2>3
<1>9. ASSUME NEW i \in 1 .. m, Clean(closures', frames', i)
      PROVE  Sees(heap', frames'[i].env, frames'[i].view)
  <2>1. \A k \in 1 .. i : k \in 1 .. m /\ frames'[k] = frames[k] /\ k \in 1 .. Len(frames)
    BY <1>1, <1>2
  <2>2. \A k \in 1 .. i : \A j \in k + 1 .. i : j \in 1 .. i
    BY <1>1
  <2>3. ASSUME NEW k \in 1 .. i, frames[k].kind = "lambda", \A j \in k + 1 .. i : frames[j].kind = "for"
        PROVE  ~closures[frames[k].clo].looped
    <3>1. frames'[k] = frames[k] /\ \A j \in k + 1 .. i : frames'[j].kind = "for"
      BY <2>1, <2>2, <2>3
    <3>2. ~closures'[frames[k].clo].looped
      BY <1>9, <2>3, <3>1 DEF Clean
    <3>3. frames[k].clo \in 1 .. Len(closures)
      BY <2>1, <2>3 DEF IInv, FrameScopes, FrameScope
    <3>. QED
      BY <1>4, <3>2, <3>3
  <2>4. Clean(closures, frames, i)
    BY <2>3 DEF Clean
  <2>. QED
    BY <1>2, <2>4 DEF StillSeen
<1>10. FramesSee(heap', closures', frames')
  BY <1>3, <1>9 DEF FramesSee, NewTop
<1>11. ASSUME NEW i \in 1 .. m
       PROVE  /\ AtHome(heap', frames'[i])
              /\ frames'[i].kind = "fn" =>
                     /\ frames'[i].home = frames'[i].env
                     /\ \A j \in 1 .. i - 1 : frames'[j].home # frames'[i].env
  <2>1. /\ i \in 1 .. Len(frames) /\ frames'[i] = frames[i]
        /\ \A j \in 1 .. i - 1 : frames'[j] = frames[j]
    BY <1>1, <1>2
  <2>2. /\ frames[i].home \in 1 .. Len(heap) /\ IsRooted(heap, frames[i].env, frames[i].home)
        /\ frames[i].kind = "fn" =>
               frames[i].home = frames[i].env /\ \A j \in 1 .. i - 1 : frames[j].home # frames[i].env
    BY <2>1 DEF IInv, FrameHomes, AtHome
  <2>3. frames[i].home \in 1 .. Len(heap') /\ IsRooted(heap', frames[i].env, frames[i].home)
    BY <1>1, <2>2, RootKept
  <2>. QED
    BY <2>1, <2>2, <2>3 DEF AtHome
<1>12. FrameHomes(heap', frames')
  BY <1>3, <1>11 DEF FrameHomes, NewTop
<1>. QED
  BY <1>6, <1>7, <1>8, <1>10, <1>12

--------------------------------------------------------------------------------
\* The steps.

\* Bindings that bind one variable, or none.
LEMMA BindingFacts ==
    /\ NoBinding \in Bindings
    /\ \A v \in Vars : \A val \in Values \cup {Unbound} : \A b \in Bindings : [b EXCEPT ![v] = val] \in Bindings
    /\ \A v \in Vars : [NoBinding EXCEPT ![v] = Unbound] = NoBinding
    /\ \A v \in Vars : NoBinding[v] = Unbound
    /\ \A v, w \in Vars : \A val \in Values \cup {Unbound} :
          [NoBinding EXCEPT ![v] = val][w] = IF w = v THEN val ELSE Unbound
  BY DEF NoBinding, Bindings

\* A step that makes one scope.
LEMMA NewScope ==
    ASSUME IInv, NEW parent \in 0 .. Len(heap), NEW vals \in Bindings, NEW reusable \in BOOLEAN,
           reusable => parent = 0 \/ ~heap[parent].reusable,
           heap' = Append(heap, Env(parent, vals, reusable))
    PROVE  /\ Grown(heap, heap', 0) /\ PutUnder(heap, heap', 0) /\ Rebinds(heap, heap', 0)
           /\ Len(heap') = Len(heap) + 1 /\ Len(heap) + 1 \in 1 .. Len(heap')
           /\ heap'[Len(heap) + 1].parent = parent /\ heap'[Len(heap) + 1].vals = vals
           /\ heap'[Len(heap) + 1].reusable = reusable
           /\ \A a \in 1 .. Len(heap) : a \in 1 .. Len(heap') /\ heap'[a] = heap[a]
<1>1. heap \in Seq(EnvSet) /\ Len(heap) \in Nat /\ parent \in Nat
  BY Types
<1> DEFINE x == Env(parent, vals, reusable)
<1>2. x \in EnvSet /\ x.parent = parent /\ x.vals = vals /\ x.reusable = reusable
  BY <1>1 DEF Env, EnvSet
<1> HIDE DEF x
<1>3. /\ heap' \in Seq(EnvSet) /\ Len(heap') = Len(heap) + 1
      /\ \A a \in 1 .. Len(heap) : heap'[a] = heap[a]
      /\ heap'[Len(heap) + 1] = x
  <2>1. heap' = Append(heap, x)
    BY DEF x
  <2>. QED
    BY <1>1, <1>2, <2>1, AppendProperties
<1>4. Len(heap) + 1 \in 1 .. Len(heap') /\ \A a \in 1 .. Len(heap) : a \in 1 .. Len(heap')
  BY <1>1, <1>3
<1>5. Grown(heap, heap', 0)
  BY <1>1, <1>3 DEF Grown
<1>6. PutUnder(heap, heap', 0)
  <2> SUFFICES ASSUME NEW a \in 1 .. Len(heap'), a = 0 \/ a > Len(heap)
               PROVE  /\ heap'[a].parent \in 0 .. a - 1 /\ heap'[a].parent <= Len(heap)
                      /\ heap'[a].reusable => heap'[a].parent = 0 \/ ~heap[heap'[a].parent].reusable
    BY DEF PutUnder
  <2>1. a = Len(heap) + 1
    BY <1>1, <1>3
  <2>2. heap'[a].parent = parent /\ heap'[a].reusable = reusable
    BY <1>2, <1>3, <2>1
  <2>3. parent \in 0 .. a - 1 /\ parent <= Len(heap)
    BY <1>1, <2>1
  <2>. QED
    BY <2>2, <2>3
<1>7. Rebinds(heap, heap', 0)
  BY <1>3 DEF Rebinds
<1>. QED
  BY <1>2, <1>3, <1>4, <1>5, <1>6, <1>7

\* ViewUnfolds for a scope that is not nil.
LEMMA ViewOfScope ==
    ASSUME NEW h, Len(h) \in Nat, Ordered(h), NEW e \in 1 .. Len(h), NEW v \in Vars
    PROVE  View(h, e)[v] = IF h[e].vals[v] # Unbound THEN h[e].vals[v] ELSE View(h, h[e].parent)[v]
<1>1. e \in 0 .. Len(h) /\ e # 0
  OBVIOUS
<1>2. View(h, e)[v] = IF e = 0 THEN Unbound
                      ELSE IF h[e].vals[v] # Unbound THEN h[e].vals[v]
                      ELSE View(h, h[e].parent)[v]
  BY <1>1, ViewUnfolds
<1>. QED
  BY <1>1, <1>2

\* What is seen when v is bound to val, if to anything, over what was seen.
Over(seen, v, val) == IF val = Unbound THEN seen ELSE [seen EXCEPT ![v] = val]

BindsOnly(vals, v, val) == \A w \in Vars : vals[w] = IF w = v THEN val ELSE Unbound

\* A scope that binds one variable shows it over what its parent shows.
LEMMA ChildSees ==
    ASSUME NEW h, Len(h) \in Nat, Ordered(h), NEW e \in 1 .. Len(h), NEW v \in Vars,
           NEW val \in Values \cup {Unbound}, NEW seen \in Bindings,
           BindsOnly(h[e].vals, v, val),
           Sees(h, h[e].parent, seen)
    PROVE  Sees(h, e, Over(seen, v, val))
<1>1. \A w \in Vars :
          View(h, e)[w] = IF h[e].vals[w] # Unbound THEN h[e].vals[w] ELSE View(h, h[e].parent)[w]
  BY ViewOfScope
<1>2. \A w \in Vars : View(h, h[e].parent)[w] = seen[w]
  BY DEF Sees
<1> DEFINE view == Over(seen, v, val)
<1>3. \A w \in Vars : view[w] = IF w = v /\ val # Unbound THEN val ELSE seen[w]
  BY DEF Bindings, Over
<1> HIDE DEF view
<1>4. \A w \in Vars : View(h, e)[w] = view[w]
  BY <1>1, <1>2, <1>3 DEF BindsOnly
<1>5. Sees(h, e, view)
  BY <1>4 DEF Sees
<1>. QED
  BY <1>5 DEF view

\* What stands in a scope over another's stands in the same function body.
LEMMA ChildAtHome ==
    ASSUME IInv, NEW s, Grown(heap, heap', s), NEW x, AtHome(heap, x),
           NEW y, y.home = x.home, y.env \in 1 .. Len(heap'), heap'[y.env].parent = x.env
    PROVE  AtHome(heap', y)
<1>1. Len(heap) \in Nat /\ Len(heap') \in Nat /\ Len(heap) <= Len(heap')
  BY Types DEF Grown
<1>2. x.home \in 1 .. Len(heap') /\ IsRooted(heap', x.env, x.home)
  BY <1>1, RootKept DEF AtHome
<1>3. IsRooted(heap', y.env, x.home)
  BY <1>1, <1>2, RootFacts
<1>. QED
  BY <1>2, <1>3 DEF AtHome

\* A scope with the same bindings and the same parent shows the same.
LEMMA CopySees ==
    ASSUME NEW h, Len(h) \in Nat, Ordered(h), NEW e \in 1 .. Len(h), NEW e2 \in 1 .. Len(h),
           h[e2].vals = h[e].vals, h[e2].parent = h[e].parent,
           NEW seen, Sees(h, e, seen)
    PROVE  Sees(h, e2, seen)
<1>1. \A w \in Vars :
          View(h, e)[w] = IF h[e].vals[w] # Unbound THEN h[e].vals[w] ELSE View(h, h[e].parent)[w]
  BY ViewOfScope
<1>2. \A w \in Vars :
          View(h, e2)[w] = IF h[e2].vals[w] # Unbound THEN h[e2].vals[w] ELSE View(h, h[e2].parent)[w]
  BY ViewOfScope
<1>. QED
  BY <1>1, <1>2 DEF Sees

\* No activation runs in the scope of a closure that no call is in.
LEMMA ScratchIdle ==
    ASSUME IInv, NEW c \in 1 .. Len(closures), ~closures[c].inCall, closures[c].scratch # 0,
           NEW i \in 1 .. Len(frames)
    PROVE  frames[i].env # closures[c].scratch
<1>1. /\ FrameScope(heap, closures, frames, i) /\ InUse(closures, frames[i])
      /\ ClosureScope(heap, closures[c]) /\ frames[i] \in FrameSet
  BY Types DEF IInv, FrameScopes, ScratchInUse, ClosureScopes
<1>2. heap[closures[c].scratch].reusable
  BY <1>1 DEF ClosureScope
<1>3. CASE frames[i].kind = "fn" \/ frames[i].kind = "for"
  BY <1>1, <1>2, <1>3 DEF FrameScope
<1>4. CASE frames[i].kind = "lambda"
  <2>1. frames[i].clo \in 1 .. Len(closures)
    BY <1>1, <1>4 DEF FrameScope
  <2>2. CASE frames[i].reused
    <3>1. closures[frames[i].clo].inCall /\ frames[i].env = closures[frames[i].clo].scratch
      BY <1>1, <1>4, <2>2 DEF InUse
    <3>2. frames[i].clo # c
      BY <3>1
    <3>. QED
      BY <2>1, <3>1, <3>2 DEF IInv, ScratchOfOne
  <2>3. CASE ~frames[i].reused
    BY <1>1, <1>4, <2>3 DEF InUse
  <2>. QED
    BY <2>2, <2>3
<1>. QED
  BY <1>1, <1>3, <1>4 DEF FrameSet

\* Scopes that are in use or kept have addresses of the heap.
LEMMA InHeap ==
    ASSUME IInv
    PROVE  /\ \A i \in 1 .. Len(frames) : frames[i].env \in 1 .. Len(heap) /\ frames[i].env # Len(heap) + 1
                                          /\ frames[i].env # 0
           /\ \A c \in 1 .. Len(closures) : /\ closures[c].env \in 0 .. Len(heap)
                                            /\ closures[c].scratch \in 0 .. Len(heap)
                                            /\ closures[c].scratch # Len(heap) + 1
<1>1. Len(heap) \in Nat
  BY Types
<1>2. \A i \in 1 .. Len(frames) : frames[i].env \in 1 .. Len(heap)
  BY DEF IInv, FrameScopes, FrameScope
<1>3. \A c \in 1 .. Len(closures) : closures[c].env \in 0 .. Len(heap) /\ closures[c].scratch \in 0 .. Len(heap)
  BY DEF IInv, ClosureScopes, ClosureScope
<1>. QED
  BY <1>1, <1>2, <1>3

\* ExecuteInto's outermost scope satisfies the invariant.
LEMMA InitInv == Init => IInv
<1> SUFFICES ASSUME Init PROVE IInv
  OBVIOUS
<1> DEFINE x == Env(0, NoBinding, FALSE)
           f == Frame("fn", 1, 0, FALSE, NoBinding, 1)
<1>1. heap = <<x>> /\ closures = <<>> /\ frames = <<f>>
  BY DEF Init
<1>2. /\ x \in EnvSet /\ x.parent = 0 /\ x.vals = NoBinding /\ x.reusable = FALSE
  BY BindingFacts DEF Env, EnvSet
<1>3. /\ f \in FrameSet /\ f.kind = "fn" /\ f.env = 1 /\ f.clo = 0 /\ f.reused = FALSE
      /\ f.view = NoBinding /\ f.home = 1
  BY BindingFacts DEF Frame, FrameSet
<1> HIDE DEF x, f
<1>4. /\ heap \in Seq(EnvSet) /\ Len(heap) = 1 /\ heap[1] = x
      /\ closures \in Seq(ClosureSet) /\ Len(closures) = 0
      /\ frames \in Seq(FrameSet) /\ Len(frames) = 1 /\ frames[1] = f
  BY <1>1, <1>2, <1>3
<1>5. (1 .. Len(heap)) = {1} /\ (1 .. Len(closures)) = {} /\ (1 .. Len(frames)) = {1}
  BY <1>4
<1>6. Ordered(heap) /\ ReusableOverShared(heap)
  BY <1>2, <1>4, <1>5 DEF Ordered, ReusableOverShared
<1>7. ClosureScopes(heap, closures) /\ ScratchOfOne(closures) /\ ClosuresSee(heap, closures)
  BY <1>5 DEF ClosureScopes, ScratchOfOne, ClosuresSee
<1>8. FrameScopes(heap, closures, frames)
  BY <1>2, <1>3, <1>4, <1>5 DEF FrameScopes, FrameScope
<1>9. ScratchInUse(closures, frames) /\ ScratchExclusive
  BY <1>3, <1>4, <1>5 DEF ScratchInUse, InUse, ScratchExclusive
<1>13. /\ Len(heap) \in Nat /\ 1 \in 1 .. Len(heap) /\ 0 \in 0 .. Len(heap)
       /\ heap[1].parent = 0 /\ heap[1].vals = NoBinding
  BY <1>2, <1>4
<1>10. FramesSee(heap, closures, frames)
  <2>1. \A v \in Vars : View(heap, 1)[v] = NoBinding[v]
    <3>1. \A v \in Vars : View(heap, 1)[v] = IF heap[1].vals[v] # Unbound THEN heap[1].vals[v]
                                             ELSE View(heap, heap[1].parent)[v]
      BY <1>13, <1>6, ViewOfScope
    <3>2. \A v \in Vars : View(heap, 0)[v] = Unbound
      BY <1>13, <1>6, ViewUnfolds
    <3>3. \A v \in Vars : NoBinding[v] = Unbound
      BY BindingFacts
    <3>. QED
      BY <1>13, <3>1, <3>2, <3>3
  <2>. QED
    BY <1>3, <1>4, <1>5, <2>1 DEF FramesSee, Sees
<1>11. ClosureHomes(heap, closures)
  BY <1>5 DEF ClosureHomes
<1>12. FrameHomes(heap, frames)
  <2>1. IsRooted(heap, 1, 1)
    BY <1>13, RootFacts
  <2>2. \A j \in 1 .. 1 - 1 : FALSE
    OBVIOUS
  <2>. QED
    BY <1>3, <1>4, <1>5, <2>1, <2>2 DEF FrameHomes, AtHome
<1>. QED
  BY <1>4, <1>6, <1>7, <1>8, <1>9, <1>10, <1>11, <1>12 DEF IInv, Typed

\* IInv, from what the lemmas give of a step.
LEMMA Together ==
    ASSUME heap' \in Seq(EnvSet), closures' \in Seq(ClosureSet), frames' \in Seq(FrameSet),
           Ordered(heap') /\ ReusableOverShared(heap'),
           /\ ClosureScopes(heap', closures') /\ ScratchOfOne(closures')
           /\ ClosuresSee(heap', closures') /\ ClosureHomes(heap', closures'),
           /\ FrameScopes(heap', closures', frames') /\ ScratchInUse(closures', frames')
           /\ ScratchExclusive' /\ FramesSee(heap', closures', frames') /\ FrameHomes(heap', frames')
    PROVE  IInv'
  BY DEF IInv, Typed

\* Closures that no step touches.
LEMMA ClosuresSame ==
    ASSUME IInv, closures' = closures
    PROVE  /\ ClosuresKept(heap, heap', closures, closures')
           /\ \A c \in 1 .. Len(closures') : c \in 1 .. Len(closures) \/ NewClosure(heap', closures', c)
           /\ \A i \in 1 .. Len(frames) : InUse(closures', frames[i])
           /\ SeenSame(closures, closures')
  BY DEF IInv, ClosuresKept, ScratchKept, ScratchInUse, SeenSame

\* The stack without the activation that ends.
LEMMA BelowIs ==
    ASSUME IInv, frames # <<>>
    PROVE  /\ Len(frames) \in 1 .. Len(frames) /\ Len(frames) - 1 \in 0 .. Len(frames)
           /\ Below \in Seq(FrameSet) /\ Len(Below) = Len(frames) - 1
           /\ \A i \in 1 .. Len(frames) - 1 : Below[i] = frames[i] /\ i \in 1 .. Len(frames)
<1>1. frames \in Seq(FrameSet) /\ Len(frames) \in Nat
  BY Types
<1>2. Len(frames) # 0
  BY <1>1, EmptySeq
<1> DEFINE n == Len(frames)
           u == SubSeq(frames, 1, n - 1)
<1>3. n \in Nat /\ n > 0 /\ 1 \in 1 .. n + 1 /\ n - 1 \in 1 - 1 .. n
  BY <1>1, <1>2
<1>4. /\ u \in Seq(FrameSet)
      /\ Len(u) = IF 1 <= n - 1 THEN (n - 1) - 1 + 1 ELSE 0
      /\ \A i \in 1 .. (n - 1) - 1 + 1 : u[i] = frames[1 + i - 1]
  BY <1>1, <1>3, SubSeqProperties
<1>5. \A i \in 1 .. n - 1 : i \in 1 .. (n - 1) - 1 + 1 /\ 1 + i - 1 = i /\ i \in 1 .. n
  BY <1>3
<1>6. Below = u
  BY DEF Below
<1> HIDE DEF n, u
<1>7. Len(Below) = n - 1 /\ \A i \in 1 .. n - 1 : Below[i] = frames[i] /\ i \in 1 .. n
  BY <1>3, <1>4, <1>5, <1>6
<1>8. n \in 1 .. n /\ n - 1 \in 0 .. n
  BY <1>3
<1>. QED
  BY <1>4, <1>6, <1>7, <1>8 DEF n

\* A call or a loop puts an activation on the stack.
LEMMA Pushed ==
    ASSUME IInv, NEW f \in FrameSet, frames' = Append(frames, f)
    PROVE  /\ frames' \in Seq(FrameSet) /\ Len(frames') = Len(frames) + 1
           /\ frames'[Len(frames) + 1] = f
           /\ \A i \in 1 .. Len(frames) : frames'[i] = frames[i]
  BY Types, AppendProperties

\* The body of a loop, over the activation m.
LEMMA LoopBody ==
    ASSUME IInv, NEW m \in 1 .. Len(frames), NEW v \in LoopVars, NEW val \in Values,
           ForIteration(frames[m].env, v, val, frames[m].view),
           frames' \in Seq(FrameSet), Len(frames') = m + 1,
           \A i \in 1 .. m : frames'[i] = frames[i],
           frames'[m + 1] = Frame("for", Len(heap) + 1, 0, FALSE, [frames[m].view EXCEPT ![v] = val],
                                  frames[m].home)
    PROVE  IInv'
<1> DEFINE e == Len(heap) + 1
           vals == [NoBinding EXCEPT ![v] = val]
           parent == frames[m].env
<1>1. /\ heap' = Append(heap, Env(parent, vals, FALSE)) /\ closures' = closures
      /\ v \in Vars /\ val \in Values \cup {Unbound} /\ val # Unbound
  BY NamesAssumption, UnboundAssumption DEF ForIteration
<1>2. /\ vals \in Bindings
      /\ \A w \in Vars : vals[w] = IF w = v THEN val ELSE Unbound
  BY <1>1, BindingFacts
<1>3. /\ frames[m] \in FrameSet /\ parent \in 1 .. Len(heap) /\ parent # e
      /\ Len(heap) \in Nat /\ Len(frames) \in Nat /\ frames[m].view \in Bindings
  BY Types, InHeap DEF FrameSet
<1>4. parent \in 0 .. Len(heap) /\ m + 1 \in Nat /\ m + 1 > 1 /\ m \in Nat /\ (m + 1) - 1 = m
      /\ m \in 0 .. Len(frames)
  BY <1>3
<1> HIDE DEF vals
<1>5. /\ Grown(heap, heap', 0) /\ PutUnder(heap, heap', 0) /\ Rebinds(heap, heap', 0)
      /\ Len(heap') = Len(heap) + 1 /\ e \in 1 .. Len(heap')
      /\ heap'[e].parent = parent /\ heap'[e].vals = vals /\ heap'[e].reusable = FALSE
  BY <1>1, <1>2, <1>4, NewScope
<1>6. \A i \in 1 .. Len(frames) : frames[i].env # 0
  BY InHeap
<1>7. /\ ClosuresKept(heap, heap', closures, closures')
      /\ \A c \in 1 .. Len(closures') : c \in 1 .. Len(closures) \/ NewClosure(heap', closures', c)
      /\ \A i \in 1 .. Len(frames) : InUse(closures', frames[i])
      /\ SeenSame(closures, closures')
  BY <1>1, ClosuresSame
<1>8. Ordered(heap') /\ ReusableOverShared(heap')
  BY <1>5, HeapKeepsOrder
<1>9. /\ ClosureScopes(heap', closures') /\ ScratchOfOne(closures')
      /\ ClosuresSee(heap', closures') /\ ClosureHomes(heap', closures')
  <2>1. StillSeen(m)
    BY <1>4, <1>5, <1>6, <1>7, SeenStays
  <2>. QED
    BY <1>5, <1>6, <1>7, <2>1, ClosuresStay
<1> DEFINE f == frames'[m + 1]
<1>10. /\ f.kind = "for" /\ f.env = e /\ f.clo = 0 /\ f.reused = FALSE
       /\ f.view = [frames[m].view EXCEPT ![v] = val] /\ f.home = frames[m].home
  BY DEF Frame
<1>11. NewTop(heap', closures', frames', m + 1)
  <2>1. FrameScope(heap', closures', frames', m + 1)
    <3>1. frames'[(m + 1) - 1] = frames[m]
      BY <1>4
    <3>. QED
      BY <1>4, <1>5, <1>10, <3>1 DEF FrameScope
  <2>2. InUse(closures', f)
    BY <1>10 DEF InUse
  <2>3. ASSUME Clean(closures', frames', m + 1) PROVE Sees(heap', f.env, f.view)
    <3>1. Clean(closures', frames', m)
      <4>1. Clean(closures', frames', (m + 1) - 1)
        BY <1>4, <1>10, <2>3, CleanBelow
      <4>. QED
        BY <1>4, <4>1
    <3>2. \A k \in 1 .. m : frames'[k] = frames[k] /\ \A j \in k + 1 .. m : frames'[j] = frames[j]
      BY <1>4
    <3>3. Clean(closures, frames, m)
      BY <1>1, <3>1, <3>2 DEF Clean
    <3>4. Sees(heap, parent, frames[m].view) /\ parent \in Live
      BY <3>3 DEF IInv, FramesSee, Live
    <3>5. Sees(heap', parent, frames[m].view)
      BY <1>5, <1>6, <3>4, SeenKept
    <3>6. Sees(heap', e, Over(frames[m].view, v, val))
      <4>1. /\ BindsOnly(heap'[e].vals, v, val)
            /\ Sees(heap', heap'[e].parent, frames[m].view)
        BY <1>2, <1>5, <3>5 DEF BindsOnly
      <4>2. Len(heap') \in Nat /\ Ordered(heap')
        BY <1>3, <1>5, <1>8
      <4>. QED
        BY <1>1, <1>3, <1>5, <4>1, <4>2, ChildSees
    <3>. QED
      BY <1>1, <1>10, <3>6 DEF Over
  <2>4. AtHome(heap', f)
    <3>1. AtHome(heap, frames[m])
      BY DEF IInv, FrameHomes
    <3>2. /\ f.home = frames[m].home /\ f.env \in 1 .. Len(heap')
          /\ heap'[f.env].parent = frames[m].env
      BY <1>5, <1>10
    <3> HIDE DEF f
    <3>. QED
      BY <1>5, <3>1, <3>2, ChildAtHome
  <2>. QED
    BY <1>10, <2>1, <2>2, <2>3, <2>4 DEF NewTop
<1>12. \A i \in 1 .. m : frames'[i] = frames[i] /\ InUse(closures', frames[i])
  BY <1>3, <1>7
<1>13. /\ FrameScopes(heap', closures', frames') /\ ScratchInUse(closures', frames')
       /\ ScratchExclusive' /\ FramesSee(heap', closures', frames') /\ FrameHomes(heap', frames')
  <2>1. StillSeen(m)
    BY <1>4, <1>5, <1>6, <1>7, SeenStays
  <2>. QED
    BY <1>4, <1>5, <1>6, <1>7, <1>11, <1>12, <2>1, FramesStay
<1>14. heap' \in Seq(EnvSet) /\ closures' \in Seq(ClosureSet)
  BY <1>1, <1>5, Types DEF Grown
<1>. QED
  BY <1>8, <1>9, <1>13, <1>14, Together

\* evalFor: the first iteration.
LEMMA EnterForInv ==
    ASSUME IInv, NEW v \in LoopVars, NEW val \in Values, EnterFor(v, val)
    PROVE  IInv'
<1> DEFINE n == Len(frames)
           f == Frame("for", Len(heap) + 1, 0, FALSE, [frames[n].view EXCEPT ![v] = val], frames[n].home)
<1>1. /\ frames # <<>> /\ ForIteration(frames[n].env, v, val, frames[n].view)
      /\ frames' = Append(frames, f)
  BY DEF EnterFor, Top, Push
<1>2. n \in 1 .. n /\ Len(heap) + 1 \in Nat /\ frames[n].view \in Bindings /\ frames[n].home \in Nat
  BY <1>1, Types, BelowIs DEF FrameSet
<1>3. f \in FrameSet
  <2>1. [frames[n].view EXCEPT ![v] = val] \in Bindings
    BY <1>2, BindingFacts, NamesAssumption
  <2>. QED
    BY <1>2, <2>1 DEF Frame, FrameSet
<1>4. /\ frames' \in Seq(FrameSet) /\ Len(frames') = n + 1 /\ frames'[n + 1] = f
      /\ \A i \in 1 .. n : frames'[i] = frames[i]
  <2> HIDE DEF f
  <2>. QED
    BY <1>1, <1>3, Pushed
<1>. QED
  BY <1>1, <1>2, <1>4, LoopBody

\* evalFor: the iteration ends and the next begins, in a scope of its own.
LEMMA NextIterationInv ==
    ASSUME IInv, NEW v \in LoopVars, NEW val \in Values, NextIteration(v, val)
    PROVE  IInv'
<1> DEFINE m == Len(frames) - 1
           f == Frame("for", Len(heap) + 1, 0, FALSE, [frames[m].view EXCEPT ![v] = val], frames[m].home)
<1>1. frames # <<>> /\ frames[Len(frames)].kind = "for"
  BY DEF NextIteration, Top
<1>2. /\ Len(frames) \in 1 .. Len(frames) /\ Below \in Seq(FrameSet) /\ Len(Below) = m
      /\ \A i \in 1 .. m : Below[i] = frames[i]
  BY <1>1, BelowIs
<1>3. Len(frames) > 1
  BY <1>1, <1>2 DEF IInv, FrameScopes, FrameScope
<1>4. m \in 1 .. Len(frames) /\ m \in 1 .. m
  BY <1>3, Types
<1>5. Below[Len(Below)] = frames[m]
  BY <1>2, <1>4
<1>6. ForIteration(frames[m].env, v, val, frames[m].view) /\ frames' = Append(Below, f)
  BY <1>5 DEF NextIteration
<1>7. f \in FrameSet
  <2>3. frames[m] \in FrameSet /\ Len(heap) \in Nat
    BY <1>4, Types
  <2>1. frames[m].view \in Bindings /\ Len(heap) + 1 \in Nat /\ frames[m].home \in Nat
    BY <2>3 DEF FrameSet
  <2>2. [frames[m].view EXCEPT ![v] = val] \in Bindings
    BY <2>1, BindingFacts, NamesAssumption
  <2>. QED
    BY <2>1, <2>2 DEF Frame, FrameSet
<1>8. /\ frames' \in Seq(FrameSet) /\ Len(frames') = m + 1 /\ frames'[m + 1] = f
      /\ \A i \in 1 .. m : frames'[i] = frames[i]
  <2> HIDE DEF f
  <2>. QED
    BY <1>2, <1>6, <1>7, AppendProperties
<1>. QED
  BY <1>4, <1>6, <1>8, LoopBody

\* A user function is called: a scope without a parent.
LEMMA CallUserInv ==
    ASSUME IInv, CallUser
    PROVE  IInv'
<1> DEFINE n == Len(frames)
           e == Len(heap) + 1
           f == Frame("fn", e, 0, FALSE, NoBinding, e)
<1>1. /\ heap' = Append(heap, Env(0, NoBinding, FALSE)) /\ frames' = Append(frames, f)
      /\ closures' = closures
  BY DEF CallUser, Push
<1>2. Len(heap) \in Nat /\ n \in Nat /\ e \in Nat /\ 0 \in 0 .. Len(heap)
  BY Types
<1>3. f \in FrameSet /\ f.kind = "fn" /\ f.env = e /\ f.clo = 0 /\ f.reused = FALSE /\ f.view = NoBinding
      /\ f.home = e
  BY <1>2, BindingFacts DEF Frame, FrameSet
<1> HIDE DEF f
<1>4. /\ frames' \in Seq(FrameSet) /\ Len(frames') = n + 1 /\ frames'[n + 1] = f
      /\ \A i \in 1 .. n : frames'[i] = frames[i]
  BY <1>1, <1>3, Pushed
<1>5. /\ Grown(heap, heap', 0) /\ PutUnder(heap, heap', 0) /\ Rebinds(heap, heap', 0)
      /\ e \in 1 .. Len(heap') /\ heap'[e].parent = 0 /\ heap'[e].reusable = FALSE
      /\ heap'[e].vals = NoBinding
  BY <1>1, <1>2, BindingFacts, NewScope
<1>6. \A i \in 1 .. n : frames[i].env # 0 /\ frames[i].env # e
  BY InHeap
<1>7. /\ ClosuresKept(heap, heap', closures, closures')
      /\ \A c \in 1 .. Len(closures') : c \in 1 .. Len(closures) \/ NewClosure(heap', closures', c)
      /\ \A i \in 1 .. n : InUse(closures', frames[i])
      /\ SeenSame(closures, closures')
  BY <1>1, ClosuresSame
<1>8. Ordered(heap') /\ ReusableOverShared(heap')
  BY <1>5, HeapKeepsOrder
<1>14. n \in 0 .. Len(frames) /\ StillSeen(n)
  <2>1. n \in 0 .. Len(frames)
    BY <1>2
  <2>. QED
    BY <1>5, <1>6, <1>7, <2>1, SeenStays
<1>9. /\ ClosureScopes(heap', closures') /\ ScratchOfOne(closures')
      /\ ClosuresSee(heap', closures') /\ ClosureHomes(heap', closures')
  BY <1>5, <1>6, <1>7, <1>14, ClosuresStay
<1>10. NewTop(heap', closures', frames', n + 1)
  <2>1. FrameScope(heap', closures', frames', n + 1)
    BY <1>3, <1>4, <1>5 DEF FrameScope
  <2>2. InUse(closures', frames'[n + 1])
    BY <1>3, <1>4 DEF InUse
  <2>3. \A j \in 1 .. (n + 1) - 1 : frames'[j].env # frames'[n + 1].env
    <3>1. \A j \in 1 .. (n + 1) - 1 : j \in 1 .. n
      BY <1>2
    <3>. QED
      BY <1>3, <1>4, <1>6, <3>1
  <2>4. Sees(heap', frames'[n + 1].env, frames'[n + 1].view)
    <3>1. Len(heap') \in Nat /\ 0 \in 0 .. Len(heap')
      BY <1>5
    <3>2. \A v \in Vars : View(heap', 0)[v] = Unbound
      BY <1>8, <3>1, ViewUnfolds
    <3>3. \A v \in Vars : View(heap', e)[v] = IF heap'[e].vals[v] # Unbound THEN heap'[e].vals[v]
                                              ELSE View(heap', heap'[e].parent)[v]
      BY <1>5, <1>8, <3>1, ViewOfScope
    <3>. QED
      BY <1>3, <1>4, <1>5, <3>2, <3>3, BindingFacts DEF Sees
  <2>5. AtHome(heap', frames'[n + 1])
    <3>1. Len(heap') \in Nat /\ IsRooted(heap', e, e)
      BY <1>5, RootFacts
    <3>. QED
      BY <1>3, <1>4, <1>5, <3>1 DEF AtHome
  <2>6. frames'[n + 1].home = e /\ \A j \in 1 .. (n + 1) - 1 : frames'[j].home # e
    <3>1. \A j \in 1 .. (n + 1) - 1 : j \in 1 .. n
      BY <1>2
    <3>2. \A j \in 1 .. n : frames[j].home \in 1 .. Len(heap)
      BY DEF IInv, FrameHomes, AtHome
    <3>3. \A j \in 1 .. n : frames[j].home # e
      BY <1>2, <3>2
    <3>. QED
      BY <1>3, <1>4, <3>1, <3>3
  <2>. QED
    BY <1>3, <1>4, <2>1, <2>2, <2>3, <2>4, <2>5, <2>6 DEF NewTop
<1>11. n \in 0 .. Len(frames) /\ Len(frames') \in {n, n + 1}
  BY <1>2, <1>4
<1>12. /\ FrameScopes(heap', closures', frames') /\ ScratchInUse(closures', frames')
       /\ ScratchExclusive' /\ FramesSee(heap', closures', frames') /\ FrameHomes(heap', frames')
  BY <1>4, <1>5, <1>6, <1>7, <1>10, <1>11, <1>14, FramesStay
<1>13. heap' \in Seq(EnvSet) /\ closures' \in Seq(ClosureSet)
  BY <1>1, <1>5, Types DEF Grown
<1>. QED
  BY <1>4, <1>8, <1>9, <1>12, <1>13, Together

\* A step that leaves the heap alone.
LEMMA SameHeap ==
    ASSUME IInv, heap' = heap
    PROVE  Grown(heap, heap', 0) /\ PutUnder(heap, heap', 0) /\ Rebinds(heap, heap', 0)
<1>1. heap \in Seq(EnvSet) /\ Len(heap) \in Nat
  BY Types
<1>2. Grown(heap, heap', 0)
  BY <1>1 DEF Grown
<1>3. \A a \in 1 .. Len(heap') : ~(a = 0 \/ a > Len(heap))
  BY <1>1
<1>4. PutUnder(heap, heap', 0)
  BY <1>3 DEF PutUnder
<1>. QED
  BY <1>2, <1>4 DEF Rebinds

\* An activation ends; the scope of its closure is free when it ran in it.
LEMMA FinishInv ==
    ASSUME IInv, Finish
    PROVE  IInv'
<1> DEFINE n == Len(frames)
           c == frames[n].clo
<1>1. /\ frames # <<>> /\ frames' = Below /\ heap' = heap
      /\ closures' = IF frames[n].reused THEN [closures EXCEPT ![c].inCall = FALSE] ELSE closures
  BY DEF Finish, Top
<1>2. /\ n \in 1 .. n /\ n - 1 \in 0 .. n /\ frames' \in Seq(FrameSet) /\ Len(frames') = n - 1
      /\ \A i \in 1 .. n - 1 : frames'[i] = frames[i] /\ i \in 1 .. n
  BY <1>1, BelowIs
<1>3. /\ closures \in Seq(ClosureSet) /\ Len(closures) \in Nat /\ n \in Nat
      /\ \A i \in 1 .. n : frames[i] \in FrameSet
      /\ \A d \in 1 .. Len(closures) : closures[d] \in ClosureSet
  BY Types
<1>4. /\ \A i \in 1 .. n : FrameScope(heap, closures, frames, i) /\ InUse(closures, frames[i])
  BY DEF IInv, FrameScopes, ScratchInUse
<1>5. \A i \in 1 .. n : frames[i].reused => frames[i].kind = "lambda" /\ frames[i].clo \in 1 .. Len(closures)
  BY <1>3, <1>4 DEF FrameScope, FrameSet
<1>6. /\ closures' \in Seq(ClosureSet) /\ Len(closures') = Len(closures)
      /\ \A d \in 1 .. Len(closures) :
             /\ closures'[d].env = closures[d].env /\ closures'[d].looped = closures[d].looped
             /\ closures'[d].seen = closures[d].seen /\ closures'[d].scratch = closures[d].scratch
             /\ closures'[d].home = closures[d].home
             /\ ~(frames[n].reused /\ d = c) => closures'[d].inCall = closures[d].inCall
  <2>1. CASE ~frames[n].reused
    BY <1>1, <1>3, <2>1
  <2>2. CASE frames[n].reused
    <3>1. c \in 1 .. Len(closures)
      BY <1>2, <1>5, <2>2
    <3> DEFINE x == [closures[c] EXCEPT !.inCall = FALSE]
    <3>2. /\ x \in ClosureSet /\ x.env = closures[c].env /\ x.looped = closures[c].looped
          /\ x.seen = closures[c].seen /\ x.scratch = closures[c].scratch /\ x.home = closures[c].home
      BY <1>3, <3>1 DEF ClosureSet
    <3>3. closures' = [closures EXCEPT ![c] = x]
      BY <1>1, <2>2
    <3> HIDE DEF x, c
    <3>4. /\ closures' \in Seq(ClosureSet) /\ Len(closures') = Len(closures)
          /\ \A d \in 1 .. Len(closures) : closures'[d] = IF d = c THEN x ELSE closures[d]
      BY <1>3, <3>1, <3>2, <3>3, ExceptSeq
    <3>. QED
      BY <2>2, <3>2, <3>4
  <2>. QED
    BY <2>1, <2>2
<1>7. ClosuresKept(heap, heap', closures, closures')
  BY <1>6 DEF ClosuresKept, ScratchKept
<1>8. Grown(heap, heap', 0) /\ PutUnder(heap, heap', 0) /\ Rebinds(heap, heap', 0)
  BY <1>1, SameHeap
<1>9. \A i \in 1 .. n : frames[i].env # 0
  BY InHeap
<1>16. StillSeen(n - 1)
  <2>1. SeenSame(closures, closures')
    BY <1>6 DEF SeenSame
  <2>. QED
    BY <1>2, <1>8, <1>9, <2>1, SeenStays
<1>10. Ordered(heap') /\ ReusableOverShared(heap')
  BY <1>8, HeapKeepsOrder
<1>11. /\ ClosureScopes(heap', closures') /\ ScratchOfOne(closures')
       /\ ClosuresSee(heap', closures') /\ ClosureHomes(heap', closures')
  BY <1>6, <1>7, <1>8, <1>9, <1>16, ClosuresStay
<1>12. ASSUME NEW i \in 1 .. n - 1 PROVE InUse(closures', frames[i])
  <2> SUFFICES ASSUME frames[i].kind = "lambda"
               PROVE  /\ frames[i].reused => closures'[frames[i].clo].inCall
                                             /\ frames[i].env = closures'[frames[i].clo].scratch
                      /\ ~frames[i].reused => \A d \in 1 .. Len(closures') : frames[i].env # closures'[d].scratch
    BY DEF InUse
  <2>1. i \in 1 .. n /\ i # n
    BY <1>2, <1>3
  <2>2. InUse(closures, frames[i]) /\ frames[i].clo \in 1 .. Len(closures)
    BY <1>4, <2>1 DEF FrameScope
  <2>3. CASE ~frames[i].reused
    BY <1>6, <2>2, <2>3 DEF InUse
  <2>4. CASE frames[i].reused
    <3>1. closures[frames[i].clo].inCall /\ frames[i].env = closures[frames[i].clo].scratch
      BY <2>2, <2>4 DEF InUse
    <3>2. ASSUME frames[n].reused, frames[i].clo = c PROVE FALSE
      <4>1. frames[n].kind = "lambda" /\ frames[n].env = closures[c].scratch
        BY <1>2, <1>4, <1>5, <3>2 DEF InUse
      <4>2. frames[n].env = frames[i].env /\ frames[n].kind # "for" /\ frames[i].kind # "for"
        BY <3>1, <3>2, <4>1
      <4>. QED
        BY <1>2, <2>1, <4>2 DEF IInv, ScratchExclusive
    <3>. QED
      BY <1>6, <2>2, <2>4, <3>1, <3>2
  <2>. QED
    BY <2>3, <2>4
<1>13. /\ Len(frames') \in {n - 1, (n - 1) + 1} /\ Len(frames') # (n - 1) + 1
  BY <1>2, <1>3
<1>14. /\ FrameScopes(heap', closures', frames') /\ ScratchInUse(closures', frames')
       /\ ScratchExclusive' /\ FramesSee(heap', closures', frames') /\ FrameHomes(heap', frames')
  BY <1>2, <1>7, <1>8, <1>9, <1>12, <1>13, <1>16, FramesStay
<1>15. heap' \in Seq(EnvSet)
  BY <1>1, Types
<1>. QED
  BY <1>2, <1>6, <1>10, <1>11, <1>14, <1>15, Together

\* The lambdas of a function body have its new variable from now on.
NewSeen(cs, e, v, val) ==
    [c \in DOMAIN cs |-> IF cs[c].home = e /\ cs[c].seen[v] = Unbound
                         THEN [cs[c] EXCEPT !.seen[v] = val] ELSE cs[c]]

ClosuresGain(cs, cs2, e, v, val) ==
    /\ cs2 \in Seq(ClosureSet) /\ Len(cs2) = Len(cs)
    /\ \A c \in 1 .. Len(cs) :
          /\ cs2[c].env = cs[c].env /\ cs2[c].looped = cs[c].looped
          /\ cs2[c].scratch = cs[c].scratch /\ cs2[c].inCall = cs[c].inCall
          /\ cs2[c].home = cs[c].home
          /\ \A w \in Vars : cs2[c].seen[w] =
                IF w = v /\ cs[c].home = e /\ cs[c].seen[w] = Unbound THEN val ELSE cs[c].seen[w]

LEMMA LetSeen ==
    ASSUME IInv, NEW v \in Vars, NEW val \in Values, NEW e,
           closures' = NewSeen(closures, e, v, val)
    PROVE  ClosuresGain(closures, closures', e, v, val)
<1>1. /\ closures \in Seq(ClosureSet) /\ Len(closures) \in Nat /\ DOMAIN closures = 1 .. Len(closures)
      /\ \A c \in 1 .. Len(closures) : closures[c] \in ClosureSet
  BY Types
<1> DEFINE Gains(c) == closures[c].home = e /\ closures[c].seen[v] = Unbound
           New(c) == [closures[c] EXCEPT !.seen[v] = val]
           x(c) == IF Gains(c) THEN New(c) ELSE closures[c]
<1>2. ASSUME NEW c \in 1 .. Len(closures)
      PROVE  /\ New(c) \in ClosureSet
             /\ New(c).env = closures[c].env /\ New(c).looped = closures[c].looped
             /\ New(c).scratch = closures[c].scratch /\ New(c).inCall = closures[c].inCall
             /\ New(c).home = closures[c].home
             /\ \A w \in Vars : New(c).seen[w] = IF w = v THEN val ELSE closures[c].seen[w]
  <2> DEFINE b == [closures[c].seen EXCEPT ![v] = val]
  <2>1. closures[c] \in ClosureSet /\ closures[c].seen \in Bindings
    BY <1>1 DEF ClosureSet
  <2>2. b \in Bindings /\ \A w \in Vars : b[w] = IF w = v THEN val ELSE closures[c].seen[w]
    BY <2>1 DEF Bindings
  <2> HIDE DEF b
  <2>3. New(c) = [closures[c] EXCEPT !.seen = b]
    BY DEF b
  <2>. QED
    BY <2>1, <2>2, <2>3 DEF ClosureSet
<1>3. closures' = [c \in 1 .. Len(closures) |-> x(c)]
  BY <1>1 DEF NewSeen
<1> HIDE DEF New
<1>4. \A c \in 1 .. Len(closures) : x(c) \in ClosureSet
  BY <1>1, <1>2
<1>5. \A c \in 1 .. Len(closures) :
          /\ x(c).env = closures[c].env /\ x(c).looped = closures[c].looped
          /\ x(c).scratch = closures[c].scratch /\ x(c).inCall = closures[c].inCall
          /\ x(c).home = closures[c].home
          /\ \A w \in Vars : x(c).seen[w] =
                IF w = v /\ closures[c].home = e /\ closures[c].seen[w] = Unbound
                THEN val ELSE closures[c].seen[w]
  BY <1>2
<1> HIDE DEF x
<1>6. closures' \in Seq(ClosureSet) /\ Len(closures') = Len(closures)
  BY <1>1, <1>3, <1>4
<1>7. ASSUME NEW c \in 1 .. Len(closures)
      PROVE  /\ closures'[c].env = closures[c].env /\ closures'[c].looped = closures[c].looped
             /\ closures'[c].scratch = closures[c].scratch /\ closures'[c].inCall = closures[c].inCall
             /\ closures'[c].home = closures[c].home
             /\ \A w \in Vars : closures'[c].seen[w] =
                   IF w = v /\ closures[c].home = e /\ closures[c].seen[w] = Unbound
                   THEN val ELSE closures[c].seen[w]
  <2>1. closures'[c] = x(c)
    BY <1>3
  <2>. QED
    BY <1>5, <2>1
<1>. QED
  BY <1>6, <1>7 DEF ClosuresGain

\* A parameter or a let of a function body.
LEMMA LetInv ==
    ASSUME IInv, NEW v \in Lets, NEW val \in Values, Let(v, val)
    PROVE  IInv'
<1> DEFINE n == Len(frames)
           e == frames[n].env
           x == [heap[e] EXCEPT !.vals = [heap[e].vals EXCEPT ![v] = val]]
           f == [frames[n] EXCEPT !.view = [frames[n].view EXCEPT ![v] = val]]
<1>1. /\ frames # <<>> /\ frames[n].kind = "fn" /\ heap[e].vals[v] = Unbound
      /\ closures' = [c \in DOMAIN closures |->
                         IF closures[c].home = e /\ closures[c].seen[v] = Unbound
                         THEN [closures[c] EXCEPT !.seen[v] = val] ELSE closures[c]]
      /\ heap' = Bind(heap, e, v, val) /\ frames' = [frames EXCEPT ![n].view[v] = val]
  BY DEF Let, Top
<1>2. n \in 1 .. n /\ n - 1 \in 0 .. n /\ n \in Nat
  BY <1>1, BelowIs, Types
<1>3. /\ heap \in Seq(EnvSet) /\ Len(heap) \in Nat /\ frames \in Seq(FrameSet)
      /\ frames[n] \in FrameSet /\ e \in 1 .. Len(heap) /\ heap[e] \in EnvSet
      /\ \A i \in 1 .. n : frames[i].env # 0
  BY <1>2, Types, InHeap
<1>4. v \in Vars /\ val # Unbound /\ val \in Values \cup {Unbound}
  BY NamesAssumption, UnboundAssumption
<1>5. /\ ~heap[e].reusable /\ heap[e].parent = 0 /\ ~frames[n].reused /\ frames[n].clo = 0
  BY <1>1, <1>2 DEF IInv, FrameScopes, FrameScope
<1>6. /\ x \in EnvSet /\ x.parent = heap[e].parent /\ x.reusable = heap[e].reusable
      /\ \A w \in Vars : x.vals[w] = IF w = v THEN val ELSE heap[e].vals[w]
  <2>1. heap[e].vals \in Bindings
    BY <1>3 DEF EnvSet
  <2> DEFINE b == [heap[e].vals EXCEPT ![v] = val]
  <2>2. b \in Bindings /\ \A w \in Vars : b[w] = IF w = v THEN val ELSE heap[e].vals[w]
    BY <1>4, <2>1 DEF Bindings
  <2> HIDE DEF b
  <2>3. x = [heap[e] EXCEPT !.vals = b]
    BY DEF b
  <2>. QED
    BY <1>3, <2>2, <2>3 DEF EnvSet
<1>7. /\ f \in FrameSet /\ f.kind = "fn" /\ f.env = e /\ f.clo = 0 /\ f.reused = FALSE
      /\ f.view = [frames[n].view EXCEPT ![v] = val] /\ f.home = frames[n].home
  <2> DEFINE b == [frames[n].view EXCEPT ![v] = val]
  <2>1. b \in Bindings
    BY <1>3, <1>4, BindingFacts DEF FrameSet
  <2> HIDE DEF b
  <2>2. f = [frames[n] EXCEPT !.view = b]
    BY DEF b
  <2>. QED
    BY <1>1, <1>3, <1>5, <2>1, <2>2 DEF FrameSet, b
<1>8. /\ heap' = [heap EXCEPT ![e] = x] /\ frames' = [frames EXCEPT ![n] = f]
  BY <1>1, <1>4 DEF Bind
<1> HIDE DEF x, f
<1>9. /\ heap' \in Seq(EnvSet) /\ Len(heap') = Len(heap)
      /\ \A a \in 1 .. Len(heap) : heap'[a] = IF a = e THEN x ELSE heap[a]
  BY <1>3, <1>6, <1>8, ExceptSeq
<1>10. /\ frames' \in Seq(FrameSet) /\ Len(frames') = n
       /\ \A i \in 1 .. n : frames'[i] = IF i = n THEN f ELSE frames[i]
  BY <1>2, <1>3, <1>7, <1>8, ExceptSeq
<1>11. /\ \A a \in 1 .. Len(heap) :
             /\ heap'[a].reusable = heap[a].reusable /\ heap'[a].parent = heap[a].parent
             /\ \A w \in Vars : heap'[a].vals[w] = IF a = e /\ w = v THEN val ELSE heap[a].vals[w]
  BY <1>6, <1>9
<1>12. Grown(heap, heap', 0)
  <2>1. Len(heap) <= Len(heap')
    BY <1>3, <1>9
  <2>. QED
    BY <1>9, <1>11, <2>1 DEF Grown
<1>13. PutUnder(heap, heap', 0)
  <2>1. \A a \in 1 .. Len(heap') : ~(a = 0 \/ a > Len(heap))
    BY <1>3, <1>9
  <2>. QED
    BY <2>1 DEF PutUnder
<1>14. Ordered(heap') /\ ReusableOverShared(heap')
  BY <1>12, <1>13, HeapKeepsOrder
<1>15. ClosuresGain(closures, closures', e, v, val)
  <2>1. closures' = NewSeen(closures, e, v, val) /\ v \in Vars
    BY <1>1, <1>4 DEF NewSeen
  <2> HIDE DEF e
  <2>. QED
    BY <2>1, LetSeen
<1>16. ClosuresKept(heap, heap', closures, closures')
  BY <1>15 DEF ClosuresKept, ScratchKept, ClosuresGain
<1>17. \A i \in 1 .. n : InUse(closures', frames[i])
  <2> SUFFICES ASSUME NEW i \in 1 .. n, frames[i].kind = "lambda"
               PROVE  /\ frames[i].reused => closures'[frames[i].clo].inCall
                                             /\ frames[i].env = closures'[frames[i].clo].scratch
                      /\ ~frames[i].reused => \A d \in 1 .. Len(closures') : frames[i].env # closures'[d].scratch
    BY DEF InUse
  <2>1. InUse(closures, frames[i]) /\ frames[i].clo \in 1 .. Len(closures)
    BY DEF IInv, ScratchInUse, FrameScopes, FrameScope
  <2>. QED
    BY <1>15, <2>1 DEF InUse, ClosuresGain
<1>18. BindsAt(heap, heap', e, v, val)
  BY <1>1, <1>3, <1>5, <1>11 DEF BindsAt
<1>19. ASSUME NEW a, NEW r, IsRooted(heap, a, r)
       PROVE  Shows(heap, heap', e, v, val, a, r)
  <2>1. Len(heap') \in Nat /\ Len(heap) <= Len(heap') /\ Ordered(heap)
    BY <1>3, <1>9 DEF IInv
  <2> HIDE DEF e
  <2>. QED
    BY <1>3, <1>4, <1>14, <1>18, <1>19, <2>1, ViewGains
<1>20. /\ frames[n].home = e
       /\ \A i \in 1 .. n - 1 : i \in 1 .. n /\ i # n /\ frames[i].home # e
  BY <1>1, <1>2 DEF IInv, FrameHomes
<1>21. StillSeen(n - 1)
  <2>1. ASSUME NEW c \in 1 .. Len(closures), ~closures[c].looped
        PROVE  Sees(heap', closures[c].env, closures'[c].seen)
    <3>1. \A w \in Vars : View(heap, closures[c].env)[w] = closures[c].seen[w]
      BY <2>1 DEF IInv, ClosuresSee, Sees
    <3>2. IsRooted(heap, closures[c].env, closures[c].home)
      BY DEF IInv, ClosureHomes, AtHome
    <3>. QED
      BY <1>15, <1>19, <3>1, <3>2 DEF Sees, Shows, ClosuresGain
  <2>2. ASSUME NEW i \in 1 .. n - 1, Clean(closures, frames, i)
        PROVE  Sees(heap', frames[i].env, frames[i].view)
    <3>1. \A w \in Vars : View(heap, frames[i].env)[w] = frames[i].view[w]
      BY <1>20, <2>2 DEF IInv, FramesSee, Sees
    <3>2. IsRooted(heap, frames[i].env, frames[i].home)
      BY <1>20 DEF IInv, FrameHomes, AtHome
    <3>. QED
      BY <1>19, <1>20, <3>1, <3>2 DEF Sees, Shows
  <2>. QED
    BY <2>1, <2>2 DEF StillSeen
<1>22. /\ ClosureScopes(heap', closures') /\ ScratchOfOne(closures')
       /\ ClosuresSee(heap', closures') /\ ClosureHomes(heap', closures')
  BY <1>3, <1>12, <1>13, <1>15, <1>16, <1>21, ClosuresStay DEF ClosuresGain
<1>23. /\ frames'[n] = f /\ e \in 1 .. Len(heap') /\ heap'[e] = x
  BY <1>2, <1>3, <1>9, <1>10
<1>24. NewTop(heap', closures', frames', n)
  <2>1. FrameScope(heap', closures', frames', n)
    BY <1>5, <1>6, <1>7, <1>23 DEF FrameScope
  <2>2. InUse(closures', frames'[n])
    BY <1>7, <1>23 DEF InUse
  <2>3. \A j \in 1 .. n - 1 : frames'[j] = frames[j]
    BY <1>10, <1>20
  <2>4. \A j \in 1 .. n - 1 : frames'[j].kind # "for" => frames'[j].env # frames'[n].env
    <3>1. \A j \in 1 .. n - 1 : frames[j].kind # "for" => frames[j].env # frames[n].env
      BY <1>1, <1>2, <1>20 DEF IInv, ScratchExclusive
    <3>. QED
      BY <1>7, <1>23, <2>3, <3>1
  <2>5. Sees(heap', frames'[n].env, frames'[n].view)
    <3>1. Clean(closures, frames, n)
      <4>1. \A k \in 1 .. n : k = n \/ n \in k + 1 .. n
        BY <1>2
      <4>. QED
        BY <1>1, <4>1 DEF Clean
    <3>2. \A w \in Vars : View(heap, e)[w] = frames[n].view[w]
      BY <1>2, <3>1 DEF IInv, FramesSee, Sees
    <3>3. IsRooted(heap, e, e)
      BY <1>3, <1>5, RootFacts
    <3>4. \A w \in Vars : View(heap', e)[w] =
              IF w = v /\ View(heap, e)[w] = Unbound THEN val ELSE View(heap, e)[w]
      BY <1>19, <3>3 DEF Shows
    <3>5. View(heap, e)[v] = Unbound
      <4>1. View(heap, e)[v] = IF heap[e].vals[v] # Unbound THEN heap[e].vals[v]
                               ELSE View(heap, heap[e].parent)[v]
        BY <1>3, <1>4, ViewOfScope DEF IInv
      <4>2. View(heap, 0)[v] = Unbound
        BY <1>3, <1>4, ViewUnfolds DEF IInv
      <4>. QED
        BY <1>1, <1>5, <4>1, <4>2
    <3>6. \A w \in Vars : f.view[w] = IF w = v THEN val ELSE frames[n].view[w]
      BY <1>3, <1>4, <1>7 DEF FrameSet, Bindings
    <3>7. \A w \in Vars : View(heap', e)[w] = f.view[w]
      BY <3>2, <3>4, <3>5, <3>6
    <3>. QED
      BY <1>7, <1>23, <3>7 DEF Sees
  <2>6. AtHome(heap', frames'[n])
    <3>1. Len(heap') \in Nat /\ IsRooted(heap', e, e)
      BY <1>3, <1>5, <1>6, <1>9, <1>23, RootFacts
    <3>. QED
      BY <1>7, <1>20, <1>23, <3>1 DEF AtHome
  <2>7. frames'[n].home = frames'[n].env /\ \A j \in 1 .. n - 1 : frames'[j].home # frames'[n].env
    BY <1>7, <1>20, <1>23, <2>3
  <2>. QED
    BY <2>1, <2>2, <2>4, <2>5, <2>6, <2>7 DEF NewTop
<1>25. /\ Len(frames') = (n - 1) + 1 /\ (n - 1) + 1 = n
  BY <1>2, <1>10
<1>26. \A i \in 1 .. n - 1 : frames'[i] = frames[i] /\ InUse(closures', frames[i])
  BY <1>10, <1>17, <1>20
<1>27. NewTop(heap', closures', frames', (n - 1) + 1)
  BY <1>24, <1>25
<1>28. /\ FrameScopes(heap', closures', frames') /\ ScratchInUse(closures', frames')
       /\ ScratchExclusive' /\ FramesSee(heap', closures', frames') /\ FrameHomes(heap', frames')
  BY <1>2, <1>3, <1>10, <1>12, <1>13, <1>16, <1>21, <1>25, <1>26, <1>27, FramesStay
<1>. QED
  BY <1>9, <1>10, <1>14, <1>15, <1>22, <1>28, Together DEF ClosuresGain

\* The closure c is called with val: the scope e is under the one it kept and binds
\* its parameter alone, and the activation f runs in it.
Called(s, c, val, e, f) ==
    /\ Grown(heap, heap', s) /\ PutUnder(heap, heap', s) /\ Rebinds(heap, heap', s)
    /\ c \in 1 .. Len(closures) /\ val \in Values \cup {Unbound} /\ e \in 1 .. Len(heap')
    /\ \A i \in 1 .. Len(frames) : frames[i].env # s /\ frames[i].env # e /\ InUse(closures', frames[i])
    /\ heap'[e].parent = closures[c].env /\ heap'[e].reusable
    /\ BindsOnly(heap'[e].vals, closures[c].param, val)
    /\ closures' \in Seq(ClosureSet) /\ Len(closures') = Len(closures)
    /\ ClosuresKept(heap, heap', closures, closures') /\ SeenSame(closures, closures')
    /\ f \in FrameSet /\ f.kind = "lambda" /\ f.env = e /\ f.clo = c /\ InUse(closures', f)
    /\ f.view = Over(closures[c].seen, closures[c].param, val) /\ f.home = closures[c].home
    /\ frames' = Append(frames, f)

\* The body of a lambda is evaluated in such a scope.
LEMMA LambdaBody ==
    ASSUME IInv, NEW s, NEW c, NEW val, NEW e, NEW f, Called(s, c, val, e, f)
    PROVE  IInv'
<1> USE DEF Called
<1> DEFINE n == Len(frames)
           v == closures[c].param
           seen == closures[c].seen
<1>1. /\ Len(heap') \in Nat /\ n \in Nat /\ Len(closures) \in Nat
      /\ v \in Vars /\ seen \in Bindings /\ heap' \in Seq(EnvSet) /\ c \in 1 .. Len(closures')
  <2>1. closures[c] \in ClosureSet /\ n \in Nat /\ Len(closures) \in Nat
    BY Types
  <2>2. v \in Vars /\ seen \in Bindings
    BY <2>1 DEF ClosureSet
  <2>3. heap' \in Seq(EnvSet) /\ c \in 1 .. Len(closures')
    BY DEF Grown
  <2>4. Len(heap') \in Nat
    BY <2>3
  <2>. QED
    BY <2>1, <2>2, <2>3, <2>4
<1>2. ASSUME Sees(heap', heap'[e].parent, seen) PROVE Sees(heap', e, f.view)
  <2>1. Ordered(heap')
    BY HeapKeepsOrder
  <2>2. Sees(heap', e, Over(seen, v, val))
    <3>1. BindsOnly(heap'[e].vals, v, val)
      OBVIOUS
    <3> HIDE DEF seen, v
    <3>. QED
      BY <1>1, <1>2, <2>1, <3>1, ChildSees
  <2>. QED
    BY <2>2
<1>6. /\ frames' \in Seq(FrameSet) /\ Len(frames') = n + 1 /\ frames'[n + 1] = f
      /\ \A i \in 1 .. n : frames'[i] = frames[i]
  BY Pushed
<1>7. \A d \in 1 .. Len(closures') : d \in 1 .. Len(closures) \/ NewClosure(heap', closures', d)
  OBVIOUS
<1>8. Ordered(heap') /\ ReusableOverShared(heap')
  BY HeapKeepsOrder
<1>3. n \in 0 .. Len(frames) /\ StillSeen(n)
  <2>1. n \in 0 .. Len(frames)
    BY <1>1
  <2>. QED
    BY <2>1, SeenStays
<1>9. /\ ClosureScopes(heap', closures') /\ ScratchOfOne(closures')
      /\ ClosuresSee(heap', closures') /\ ClosureHomes(heap', closures')
  BY <1>3, <1>7, ClosuresStay
<1>10. closures'[c].env = closures[c].env /\ closures'[c].seen = seen /\ closures'[c].looped = closures[c].looped
  BY DEF ClosuresKept, ScratchKept, SeenSame
<1>11. NewTop(heap', closures', frames', n + 1)
  <2>1. FrameScope(heap', closures', frames', n + 1)
    BY <1>1, <1>6, <1>10 DEF FrameScope
  <2>2. InUse(closures', frames'[n + 1])
    BY <1>6
  <2>3. \A j \in 1 .. (n + 1) - 1 : frames'[j].env # frames'[n + 1].env
    <3>1. \A j \in 1 .. (n + 1) - 1 : j \in 1 .. n
      BY <1>1
    <3>. QED
      BY <1>6, <3>1
  <2>4. ASSUME Clean(closures', frames', n + 1) PROVE Sees(heap', frames'[n + 1].env, frames'[n + 1].view)
    <3>1. ~closures'[c].looped
      <4>1. n + 1 \in Nat /\ n + 1 > 0 /\ frames'[n + 1].kind = "lambda"
        BY <1>1, <1>6
      <4>2. ~closures'[frames'[n + 1].clo].looped
        BY <2>4, <4>1, CleanLambda
      <4>. QED
        BY <1>6, <4>2
    <3>2. Sees(heap', closures'[c].env, closures'[c].seen)
      BY <1>1, <1>9, <3>1 DEF ClosuresSee
    <3>3. Sees(heap', heap'[e].parent, seen)
      BY <1>10, <3>2
    <3>. QED
      BY <1>2, <1>6, <3>3
  <2>5. AtHome(heap', frames'[n + 1])
    <3>1. AtHome(heap, closures[c])
      BY DEF IInv, ClosureHomes
    <3>2. AtHome(heap', f)
      BY <3>1, ChildAtHome
    <3>. QED
      BY <1>6, <3>2
  <2>. QED
    BY <1>6, <2>1, <2>2, <2>3, <2>4, <2>5 DEF NewTop
<1>12. n \in 0 .. Len(frames) /\ Len(frames') \in {n, n + 1}
  BY <1>1, <1>6
<1>13. \A i \in 1 .. n : frames'[i] = frames[i] /\ InUse(closures', frames[i])
  BY <1>6
<1>14. /\ FrameScopes(heap', closures', frames') /\ ScratchInUse(closures', frames')
       /\ ScratchExclusive' /\ FramesSee(heap', closures', frames') /\ FrameHomes(heap', frames')
  BY <1>3, <1>6, <1>11, <1>12, <1>13, FramesStay
<1>. QED
  BY <1>1, <1>6, <1>8, <1>9, <1>14, Together

\* What the body of a lambda sees is a set of bindings.
LEMMA LambdaView ==
    ASSUME IInv, NEW c \in 1 .. Len(closures), NEW val \in Values \cup {Unbound}
    PROVE  /\ Over(closures[c].seen, closures[c].param, val) \in Bindings
           /\ closures[c].param \in Vars /\ closures[c].home \in Nat /\ c \in Nat
<1>1. closures[c] \in ClosureSet /\ Len(closures) \in Nat
  BY Types
<1>2. /\ closures[c].param \in Vars /\ closures[c].seen \in Bindings /\ closures[c].home \in Nat
      /\ c \in Nat
  BY <1>1 DEF ClosureSet
<1>. QED
  BY <1>2, BindingFacts DEF Over

\* A call while one of the closure is running: a scope of its own.
LEMMA ApplyAgainInv ==
    ASSUME IInv, NEW c \in 1 .. Len(closures), NEW val \in Values \cup {Unbound}, ApplyAgain(c, val)
    PROVE  IInv'
<1> DEFINE e == Len(heap) + 1
           vals == [NoBinding EXCEPT ![closures[c].param] = val]
           f == Frame("lambda", e, c, FALSE, Over(closures[c].seen, closures[c].param, val), closures[c].home)
<1>1. /\ heap' = Append(heap, Env(closures[c].env, vals, TRUE)) /\ closures' = closures
      /\ frames' = Append(frames, f)
  BY DEF ApplyAgain, Push, Over
<1>2. /\ vals \in Bindings /\ closures[c].env \in 0 .. Len(heap)
      /\ TRUE => closures[c].env = 0 \/ ~heap[closures[c].env].reusable
  BY Types, BindingFacts, InHeap DEF IInv, ClosureScopes, ClosureScope, ClosureSet
<1> HIDE DEF vals
<1>3. /\ Grown(heap, heap', 0) /\ PutUnder(heap, heap', 0) /\ Rebinds(heap, heap', 0)
      /\ e \in 1 .. Len(heap')
      /\ heap'[e].parent = closures[c].env /\ heap'[e].vals = vals /\ heap'[e].reusable = TRUE
  BY <1>1, <1>2, NewScope
<1>4. ClosuresKept(heap, heap', closures, closures') /\ SeenSame(closures, closures')
  BY <1>1, ClosuresSame
<1>5. \A i \in 1 .. Len(frames) :
          frames[i].env # 0 /\ frames[i].env # e /\ InUse(closures', frames[i])
  BY <1>1, InHeap, ClosuresSame
<1>6. closures' \in Seq(ClosureSet) /\ Len(closures') = Len(closures)
  BY <1>1, Types
<1>7. /\ f \in FrameSet /\ f.kind = "lambda" /\ f.env = e /\ f.clo = c /\ f.reused = FALSE
      /\ f.view = Over(closures[c].seen, closures[c].param, val) /\ f.home = closures[c].home
  <2> DEFINE view == Over(closures[c].seen, closures[c].param, val)
  <2>3. Len(heap) \in Nat
    BY Types
  <2>1. view \in Bindings /\ c \in Nat /\ e \in Nat /\ closures[c].home \in Nat
    BY <2>3, LambdaView
  <2> HIDE DEF view, e
  <2>2. /\ Frame("lambda", e, c, FALSE, view, closures[c].home) \in FrameSet
    BY <2>1 DEF Frame, FrameSet
  <2>. QED
    BY <2>2 DEF Frame, view
<1> HIDE DEF f
<1>8. InUse(closures', f)
  <2>1. \A d \in 1 .. Len(closures') : e # closures'[d].scratch
    BY <1>1, InHeap
  <2>. QED
    BY <1>7, <2>1 DEF InUse
<1>9. BindsOnly(heap'[e].vals, closures[c].param, val)
  BY <1>3, LambdaView, BindingFacts DEF vals, BindsOnly
<1>10. heap'[e].reusable
  BY <1>3
<1> HIDE DEF e
<1>11. Called(0, c, val, e, f)
  BY <1>1, <1>3, <1>4, <1>5, <1>6, <1>7, <1>8, <1>9, <1>10 DEF Called
<1>. QED
  BY <1>11, LambdaBody

\* The closure's own scope is taken for a call.
LEMMA ScratchTaken ==
    ASSUME IInv, NEW c \in 1 .. Len(closures), NEW s \in Nat, ~closures[c].inCall,
           closures' = [closures EXCEPT ![c].scratch = s, ![c].inCall = TRUE],
           \/ closures[c].scratch = s
           \/ /\ closures[c].scratch = 0 /\ s = Len(heap) + 1
              /\ s \in 1 .. Len(heap') /\ heap'[s].reusable /\ heap'[s].parent = closures[c].env
    PROVE  /\ closures' \in Seq(ClosureSet) /\ Len(closures') = Len(closures)
           /\ closures'[c].inCall /\ closures'[c].scratch = s
           /\ ClosuresKept(heap, heap', closures, closures') /\ SeenSame(closures, closures')
           /\ \A i \in 1 .. Len(frames) : InUse(closures', frames[i])
<1> DEFINE x == [closures[c] EXCEPT !.scratch = s, !.inCall = TRUE]
<1>1. closures \in Seq(ClosureSet) /\ closures[c] \in ClosureSet /\ Len(closures) \in Nat
  BY Types
<1>2. /\ x \in ClosureSet /\ x.env = closures[c].env /\ x.looped = closures[c].looped
      /\ x.seen = closures[c].seen /\ x.scratch = s /\ x.inCall = TRUE /\ x.home = closures[c].home
  BY <1>1 DEF ClosureSet
<1>3. closures' = [closures EXCEPT ![c] = x]
  OBVIOUS
<1>4. /\ closures' \in Seq(ClosureSet) /\ Len(closures') = Len(closures)
      /\ \A d \in 1 .. Len(closures) : closures'[d] = IF d = c THEN x ELSE closures[d]
  <2> DEFINE cs == [closures EXCEPT ![c] = x]
  <2> HIDE DEF x
  <2>1. /\ cs \in Seq(ClosureSet) /\ Len(cs) = Len(closures)
        /\ \A d \in 1 .. Len(closures) : cs[d] = IF d = c THEN x ELSE closures[d]
    BY <1>1, <1>2, ExceptSeq
  <2> HIDE DEF cs
  <2>2. closures' = cs
    BY <1>3 DEF cs
  <2>. QED
    BY <2>1, <2>2
<1> HIDE DEF x
<1>5. closures'[c] = x
  BY <1>4
<1>6. ClosuresKept(heap, heap', closures, closures') /\ SeenSame(closures, closures')
  <2>1. \A d \in 1 .. Len(closures) :
            /\ d \in 1 .. Len(closures')
            /\ closures'[d].env = closures[d].env /\ closures'[d].looped = closures[d].looped
            /\ closures'[d].seen = closures[d].seen /\ closures'[d].home = closures[d].home
    BY <1>2, <1>4
  <2>2. \A d \in 1 .. Len(closures) : ScratchKept(heap, heap', closures, closures', d, c)
    BY <1>2, <1>4 DEF ScratchKept
  <2>3. \E c0 : \A d \in 1 .. Len(closures) : ScratchKept(heap, heap', closures, closures', d, c0)
    BY <2>2
  <2>. QED
    BY <2>1, <2>3 DEF ClosuresKept, SeenSame
<1>7. ASSUME NEW i \in 1 .. Len(frames) PROVE InUse(closures', frames[i])
  <2>1. /\ InUse(closures, frames[i])
        /\ frames[i].kind = "lambda" => frames[i].clo \in 1 .. Len(closures)
    BY DEF IInv, ScratchInUse, FrameScopes, FrameScope
  <2>2. CASE frames[i].kind = "lambda" /\ frames[i].reused
    <3>1. closures[frames[i].clo].inCall /\ frames[i].env = closures[frames[i].clo].scratch
      BY <2>1, <2>2 DEF InUse
    <3>2. frames[i].clo # c /\ frames[i].clo \in 1 .. Len(closures)
      BY <2>1, <2>2, <3>1
    <3>3. closures'[frames[i].clo] = closures[frames[i].clo]
      BY <1>4, <3>2
    <3>. QED
      BY <2>2, <3>1, <3>3 DEF InUse
  <2>3. CASE frames[i].kind = "lambda" /\ ~frames[i].reused
    <3>1. \A d \in 1 .. Len(closures) : frames[i].env # closures[d].scratch
      BY <2>1, <2>3 DEF InUse
    <3>2. frames[i].env # s
      BY <3>1, InHeap
    <3>3. \A d \in 1 .. Len(closures') : frames[i].env # closures'[d].scratch
      BY <1>2, <1>4, <3>1, <3>2
    <3>. QED
      BY <2>3, <3>3 DEF InUse
  <2>4. CASE frames[i].kind # "lambda"
    BY <2>4 DEF InUse
  <2>. QED
    BY <2>2, <2>3, <2>4
<1>. QED
  BY <1>2, <1>4, <1>5, <1>6, <1>7

\* A scope is its three fields.
LEMMA EnvFields ==
    ASSUME NEW x \in EnvSet, NEW y \in EnvSet,
           x.parent = y.parent, x.vals = y.vals, x.reusable = y.reusable
    PROVE  x = y
  BY DEF EnvSet

\* The element that was appended is replaced.
LEMMA ExceptLast ==
    ASSUME NEW S, NEW q \in Seq(S), NEW x \in S, NEW y \in S
    PROVE  [Append(q, x) EXCEPT ![Len(q) + 1] = y] = Append(q, y)
<1> DEFINE a == Append(q, x)
           b == Append(q, y)
           r == [a EXCEPT ![Len(q) + 1] = y]
<1>1. /\ a \in Seq(S) /\ Len(a) = Len(q) + 1 /\ Len(q) \in Nat
      /\ \A i \in 1 .. Len(q) : a[i] = q[i]
  BY AppendProperties
<1>2. /\ b \in Seq(S) /\ Len(b) = Len(q) + 1 /\ b[Len(q) + 1] = y
      /\ \A i \in 1 .. Len(q) : b[i] = q[i]
  BY AppendProperties
<1> HIDE DEF a, b
<1>3. Len(q) + 1 \in 1 .. Len(a)
  BY <1>1
<1>4. /\ r \in Seq(S) /\ Len(r) = Len(a)
      /\ \A i \in 1 .. Len(a) : r[i] = IF i = Len(q) + 1 THEN y ELSE a[i]
  BY <1>1, <1>3, ExceptSeq
<1> HIDE DEF r
<1>5. \A i \in 1 .. Len(a) : i \in 1 .. Len(q) \/ i = Len(q) + 1
  BY <1>1
<1>6. \A i \in 1 .. Len(r) : r[i] = b[i]
  BY <1>1, <1>2, <1>4, <1>5
<1>7. r = b
  BY <1>1, <1>2, <1>4, <1>6, SeqEqual
<1>. QED
  BY <1>7 DEF a, b, r

\* The closure's first call: its own scope is made.
LEMMA ApplyFirst ==
    ASSUME IInv, NEW c \in 1 .. Len(closures), NEW val \in Values \cup {Unbound}, Apply(c, val),
           closures[c].scratch = 0
    PROVE  IInv'
<1> DEFINE e == Len(heap) + 1
           v == closures[c].param
           vals == [NoBinding EXCEPT ![v] = val]
           f == Frame("lambda", e, c, TRUE, Over(closures[c].seen, v, val), closures[c].home)
           h == Append(heap, Env(closures[c].env, NoBinding, TRUE))
<1>1. /\ heap' = Bind(h, e, v, val)
      /\ closures' = [closures EXCEPT ![c].scratch = e, ![c].inCall = TRUE]
      /\ frames' = Append(frames, f) /\ ~closures[c].inCall
  BY DEF Apply, Push, Over, ScratchFree
<1>2. /\ v \in Vars /\ c \in Nat /\ Len(heap) \in Nat /\ heap \in Seq(EnvSet)
      /\ vals \in Bindings /\ NoBinding \in Bindings
      /\ val = Unbound => vals = NoBinding
      /\ closures[c].env \in 0 .. Len(heap)
      /\ TRUE => closures[c].env = 0 \/ ~heap[closures[c].env].reusable
  BY LambdaView, Types, BindingFacts, InHeap DEF IInv, ClosureScopes, ClosureScope
<1>3. heap' = Append(heap, Env(closures[c].env, vals, TRUE))
  <2> DEFINE x == Env(closures[c].env, NoBinding, TRUE)
             y == Env(closures[c].env, vals, TRUE)
  <2>1. CASE val = Unbound
    BY <1>1, <1>2, <2>1 DEF Bind
  <2>2. CASE val # Unbound
    <3>1. x \in EnvSet /\ y \in EnvSet /\ [x EXCEPT !.vals = [x.vals EXCEPT ![v] = val]] = y
      <4>1. x.vals = NoBinding
        BY DEF Env
      <4>2. [x.vals EXCEPT ![v] = val] = vals
        BY <4>1
      <4> HIDE DEF vals
      <4>3. x \in EnvSet /\ y \in EnvSet /\ [x EXCEPT !.vals = vals] = y
        <5>1. closures[c].env \in Nat /\ NoBinding \in Bindings /\ vals \in Bindings
          BY <1>2
        <5>2. x \in EnvSet /\ y \in EnvSet
          BY <5>1 DEF Env, EnvSet
        <5>3. /\ x.parent = closures[c].env /\ x.vals = NoBinding /\ x.reusable = TRUE
              /\ y.parent = closures[c].env /\ y.vals = vals /\ y.reusable = TRUE
          BY DEF Env
        <5> DEFINE z == [x EXCEPT !.vals = vals]
        <5> HIDE DEF x, y
        <5>4. z \in EnvSet /\ z.parent = x.parent /\ z.vals = vals /\ z.reusable = x.reusable
          BY <5>1, <5>2 DEF EnvSet
        <5> HIDE DEF z
        <5>5. z = y
          BY <5>2, <5>3, <5>4, EnvFields
        <5>6. [x EXCEPT !.vals = vals] = y
          BY <5>5 DEF z
        <5>. QED
          BY <5>2, <5>6
      <4>. QED
        BY <4>2, <4>3
    <3>2. heap' = [h EXCEPT ![e] = [h[e] EXCEPT !.vals = [h[e].vals EXCEPT ![v] = val]]]
      BY <1>1, <2>2 DEF Bind
    <3> HIDE DEF x, y
    <3>3. h = Append(heap, x)
      BY DEF x
    <3>4. h[e] = x
      <4>1. Append(heap, x)[Len(heap) + 1] = x
        BY <1>2, <3>1, AppendProperties
      <4> HIDE DEF h
      <4>. QED
        BY <3>3, <4>1
    <3>5. heap' = [Append(heap, x) EXCEPT ![e] = y]
      BY <3>1, <3>2, <3>3, <3>4
    <3>6. [Append(heap, x) EXCEPT ![e] = y] = Append(heap, y)
      BY <1>2, <3>1, ExceptLast
    <3>. QED
      BY <3>5, <3>6 DEF y
  <2>. QED
    BY <2>1, <2>2
<1> HIDE DEF vals, h
<1>4. /\ Grown(heap, heap', 0) /\ PutUnder(heap, heap', 0) /\ Rebinds(heap, heap', 0)
      /\ e \in 1 .. Len(heap')
      /\ heap'[e].parent = closures[c].env /\ heap'[e].vals = vals /\ heap'[e].reusable = TRUE
  BY <1>2, <1>3, NewScope
<1>5. /\ closures' \in Seq(ClosureSet) /\ Len(closures') = Len(closures)
      /\ closures'[c].inCall /\ closures'[c].scratch = e
      /\ ClosuresKept(heap, heap', closures, closures') /\ SeenSame(closures, closures')
      /\ \A i \in 1 .. Len(frames) : InUse(closures', frames[i])
  <2>1. /\ e \in Nat /\ closures[c].scratch = 0 /\ e = Len(heap) + 1
        /\ e \in 1 .. Len(heap') /\ heap'[e].reusable /\ heap'[e].parent = closures[c].env
    BY <1>2, <1>4
  <2>2. /\ closures' = [closures EXCEPT ![c].scratch = e, ![c].inCall = TRUE]
        /\ ~closures[c].inCall
    BY <1>1
  <2> HIDE DEF e
  <2>. QED
    BY <2>1, <2>2, ScratchTaken
<1>6. /\ f \in FrameSet /\ f.kind = "lambda" /\ f.env = e /\ f.clo = c /\ f.reused = TRUE
      /\ f.view = Over(closures[c].seen, v, val) /\ f.home = closures[c].home
  <2> DEFINE view == Over(closures[c].seen, v, val)
  <2>3. Len(heap) \in Nat
    BY Types
  <2>1. view \in Bindings /\ c \in Nat /\ e \in Nat /\ closures[c].home \in Nat
    BY <2>3, LambdaView
  <2> HIDE DEF view, e
  <2>2. /\ Frame("lambda", e, c, TRUE, view, closures[c].home) \in FrameSet
    BY <2>1 DEF Frame, FrameSet
  <2>. QED
    BY <2>2 DEF Frame, view
<1> HIDE DEF f
<1>7. InUse(closures', f)
  BY <1>5, <1>6 DEF InUse
<1>8. BindsOnly(heap'[e].vals, v, val)
  BY <1>4, LambdaView, BindingFacts DEF vals, BindsOnly
<1>9. \A i \in 1 .. Len(frames) : frames[i].env # 0 /\ frames[i].env # e
  BY InHeap
<1> HIDE DEF e
<1>10. Called(0, c, val, e, f)
  BY <1>1, <1>4, <1>5, <1>6, <1>7, <1>8, <1>9 DEF Called
<1>. QED
  BY <1>10, LambdaBody

\* A later call, when none is running: the closure's scope is reset and rebound.
LEMMA ApplyLater ==
    ASSUME IInv, NEW c \in 1 .. Len(closures), NEW val \in Values \cup {Unbound}, Apply(c, val),
           closures[c].scratch # 0
    PROVE  IInv'
<1> DEFINE e == closures[c].scratch
           v == closures[c].param
           vals == [NoBinding EXCEPT ![v] = val]
           f == Frame("lambda", e, c, TRUE, Over(closures[c].seen, v, val), closures[c].home)
           x == [heap[e] EXCEPT !.parent = closures[c].env, !.vals = NoBinding]
           y == [heap[e] EXCEPT !.parent = closures[c].env, !.vals = vals]
<1>1. /\ heap' = Bind(Reset(heap, e, closures[c].env), e, v, val)
      /\ closures' = [closures EXCEPT ![c].scratch = e, ![c].inCall = TRUE]
      /\ frames' = Append(frames, f) /\ ~closures[c].inCall
  BY DEF Apply, Push, Over, ScratchFree
<1>2. /\ v \in Vars /\ c \in Nat /\ Len(heap) \in Nat /\ heap \in Seq(EnvSet)
      /\ vals \in Bindings /\ NoBinding \in Bindings
      /\ val = Unbound => vals = NoBinding
      /\ [NoBinding EXCEPT ![v] = val] = vals
  BY LambdaView, Types, BindingFacts
<1>3. /\ closures[c].env \in 0 .. Len(heap) /\ e \in 0 .. Len(heap)
      /\ closures[c].env = 0 \/ ~heap[closures[c].env].reusable
      /\ closures[c].env < e /\ heap[e].reusable
  BY DEF IInv, ClosureScopes, ClosureScope
<1>4. e \in 1 .. Len(heap) /\ e \in Nat /\ closures[c].env \in Nat /\ closures[c].env \in 0 .. e - 1
  BY <1>2, <1>3
<1>5. heap[e] \in EnvSet
  BY <1>4, Types
<1> HIDE DEF vals, e
<1>6. /\ x \in EnvSet /\ x.parent = closures[c].env /\ x.vals = NoBinding /\ x.reusable = heap[e].reusable
  BY <1>2, <1>4, <1>5 DEF EnvSet
<1>7. /\ y \in EnvSet /\ y.parent = closures[c].env /\ y.vals = vals /\ y.reusable = heap[e].reusable
  BY <1>2, <1>4, <1>5 DEF EnvSet
<1>8. Reset(heap, e, closures[c].env) = [heap EXCEPT ![e] = x]
  BY DEF Reset
<1> HIDE DEF x, y
<1>9. /\ [heap EXCEPT ![e] = x] \in Seq(EnvSet) /\ Len([heap EXCEPT ![e] = x]) = Len(heap)
      /\ \A a \in 1 .. Len(heap) : [heap EXCEPT ![e] = x][a] = IF a = e THEN x ELSE heap[a]
  BY <1>2, <1>4, <1>6, ExceptSeq
<1>10. /\ heap' \in Seq(EnvSet) /\ Len(heap') = Len(heap)
       /\ \A a \in 1 .. Len(heap) : heap'[a] = IF a = e THEN y ELSE heap[a]
  <2> DEFINE h == [heap EXCEPT ![e] = x]
  <2>1. /\ h \in Seq(EnvSet) /\ Len(h) = Len(heap) /\ h[e] = x
        /\ \A a \in 1 .. Len(heap) : h[a] = IF a = e THEN x ELSE heap[a]
    BY <1>4, <1>9
  <2>2. heap' = Bind(h, e, v, val)
    BY <1>1, <1>8
  <2> HIDE DEF h
  <2>3. CASE val = Unbound
    <3>1. heap' = h
      BY <2>2, <2>3 DEF Bind
    <3>2. x = y
      BY <1>2, <1>6, <1>7, <2>3, EnvFields
    <3>. QED
      BY <2>1, <3>1, <3>2
  <2>4. CASE val # Unbound
    <3> DEFINE z == [x EXCEPT !.vals = vals]
    <3>1. heap' = [h EXCEPT ![e] = z]
      <4>1. heap' = [h EXCEPT ![e] = [h[e] EXCEPT !.vals = [h[e].vals EXCEPT ![v] = val]]]
        BY <2>2, <2>4 DEF Bind
      <4>. QED
        BY <1>2, <1>6, <2>1, <4>1
    <3>2. z \in EnvSet /\ z.parent = x.parent /\ z.vals = vals /\ z.reusable = x.reusable
      BY <1>2, <1>6 DEF EnvSet
    <3> HIDE DEF z
    <3>3. z = y
      BY <1>6, <1>7, <3>2, EnvFields
    <3> DEFINE k == [h EXCEPT ![e] = z]
    <3>4. /\ k \in Seq(EnvSet) /\ Len(k) = Len(h)
          /\ \A a \in 1 .. Len(h) : k[a] = IF a = e THEN z ELSE h[a]
      <4>1. e \in 1 .. Len(h)
        BY <1>4, <2>1
      <4>. QED
        BY <2>1, <3>2, <4>1, ExceptSeq
    <3>5. heap' = k
      BY <3>1
    <3> HIDE DEF k
    <3>. QED
      BY <2>1, <3>3, <3>4, <3>5
  <2>. QED
    BY <2>3, <2>4
<1>11. heap'[e] = y /\ e \in 1 .. Len(heap')
  BY <1>4, <1>10
<1>12. Grown(heap, heap', e) /\ Rebinds(heap, heap', e)
  <2>1. Len(heap) <= Len(heap')
    BY <1>2, <1>10
  <2>2. \A a \in 1 .. Len(heap) : heap'[a].reusable = heap[a].reusable /\ (a # e => heap'[a] = heap[a])
    BY <1>7, <1>10
  <2>3. heap[e].parent = closures[c].env
    BY <1>4 DEF IInv, ClosureScopes, ClosureScope, e
  <2>4. heap'[e].parent = heap[e].parent
    BY <1>7, <1>11, <2>3
  <2>. QED
    BY <1>3, <1>4, <1>10, <2>1, <2>2, <2>4 DEF Grown, Rebinds
<1>13. PutUnder(heap, heap', e)
  <2> SUFFICES ASSUME NEW a \in 1 .. Len(heap'), a = e \/ a > Len(heap)
               PROVE  /\ heap'[a].parent \in 0 .. a - 1 /\ heap'[a].parent <= Len(heap)
                      /\ heap'[a].reusable => heap'[a].parent = 0 \/ ~heap[heap'[a].parent].reusable
    BY DEF PutUnder
  <2>1. a = e
    BY <1>2, <1>10
  <2>2. heap'[a].parent = closures[c].env
    BY <1>7, <1>11, <2>1
  <2>3. closures[c].env <= Len(heap)
    BY <1>2, <1>3
  <2>. QED
    BY <1>3, <1>4, <2>1, <2>2, <2>3
<1>14. \A i \in 1 .. Len(frames) : frames[i].env # e
  <2>1. closures[c].scratch # 0 /\ ~closures[c].inCall
    BY <1>1
  <2>. QED
    BY <2>1, ScratchIdle DEF e
<1>15. /\ closures' \in Seq(ClosureSet) /\ Len(closures') = Len(closures)
       /\ closures'[c].inCall /\ closures'[c].scratch = e
       /\ ClosuresKept(heap, heap', closures, closures') /\ SeenSame(closures, closures')
       /\ \A i \in 1 .. Len(frames) : InUse(closures', frames[i])
  <2>1. /\ e \in Nat /\ closures[c].scratch = e /\ ~closures[c].inCall
        /\ closures' = [closures EXCEPT ![c].scratch = e, ![c].inCall = TRUE]
    BY <1>1, <1>4 DEF e
  <2>. QED
    BY <2>1, ScratchTaken
<1>16. /\ f \in FrameSet /\ f.kind = "lambda" /\ f.env = e /\ f.clo = c /\ f.reused = TRUE
       /\ f.view = Over(closures[c].seen, v, val) /\ f.home = closures[c].home
  <2> DEFINE view == Over(closures[c].seen, v, val)
  <2>1. view \in Bindings /\ c \in Nat /\ e \in Nat /\ closures[c].home \in Nat
    BY <1>4, LambdaView
  <2> HIDE DEF view
  <2>2. /\ Frame("lambda", e, c, TRUE, view, closures[c].home) \in FrameSet
    BY <2>1 DEF Frame, FrameSet
  <2>. QED
    BY <2>2 DEF Frame, view
<1> HIDE DEF f
<1>17. InUse(closures', f)
  BY <1>15, <1>16 DEF InUse
<1>18. BindsOnly(heap'[e].vals, v, val)
  <2>1. BindsOnly(vals, v, val)
    BY LambdaView, BindingFacts DEF vals, BindsOnly
  <2>. QED
    BY <1>7, <1>11, <2>1
<1>19. heap'[e].parent = closures[c].env /\ heap'[e].reusable
  BY <1>3, <1>7, <1>11
<1>20. Called(e, c, val, e, f)
  BY <1>1, <1>11, <1>12, <1>13, <1>14, <1>15, <1>16, <1>17, <1>18, <1>19 DEF Called
<1>. QED
  BY <1>20, LambdaBody

\* Outside lambdas a scope is not rebound, nor is any it is under.
LEMMA SolidOutsideLambdas ==
    ASSUME IInv, NEW i0 \in 1 .. Len(frames),
           ~ \E k \in 1 .. i0 : frames[k].kind = "lambda" /\ \A j \in k + 1 .. i0 : frames[j].kind = "for"
    PROVE  IsSolid(heap, frames[i0].env)
<1> DEFINE Outside(i) ==
              ~ \E k \in 1 .. i : frames[k].kind = "lambda" /\ \A j \in k + 1 .. i : frames[j].kind = "for"
           T == {i \in 1 .. Len(frames) : Outside(i) /\ ~IsSolid(heap, frames[i].env)}
<1>1. Len(heap) \in Nat /\ Len(frames) \in Nat /\ \A i \in 1 .. Len(frames) : frames[i] \in FrameSet
  BY Types
<1>2. ASSUME T # {} PROVE FALSE
  <2>1. T \in SUBSET Nat
    BY <1>1
  <2>2. PICK i \in T : \A j \in T : i <= j
    BY <1>2, <2>1, LeastNat
  <2>3. /\ i \in 1 .. Len(frames) /\ Outside(i) /\ ~IsSolid(heap, frames[i].env)
        /\ i \in Nat /\ i > 0
    BY <1>1, <2>2
  <2>4. FrameScope(heap, closures, frames, i) /\ frames[i].env \in 1 .. Len(heap)
    BY <2>3 DEF IInv, FrameScopes, FrameScope
  <2>5. CASE frames[i].kind = "fn"
    <3>1. ~heap[frames[i].env].reusable /\ heap[frames[i].env].parent = 0
      BY <2>4, <2>5 DEF FrameScope
    <3>2. IsSolid(heap, 0)
      BY <1>1, SolidFacts
    <3>. QED
      BY <1>1, <2>3, <2>4, <3>1, <3>2, SolidChild
  <2>6. CASE frames[i].kind = "lambda"
    <3>1. i \in 1 .. i /\ i + 1 .. i = {}
      BY <2>3
    <3>. QED
      BY <2>3, <2>6, <3>1
  <2>7. CASE frames[i].kind = "for"
    <3>1. i > 1 /\ ~heap[frames[i].env].reusable /\ heap[frames[i].env].parent = frames[i - 1].env
      BY <2>4, <2>7 DEF FrameScope
    <3>2. i - 1 \in 1 .. Len(frames) /\ i - 1 < i /\ i - 1 \in Nat
      BY <1>1, <2>3, <3>1
    <3>3. Outside(i - 1)
      <4> SUFFICES ASSUME NEW k \in 1 .. i - 1, frames[k].kind = "lambda",
                          \A j \in k + 1 .. i - 1 : frames[j].kind = "for"
                   PROVE  FALSE
        OBVIOUS
      <4>1. k \in 1 .. i /\ \A j \in k + 1 .. i : j = i \/ j \in k + 1 .. i - 1
        BY <2>3
      <4>2. \A j \in k + 1 .. i : frames[j].kind = "for"
        BY <2>7, <4>1
      <4>. QED
        BY <2>3, <4>1, <4>2
    <3>4. i - 1 \notin T
      BY <2>2, <2>3, <3>2
    <3>5. IsSolid(heap, frames[i - 1].env)
      BY <3>2, <3>3, <3>4
    <3>. QED
      BY <1>1, <2>3, <2>4, <3>1, <3>5, SolidChild
  <2>. QED
    BY <1>1, <2>3, <2>5, <2>6, <2>7 DEF FrameSet
<1>. QED
  BY <1>2

\* A lambda that is written out of loops of lambdas stands in an activation that
\* is out of them.
LEMMA WriterIsClean ==
    ASSUME IInv, frames # <<>>, ~LoopInLambda
    PROVE  /\ Clean(closures, frames, Len(frames))
           /\ \/ IsSolid(heap, Top.env)
              \/ /\ heap[Top.env].reusable /\ IsSolid(heap, heap[Top.env].parent)
<1> DEFINE n == Len(frames)
<1>1. n \in 1 .. n /\ n \in Nat /\ Len(heap) \in Nat /\ frames[n] \in FrameSet
  BY BelowIs, Types
<1>2. ASSUME NEW k \in 1 .. n, frames[k].kind = "lambda", \A j \in k + 1 .. n : frames[j].kind = "for"
      PROVE  k = n /\ ~closures[frames[k].clo].looped
  BY <1>1, <1>2 DEF LoopInLambda
<1>3. Clean(closures, frames, n)
  BY <1>2 DEF Clean
<1>4. CASE frames[n].kind = "lambda"
  <2>1. /\ frames[n].clo \in 1 .. Len(closures) /\ heap[frames[n].env].reusable
        /\ heap[frames[n].env].parent = closures[frames[n].clo].env
    BY <1>1, <1>4 DEF IInv, FrameScopes, FrameScope
  <2>2. ~closures[frames[n].clo].looped
    BY <1>1, <1>3, <1>4, CleanLambda
  <2>3. IsSolid(heap, closures[frames[n].clo].env)
    BY <2>1, <2>2 DEF IInv, ClosureScopes, ClosureScope
  <2>. QED
    BY <1>3, <2>1, <2>3 DEF Top
<1>5. CASE frames[n].kind # "lambda"
  <2>1. ~ \E k \in 1 .. n : frames[k].kind = "lambda" /\ \A j \in k + 1 .. n : frames[j].kind = "for"
    BY <1>2, <1>5
  <2>2. IsSolid(heap, frames[n].env)
    BY <1>1, <2>1, SolidOutsideLambdas
  <2>. QED
    BY <1>3, <2>2 DEF Top
<1>. QED
  BY <1>4, <1>5

\* A lambda is evaluated: it keeps the scope it stands in, or a copy of it.
LEMMA WriteLambdaInv ==
    ASSUME IInv, NEW param \in Params, WriteLambda(param)
    PROVE  IInv'
<1> DEFINE n == Len(frames)
           e == frames[n].env
           top == Len(heap) + 1
           kept == IF heap[e].reusable THEN top ELSE e
           x == [param |-> param, env |-> kept, scratch |-> 0, inCall |-> FALSE,
                 seen |-> frames[n].view, looped |-> LoopInLambda, home |-> frames[n].home]
<1>1. frames # <<>> /\ frames' = frames
  BY DEF WriteLambda
<1>2. /\ n \in 1 .. n /\ n \in Nat /\ Len(heap) \in Nat /\ heap \in Seq(EnvSet) /\ frames[n] \in FrameSet
      /\ closures \in Seq(ClosureSet) /\ Len(closures) \in Nat /\ frames \in Seq(FrameSet)
  BY <1>1, BelowIs, Types
<1>3. /\ e \in 1 .. Len(heap) /\ e \in 0 .. Len(heap) /\ e # 0 /\ heap[e] \in EnvSet
  <2>1. e \in 1 .. Len(heap)
    BY <1>2, InHeap
  <2>. QED
    BY <1>2, <2>1, Types
<1>4. /\ heap[e].parent \in 0 .. Len(heap) /\ heap[e].vals \in Bindings
  BY <1>2, <1>3 DEF IInv, Ordered, EnvSet
<1>5. Snapshot(heap, e) = IF e = 0 \/ ~heap[e].reusable THEN <<heap, e>>
                          ELSE <<Append(heap, Env(heap[e].parent, heap[e].vals, FALSE)), Len(heap) + 1>>
  <2>1. Ordered(heap) /\ ReusableOverShared(heap)
    BY DEF IInv
  <2>. QED
    BY <1>2, <1>3, <2>1, SnapshotIs
<1>6. /\ heap' = IF heap[e].reusable THEN Append(heap, Env(heap[e].parent, heap[e].vals, FALSE)) ELSE heap
      /\ closures' = Append(closures, x)
  <2>1. /\ Snapshot(heap, e)[1] = IF heap[e].reusable THEN Append(heap, Env(heap[e].parent, heap[e].vals, FALSE)) ELSE heap
        /\ Snapshot(heap, e)[2] = kept
    <3>1. CASE heap[e].reusable
      <4> DEFINE a == Append(heap, Env(heap[e].parent, heap[e].vals, FALSE))
      <4>1. Snapshot(heap, e) = <<a, top>>
        BY <1>3, <1>5, <3>1
      <4> HIDE DEF a, top
      <4>2. Snapshot(heap, e)[1] = a /\ Snapshot(heap, e)[2] = top
        BY <4>1
      <4>. QED
        BY <3>1, <4>2 DEF a
    <3>2. CASE ~heap[e].reusable
      <4>1. Snapshot(heap, e) = <<heap, e>>
        BY <1>5, <3>2
      <4> HIDE DEF e
      <4>2. Snapshot(heap, e)[1] = heap /\ Snapshot(heap, e)[2] = e
        BY <4>1
      <4>. QED
        BY <3>2, <4>2
    <3>. QED
      BY <3>1, <3>2
  <2>2. /\ heap' = Snapshot(heap, e)[1]
        /\ closures' = Append(closures, [param |-> param, env |-> Snapshot(heap, e)[2], scratch |-> 0, inCall |-> FALSE,
                 seen |-> frames[n].view, looped |-> LoopInLambda, home |-> frames[n].home])
    BY DEF WriteLambda, Top
  <2>. QED
    BY <2>1, <2>2
<1>7. LoopInLambda \in BOOLEAN
  BY DEF LoopInLambda
<1>8. /\ Grown(heap, heap', 0) /\ PutUnder(heap, heap', 0) /\ Rebinds(heap, heap', 0)
      /\ kept \in 1 .. Len(heap') /\ e \in 1 .. Len(heap') /\ heap'[e] = heap[e]
      /\ heap'[kept].vals = heap[e].vals /\ heap'[kept].parent = heap[e].parent
      /\ heap'[kept].reusable = FALSE
  <2>1. CASE heap[e].reusable
    <3>1. heap' = Append(heap, Env(heap[e].parent, heap[e].vals, FALSE))
      BY <1>6, <2>1
    <3>2. /\ Grown(heap, heap', 0) /\ PutUnder(heap, heap', 0) /\ Rebinds(heap, heap', 0)
          /\ top \in 1 .. Len(heap')
          /\ heap'[top].parent = heap[e].parent /\ heap'[top].vals = heap[e].vals
          /\ heap'[top].reusable = FALSE
          /\ \A a \in 1 .. Len(heap) : a \in 1 .. Len(heap') /\ heap'[a] = heap[a]
      BY <1>4, <3>1, NewScope
    <3>. QED
      BY <1>3, <2>1, <3>2
  <2>2. CASE ~heap[e].reusable
    <3>1. heap' = heap
      BY <1>6, <2>2
    <3>2. Grown(heap, heap', 0) /\ PutUnder(heap, heap', 0) /\ Rebinds(heap, heap', 0)
      BY <3>1, SameHeap
    <3>. QED
      BY <1>3, <2>2, <3>1, <3>2 DEF EnvSet
  <2>. QED
    BY <2>1, <2>2
<1>9. /\ x \in ClosureSet /\ x.env = kept /\ x.scratch = 0 /\ x.seen = frames[n].view
      /\ x.looped = LoopInLambda /\ x.home = frames[n].home
  <2>1. param \in Vars /\ kept \in Nat /\ frames[n].view \in Bindings /\ frames[n].home \in Nat
    BY <1>2, <1>3, NamesAssumption DEF FrameSet
  <2> HIDE DEF kept
  <2>. QED
    BY <1>7, <2>1 DEF ClosureSet
<1>22. AtHome(heap', x)
  <2>1. AtHome(heap, frames[n]) /\ FrameScope(heap, closures, frames, n)
    BY <1>2 DEF IInv, FrameHomes, FrameScopes
  <2>2. CASE heap[e].reusable
    <3>1. frames[n].kind = "lambda"
      BY <1>2, <2>1, <2>2 DEF FrameScope, FrameSet
    <3>2. frames[n].clo \in 1 .. Len(closures) /\ heap[e].parent = closures[frames[n].clo].env
      BY <2>1, <3>1 DEF FrameScope
    <3>3. IsRooted(heap, closures[frames[n].clo].env, frames[n].home)
      <4>1. heap[e].parent # 0
        BY <3>2, <1>2, RootFacts, <1>3 DEF IInv, ClosureHomes, AtHome
      <4>2. PICK A \in SUBSET (1 .. Len(heap)) : e \in A /\ Rooted(heap, A, frames[n].home)
        BY <2>1 DEF AtHome, IsRooted
      <4>3. heap[e].parent \in A
        BY <4>1, <4>2 DEF Rooted
      <4>. QED
        BY <3>2, <4>2, <4>3 DEF IsRooted
    <3>4. Len(heap') \in Nat /\ Len(heap) <= Len(heap')
      BY <1>8 DEF Grown
    <3>5. IsRooted(heap', closures[frames[n].clo].env, frames[n].home)
      BY <1>8, <3>3, RootKept
    <3>6. IsRooted(heap', kept, frames[n].home)
      BY <1>8, <3>2, <3>4, <3>5, RootFacts
    <3>7. frames[n].home \in 1 .. Len(heap')
      BY <1>2, <2>1, <3>4 DEF AtHome
    <3>. QED
      BY <1>9, <3>6, <3>7 DEF AtHome
  <2>3. CASE ~heap[e].reusable
    <3>1. IsRooted(heap', e, frames[n].home)
      BY <1>8, <2>1, RootKept DEF AtHome
    <3>2. Len(heap') \in Nat /\ Len(heap) <= Len(heap') /\ x.env = e
      BY <1>8, <1>9, <2>3 DEF Grown
    <3>3. frames[n].home \in 1 .. Len(heap')
      BY <1>2, <2>1, <3>2 DEF AtHome
    <3>. QED
      BY <1>9, <3>1, <3>2, <3>3 DEF AtHome
  <2>. QED
    BY <2>2, <2>3
<1> HIDE DEF x, kept, top
<1>10. /\ closures' \in Seq(ClosureSet) /\ Len(closures') = Len(closures) + 1
       /\ closures'[Len(closures) + 1] = x
       /\ \A c \in 1 .. Len(closures) : closures'[c] = closures[c]
  BY <1>2, <1>6, <1>9, AppendProperties
<1>11. ClosuresKept(heap, heap', closures, closures') /\ SeenSame(closures, closures')
  <2>1. \A c \in 1 .. Len(closures) : c \in 1 .. Len(closures') /\ closures'[c] = closures[c]
    BY <1>2, <1>10
  <2>. QED
    BY <2>1 DEF ClosuresKept, ScratchKept, SeenSame
<1>12. \A i \in 1 .. n : frames[i].env # 0
  BY InHeap
<1>13. Ordered(heap') /\ ReusableOverShared(heap')
  BY <1>8, HeapKeepsOrder
<1>14. Len(heap') \in Nat
  BY <1>8 DEF Grown
<1>15. NewClosure(heap', closures', Len(closures) + 1)
  <2>1. ASSUME ~x.looped PROVE IsSolid(heap', kept) /\ Sees(heap', kept, x.seen)
    <3>1. /\ Clean(closures, frames, n)
          /\ IsSolid(heap, e) \/ (heap[e].reusable /\ IsSolid(heap, heap[e].parent))
      BY <1>1, <1>9, <2>1, WriterIsClean DEF Top
    <3>2. IsSolid(heap, heap[e].parent)
      BY <1>2, <1>3, <3>1, SolidFacts
    <3>3. IsSolid(heap', heap'[kept].parent)
      BY <1>8, <3>2, SolidKept
    <3>4. IsSolid(heap', kept)
      BY <1>8, <1>14, <3>3, SolidChild
    <3>5. Sees(heap, e, frames[n].view) /\ e \in Live
      BY <1>2, <3>1 DEF IInv, FramesSee, Live
    <3>6. Sees(heap', e, frames[n].view)
      BY <1>8, <1>12, <3>5, SeenKept
    <3>7. Sees(heap', kept, frames[n].view)
      BY <1>8, <1>13, <1>14, <3>6, CopySees
    <3>. QED
      BY <1>9, <3>4, <3>7
  <2>2. kept \in 0 .. Len(heap') /\ 0 \in 0 .. Len(heap')
    BY <1>8, <1>14
  <2>3. ClosureScope(heap', x)
    BY <1>8, <1>9, <2>1, <2>2 DEF ClosureScope
  <2>. QED
    BY <1>9, <1>10, <1>22, <2>1, <2>3 DEF NewClosure
<1>16. \A c \in 1 .. Len(closures') : c \in 1 .. Len(closures) \/ NewClosure(heap', closures', c)
  <2>1. \A c \in 1 .. Len(closures') : c \in 1 .. Len(closures) \/ c = Len(closures) + 1
    BY <1>2, <1>10
  <2>. QED
    BY <1>15, <2>1
<1>23. n \in 0 .. Len(frames) /\ StillSeen(n)
  <2>1. n \in 0 .. Len(frames)
    BY <1>2
  <2>. QED
    BY <1>8, <1>11, <1>12, <2>1, SeenStays
<1>17. /\ ClosureScopes(heap', closures') /\ ScratchOfOne(closures')
       /\ ClosuresSee(heap', closures') /\ ClosureHomes(heap', closures')
  BY <1>8, <1>11, <1>12, <1>16, <1>23, ClosuresStay
<1>18. ASSUME NEW i \in 1 .. n PROVE InUse(closures', frames[i])
  <2>1. /\ InUse(closures, frames[i]) /\ frames[i].env \in 1 .. Len(heap) /\ frames[i].env # 0
        /\ frames[i].kind = "lambda" => frames[i].clo \in 1 .. Len(closures)
    BY InHeap DEF IInv, ScratchInUse, FrameScopes, FrameScope
  <2>2. \A d \in 1 .. Len(closures') : d \in 1 .. Len(closures) \/ d = Len(closures) + 1
    BY <1>2, <1>10
  <2>3. CASE frames[i].kind = "lambda" /\ frames[i].reused
    BY <1>10, <2>1, <2>3 DEF InUse
  <2>4. CASE frames[i].kind = "lambda" /\ ~frames[i].reused
    <3>1. \A d \in 1 .. Len(closures') : frames[i].env # closures'[d].scratch
      BY <1>9, <1>10, <2>1, <2>2, <2>4 DEF InUse
    <3>. QED
      BY <2>4, <3>1 DEF InUse
  <2>5. CASE frames[i].kind # "lambda"
    BY <2>5 DEF InUse
  <2>. QED
    BY <2>3, <2>4, <2>5
<1>19. /\ n \in 0 .. n /\ frames' \in Seq(FrameSet) /\ Len(frames') \in {n, n + 1}
       /\ Len(frames') # n + 1
       /\ \A i \in 1 .. n : frames'[i] = frames[i] /\ InUse(closures', frames[i])
  BY <1>1, <1>2, <1>18
<1>20. /\ FrameScopes(heap', closures', frames') /\ ScratchInUse(closures', frames')
       /\ ScratchExclusive' /\ FramesSee(heap', closures', frames') /\ FrameHomes(heap', frames')
  BY <1>8, <1>11, <1>12, <1>19, <1>23, FramesStay
<1>21. heap' \in Seq(EnvSet)
  BY <1>8 DEF Grown
<1>. QED
  BY <1>10, <1>13, <1>17, <1>19, <1>20, <1>21, Together

\* Every step keeps the invariant.
LEMMA NextKeepsInv == IInv /\ [Next]_vars => IInv'
<1> SUFFICES ASSUME IInv, [Next]_vars PROVE IInv'
  OBVIOUS
<1> USE DEF Values
<1>1. ASSUME NEW v \in Lets, NEW val \in Locals, Let(v, val) PROVE IInv'
  BY <1>1, LetInv
<1>2. ASSUME NEW v \in LoopVars, NEW val \in Locals, EnterFor(v, val) PROVE IInv'
  BY <1>2, EnterForInv
<1>3. ASSUME NEW v \in LoopVars, NEW val \in Locals, NextIteration(v, val) PROVE IInv'
  BY <1>3, NextIterationInv
<1>4. ASSUME NEW v \in Params, WriteLambda(v) PROVE IInv'
  BY <1>4, WriteLambdaInv
<1>5. ASSUME NEW c \in 1 .. Len(closures), NEW val \in Args \cup {Unbound}, Apply(c, val) PROVE IInv'
  BY <1>5, ApplyFirst, ApplyLater
<1>6. ASSUME NEW c \in 1 .. Len(closures), NEW val \in Args \cup {Unbound}, ApplyAgain(c, val) PROVE IInv'
  BY <1>6, ApplyAgainInv
<1>7. CASE CallUser
  BY <1>7, CallUserInv
<1>8. CASE Finish
  BY <1>8, FinishInv
<1>9. CASE UNCHANGED vars
  <2>1. heap' = heap /\ closures' = closures /\ frames' = frames
    BY <1>9 DEF vars
  <2>. QED
    BY <2>1 DEF IInv, Typed, ScratchExclusive
<1>. QED
  BY <1>1, <1>2, <1>3, <1>4, <1>5, <1>6, <1>7, <1>8, <1>9 DEF Next

--------------------------------------------------------------------------------

\* The inductive invariant: parents come first, argument scopes stand over shared
\* ones, a closure's scope has one user, and chains end in the function body they
\* stand in.
THEOREM ScopesInvariant == Spec => []IInv
  BY InitInv, NextKeepsInv, PTL DEF Spec

\* Every address that a scope, a closure or an activation holds is one of the
\* heap's, and what they bind are values.
THEOREM ScopesTypes == Spec => []TypeOK
<1>1. IInv => TypeOK
  <2> SUFFICES ASSUME IInv PROVE TypeOK
    OBVIOUS
  <2>1. /\ Len(heap) \in Nat /\ Len(closures) \in Nat /\ Len(frames) \in Nat
        /\ \A e \in 1 .. Len(heap) : heap[e] \in EnvSet
        /\ \A c \in 1 .. Len(closures) : closures[c] \in ClosureSet
        /\ \A i \in 1 .. Len(frames) : frames[i] \in FrameSet
    BY Types
  <2>2. ASSUME NEW e \in 1 .. Len(heap)
        PROVE  heap[e] \in [parent : Addresses, vals : Bindings, reusable : BOOLEAN]
    <3>1. heap[e].parent \in Addresses
      BY <2>1 DEF IInv, Ordered, Addresses
    <3>. QED
      BY <2>1, <3>1 DEF EnvSet
  <2>3. ASSUME NEW c \in 1 .. Len(closures)
        PROVE  closures[c] \in [param : Vars, env : Addresses, scratch : Addresses, inCall : BOOLEAN,
                                seen : Bindings, looped : BOOLEAN, home : Addresses]
    <3>1. /\ closures[c].env \in Addresses /\ closures[c].scratch \in Addresses
          /\ closures[c].home \in Addresses
      BY <2>1, InHeap DEF Addresses, IInv, ClosureHomes, AtHome
    <3>. QED
      BY <2>1, <3>1 DEF ClosureSet
  <2>4. ASSUME NEW i \in 1 .. Len(frames)
        PROVE  frames[i] \in [kind : {"fn", "lambda", "for"}, env : Addresses, clo : 0 .. Len(closures),
                              reused : BOOLEAN, view : Bindings, home : Addresses]
    <3>1. frames[i] \in FrameSet
      BY <2>1
    <3>2. frames[i].env \in Addresses /\ frames[i].home \in Addresses
      BY <2>1, InHeap DEF Addresses, IInv, FrameHomes, AtHome
    <3>3. frames[i].clo \in 0 .. Len(closures)
      <4>1. FrameScope(heap, closures, frames, i)
        BY DEF IInv, FrameScopes
      <4>. QED
        BY <2>1, <3>1, <4>1 DEF FrameScope, FrameSet
    <3>. QED
      BY <3>1, <3>2, <3>3 DEF FrameSet
  <2>. QED
    BY <2>2, <2>3, <2>4 DEF TypeOK
<1>. QED
  BY <1>1, ScopesInvariant, PTL

\* What two scopes of functions of the variables say of each is what they say.
LEMMA SeesIsEqual ==
    ASSUME NEW h, NEW e, NEW view \in Bindings, Sees(h, e, view)
    PROVE  View(h, e) = view
<1>1. View(h, e) = [v \in Vars |-> View(h, e)[v]]
  <2> DEFINE Innermost(v) ==
                 LET get[i \in 0 .. Len(h)] ==
                         IF i = 0 THEN Unbound
                         ELSE IF h[i].vals[v] # Unbound THEN h[i].vals[v] ELSE get[h[i].parent]
                 IN  get[e]
  <2>1. View(h, e) = [v \in Vars |-> Innermost(v)]
    BY Zenon DEF View
  <2> HIDE DEF Innermost
  <2>. QED
    BY <2>1
<1>2. view = [v \in Vars |-> view[v]]
  BY DEF Bindings
<1> DEFINE f == View(h, e)
<1>3. \A v \in Vars : f[v] = view[v]
  BY DEF Sees
<1> HIDE DEF f
<1>4. f = [v \in Vars |-> f[v]]
  BY <1>1 DEF f
<1>5. f = view
  BY <1>2, <1>3, <1>4
<1>. QED
  BY <1>5 DEF f

\* What a lambda captured does not change, unless it stands in a for loop of a
\* lambda: evalLambda's snapshot is enough whatever is bound, called or rebound
\* later, at any nesting and for programs of any size; what it sees besides are
\* the later lets of its own function.
THEOREM CapturesStay == Spec => []CapturesStableOutsideLoops
<1>1. IInv => CapturesStableOutsideLoops
  <2> SUFFICES ASSUME IInv, NEW c \in 1 .. Len(closures), ~closures[c].looped
               PROVE  View(heap, closures[c].env) = closures[c].seen
    BY DEF CapturesStableOutsideLoops, Keeps
  <2>1. closures[c].seen \in Bindings
    BY Types DEF ClosureSet
  <2>2. Sees(heap, closures[c].env, closures[c].seen)
    BY DEF IInv, ClosuresSee
  <2>. QED
    BY <2>1, <2>2, SeesIsEqual
<1>. QED
  BY <1>1, ScopesInvariant, PTL

\* An activation that is not in the body of a lambda that stands in a for loop of
\* a lambda has its own bindings and no others from start to end: reusing the
\* closure's scope shows in no result, nor does an earlier call with more arguments.
THEOREM ActivationsStayIsolated == Spec => []ActivationsIsolated
<1>1. IInv => ActivationsIsolated
  <2> SUFFICES ASSUME IInv, NEW i \in 1 .. Len(frames), OutsideLoops(i)
               PROVE  View(heap, frames[i].env) = frames[i].view
    BY DEF ActivationsIsolated
  <2>1. frames[i].view \in Bindings
    BY Types DEF FrameSet
  <2>2. Clean(closures, frames, i)
    BY DEF OutsideLoops, Clean
  <2>3. Sees(heap, frames[i].env, frames[i].view)
    BY <2>2 DEF IInv, FramesSee
  <2>. QED
    BY <2>1, <2>3, SeesIsEqual
<1>. QED
  BY <1>1, ScopesInvariant, PTL

\* No two calls run in one argument scope: inCall is enough to tell when the
\* closure's own may be taken.
THEOREM ScratchStaysExclusive == Spec => []ScratchExclusive
<1>1. IInv => ScratchExclusive
  BY DEF IInv
<1>. QED
  BY <1>1, ScopesInvariant, PTL
================================================================================
