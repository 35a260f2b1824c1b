---------------------------- MODULE ModuleProofs ----------------------------
(***************************************************************************)
(* What the builder, the resolver and the batcher promise, for every       *)
(* module that can be declared.                                            *)
(***************************************************************************)
EXTENDS Batcher, FiniteSetTheorems, SequenceTheorems, WellFoundedInduction, TLAPS

(***************************************************************************)
(* Numbers and sequences.                                                  *)
(***************************************************************************)

(* A set of natural numbers has a least one.                               *)
LEMMA LeastOf ==
  ASSUME NEW T, T \subseteq Nat, T # {}
  PROVE  \E m \in T : \A k \in T : m <= k
<1> DEFINE R == OpToRel(<, Nat)
<1>1. IsWellFoundedOn(R, Nat)
  BY NatLessThanWellFounded, Zenon
<1>2. \A a, b \in Nat : a < b => <<a, b>> \in R
  BY Zenon DEF OpToRel
<1> HIDE DEF R
<1>3. PICK m \in T : \A k \in T : ~(<<k, m>> \in R)
  BY <1>1, WFMin, Zenon
<1>4. ASSUME NEW k \in T PROVE m <= k
  <2>1. ~(<<k, m>> \in R) /\ k \in Nat /\ m \in Nat
    BY <1>3
  <2>2. ~(k < m)
    BY <1>2, <2>1, Zenon
  <2> QED
    BY <2>1, <2>2
<1> QED
  BY <1>4

(* Powers of two, up to any number: what the recursion computes exists.    *)
IsPow2(f, n) == f = [k \in 0 .. n |-> IF k = 0 THEN 1 ELSE 2 * f[k - 1]]

LEMMA Pow2UpTo == \A n \in Nat : \E f : IsPow2(f, n)
<1> DEFINE T == {n \in Nat : ~\E f : IsPow2(f, n)}
<1> SUFFICES ASSUME T # {} PROVE FALSE
  OBVIOUS
<1>1. PICK m \in T : \A k \in T : m <= k
  BY LeastOf
<1>2. m # 0
  <2>1. IsPow2([k \in 0 .. 0 |-> 1], 0)
    BY DEF IsPow2
  <2> QED
    BY <2>1, <1>1
<1>3. m \in Nat /\ m - 1 \in Nat /\ m - 1 \notin T
  BY <1>1, <1>2
<1>4. PICK g : IsPow2(g, m - 1)
  BY <1>3
<1> DEFINE last == 2 * g[m - 1]
           f == [k \in 0 .. m |-> IF k < m THEN g[k] ELSE last]
<1>5. \A k \in 0 .. m - 1 : g[k] = IF k = 0 THEN 1 ELSE 2 * g[k - 1]
  BY <1>4 DEF IsPow2
<1> HIDE DEF T
<1>6. ASSUME NEW k \in 0 .. m PROVE f[k] = IF k = 0 THEN 1 ELSE 2 * f[k - 1]
  <2>1. CASE k = 0
    BY <2>1, <1>2, <1>3, <1>5
  <2>2. CASE k # 0 /\ k < m
    <3>1. k \in 0 .. m - 1 /\ k - 1 \in 0 .. m /\ k - 1 < m
      BY <2>2, <1>3
    <3> QED
      BY <3>1, <2>2, <1>5
  <2>3. CASE k = m
    <3>1. m - 1 \in 0 .. m /\ m - 1 < m /\ k \in 0 .. m /\ ~(k < m)
      BY <2>3, <1>3
    <3> QED
      BY <3>1, <2>3, <1>2
  <2> QED
    BY <2>1, <2>2, <2>3, <1>3
<1>7. IsPow2(f, m)
  <2> DEFINE h == [k \in 0 .. m |-> IF k = 0 THEN 1 ELSE 2 * f[k - 1]]
  <2>1. \A k \in 0 .. m : f[k] = h[k]
    BY <1>6
  <2>2. f = h
    BY <2>1
  <2> QED
    BY <2>2, Zenon DEF IsPow2
<1> QED
  BY <1>1, <1>7 DEF T

LEMMA Pow2Recursion ==
  /\ Pow2[0] = 1
  /\ \A n \in Nat : Pow2[n + 1] = 2 * Pow2[n]
<1> DEFINE F(n) == CHOOSE f : IsPow2(f, n)
           P == [n \in Nat |-> F(n)[n]]
<1>1. \A n \in Nat : IsPow2(F(n), n)
  BY Pow2UpTo
<1>2. \A n \in Nat : \A k \in 0 .. n : F(n)[k] = IF k = 0 THEN 1 ELSE 2 * F(n)[k - 1]
  BY <1>1 DEF IsPow2
<1> HIDE DEF F
<1>3. ASSUME NEW n \in Nat PROVE \A k \in 0 .. n : F(n + 1)[k] = F(n)[k]
  <2> DEFINE T == {k \in 0 .. n : F(n + 1)[k] # F(n)[k]}
  <2> SUFFICES ASSUME T # {} PROVE FALSE
    OBVIOUS
  <2>0. T \subseteq Nat
    OBVIOUS
  <2>1. PICK k \in T : \A l \in T : k <= l
    BY <2>0, LeastOf
  <2>2. k \in 0 .. n /\ k \in 0 .. n + 1 /\ F(n + 1)[k] # F(n)[k] /\ n + 1 \in Nat
    BY <2>1
  <2>3. k # 0
    BY <2>2, <1>2
  <2>4. k - 1 \in 0 .. n /\ k - 1 \notin T
    BY <2>1, <2>2, <2>3
  <2>5. F(n + 1)[k - 1] = F(n)[k - 1]
    BY <2>4
  <2> QED
    BY <2>2, <2>3, <2>5, <1>2
<1>4. ASSUME NEW n \in Nat PROVE P[n] = IF n = 0 THEN 1 ELSE 2 * P[n - 1]
  <2>1. CASE n = 0
    BY <2>1, <1>2
  <2>2. CASE n # 0
    <3>1. n - 1 \in Nat /\ n \in 0 .. n /\ n - 1 \in 0 .. n - 1 /\ (n - 1) + 1 = n
      BY <2>2
    <3>2. F(n)[n] = 2 * F(n)[n - 1]
      BY <3>1, <2>2, <1>2
    <3>3. F(n)[n - 1] = F(n - 1)[n - 1]
      BY <3>1, <1>3
    <3> QED
      BY <3>1, <3>2, <3>3, <2>2
  <2> QED
    BY <2>1, <2>2
<1>5. P = [n \in Nat |-> IF n = 0 THEN 1 ELSE 2 * P[n - 1]]
  <2> DEFINE h == [n \in Nat |-> IF n = 0 THEN 1 ELSE 2 * P[n - 1]]
  <2>1. \A n \in Nat : P[n] = h[n]
    BY <1>4
  <2> QED
    BY <2>1
<1> HIDE DEF P
<1>6. Pow2 = [n \in Nat |-> IF n = 0 THEN 1 ELSE 2 * Pow2[n - 1]]
  <2> DEFINE Eq(f) == f = [n \in Nat |-> IF n = 0 THEN 1 ELSE 2 * f[n - 1]]
  <2>1. Eq(P)
    BY <1>5
  <2>2. Pow2 = CHOOSE f : Eq(f)
    BY DEF Pow2
  <2> HIDE DEF Eq
  <2>3. Eq(Pow2)
    BY <2>1, <2>2
  <2> QED
    BY <2>3 DEF Eq
<1>7. ASSUME NEW n \in Nat PROVE Pow2[n] = IF n = 0 THEN 1 ELSE 2 * Pow2[n - 1]
  <2> DEFINE h == [k \in Nat |-> IF k = 0 THEN 1 ELSE 2 * Pow2[k - 1]]
  <2>1. Pow2 = h
    BY <1>6
  <2>2. Pow2[n] = h[n]
    BY <2>1
  <2> QED
    BY <2>2
<1>8. ASSUME NEW n \in Nat PROVE Pow2[n + 1] = 2 * Pow2[n]
  <2>1. n + 1 \in Nat /\ n + 1 # 0 /\ (n + 1) - 1 = n
    OBVIOUS
  <2> QED
    BY <2>1, <1>7
<1> QED
  BY <1>7, <1>8

LEMMA Pow2Positive == \A n \in Nat : Pow2[n] \in Nat \ {0}
<1> DEFINE T == {n \in Nat : Pow2[n] \notin Nat \ {0}}
<1> SUFFICES ASSUME T # {} PROVE FALSE
  OBVIOUS
<1>1. PICK m \in T : \A k \in T : m <= k
  BY LeastOf
<1>2. m \in Nat /\ m # 0
  BY <1>1, Pow2Recursion
<1>3. m - 1 \in Nat /\ m - 1 \notin T /\ (m - 1) + 1 = m
  BY <1>1, <1>2
<1>4. Pow2[m - 1] \in Nat \ {0} /\ Pow2[m] = 2 * Pow2[m - 1]
  BY <1>3, Pow2Recursion
<1> QED
  BY <1>1, <1>4

LEMMA ElemsOf ==
  ASSUME NEW S, NEW s \in Seq(S)
  PROVE  /\ Elems(s) \subseteq S
         /\ Elems(s) = {s[i] : i \in 1 .. Len(s)}
         /\ \A x : x \in Elems(s) <=> \E i \in 1 .. Len(s) : s[i] = x
BY DEF Elems

LEMMA ElemsEmpty == Elems(<<>>) = {}
BY DEF Elems

LEMMA ElemsOne == \A x : Elems(<<x>>) = {x}
<1>1. \A x : DOMAIN <<x>> = {1} /\ <<x>>[1] = x
  OBVIOUS
<1> QED
  BY <1>1 DEF Elems

LEMMA ElemsConcat ==
  ASSUME NEW S, NEW s \in Seq(S), NEW t \in Seq(S)
  PROVE  Elems(s \o t) = Elems(s) \cup Elems(t)
<1> DEFINE u == s \o t
<1>1. /\ u \in Seq(S) /\ Len(u) = Len(s) + Len(t)
      /\ \A i \in 1 .. Len(s) : u[i] = s[i]
      /\ \A i \in 1 .. Len(t) : u[Len(s) + i] = t[i]
      /\ Len(s) \in Nat /\ Len(t) \in Nat
  BY ConcatProperties, LenProperties
<1> HIDE DEF u
<1>2. \A x : x \in Elems(u) <=> \E i \in 1 .. Len(u) : u[i] = x
  BY <1>1, ElemsOf
<1>3. ASSUME NEW x \in Elems(s) \cup Elems(t) PROVE x \in Elems(u)
  <2>1. CASE x \in Elems(s)
    <3>1. PICK i \in 1 .. Len(s) : s[i] = x
      BY <2>1, ElemsOf
    <3> QED
      BY <3>1, <1>1, <1>2
  <2>2. CASE x \in Elems(t)
    <3>1. PICK i \in 1 .. Len(t) : t[i] = x
      BY <2>2, ElemsOf
    <3>2. Len(s) + i \in 1 .. Len(u)
      BY <1>1
    <3> QED
      BY <3>1, <3>2, <1>1, <1>2
  <2> QED
    BY <2>1, <2>2
<1>4. ASSUME NEW x \in Elems(u) PROVE x \in Elems(s) \cup Elems(t)
  <2>1. PICK i \in 1 .. Len(s) + Len(t) : u[i] = x
    BY <1>1, <1>2
  <2>2. CASE i <= Len(s)
    BY <1>1, <2>1, <2>2, ElemsOf
  <2>3. CASE i > Len(s)
    <3>1. i - Len(s) \in 1 .. Len(t) /\ Len(s) + (i - Len(s)) = i
      BY <1>1, <2>3
    <3>2. t[i - Len(s)] = x
      BY <1>1, <2>1, <3>1
    <3> QED
      BY <3>1, <3>2, ElemsOf
  <2> QED
    BY <2>1, <2>2, <2>3, <1>1
<1>5. Elems(u) = Elems(s) \cup Elems(t)
  BY <1>3, <1>4
<1> QED
  BY <1>5 DEF u

LEMMA ElemsAppend ==
  ASSUME NEW S, NEW s \in Seq(S), NEW e \in S
  PROVE  Elems(Append(s, e)) = Elems(s) \cup {e}
<1> DEFINE t == Append(s, e)
<1>1. /\ t \in Seq(S) /\ Len(t) = Len(s) + 1
      /\ \A i \in 1 .. Len(s) : t[i] = s[i]
      /\ t[Len(s) + 1] = e
      /\ Len(s) \in Nat
  BY AppendProperties, LenProperties
<1> HIDE DEF t
<1>2. \A x : x \in Elems(t) <=> \E i \in 1 .. Len(s) + 1 : t[i] = x
  BY <1>1, ElemsOf
<1>3. \A x : x \in Elems(s) <=> \E i \in 1 .. Len(s) : s[i] = x
  BY ElemsOf
<1>4. \A i \in 1 .. Len(s) + 1 : i \in 1 .. Len(s) \/ i = Len(s) + 1
  BY <1>1
<1>5. /\ \A i \in 1 .. Len(s) : t[i] = s[i] /\ i \in 1 .. Len(s) + 1
      /\ Len(s) + 1 \in 1 .. Len(s) + 1
  BY <1>1
<1>6. Elems(t) = Elems(s) \cup {e}
  BY <1>1, <1>2, <1>3, <1>4, <1>5
<1> QED
  BY <1>6 DEF t

LEMMA Narrowed ==
  ASSUME NEW S, NEW s \in Seq(S), NEW R, Elems(s) \subseteq R
  PROVE  s \in Seq(R)
<1>1. s \in [1 .. Len(s) -> S] /\ Len(s) \in Nat /\ DOMAIN s = 1 .. Len(s)
  BY LenProperties
<1>2. s \in [1 .. Len(s) -> R]
  BY <1>1 DEF Elems
<1> QED
  BY <1>1, <1>2

LEMMA UpToIsSeq ==
  ASSUME NEW S, NEW k, NEW q \in UpTo(S, k)
  PROVE  q \in Seq(S)
<1>1. PICK j \in 0 .. k : q \in [1 .. j -> S]
  BY DEF UpTo
<1> QED
  BY <1>1

(***************************************************************************)
(* The builder.                                                            *)
(***************************************************************************)
HookKinds == BeforeTypes \cup AfterTypes
BindingRecords ==
  [name : Names, contract : ContractNames, args : Seq(Names \cup Literals), library : BOOLEAN,
   custom : BOOLEAN, deps : Seq(Names), depth : Seq(SubModules),
   eventsDeps : [HookKinds -> Seq(Hooks)]]
EventRecords ==
  [name : Hooks, type : HookTypes, deps : Seq(Names), eventDeps : Seq(Hooks),
   usage : Seq(Names), eventUsage : Seq(Hooks), depth : Seq(SubModules)]

BuilderType ==
  /\ bindings \in Seq(BindingRecords) /\ events \in Seq(EventRecords)
  /\ templates \subseteq Templates /\ started = ModuleHooks
  /\ depth \in Seq(SubModules) /\ used \subseteq SubModules
  /\ outcome \in {"building", "built", "failed", "resolving", "resolved", "unresolvable",
                  "batching", "batched", "unbatched"}

(* A name is bound once.                                                   *)
NamesOnce ==
  /\ \A i, j \in DOMAIN bindings : bindings[i].name = bindings[j].name => i = j
  /\ \A i, j \in DOMAIN events : events[i].name = events[j].name => i = j

(* Only what is declared is named.                                         *)
OnlyDeclared ==
  /\ \A i \in DOMAIN bindings : /\ Elems(bindings[i].args) \subseteq Bound \cup Literals
                                /\ Elems(bindings[i].deps) \subseteq Bound
  /\ \A j \in DOMAIN events :
       /\ Elems(events[j].deps) \cup Elems(events[j].usage) \subseteq Bound
       /\ Elems(events[j].eventDeps) \cup Elems(events[j].eventUsage) \subseteq Hooked
       /\ events[j].deps \o events[j].eventDeps # <<>>

(* The lists of a binding are the hooks declared on it, by their type.     *)
IsOn(e, type, n) ==
  \E j \in DOMAIN events : /\ events[j].name = e /\ events[j].type = type
                           /\ n \in Elems(events[j].deps)
HooksListed ==
  \A i \in DOMAIN bindings : \A type \in HookKinds : \A e \in Hooks :
    e \in Elems(bindings[i].eventsDeps[type]) <=> IsOn(e, type, bindings[i].name)

Builder == BuilderType /\ NamesOnce /\ OnlyDeclared /\ HooksListed

LEMMA BuilderStart == Init => Builder
<1>1. SUFFICES ASSUME Init PROVE Builder
  OBVIOUS
<1>2. /\ bindings = <<>> /\ events = <<>> /\ DOMAIN bindings = {} /\ DOMAIN events = {}
      /\ templates = {} /\ started = ModuleHooks /\ depth = <<>> /\ used = {}
      /\ outcome = "building"
  BY <1>1 DEF Init
<1>3. BuilderType
  BY <1>2 DEF BuilderType
<1> QED
  BY <1>2, <1>3 DEF Builder, NamesOnce, OnlyDeclared, HooksListed

LEMMA BindStep ==
  ASSUME Builder, NEW b \in BindingRecords, Bind(b), b.name \notin Bound,
         Elems(b.args) \subseteq Bound \cup Literals, Elems(b.deps) \subseteq Bound,
         \A type \in HookKinds : b.eventsDeps[type] = <<>>
  PROVE  Builder'
<1>1. /\ bindings' = Append(bindings, b) /\ events' = events
      /\ UNCHANGED <<templates, started, depth, used, outcome>>
  BY DEF Bind
<1>2. BuilderType /\ NamesOnce /\ OnlyDeclared /\ HooksListed
  BY DEF Builder
<1>3. /\ bindings \in Seq(BindingRecords) /\ Len(bindings) \in Nat
      /\ DOMAIN bindings = 1 .. Len(bindings)
  BY <1>2, LenProperties DEF BuilderType
<1>4. /\ bindings' \in Seq(BindingRecords)
      /\ DOMAIN bindings' = 1 .. Len(bindings) + 1
      /\ \A i \in 1 .. Len(bindings) : bindings'[i] = bindings[i]
      /\ bindings'[Len(bindings) + 1] = b
  BY <1>1, <1>3, AppendProperties, LenProperties
<1>5. \A i \in DOMAIN bindings' : i \in DOMAIN bindings \/ i = Len(bindings) + 1
  BY <1>3, <1>4
<1>6. BuilderType'
  BY <1>1, <1>2, <1>4 DEF BuilderType
<1>7. Bound \subseteq Bound' /\ Hooked' = Hooked
  BY <1>1, <1>3, <1>4 DEF Bound, Hooked
<1>8. NamesOnce'
  <2>1. \A i \in DOMAIN bindings : bindings'[i].name # b.name
    BY <1>3, <1>4 DEF Bound
  <2> QED
    BY <1>1, <1>2, <1>3, <1>4, <1>5, <2>1 DEF NamesOnce
<1>9. OnlyDeclared'
  BY <1>1, <1>2, <1>3, <1>4, <1>5, <1>7 DEF OnlyDeclared
<1>10. HooksListed'
  <2>1. \A e, type : ~IsOn(e, type, b.name)
    BY <1>2 DEF IsOn, OnlyDeclared
  <2>2. \A e, type, n : IsOn(e, type, n)' <=> IsOn(e, type, n)
    BY <1>1 DEF IsOn
  <2>3. ASSUME NEW i \in DOMAIN bindings', NEW type \in HookKinds, NEW e \in Hooks
        PROVE  e \in Elems(bindings'[i].eventsDeps[type]) <=> IsOn(e, type, bindings'[i].name)
    <3>1. CASE i \in DOMAIN bindings
      BY <3>1, <1>2, <1>3, <1>4 DEF HooksListed
    <3>2. CASE i = Len(bindings) + 1
      BY <3>2, <1>4, <2>1, ElemsEmpty
    <3> QED
      BY <3>1, <3>2, <1>5
  <2> QED
    BY <2>2, <2>3 DEF HooksListed
<1> QED
  BY <1>6, <1>8, <1>9, <1>10 DEF Builder

LEMMA DeployFnStep ==
  ASSUME Builder, NEW n, NEW deps \in UpTo(Bound, 1), DeployFn(n, deps)
  PROVE  Builder'
<1> DEFINE B(i) == IF bindings[i].name = n
                   THEN [bindings[i] EXCEPT !.custom = TRUE, !.deps = deps] ELSE bindings[i]
<1>1. /\ bindings' = [i \in DOMAIN bindings |-> B(i)]
      /\ UNCHANGED <<events, templates, started, depth, used, outcome>>
  BY DEF DeployFn
<1>2. BuilderType /\ NamesOnce /\ OnlyDeclared /\ HooksListed
  BY DEF Builder
<1>3. /\ bindings \in Seq(BindingRecords) /\ Len(bindings) \in Nat
      /\ DOMAIN bindings = 1 .. Len(bindings)
      /\ \A i \in DOMAIN bindings : bindings[i] \in BindingRecords
  BY <1>2, LenProperties, ElementOfSeq DEF BuilderType
<1>4. deps \in Seq(Names) /\ Elems(deps) \subseteq Bound
  <2>1. Bound \subseteq Names
    BY <1>3 DEF Bound, BindingRecords
  <2>2. deps \in Seq(Bound)
    BY UpToIsSeq
  <2> QED
    BY <2>1, <2>2, SeqMonotonic, ElemsOf
<1>5. ASSUME NEW i \in DOMAIN bindings
      PROVE  /\ B(i) \in BindingRecords
             /\ B(i).name = bindings[i].name /\ B(i).args = bindings[i].args
             /\ B(i).eventsDeps = bindings[i].eventsDeps
             /\ B(i).deps \in {bindings[i].deps, deps}
  <2>1. bindings[i] \in BindingRecords
    BY <1>3
  <2> QED
    BY <2>1, <1>4 DEF BindingRecords
<1> HIDE DEF B
<1>6. /\ bindings' \in Seq(BindingRecords) /\ DOMAIN bindings' = DOMAIN bindings
      /\ \A i \in DOMAIN bindings : bindings'[i] = B(i)
  BY <1>1, <1>3, <1>5
<1>7. Bound' = Bound /\ Hooked' = Hooked
  BY <1>1, <1>5, <1>6 DEF Bound, Hooked
<1>8. BuilderType'
  BY <1>1, <1>2, <1>6 DEF BuilderType
<1>9. NamesOnce'
  BY <1>1, <1>2, <1>5, <1>6 DEF NamesOnce
<1>10. OnlyDeclared'
  BY <1>1, <1>2, <1>4, <1>5, <1>6, <1>7 DEF OnlyDeclared
<1>11. HooksListed'
  <2>1. \A e, type, m : IsOn(e, type, m)' <=> IsOn(e, type, m)
    BY <1>1 DEF IsOn
  <2> QED
    BY <1>2, <1>5, <1>6, <2>1 DEF HooksListed
<1> QED
  BY <1>8, <1>9, <1>10, <1>11 DEF Builder

LEMMA FactoryStep ==
  ASSUME Builder, NEW n \in Bound, NEW child \in Names, FactoryCreate(n, child)
  PROVE  Builder'
<1> DEFINE b == New(child, child, <<>>, FALSE)
           c == [b EXCEPT !.custom = TRUE, !.deps = <<n>>]
<1>1. BuilderType
  BY DEF Builder
<1>2. n \in Names
  <2>1. PICK i \in DOMAIN bindings : bindings[i].name = n
    BY DEF Bound
  <2>2. bindings[i] \in BindingRecords
    BY <1>1, <2>1, ElementOfSeq, LenProperties DEF BuilderType
  <2> QED
    BY <2>1, <2>2 DEF BindingRecords
<1>3. /\ b \in BindingRecords /\ b.name = child /\ b.args = <<>>
      /\ \A type \in HookKinds : b.eventsDeps[type] = <<>>
  <2>1. child \in ContractNames /\ <<>> \in Seq(Names \cup Literals) /\ FALSE \in BOOLEAN
    BY DEF ContractNames
  <2> QED
    BY <1>1, <2>1 DEF New, BindingRecords, BuilderType, HookKinds
<1>4. /\ Bind(c) /\ child \notin Bound
  BY DEF FactoryCreate
<1> HIDE DEF b
<1>5. /\ c \in BindingRecords /\ c.name = child /\ c.args = <<>> /\ c.deps = <<n>>
      /\ c.eventsDeps = b.eventsDeps
  <2> DEFINE deps == <<n>>
  <2>1. deps \in Seq(Names)
    BY <1>2
  <2> HIDE DEF deps
  <2>2. /\ [b EXCEPT !.custom = TRUE, !.deps = deps] \in BindingRecords
        /\ [b EXCEPT !.custom = TRUE, !.deps = deps].name = b.name
        /\ [b EXCEPT !.custom = TRUE, !.deps = deps].args = b.args
        /\ [b EXCEPT !.custom = TRUE, !.deps = deps].deps = deps
        /\ [b EXCEPT !.custom = TRUE, !.deps = deps].eventsDeps = b.eventsDeps
    BY <2>1, <1>3 DEF BindingRecords
  <2> QED
    BY <2>2, <1>3 DEF deps
<1>6. Elems(<<n>>) = {n} /\ Elems(<<>>) = {}
  BY ElemsOne, ElemsEmpty
<1> HIDE DEF c
<1> QED
  BY <1>3, <1>4, <1>5, <1>6, BindStep

LEMMA HookStep ==
  ASSUME Builder, NEW type \in HookTypes, NEW e \in Hooks,
         NEW deps \in Seq(Bound), NEW eventDeps \in Seq(Hooked),
         NEW usage \in Seq(Bound), NEW eventUsage \in Seq(Hooked),
         Hook(type, e, deps, eventDeps, usage, eventUsage)
  PROVE  Builder'
<1> DEFINE B(i) == IF bindings[i].name \in Elems(deps)
                   THEN [bindings[i] EXCEPT !.eventsDeps[type] = Append(@, e)] ELSE bindings[i]
           x == BaseEvent(e, type, deps, eventDeps, usage, eventUsage)
<1>1. /\ bindings' = [i \in DOMAIN bindings |-> B(i)]
      /\ events' = Append(events, x) /\ e \notin Hooked /\ deps \o eventDeps # <<>>
      /\ UNCHANGED <<templates, started, depth, used, outcome>>
  BY DEF Hook, PushTo
<1>2. BuilderType /\ NamesOnce /\ OnlyDeclared /\ HooksListed
  BY DEF Builder
<1>3. /\ bindings \in Seq(BindingRecords) /\ Len(bindings) \in Nat
      /\ DOMAIN bindings = 1 .. Len(bindings)
      /\ \A i \in DOMAIN bindings : bindings[i] \in BindingRecords
      /\ events \in Seq(EventRecords) /\ Len(events) \in Nat
      /\ DOMAIN events = 1 .. Len(events)
      /\ \A j \in DOMAIN events : events[j] \in EventRecords
  BY <1>2, LenProperties, ElementOfSeq DEF BuilderType
<1>4. Bound \subseteq Names /\ Hooked \subseteq Hooks /\ type \in HookKinds
  BY <1>3, BuilderAssumption DEF Bound, Hooked, BindingRecords, EventRecords, HookKinds
<1>5. /\ deps \in Seq(Names) /\ Elems(deps) \subseteq Bound
      /\ usage \in Seq(Names) /\ Elems(usage) \subseteq Bound
      /\ eventDeps \in Seq(Hooks) /\ Elems(eventDeps) \subseteq Hooked
      /\ eventUsage \in Seq(Hooks) /\ Elems(eventUsage) \subseteq Hooked
  BY <1>4, SeqMonotonic, ElemsOf
<1>6. /\ x \in EventRecords /\ x.name = e /\ x.type = type /\ x.deps = deps
      /\ x.eventDeps = eventDeps /\ x.usage = usage /\ x.eventUsage = eventUsage
  BY <1>2, <1>5 DEF BaseEvent, EventRecords, BuilderType
<1>7. ASSUME NEW i \in DOMAIN bindings
      PROVE  /\ B(i) \in BindingRecords
             /\ B(i).name = bindings[i].name /\ B(i).args = bindings[i].args
             /\ B(i).deps = bindings[i].deps
             /\ \A other \in HookKinds : \A f \in Hooks :
                  f \in Elems(B(i).eventsDeps[other])
                  <=> \/ f \in Elems(bindings[i].eventsDeps[other])
                      \/ f = e /\ other = type /\ bindings[i].name \in Elems(deps)
  <2> DEFINE b == bindings[i]
             lists == b.eventsDeps
             more == [lists EXCEPT ![type] = Append(lists[type], e)]
  <2>1. b \in BindingRecords
    BY <1>3
  <2>2. lists \in [HookKinds -> Seq(Hooks)]
    BY <2>1 DEF BindingRecords
  <2>3. CASE b.name \in Elems(deps)
    <3>1. B(i) = [b EXCEPT !.eventsDeps = more]
      BY <2>3
    <3>2. more \in [HookKinds -> Seq(Hooks)]
      BY <2>2, <1>4, AppendProperties
    <3>3. \A other \in HookKinds : \A f \in Hooks :
            f \in Elems(more[other]) <=> f \in Elems(lists[other]) \/ (f = e /\ other = type)
      <4>1. ASSUME NEW other \in HookKinds, other # type PROVE more[other] = lists[other]
        BY <4>1, <2>2
      <4>2. more[type] = Append(lists[type], e) /\ lists[type] \in Seq(Hooks)
        BY <2>2, <1>4
      <4>3. Elems(more[type]) = Elems(lists[type]) \cup {e}
        BY <4>2, ElemsAppend
      <4> QED
        BY <4>1, <4>3
    <3> HIDE DEF more
    <3>4. /\ [b EXCEPT !.eventsDeps = more] \in BindingRecords
          /\ [b EXCEPT !.eventsDeps = more].name = b.name
          /\ [b EXCEPT !.eventsDeps = more].args = b.args
          /\ [b EXCEPT !.eventsDeps = more].deps = b.deps
          /\ [b EXCEPT !.eventsDeps = more].eventsDeps = more
      BY <2>1, <3>2 DEF BindingRecords
    <3> QED
      BY <3>1, <3>3, <3>4, <2>3
  <2>4. CASE b.name \notin Elems(deps)
    BY <2>1, <2>4
  <2> QED
    BY <2>3, <2>4
<1> HIDE DEF B, x
<1>8. /\ bindings' \in Seq(BindingRecords) /\ DOMAIN bindings' = DOMAIN bindings
      /\ \A i \in DOMAIN bindings : bindings'[i] = B(i)
  BY <1>1, <1>3, <1>7
<1>9. /\ events' \in Seq(EventRecords)
      /\ DOMAIN events' = 1 .. Len(events) + 1
      /\ \A j \in 1 .. Len(events) : events'[j] = events[j]
      /\ events'[Len(events) + 1] = x
  BY <1>1, <1>3, <1>6, AppendProperties, LenProperties
<1>10. \A j \in DOMAIN events' : j \in DOMAIN events \/ j = Len(events) + 1
  BY <1>3, <1>9
<1>11. Bound' = Bound /\ Hooked \subseteq Hooked' /\ e \in Hooked'
  <2>1. \A i \in DOMAIN bindings : bindings'[i].name = bindings[i].name
    BY <1>7, <1>8
  <2>2. Bound' = Bound
    BY <1>8, <2>1 DEF Bound
  <2>3. DOMAIN events \subseteq DOMAIN events' /\ Len(events) + 1 \in DOMAIN events'
    BY <1>3, <1>9
  <2>4. Hooked \subseteq Hooked' /\ e \in Hooked'
    BY <1>3, <1>6, <1>9, <2>3 DEF Hooked
  <2> QED
    BY <2>2, <2>4
<1>12. BuilderType'
  BY <1>1, <1>2, <1>8, <1>9 DEF BuilderType
<1>13. NamesOnce'
  <2>1. \A j \in DOMAIN events : events'[j].name # e
    BY <1>1, <1>3, <1>9 DEF Hooked
  <2>2. \A i, j \in DOMAIN bindings' : bindings'[i].name = bindings'[j].name => i = j
    BY <1>2, <1>7, <1>8 DEF NamesOnce
  <2>3. \A i, j \in DOMAIN events' : events'[i].name = events'[j].name => i = j
    BY <1>2, <1>3, <1>6, <1>9, <1>10, <2>1 DEF NamesOnce
  <2> QED
    BY <2>2, <2>3 DEF NamesOnce
<1>14. OnlyDeclared'
  <2>1. \A i \in DOMAIN bindings' : /\ Elems(bindings'[i].args) \subseteq Bound' \cup Literals
                                    /\ Elems(bindings'[i].deps) \subseteq Bound'
    BY <1>2, <1>7, <1>8, <1>11 DEF OnlyDeclared
  <2>2. ASSUME NEW j \in DOMAIN events'
        PROVE  /\ Elems(events'[j].deps) \cup Elems(events'[j].usage) \subseteq Bound'
               /\ Elems(events'[j].eventDeps) \cup Elems(events'[j].eventUsage) \subseteq Hooked'
               /\ events'[j].deps \o events'[j].eventDeps # <<>>
    <3>1. CASE j \in DOMAIN events
      BY <3>1, <1>2, <1>3, <1>9, <1>11 DEF OnlyDeclared
    <3>2. CASE j = Len(events) + 1
      BY <3>2, <1>1, <1>5, <1>6, <1>9, <1>11
    <3> QED
      BY <3>1, <3>2, <1>10
  <2> QED
    BY <2>1, <2>2 DEF OnlyDeclared
<1>15. HooksListed'
  <2>1. \A f, other, m : IsOn(f, other, m)'
          <=> IsOn(f, other, m) \/ (f = e /\ other = type /\ m \in Elems(deps))
    <3> TAKE f, other, m
    <3>1. IsOn(f, other, m)' <=> \E j \in DOMAIN events' :
            events'[j].name = f /\ events'[j].type = other /\ m \in Elems(events'[j].deps)
      BY DEF IsOn
    <3>2. (\E j \in DOMAIN events' :
            events'[j].name = f /\ events'[j].type = other /\ m \in Elems(events'[j].deps))
          <=> \/ \E j \in DOMAIN events :
                   events[j].name = f /\ events[j].type = other /\ m \in Elems(events[j].deps)
              \/ x.name = f /\ x.type = other /\ m \in Elems(x.deps)
      <4>1. DOMAIN events \subseteq DOMAIN events' /\ Len(events) + 1 \in DOMAIN events'
        BY <1>3, <1>9
      <4> QED
        BY <4>1, <1>3, <1>9, <1>10
    <3> QED
      BY <3>1, <3>2, <1>6 DEF IsOn
  <2>2. ASSUME NEW i \in DOMAIN bindings', NEW other \in HookKinds, NEW f \in Hooks
        PROVE  f \in Elems(bindings'[i].eventsDeps[other])
               <=> \/ IsOn(f, other, bindings'[i].name)
                   \/ f = e /\ other = type /\ bindings'[i].name \in Elems(deps)
    <3>1. /\ i \in DOMAIN bindings /\ bindings'[i] = B(i)
          /\ bindings'[i].name = bindings[i].name
      BY <1>7, <1>8
    <3>2. f \in Elems(bindings[i].eventsDeps[other]) <=> IsOn(f, other, bindings[i].name)
      BY <1>2, <3>1 DEF HooksListed
    <3>3. f \in Elems(B(i).eventsDeps[other])
          <=> \/ f \in Elems(bindings[i].eventsDeps[other])
              \/ f = e /\ other = type /\ bindings[i].name \in Elems(deps)
      BY <1>7, <3>1
    <3> QED
      BY <3>1, <3>2, <3>3
  <2> QED
    BY <2>1, <2>2 DEF HooksListed
<1> QED
  BY <1>12, <1>13, <1>14, <1>15 DEF Builder

Outcomes == {"building", "built", "failed", "resolving", "resolved", "unresolvable",
             "batching", "batched", "unbatched"}
Declarations == <<bindings, events, templates, started, depth, used>>

(* Bindings and hooks stay, and the rest has its type.                     *)
LEMMA BuilderKept ==
  ASSUME Builder, UNCHANGED <<bindings, events, started>>, templates' \subseteq Templates,
         depth' \in Seq(SubModules), used' \subseteq SubModules, outcome' \in Outcomes
  PROVE  Builder'
<1>1. BuilderType /\ NamesOnce /\ OnlyDeclared /\ HooksListed
  BY DEF Builder
<1>2. BuilderType'
  BY <1>1 DEF BuilderType, Outcomes
<1>3. NamesOnce'
  BY <1>1 DEF NamesOnce
<1>4. OnlyDeclared'
  <2>1. Bound' = Bound /\ Hooked' = Hooked
    BY DEF Bound, Hooked
  <2> QED
    BY <1>1, <2>1 DEF OnlyDeclared
<1>5. HooksListed'
  <2>1. \A e, type, n : IsOn(e, type, n)' <=> IsOn(e, type, n)
    BY DEF IsOn
  <2> QED
    BY <1>1, <2>1 DEF HooksListed
<1> QED
  BY <1>2, <1>3, <1>4, <1>5 DEF Builder

LEMMA CallStep ==
  ASSUME Builder, Call
  PROVE  Builder'
<1>1. BuilderType /\ Calling
  BY DEF Builder, Call
<1>2. /\ outcome \in Outcomes /\ templates \subseteq Templates /\ depth \in Seq(SubModules)
      /\ used \subseteq SubModules /\ {"failed", "built"} \subseteq Outcomes
  BY <1>1 DEF BuilderType, Outcomes
<1>3. ASSUME NEW q \in Args PROVE q \in Seq(Names \cup Literals) /\ Elems(q) \subseteq Bound \cup Literals
  <2>1. Bound \subseteq Names
    <3>1. \A i \in DOMAIN bindings : bindings[i] \in BindingRecords
      BY <1>1, ElementOfSeq, LenProperties DEF BuilderType
    <3> QED
      BY <3>1 DEF Bound, BindingRecords
  <2>2. q \in Seq(Bound \cup Literals)
    BY UpToIsSeq DEF Args
  <2>3. Bound \cup Literals \subseteq Names \cup Literals
    BY <2>1
  <2> QED
    BY <2>2, <2>3, SeqMonotonic, ElemsOf
<1>4. ASSUME NEW n \in Names, NEW c \in ContractNames, NEW q \in Args, NEW l \in BOOLEAN,
             n \notin Bound, Bind(New(n, c, q, l))
      PROVE  Builder'
  <2> DEFINE b == New(n, c, q, l)
  <2>1. /\ b \in BindingRecords /\ b.name = n /\ b.args = q /\ b.deps = <<>>
        /\ \A type \in HookKinds : b.eventsDeps[type] = <<>>
    BY <1>1, <1>3 DEF New, BindingRecords, BuilderType, HookKinds
  <2>2. Bind(b)
    BY <1>4
  <2> HIDE DEF b
  <2>3. Elems(b.deps) \subseteq Bound
    BY <2>1, ElemsEmpty
  <2> QED
    BY <1>3, <1>4, <2>1, <2>2, <2>3, BindStep
<1>5. ASSUME Throw PROVE Builder'
  BY <1>2, <1>5, BuilderKept DEF Throw, BuilderType, Builder
<1>6. ASSUME NEW n \in Names, NEW q \in Args, Contract(n, q) \/ Library(n, q) PROVE Builder'
  <2>1. n \in ContractNames /\ TRUE \in BOOLEAN /\ FALSE \in BOOLEAN
    BY DEF ContractNames
  <2>2. n \notin Bound /\ (Bind(New(n, n, q, FALSE)) \/ Bind(New(n, n, q, TRUE)))
    BY <1>6 DEF Contract, Library
  <2> QED
    BY <2>1, <2>2, <1>4
<1>7. ASSUME NEW t \in Templates, ContractTemplate(t) PROVE Builder'
  BY <1>2, <1>7, BuilderKept DEF ContractTemplate, BuilderType, Builder
<1>8. ASSUME NEW n \in Names, NEW t \in Templates, NEW q \in Args, BindTemplate(n, t, q)
      PROVE  Builder'
  <2>1. t \in ContractNames /\ FALSE \in BOOLEAN
    BY DEF ContractNames
  <2>2. n \notin Bound /\ Bind(New(n, t, q, FALSE))
    BY <1>8 DEF BindTemplate
  <2> QED
    BY <2>1, <2>2, <1>4
<1>9. ASSUME NEW type \in HookTypes, NEW e \in Hooks,
             NEW deps \in UpTo(Bound, MaxGroup), NEW eventDeps \in UpTo(Hooked, MaxGroup),
             NEW usage \in UpTo(Bound, 1), NEW eventUsage \in UpTo(Hooked, 1),
             Hook(type, e, deps, eventDeps, usage, eventUsage)
      PROVE  Builder'
  <2>1. /\ deps \in Seq(Bound) /\ eventDeps \in Seq(Hooked)
        /\ usage \in Seq(Bound) /\ eventUsage \in Seq(Hooked)
    BY UpToIsSeq
  <2> QED
    BY <1>9, <2>1, HookStep
<1>10. ASSUME NEW s \in SubModules, UseModule(s) PROVE Builder'
  <2>1. depth' \in Seq(SubModules) /\ used' \subseteq SubModules
    BY <1>2, <1>10, AppendProperties DEF UseModule
  <2> QED
    BY <1>2, <1>10, <2>1, BuilderKept DEF UseModule
<1>11. ASSUME EndModule PROVE Builder'
  <2>1. depth' \in Seq(SubModules)
    <3>1. /\ Len(depth) - 1 \in Int /\ depth' = SubSeq(depth, 1, Len(depth) - 1)
          /\ \A i \in 1 .. Len(depth) - 1 : depth[i] \in SubModules
      BY <1>2, <1>11, LenProperties, ElementOfSeq DEF EndModule
    <3> QED
      BY <3>1, SubSeqProperties
  <2> QED
    BY <1>2, <1>11, <2>1, BuilderKept DEF EndModule
<1>12. ASSUME Built PROVE Builder'
  BY <1>2, <1>12, BuilderKept DEF Built
<1>13. ASSUME NEW n, NEW t, BindFails(n, t) PROVE Builder'
  BY <1>5, <1>13 DEF BindFails
<1>14. ASSUME NEW e, HookNameExists(e) PROVE Builder'
  BY <1>5, <1>14 DEF HookNameExists
<1>15. ASSUME NEW s, UseModuleAgain(s) PROVE Builder'
  BY <1>5, <1>15 DEF UseModuleAgain
<1>16. ASSUME Invalid PROVE Builder'
  BY <1>5, <1>16 DEF Invalid
<1> QED
  BY <1>6, <1>7, <1>8, <1>9, <1>10, <1>11, <1>12, <1>13, <1>14, <1>15, <1>16,
     DeployFnStep, FactoryStep DEF Call

(* Once the module is built, the declarations stay as they are.            *)
LEMMA MovesOn ==
  ASSUME BatchNext, ~Call
  PROVE  /\ UNCHANGED Declarations
         /\ outcome # "building" /\ (outcome' = outcome \/ outcome' \in Outcomes)
         /\ outcome' \notin {"building", "failed", "built"}
<1> QED
  BY DEF BatchNext, ResolveNext, Resolve, Walk, Resolved, ExecuteParallel, Batching, ExecuteBatches,
     AlreadyThere, NotBound, ResolveContract, Overflow, ContractResolved, AddBeforeEvent,
     ContractsOfDependency, AddEvent, ResolveSingleEvent, UsageFound, UsageEventNotFound, Add,
     Continue, Fail, Pending, Declarations, Outcomes, builder,
     Skip, Library1, Contract1, HandleArgument, PutContract, HandleEvent, HandleBeforeDeploy,
     HandleAfterDeploy, Go, Put, Refuse, Waiting

LEMMA BuilderStep ==
  ASSUME Builder, [BatchNext]_all
  PROVE  Builder'
<1>1. CASE Call
  BY <1>1, CallStep
<1>2. CASE BatchNext /\ ~Call
  <2>1. /\ UNCHANGED Declarations
        /\ (outcome' = outcome \/ outcome' \in Outcomes)
    BY <1>2, MovesOn
  <2>2. /\ templates \subseteq Templates /\ depth \in Seq(SubModules)
        /\ used \subseteq SubModules /\ outcome \in Outcomes
    BY DEF Builder, BuilderType, Outcomes
  <2> QED
    BY <2>1, <2>2, BuilderKept DEF Declarations
<1>3. CASE UNCHANGED all
  <2>1. /\ templates \subseteq Templates /\ depth \in Seq(SubModules)
        /\ used \subseteq SubModules /\ outcome \in Outcomes
    BY DEF Builder, BuilderType, Outcomes
  <2> QED
    BY <1>3, <2>1, BuilderKept DEF all, builder
<1> QED
  BY <1>1, <1>2, <1>3

(* The declarations are well formed throughout: names are bound once, what *)
(* is named is declared, and each contract lists the hooks on it.          *)
THEOREM BuilderInvariant == BatchSpec => []Builder
<1>1. BatchInit => Builder
  BY BuilderStart DEF BatchInit, ResolveInit
<1>2. Builder /\ [BatchNext]_all => Builder'
  BY BuilderStep
<1> QED
  BY <1>1, <1>2, PTL DEF BatchSpec

(***************************************************************************)
(* The validation of arguments.                                            *)
(***************************************************************************)
Done == outcome \notin {"building", "failed"}
Validated == Done => HandleModule

LEMMA ValidatedStep ==
  ASSUME Validated, [BatchNext]_all
  PROVE  Validated'
<1>1. CASE Call
  <2>1. CASE Built
    <3>1. HandleModule /\ bindings' = bindings
      BY <2>1 DEF Built
    <3> QED
      BY <3>1 DEF Validated, HandleModule
  <2>2. CASE ~Built
    <3>1. outcome' \in {"building", "failed"}
      BY <1>1, <2>2 DEF Call, Calling, Contract, Library, Bind, ContractTemplate, BindFails, Throw,
         BindTemplate, DeployFn, FactoryCreate, Hook, HookNameExists, UseModule, UseModuleAgain,
         EndModule, Invalid
    <3> QED
      BY <3>1 DEF Validated, Done
  <2> QED
    BY <2>1, <2>2
<1>2. CASE BatchNext /\ ~Call
  <2>1. bindings' = bindings /\ outcome # "building"
    BY <1>2, MovesOn DEF Declarations
  <2>2. outcome # "failed"
    BY <1>2 DEF BatchNext, ResolveNext, Resolve, Walk, Resolved, ExecuteParallel, Batching,
       ExecuteBatches, AlreadyThere, NotBound, ResolveContract, Overflow, ContractResolved,
       AddBeforeEvent, ContractsOfDependency, AddEvent, ResolveSingleEvent, UsageFound,
       UsageEventNotFound, Add, Pending, Skip, Library1, Contract1, HandleArgument, PutContract,
       HandleEvent, Waiting
  <2> QED
    BY <2>1, <2>2 DEF Validated, Done, HandleModule
<1>3. CASE UNCHANGED all
  BY <1>3 DEF all, builder, Validated, Done, HandleModule
<1> QED
  BY <1>1, <1>2, <1>3

(* A number in the range of an integer type is a value of the type.        *)
LEMMA RangeOfType ==
  ASSUME NEW v \in Int, NEW type, type.kind \in {"int", "uint"},
         type.bits \in Nat, type.bits > 0, HandleInt(v, type)
  PROVE  InElems(v, type)
<1>1. PICK n \in Nat : type.bits = n + 1
  <2>1. type.bits - 1 \in Nat /\ type.bits = (type.bits - 1) + 1
    OBVIOUS
  <2> QED
    BY <2>1
<1>2. Pow2[n + 1] = 2 * Pow2[n] /\ Pow2[n] \in Nat
  BY Pow2Recursion, Pow2Positive
<1>3. type.bits - 1 = n
  BY <1>1
<1> DEFINE p == Pow2[n]
           q == Pow2[n + 1]
<1>4. p \in Nat /\ q = 2 * p /\ q \div 2 = p
  BY <1>2
<1>5. CASE type.kind = "uint"
  <2>1. v >= 0 /\ Abs(v) <= q - 1
    BY <1>1, <1>5 DEF HandleInt
  <2> QED
    BY <1>1, <1>4, <1>5, <2>1 DEF InElems, Abs
<1>6. CASE type.kind # "uint"
  <2>1. Abs(v) <= (q \div 2) - 1
    BY <1>1, <1>6 DEF HandleInt
  <2>2. v \in -p .. p - 1
    BY <1>4, <2>1 DEF Abs
  <2> QED
    BY <1>1, <1>3, <1>6, <2>2 DEF InElems
<1> QED
  BY <1>5, <1>6

LEMMA ValidatedFits ==
  ASSUME Builder, Validated
  PROVE  ArgumentsFit
<1>1. SUFFICES ASSUME outcome = "built", NEW i \in DOMAIN bindings,
                      NEW j \in DOMAIN bindings[i].args
      PROVE  IF bindings[i].args[j] \in Names THEN Abi[bindings[i].contract][j].kind = "address"
             ELSE /\ Abi[bindings[i].contract][j].kind # "address"
                  /\ InElems(bindings[i].args[j], Abi[bindings[i].contract][j])
  BY DEF ArgumentsFit
<1> DEFINE v == bindings[i].args[j]
           abi == Abi[bindings[i].contract]
<1>2. /\ bindings[i].contract \in ContractNames /\ bindings[i].args \in Seq(Names \cup Literals)
  <2>1. bindings[i] \in BindingRecords
    BY ElementOfSeq, LenProperties DEF Builder, BuilderType
  <2> QED
    BY <2>1 DEF BindingRecords
<1>3. v \in Names \cup Literals
  BY <1>2, ElementOfSeq, LenProperties
<1>4. j \in DOMAIN abi /\ HandleType(v, abi[j])
  BY <1>1 DEF Validated, Done, HandleModule, Valid
<1>5. abi \in Seq([kind : {"address", "int", "uint"}, bits : Nat])
  BY <1>2, BuilderAssumption
<1>6. abi[j].kind \in {"address", "int", "uint"} /\ abi[j].bits \in Nat
  <2>1. abi[j] \in [kind : {"address", "int", "uint"}, bits : Nat]
    BY <1>4, <1>5, ElementOfSeq, LenProperties
  <2> QED
    BY <2>1
<1>7. CASE v \in Names
  BY <1>4, <1>7 DEF HandleType
<1>8. CASE v \notin Names
  <2>1. v \in Int
    BY <1>3, <1>8, BuilderAssumption
  <2>2. Integer(abi[j]) /\ HandleInt(v, abi[j])
    BY <1>4, <1>8 DEF HandleType
  <2>3. abi[j].kind \in {"int", "uint"} /\ abi[j].bits > 0
    BY <1>2, <1>4, <2>2, BuilderAssumption DEF Integer
  <2>4. InElems(v, abi[j])
    BY <1>6, <2>1, <2>2, <2>3, RangeOfType
  <2> QED
    BY <1>8, <2>3, <2>4
<1> QED
  BY <1>7, <1>8

(* Every number a built module hands to a constructor is a value of the    *)
(* parameter's type, whatever its width, and contracts are handed to       *)
(* parameters for addresses only.                                          *)
THEOREM ArgumentsAlwaysFit == BatchSpec => []ArgumentsFit
<1>1. BatchInit => Validated
  BY DEF BatchInit, ResolveInit, Init, Validated, Done
<1>2. Validated /\ [BatchNext]_all => Validated'
  BY ValidatedStep
<1>3. Builder /\ Validated => ArgumentsFit
  BY ValidatedFits
<1> QED
  BY <1>1, <1>2, <1>3, BuilderInvariant, PTL DEF BatchSpec

(***************************************************************************)
(* The walk of the resolver.  What an entry of the list of things to do    *)
(* can be, what it brings, and what an element has to wait for.            *)
(***************************************************************************)
Things == Bound \cup Hooked
OfType(types) == {e \in Hooked : Event(e).type \in types}
Items ==
  [do : {"contract"}, of : Names \cup Literals]
  \cup [do : {"before"}, of : OfType(BeforeTypes)] \cup [do : {"after"}, of : OfType(AfterTypes)]
  \cup [do : {"deps", "single", "check"}, of : Hooked]
  \cup [do : {"add"}, of : Things] \cup [do : {"return"}, of : Bound \X Seq(Things)]

Required(x) ==
  IF x \in Bound THEN (Elems(Needs(x)) \cap Bound) \cup Elems(BeforeHooks(x))
  ELSE IF x \in OfType(AfterTypes)
  THEN Elems(Deps(x)) \cup Elems(EventDeps(x)) \cup Elems(Usage(x))
  ELSE {}
Brings(entry, x) == entry.do \in {"contract", "before", "after", "single", "add"} /\ entry.of = x
Comes(x, p, A, T) == x \in Elems(A) \/ \E q \in DOMAIN T : q < p /\ Brings(T[q], x)

(* What is added came after what it has to wait for, what is to be added   *)
(* waits for it.                                                           *)
Placed(A) == \A i \in DOMAIN A : \A x \in Required(A[i]) : \E j \in DOMAIN A : j < i /\ A[j] = x
ReadyToAdd(A, T) ==
  \A p \in DOMAIN T : T[p].do = "add" => \A x \in Required(T[p].of) : Comes(x, p, A, T)

(* Every contract is there or comes, and so do the hooks that follow it.   *)
SomeAdd(n, A, T) == n \in Elems(A) \/ \E p \in DOMAIN T : T[p] = Entry("add", n)
AllCome(A, T) ==
  /\ \A n \in Bound : Comes(n, Len(T) + 1, A, T)
  /\ \A n \in Bound : SomeAdd(n, A, T) =>
       \A e \in Elems(AfterHooks(n)) : Comes(e, Len(T) + 1, A, T)

(* A call returns to as many elements as there were, or to more.           *)
Returns(A, T) == \A p \in DOMAIN T : T[p].do = "return" => Len(T[p].of[2]) <= Len(A)

(* While a call has found nothing new, what it has to do first stays       *)
(* inside every closed set of contracts around its needs.                  *)
Closed(S) == S \subseteq Bound /\ \A m \in S : NeedsDirectly(m) \subseteq S
Inside(entry, S) ==
  /\ entry.do \notin {"after", "single"}
  /\ entry.do = "contract" /\ entry.of \in Bound => entry.of \in S
  /\ entry.do = "deps" => Elems(Deps(entry.of)) \subseteq S
  /\ entry.do = "before" => \A d \in Elems(EventDeps(entry.of)) : Elems(Deps(d)) \subseteq S
Shielded(q, A, T) == \E r \in DOMAIN T : r < q /\ T[r].do = "add" /\ T[r].of \notin Elems(A)
Around(p, A, T) ==
  \A S \in SUBSET Bound : Closed(S) /\ NeedsDirectly(T[p].of[1]) \subseteq S =>
    \A q \in DOMAIN T : q < p => Inside(T[q], S) \/ Shielded(q, A, T)
Rounds(A, T) == \A p \in DOMAIN T : T[p].do = "return" /\ T[p].of[2] = A => Around(p, A, T)

Walking(A, T) ==
  /\ A \in Seq(Things) /\ T \in Seq(Items)
  /\ Distinct(A) /\ Placed(A) /\ ReadyToAdd(A, T) /\ AllCome(A, T) /\ Returns(A, T) /\ Rounds(A, T)

Walked == {"resolved", "batching", "batched", "unbatched"}
Order ==
  /\ order \in [added : Seq(Things), err : {"none", "overflow", "usage"}, todo : Seq(Items)]
  /\ outcome \in {"building", "built", "failed"} => order = NoOrder
  /\ outcome \in {"resolving"} \cup Walked => /\ order.err = "none"
                                              /\ Walking(order.added, order.todo)
  /\ outcome \in Walked => order.todo = <<>>
  /\ OverflowMeansCircle

(* What the head of the list can be replaced by: the calls it makes bring  *)
(* what it brings, wait for what they have to wait for, and stay inside    *)
(* what it was inside of.                                                  *)
ReadyIn(A, u) ==
  \A i \in DOMAIN u : u[i].do = "add" => \A x \in Required(u[i].of) : Comes(x, i, A, u)
FollowIn(A, u) ==
  \A n \in Bound : (\E i \in DOMAIN u : u[i] = Entry("add", n)) =>
    \A e \in Elems(AfterHooks(n)) : Comes(e, Len(u) + 1, A, u)
InsideIn(A, h, u) ==
  \A S \in SUBSET Bound : Closed(S) /\ Inside(h, S) =>
    \A i \in DOMAIN u : Inside(u[i], S) \/ Shielded(i, A, u)
Block(A, h, u) ==
  /\ u \in Seq(Items)
  /\ \A x \in Things : Brings(h, x) => Comes(x, Len(u) + 1, A, u)
  /\ h.do = "add" => h.of \in Elems(A)
  /\ ReadyIn(A, u) /\ FollowIn(A, u) /\ InsideIn(A, h, u) /\ Returns(A, u) /\ Rounds(A, u)

(* The positions in a list whose head is replaced.                         *)
LEMMA Splice ==
  ASSUME NEW S, NEW T \in Seq(S), T # <<>>, NEW u \in Seq(S), NEW U, U = u \o Tail(T)
  PROVE  /\ U \in Seq(S) /\ Len(U) = Len(T) + Len(u) - 1
         /\ Len(u) \in Nat /\ Len(T) \in Nat /\ Len(T) > 0 /\ Head(T) = T[1]
         /\ DOMAIN U = 1 .. Len(U) /\ DOMAIN T = 1 .. Len(T) /\ DOMAIN u = 1 .. Len(u)
         /\ \A i \in DOMAIN u : i \in DOMAIN U /\ U[i] = u[i]
         /\ \A q \in DOMAIN T : q > 1 => /\ q + Len(u) - 1 \in DOMAIN U
                                         /\ U[q + Len(u) - 1] = T[q]
         /\ \A j \in DOMAIN U : j \notin DOMAIN u =>
              /\ j > Len(u) /\ j - Len(u) + 1 \in DOMAIN T /\ j - Len(u) + 1 > 1
              /\ U[j] = T[j - Len(u) + 1]
<1> DEFINE V == Tail(T)
<1>1. /\ Len(T) \in Nat /\ Len(T) > 0 /\ DOMAIN T = 1 .. Len(T)
      /\ Len(u) \in Nat /\ DOMAIN u = 1 .. Len(u)
  BY LenProperties, EmptySeq
<1>2. V \in Seq(S) /\ Len(V) = Len(T) - 1 /\ \A i \in 1 .. Len(V) : V[i] = T[i + 1]
  BY HeadTailProperties
<1>3. Head(T) = T[1]
  OBVIOUS
<1> HIDE DEF V
<1>4. /\ U \in Seq(S) /\ Len(U) = Len(u) + Len(V)
      /\ \A i \in 1 .. Len(u) + Len(V) : U[i] = IF i <= Len(u) THEN u[i] ELSE V[i - Len(u)]
  BY <1>2, ConcatProperties DEF V
<1>5. DOMAIN U = 1 .. Len(U)
  BY <1>4, LenProperties
<1>6. ASSUME NEW q \in DOMAIN T, q > 1
      PROVE  q + Len(u) - 1 \in DOMAIN U /\ U[q + Len(u) - 1] = T[q]
  <2>1. /\ q + Len(u) - 1 \in 1 .. Len(u) + Len(V) /\ ~(q + Len(u) - 1 <= Len(u))
        /\ (q + Len(u) - 1) - Len(u) = q - 1 /\ q - 1 \in 1 .. Len(V) /\ (q - 1) + 1 = q
    BY <1>1, <1>2, <1>6
  <2> QED
    BY <2>1, <1>2, <1>4, <1>5
<1>7. ASSUME NEW j \in DOMAIN U, j \notin DOMAIN u
      PROVE  /\ j > Len(u) /\ j - Len(u) + 1 \in DOMAIN T /\ j - Len(u) + 1 > 1
             /\ U[j] = T[j - Len(u) + 1]
  <2>1. /\ j \in 1 .. Len(u) + Len(V) /\ ~(j <= Len(u)) /\ j - Len(u) \in 1 .. Len(V)
        /\ j - Len(u) + 1 \in DOMAIN T
    BY <1>1, <1>2, <1>4, <1>5, <1>7
  <2> QED
    BY <2>1, <1>1, <1>2, <1>4
<1>8. \A i \in DOMAIN u : i \in DOMAIN U /\ U[i] = u[i]
  BY <1>1, <1>2, <1>4, <1>5
<1>9. U \in Seq(S) /\ Len(U) = Len(T) + Len(u) - 1
  BY <1>1, <1>2, <1>4
<1>10. \A q \in DOMAIN T : q > 1 => q + Len(u) - 1 \in DOMAIN U /\ U[q + Len(u) - 1] = T[q]
  BY <1>6
<1>11. \A j \in DOMAIN U : j \notin DOMAIN u =>
         /\ j > Len(u) /\ j - Len(u) + 1 \in DOMAIN T /\ j - Len(u) + 1 > 1
         /\ U[j] = T[j - Len(u) + 1]
  BY <1>7
<1> QED
  BY <1>1, <1>3, <1>5, <1>8, <1>9, <1>10, <1>11

(* What the lists of a binding and of a hook are.                          *)
LEMMA Records ==
  ASSUME Builder
  PROVE  /\ \A i \in DOMAIN bindings : bindings[i] \in BindingRecords
         /\ \A j \in DOMAIN events : events[j] \in EventRecords
         /\ Bound \subseteq Names /\ Hooked \subseteq Hooks /\ Names \cap Hooks = {}
         /\ \A n \in Bound : \E i \in DOMAIN bindings : bindings[i] = Binding(n) /\ Binding(n).name = n
         /\ \A e \in Hooked : \E j \in DOMAIN events : events[j] = Event(e) /\ Event(e).name = e
         /\ \A j \in DOMAIN events : Event(events[j].name) = events[j]
<1>1. BuilderType /\ NamesOnce
  BY DEF Builder
<1>2. \A i \in DOMAIN bindings : bindings[i] \in BindingRecords
  BY <1>1, ElementOfSeq, LenProperties DEF BuilderType
<1>3. \A j \in DOMAIN events : events[j] \in EventRecords
  BY <1>1, ElementOfSeq, LenProperties DEF BuilderType
<1>4. Bound \subseteq Names /\ Hooked \subseteq Hooks /\ Names \cap Hooks = {}
  BY <1>2, <1>3, BuilderAssumption DEF Bound, Hooked, BindingRecords, EventRecords
<1>5. ASSUME NEW n \in Bound
      PROVE  \E i \in DOMAIN bindings : bindings[i] = Binding(n) /\ Binding(n).name = n
  <2> DEFINE i == CHOOSE i \in DOMAIN bindings : bindings[i].name = n
  <2>1. i \in DOMAIN bindings /\ bindings[i].name = n
    BY DEF Bound
  <2> QED
    BY <2>1 DEF Binding
<1>6. ASSUME NEW e \in Hooked
      PROVE  \E j \in DOMAIN events : events[j] = Event(e) /\ Event(e).name = e
  <2> DEFINE j == CHOOSE j \in DOMAIN events : events[j].name = e
  <2>1. j \in DOMAIN events /\ events[j].name = e
    BY DEF Hooked
  <2> QED
    BY <2>1 DEF Event
<1>7. ASSUME NEW j \in DOMAIN events PROVE Event(events[j].name) = events[j]
  <2>1. events[j].name \in Hooked
    BY DEF Hooked
  <2>2. PICK i \in DOMAIN events : /\ events[i] = Event(events[j].name)
                                   /\ Event(events[j].name).name = events[j].name
    BY <2>1, <1>6
  <2>3. i = j
    BY <2>2, <1>1 DEF NamesOnce
  <2> QED
    BY <2>2, <2>3
<1> QED
  BY <1>2, <1>3, <1>4, <1>5, <1>6, <1>7

LEMMA HookLists ==
  ASSUME Builder, NEW e \in Hooked
  PROVE  /\ Deps(e) \in Seq(Bound) /\ EventDeps(e) \in Seq(Hooked)
         /\ Usage(e) \in Seq(Bound) /\ EventUsage(e) \in Seq(Hooked)
         /\ Event(e).type \in BeforeTypes \cup AfterTypes
         /\ Deps(e) \o EventDeps(e) # <<>>
<1>1. PICK j \in DOMAIN events : events[j] = Event(e)
  BY Records
<1>2. /\ Elems(Event(e).deps) \subseteq Bound /\ Elems(Event(e).usage) \subseteq Bound
      /\ Elems(Event(e).eventDeps) \subseteq Hooked /\ Elems(Event(e).eventUsage) \subseteq Hooked
      /\ Event(e).deps \o Event(e).eventDeps # <<>>
  BY <1>1 DEF Builder, OnlyDeclared
<1>3. Event(e) \in EventRecords
  BY <1>1, Records
<1>4. /\ Event(e).deps \in Seq(Bound) /\ Event(e).usage \in Seq(Bound)
      /\ Event(e).eventDeps \in Seq(Hooked) /\ Event(e).eventUsage \in Seq(Hooked)
  <2>1. /\ Event(e).deps \in Seq(Names) /\ Event(e).usage \in Seq(Names)
        /\ Event(e).eventDeps \in Seq(Hooks) /\ Event(e).eventUsage \in Seq(Hooks)
    BY <1>3 DEF EventRecords
  <2> QED
    BY <2>1, <1>2, Narrowed
<1>5. Event(e).type \in BeforeTypes \cup AfterTypes
  BY <1>3, BuilderAssumption DEF EventRecords
<1> QED
  BY <1>2, <1>4, <1>5 DEF Deps, EventDeps, Usage, EventUsage

LEMMA ContractLists ==
  ASSUME Builder, NEW n \in Bound
  PROVE  /\ Needs(n) \in Seq(Names \cup Literals)
         /\ BeforeHooks(n) \in Seq(Hooks) /\ AfterHooks(n) \in Seq(Hooks)
         /\ \A e : e \in Elems(BeforeHooks(n)) <=> e \in OfType(BeforeTypes) /\ n \in Elems(Deps(e))
         /\ \A e : e \in Elems(AfterHooks(n)) <=> e \in OfType(AfterTypes) /\ n \in Elems(Deps(e))
<1>1. PICK i \in DOMAIN bindings : bindings[i] = Binding(n) /\ Binding(n).name = n
  BY Records
<1>2. Binding(n) \in BindingRecords
  BY <1>1, Records
<1>3. ASSUME NEW type \in HookKinds
      PROVE  /\ EventsDeps(n, type) \in Seq(Hooks)
             /\ \A e : e \in Elems(EventsDeps(n, type))
                  <=> e \in Hooked /\ Event(e).type = type /\ n \in Elems(Deps(e))
  <2>1. EventsDeps(n, type) \in Seq(Hooks)
    BY <1>2 DEF EventsDeps, BindingRecords
  <2>2. Elems(EventsDeps(n, type)) \subseteq Hooks
    BY <2>1, ElemsOf
  <2>3. \A e \in Hooks : e \in Elems(EventsDeps(n, type)) <=> IsOn(e, type, n)
    BY <1>1 DEF Builder, HooksListed, EventsDeps
  <2>4. \A e : IsOn(e, type, n) <=> e \in Hooked /\ Event(e).type = type /\ n \in Elems(Deps(e))
    <3> TAKE e
    <3>1. ASSUME IsOn(e, type, n)
          PROVE  e \in Hooked /\ Event(e).type = type /\ n \in Elems(Deps(e))
      <4>1. PICK j \in DOMAIN events : /\ events[j].name = e /\ events[j].type = type
                                       /\ n \in Elems(events[j].deps)
        BY <3>1 DEF IsOn
      <4>2. Event(e) = events[j]
        BY <4>1, Records
      <4> QED
        BY <4>1, <4>2 DEF Hooked, Deps
    <3>2. ASSUME e \in Hooked, Event(e).type = type, n \in Elems(Deps(e)) PROVE IsOn(e, type, n)
      <4>1. PICK j \in DOMAIN events : events[j] = Event(e) /\ Event(e).name = e
        BY <3>2, Records
      <4> QED
        BY <3>2, <4>1 DEF IsOn, Deps
    <3> QED
      BY <3>1, <3>2
  <2>5. Hooked \subseteq Hooks
    BY Records
  <2> QED
    BY <2>1, <2>2, <2>3, <2>4, <2>5
<1>4. Needs(n) \in Seq(Names \cup Literals)
  <2>1. /\ Binding(n).args \in Seq(Names \cup Literals)
        /\ Libraries[Binding(n).contract] \in Seq(Names) /\ Binding(n).deps \in Seq(Names)
    BY <1>2, BuilderAssumption DEF BindingRecords
  <2>2. /\ Libraries[Binding(n).contract] \in Seq(Names \cup Literals)
        /\ Binding(n).deps \in Seq(Names \cup Literals)
    BY <2>1, SeqMonotonic
  <2> QED
    BY <2>1, <2>2, ConcatProperties DEF Needs
<1>5. {"beforeCompile", "afterCompile", "beforeDeploy", "afterDeploy", "onChange"} \subseteq HookKinds
  BY DEF HookKinds, BeforeTypes, AfterTypes
<1>6. /\ BeforeHooks(n) \in Seq(Hooks)
      /\ Elems(BeforeHooks(n)) = Elems(EventsDeps(n, "beforeCompile"))
           \cup Elems(EventsDeps(n, "afterCompile")) \cup Elems(EventsDeps(n, "beforeDeploy"))
  <2> DEFINE x == EventsDeps(n, "beforeCompile")
             y == EventsDeps(n, "afterCompile")
             z == EventsDeps(n, "beforeDeploy")
             xy == x \o y
  <2>1. x \in Seq(Hooks) /\ y \in Seq(Hooks) /\ z \in Seq(Hooks) /\ BeforeHooks(n) = xy \o z
    BY <1>3, <1>5 DEF BeforeHooks
  <2> HIDE DEF x, y, z
  <2>2. xy \in Seq(Hooks) /\ Elems(xy) = Elems(x) \cup Elems(y)
    BY <2>1, ConcatProperties, ElemsConcat
  <2> HIDE DEF xy
  <2>3. xy \o z \in Seq(Hooks) /\ Elems(xy \o z) = Elems(xy) \cup Elems(z)
    BY <2>1, <2>2, ConcatProperties, ElemsConcat
  <2>4. /\ BeforeHooks(n) \in Seq(Hooks)
        /\ Elems(BeforeHooks(n)) = Elems(x) \cup Elems(y) \cup Elems(z)
    BY <2>1, <2>2, <2>3
  <2> QED
    BY <2>4 DEF x, y, z
<1>7. /\ AfterHooks(n) \in Seq(Hooks)
      /\ Elems(AfterHooks(n)) = Elems(EventsDeps(n, "afterDeploy")) \cup Elems(EventsDeps(n, "onChange"))
  BY <1>3, <1>5, ConcatProperties, ElemsConcat DEF AfterHooks
<1> QED
  BY <1>3, <1>4, <1>5, <1>6, <1>7 DEF OfType, BeforeTypes, AfterTypes

LEMMA WaitsForThings ==
  ASSUME Builder, NEW x \in Things
  PROVE  Required(x) \subseteq Things
<1>1. CASE x \in Bound
  <2>1. Elems(BeforeHooks(x)) \subseteq Hooked
    BY <1>1, ContractLists DEF OfType
  <2> QED
    BY <1>1, <2>1 DEF Required, Things
<1>2. CASE x \in Hooked
  <2>1. Elems(Deps(x)) \subseteq Bound /\ Elems(EventDeps(x)) \subseteq Hooked /\ Elems(Usage(x)) \subseteq Bound
    BY <1>2, HookLists, ElemsOf
  <2>2. x \notin Bound
    BY <1>2, Records
  <2> QED
    BY <2>1, <2>2 DEF Required, Things
<1> QED
  BY <1>1, <1>2 DEF Things

LEMMA ReplaceHead ==
  ASSUME Builder, NEW A, NEW T, Walking(A, T), T # <<>>, NEW u, Block(A, Head(T), u)
  PROVE  Walking(A, u \o Tail(T))
<1>1. PICK U : U = u \o Tail(T)
  OBVIOUS
<1>2. /\ T \in Seq(Items) /\ u \in Seq(Items) /\ ReadyToAdd(A, T) /\ AllCome(A, T)
      /\ Returns(A, T) /\ Rounds(A, T)
  BY DEF Walking, Block
<1> DEFINE k == Len(u)
<1>3. /\ U \in Seq(Items) /\ Len(U) = Len(T) + k - 1
      /\ k \in Nat /\ Len(T) \in Nat /\ Len(T) > 0 /\ Head(T) = T[1]
      /\ DOMAIN U = 1 .. Len(U) /\ DOMAIN T = 1 .. Len(T) /\ DOMAIN u = 1 .. k
  BY <1>1, <1>2, Splice
<1>4. \A i \in DOMAIN u : i \in DOMAIN U /\ U[i] = u[i]
  BY <1>1, <1>2, Splice
<1>5. \A q \in DOMAIN T : q > 1 => q + k - 1 \in DOMAIN U /\ U[q + k - 1] = T[q]
  BY <1>1, <1>2, Splice
<1>6. \A j \in DOMAIN U : j \notin DOMAIN u =>
        j > k /\ j - k + 1 \in DOMAIN T /\ j - k + 1 > 1 /\ U[j] = T[j - k + 1]
  BY <1>1, <1>2, Splice
<1> HIDE DEF k
<1>7. ASSUME NEW x, NEW i \in 1 .. k + 1, Comes(x, i, A, u), NEW j \in Nat, i <= j
      PROVE  Comes(x, j, A, U)
  BY <1>3, <1>4, <1>7 DEF Comes
<1>8. ASSUME NEW x \in Things, NEW p \in Nat, p > 1, Comes(x, p, A, T)
      PROVE  Comes(x, p + k - 1, A, U)
  <2>1. CASE x \in Elems(A)
    BY <2>1 DEF Comes
  <2>2. CASE x \notin Elems(A)
    <3>1. PICK q \in DOMAIN T : q < p /\ Brings(T[q], x)
      BY <1>8, <2>2 DEF Comes
    <3>2. CASE q = 1
      <4>1. Comes(x, k + 1, A, u)
        BY <1>3, <3>1, <3>2 DEF Block, k
      <4>2. k + 1 \in 1 .. k + 1 /\ p + k - 1 \in Nat /\ k + 1 <= p + k - 1
        BY <1>3, <1>8
      <4> QED
        BY <4>1, <4>2, <1>7
    <3>3. CASE q # 1
      <4>1. q > 1 /\ q + k - 1 < p + k - 1
        BY <1>3, <3>1, <3>3
      <4> QED
        BY <4>1, <1>5, <3>1 DEF Comes
    <3> QED
      BY <3>2, <3>3
  <2> QED
    BY <2>1, <2>2
<1>9. ReadyToAdd(A, U)
  <2>1. SUFFICES ASSUME NEW j \in DOMAIN U, U[j].do = "add", NEW x \in Required(U[j].of)
                 PROVE  Comes(x, j, A, U)
    BY DEF ReadyToAdd
  <2>2. CASE j \in DOMAIN u
    <3>1. Comes(x, j, A, u)
      BY <1>4, <2>1, <2>2 DEF Block, ReadyIn
    <3>2. j \in 1 .. k + 1 /\ j \in Nat
      BY <1>3, <2>2
    <3> QED
      BY <3>1, <3>2, <1>7
  <2>3. CASE j \notin DOMAIN u
    <3> DEFINE p == j - k + 1
    <3>1. p \in DOMAIN T /\ p > 1 /\ U[j] = T[p] /\ p + k - 1 = j /\ p \in Nat
      BY <1>3, <1>6, <2>3
    <3>2. Comes(x, p, A, T)
      BY <1>2, <2>1, <3>1 DEF ReadyToAdd
    <3>3. T[p] \in Items
      BY <1>2, <1>3, <3>1, ElementOfSeq
    <3>4. T[p].of \in Things
      BY <2>1, <3>1, <3>3 DEF Items
    <3>5. x \in Things
      BY <2>1, <3>1, <3>4, WaitsForThings
    <3> QED
      BY <3>1, <3>2, <3>5, <1>8
  <2> QED
    BY <2>2, <2>3
<1>10. ASSUME NEW x \in Things, Comes(x, Len(T) + 1, A, T) PROVE Comes(x, Len(U) + 1, A, U)
  <2>1. Len(T) + 1 \in Nat /\ Len(T) + 1 > 1 /\ (Len(T) + 1) + k - 1 = Len(U) + 1
    BY <1>3
  <2> QED
    BY <2>1, <1>8, <1>10
<1>11. AllCome(A, U)
  <2>1. ASSUME NEW n \in Bound PROVE Comes(n, Len(U) + 1, A, U)
    BY <1>2, <1>10 DEF AllCome, Things
  <2>2. ASSUME NEW n \in Bound, SomeAdd(n, A, U), NEW e \in Elems(AfterHooks(n))
        PROVE  Comes(e, Len(U) + 1, A, U)
    <3>1. e \in Things
      BY <2>2, ContractLists DEF OfType, Things
    <3>2. CASE SomeAdd(n, A, T)
      BY <1>2, <1>10, <2>2, <3>1, <3>2 DEF AllCome
    <3>3. CASE ~SomeAdd(n, A, T)
      <4>1. PICK j \in DOMAIN U : U[j] = Entry("add", n)
        BY <2>2, <3>3 DEF SomeAdd
      <4>2. j \in DOMAIN u
        BY <1>6, <3>3, <4>1 DEF SomeAdd
      <4>3. Comes(e, k + 1, A, u)
        BY <1>4, <2>2, <4>1, <4>2 DEF Block, FollowIn, k
      <4>4. k + 1 \in 1 .. k + 1 /\ Len(U) + 1 \in Nat /\ k + 1 <= Len(U) + 1
        BY <1>3
      <4> QED
        BY <4>3, <4>4, <1>7
    <3> QED
      BY <3>2, <3>3
  <2> QED
    BY <2>1, <2>2 DEF AllCome
<1>12. Returns(A, U)
  BY <1>2, <1>4, <1>6 DEF Returns, Block
<1>13. Rounds(A, U)
  <2>1. SUFFICES ASSUME NEW j \in DOMAIN U, U[j].do = "return", U[j].of[2] = A,
                        NEW S \in SUBSET Bound, Closed(S), NeedsDirectly(U[j].of[1]) \subseteq S,
                        NEW i \in DOMAIN U, i < j
                 PROVE  Inside(U[i], S) \/ Shielded(i, A, U)
    BY DEF Rounds, Around
  <2>2. ASSUME NEW q \in DOMAIN u, Shielded(q, A, u) PROVE Shielded(q, A, U)
    BY <1>4, <2>2 DEF Shielded
  <2>3. CASE j \in DOMAIN u
    <3>1. i \in DOMAIN u
      BY <1>3, <2>1, <2>3
    <3>2. Inside(u[i], S) \/ Shielded(i, A, u)
      BY <1>4, <2>1, <2>3, <3>1 DEF Block, Rounds, Around
    <3> QED
      BY <1>4, <2>2, <3>1, <3>2
  <2>4. CASE j \notin DOMAIN u
    <3> DEFINE p == j - k + 1
    <3>1. p \in DOMAIN T /\ p > 1 /\ U[j] = T[p] /\ p + k - 1 = j /\ p \in Nat
      BY <1>3, <1>6, <2>4
    <3>2. \A q \in DOMAIN T : q < p => Inside(T[q], S) \/ Shielded(q, A, T)
      BY <1>2, <2>1, <3>1 DEF Rounds, Around
    <3>3. CASE i \in DOMAIN u
      <4>1. 1 \in DOMAIN T /\ 1 < p /\ ~Shielded(1, A, T)
        BY <1>3, <3>1 DEF Shielded
      <4>2. Inside(Head(T), S)
        BY <1>3, <3>2, <4>1
      <4>3. Inside(u[i], S) \/ Shielded(i, A, u)
        BY <2>1, <3>3, <4>2 DEF Block, InsideIn
      <4> QED
        BY <1>4, <2>2, <3>3, <4>3
    <3>4. CASE i \notin DOMAIN u
      <4> DEFINE q == i - k + 1
      <4>1. q \in DOMAIN T /\ q > 1 /\ U[i] = T[q] /\ q + k - 1 = i /\ q < p
        <5>1. i - k + 1 \in DOMAIN T /\ i - k + 1 > 1 /\ U[i] = T[i - k + 1]
          BY <1>6, <3>4
        <5>2. i \in Nat /\ j \in Nat /\ i < j /\ k \in Nat
          BY <1>3, <2>1
        <5> QED
          BY <5>1, <5>2
      <4> HIDE DEF q
      <4>2. Inside(T[q], S) \/ Shielded(q, A, T)
        BY <3>2, <4>1
      <4>3. ASSUME Shielded(q, A, T) PROVE Shielded(i, A, U)
        <5>1. PICK r \in DOMAIN T : r < q /\ T[r].do = "add" /\ T[r].of \notin Elems(A)
          BY <4>3 DEF Shielded
        <5>2. r # 1
          BY <1>3, <5>1 DEF Block
        <5>3. r > 1 /\ r + k - 1 < q + k - 1
          BY <1>3, <4>1, <5>1, <5>2
        <5>4. r + k - 1 \in DOMAIN U /\ U[r + k - 1] = T[r]
          BY <1>5, <5>3
        <5> QED
          BY <4>1, <5>1, <5>3, <5>4 DEF Shielded
      <4> QED
        BY <4>1, <4>2, <4>3
    <3> QED
      BY <3>3, <3>4
  <2> QED
    BY <2>3, <2>4
<1>14. Walking(A, U)
  BY <1>3, <1>9, <1>11, <1>12, <1>13 DEF Walking
<1> QED
  BY <1>1, <1>14

LEMMA AddHead ==
  ASSUME Builder, NEW A, NEW T, Walking(A, T), T # <<>>, NEW x \in Things,
         Head(T).do = "add", Head(T).of = x, x \notin Elems(A)
  PROVE  Walking(Append(A, x), Tail(T))
<1> DEFINE B == Append(A, x)
           V == Tail(T)
<1>1. /\ A \in Seq(Things) /\ T \in Seq(Items) /\ Distinct(A) /\ Placed(A)
      /\ ReadyToAdd(A, T) /\ AllCome(A, T) /\ Returns(A, T) /\ Rounds(A, T)
  BY DEF Walking
<1>2. /\ Len(T) \in Nat /\ Len(T) > 0 /\ DOMAIN T = 1 .. Len(T) /\ Head(T) = T[1]
      /\ Len(A) \in Nat /\ DOMAIN A = 1 .. Len(A)
  BY <1>1, LenProperties, EmptySeq
<1>3. /\ V \in Seq(Items) /\ Len(V) = Len(T) - 1 /\ DOMAIN V = 1 .. Len(V)
      /\ \A i \in 1 .. Len(V) : V[i] = T[i + 1]
  BY <1>1, HeadTailProperties, LenProperties
<1>4. /\ B \in Seq(Things) /\ Len(B) = Len(A) + 1 /\ DOMAIN B = 1 .. Len(A) + 1
      /\ \A i \in 1 .. Len(A) : B[i] = A[i]
      /\ B[Len(A) + 1] = x /\ Elems(B) = Elems(A) \cup {x}
  BY <1>1, AppendProperties, LenProperties, ElemsAppend
<1> HIDE DEF B, V
<1>5. \A i \in DOMAIN B : i \in DOMAIN A \/ i = Len(A) + 1
  BY <1>2, <1>4
<1>6. \A q \in DOMAIN T : q > 1 => q - 1 \in DOMAIN V /\ V[q - 1] = T[q]
  BY <1>2, <1>3
<1>7. \A q \in DOMAIN V : q + 1 \in DOMAIN T /\ V[q] = T[q + 1]
  BY <1>2, <1>3
<1>8. ASSUME NEW y, NEW p \in Nat, Comes(y, p + 1, A, T) PROVE Comes(y, p, B, V)
  <2>1. CASE y \in Elems(A)
    BY <1>4, <2>1 DEF Comes
  <2>2. CASE y \notin Elems(A)
    <3>1. PICK q \in DOMAIN T : q < p + 1 /\ Brings(T[q], y)
      BY <1>8, <2>2 DEF Comes
    <3>2. CASE q = 1
      BY <1>2, <1>4, <3>1, <3>2 DEF Comes, Brings
    <3>3. CASE q # 1
      <4>1. q > 1 /\ q - 1 < p
        BY <1>2, <3>1, <3>3
      <4> QED
        BY <4>1, <1>6, <3>1 DEF Comes
    <3> QED
      BY <3>2, <3>3
  <2> QED
    BY <2>1, <2>2
<1>9. Distinct(B)
  <2>1. \A i \in DOMAIN A : B[i] # x
    BY <1>2, <1>4 DEF Elems
  <2> QED
    BY <1>1, <1>2, <1>4, <1>5, <2>1 DEF Distinct
<1>10. Placed(B)
  <2>1. SUFFICES ASSUME NEW i \in DOMAIN B, NEW y \in Required(B[i])
                 PROVE  \E j \in DOMAIN B : j < i /\ B[j] = y
    BY DEF Placed
  <2>2. CASE i \in DOMAIN A
    <3>1. PICK j \in DOMAIN A : j < i /\ A[j] = y
      BY <1>1, <1>2, <1>4, <2>1, <2>2 DEF Placed
    <3> QED
      BY <1>2, <1>4, <3>1
  <2>3. CASE i = Len(A) + 1
    <3>1. Comes(y, 1, A, T)
      BY <1>1, <1>2, <1>4, <2>1, <2>3 DEF ReadyToAdd
    <3>2. y \in Elems(A)
      BY <1>2, <3>1 DEF Comes
    <3>3. PICK j \in DOMAIN A : A[j] = y
      BY <3>2 DEF Elems
    <3>4. j \in DOMAIN B /\ j < i /\ B[j] = y
      BY <1>2, <1>4, <2>3, <3>3
    <3> QED
      BY <3>4
  <2> QED
    BY <1>5, <2>2, <2>3
<1>11. ReadyToAdd(B, V)
  <2>1. SUFFICES ASSUME NEW p \in DOMAIN V, V[p].do = "add", NEW y \in Required(V[p].of)
                 PROVE  Comes(y, p, B, V)
    BY DEF ReadyToAdd
  <2>2. Comes(y, p + 1, A, T) /\ p \in Nat
    BY <1>1, <1>3, <1>7, <2>1 DEF ReadyToAdd
  <2> QED
    BY <1>8, <2>2
<1>12. AllCome(B, V)
  <2>1. Len(V) + 1 \in Nat /\ (Len(V) + 1) + 1 = Len(T) + 1
    BY <1>2, <1>3
  <2>2. \A n : SomeAdd(n, B, V) => SomeAdd(n, A, T)
    <3>1. SomeAdd(x, A, T)
      <4>1. T[1] \in Items /\ T[1].do = "add" /\ T[1].of = x
        BY <1>1, <1>2, ElementOfSeq
      <4>2. T[1] = Entry("add", x)
        BY <4>1 DEF Items, Entry
      <4> QED
        BY <1>2, <4>2 DEF SomeAdd
    <3>2. ASSUME NEW n, n # x, SomeAdd(n, B, V) PROVE SomeAdd(n, A, T)
      BY <1>4, <1>7, <3>2 DEF SomeAdd
    <3> QED
      BY <3>1, <3>2
  <2> QED
    BY <1>1, <1>8, <2>1, <2>2 DEF AllCome
<1>13. \A p \in DOMAIN V : V[p].do = "return" => Len(V[p].of[2]) <= Len(A) /\ Len(V[p].of[2]) \in Nat
  <2>1. ASSUME NEW p \in DOMAIN V, V[p].do = "return"
        PROVE  Len(V[p].of[2]) <= Len(A) /\ Len(V[p].of[2]) \in Nat
    <3>1. p + 1 \in DOMAIN T /\ V[p] = T[p + 1] /\ T[p + 1] \in Items
      BY <1>1, <1>2, <1>7, ElementOfSeq
    <3>2. V[p].of \in Bound \X Seq(Things)
      BY <2>1, <3>1 DEF Items
    <3>3. Len(V[p].of[2]) \in Nat
      BY <3>2, LenProperties
    <3> QED
      BY <1>1, <2>1, <3>1, <3>3 DEF Returns
  <2> QED
    BY <2>1
<1>14. Returns(B, V)
  BY <1>2, <1>4, <1>13 DEF Returns
<1>15. Rounds(B, V)
  BY <1>2, <1>4, <1>13 DEF Rounds
<1>16. Walking(B, V)
  BY <1>3, <1>4, <1>9, <1>10, <1>11, <1>12, <1>14, <1>15 DEF Walking
<1> QED
  BY <1>16 DEF B, V

(***************************************************************************)
(* The calls an entry is replaced by.                                      *)
(***************************************************************************)
LEMMA CallsOf ==
  ASSUME NEW do, NEW S, NEW s \in Seq(S), NEW R, \A x \in S : Entry(do, x) \in R
  PROVE  /\ Calls(do, s) \in Seq(R) /\ Len(Calls(do, s)) = Len(s)
         /\ Elems(Calls(do, s)) = {Entry(do, x) : x \in Elems(s)}
<1>1. Len(s) \in Nat /\ DOMAIN s = 1 .. Len(s) /\ \A i \in 1 .. Len(s) : s[i] \in S
  BY LenProperties, ElementOfSeq
<1> DEFINE c == Calls(do, s)
<1>2. c = [i \in 1 .. Len(s) |-> Entry(do, s[i])]
  BY <1>1 DEF Calls
<1>3. \A i \in 1 .. Len(s) : Entry(do, s[i]) \in R
  BY <1>1
<1>4. c \in [1 .. Len(s) -> R]
  BY <1>2, <1>3
<1>5. c \in Seq(R) /\ Len(c) = Len(s)
  BY <1>1, <1>4
<1>6. Elems(c) = {Entry(do, x) : x \in Elems(s)}
  BY <1>1, <1>2 DEF Elems
<1> QED
  BY <1>5, <1>6

LEMMA WithoutAdd ==
  ASSUME Builder, NEW A, NEW h, NEW u \in Seq(Items),
         \A z \in Elems(u) : z.do \notin {"add", "return"},
         \A x \in Things : Brings(h, x) => x \in Elems(A) \/ \E z \in Elems(u) : Brings(z, x),
         h.do = "add" => h.of \in Elems(A),
         \A S \in SUBSET Bound : Closed(S) /\ Inside(h, S) => \A z \in Elems(u) : Inside(z, S)
  PROVE  Block(A, h, u)
<1>1. Len(u) \in Nat /\ DOMAIN u = 1 .. Len(u) /\ \A i \in DOMAIN u : u[i] \in Elems(u)
  BY LenProperties DEF Elems
<1>2. ASSUME NEW x \in Things, Brings(h, x) PROVE Comes(x, Len(u) + 1, A, u)
  <2>1. CASE x \in Elems(A)
    BY <2>1 DEF Comes
  <2>2. CASE x \notin Elems(A)
    <3>1. PICK i \in DOMAIN u : Brings(u[i], x)
      BY <1>2, <2>2 DEF Elems
    <3>2. i < Len(u) + 1
      BY <1>1
    <3> QED
      BY <3>1, <3>2 DEF Comes
  <2> QED
    BY <2>1, <2>2
<1>3. \A i \in DOMAIN u : u[i].do \notin {"add", "return"}
  BY <1>1
<1>4. ReadyIn(A, u) /\ Returns(A, u) /\ Rounds(A, u)
  BY <1>3 DEF ReadyIn, Returns, Rounds
<1>5. FollowIn(A, u)
  BY <1>3 DEF FollowIn, Entry
<1>6. InsideIn(A, h, u)
  BY <1>1 DEF InsideIn
<1> QED
  BY <1>2, <1>4, <1>5, <1>6 DEF Block

LEMMA WithAdd ==
  ASSUME Builder, NEW A, NEW h, NEW v \in Seq(Items), NEW w \in Seq(Items), NEW x \in Things,
         \A z \in Elems(v) : z.do \notin {"add", "return"}, \A z \in Elems(w) : z.do # "add",
         \A y \in Things : Brings(h, y) => y = x,
         h.do # "add",
         \A y \in Required(x) : \E z \in Elems(v) : Brings(z, y),
         x \in Bound => \A e \in Elems(AfterHooks(x)) : \E z \in Elems(w) : Brings(z, e),
         \A S \in SUBSET Bound : Closed(S) /\ Inside(h, S) => \A z \in Elems(v) : Inside(z, S),
         x \notin Elems(A) \/ w = <<>>,
         \A z \in Elems(w) : z.do = "return" =>
           /\ Len(z.of[2]) <= Len(A)
           /\ \A S \in SUBSET Bound : Closed(S) /\ NeedsDirectly(z.of[1]) \subseteq S =>
                \A y \in Elems(v) : Inside(y, S)
  PROVE  Block(A, h, (v \o <<Entry("add", x)>>) \o w)
<1> DEFINE a == Entry("add", x)
           va == v \o <<a>>
           u == va \o w
<1>1. a \in Items /\ a.do = "add" /\ a.of = x
  BY DEF Entry, Items
<1> HIDE DEF a
<1>2. <<a>> \in Seq(Items) /\ Len(<<a>>) = 1 /\ <<a>>[1] = a
  BY <1>1
<1>3. /\ Len(v) \in Nat /\ DOMAIN v = 1 .. Len(v) /\ Len(w) \in Nat /\ DOMAIN w = 1 .. Len(w)
  BY LenProperties
<1>4. va \in Seq(Items) /\ Len(va) = Len(v) + 1
      /\ \A i \in 1 .. Len(v) + 1 : va[i] = IF i <= Len(v) THEN v[i] ELSE <<a>>[i - Len(v)]
  BY <1>2, ConcatProperties
<1> HIDE DEF va
<1>5. /\ u \in Seq(Items) /\ Len(u) = Len(v) + 1 + Len(w)
      /\ \A i \in 1 .. Len(va) + Len(w) : u[i] = IF i <= Len(va) THEN va[i] ELSE w[i - Len(va)]
  <2>1. /\ u \in Seq(Items) /\ Len(u) = Len(va) + Len(w)
        /\ \A i \in 1 .. Len(va) + Len(w) : u[i] = IF i <= Len(va) THEN va[i] ELSE w[i - Len(va)]
    BY <1>4, ConcatProperties
  <2> HIDE DEF u
  <2> QED
    BY <2>1, <1>3, <1>4
<1>6. DOMAIN u = 1 .. Len(v) + 1 + Len(w)
  BY <1>5, LenProperties
<1> HIDE DEF u
<1>7. \A i \in DOMAIN v : i \in DOMAIN u /\ u[i] = v[i] /\ i < Len(v) + 1
  BY <1>3, <1>4, <1>5, <1>6
<1> DEFINE p == Len(v) + 1
<1>8. p \in DOMAIN u /\ u[p] = a
  <2>1. p \in 1 .. Len(va) + Len(w) /\ p <= Len(va) /\ p \in 1 .. Len(v) + 1 /\ ~(p <= Len(v)) /\ p - Len(v) = 1
    BY <1>3, <1>4
  <2> QED
    BY <2>1, <1>2, <1>4, <1>5, <1>6
<1>9. \A i \in DOMAIN w : i + p \in DOMAIN u /\ u[i + p] = w[i]
  <2>1. ASSUME NEW i \in DOMAIN w PROVE i + p \in DOMAIN u /\ u[i + p] = w[i]
    <3>1. i + p \in 1 .. Len(va) + Len(w) /\ ~(i + p <= Len(va)) /\ (i + p) - Len(va) = i
      BY <1>3, <1>4
    <3> QED
      BY <3>1, <1>4, <1>5, <1>6
  <2> QED
    BY <2>1
<1>10. ASSUME NEW i \in DOMAIN u
       PROVE  \/ i \in DOMAIN v /\ u[i] = v[i] /\ u[i] \in Elems(v)
              \/ i = p
              \/ i > p /\ u[i] \in Elems(w) /\ i - p \in DOMAIN w /\ u[i] = w[i - p]
  <2>1. CASE i <= Len(v)
    BY <2>1, <1>3, <1>6, <1>7 DEF Elems
  <2>2. CASE i > p
    <3>1. i - p \in DOMAIN w /\ (i - p) + p = i
      BY <2>2, <1>3, <1>6
    <3>2. u[i] = w[i - p]
      BY <3>1, <1>9
    <3> QED
      BY <2>2, <3>1, <3>2 DEF Elems
  <2> QED
    BY <2>1, <2>2, <1>3, <1>6
<1>11. p \in Nat /\ Len(u) + 1 > p /\ Len(u) \in Nat
  BY <1>3, <1>5
<1> HIDE DEF p
<1>12. ASSUME NEW y, NEW z \in Elems(v), Brings(z, y) PROVE Comes(y, p, A, u)
  <2>1. PICK i \in DOMAIN v : v[i] = z
    BY DEF Elems
  <2> QED
    BY <2>1, <1>7, <1>12 DEF Comes, p
<1>13. \A i \in DOMAIN u : u[i].do = "add" => i = p
  BY <1>10
<1>14. ASSUME NEW y \in Things, Brings(h, y) PROVE Comes(y, Len(u) + 1, A, u)
  <2>1. y = x
    BY <1>14
  <2> QED
    BY <2>1, <1>1, <1>8, <1>11 DEF Comes, Brings
<1>15. ReadyIn(A, u)
  BY <1>1, <1>8, <1>12, <1>13 DEF ReadyIn
<1>16. FollowIn(A, u)
  <2>1. SUFFICES ASSUME NEW n \in Bound, NEW i \in DOMAIN u, u[i] = Entry("add", n),
                        NEW e \in Elems(AfterHooks(n))
                 PROVE  Comes(e, Len(u) + 1, A, u)
    BY DEF FollowIn
  <2>2. i = p /\ n = x
    BY <1>1, <1>8, <1>13, <2>1 DEF Entry
  <2>3. PICK z \in Elems(w) : Brings(z, e)
    BY <2>1, <2>2
  <2>4. PICK j \in DOMAIN w : w[j] = z
    BY DEF Elems
  <2>5. j + p \in DOMAIN u /\ u[j + p] = z /\ j + p < Len(u) + 1
    BY <1>6, <1>5, <1>9, <1>11, <2>4
  <2> QED
    BY <2>3, <2>5 DEF Comes
<1>17. \A S : Inside(u[p], S)
  BY <1>1, <1>8 DEF Inside
<1>18. ASSUME x \notin Elems(A), NEW i \in DOMAIN u, i > p PROVE Shielded(i, A, u)
  BY <1>1, <1>8, <1>18 DEF Shielded
<1>19. InsideIn(A, h, u)
  <2>1. SUFFICES ASSUME NEW S \in SUBSET Bound, Closed(S), Inside(h, S), NEW i \in DOMAIN u
                 PROVE  Inside(u[i], S) \/ Shielded(i, A, u)
    BY DEF InsideIn
  <2>2. CASE w = <<>>
    <3>1. DOMAIN w = {}
      BY <2>2
    <3> QED
      BY <1>10, <1>17, <2>1, <3>1
  <2>3. CASE w # <<>>
    BY <1>10, <1>17, <1>18, <2>1, <2>3
  <2> QED
    BY <2>2, <2>3
<1>20. Returns(A, u)
  BY <1>1, <1>8, <1>10 DEF Returns
<1>21. Rounds(A, u)
  <2>1. SUFFICES ASSUME NEW j \in DOMAIN u, u[j].do = "return",
                        NEW S \in SUBSET Bound, Closed(S), NeedsDirectly(u[j].of[1]) \subseteq S,
                        NEW i \in DOMAIN u, i < j
                 PROVE  Inside(u[i], S) \/ Shielded(i, A, u)
    BY DEF Rounds, Around
  <2>2. u[j] \in Elems(w) /\ w # <<>>
    <3>1. u[j] \in Elems(w)
      BY <1>1, <1>8, <1>10, <2>1
    <3> QED
      BY <3>1, ElemsEmpty
  <2>3. \A y \in Elems(v) : Inside(y, S)
    BY <2>1, <2>2
  <2> QED
    BY <1>10, <1>17, <1>18, <2>2, <2>3
<1>22. Block(A, h, u)
  BY <1>5, <1>14, <1>15, <1>16, <1>19, <1>20, <1>21 DEF Block
<1> QED
  BY <1>22 DEF u, va, a

(* What is known of the walk stays so while the declarations stay.         *)
LEMMA Frozen ==
  ASSUME UNCHANGED <<bindings, events>>
  PROVE  /\ Bound' = Bound /\ Hooked' = Hooked /\ Things' = Things /\ Items' = Items
         /\ \A A, T : Walking(A, T)' <=> Walking(A, T)
         /\ \A n : Circular(n)' <=> Circular(n)
<1>1. Bound' = Bound /\ Hooked' = Hooked
  BY DEF Bound, Hooked
<1>2. (\A n : Binding(n)' = Binding(n)) /\ (\A e : Event(e)' = Event(e))
  BY DEF Binding, Event
<1>3. \A e : /\ Deps(e)' = Deps(e) /\ EventDeps(e)' = EventDeps(e) /\ Usage(e)' = Usage(e)
  BY <1>2 DEF Deps, EventDeps, Usage
<1>4. \A n : /\ Needs(n)' = Needs(n) /\ BeforeHooks(n)' = BeforeHooks(n)
             /\ AfterHooks(n)' = AfterHooks(n)
  BY <1>2 DEF Needs, BeforeHooks, AfterHooks, EventsDeps
<1>5. Things' = Things /\ \A types : OfType(types)' = OfType(types)
  BY <1>1, <1>2 DEF Things, OfType
<1>6. Items' = Items
  BY <1>1, <1>5 DEF Items
<1>7. \A x : Required(x)' = Required(x)
  BY <1>1, <1>3, <1>4, <1>5 DEF Required
<1>8. \A n : NeedsDirectly(n)' = NeedsDirectly(n)
  BY <1>1, <1>3, <1>4 DEF NeedsDirectly
<1>9. (\A S : Closed(S)' <=> Closed(S)) /\ (\A x, S : Inside(x, S)' <=> Inside(x, S))
  BY <1>1, <1>3, <1>8 DEF Closed, Inside
<1>10. \A A, T : Rounds(A, T)' <=> Rounds(A, T)
  BY <1>1, <1>8, <1>9 DEF Rounds, Around, Shielded
<1>11. \A A, T : ReadyToAdd(A, T)' <=> ReadyToAdd(A, T)
  BY <1>7 DEF ReadyToAdd, Comes, Brings
<1>12. \A A, T : AllCome(A, T)' <=> AllCome(A, T)
  BY <1>1, <1>4 DEF AllCome, SomeAdd, Comes, Brings, Entry
<1>13. \A A : Placed(A)' <=> Placed(A)
  BY <1>7 DEF Placed
<1>14. \A A, T : Walking(A, T)' <=> Walking(A, T)
  BY <1>5, <1>6, <1>10, <1>11, <1>12, <1>13 DEF Walking, Returns, Distinct
<1>15. \A n : Circular(n)' <=> Circular(n)
  BY <1>1, <1>8 DEF Circular
<1> QED
  BY <1>1, <1>5, <1>6, <1>14, <1>15

LEMMA Goes ==
  ASSUME Builder, Order, outcome = "resolving", order.todo # <<>>,
         NEW u, Block(order.added, Head(order.todo), u), Continue(u)
  PROVE  Order'
<1>1. /\ order \in [added : Seq(Things), err : {"none", "overflow", "usage"}, todo : Seq(Items)]
      /\ order.err = "none" /\ Walking(order.added, order.todo)
  BY DEF Order
<1>2. PICK T : T = u \o Tail(order.todo)
  OBVIOUS
<1>3. Walking(order.added, T)
  BY <1>1, <1>2, ReplaceHead
<1>4. T \in Seq(Items)
  BY <1>3 DEF Walking
<1>5. /\ order' = [order EXCEPT !.todo = T] /\ outcome' = "resolving"
      /\ UNCHANGED <<bindings, events>>
  BY <1>2 DEF Continue, builder
<1>6. /\ order'.added = order.added /\ order'.err = "none" /\ order'.todo = T
      /\ order' \in [added : Seq(Things), err : {"none", "overflow", "usage"}, todo : Seq(Items)]
  BY <1>1, <1>4, <1>5
<1>7. /\ Things' = Things /\ Items' = Items
      /\ Walking(order.added, order.todo)' 
  BY <1>3, <1>5, <1>6, Frozen
<1>8. OverflowMeansCircle'
  BY <1>6 DEF OverflowMeansCircle
<1> QED
  BY <1>5, <1>6, <1>7, <1>8 DEF Order, Walked

LEMMA NowIs ==
  ASSUME Order, NEW do, Pending(do)
  PROVE  /\ outcome = "resolving" /\ order.todo # <<>> /\ Walking(order.added, order.todo)
         /\ Head(order.todo) \in Items /\ Head(order.todo).do = do /\ Head(order.todo).of = Now
         /\ order.added \in Seq(Things) /\ Len(order.added) \in Nat
<1>1. Walking(order.added, order.todo) /\ order.todo # <<>> /\ outcome = "resolving"
  BY DEF Order, Pending
<1> QED
  BY <1>1, HeadTailProperties, LenProperties DEF Pending, Now, Walking

LEMMA PassesOver ==
  ASSUME Builder, Order, AlreadyThere \/ NotBound \/ ContractResolved \/ UsageFound
  PROVE  Order'
<1> DEFINE A == order.added
           h == Head(order.todo)
<1>1. PICK do : Pending(do) /\ do \in {"contract", "before", "single", "add", "return", "check"}
  BY DEF AlreadyThere, NotBound, ContractResolved, UsageFound
<1>2. /\ outcome = "resolving" /\ order.todo # <<>> /\ h \in Items /\ h.do = do /\ h.of = Now
  BY <1>1, NowIs
<1>3. Continue(<<>>)
  BY DEF AlreadyThere, NotBound, ContractResolved, UsageFound
<1>4. \/ h.of \in Elems(A)
      \/ h.do = "contract" /\ h.of \notin Bound
      \/ h.do \in {"return", "check"}
  BY <1>1, <1>2 DEF AlreadyThere, NotBound, ContractResolved, UsageFound, Has, Pending
<1>5. <<>> \in Seq(Items) /\ Elems(<<>>) = {}
  BY ElemsEmpty
<1>6. \A x \in Things : Brings(h, x) => x \in Elems(A)
  <2>1. ASSUME h.do = "contract", h.of \in Things PROVE h.of \in Bound
    <3>1. h.of \in Names \cup Literals
      BY <1>2, <2>1 DEF Items
    <3> QED
      BY <2>1, <3>1, Records, BuilderAssumption DEF Things
  <2> QED
    BY <1>4, <2>1 DEF Brings
<1>7. h.do = "add" => h.of \in Elems(A)
  BY <1>4
<1>8. Block(A, h, <<>>)
  BY <1>5, <1>6, <1>7, WithoutAdd
<1> QED
  BY <1>2, <1>3, <1>8, Goes

LEMMA DependencyStep ==
  ASSUME Builder, Order, ContractsOfDependency
  PROVE  Order'
<1> DEFINE A == order.added
           h == Head(order.todo)
           u == Calls("contract", Deps(Now))
<1>1. /\ outcome = "resolving" /\ order.todo # <<>> /\ h \in Items /\ h.do = "deps" /\ h.of = Now
  BY NowIs DEF ContractsOfDependency
<1>2. Now \in Hooked
  BY <1>1 DEF Items
<1>3. Deps(Now) \in Seq(Bound) /\ Elems(Deps(Now)) \subseteq Bound
  BY <1>2, HookLists, ElemsOf
<1>4. \A x \in Bound : Entry("contract", x) \in Items
  BY Records DEF Entry, Items
<1>5. u \in Seq(Items) /\ Elems(u) = {Entry("contract", x) : x \in Elems(Deps(Now))}
  BY <1>3, <1>4, CallsOf
<1> HIDE DEF u
<1>6. \A z \in Elems(u) : z.do \notin {"add", "return"}
  BY <1>5 DEF Entry
<1>7. \A x : ~Brings(h, x)
  BY <1>1 DEF Brings
<1>8. \A S \in SUBSET Bound : Closed(S) /\ Inside(h, S) => \A z \in Elems(u) : Inside(z, S)
  BY <1>1, <1>5 DEF Inside, Entry
<1>9. Block(A, h, u)
  BY <1>1, <1>5, <1>6, <1>7, <1>8, WithoutAdd
<1> QED
  BY <1>1, <1>9, Goes DEF ContractsOfDependency, u

LEMMA ResolveContractStep ==
  ASSUME Builder, Order, ResolveContract
  PROVE  Order'
<1> DEFINE A == order.added
           h == Head(order.todo)
           n == Now
           needs == Calls("contract", Needs(n))
           hooks == Calls("before", BeforeHooks(n))
           after == Calls("after", AfterHooks(n))
           back == <<Return(n)>>
           v == needs \o hooks
           w == after \o back
<1>1. /\ outcome = "resolving" /\ order.todo # <<>> /\ h \in Items /\ h.do = "contract" /\ h.of = n
      /\ A \in Seq(Things) /\ n \in Bound /\ n \notin Elems(A)
  BY NowIs DEF ResolveContract, Has
<1>2. /\ Needs(n) \in Seq(Names \cup Literals)
      /\ BeforeHooks(n) \in Seq(Hooks) /\ AfterHooks(n) \in Seq(Hooks)
      /\ Elems(BeforeHooks(n)) \subseteq OfType(BeforeTypes)
      /\ Elems(AfterHooks(n)) \subseteq OfType(AfterTypes)
  BY <1>1, ContractLists
<1>3. BeforeHooks(n) \in Seq(OfType(BeforeTypes)) /\ AfterHooks(n) \in Seq(OfType(AfterTypes))
  BY <1>2, Narrowed
<1>4. /\ \A x \in Names \cup Literals : Entry("contract", x) \in Items
      /\ \A x \in OfType(BeforeTypes) : Entry("before", x) \in Items
      /\ \A x \in OfType(AfterTypes) : Entry("after", x) \in Items
  BY DEF Entry, Items
<1>5. /\ needs \in Seq(Items) /\ hooks \in Seq(Items) /\ after \in Seq(Items)
      /\ Elems(needs) = {Entry("contract", x) : x \in Elems(Needs(n))}
      /\ Elems(hooks) = {Entry("before", x) : x \in Elems(BeforeHooks(n))}
      /\ Elems(after) = {Entry("after", x) : x \in Elems(AfterHooks(n))}
  BY <1>2, <1>3, <1>4, CallsOf
<1>6. /\ Return(n) \in Items /\ back \in Seq(Items) /\ Elems(back) = {Return(n)}
      /\ Return(n).do = "return" /\ Return(n).of[1] = n /\ Return(n).of[2] = A
  BY <1>1, ElemsOne DEF Return, Entry, Items
<1>7. Continue((v \o <<Entry("add", n)>>) \o w)
  BY DEF ResolveContract
<1> HIDE DEF needs, hooks, after, back
<1>8. v \in Seq(Items) /\ Elems(v) = Elems(needs) \cup Elems(hooks)
  BY <1>5, ConcatProperties, ElemsConcat
<1>9. w \in Seq(Items) /\ Elems(w) = Elems(after) \cup Elems(back)
  BY <1>5, <1>6, ConcatProperties, ElemsConcat
<1> HIDE DEF v, w, n
<1>10. \A z \in Elems(v) : z.do \notin {"add", "return"}
  BY <1>5, <1>8 DEF Entry
<1>11. \A z \in Elems(w) : z.do # "add"
  BY <1>5, <1>6, <1>9 DEF Entry
<1>12. n \in Things /\ h.do # "add" /\ \A y \in Things : Brings(h, y) => y = n
  BY <1>1 DEF Things, Brings
<1>13. ASSUME NEW y \in Required(n) PROVE \E z \in Elems(v) : Brings(z, y)
  <2>1. y \in Elems(Needs(n)) \/ y \in Elems(BeforeHooks(n))
    BY <1>1 DEF Required
  <2>2. Entry("contract", y) \in Elems(v) \/ Entry("before", y) \in Elems(v)
    BY <1>5, <1>8, <2>1
  <2> QED
    BY <2>2 DEF Brings, Entry
<1>14. ASSUME NEW e \in Elems(AfterHooks(n)) PROVE \E z \in Elems(w) : Brings(z, e)
  <2>1. Entry("after", e) \in Elems(w)
    BY <1>5, <1>9
  <2> QED
    BY <2>1 DEF Brings, Entry
<1>15. ASSUME NEW S \in SUBSET Bound, NeedsDirectly(n) \subseteq S, NEW z \in Elems(v)
       PROVE  Inside(z, S)
  <2>1. CASE z \in Elems(needs)
    BY <1>5, <1>15, <2>1 DEF Inside, Entry, NeedsDirectly
  <2>2. CASE z \in Elems(hooks)
    <3>1. PICK e \in Elems(BeforeHooks(n)) : z = Entry("before", e)
      BY <1>5, <2>2
    <3>2. \A d \in Elems(EventDeps(e)) : Elems(Deps(d)) \subseteq NeedsDirectly(n)
      BY <3>1 DEF NeedsDirectly
    <3> QED
      BY <1>15, <3>1, <3>2 DEF Inside, Entry
  <2> QED
    BY <1>8, <2>1, <2>2
<1>16. \A S \in SUBSET Bound : Closed(S) /\ Inside(h, S) => \A z \in Elems(v) : Inside(z, S)
  BY <1>1, <1>15 DEF Closed, Inside
<1>17. \A z \in Elems(w) : z.do = "return" =>
         /\ Len(z.of[2]) <= Len(A)
         /\ \A S \in SUBSET Bound : Closed(S) /\ NeedsDirectly(z.of[1]) \subseteq S =>
              \A y \in Elems(v) : Inside(y, S)
  <2>1. \A z \in Elems(w) : z.do = "return" => z = Return(n)
    BY <1>5, <1>6, <1>9 DEF Entry
  <2>2. Len(A) <= Len(A)
    BY <1>1, LenProperties
  <2> QED
    BY <1>6, <1>15, <2>1, <2>2
<1>18. Block(A, h, (v \o <<Entry("add", n)>>) \o w)
  BY <1>1, <1>8, <1>9, <1>10, <1>11, <1>12, <1>13, <1>14, <1>16, <1>17, WithAdd
<1> QED
  BY <1>1, <1>7, <1>18, Goes

(* A hook that is put last in its block.                                   *)
LEMMA HookBlock ==
  ASSUME Builder, NEW A, NEW h, NEW v \in Seq(Items), NEW e \in Hooked,
         \A z \in Elems(v) : z.do \notin {"add", "return"},
         h.do \notin {"add", "contract"}, h.of = e,
         \A y \in Required(e) : \E z \in Elems(v) : Brings(z, y),
         \A S \in SUBSET Bound : Closed(S) /\ Inside(h, S) => \A z \in Elems(v) : Inside(z, S)
  PROVE  Block(A, h, v \o <<Entry("add", e)>>)
<1>1. e \in Things /\ e \notin Bound
  BY Records DEF Things
<1>2. \A y \in Things : Brings(h, y) => y = e
  BY DEF Brings
<1>3. Elems(<<>>) = {} /\ <<>> \in Seq(Items)
  BY ElemsEmpty
<1>4. Block(A, h, (v \o <<Entry("add", e)>>) \o <<>>)
  BY <1>1, <1>2, <1>3, WithAdd
<1> DEFINE a == Entry("add", e)
           va == v \o <<a>>
<1>5. a \in Items
  BY <1>1 DEF Entry, Items
<1> HIDE DEF a
<1>6. <<a>> \in Seq(Items)
  BY <1>5
<1>7. va \in Seq(Items)
  BY <1>6, ConcatProperties
<1> HIDE DEF va
<1>8. va \o <<>> = va
  BY <1>7, ConcatEmptySeq
<1> QED
  BY <1>4, <1>8 DEF va, a

LEMMA AddBeforeEventStep ==
  ASSUME Builder, Order, AddBeforeEvent
  PROVE  Order'
<1> DEFINE A == order.added
           h == Head(order.todo)
           e == Now
           deps == Calls("deps", EventDeps(e))
           check == <<Entry("check", e)>>
           v == deps \o check
<1>1. /\ outcome = "resolving" /\ order.todo # <<>> /\ h \in Items /\ h.do = "before" /\ h.of = e
  BY NowIs DEF AddBeforeEvent
<1>2. e \in OfType(BeforeTypes)
  BY <1>1 DEF Items
<1>3. e \in Hooked /\ EventDeps(e) \in Seq(Hooked)
  BY <1>2, HookLists DEF OfType
<1>4. \A x \in Hooked : Entry("deps", x) \in Items /\ Entry("check", x) \in Items
  BY DEF Entry, Items
<1>5. deps \in Seq(Items) /\ Elems(deps) = {Entry("deps", x) : x \in Elems(EventDeps(e))}
  BY <1>3, <1>4, CallsOf
<1>6. check \in Seq(Items) /\ Elems(check) = {Entry("check", e)}
  BY <1>3, <1>4, ElemsOne
<1>7. Continue(v \o <<Entry("add", e)>>)
  BY DEF AddBeforeEvent
<1> HIDE DEF deps, check
<1>8. v \in Seq(Items) /\ Elems(v) = Elems(deps) \cup Elems(check)
  BY <1>5, <1>6, ConcatProperties, ElemsConcat
<1> HIDE DEF v, e
<1>9. \A z \in Elems(v) : z.do \notin {"add", "return"}
  BY <1>5, <1>6, <1>8 DEF Entry
<1>10. Required(e) = {}
  <2>1. e \notin Bound /\ e \notin OfType(AfterTypes)
    BY <1>2, <1>3, Records DEF OfType, BeforeTypes, AfterTypes
  <2> QED
    BY <2>1 DEF Required
<1>11. \A S \in SUBSET Bound : Closed(S) /\ Inside(h, S) => \A z \in Elems(v) : Inside(z, S)
  BY <1>1, <1>5, <1>6, <1>8 DEF Inside, Entry
<1>12. Block(A, h, v \o <<Entry("add", e)>>)
  BY <1>1, <1>3, <1>8, <1>9, <1>10, <1>11, HookBlock
<1> QED
  BY <1>1, <1>7, <1>12, Goes

(* What _addEvent and _resolveSingleEvent call first.                      *)
LEMMA EventCalls ==
  ASSUME Builder, NEW e \in Hooked, NEW u,
         u = Calls("contract", Deps(e)) \o Calls("single", EventDeps(e)) \o Calls("contract", Usage(e))
  PROVE  /\ u \in Seq(Items) /\ \A z \in Elems(u) : z.do \in {"contract", "single"}
         /\ \A y \in Required(e) : \E z \in Elems(u) : Brings(z, y)
<1> DEFINE c == Calls("contract", Deps(e))
           s == Calls("single", EventDeps(e))
           d == Calls("contract", Usage(e))
           cs == c \o s
<1>1. Deps(e) \in Seq(Bound) /\ EventDeps(e) \in Seq(Hooked) /\ Usage(e) \in Seq(Bound)
  BY HookLists
<1>2. /\ \A x \in Bound : Entry("contract", x) \in Items
      /\ \A x \in Hooked : Entry("single", x) \in Items
  BY Records DEF Entry, Items
<1>3. /\ c \in Seq(Items) /\ Elems(c) = {Entry("contract", x) : x \in Elems(Deps(e))}
      /\ s \in Seq(Items) /\ Elems(s) = {Entry("single", x) : x \in Elems(EventDeps(e))}
      /\ d \in Seq(Items) /\ Elems(d) = {Entry("contract", x) : x \in Elems(Usage(e))}
  BY <1>1, <1>2, CallsOf
<1>4. u = cs \o d
  OBVIOUS
<1> HIDE DEF c, s, d
<1>5. cs \in Seq(Items) /\ Elems(cs) = Elems(c) \cup Elems(s)
  BY <1>3, ConcatProperties, ElemsConcat
<1> HIDE DEF cs
<1>6. u \in Seq(Items) /\ Elems(u) = Elems(cs) \cup Elems(d)
  <2>1. cs \in Seq(Items) /\ d \in Seq(Items)
    BY <1>3, <1>5
  <2>2. cs \o d \in Seq(Items)
    BY <2>1, ConcatProperties
  <2>3. Elems(cs \o d) = Elems(cs) \cup Elems(d)
    BY <2>1, ElemsConcat
  <2> QED
    BY <1>4, <2>2, <2>3
<1>7. \A z \in Elems(u) : z.do \in {"contract", "single"}
  BY <1>3, <1>5, <1>6 DEF Entry
<1>8. Required(e) \subseteq Elems(Deps(e)) \cup Elems(EventDeps(e)) \cup Elems(Usage(e))
  BY Records DEF Required
<1>9. ASSUME NEW y \in Required(e) PROVE \E z \in Elems(u) : Brings(z, y)
  <2>1. Entry("contract", y) \in Elems(u) \/ Entry("single", y) \in Elems(u)
    BY <1>3, <1>5, <1>6, <1>8
  <2> QED
    BY <2>1 DEF Brings, Entry
<1> QED
  BY <1>6, <1>7, <1>9

LEMMA AddEventStep ==
  ASSUME Builder, Order, AddEvent
  PROVE  Order'
<1> DEFINE A == order.added
           h == Head(order.todo)
           e == Now
           u == Calls("contract", Deps(e)) \o Calls("single", EventDeps(e)) \o Calls("contract", Usage(e))
           check == <<Entry("check", e)>>
           v == u \o check
<1>1. /\ outcome = "resolving" /\ order.todo # <<>> /\ h \in Items /\ h.do = "after" /\ h.of = e
  BY NowIs DEF AddEvent
<1>2. e \in Hooked
  BY <1>1 DEF Items, OfType
<1>3. /\ u \in Seq(Items) /\ \A z \in Elems(u) : z.do \in {"contract", "single"}
      /\ \A y \in Required(e) : \E z \in Elems(u) : Brings(z, y)
  BY <1>2, EventCalls
<1>4. Entry("check", e) \in Items
  BY <1>2 DEF Entry, Items
<1>5. check \in Seq(Items) /\ Elems(check) = {Entry("check", e)}
  BY <1>4, ElemsOne
<1>6. Continue(v \o <<Entry("add", e)>>)
  BY DEF AddEvent
<1> HIDE DEF u, check
<1>7. v \in Seq(Items) /\ Elems(v) = Elems(u) \cup Elems(check)
  BY <1>3, <1>5, ConcatProperties, ElemsConcat
<1> HIDE DEF v, e
<1>8. \A z \in Elems(v) : z.do \notin {"add", "return"}
  BY <1>3, <1>5, <1>7 DEF Entry
<1>9. \A S : ~Inside(h, S)
  BY <1>1 DEF Inside
<1>10. Block(A, h, v \o <<Entry("add", e)>>)
  BY <1>1, <1>2, <1>3, <1>7, <1>8, <1>9, HookBlock
<1> QED
  BY <1>1, <1>6, <1>10, Goes

LEMMA ResolveSingleEventStep ==
  ASSUME Builder, Order, ResolveSingleEvent
  PROVE  Order'
<1> DEFINE A == order.added
           h == Head(order.todo)
           e == Now
           u == Calls("contract", Deps(e)) \o Calls("single", EventDeps(e)) \o Calls("contract", Usage(e))
           s == Calls("single", EventUsage(e))
           v == u \o s
<1>1. /\ outcome = "resolving" /\ order.todo # <<>> /\ h \in Items /\ h.do = "single" /\ h.of = e
  BY NowIs DEF ResolveSingleEvent
<1>2. e \in Hooked
  BY <1>1 DEF Items, OfType
<1>3. /\ u \in Seq(Items) /\ \A z \in Elems(u) : z.do \in {"contract", "single"}
      /\ \A y \in Required(e) : \E z \in Elems(u) : Brings(z, y)
  BY <1>2, EventCalls
<1>4. EventUsage(e) \in Seq(Hooked) /\ \A x \in Hooked : Entry("single", x) \in Items
  BY <1>2, HookLists DEF Entry, Items
<1>5. s \in Seq(Items) /\ Elems(s) = {Entry("single", x) : x \in Elems(EventUsage(e))}
  BY <1>4, CallsOf
<1>6. Continue(v \o <<Entry("add", e)>>)
  BY DEF ResolveSingleEvent
<1> HIDE DEF u, s
<1>7. v \in Seq(Items) /\ Elems(v) = Elems(u) \cup Elems(s)
  BY <1>3, <1>5, ConcatProperties, ElemsConcat
<1> HIDE DEF v, e
<1>8. \A z \in Elems(v) : z.do \notin {"add", "return"}
  BY <1>3, <1>5, <1>7 DEF Entry
<1>9. \A S : ~Inside(h, S)
  BY <1>1 DEF Inside
<1>10. Block(A, h, v \o <<Entry("add", e)>>)
  BY <1>1, <1>2, <1>3, <1>7, <1>8, <1>9, HookBlock
<1> QED
  BY <1>1, <1>6, <1>10, Goes

LEMMA AddStep ==
  ASSUME Builder, Order, Add
  PROVE  Order'
<1> DEFINE types == {"none", "overflow", "usage"}
<1>1. /\ outcome = "resolving" /\ order.todo # <<>> /\ Walking(order.added, order.todo)
      /\ Head(order.todo) \in Items /\ Head(order.todo).do = "add" /\ Head(order.todo).of = Now
      /\ Now \notin Elems(order.added)
  BY NowIs DEF Add, Has
<1>2. Now \in Things
  BY <1>1 DEF Items
<1>3. PICK A, T : A = Append(order.added, Now) /\ T = Tail(order.todo)
  OBVIOUS
<1>4. Walking(A, T)
  BY <1>1, <1>2, <1>3, AddHead
<1>5. /\ order \in [added : Seq(Things), err : types, todo : Seq(Items)]
      /\ order.err = "none" /\ A \in Seq(Things) /\ T \in Seq(Items)
  BY <1>1, <1>4 DEF Order, Walking
<1>6. /\ order' = [order EXCEPT !.added = A, !.todo = T]
      /\ outcome' = "resolving" /\ UNCHANGED <<bindings, events>>
  BY <1>1, <1>3 DEF Add, builder
<1>7. /\ order'.added = A /\ order'.err = "none" /\ order'.todo = T
      /\ order' \in [added : Seq(Things), err : types, todo : Seq(Items)]
  BY <1>5, <1>6
<1>8. Things' = Things /\ Items' = Items /\ Walking(order.added, order.todo)'
  BY <1>4, <1>6, <1>7, Frozen
<1>9. OverflowMeansCircle'
  BY <1>7 DEF OverflowMeansCircle
<1> QED
  BY <1>6, <1>7, <1>8, <1>9 DEF Order, Walked

LEMMA FailStep ==
  ASSUME Builder, Order, Overflow \/ UsageEventNotFound
  PROVE  Order'
<1> DEFINE types == {"none", "overflow", "usage"}
           A == order.added
           T == order.todo
           n == Now
<1>1. PICK do, err : /\ Pending(do) /\ Fail(err) /\ err \in {"overflow", "usage"}
                     /\ err = "overflow" => Overflow /\ do = "contract"
  BY DEF Overflow, UsageEventNotFound
<1>2. /\ outcome = "resolving" /\ T # <<>> /\ Walking(A, T)
      /\ Head(T) \in Items /\ Head(T).do = do /\ Head(T).of = n
  BY <1>1, NowIs
<1>3. err = "overflow" => \E m \in Bound : Circular(m)
  <2>1. SUFFICES ASSUME err = "overflow" PROVE Circular(n) /\ n \in Bound
    OBVIOUS
  <2>2. n \in Bound /\ Return(n) \in Elems(T) /\ Head(T).do = "contract"
    BY <1>1, <1>2, <2>1 DEF Overflow, Recurses
  <2>3. PICK p \in DOMAIN T : T[p] = Return(n)
    BY <2>2 DEF Elems
  <2>4. T[p].do = "return" /\ T[p].of[1] = n /\ T[p].of[2] = A
    BY <2>3 DEF Return, Entry
  <2>5. 1 \in DOMAIN T /\ Head(T) = T[1] /\ 1 < p
    <3>1. T \in Seq(Items)
      BY <1>2 DEF Walking
    <3>2. DOMAIN T = 1 .. Len(T) /\ Len(T) \in Nat /\ Len(T) > 0
      BY <1>2, <3>1, LenProperties, EmptySeq
    <3>3. Head(T) = T[1]
      BY <3>1, <1>2
    <3>4. p # 1
      BY <2>2, <2>4, <3>3
    <3> QED
      BY <3>2, <3>3, <3>4
  <2>6. Around(p, A, T)
    BY <1>2, <2>4 DEF Walking, Rounds
  <2>7. ASSUME NEW S \in SUBSET Bound, NeedsDirectly(n) \subseteq S,
               \A m \in S : NeedsDirectly(m) \subseteq S
        PROVE  n \in S
    <3>1. ~Shielded(1, A, T)
      BY <1>2, LenProperties DEF Shielded, Walking
    <3>2. Inside(T[1], S)
      BY <2>4, <2>5, <2>6, <2>7, <3>1 DEF Around, Closed
    <3> QED
      BY <1>2, <2>2, <2>5, <3>2 DEF Inside
  <2> QED
    BY <2>2, <2>7 DEF Circular
<1>4. order \in [added : Seq(Things), err : types, todo : Seq(Items)]
  BY DEF Order
<1>5. /\ order' = [order EXCEPT !.err = err] /\ outcome' = "unresolvable"
      /\ UNCHANGED <<bindings, events>>
  BY <1>1 DEF Fail
<1>6. /\ order'.err = err
      /\ order' \in [added : Seq(Things), err : types, todo : Seq(Items)]
  BY <1>1, <1>4, <1>5
<1>7. Things' = Things /\ Items' = Items /\ Bound' = Bound /\ \A m : Circular(m)' <=> Circular(m)
  BY <1>5, Frozen
<1>8. OverflowMeansCircle'
  BY <1>3, <1>6, <1>7 DEF OverflowMeansCircle
<1> QED
  BY <1>5, <1>6, <1>7, <1>8 DEF Order, Walked

LEMMA ResolveStep ==
  ASSUME Builder, Order, Resolve
  PROVE  Order'
<1> DEFINE types == {"none", "overflow", "usage"}
           names == [i \in DOMAIN bindings |-> bindings[i].name]
           c == Calls("contract", names)
<1>1. /\ outcome = "built" /\ order = NoOrder /\ outcome' = "resolving"
      /\ UNCHANGED <<bindings, events>>
  BY DEF Resolve, Order
<1>2. names \in Seq(Bound) /\ Elems(names) = Bound
  <2>1. DOMAIN bindings = 1 .. Len(bindings) /\ Len(bindings) \in Nat
    BY LenProperties DEF Builder, BuilderType
  <2> QED
    BY <2>1 DEF Bound, Elems
<1>3. \A x \in Bound : Entry("contract", x) \in Items
  BY Records DEF Entry, Items
<1>4. c \in Seq(Items) /\ Elems(c) = {Entry("contract", x) : x \in Bound}
  <2> HIDE DEF names
  <2> QED
    BY <1>2, <1>3, CallsOf
<1>5. PICK T : T = c
  OBVIOUS
<1>6. order' = [order EXCEPT !.todo = T]
  BY <1>5 DEF Resolve
<1> HIDE DEF c
<1>7. /\ T \in Seq(Items) /\ Len(T) \in Nat /\ DOMAIN T = 1 .. Len(T)
      /\ \A x \in Bound : \E p \in DOMAIN T : T[p] = Entry("contract", x)
      /\ \A p \in DOMAIN T : T[p].do = "contract"
  <2>1. Elems(T) = {T[p] : p \in DOMAIN T}
    BY DEF Elems
  <2>2. \A x \in Bound : Entry("contract", x) \in Elems(T)
    BY <1>4, <1>5
  <2>3. \A z \in Elems(T) : z.do = "contract"
    BY <1>4, <1>5 DEF Entry
  <2>4. T \in Seq(Items) /\ Len(T) \in Nat /\ DOMAIN T = 1 .. Len(T)
    BY <1>4, <1>5, LenProperties
  <2> QED
    BY <2>1, <2>2, <2>3, <2>4
<1>8. Walking(<<>>, T)
  <2>1. Elems(<<>>) = {} /\ <<>> \in Seq(Things) /\ DOMAIN <<>> = {}
    BY ElemsEmpty
  <2>2. ReadyToAdd(<<>>, T) /\ Returns(<<>>, T) /\ Rounds(<<>>, T)
    BY <1>7 DEF ReadyToAdd, Returns, Rounds
  <2>3. Distinct(<<>>) /\ Placed(<<>>)
    BY <2>1 DEF Distinct, Placed
  <2>4. ASSUME NEW n \in Bound PROVE Comes(n, Len(T) + 1, <<>>, T)
    <3>1. PICK p \in DOMAIN T : T[p] = Entry("contract", n)
      BY <1>7
    <3>2. p < Len(T) + 1 /\ T[p].do = "contract" /\ T[p].of = n
      BY <1>7, <3>1 DEF Entry
    <3> QED
      BY <3>2 DEF Comes, Brings
  <2>5. \A n : ~SomeAdd(n, <<>>, T)
    BY <1>7, <2>1 DEF SomeAdd, Entry
  <2> QED
    BY <1>7, <2>1, <2>2, <2>3, <2>4, <2>5 DEF Walking, AllCome
<1>9. order \in [added : Seq(Things), err : types, todo : Seq(Items)] /\ order.err = "none"
      /\ order.added = <<>>
  BY <1>1 DEF Order, NoOrder
<1>10. /\ order'.err = "none" /\ order'.added = <<>> /\ order'.todo = T
       /\ order' \in [added : Seq(Things), err : types, todo : Seq(Items)]
  BY <1>6, <1>7, <1>9
<1>11. Things' = Things /\ Items' = Items /\ Walking(order.added, order.todo)'
  BY <1>1, <1>8, <1>10, Frozen
<1>12. OverflowMeansCircle'
  BY <1>10 DEF OverflowMeansCircle
<1> QED
  BY <1>1, <1>10, <1>11, <1>12 DEF Order, Walked

(* The order stays; only the outcome moves on.                             *)
LEMMA OrderStays ==
  ASSUME Order, UNCHANGED <<bindings, events, order>>,
         \/ outcome' = outcome
         \/ outcome = "resolving" /\ order.todo = <<>> /\ outcome' = "resolved"
         \/ outcome \in Walked /\ outcome' \in Walked
  PROVE  Order'
<1>1. /\ Bound' = Bound /\ Things' = Things /\ Items' = Items
      /\ \A A, T : Walking(A, T)' <=> Walking(A, T)
      /\ \A n : Circular(n)' <=> Circular(n)
  BY Frozen
<1>2. Walking(order.added, order.todo)' <=> Walking(order.added, order.todo)
  BY <1>1
<1>3. OverflowMeansCircle'
  BY <1>1 DEF Order, OverflowMeansCircle
<1> QED
  BY <1>1, <1>2, <1>3 DEF Order, Walked

LEMMA NoOrderYet ==
  ASSUME order' = NoOrder, outcome' \in {"building", "built", "failed"}
  PROVE  Order'
<1>1. /\ order'.added = <<>> /\ order'.err = "none" /\ order'.todo = <<>>
      /\ order' = [added |-> <<>>, err |-> "none", todo |-> <<>>]
  BY DEF NoOrder
<1>2. order' \in [added : Seq(Things'), err : {"none", "overflow", "usage"}, todo : Seq(Items')]
  BY <1>1
<1>3. OverflowMeansCircle'
  BY <1>1 DEF OverflowMeansCircle
<1> QED
  BY <1>2, <1>3 DEF Order, Walked

LEMMA OrderStep ==
  ASSUME Builder, Order, [BatchNext]_all
  PROVE  Order'
<1>1. CASE Call /\ UNCHANGED order
  <2>1. outcome' \in {"building", "built", "failed"}
    BY <1>1 DEF Call, Calling, Contract, Library, Bind, ContractTemplate, BindFails, Throw,
       BindTemplate, DeployFn, FactoryCreate, Hook, HookNameExists, UseModule, UseModuleAgain,
       EndModule, Built, Invalid
  <2>2. order' = NoOrder
    BY <1>1 DEF Call, Calling, Order
  <2> QED
    BY <2>1, <2>2, NoOrderYet
<1>2. CASE Resolve
  BY <1>2, ResolveStep
<1>3. CASE Walk
  BY <1>3, PassesOver, ResolveContractStep, FailStep, AddBeforeEventStep, DependencyStep,
     AddEventStep, ResolveSingleEventStep, AddStep DEF Walk
<1>4. CASE Resolved
  BY <1>4, OrderStays DEF Resolved
<1>5. CASE ExecuteParallel \/ Batching \/ ExecuteBatches
  <2>1. /\ UNCHANGED <<bindings, events, order>>
        /\ outcome \in Walked /\ outcome' \in Walked
    BY <1>5 DEF ExecuteParallel, Batching, ExecuteBatches, Skip, Library1, Contract1,
       HandleArgument, PutContract, HandleEvent, HandleBeforeDeploy, HandleAfterDeploy, Go, Put,
       Refuse, Waiting, builder, Walked
  <2> QED
    BY <2>1, OrderStays
<1>6. CASE UNCHANGED all
  BY <1>6, OrderStays DEF all, builder
<1> QED
  BY <1>1, <1>2, <1>3, <1>4, <1>5, <1>6 DEF BatchNext, ResolveNext

(* The walk of the resolver keeps its promises: see Walking.               *)
THEOREM OrderInvariant == BatchSpec => []Order
<1>1. BatchInit => Order
  <2>1. SUFFICES ASSUME BatchInit PROVE Order
    OBVIOUS
  <2>2. order = [added |-> <<>>, err |-> "none", todo |-> <<>>] /\ outcome = "building"
    BY <2>1 DEF BatchInit, ResolveInit, Init, NoOrder
  <2>3. order \in [added : Seq(Things), err : {"none", "overflow", "usage"}, todo : Seq(Items)]
    BY <2>2
  <2>4. OverflowMeansCircle /\ order = NoOrder
    BY <2>2 DEF OverflowMeansCircle, NoOrder
  <2> QED
    BY <2>2, <2>3, <2>4 DEF Order, Walked
<1>2. Builder /\ Order /\ [BatchNext]_all => Order'
  BY OrderStep
<1> QED
  BY <1>1, <1>2, BuilderInvariant, PTL DEF BatchSpec

(* The resolver's stack overflows only when a contract needs itself.       *)
THEOREM OverflowAlwaysMeansCircle == BatchSpec => []OverflowMeansCircle
<1>1. Order => OverflowMeansCircle
  BY DEF Order
<1> QED
  BY <1>1, OrderInvariant, PTL

(* What the walk has come to: everything is there, in its place.           *)
LEMMA Arranged ==
  ASSUME Builder, Order, outcome \in Walked
  PROVE  /\ order.added \in Seq(Things) /\ Distinct(order.added) /\ Bound \subseteq Elems(order.added)
         /\ \A x \in Elems(order.added) : \A y \in Required(x) : InOrder(y, x)
         /\ \A n \in Bound : Elems(BeforeHooks(n)) \cup Elems(AfterHooks(n)) \subseteq Elems(order.added)
<1> DEFINE A == order.added
<1>1. Walking(A, <<>>)
  BY DEF Order
<1>2. \A x, p : Comes(x, p, A, <<>>) => x \in Elems(A)
  BY DEF Comes
<1>3. Bound \subseteq Elems(A) /\ \A n \in Bound : Elems(AfterHooks(n)) \subseteq Elems(A)
  BY <1>1, <1>2 DEF Walking, AllCome, SomeAdd
<1>4. ASSUME NEW x \in Elems(A), NEW y \in Required(x) PROVE InOrder(y, x)
  <2>1. PICK i \in DOMAIN A : A[i] = x
    BY DEF Elems
  <2>2. \E j \in DOMAIN A : j < i /\ A[j] = y
    <3>1. Placed(A)
      BY <1>1 DEF Walking
    <3> QED
      BY <2>1, <3>1 DEF Placed
  <2> QED
    BY <2>1, <2>2 DEF InOrder
<1>5. \A n \in Bound : Elems(BeforeHooks(n)) \subseteq Elems(A)
  <2>1. \A x, y : InOrder(y, x) => y \in Elems(A)
    BY DEF InOrder, Elems
  <2> QED
    BY <1>3, <1>4, <2>1 DEF Required
<1> QED
  BY <1>1, <1>3, <1>4, <1>5 DEF Walking

LEMMA OrderRespects ==
  ASSUME Builder, Order
  PROVE  DeclarationsRespected /\ NothingLost
<1>1. SUFFICES ASSUME outcome = "resolved" PROVE DeclarationsRespected /\ NothingLost
  BY DEF DeclarationsRespected, NeededFirst, HooksInPlace, NothingLost
<1> DEFINE A == order.added
<1>2. /\ A \in Seq(Things) /\ Distinct(A) /\ Bound \subseteq Elems(A)
      /\ \A x \in Elems(A) : \A y \in Required(x) : InOrder(y, x)
      /\ \A n \in Bound : Elems(BeforeHooks(n)) \cup Elems(AfterHooks(n)) \subseteq Elems(A)
  BY <1>1, Arranged DEF Walked
<1>3. NeededFirst
  BY <1>2 DEF NeededFirst, Needs, Required
<1>4. HooksInPlace
  <2>1. SUFFICES ASSUME NEW e \in Elems(A) \cap Hooks
                 PROVE  IF Event(e).type \in BeforeTypes
                        THEN \A n \in Elems(Deps(e)) : InOrder(e, n)
                        ELSE \A x \in Elems(Deps(e)) \cup Elems(EventDeps(e)) \cup Elems(Usage(e)) :
                               InOrder(x, e)
    BY DEF HooksInPlace
  <2>2. e \in Hooked /\ e \notin Bound
    BY <1>2, ElemsOf, Records DEF Things
  <2>3. ASSUME Event(e).type \in BeforeTypes, NEW n \in Elems(Deps(e)) PROVE InOrder(e, n)
    <3>1. n \in Bound
      BY <2>2, HookLists, ElemsOf
    <3>2. e \in Elems(BeforeHooks(n))
      BY <2>2, <2>3, <3>1, ContractLists DEF OfType
    <3> QED
      BY <1>2, <3>1, <3>2 DEF Required
  <2>4. ASSUME Event(e).type \notin BeforeTypes
        PROVE  \A x \in Elems(Deps(e)) \cup Elems(EventDeps(e)) \cup Elems(Usage(e)) : InOrder(x, e)
    <3>1. e \in OfType(AfterTypes)
      BY <2>2, <2>4, HookLists DEF OfType
    <3> QED
      BY <1>2, <2>1, <2>2, <3>1 DEF Required
  <2> QED
    BY <2>3, <2>4
<1>5. \A e \in Hooked : Deps(e) # <<>> => e \in Elems(A)
  <2>1. SUFFICES ASSUME NEW e \in Hooked, Deps(e) # <<>> PROVE e \in Elems(A)
    OBVIOUS
  <2>2. PICK n \in Bound : n \in Elems(Deps(e))
    <3>1. Deps(e) \in Seq(Bound) /\ 1 \in DOMAIN Deps(e) /\ Deps(e)[1] \in Bound
      BY <2>1, HookLists, EmptySeq, LenProperties, ElementOfSeq
    <3> QED
      BY <3>1 DEF Elems
  <2>3. e \in Elems(BeforeHooks(n)) \cup Elems(AfterHooks(n))
    BY <2>2, HookLists, ContractLists DEF OfType
  <2> QED
    BY <1>2, <2>2, <2>3
<1>6. Cardinality(Elems(A)) = Len(A)
  <2>1. Len(A) \in Nat /\ A \in [1 .. Len(A) -> Things] /\ DOMAIN A = 1 .. Len(A)
    BY <1>2, LenProperties
  <2>2. A \in Bijection(1 .. Len(A), Elems(A))
    BY <1>2, <2>1 DEF Bijection, Injection, Surjection, IsInjective, Distinct, Elems
  <2>3. IsFiniteSet(1 .. Len(A)) /\ Cardinality(1 .. Len(A)) = Len(A)
    BY <2>1, FS_Interval
  <2> QED
    BY <2>2, <2>3, FS_Bijection DEF ExistsBijection
<1> QED
  BY <1>2, <1>3, <1>4, <1>5, <1>6 DEF DeclarationsRespected, NothingLost

(* Whatever module is declared, the order goes by what needs what: see     *)
(* NeededFirst and HooksInPlace.                                           *)
THEOREM DeclarationsAlwaysRespected == BatchSpec => []DeclarationsRespected
<1>1. Builder /\ Order => DeclarationsRespected
  BY OrderRespects
<1> QED
  BY <1>1, BuilderInvariant, OrderInvariant, PTL

(* Every contract and every hook on a contract gets exactly one place.     *)
THEOREM NothingEverLost == BatchSpec => []NothingLost
<1>1. Builder /\ Order => NothingLost
  BY OrderRespects
<1> QED
  BY <1>1, BuilderInvariant, OrderInvariant, PTL

(***************************************************************************)
(* The batches.                                                            *)
(***************************************************************************)
Arguments(n) == OnBindings(Binding(n).args)
(* In a batch before the k-th, or in none that is executed.                *)
Lower(x, k, at) == x \in DOMAIN at /\ (at[x] = NaN \/ at[x] < k)

(* What has a batch: no number is left out, and what an element needs is   *)
(* in lower ones.                                                          *)
Numbered(at, len) ==
  /\ len \in Nat /\ at \in [DOMAIN at -> {NaN} \cup 0 .. len - 1]
  /\ DOMAIN at \subseteq Elems(ModuleElements)
  /\ len = 0 => DOMAIN at = {}
  /\ \A k \in 0 .. len - 1 : \E x \in DOMAIN at : at[x] = k
  /\ \A x \in DOMAIN at : /\ x \notin Things => at[x] = 0
                          /\ at[x] = NaN => x \in Bound /\ ForLibrary(x)
  /\ \A n \in DOMAIN at \cap Bound :
       at[n] # NaN => \A x \in Arguments(n) : Lower(x, at[n], at)
  /\ \A e \in DOMAIN at \cap OfType(AfterTypes) :
       \A x \in DepsOf(e) \cup UsesOf(e) : Lower(x, at[e], at)

(* The calls for contracts: each is for an argument of the one below, so   *)
(* comes before it in the order.                                           *)
Frames(at, len, todo) ==
  \A i \in DOMAIN todo : todo[i].do = "handle" =>
    LET n == todo[i].of
        k == todo[i].k
    IN /\ n \notin DOMAIN at /\ k \in {NaN} \cup 0 .. len
       /\ \A x \in Arguments(n) : k = NaN \/ x \in Elems(todo[i].left) \/ Lower(x, k, at)
       /\ Elems(todo[i].left) \subseteq Elems(Binding(n).args)
       /\ k = NaN => ForLibrary(n)
       /\ ForLibrary(n) \/ IsLibrary(n) \/ Arguments(n) \subseteq DOMAIN at
       /\ \A j \in DOMAIN todo : j < i => todo[j].do = "handle" /\ InOrder(todo[j].of, n)
       /\ i = 1 /\ len = 0 => k # NaN

(* The loops: what has no batch is still to be met, in the order resolved. *)
Awaits(todo, dos, x) == \E i \in DOMAIN todo : todo[i].of = x /\ todo[i].do \in dos
Loops(at, todo) ==
  /\ \A x \in Elems(ModuleElements) : x \in DOMAIN at \/ Awaits(todo, {"element", "handle"}, x)
  /\ \A x \in Bound : IsLibrary(x) => x \in DOMAIN at \/ Awaits(todo, {"library", "handle"}, x)
  /\ \A i, j \in DOMAIN todo : i < j /\ todo[i].do = "element" =>
       /\ todo[j].do = "element"
       /\ {todo[i].of, todo[j].of} \subseteq Things => InOrder(todo[i].of, todo[j].of)
  /\ \A i \in DOMAIN todo : todo[i].do = "element" /\ todo[i].of \in Hooked =>
       todo[i].of \notin DOMAIN at

Jobs ==
  [do : {"library", "element"}, of : Elems(ModuleElements), left : {<<>>}, k : {0}]
  \cup [do : {"handle"}, of : Bound, left : Seq(Names \cup Literals), k : {NaN} \cup Nat]
Loop(at, len, todo) ==
  todo \in Seq(Jobs) /\ Numbered(at, len) /\ Frames(at, len, todo) /\ Loops(at, todo)

Looping == {"batching", "batched", "unbatched"}
Batches ==
  /\ batches = [at |-> batches.at, len |-> batches.len, err |-> batches.err, todo |-> batches.todo]
  /\ outcome \notin Looping => batches = NoBatches
  /\ outcome \in Looping => Loop(batches.at, batches.len, batches.todo)
  /\ outcome = "batched" => batches.todo = <<>>
  /\ OrderCanBeBatched

LEMMA FrozenLoop ==
  ASSUME UNCHANGED <<bindings, events, started, order>>
  PROVE  /\ \A at, len, todo : Loop(at, len, todo) => Loop(at, len, todo)'
         /\ \A e : DepsOf(e)' = DepsOf(e) /\ UsesOf(e)' = UsesOf(e)
<1>1. Bound' = Bound /\ Hooked' = Hooked
  BY DEF Bound, Hooked
<1>2. (\A n : Binding(n)' = Binding(n)) /\ (\A e : Event(e)' = Event(e))
  BY DEF Binding, Event
<1>3. \A e : DepsOf(e)' = DepsOf(e) /\ UsesOf(e)' = UsesOf(e)
  BY <1>2 DEF DepsOf, UsesOf, Deps, EventDeps, Usage, EventUsage
<1>4. \A n : Arguments(n)' = Arguments(n) /\ (IsLibrary(n)' <=> IsLibrary(n))
  BY <1>1, <1>2 DEF Arguments, IsLibrary
<1>5. Things' = Things /\ (\A types : OfType(types)' = OfType(types))
  BY <1>1, <1>2 DEF Things, OfType
<1>6. ModuleElements' = ModuleElements
  BY DEF ModuleElements, Started
<1>7. \A x, y : InOrder(x, y)' <=> InOrder(x, y)
  BY DEF InOrder
<1>8. \A x : ForLibrary(x)' <=> ForLibrary(x)
  BY <1>1, <1>2 DEF ForLibrary, IsLibrary
<1>9. \A x, k, at : Lower(x, k, at)' <=> Lower(x, k, at)
  BY DEF Lower
<1>10. ASSUME NEW at, NEW len, Numbered(at, len) PROVE Numbered(at, len)'
  <2>1. DOMAIN at \subseteq Elems(ModuleElements')
    BY <1>6, <1>10 DEF Numbered
  <2>2. \A x \in DOMAIN at : /\ x \notin Things' => at[x] = 0
                             /\ at[x] = NaN => x \in Bound' /\ ForLibrary(x)'
    BY <1>1, <1>5, <1>8, <1>10 DEF Numbered
  <2>3. \A n \in DOMAIN at \cap Bound' :
          at[n] # NaN => \A x \in Arguments(n)' : Lower(x, at[n], at)
    BY <1>1, <1>4, <1>10 DEF Numbered
  <2>4. \A e \in DOMAIN at \cap OfType(AfterTypes)' :
          \A x \in DepsOf(e)' \cup UsesOf(e)' : Lower(x, at[e], at)
    BY <1>3, <1>5, <1>10 DEF Numbered
  <2> QED
    BY <2>1, <2>2, <2>3, <2>4, <1>10 DEF Numbered
<1>11. ASSUME NEW at, NEW len, NEW todo, Frames(at, len, todo) PROVE Frames(at, len, todo)'
  BY <1>2, <1>4, <1>7, <1>8, <1>9, <1>11 DEF Frames
<1>12. ASSUME NEW at, NEW todo, Loops(at, todo) PROVE Loops(at, todo)'
  BY <1>1, <1>4, <1>5, <1>6, <1>7, <1>12 DEF Loops, Awaits
<1>13. Jobs' = Jobs
  BY <1>1, <1>6 DEF Jobs
<1> QED
  BY <1>3, <1>10, <1>11, <1>12, <1>13 DEF Loop

(* The hooks of the module do not change the order of the others.          *)
Follows(u) == \A p, q \in DOMAIN u : p < q /\ {u[p], u[q]} \subseteq Things => InOrder(u[p], u[q])

LEMMA PutBefore ==
  ASSUME NEW R, NEW u \in Seq(R), NEW s \in Seq(R), Follows(u), Elems(s) \cap Things = {}
  PROVE  Follows(s \o u)
<1> DEFINE v == s \o u
<1>1. /\ Len(s) \in Nat /\ DOMAIN s = 1 .. Len(s) /\ Len(u) \in Nat /\ DOMAIN u = 1 .. Len(u)
  BY LenProperties
<1>2. /\ v \in Seq(R) /\ Len(v) = Len(s) + Len(u)
      /\ \A i \in 1 .. Len(s) + Len(u) : v[i] = IF i <= Len(s) THEN s[i] ELSE u[i - Len(s)]
  BY ConcatProperties
<1>3. DOMAIN v = 1 .. Len(s) + Len(u)
  BY <1>2, LenProperties
<1> HIDE DEF v
<1>4. ASSUME NEW p \in DOMAIN v, v[p] \in Things
      PROVE  p - Len(s) \in DOMAIN u /\ v[p] = u[p - Len(s)] /\ p \in Int
  <2>1. ~(p <= Len(s))
    BY <1>1, <1>2, <1>3, <1>4 DEF Elems
  <2> QED
    BY <1>1, <1>2, <1>3, <2>1
<1>5. ASSUME NEW p \in DOMAIN v, NEW q \in DOMAIN v, p < q, {v[p], v[q]} \subseteq Things
      PROVE  InOrder(v[p], v[q])
  <2>1. /\ p - Len(s) \in DOMAIN u /\ v[p] = u[p - Len(s)] /\ p \in Int
        /\ q - Len(s) \in DOMAIN u /\ v[q] = u[q - Len(s)] /\ q \in Int
    BY <1>4, <1>5
  <2>2. p - Len(s) < q - Len(s)
    BY <1>1, <1>5, <2>1
  <2> QED
    BY <1>5, <2>1, <2>2 DEF Follows
<1>6. Follows(v)
  BY <1>5 DEF Follows
<1> QED
  BY <1>6 DEF v

LEMMA PutBehind ==
  ASSUME NEW R, NEW u \in Seq(R), NEW s \in Seq(R), Follows(u), Elems(s) \cap Things = {}
  PROVE  Follows(u \o s)
<1> DEFINE v == u \o s
<1>1. /\ Len(s) \in Nat /\ DOMAIN s = 1 .. Len(s) /\ Len(u) \in Nat /\ DOMAIN u = 1 .. Len(u)
  BY LenProperties
<1>2. /\ v \in Seq(R) /\ Len(v) = Len(u) + Len(s)
      /\ \A i \in 1 .. Len(u) + Len(s) : v[i] = IF i <= Len(u) THEN u[i] ELSE s[i - Len(u)]
  BY ConcatProperties
<1>3. DOMAIN v = 1 .. Len(u) + Len(s)
  BY <1>2, LenProperties
<1> HIDE DEF v
<1>4. ASSUME NEW p \in DOMAIN v, v[p] \in Things PROVE p \in DOMAIN u /\ v[p] = u[p]
  <2>1. CASE p <= Len(u)
    BY <1>1, <1>2, <1>3, <2>1
  <2>2. CASE ~(p <= Len(u))
    <3>1. p - Len(u) \in DOMAIN s /\ v[p] = s[p - Len(u)]
      BY <1>1, <1>2, <1>3, <2>2
    <3> QED
      BY <1>4, <3>1 DEF Elems
  <2> QED
    BY <2>1, <2>2
<1>5. Follows(v)
  BY <1>4 DEF Follows
<1> QED
  BY <1>5 DEF v

LEMMA StartedSeq ==
  ASSUME Builder, NEW type
  PROVE  /\ Started(type) \in Seq(Things \cup ModuleHooks)
         /\ Elems(Started(type)) \cap Things = {}
<1>1. ModuleHooks \cap Things = {} /\ started = ModuleHooks
  BY Records, BuilderAssumption DEF Things, Builder, BuilderType
<1>2. CASE type \in started
  <2>1. Started(type) = <<type>> /\ Elems(<<type>>) = {type}
    BY <1>2, ElemsOne DEF Started
  <2> QED
    BY <1>1, <1>2, <2>1
<1>3. CASE type \notin started
  <2>1. Started(type) = <<>> /\ Elems(<<>>) = {}
    BY <1>3, ElemsEmpty DEF Started
  <2> QED
    BY <2>1
<1> QED
  BY <1>2, <1>3

LEMMA ElementsFollow ==
  ASSUME Builder, order.added \in Seq(Things)
  PROVE  /\ ModuleElements \in Seq(Things \cup ModuleHooks) /\ Follows(ModuleElements)
         /\ Elems(order.added) \subseteq Elems(ModuleElements)
         /\ Elems(ModuleElements) \cap Things \subseteq Elems(order.added)
<1> DEFINE R == Things \cup ModuleHooks
           A == order.added
           s1 == Started("onStart")
           s2 == Started("onSuccess")
           s3 == Started("onCompletion")
           u1 == s1 \o A
           u2 == u1 \o s2
           u3 == u2 \o s3
<1>1. A \in Seq(R) /\ Follows(A)
  <2>1. A \in Seq(R)
    BY SeqMonotonic
  <2> QED
    BY <2>1 DEF Follows, InOrder
<1>2. /\ s1 \in Seq(R) /\ s2 \in Seq(R) /\ s3 \in Seq(R)
      /\ Elems(s1) \cap Things = {} /\ Elems(s2) \cap Things = {} /\ Elems(s3) \cap Things = {}
  BY StartedSeq
<1>3. ModuleElements = u3
  BY DEF ModuleElements
<1> HIDE DEF s1, s2, s3, A, R
<1>4. u1 \in Seq(R) /\ Elems(u1) = Elems(s1) \cup Elems(A) /\ Follows(u1)
  BY <1>1, <1>2, ConcatProperties, ElemsConcat, PutBefore
<1> HIDE DEF u1
<1>5. u2 \in Seq(R) /\ Elems(u2) = Elems(u1) \cup Elems(s2) /\ Follows(u2)
  BY <1>2, <1>4, ConcatProperties, ElemsConcat, PutBehind
<1> HIDE DEF u2
<1>6. u3 \in Seq(R) /\ Elems(u3) = Elems(u2) \cup Elems(s3) /\ Follows(u3)
  BY <1>2, <1>5, ConcatProperties, ElemsConcat, PutBehind
<1> HIDE DEF u3
<1>7. /\ ModuleElements \in Seq(R) /\ Follows(ModuleElements)
      /\ Elems(A) \subseteq Elems(ModuleElements)
      /\ Elems(ModuleElements) \cap Things \subseteq Elems(A)
  BY <1>2, <1>3, <1>4, <1>5, <1>6
<1> QED
  BY <1>7 DEF A, R

(* A set of natural numbers up to some number has a highest one, and every *)
(* one has a lowest.                                                       *)
LEMMA HighestOf ==
  ASSUME NEW T, T # {}, NEW m \in Nat, T \subseteq 0 .. m
  PROVE  Highest(T) \in T /\ \A k \in T : k <= Highest(T)
<1> DEFINE D == {m - k : k \in T}
<1>1. D \subseteq Nat /\ D # {}
  <2>1. \A k \in T : m - k \in Nat
    OBVIOUS
  <2> QED
    BY <2>1
<1>2. PICK d \in D : \A l \in D : d <= l
  <2> HIDE DEF D
  <2> QED
    BY <1>1, LeastOf
<1>3. PICK h \in T : d = m - h
  BY <1>2
<1>4. \A k \in T : k <= h
  <2> TAKE k \in T
  <2>1. m - k \in D
    OBVIOUS
  <2>2. m - h <= m - k
    BY <1>2, <1>3, <2>1
  <2>3. h \in Nat /\ k \in Nat
    OBVIOUS
  <2> QED
    BY <2>2, <2>3
<1> QED
  BY <1>4 DEF Highest

LEMMA LowestOf ==
  ASSUME NEW T, T # {}, T \subseteq Nat
  PROVE  Lowest(T) \in T /\ \A k \in T : Lowest(T) <= k
<1>1. \E m \in T : \A k \in T : m <= k
  BY LeastOf
<1> QED
  BY <1>1 DEF Lowest

(* The order of distinct elements is a strict one.                         *)
LEMMA StrictOrder ==
  ASSUME order.added \in Seq(Things), Distinct(order.added)
  PROVE  /\ \A x : ~InOrder(x, x)
         /\ \A x, y : ~(InOrder(x, y) /\ InOrder(y, x))
         /\ \A x, y, z : InOrder(x, y) /\ InOrder(y, z) => InOrder(x, z)
<1> DEFINE A == order.added
<1>1. DOMAIN A \subseteq Nat
  BY LenProperties
<1>2. \A x, y, z : InOrder(x, y) /\ InOrder(y, z) => InOrder(x, z)
  <2> TAKE x, y, z
  <2> HAVE InOrder(x, y) /\ InOrder(y, z)
  <2>1. PICK i \in DOMAIN A, j \in DOMAIN A : i < j /\ A[i] = x /\ A[j] = y
    BY DEF InOrder
  <2>2. PICK k \in DOMAIN A, l \in DOMAIN A : k < l /\ A[k] = y /\ A[l] = z
    BY DEF InOrder
  <2>3. j = k
    BY <2>1, <2>2 DEF Distinct
  <2>4. i < l
    BY <1>1, <2>1, <2>2, <2>3
  <2> QED
    BY <2>1, <2>2, <2>4 DEF InOrder
<1>3. \A x : ~InOrder(x, x)
  <2> SUFFICES ASSUME NEW x, InOrder(x, x) PROVE FALSE
    OBVIOUS
  <2>1. PICK i \in DOMAIN A, j \in DOMAIN A : i < j /\ A[i] = x /\ A[j] = x
    BY DEF InOrder
  <2>2. i = j
    BY <2>1 DEF Distinct
  <2> QED
    BY <1>1, <2>1, <2>2
<1> QED
  BY <1>2, <1>3

(* An element that may be put into the k-th batch, and what this does.     *)
Fits(at, len, x, k) ==
  /\ x \in Elems(ModuleElements) /\ k \in {NaN} \cup 0 .. len
  /\ x \notin DOMAIN at \/ x \notin Things
  /\ x \notin Things => k = 0
  /\ k = NaN => x \in Bound /\ ForLibrary(x) /\ len > 0
  /\ x \in Bound /\ k # NaN => \A y \in Arguments(x) : Lower(y, k, at)
  /\ x \in OfType(AfterTypes) => \A y \in DepsOf(x) \cup UsesOf(x) : Lower(y, k, at)
Putting(at, len, x, k, at2, len2) ==
  /\ at2 = [y \in DOMAIN at \cup {x} |-> IF y = x THEN k ELSE at[y]]
  /\ len2 = IF k >= len THEN k + 1 ELSE len

LEMMA PutElement ==
  ASSUME Builder, NEW at, NEW len, Numbered(at, len), NEW x, NEW k, Fits(at, len, x, k),
         NEW at2, NEW len2, Putting(at, len, x, k, at2, len2)
  PROVE  Numbered(at2, len2) /\ len2 > 0 /\ len2 >= len
<1>0. /\ x \in Elems(ModuleElements) /\ k \in {NaN} \cup 0 .. len
      /\ x \notin DOMAIN at \/ x \notin Things
      /\ x \notin Things => k = 0
      /\ k = NaN => x \in Bound /\ ForLibrary(x) /\ len > 0
      /\ x \in Bound /\ k # NaN => \A y \in Arguments(x) : Lower(y, k, at)
      /\ x \in OfType(AfterTypes) => \A y \in DepsOf(x) \cup UsesOf(x) : Lower(y, k, at)
  BY DEF Fits
<1>1. /\ len \in Nat /\ \A y \in DOMAIN at : at[y] \in {NaN} \cup 0 .. len - 1
      /\ DOMAIN at \subseteq Elems(ModuleElements)
      /\ \A y \in DOMAIN at : /\ y \notin Things => at[y] = 0
                              /\ at[y] = NaN => y \in Bound /\ ForLibrary(y)
  BY DEF Numbered
<1>2. NaN \in Int /\ NaN < 0
  BY DEF NaN
<1>3. DOMAIN at2 = DOMAIN at \cup {x} /\ at2[x] = k /\ at2 = [y \in DOMAIN at2 |-> at2[y]]
  BY DEF Putting
<1>4. \A y \in DOMAIN at : at2[y] = at[y]
  BY <1>0, <1>1 DEF Putting
<1>5. /\ len2 \in Nat /\ len2 > 0 /\ len2 >= len /\ k \in {NaN} \cup 0 .. len2 - 1
      /\ \A l \in 0 .. len2 - 1 : l \in 0 .. len - 1 \/ l = k
  <2>1. CASE k = NaN
    BY <1>0, <1>1, <1>2, <2>1 DEF Putting
  <2>2. CASE k # NaN
    BY <1>0, <1>1, <1>2, <2>2 DEF Putting
  <2> QED
    BY <2>1, <2>2
<1>6. \A y, l : Lower(y, l, at) => Lower(y, l, at2)
  BY <1>3, <1>4 DEF Lower
<1> HIDE DEF NaN
<1>7. at2 \in [DOMAIN at2 -> {NaN} \cup 0 .. len2 - 1]
  <2>1. \A y \in DOMAIN at : at2[y] \in {NaN} \cup 0 .. len2 - 1
    <3>1. 0 .. len - 1 \subseteq 0 .. len2 - 1
      BY <1>1, <1>5
    <3> QED
      BY <1>1, <1>4, <3>1
  <2> QED
    BY <1>3, <1>5, <2>1
<1>8. ASSUME NEW l \in 0 .. len2 - 1 PROVE \E y \in DOMAIN at2 : at2[y] = l
  <2>1. CASE l = k
    BY <1>0, <1>3, <2>1
  <2>2. CASE l \in 0 .. len - 1
    <3>1. PICK y \in DOMAIN at : at[y] = l
      BY <2>2 DEF Numbered
    <3> QED
      BY <1>3, <1>4, <3>1
  <2> QED
    BY <1>5, <2>1, <2>2
<1>9. ASSUME NEW y \in DOMAIN at2
      PROVE  /\ y \notin Things => at2[y] = 0
             /\ at2[y] = NaN => y \in Bound /\ ForLibrary(y)
  <2>1. CASE y = x
    BY <1>0, <1>3, <2>1
  <2>2. CASE y # x
    BY <1>1, <1>3, <1>4, <2>2
  <2> QED
    BY <2>1, <2>2
<1>10. ASSUME NEW n \in DOMAIN at2 \cap Bound, at2[n] # NaN, NEW y \in Arguments(n)
       PROVE  Lower(y, at2[n], at2)
  <2>1. CASE n = x
    BY <1>0, <1>3, <1>6, <1>10, <2>1
  <2>2. CASE n # x
    BY <1>3, <1>4, <1>6, <1>10, <2>2 DEF Numbered
  <2> QED
    BY <2>1, <2>2
<1>11. ASSUME NEW e \in DOMAIN at2 \cap OfType(AfterTypes), NEW y \in DepsOf(e) \cup UsesOf(e)
       PROVE  Lower(y, at2[e], at2)
  <2>1. CASE e = x
    BY <1>0, <1>3, <1>6, <1>11, <2>1
  <2>2. CASE e # x
    BY <1>3, <1>4, <1>6, <1>11, <2>2 DEF Numbered
  <2> QED
    BY <2>1, <2>2
<1>12. Numbered(at2, len2)
  <2>1. len2 \in Nat /\ (len2 = 0 => DOMAIN at2 = {})
    BY <1>5
  <2>2. DOMAIN at2 \subseteq Elems(ModuleElements)
    BY <1>0, <1>1, <1>3
  <2>3. \A l \in 0 .. len2 - 1 : \E y \in DOMAIN at2 : at2[y] = l
    BY <1>8
  <2>4. \A y \in DOMAIN at2 : (y \notin Things => at2[y] = 0)
                              /\ (at2[y] = NaN => y \in Bound /\ ForLibrary(y))
    BY <1>9
  <2>5. \A n \in DOMAIN at2 \cap Bound :
          at2[n] # NaN => \A y \in Arguments(n) : Lower(y, at2[n], at2)
    BY <1>10
  <2>6. \A e \in DOMAIN at2 \cap OfType(AfterTypes) :
          \A y \in DepsOf(e) \cup UsesOf(e) : Lower(y, at2[e], at2)
    BY <1>11
  <2> QED
    BY <1>7, <2>1, <2>2, <2>3, <2>4, <2>5, <2>6, Zenon DEF Numbered
<1> QED
  BY <1>5, <1>12

(* What the head of the loops is replaced by: calls for contracts.         *)
LEMMA ReplaceJob ==
  ASSUME NEW at, NEW len, NEW T, Loop(at, len, T), T # <<>>,
         NEW u \in Seq(Jobs), \A i \in DOMAIN u : u[i].do = "handle", Frames(at, len, u),
         \A x : Head(T).of = x /\ Head(T).do \in {"element", "handle"} =>
                  x \in DOMAIN at \/ Awaits(u, {"element", "handle"}, x),
         \A x : IsLibrary(x) /\ Head(T).of = x /\ Head(T).do \in {"library", "handle"} =>
                  x \in DOMAIN at \/ Awaits(u, {"library", "handle"}, x),
         Head(T).do = "handle" =>
           /\ u # <<>>
           /\ \A n : InOrder(Head(T).of, n) => \A i \in DOMAIN u : InOrder(u[i].of, n)
  PROVE  Loop(at, len, u \o Tail(T))
<1>1. PICK U : U = u \o Tail(T)
  OBVIOUS
<1>2. T \in Seq(Jobs) /\ Frames(at, len, T) /\ Loops(at, T)
  BY DEF Loop
<1> DEFINE k == Len(u)
<1>3. /\ U \in Seq(Jobs) /\ Len(U) = Len(T) + k - 1
      /\ k \in Nat /\ Len(T) \in Nat /\ Len(T) > 0 /\ Head(T) = T[1]
      /\ DOMAIN U = 1 .. Len(U) /\ DOMAIN T = 1 .. Len(T) /\ DOMAIN u = 1 .. k
  BY <1>1, <1>2, Splice
<1>4. \A i \in DOMAIN u : i \in DOMAIN U /\ U[i] = u[i]
  BY <1>1, <1>2, Splice
<1>5. \A q \in DOMAIN T : q > 1 => q + k - 1 \in DOMAIN U /\ U[q + k - 1] = T[q]
  BY <1>1, <1>2, Splice
<1>6. \A j \in DOMAIN U : j \notin DOMAIN u =>
        j > k /\ j - k + 1 \in DOMAIN T /\ j - k + 1 > 1 /\ U[j] = T[j - k + 1]
  BY <1>1, <1>2, Splice
<1>7. u # <<>> => k > 0
  BY EmptySeq
<1> HIDE DEF k
<1>8. ASSUME NEW i \in DOMAIN U, U[i].do = "handle"
      PROVE  /\ U[i].of \notin DOMAIN at /\ U[i].k \in {NaN} \cup 0 .. len
             /\ \A x \in Arguments(U[i].of) :
                  U[i].k = NaN \/ x \in Elems(U[i].left) \/ Lower(x, U[i].k, at)
             /\ Elems(U[i].left) \subseteq Elems(Binding(U[i].of).args)
             /\ U[i].k = NaN => ForLibrary(U[i].of)
             /\ ForLibrary(U[i].of) \/ IsLibrary(U[i].of) \/ Arguments(U[i].of) \subseteq DOMAIN at
             /\ \A j \in DOMAIN U : j < i => U[j].do = "handle" /\ InOrder(U[j].of, U[i].of)
             /\ i = 1 /\ len = 0 => U[i].k # NaN
  <2>1. CASE i \in DOMAIN u
    <3>1. U[i] = u[i] /\ \A j \in DOMAIN U : j < i => j \in DOMAIN u /\ U[j] = u[j]
      BY <1>3, <1>4, <2>1
    <3> QED
      BY <1>8, <2>1, <3>1 DEF Frames
  <2>2. CASE i \notin DOMAIN u
    <3> DEFINE p == i - k + 1
    <3>1. p \in DOMAIN T /\ p > 1 /\ U[i] = T[p] /\ i > k /\ p \in Nat
      BY <1>3, <1>6, <2>2
    <3>2. 1 \in DOMAIN T /\ 1 < p
      BY <1>3, <3>1
    <3>3. T[1].do = "handle" /\ InOrder(T[1].of, T[p].of)
      BY <1>2, <1>8, <3>1, <3>2 DEF Frames
    <3>4. i # 1
      BY <1>3, <1>7, <3>1, <3>3
    <3>5. ASSUME NEW j \in DOMAIN U, j < i PROVE U[j].do = "handle" /\ InOrder(U[j].of, U[i].of)
      <4>1. CASE j \in DOMAIN u
        BY <1>3, <1>4, <3>1, <3>3, <4>1
      <4>2. CASE j \notin DOMAIN u
        <5> DEFINE q == j - k + 1
        <5>1. q \in DOMAIN T /\ U[j] = T[q]
          BY <1>6, <4>2
        <5>2. q < p
          BY <1>3, <3>5
        <5> HIDE DEF q, p
        <5> QED
          BY <1>2, <1>8, <3>1, <5>1, <5>2 DEF Frames
      <4> QED
        BY <4>1, <4>2
    <3> HIDE DEF p
    <3> QED
      BY <1>2, <1>8, <3>1, <3>4, <3>5 DEF Frames
  <2> QED
    BY <2>1, <2>2
<1>9. Frames(at, len, U)
  BY <1>8 DEF Frames
<1>10. ASSUME NEW x, NEW dos, Awaits(T, dos, x),
              T[1].of = x /\ T[1].do \in dos => x \in DOMAIN at \/ Awaits(u, dos, x)
       PROVE  x \in DOMAIN at \/ Awaits(U, dos, x)
  <2>1. PICK i \in DOMAIN T : T[i].of = x /\ T[i].do \in dos
    BY <1>10 DEF Awaits
  <2>2. CASE i = 1
    BY <1>4, <1>10, <2>1, <2>2 DEF Awaits
  <2>3. CASE i # 1
    <3>1. i > 1
      BY <1>3, <2>3
    <3> QED
      BY <1>5, <2>1, <3>1 DEF Awaits
  <2> QED
    BY <2>2, <2>3
<1>11. \A x \in Elems(ModuleElements) : x \in DOMAIN at \/ Awaits(U, {"element", "handle"}, x)
  BY <1>2, <1>3, <1>10 DEF Loops
<1>12. \A x \in Bound : IsLibrary(x) => x \in DOMAIN at \/ Awaits(U, {"library", "handle"}, x)
  BY <1>2, <1>3, <1>10 DEF Loops
<1>13. ASSUME NEW i \in DOMAIN U, U[i].do = "element"
       PROVE  i \notin DOMAIN u
  BY <1>4, <1>13
<1>14. ASSUME NEW i \in DOMAIN U, NEW j \in DOMAIN U, i < j, U[i].do = "element"
       PROVE  /\ U[j].do = "element"
              /\ {U[i].of, U[j].of} \subseteq Things => InOrder(U[i].of, U[j].of)
  <2>1. i \notin DOMAIN u /\ j \notin DOMAIN u
    BY <1>3, <1>13, <1>14
  <2>2. /\ i - k + 1 \in DOMAIN T /\ U[i] = T[i - k + 1]
        /\ j - k + 1 \in DOMAIN T /\ U[j] = T[j - k + 1] /\ i - k + 1 < j - k + 1
    BY <1>3, <1>6, <1>14, <2>1
  <2> QED
    BY <1>2, <1>14, <2>2 DEF Loops
<1>15. ASSUME NEW i \in DOMAIN U, U[i].do = "element", U[i].of \in Hooked
       PROVE  U[i].of \notin DOMAIN at
  <2>1. i - k + 1 \in DOMAIN T /\ U[i] = T[i - k + 1]
    BY <1>6, <1>13, <1>15
  <2> QED
    BY <1>2, <1>15, <2>1 DEF Loops
<1>16. Loops(at, U)
  BY <1>11, <1>12, <1>14, <1>15 DEF Loops
<1>17. Loop(at, len, U)
  BY <1>3, <1>9, <1>16 DEF Loop
<1> QED
  BY <1>1, <1>17

LEMMA TailOf ==
  ASSUME NEW S, NEW T \in Seq(S), T # <<>>, NEW U, U = Tail(T)
  PROVE  /\ U \in Seq(S) /\ 1 \in DOMAIN T /\ Head(T) = T[1] /\ DOMAIN T \subseteq Nat \ {0}
         /\ DOMAIN U \subseteq Nat \ {0}
         /\ \A i \in DOMAIN U : i + 1 \in DOMAIN T /\ U[i] = T[i + 1]
         /\ \A q \in DOMAIN T : q > 1 => q - 1 \in DOMAIN U /\ U[q - 1] = T[q]
<1>1. Len(T) \in Nat /\ Len(T) > 0 /\ DOMAIN T = 1 .. Len(T)
  BY LenProperties, EmptySeq
<1>2. U \in Seq(S) /\ Len(U) = Len(T) - 1 /\ \A i \in 1 .. Len(U) : U[i] = T[i + 1]
  BY HeadTailProperties
<1>3. DOMAIN U = 1 .. Len(T) - 1
  BY <1>2, LenProperties
<1>4. ASSUME NEW i \in DOMAIN U PROVE i + 1 \in DOMAIN T /\ U[i] = T[i + 1]
  BY <1>1, <1>2, <1>3
<1>5. ASSUME NEW q \in DOMAIN T, q > 1 PROVE q - 1 \in DOMAIN U /\ U[q - 1] = T[q]
  <2>1. q - 1 \in 1 .. Len(U) /\ (q - 1) + 1 = q
    BY <1>1, <1>2, <1>5
  <2> QED
    BY <2>1, <1>2, <1>3
<1>6. Head(T) = T[1]
  OBVIOUS
<1> QED
  BY <1>1, <1>2, <1>3, <1>4, <1>5, <1>6

(* What the head of the loops is replaced by: nothing, its element has a   *)
(* batch now.                                                              *)
LEMMA PutJob ==
  ASSUME Builder, order.added \in Seq(Things), Distinct(order.added),
         NEW at, NEW len, NEW T, Loop(at, len, T), T # <<>>,
         NEW x, Head(T).of = x, Head(T).do = "handle" \/ (Head(T).do = "element" /\ x \notin Bound),
         NEW at2, NEW len2, Numbered(at2, len2), len2 > 0, len2 >= len,
         DOMAIN at2 = DOMAIN at \cup {x}, \A y \in DOMAIN at : at2[y] = at[y]
  PROVE  Loop(at2, len2, Tail(T))
<1>1. PICK U : U = Tail(T)
  OBVIOUS
<1>2. /\ T \in Seq(Jobs) /\ Frames(at, len, T) /\ Loops(at, T)
      /\ len \in Nat /\ len2 \in Nat
  BY DEF Loop, Numbered
<1>3. /\ U \in Seq(Jobs) /\ 1 \in DOMAIN T /\ Head(T) = T[1] /\ DOMAIN T \subseteq Nat \ {0}
      /\ DOMAIN U \subseteq Nat \ {0}
      /\ \A i \in DOMAIN U : i + 1 \in DOMAIN T /\ U[i] = T[i + 1]
      /\ \A q \in DOMAIN T : q > 1 => q - 1 \in DOMAIN U /\ U[q - 1] = T[q]
  BY <1>1, <1>2, TailOf
<1>4. \A y : ~InOrder(y, y)
  BY StrictOrder
<1>5. Hooked \cap Bound = {}
  BY Records
<1>6. \A y, l : Lower(y, l, at) => Lower(y, l, at2)
  BY DEF Lower
<1>7. ASSUME NEW i \in DOMAIN U, U[i].do = "handle"
      PROVE  /\ U[i].of \notin DOMAIN at2 /\ U[i].k \in {NaN} \cup 0 .. len2
             /\ \A y \in Arguments(U[i].of) :
                  U[i].k = NaN \/ y \in Elems(U[i].left) \/ Lower(y, U[i].k, at2)
             /\ Elems(U[i].left) \subseteq Elems(Binding(U[i].of).args)
             /\ U[i].k = NaN => ForLibrary(U[i].of)
             /\ ForLibrary(U[i].of) \/ IsLibrary(U[i].of) \/ Arguments(U[i].of) \subseteq DOMAIN at2
             /\ \A j \in DOMAIN U : j < i => U[j].do = "handle" /\ InOrder(U[j].of, U[i].of)
             /\ i = 1 /\ len2 = 0 => U[i].k # NaN
  <2> DEFINE p == i + 1
  <2>1. p \in DOMAIN T /\ T[p] = U[i] /\ 1 < p
    BY <1>3
  <2>2. \A j \in DOMAIN U : j < i => j + 1 \in DOMAIN T /\ T[j + 1] = U[j] /\ j + 1 < p
    BY <1>3
  <2> HIDE DEF p
  <2>3. /\ U[i].of \notin DOMAIN at /\ U[i].k \in {NaN} \cup 0 .. len
        /\ \A y \in Arguments(U[i].of) :
             U[i].k = NaN \/ y \in Elems(U[i].left) \/ Lower(y, U[i].k, at)
        /\ Elems(U[i].left) \subseteq Elems(Binding(U[i].of).args)
        /\ U[i].k = NaN => ForLibrary(U[i].of)
        /\ ForLibrary(U[i].of) \/ IsLibrary(U[i].of) \/ Arguments(U[i].of) \subseteq DOMAIN at
        /\ \A j \in DOMAIN T : j < p => T[j].do = "handle" /\ InOrder(T[j].of, U[i].of)
    BY <1>2, <1>7, <2>1 DEF Frames
  <2>4. U[i].of # x
    BY <1>3, <1>4, <2>1, <2>3
  <2>5. U[i].k \in {NaN} \cup 0 .. len2
    BY <1>2, <2>3
  <2>6. ~(len2 = 0)
    BY <1>2
  <2> QED
    BY <1>6, <2>2, <2>3, <2>4, <2>5, <2>6
<1>8. Frames(at2, len2, U)
  BY <1>7 DEF Frames
<1>9. ASSUME NEW y, NEW dos, Awaits(T, dos, y) PROVE y \in DOMAIN at2 \/ Awaits(U, dos, y)
  <2>1. PICK i \in DOMAIN T : T[i].of = y /\ T[i].do \in dos
    BY <1>9 DEF Awaits
  <2>2. CASE i = 1
    BY <1>3, <2>1, <2>2
  <2>3. CASE i # 1
    <3>1. i > 1
      BY <1>3, <2>3
    <3> QED
      BY <1>3, <2>1, <3>1 DEF Awaits
  <2> QED
    BY <2>2, <2>3
<1>10. \A y \in Elems(ModuleElements) : y \in DOMAIN at2 \/ Awaits(U, {"element", "handle"}, y)
  BY <1>2, <1>9 DEF Loops
<1>11. \A y \in Bound : IsLibrary(y) => y \in DOMAIN at2 \/ Awaits(U, {"library", "handle"}, y)
  BY <1>2, <1>9 DEF Loops
<1>12. ASSUME NEW i \in DOMAIN U, NEW j \in DOMAIN U, i < j, U[i].do = "element"
       PROVE  /\ U[j].do = "element"
              /\ {U[i].of, U[j].of} \subseteq Things => InOrder(U[i].of, U[j].of)
  <2>1. /\ i + 1 \in DOMAIN T /\ U[i] = T[i + 1] /\ j + 1 \in DOMAIN T /\ U[j] = T[j + 1]
        /\ i + 1 < j + 1
    BY <1>3, <1>12
  <2> QED
    BY <1>2, <1>12, <2>1 DEF Loops
<1>13. ASSUME NEW i \in DOMAIN U, U[i].do = "element", U[i].of \in Hooked
       PROVE  U[i].of \notin DOMAIN at2
  <2>1. i + 1 \in DOMAIN T /\ U[i] = T[i + 1] /\ 1 < i + 1
    BY <1>3
  <2>2. U[i].of \notin DOMAIN at
    BY <1>2, <1>13, <2>1 DEF Loops
  <2>3. U[i].of # x
    <3>1. CASE T[1].do = "handle"
      <4>1. T[1] \in Jobs
        BY <1>2, <1>3, ElementOfSeq, LenProperties
      <4>2. x \in Bound
        BY <1>3, <3>1, <4>1 DEF Jobs
      <4> QED
        BY <1>5, <1>13, <4>2
    <3>2. CASE T[1].do = "element"
      <4>1. {T[1].of, T[i + 1].of} \subseteq Things => InOrder(T[1].of, T[i + 1].of)
        BY <1>2, <1>3, <2>1, <3>2 DEF Loops
      <4> QED
        BY <1>3, <1>4, <1>13, <2>1, <4>1 DEF Things
    <3> QED
      BY <1>3, <3>1, <3>2
  <2> QED
    BY <2>2, <2>3
<1>14. Loops(at2, U)
  BY <1>10, <1>11, <1>12, <1>13 DEF Loops
<1> QED
  BY <1>1, <1>3, <1>8, <1>14 DEF Loop

(* The arguments of a contract are contracts it needs.                     *)
LEMMA ArgumentsOf ==
  ASSUME Builder, NEW n \in Bound
  PROVE  /\ Binding(n).args \in Seq(Names \cup Literals)
         /\ Elems(Binding(n).args) \subseteq Bound \cup Literals
         /\ Arguments(n) = Elems(Binding(n).args) \cap Bound
         /\ Arguments(n) \subseteq Required(n)
<1>1. PICK i \in DOMAIN bindings : bindings[i] = Binding(n) /\ Binding(n).name = n
  BY Records
<1>2. Binding(n) \in BindingRecords
  BY <1>1, Records
<1>3. /\ Binding(n).args \in Seq(Names \cup Literals) /\ Binding(n).deps \in Seq(Names)
      /\ Binding(n).contract \in ContractNames
  BY <1>2 DEF BindingRecords
<1>4. Elems(Binding(n).args) \subseteq Bound \cup Literals
  BY <1>1 DEF Builder, OnlyDeclared
<1>5. Arguments(n) = Elems(Binding(n).args) \cap Bound
  BY <1>4, Records, BuilderAssumption DEF Arguments, OnBindings
<1>6. Elems(Binding(n).args) \subseteq Elems(Needs(n))
  <2> DEFINE R == Names \cup Literals
             s1 == Binding(n).args
             s2 == Libraries[Binding(n).contract]
             s3 == Binding(n).deps
             s12 == s1 \o s2
  <2>1. s1 \in Seq(R) /\ s2 \in Seq(R) /\ s3 \in Seq(R)
    <3>1. s2 \in Seq(Names)
      BY <1>3, BuilderAssumption
    <3> QED
      BY <1>3, <3>1, SeqMonotonic
  <2>2. Needs(n) = s12 \o s3
    BY DEF Needs
  <2> HIDE DEF R, s1, s2, s3
  <2>3. s12 \in Seq(R) /\ Elems(s12) = Elems(s1) \cup Elems(s2)
    BY <2>1, ConcatProperties, ElemsConcat
  <2> HIDE DEF s12
  <2>4. Elems(s12 \o s3) = Elems(s12) \cup Elems(s3)
    BY <2>1, <2>3, ElemsConcat
  <2>5. Elems(s1) \subseteq Elems(Needs(n))
    BY <2>2, <2>3, <2>4
  <2> QED
    BY <2>5 DEF s1
<1> QED
  BY <1>3, <1>4, <1>5, <1>6 DEF Required

(* The loop over all elements finds a batch for whatever comes before.     *)
LEMMA BeforeHead ==
  ASSUME Builder, order.added \in Seq(Things), Distinct(order.added),
         NEW at, NEW len, NEW T, Loop(at, len, T), T # <<>>, Head(T).do = "element"
  PROVE  /\ \A y : InOrder(y, Head(T).of) => y \in DOMAIN at
         /\ \A n \in Bound : IsLibrary(n) => n \in DOMAIN at
         /\ Head(T).of \in Elems(ModuleElements)
<1>1. /\ T \in Seq(Jobs) /\ Frames(at, len, T) /\ Loops(at, T)
      /\ 1 \in DOMAIN T /\ Head(T) = T[1] /\ DOMAIN T \subseteq Nat \ {0}
  BY TailOf DEF Loop
<1>2. \A i \in DOMAIN T : T[i].do = "element"
  <2> TAKE i \in DOMAIN T
  <2>1. i = 1 \/ 1 < i
    BY <1>1
  <2> QED
    BY <1>1, <2>1 DEF Loops
<1>3. ASSUME NEW n \in Bound, IsLibrary(n) PROVE n \in DOMAIN at
  BY <1>1, <1>2, <1>3 DEF Loops, Awaits
<1>4. ASSUME NEW y, InOrder(y, T[1].of) PROVE y \in DOMAIN at
  <2>1. y \in Elems(order.added) /\ T[1].of \in Elems(order.added)
    BY <1>4 DEF InOrder, Elems
  <2>2. y \in Things /\ T[1].of \in Things /\ y \in Elems(ModuleElements)
    BY <2>1, ElemsOf, ElementsFollow
  <2>3. y \in DOMAIN at \/ Awaits(T, {"element", "handle"}, y)
    BY <1>1, <2>2 DEF Loops
  <2>4. ASSUME NEW i \in DOMAIN T, T[i].of = y PROVE FALSE
    <3>1. CASE i = 1
      BY <1>4, <2>4, <3>1, StrictOrder
    <3>2. CASE i # 1
      <4>1. 1 < i
        BY <1>1, <3>2
      <4>2. InOrder(T[1].of, y)
        BY <1>1, <1>2, <2>2, <2>4, <4>1 DEF Loops
      <4> QED
        BY <1>4, <4>2, StrictOrder
    <3> QED
      BY <3>1, <3>2
  <2> QED
    BY <2>3, <2>4 DEF Awaits
<1>5. T[1].of \in Elems(ModuleElements)
  <2>1. T[1] \in Jobs
    BY <1>1, ElementOfSeq, LenProperties
  <2> QED
    BY <1>1, <2>1 DEF Jobs
<1> QED
  BY <1>1, <1>3, <1>4, <1>5

(* The steps of the loops.                                                 *)
LEMMA InTheLoops ==
  ASSUME Builder, Order, Batches, outcome = "batching"
  PROVE  /\ Loop(batches.at, batches.len, batches.todo) /\ batches.todo \in Seq(Jobs)
         /\ batches.todo # <<>> => Current \in Jobs
         /\ order.added \in Seq(Things) /\ Distinct(order.added)
         /\ \A x \in Elems(order.added) : \A y \in Required(x) : InOrder(y, x)
         /\ Bound \subseteq Elems(order.added)
         /\ Elems(order.added) \subseteq Elems(ModuleElements)
         /\ Elems(ModuleElements) \cap Things \subseteq Elems(order.added)
<1>1. Loop(batches.at, batches.len, batches.todo) /\ batches.todo \in Seq(Jobs)
  BY DEF Batches, Looping, Loop
<1>2. batches.todo # <<>> => Current \in Jobs
  BY <1>1, HeadTailProperties DEF Current
<1>3. /\ order.added \in Seq(Things) /\ Distinct(order.added)
      /\ \A x \in Elems(order.added) : \A y \in Required(x) : InOrder(y, x)
      /\ Bound \subseteq Elems(order.added)
  BY Arranged DEF Walked
<1> QED
  BY <1>1, <1>2, <1>3, ElementsFollow

LEMMA Gone ==
  ASSUME Batches, outcome = "batching", NEW u, Go(u),
         Loop(batches.at, batches.len, u \o Tail(batches.todo))
  PROVE  Batches'
<1>1. PICK U : U = u \o Tail(batches.todo)
  OBVIOUS
<1>2. batches' = [batches EXCEPT !.todo = U] /\ UNCHANGED <<builder, order>>
  BY <1>1 DEF Go
<1>3. /\ batches' = [at |-> batches.at, len |-> batches.len, err |-> batches.err, todo |-> U]
      /\ UNCHANGED <<bindings, events, started, order, outcome>>
  BY <1>2 DEF Batches, builder
<1>4. Loop(batches.at, batches.len, U)
  BY <1>1
<1>5. Loop(batches.at, batches.len, U)'
  <2>1. PICK at, len : at = batches.at /\ len = batches.len
    OBVIOUS
  <2>2. Loop(at, len, U)'
    BY <1>3, <1>4, <2>1, FrozenLoop
  <2> QED
    BY <1>3, <2>1, <2>2
<1>6. OrderCanBeBatched'
  BY <1>3 DEF OrderCanBeBatched
<1>7. /\ batches'.at = batches.at /\ batches'.len = batches.len /\ batches'.todo = U
      /\ batches'.err = batches.err /\ outcome' = "batching"
  BY <1>3
<1> QED
  BY <1>3, <1>5, <1>6, <1>7 DEF Batches, Looping

LEMMA PutStep ==
  ASSUME Builder, Order, Batches, outcome = "batching", batches.todo # <<>>,
         NEW x, Current.of = x, Current.do = "handle" \/ (Current.do = "element" /\ x \notin Bound),
         NEW k, Fits(batches.at, batches.len, x, k), Put(x, k)
  PROVE  Batches'
<1>1. PICK at, len, T : at = batches.at /\ len = batches.len /\ T = batches.todo
  OBVIOUS
<1>2. /\ Loop(at, len, T) /\ T # <<>> /\ Head(T) = Current
      /\ order.added \in Seq(Things) /\ Distinct(order.added)
  BY <1>1, InTheLoops DEF Current
<1>3. PICK at2 : at2 = [y \in DOMAIN at \cup {x} |-> IF y = x THEN k ELSE at[y]]
  OBVIOUS
<1>4. PICK len2 : len2 = IF k >= len THEN k + 1 ELSE len
  OBVIOUS
<1>5. Numbered(at, len) /\ Fits(at, len, x, k) /\ Putting(at, len, x, k, at2, len2)
  BY <1>1, <1>2, <1>3, <1>4 DEF Loop, Putting
<1>6. /\ Numbered(at2, len2) /\ len2 > 0 /\ len2 >= len
      /\ DOMAIN at2 = DOMAIN at \cup {x} /\ \A y \in DOMAIN at : at2[y] = at[y]
  <2>1. Builder
    OBVIOUS
  <2>2. Numbered(at2, len2)
    BY <1>5, <2>1, PutElement
  <2>3. len2 > 0 /\ len2 >= len
    BY <1>5, <2>1, PutElement
  <2>4. DOMAIN at2 = DOMAIN at \cup {x}
    BY <1>3
  <2>5. ASSUME NEW y \in DOMAIN at PROVE at2[y] = at[y]
    <3>1. y = x => x \notin Things /\ k = 0 /\ at[x] = 0
      BY <1>5, <2>5 DEF Fits, Numbered
    <3> QED
      BY <1>3, <2>5, <3>1
  <2> QED
    BY <2>2, <2>3, <2>4, <2>5
<1>7. PICK U : U = Tail(T)
  OBVIOUS
<1>8. Loop(at2, len2, U)
  BY <1>2, <1>6, <1>7, PutJob
<1>9. /\ batches' = [batches EXCEPT !.at = at2, !.len = len2, !.todo = U]
      /\ UNCHANGED <<builder, order>>
  BY <1>1, <1>3, <1>4, <1>7 DEF Put, Batched
<1>10. /\ batches' = [at |-> at2, len |-> len2, err |-> batches.err, todo |-> U]
       /\ UNCHANGED <<bindings, events, started, order, outcome>>
  BY <1>9 DEF Batches, builder
<1>11. /\ batches'.at = at2 /\ batches'.len = len2 /\ batches'.todo = U
       /\ batches'.err = batches.err /\ outcome' = "batching"
  BY <1>10
<1>12. Loop(at2, len2, U)'
  BY <1>8, <1>10, FrozenLoop
<1>13. Loop(batches.at, batches.len, batches.todo)'
  BY <1>11, <1>12
<1>14. OrderCanBeBatched'
  BY <1>11 DEF OrderCanBeBatched
<1> QED
  BY <1>10, <1>11, <1>13, <1>14 DEF Batches, Looping

LEMMA SkipStep ==
  ASSUME Builder, Order, Batches, Skip
  PROVE  Batches'
<1> DEFINE T == batches.todo
           at == batches.at
           len == batches.len
<1>1. /\ outcome = "batching" /\ T # <<>> /\ Go(<<>>)
      /\ \/ Current.do = "library" /\ (~IsLibrary(Current.of) \/ Current.of \in Batched)
         \/ Current.do = "element" /\ Current.of \in Batched
  BY DEF Skip, Waiting
<1>2. Loop(at, len, T)
  BY <1>1, InTheLoops
<1>3. <<>> \in Seq(Jobs) /\ DOMAIN <<>> = {}
  OBVIOUS
<1>4. Frames(at, len, <<>>)
  BY <1>3 DEF Frames
<1>5. Loop(at, len, <<>> \o Tail(T))
  <2>1. \A x : Head(T).of = x /\ Head(T).do \in {"element", "handle"} => x \in DOMAIN at
    BY <1>1 DEF Current, Batched
  <2>2. \A x : IsLibrary(x) /\ Head(T).of = x /\ Head(T).do \in {"library", "handle"} =>
          x \in DOMAIN at
    BY <1>1 DEF Current, Batched
  <2>3. Head(T).do # "handle"
    BY <1>1 DEF Current
  <2> HIDE DEF T, at, len
  <2> QED
    BY <1>1, <1>2, <1>3, <1>4, <2>1, <2>2, <2>3, ReplaceJob
<1> QED
  BY <1>1, <1>5, Gone

(* A contract is met in one of the loops.                                  *)
LEMMA ContractCall ==
  ASSUME Builder, Order, Batches, Library1 \/ Contract1
  PROVE  Batches'
<1> DEFINE T == batches.todo
           at == batches.at
           len == batches.len
           n == Current.of
<1>1. PICK k : Go(<<HandleElement(n, k)>>) /\ k = IF Library1 THEN 0 ELSE From
  BY DEF Library1, Contract1
<1>2. /\ outcome = "batching" /\ T # <<>> /\ n \notin Batched /\ n \in Bound
      /\ \/ Current.do = "library" /\ IsLibrary(n) /\ Library1
         \/ Current.do = "element" /\ ~Library1
  BY DEF Library1, Contract1, Waiting, IsLibrary
<1>3. /\ Loop(at, len, T) /\ order.added \in Seq(Things) /\ Distinct(order.added)
      /\ \A x \in Elems(order.added) : \A y \in Required(x) : InOrder(y, x)
      /\ Bound \subseteq Elems(order.added)
  BY <1>2, InTheLoops
<1>4. PICK u : u = <<HandleElement(n, k)>>
  OBVIOUS
<1>5. Binding(n).args \in Seq(Names \cup Literals) /\ Arguments(n) \subseteq Elems(Binding(n).args)
  BY <1>2, ArgumentsOf
<1>6. len \in Nat /\ k \in Nat /\ k \in 0 .. len
  <2>1. len \in Nat /\ (len = 0 => DOMAIN at = {})
    BY <1>3 DEF Loop, Numbered
  <2>2. ASSUME ~Library1, \E x \in Elems(order.added) : IsLibrary(x) PROVE len # 0
    <3>1. PICK x \in Bound : IsLibrary(x)
      BY <2>2 DEF IsLibrary
    <3>2. x \in DOMAIN at
      BY <1>2, <1>3, <2>2, <3>1, BeforeHead DEF Current
    <3> QED
      BY <2>1, <3>2
  <2>3. k \in {0, 1} /\ (k = 1 => ~Library1 /\ \E x \in Elems(order.added) : IsLibrary(x))
    BY <1>1 DEF From
  <2> QED
    BY <2>1, <2>2, <2>3
<1>7. IsLibrary(n) \/ Arguments(n) \subseteq DOMAIN at
  <2>1. ASSUME Current.do = "element", NEW y \in Arguments(n) PROVE y \in DOMAIN at
    <3>1. InOrder(y, n)
      BY <1>2, <1>3, <2>1, ArgumentsOf
    <3> QED
      BY <1>2, <1>3, <2>1, <3>1, BeforeHead DEF Current
  <2> QED
    BY <1>2, <2>1
<1>8. /\ u \in Seq(Jobs) /\ DOMAIN u = {1} /\ u[1] = HandleElement(n, k)
  <2>1. HandleElement(n, k) \in Jobs
    BY <1>2, <1>5, <1>6 DEF HandleElement, Jobs
  <2> QED
    BY <1>4, <2>1
<1>9. /\ u[1].do = "handle" /\ u[1].of = n /\ u[1].k = k /\ u[1].left = Binding(n).args
  BY <1>8 DEF HandleElement
<1>10. k # NaN
  BY <1>6 DEF NaN
<1>11. Frames(at, len, u)
  BY <1>2, <1>5, <1>6, <1>7, <1>8, <1>9, <1>10 DEF Frames, Batched
<1>12. Loop(at, len, u \o Tail(T))
  <2>1. \A x, dos : Head(T).of = x /\ "handle" \in dos => Awaits(u, dos, x)
    BY <1>8, <1>9 DEF Awaits, Current
  <2>2. Head(T).do # "handle"
    BY <1>2 DEF Current
  <2> HIDE DEF T, at, len, n
  <2> QED
    BY <1>2, <1>3, <1>8, <1>9, <1>11, <2>1, <2>2, ReplaceJob
<1> QED
  BY <1>1, <1>2, <1>4, <1>12, Gone

(* The entry of a contract and what is known of it.                        *)
LEMMA AtHead ==
  ASSUME Builder, Order, Batches, Waiting("handle")
  PROVE  /\ outcome = "batching" /\ batches.todo # <<>> /\ Current.do = "handle"
         /\ Current.of \in Bound /\ Current.left \in Seq(Names \cup Literals)
         /\ Current.k \in {NaN} \cup 0 .. batches.len /\ batches.len \in Nat
         /\ Current.of \notin Batched
         /\ \A y \in Arguments(Current.of) :
              Current.k = NaN \/ y \in Elems(Current.left) \/ Lower(y, Current.k, batches.at)
         /\ Elems(Current.left) \subseteq Elems(Binding(Current.of).args)
         /\ Current.k = NaN => ForLibrary(Current.of)
         /\ \/ ForLibrary(Current.of) \/ IsLibrary(Current.of)
            \/ Arguments(Current.of) \subseteq Batched
         /\ batches.len = 0 => Current.k # NaN
         /\ Current = [do |-> "handle", of |-> Current.of, left |-> Current.left, k |-> Current.k]
<1>1. outcome = "batching" /\ batches.todo # <<>> /\ Current.do = "handle"
  BY DEF Waiting
<1>2. /\ Loop(batches.at, batches.len, batches.todo) /\ batches.todo \in Seq(Jobs)
      /\ Current \in Jobs
  BY <1>1, InTheLoops
<1>3. 1 \in DOMAIN batches.todo /\ batches.todo[1] = Current
  BY <1>1, <1>2, TailOf DEF Current
<1>4. Frames(batches.at, batches.len, batches.todo) /\ batches.len \in Nat
  BY <1>2 DEF Loop, Numbered
<1>5. /\ Current.of \in Bound /\ Current.left \in Seq(Names \cup Literals)
      /\ Current = [do |-> "handle", of |-> Current.of, left |-> Current.left, k |-> Current.k]
  BY <1>1, <1>2 DEF Jobs
<1> QED
  BY <1>1, <1>3, <1>4, <1>5 DEF Frames, Batched

LEMMA HandleArgumentStep ==
  ASSUME Builder, Order, Batches, HandleArgument
  PROVE  Batches'
<1> DEFINE T == batches.todo
           at == batches.at
           len == batches.len
           n == Current.of
           left == Tail(Current.left)
<1>1. /\ Waiting("handle") /\ Current.left # <<>>
      /\ \/ Argument \notin Bound /\ Go(<<Later(Current.k)>>)
         \/ /\ Argument \in Bound \cap Batched
            /\ Go(<<Later(After(Current.k, at[Argument]))>>)
         \/ /\ Argument \in Bound \ Batched
            /\ Go(<<HandleElement(Argument, Current.k), Later(NaN)>>)
  BY DEF HandleArgument
<1>2. /\ outcome = "batching" /\ T # <<>> /\ Current.do = "handle"
      /\ n \in Bound /\ Current.left \in Seq(Names \cup Literals)
      /\ Current.k \in {NaN} \cup 0 .. len /\ len \in Nat /\ n \notin Batched
      /\ \A y \in Arguments(n) : Current.k = NaN \/ y \in Elems(Current.left) \/ Lower(y, Current.k, at)
      /\ Elems(Current.left) \subseteq Elems(Binding(n).args)
      /\ Current.k = NaN => ForLibrary(n)
      /\ ForLibrary(n) \/ IsLibrary(n) \/ Arguments(n) \subseteq Batched
      /\ len = 0 => Current.k # NaN
      /\ Current = [do |-> "handle", of |-> n, left |-> Current.left, k |-> Current.k]
  BY <1>1, AtHead
<1>3. /\ Loop(at, len, T) /\ order.added \in Seq(Things) /\ Distinct(order.added)
      /\ \A x \in Elems(order.added) : \A y \in Required(x) : InOrder(y, x)
      /\ Bound \subseteq Elems(order.added) /\ Numbered(at, len)
  BY <1>2, InTheLoops DEF Loop
<1>4. /\ left \in Seq(Names \cup Literals) /\ Argument \in Elems(Current.left)
      /\ Elems(left) \subseteq Elems(Current.left)
      /\ \A y \in Elems(Current.left) : y = Argument \/ y \in Elems(left)
  <2>1. PICK L : L = Current.left
    OBVIOUS
  <2>2. PICK U : U = Tail(L)
    OBVIOUS
  <2>3. /\ U \in Seq(Names \cup Literals) /\ 1 \in DOMAIN L /\ Head(L) = L[1]
        /\ DOMAIN L \subseteq Nat \ {0} /\ DOMAIN U \subseteq Nat \ {0}
        /\ \A i \in DOMAIN U : i + 1 \in DOMAIN L /\ U[i] = L[i + 1]
        /\ \A q \in DOMAIN L : q > 1 => q - 1 \in DOMAIN U /\ U[q - 1] = L[q]
    BY <1>1, <1>2, <2>1, <2>2, TailOf
  <2>4. \A y \in Elems(L) : y = L[1] \/ y \in Elems(U)
    <3> SUFFICES ASSUME NEW q \in DOMAIN L PROVE L[q] = L[1] \/ L[q] \in Elems(U)
      BY DEF Elems
    <3>1. q = 1 \/ q > 1
      BY <2>3
    <3> QED
      BY <2>3, <3>1 DEF Elems
  <2>5. Elems(U) \subseteq Elems(L) /\ L[1] \in Elems(L)
    BY <2>3 DEF Elems
  <2> QED
    BY <2>1, <2>2, <2>3, <2>4, <2>5 DEF Argument
<1>5. /\ Arguments(n) = Elems(Binding(n).args) \cap Bound
      /\ \A y \in Arguments(n) : InOrder(y, n)
  BY <1>2, <1>3, ArgumentsOf
<1>6. \A k : Later(k) = [do |-> "handle", of |-> n, left |-> left, k |-> k]
  BY DEF Later
<1>7. ASSUME NEW k, Later(k) \in Jobs, k \in {NaN} \cup 0 .. len,
             \A y \in Arguments(n) : k = NaN \/ y \in Elems(left) \/ Lower(y, k, at),
             k = NaN => ForLibrary(n), len = 0 => k # NaN
      PROVE  Loop(at, len, <<Later(k)>> \o Tail(T))
  <2>1. PICK u : u = <<Later(k)>>
    OBVIOUS
  <2>2. /\ u \in Seq(Jobs) /\ DOMAIN u = {1} /\ u # <<>>
        /\ u[1] = [do |-> "handle", of |-> n, left |-> left, k |-> k]
    <3>1. u \in Seq(Jobs) /\ DOMAIN u = {1} /\ u # <<>> /\ u[1] = Later(k)
      <4> PICK c : c = Later(k)
        OBVIOUS
      <4> QED
        BY <1>7, <2>1
    <3> QED
      BY <1>6, <3>1
  <2>3. Frames(at, len, u)
    <3>1. Elems(left) \subseteq Elems(Binding(n).args)
      BY <1>2, <1>4
    <3> HIDE DEF left, n
    <3> QED
      BY <1>2, <1>7, <2>2, <3>1 DEF Frames, Batched
  <2>4. \A x, dos : Head(T).of = x /\ "handle" \in dos => Awaits(u, dos, x)
    BY <2>2 DEF Awaits, Current
  <2>5. Head(T).do = "handle" /\ Head(T).of = n
    BY <1>2 DEF Current
  <2>6. (\A i \in DOMAIN u : u[i].do = "handle") /\ \A i \in DOMAIN u : u[i].of = n
    BY <2>2
  <2>7. Loop(at, len, u \o Tail(T))
    <3> HIDE DEF T, at, len, n, left
    <3> QED
      BY <1>2, <1>3, <2>2, <2>3, <2>4, <2>5, <2>6, ReplaceJob
  <2> QED
    BY <2>1, <2>7
<1>8. \A k \in {NaN} \cup 0 .. len : Later(k) \in Jobs
  <2>1. {NaN} \cup 0 .. len \subseteq {NaN} \cup Nat
    BY <1>2
  <2> QED
    BY <1>2, <1>4, <1>6, <2>1 DEF Jobs
<1>9. CASE Argument \notin Bound /\ Go(<<Later(Current.k)>>)
  <2>1. \A y \in Arguments(n) : Current.k = NaN \/ y \in Elems(left) \/ Lower(y, Current.k, at)
    BY <1>2, <1>4, <1>5, <1>9
  <2>2. Loop(at, len, <<Later(Current.k)>> \o Tail(T))
    BY <1>2, <1>7, <1>8, <2>1
  <2> QED
    BY <1>2, <1>9, <2>2, Gone
<1>10. CASE /\ Argument \in Bound \cap Batched
           /\ Go(<<Later(After(Current.k, at[Argument]))>>)
  <2>1. PICK k : k = After(Current.k, at[Argument])
    OBVIOUS
  <2>2. at[Argument] \in {NaN} \cup 0 .. len - 1
    BY <1>3, <1>10 DEF Numbered, Batched
  <2>3. /\ k \in {NaN} \cup 0 .. len /\ (k = NaN <=> Current.k = NaN)
        /\ Current.k # NaN => k >= Current.k
        /\ k # NaN /\ at[Argument] # NaN => at[Argument] < k
    BY <1>2, <2>1, <2>2 DEF After, NaN
  <2>4. ASSUME NEW y \in Arguments(n), k # NaN PROVE y \in Elems(left) \/ Lower(y, k, at)
    <3>1. CASE y = Argument
      BY <1>10, <2>3, <2>4, <3>1 DEF Lower, Batched
    <3>2. CASE y # Argument /\ y \notin Elems(left)
      <4>1. Lower(y, Current.k, at)
        BY <1>2, <1>4, <2>3, <2>4, <3>2
      <4>2. y \in DOMAIN at /\ at[y] \in {NaN} \cup 0 .. len - 1
        BY <1>3, <4>1 DEF Lower, Numbered
      <4> QED
        BY <1>2, <2>3, <2>4, <4>1, <4>2 DEF Lower, NaN
    <3> QED
      BY <3>1, <3>2
  <2>5. Loop(at, len, <<Later(k)>> \o Tail(T))
    BY <1>2, <1>7, <1>8, <2>3, <2>4
  <2> QED
    BY <1>2, <1>10, <2>1, <2>5, Gone
<1>11. CASE /\ Argument \in Bound \ Batched
            /\ Go(<<HandleElement(Argument, Current.k), Later(NaN)>>)
  <2> DEFINE a == Argument
  <2>1. a \in Bound /\ a \notin DOMAIN at /\ a \in Arguments(n)
    BY <1>2, <1>4, <1>5, <1>11 DEF Batched
  <2>2. ForLibrary(n) /\ ForLibrary(a)
    <3>1. ForLibrary(n) \/ IsLibrary(n)
      BY <1>2, <2>1 DEF Batched
    <3>2. ASSUME NEW S \in SUBSET Bound,
                 \A m \in Bound : IsLibrary(m) /\ OnBindings(Binding(m).args) # {} => m \in S,
                 \A m \in S : OnBindings(Binding(m).args) \subseteq S
          PROVE  n \in S /\ a \in S
      <4>1. n \in S
        BY <1>2, <2>1, <3>1, <3>2 DEF ForLibrary, Arguments
      <4> QED
        BY <2>1, <3>2, <4>1 DEF Arguments
    <3> QED
      BY <3>2 DEF ForLibrary
  <2>3. /\ Binding(a).args \in Seq(Names \cup Literals)
        /\ Arguments(a) \subseteq Elems(Binding(a).args) /\ InOrder(a, n)
    BY <1>5, <2>1, ArgumentsOf
  <2>4. PICK u : u = <<HandleElement(a, Current.k), Later(NaN)>>
    OBVIOUS
  <2>5. HandleElement(a, Current.k) \in Jobs /\ Later(NaN) \in Jobs
    <3>1. {NaN} \cup 0 .. len \subseteq {NaN} \cup Nat
      BY <1>2
    <3> QED
      BY <1>2, <1>8, <2>1, <2>3, <3>1 DEF HandleElement, Jobs
  <2>6. /\ u \in Seq(Jobs) /\ DOMAIN u = {1, 2} /\ u # <<>>
        /\ u[1] = [do |-> "handle", of |-> a, left |-> Binding(a).args, k |-> Current.k]
        /\ u[2] = [do |-> "handle", of |-> n, left |-> left, k |-> NaN]
    <3>1. PICK b, c : b = HandleElement(a, Current.k) /\ c = Later(NaN)
      OBVIOUS
    <3>2. u \in Seq(Jobs) /\ DOMAIN u = {1, 2} /\ u # <<>> /\ u[1] = b /\ u[2] = c
      BY <2>4, <2>5, <3>1
    <3> QED
      BY <1>6, <3>1, <3>2 DEF HandleElement
  <2>7. Elems(left) \subseteq Elems(Binding(n).args)
    BY <1>2, <1>4
  <2>8. Frames(at, len, u)
    <3> HIDE DEF left, n, a
    <3> QED
      BY <1>2, <2>1, <2>2, <2>3, <2>6, <2>7 DEF Frames, Batched
  <2>9. \A x, dos : Head(T).of = x /\ "handle" \in dos => Awaits(u, dos, x)
    BY <2>6 DEF Awaits, Current
  <2>10. Head(T).do = "handle" /\ Head(T).of = n
    BY <1>2 DEF Current
  <2>11. \A i \in DOMAIN u : u[i].do = "handle" /\ \A m : InOrder(n, m) => InOrder(u[i].of, m)
    BY <1>3, <2>3, <2>6, StrictOrder
  <2>12. Loop(at, len, u \o Tail(T))
    <3> HIDE DEF T, at, len, n, left, a
    <3> QED
      BY <1>2, <1>3, <2>6, <2>8, <2>9, <2>10, <2>11, ReplaceJob
  <2> QED
    BY <1>2, <1>11, <2>4, <2>12, Gone
<1> QED
  BY <1>1, <1>9, <1>10, <1>11

LEMMA PutContractStep ==
  ASSUME Builder, Order, Batches, PutContract
  PROVE  Batches'
<1>1. Waiting("handle") /\ Current.left = <<>> /\ Put(Current.of, Current.k)
  BY DEF PutContract
<1>2. /\ outcome = "batching" /\ batches.todo # <<>> /\ Current.do = "handle"
      /\ Current.of \in Bound /\ Current.k \in {NaN} \cup 0 .. batches.len /\ batches.len \in Nat
      /\ Current.of \notin Batched
      /\ \A y \in Arguments(Current.of) :
           Current.k = NaN \/ y \in Elems(Current.left) \/ Lower(y, Current.k, batches.at)
      /\ Current.k = NaN => ForLibrary(Current.of)
      /\ batches.len = 0 => Current.k # NaN
  BY <1>1, AtHead
<1>3. Current.of \in Elems(ModuleElements)
  BY <1>2, InTheLoops
<1>4. Current.of \in Things /\ Current.of \notin OfType(AfterTypes)
  BY <1>2, Records DEF Things, OfType
<1>5. batches.len # 0 => batches.len > 0
  BY <1>2
<1>6. Fits(batches.at, batches.len, Current.of, Current.k)
  BY <1>1, <1>2, <1>3, <1>4, <1>5, ElemsEmpty DEF Fits, Batched
<1> QED
  BY <1>1, <1>2, <1>6, PutStep

(* The batches of what has one.                                            *)
LEMMA NumbersAre ==
  ASSUME Numbered(batches.at, batches.len), NEW S
  PROVE  /\ batches.len \in Nat /\ Numbers(S) \subseteq 0 .. batches.len
         /\ \A k \in Numbers(S) : k < batches.len
         /\ \A x \in S \cap Batched : batches.at[x] = NaN \/ batches.at[x] \in Numbers(S)
<1>1. /\ batches.len \in Nat
      /\ \A x \in Batched : batches.at[x] \in {NaN} \cup 0 .. batches.len - 1
  BY DEF Numbered, Batched
<1>2. \A k \in Numbers(S) : k \in 0 .. batches.len - 1
  BY <1>1 DEF Numbers
<1>3. \A x \in S \cap Batched : batches.at[x] = NaN \/ batches.at[x] \in Numbers(S)
  BY DEF Numbers
<1> QED
  BY <1>1, <1>2, <1>3

LEMMA RefuseStep ==
  ASSUME Batches, outcome = "batching", NEW err, Refuse(err), NEW e \in Hooked,
         \/ Event(e).type \in BeforeTypes /\ UsesOf(e) # {}
         \/ Event(e).type \in AfterTypes /\ \E u \in Elems(EventUsage(e)) : ~InOrder(u, e)
  PROVE  Batches'
<1>1. /\ batches' = [batches EXCEPT !.err = err] /\ outcome' = "unbatched"
      /\ UNCHANGED <<bindings, events, started, order>>
  BY DEF Refuse
<1>2. /\ batches' = [at |-> batches.at, len |-> batches.len, err |-> err, todo |-> batches.todo]
      /\ batches'.at = batches.at /\ batches'.len = batches.len /\ batches'.todo = batches.todo
      /\ batches'.err = err
  BY <1>1 DEF Batches
<1>3. Loop(batches.at, batches.len, batches.todo)
  BY DEF Batches, Looping
<1>4. Loop(batches.at, batches.len, batches.todo)'
  <2>1. PICK at, len, T : at = batches.at /\ len = batches.len /\ T = batches.todo
    OBVIOUS
  <2>2. Loop(at, len, T)'
    BY <1>1, <1>3, <2>1, FrozenLoop
  <2> QED
    BY <1>2, <2>1, <2>2
<1>5. OrderCanBeBatched'
  <2>1. Hooked' = Hooked /\ Event(e)' = Event(e) /\ UsesOf(e)' = UsesOf(e)
    BY <1>1, FrozenLoop DEF Hooked, Event
  <2>2. EventUsage(e)' = EventUsage(e)
    BY <2>1 DEF EventUsage
  <2>3. \A u : InOrder(u, e)' <=> InOrder(u, e)
    BY <1>1 DEF InOrder
  <2> QED
    BY <2>1, <2>2, <2>3 DEF OrderCanBeBatched
<1> QED
  BY <1>1, <1>2, <1>4, <1>5 DEF Batches, Looping

LEMMA HandleBeforeDeployStep ==
  ASSUME Builder, Order, Batches, outcome = "batching", batches.todo # <<>>,
         NEW e, e = Current.of, Current.do = "element", e \in Hooked, e \notin Batched,
         e \in Elems(ModuleElements), Event(e).type \in BeforeTypes, HandleBeforeDeploy(e)
  PROVE  Batches'
<1>1. e \in Things /\ e \notin Bound /\ e \notin OfType(AfterTypes)
  BY Records DEF Things, OfType, BeforeTypes, AfterTypes
<1>2. Numbered(batches.at, batches.len)
  BY InTheLoops DEF Loop
<1> DEFINE T1 == {batches.len} \cup Numbers(DepsOf(e))
           T2 == {0} \cup Numbers(UsesOf(e))
           len == batches.len
           s == Lowest(T1)
           d == Highest(T2)
           b == IF s > 0 THEN s - 1 ELSE 0
           k == Lowest({d + 1, b})
<1>3. len \in Nat /\ T1 \subseteq 0 .. len /\ T2 \subseteq 0 .. len /\ T1 # {} /\ T2 # {}
  BY <1>2, NumbersAre
<1>4. \/ d > s /\ Refuse("usage")
      \/ ~(d > s) /\ Put(e, k)
  BY DEF HandleBeforeDeploy
<1>5. s \in 0 .. len /\ d \in 0 .. len
  <2> HIDE DEF T1, T2, len
  <2>1. T1 \subseteq Nat
    BY <1>3
  <2>2. s \in T1
    BY <1>3, <2>1, LowestOf
  <2>3. d \in T2
    BY <1>3, HighestOf
  <2> QED
    BY <1>3, <2>2, <2>3
<1>6. CASE d > s /\ Refuse("usage")
  <2>1. ASSUME UsesOf(e) = {} PROVE FALSE
    <3>1. T2 = {0}
      BY <2>1 DEF Numbers
    <3>2. d = 0
      BY <3>1 DEF Highest
    <3> QED
      BY <1>3, <1>5, <1>6, <3>2
  <2> QED
    BY <1>6, <2>1, RefuseStep
<1>7. CASE Put(e, k)
  <2>1. k \in 0 .. len
    <3> HIDE DEF s, d, len
    <3>1. d + 1 \in Nat /\ b \in 0 .. len /\ b \in Nat
      BY <1>3, <1>5
    <3> HIDE DEF b
    <3>2. k \in {d + 1, b} /\ \A l \in {d + 1, b} : k <= l
      BY <3>1, LowestOf
    <3> HIDE DEF k
    <3>3. k <= b /\ k \in Nat
      BY <3>1, <3>2
    <3> QED
      BY <1>3, <3>1, <3>3
  <2> HIDE DEF k
  <2>2. k # NaN /\ k \in {NaN} \cup 0 .. batches.len
    BY <2>1 DEF NaN
  <2>3. Fits(batches.at, batches.len, e, k)
    BY <1>1, <2>2 DEF Fits, Batched
  <2> QED
    BY <1>1, <1>7, <2>3, PutStep DEF k
<1> QED
  BY <1>4, <1>6, <1>7

LEMMA HandleAfterDeployStep ==
  ASSUME Builder, Order, Batches, outcome = "batching", batches.todo # <<>>,
         NEW e, e = Current.of, Current.do = "element", e \in Hooked, e \notin Batched,
         e \in Elems(ModuleElements), Event(e).type \in AfterTypes, HandleAfterDeploy(e)
  PROVE  Batches'
<1> DEFINE at == batches.at
           len == batches.len
           S == DepsOf(e) \cup UsesOf(e)
           T == {0} \cup Numbers(S)
           d == Highest(T)
<1>1. e \in Things /\ e \notin Bound /\ e \in OfType(AfterTypes)
  BY Records DEF Things, OfType
<1>2. Numbered(at, len)
  BY InTheLoops DEF Loop
<1>3. \/ S \subseteq Batched /\ Put(e, d + 1)
      \/ ~(S \subseteq Batched) /\ Refuse("not deployed")
  BY DEF HandleAfterDeploy
<1>4. CASE S \subseteq Batched /\ Put(e, d + 1)
  <2>1. len \in Nat /\ len # 0
    <3>1. len \in Nat /\ (len = 0 => DOMAIN at = {})
      BY <1>2 DEF Numbered
    <3>2. DepsOf(e) # {}
      <4>1. /\ Deps(e) \in Seq(Bound) /\ EventDeps(e) \in Seq(Hooked)
            /\ Deps(e) \o EventDeps(e) # <<>>
        BY HookLists
      <4>2. Deps(e) # <<>> \/ EventDeps(e) # <<>>
        BY <4>1
      <4>3. \A q, R : q \in Seq(R) /\ q # <<>> => Elems(q) # {}
        <5> SUFFICES ASSUME NEW R, NEW q \in Seq(R), q # <<>> PROVE Elems(q) # {}
          OBVIOUS
        <5>1. 1 \in DOMAIN q
          BY EmptySeq, LenProperties
        <5> QED
          BY <5>1 DEF Elems
      <4> QED
        BY <4>1, <4>2, <4>3 DEF DepsOf
    <3> QED
      BY <1>4, <3>1, <3>2 DEF Batched
  <2>2. T \subseteq 0 .. len - 1 /\ len - 1 \in Nat /\ T # {}
    BY <1>2, <2>1, NumbersAre
  <2>3. d \in T /\ \A k \in T : k <= d
    <3> HIDE DEF T, len
    <3> QED
      BY <2>2, HighestOf
  <2>4. d \in 0 .. len - 1
    BY <2>2, <2>3
  <2>5. ASSUME NEW y \in S PROVE Lower(y, d + 1, at)
    <3>1. y \in Batched /\ (at[y] = NaN \/ at[y] \in T)
      BY <1>2, <1>4, NumbersAre
    <3>2. at[y] \in T => at[y] \in 0 .. len - 1 /\ at[y] <= d
      BY <2>2, <2>3
    <3> HIDE DEF d, T
    <3>3. at[y] \in T => at[y] < d + 1
      BY <2>1, <2>4, <3>2
    <3> QED
      BY <3>1, <3>3 DEF Lower, Batched
  <2>6. PICK k : k = d + 1
    OBVIOUS
  <2>7. k \in {NaN} \cup 0 .. len /\ k # NaN
    <3> HIDE DEF d, len
    <3> QED
      BY <2>1, <2>4, <2>6 DEF NaN
  <2>8. Fits(batches.at, batches.len, e, k)
    BY <1>1, <2>5, <2>6, <2>7 DEF Fits, Batched
  <2> QED
    BY <1>1, <1>4, <2>6, <2>8, PutStep
<1>5. CASE ~(S \subseteq Batched) /\ Refuse("not deployed")
  <2>1. ASSUME \A u \in Elems(EventUsage(e)) : InOrder(u, e) PROVE FALSE
    <3>1. e \in Elems(order.added)
      BY <1>1, InTheLoops
    <3>2. \A y \in Elems(Deps(e)) \cup Elems(EventDeps(e)) \cup Elems(Usage(e)) : InOrder(y, e)
      BY <1>1, <3>1, InTheLoops DEF Required
    <3>3. \A y \in S : InOrder(y, e)
      BY <2>1, <3>2 DEF DepsOf, UsesOf
    <3>4. \A y : InOrder(y, e) => y \in Batched
      BY InTheLoops, BeforeHead DEF Current, Batched
    <3> QED
      BY <1>5, <3>3, <3>4
  <2> QED
    BY <1>5, <2>1, RefuseStep
<1> QED
  BY <1>3, <1>4, <1>5

LEMMA HandleEventStep ==
  ASSUME Builder, Order, Batches, HandleEvent
  PROVE  Batches'
<1>1. PICK e : /\ e = Current.of /\ e \notin Bound
               /\ outcome = "batching" /\ batches.todo # <<>> /\ Current.do = "element"
               /\ \/ e \notin Hooked /\ Put(e, 0)
                  \/ e \in Hooked /\ Event(e).type \in BeforeTypes /\ HandleBeforeDeploy(e)
                  \/ e \in Hooked /\ Event(e).type \in AfterTypes /\ HandleAfterDeploy(e)
  BY DEF HandleEvent, Waiting
<1>2. /\ Loop(batches.at, batches.len, batches.todo) /\ batches.todo \in Seq(Jobs)
      /\ Current \in Jobs
  BY <1>1, InTheLoops
<1>3. e \in Elems(ModuleElements)
  BY <1>1, <1>2 DEF Jobs
<1>4. e \in Hooked => e \notin Batched
  <2>1. 1 \in DOMAIN batches.todo /\ batches.todo[1] = Current
    BY <1>1, <1>2, TailOf DEF Current
  <2> QED
    BY <1>1, <1>2, <2>1 DEF Loop, Loops, Batched
<1>5. CASE e \notin Hooked /\ Put(e, 0)
  <2>1. batches.len \in Nat
    BY <1>2 DEF Loop, Numbered
  <2>2. e \notin Things /\ e \notin OfType(AfterTypes) /\ 0 # NaN
    BY <1>1, <1>5 DEF Things, OfType, NaN
  <2>3. Fits(batches.at, batches.len, e, 0)
    BY <1>1, <1>3, <2>1, <2>2 DEF Fits
  <2> QED
    BY <1>1, <1>5, <2>3, PutStep
<1> QED
  BY <1>1, <1>3, <1>4, <1>5, HandleBeforeDeployStep, HandleAfterDeployStep

LEMMA ElementsAre ==
  ASSUME NEW R, ModuleElements \in Seq(R), NEW loop \in {"library", "element"},
         NEW s, s = Elements(loop, ModuleElements)
  PROVE  /\ s \in Seq(Jobs) /\ Len(s) = Len(ModuleElements)
         /\ DOMAIN s = DOMAIN ModuleElements
         /\ \A i \in DOMAIN s : s[i].do = loop /\ s[i].of = ModuleElements[i]
<1>1. DOMAIN ModuleElements = 1 .. Len(ModuleElements) /\ Len(ModuleElements) \in Nat
  BY LenProperties
<1>2. \A i \in DOMAIN ModuleElements : Element(loop, ModuleElements[i]) \in Jobs
  BY DEF Element, Jobs, Elems
<1>3. \A i \in DOMAIN ModuleElements : s[i] = Element(loop, ModuleElements[i])
  BY DEF Elements
<1>4. /\ DOMAIN s = DOMAIN ModuleElements
      /\ s \in [1 .. Len(ModuleElements) -> Jobs]
  BY <1>1, <1>2 DEF Elements
<1>5. s \in Seq(Jobs) /\ Len(s) = Len(ModuleElements)
  <2>1. s \in Seq(Jobs)
    BY <1>1, <1>4
  <2>2. DOMAIN s = 1 .. Len(s) /\ Len(s) \in Nat
    BY <2>1, LenProperties
  <2> QED
    BY <1>1, <1>4, <2>1, <2>2
<1>6. \A x : Element(loop, x).do = loop /\ Element(loop, x).of = x
  BY DEF Element
<1>7. \A i \in DOMAIN s : s[i].do = loop /\ s[i].of = ModuleElements[i]
  BY <1>3, <1>4, <1>6
<1> QED
  BY <1>4, <1>5, <1>7

LEMMA ExecuteParallelStep ==
  ASSUME Builder, Order, Batches, ExecuteParallel
  PROVE  Batches'
<1> DEFINE M == ModuleElements
           R == Things \cup ModuleHooks
<1>1. /\ outcome = "resolved" /\ outcome' = "batching" /\ batches = NoBatches
      /\ UNCHANGED <<bindings, events, started, order>>
  BY DEF ExecuteParallel, Batches, Looping
<1>2. order.added \in Seq(Things) /\ Bound \subseteq Elems(order.added)
  BY <1>1, Arranged DEF Walked
<1>3. /\ M \in Seq(R) /\ Follows(M) /\ Elems(order.added) \subseteq Elems(M)
      /\ DOMAIN M = 1 .. Len(M) /\ Len(M) \in Nat
  BY <1>2, ElementsFollow, LenProperties
<1>4. PICK l, u : l = Elements("library", M) /\ u = Elements("element", M)
  OBVIOUS
<1>5. /\ l \in Seq(Jobs) /\ Len(l) = Len(M) /\ DOMAIN l = DOMAIN M
      /\ \A i \in DOMAIN l : l[i].do = "library" /\ l[i].of = M[i]
  BY <1>3, <1>4, ElementsAre
<1>6. /\ u \in Seq(Jobs) /\ Len(u) = Len(M) /\ DOMAIN u = DOMAIN M
      /\ \A i \in DOMAIN u : u[i].do = "element" /\ u[i].of = M[i]
  BY <1>3, <1>4, ElementsAre
<1>7. PICK T : T = l \o u
  OBVIOUS
<1>8. /\ T \in Seq(Jobs) /\ Len(T) = Len(M) + Len(M)
      /\ \A i \in 1 .. Len(M) + Len(M) : T[i] = IF i <= Len(M) THEN l[i] ELSE u[i - Len(M)]
  BY <1>5, <1>6, <1>7, ConcatProperties
<1>9. DOMAIN T = 1 .. Len(M) + Len(M)
  BY <1>8, LenProperties
<1>10. \A i \in DOMAIN M : i \in DOMAIN T /\ T[i].do = "library" /\ T[i].of = M[i]
  BY <1>3, <1>5, <1>8, <1>9
<1>11. \A i \in DOMAIN M : /\ i + Len(M) \in DOMAIN T
                           /\ T[i + Len(M)].do = "element" /\ T[i + Len(M)].of = M[i]
  <2> TAKE i \in DOMAIN M
  <2>1. i + Len(M) \in DOMAIN T /\ ~(i + Len(M) <= Len(M)) /\ (i + Len(M)) - Len(M) = i
    BY <1>3, <1>9
  <2> QED
    BY <1>6, <1>8, <1>9, <2>1
<1>12. \A i \in DOMAIN T : \/ i \in DOMAIN M /\ T[i].do = "library"
                           \/ /\ i > Len(M) /\ i - Len(M) \in DOMAIN M
                              /\ T[i].do = "element" /\ T[i].of = M[i - Len(M)]
  <2> TAKE i \in DOMAIN T
  <2>1. CASE i <= Len(M)
    BY <1>3, <1>9, <1>10, <2>1
  <2>2. CASE ~(i <= Len(M))
    <3>1. i - Len(M) \in DOMAIN M /\ i > Len(M) /\ T[i] = u[i - Len(M)]
      BY <1>3, <1>8, <1>9, <2>2
    <3> QED
      BY <1>6, <3>1
  <2> QED
    BY <2>1, <2>2
<1>13. Numbered(<<>>, 0)
  <2>1. DOMAIN <<>> = {} /\ <<>> \in [{} -> {NaN} \cup 0 .. 0 - 1]
    OBVIOUS
  <2>2. 0 .. 0 - 1 = {}
    OBVIOUS
  <2> QED
    BY <2>1, <2>2 DEF Numbered
<1>14. Frames(<<>>, 0, T)
  BY <1>12 DEF Frames
<1>15. \A x \in Elems(M) : Awaits(T, {"element", "handle"}, x)
  BY <1>11 DEF Awaits, Elems
<1>16. \A x \in Bound : Awaits(T, {"library", "handle"}, x)
  <2>1. \A x \in Elems(M) : Awaits(T, {"library", "handle"}, x)
    BY <1>10 DEF Awaits, Elems
  <2> QED
    BY <1>2, <1>3, <2>1
<1>17. ASSUME NEW i \in DOMAIN T, NEW j \in DOMAIN T, i < j, T[i].do = "element"
       PROVE  /\ T[j].do = "element"
              /\ {T[i].of, T[j].of} \subseteq Things => InOrder(T[i].of, T[j].of)
  <2>1. i > Len(M) /\ i - Len(M) \in DOMAIN M /\ T[i].of = M[i - Len(M)]
    BY <1>12, <1>17
  <2>2. ~(j \in DOMAIN M)
    BY <1>3, <1>9, <1>17, <2>1
  <2>3. j - Len(M) \in DOMAIN M /\ T[j].of = M[j - Len(M)] /\ T[j].do = "element"
    BY <1>12, <2>2
  <2>4. i - Len(M) < j - Len(M)
    BY <1>3, <1>9, <1>17
  <2> QED
    BY <1>3, <2>1, <2>3, <2>4 DEF Follows
<1>18. Loops(<<>>, T)
  BY <1>15, <1>16, <1>17 DEF Loops
<1>19. Loop(<<>>, 0, T)
  BY <1>8, <1>13, <1>14, <1>18 DEF Loop
<1>20. Loop(<<>>, 0, T)'
  BY <1>1, <1>19, FrozenLoop
<1>21. /\ batches' = [at |-> <<>>, len |-> 0, err |-> "none", todo |-> T]
       /\ batches'.at = <<>> /\ batches'.len = 0 /\ batches'.err = "none" /\ batches'.todo = T
  <2>1. batches' = [batches EXCEPT !.todo = T]
    BY <1>4, <1>7 DEF ExecuteParallel
  <2> QED
    BY <1>1, <2>1 DEF NoBatches
<1>22. OrderCanBeBatched'
  BY <1>1 DEF OrderCanBeBatched
<1> QED
  BY <1>1, <1>20, <1>21, <1>22 DEF Batches, Looping

LEMMA BatchesStay ==
  ASSUME Batches, UNCHANGED <<bindings, events, started, order, batches>>,
         \/ outcome' = outcome
         \/ outcome = "batching" /\ batches.todo = <<>> /\ outcome' = "batched"
  PROVE  Batches'
<1>1. outcome \in Looping => Loop(batches.at, batches.len, batches.todo)'
  <2>1. PICK at, len, T : at = batches.at /\ len = batches.len /\ T = batches.todo
    OBVIOUS
  <2>2. outcome \in Looping => Loop(at, len, T)'
    BY <2>1, FrozenLoop DEF Batches
  <2> QED
    BY <2>1, <2>2
<1>2. OrderCanBeBatched'
  <2>1. Hooked' = Hooked /\ (\A e : Event(e)' = Event(e)) /\ \A e : UsesOf(e)' = UsesOf(e)
    BY FrozenLoop DEF Hooked, Event
  <2>2. \A e : EventUsage(e)' = EventUsage(e)
    BY <2>1 DEF EventUsage
  <2>3. \A u, e : InOrder(u, e)' <=> InOrder(u, e)
    BY DEF InOrder
  <2>4. OrderCanBeBatched
    BY DEF Batches
  <2> QED
    BY <2>1, <2>2, <2>3, <2>4 DEF OrderCanBeBatched
<1> QED
  BY <1>1, <1>2 DEF Batches, Looping

LEMMA NoBatchesYet ==
  ASSUME Batches, outcome \notin Looping, outcome' \notin Looping, UNCHANGED batches
  PROVE  Batches'
<1>1. OrderCanBeBatched'
  BY DEF OrderCanBeBatched, Looping
<1>2. batches' = NoBatches
  BY DEF Batches
<1>3. batches' = [at |-> batches'.at, len |-> batches'.len, err |-> batches'.err, todo |-> batches'.todo]
  BY <1>2 DEF NoBatches
<1> QED
  BY <1>1, <1>2, <1>3 DEF Batches, Looping

LEMMA BatchesStep ==
  ASSUME Builder, Order, Batches, [BatchNext]_all
  PROVE  Batches'
<1>1. CASE ResolveNext /\ UNCHANGED batches
  <2>1. outcome \notin Looping /\ outcome' \notin Looping
    BY <1>1 DEF ResolveNext, Call, Calling, Contract, Library, Bind, ContractTemplate, BindFails,
       Throw, BindTemplate, DeployFn, FactoryCreate, Hook, HookNameExists, UseModule,
       UseModuleAgain, EndModule, Built, Invalid, Resolve, Walk, Resolved,
       AlreadyThere, NotBound, ResolveContract, Overflow, ContractResolved, AddBeforeEvent,
       ContractsOfDependency, AddEvent, ResolveSingleEvent, UsageFound, UsageEventNotFound, Add,
       Continue, Fail, Pending, builder, Looping
  <2> QED
    BY <1>1, <2>1, NoBatchesYet
<1>2. CASE ExecuteParallel
  BY <1>2, ExecuteParallelStep
<1>3. CASE Batching
  BY <1>3, SkipStep, ContractCall, HandleArgumentStep, PutContractStep, HandleEventStep DEF Batching
<1>4. CASE ExecuteBatches
  BY <1>4, BatchesStay DEF ExecuteBatches
<1>5. CASE UNCHANGED all
  BY <1>5, BatchesStay DEF all, builder
<1> QED
  BY <1>1, <1>2, <1>3, <1>4, <1>5 DEF BatchNext

(* The loops of the batcher keep their promises: see Loop.                 *)
THEOREM BatchesInvariant == BatchSpec => []Batches
<1>1. BatchInit => Batches
  <2>1. SUFFICES ASSUME BatchInit PROVE Batches
    OBVIOUS
  <2>2. outcome = "building" /\ batches = NoBatches
    BY <2>1 DEF BatchInit, ResolveInit, Init
  <2>3. batches = [at |-> batches.at, len |-> batches.len, err |-> batches.err, todo |-> batches.todo]
    BY <2>2 DEF NoBatches
  <2>4. OrderCanBeBatched
    BY <2>2 DEF OrderCanBeBatched
  <2> QED
    BY <2>2, <2>3, <2>4 DEF Batches, Looping
<1>2. Builder /\ Order /\ Batches /\ [BatchNext]_all => Batches'
  BY BatchesStep
<1> QED
  BY <1>1, <1>2, BuilderInvariant, OrderInvariant, PTL DEF BatchSpec

(* When all is batched, every element of the module has a batch.           *)
LEMMA BatchedAll ==
  ASSUME Builder, Order, Batches, outcome = "batched"
  PROVE  /\ Numbered(batches.at, batches.len) /\ Batched = Elems(ModuleElements)
         /\ Bound \subseteq Batched /\ Elems(order.added) \subseteq Batched
<1>1. Loop(batches.at, batches.len, <<>>)
  BY DEF Batches, Looping
<1>2. \A dos, x : ~Awaits(<<>>, dos, x)
  BY DEF Awaits
<1>3. Numbered(batches.at, batches.len) /\ Loops(batches.at, <<>>)
  BY <1>1 DEF Loop
<1>4. Batched = Elems(ModuleElements)
  BY <1>2, <1>3 DEF Loops, Numbered, Batched
<1>5. Bound \subseteq Elems(order.added) /\ Elems(order.added) \subseteq Elems(ModuleElements)
  <2>1. order.added \in Seq(Things) /\ Bound \subseteq Elems(order.added)
    BY Arranged DEF Walked
  <2> QED
    BY <2>1, ElementsFollow
<1> QED
  BY <1>3, <1>4, <1>5

(* Libraries first: what is no library comes in the second batch or later  *)
(* as soon as there is one.  Nothing is known of what libraries take.      *)
Right(x, k) ==
  x \in Bound /\ ~ForLibrary(x) => IF IsLibrary(x) THEN k = 0 ELSE k >= From
LibrariesFirst ==
  outcome \in Looping =>
    /\ \A x \in DOMAIN batches.at : Right(x, batches.at[x])
    /\ \A i \in DOMAIN batches.todo :
         batches.todo[i].do = "handle" => Right(batches.todo[i].of, batches.todo[i].k)

LEMMA RightStays ==
  ASSUME UNCHANGED <<bindings, order>>
  PROVE  \A x, k : Right(x, k)' <=> Right(x, k)
<1>1. Bound' = Bound /\ (\A n : Binding(n)' = Binding(n))
  BY DEF Bound, Binding
<1>2. \A x : IsLibrary(x)' <=> IsLibrary(x)
  BY <1>1 DEF IsLibrary
<1>3. \A x : ForLibrary(x)' <=> ForLibrary(x)
  BY <1>1, <1>2 DEF ForLibrary
<1>4. From' = From
  BY <1>2 DEF From
<1> QED
  BY <1>1, <1>2, <1>3, <1>4 DEF Right

(* A library that is not ForLibrary takes no contract.                     *)
LEMMA TakesNothing ==
  ASSUME NEW n \in Bound, IsLibrary(n), ~ForLibrary(n)
  PROVE  Arguments(n) = {}
BY DEF ForLibrary, Arguments

(* The entries that replace the head are right; so all of them are.        *)
LEMMA RightGoes ==
  ASSUME Builder, Order, Batches, LibrariesFirst, outcome = "batching", batches.todo # <<>>,
         NEW u \in Seq(Jobs), Go(u), \A i \in DOMAIN u : Right(u[i].of, u[i].k)
  PROVE  LibrariesFirst'
<1>1. PICK T, U : T = batches.todo /\ U = Tail(T)
  OBVIOUS
<1>2. T \in Seq(Jobs) /\ T # <<>>
  BY <1>1, InTheLoops
<1>3. /\ U \in Seq(Jobs) /\ \A i \in DOMAIN U : i + 1 \in DOMAIN T /\ U[i] = T[i + 1]
  BY <1>1, <1>2, TailOf
<1>4. PICK V : V = u \o U
  OBVIOUS
<1>5. /\ V \in Seq(Jobs) /\ Len(V) = Len(u) + Len(U)
      /\ \A i \in 1 .. Len(u) + Len(U) : V[i] = IF i <= Len(u) THEN u[i] ELSE U[i - Len(u)]
  BY <1>3, <1>4, ConcatProperties
<1>6. /\ Len(u) \in Nat /\ DOMAIN u = 1 .. Len(u) /\ Len(U) \in Nat /\ DOMAIN U = 1 .. Len(U)
      /\ DOMAIN V = 1 .. Len(u) + Len(U)
  BY <1>3, <1>5, LenProperties
<1>7. \A i \in DOMAIN T : T[i].do = "handle" => Right(T[i].of, T[i].k)
  BY <1>1 DEF LibrariesFirst, Looping
<1>8. ASSUME NEW i \in DOMAIN V, V[i].do = "handle" PROVE Right(V[i].of, V[i].k)
  <2>1. CASE i <= Len(u)
    BY <1>5, <1>6, <2>1
  <2>2. CASE ~(i <= Len(u))
    <3>1. i - Len(u) \in DOMAIN U /\ V[i] = U[i - Len(u)]
      BY <1>5, <1>6, <2>2
    <3>2. PICK j \in DOMAIN T : U[i - Len(u)] = T[j]
      BY <1>3, <3>1
    <3> QED
      BY <1>7, <1>8, <3>1, <3>2
  <2> QED
    BY <2>1, <2>2
<1>9. /\ batches' = [at |-> batches.at, len |-> batches.len, err |-> batches.err, todo |-> V]
      /\ UNCHANGED <<bindings, order, outcome>>
  BY <1>1, <1>4 DEF Go, Batches, builder
<1>10. batches'.at = batches.at /\ batches'.todo = V
  BY <1>9
<1>11. \A x, k : Right(x, k)' <=> Right(x, k)
  BY <1>9, RightStays
<1>12. \A x \in DOMAIN batches.at : Right(x, batches.at[x])
  BY DEF LibrariesFirst, Looping
<1>13. (\A x \in DOMAIN batches.at : Right(x, batches.at[x]))'
  <2>1. PICK at : at = batches.at
    OBVIOUS
  <2>2. \A x \in DOMAIN at : Right(x, at[x])'
    BY <1>11, <1>12, <2>1
  <2> QED
    BY <1>10, <2>1, <2>2
<1>14. (\A i \in DOMAIN batches.todo :
          batches.todo[i].do = "handle" => Right(batches.todo[i].of, batches.todo[i].k))'
  <2>1. \A i \in DOMAIN V : V[i].do = "handle" => Right(V[i].of, V[i].k)'
    BY <1>8, <1>11
  <2> QED
    BY <1>10, <2>1
<1> QED
  BY <1>13, <1>14 DEF LibrariesFirst

(* What is put into a batch is right.                                      *)
LEMMA RightPut ==
  ASSUME Builder, Order, Batches, LibrariesFirst, outcome = "batching", batches.todo # <<>>,
         NEW x, NEW k, Put(x, k), Right(x, k)
  PROVE  LibrariesFirst'
<1>1. PICK at, T, U : at = batches.at /\ T = batches.todo /\ U = Tail(T)
  OBVIOUS
<1>2. T \in Seq(Jobs) /\ T # <<>>
  BY <1>1, InTheLoops
<1>3. \A i \in DOMAIN U : i + 1 \in DOMAIN T /\ U[i] = T[i + 1]
  BY <1>1, <1>2, TailOf
<1>4. PICK at2 : at2 = [y \in DOMAIN at \cup {x} |-> IF y = x THEN k ELSE at[y]]
  OBVIOUS
<1>5. PICK len2 : len2 = IF k >= batches.len THEN k + 1 ELSE batches.len
  OBVIOUS
<1>6. /\ batches' = [at |-> at2, len |-> len2, err |-> batches.err, todo |-> U]
      /\ UNCHANGED <<bindings, order, outcome>>
  BY <1>1, <1>4, <1>5 DEF Put, Batched, Batches, builder
<1>7. batches'.at = at2 /\ batches'.todo = U
  BY <1>6
<1>8. \A y, l : Right(y, l)' <=> Right(y, l)
  BY <1>6, RightStays
<1>9. /\ \A y \in DOMAIN at : Right(y, at[y])
      /\ \A i \in DOMAIN T : T[i].do = "handle" => Right(T[i].of, T[i].k)
  BY <1>1 DEF LibrariesFirst, Looping
<1>10. \A y \in DOMAIN at2 : Right(y, at2[y])'
  BY <1>4, <1>8, <1>9
<1>11. \A i \in DOMAIN U : U[i].do = "handle" => Right(U[i].of, U[i].k)'
  BY <1>3, <1>8, <1>9
<1>12. (\A y \in DOMAIN batches.at : Right(y, batches.at[y]))'
  BY <1>7, <1>10
<1>13. (\A i \in DOMAIN batches.todo :
          batches.todo[i].do = "handle" => Right(batches.todo[i].of, batches.todo[i].k))'
  BY <1>7, <1>11
<1> QED
  BY <1>12, <1>13 DEF LibrariesFirst

(* The contract at hand is right, as are the numbers it goes on with.      *)
LEMMA RightAtHead ==
  ASSUME Builder, Order, Batches, LibrariesFirst, Waiting("handle")
  PROVE  Right(Current.of, Current.k)
<1>1. outcome = "batching" /\ batches.todo # <<>> /\ Current.do = "handle"
  BY DEF Waiting
<1>2. 1 \in DOMAIN batches.todo /\ batches.todo[1] = Current
  BY <1>1, InTheLoops, TailOf DEF Current
<1> QED
  BY <1>1, <1>2 DEF LibrariesFirst, Looping

LEMMA RightArgument ==
  ASSUME Builder, Order, Batches, LibrariesFirst, HandleArgument
  PROVE  LibrariesFirst'
<1> DEFINE n == Current.of
           a == Argument
<1>1. /\ Waiting("handle") /\ Current.left # <<>>
      /\ \/ a \notin Bound /\ Go(<<Later(Current.k)>>)
         \/ a \in Bound \cap Batched /\ Go(<<Later(After(Current.k, batches.at[a]))>>)
         \/ a \in Bound \ Batched /\ Go(<<HandleElement(a, Current.k), Later(NaN)>>)
  BY DEF HandleArgument
<1>2. /\ outcome = "batching" /\ batches.todo # <<>> /\ n \in Bound
      /\ Current.left \in Seq(Names \cup Literals)
      /\ Current.k \in {NaN} \cup 0 .. batches.len /\ batches.len \in Nat
      /\ Elems(Current.left) \subseteq Elems(Binding(n).args)
      /\ ForLibrary(n) \/ IsLibrary(n) \/ Arguments(n) \subseteq Batched
  BY <1>1, AtHead
<1>3. Right(n, Current.k)
  BY <1>1, RightAtHead
<1>4. a \in Elems(Current.left) /\ Tail(Current.left) \in Seq(Names \cup Literals)
  <2>1. PICK L : L = Current.left
    OBVIOUS
  <2>2. 1 \in DOMAIN L /\ Head(L) = L[1] /\ Tail(L) \in Seq(Names \cup Literals)
    BY <1>1, <1>2, <2>1, TailOf
  <2> QED
    BY <2>1, <2>2 DEF Argument, Elems
<1>5. a \in Bound => a \in Arguments(n)
  BY <1>2, <1>4, ArgumentsOf
<1>6. \A k : Later(k) = [do |-> "handle", of |-> n, left |-> Tail(Current.left), k |-> k]
  BY DEF Later
<1>7. \A k \in {NaN} \cup Nat : Later(k) \in Jobs
  BY <1>2, <1>4, <1>6 DEF Jobs
<1>8. Current.k \in {NaN} \cup Nat /\ NaN \in {NaN} \cup Nat
  BY <1>2
<1>9. ASSUME NEW k \in {NaN} \cup Nat, Right(n, k), Go(<<Later(k)>>) PROVE LibrariesFirst'
  <2>1. PICK c : c = Later(k)
    OBVIOUS
  <2>2. c \in Jobs /\ c.of = n /\ c.k = k
    BY <1>6, <1>7, <2>1
  <2>3. PICK u : u = <<c>>
    OBVIOUS
  <2>4. u \in Seq(Jobs) /\ \A i \in DOMAIN u : Right(u[i].of, u[i].k)
    BY <1>9, <2>2, <2>3
  <2> QED
    BY <1>2, <1>9, <2>1, <2>3, <2>4, RightGoes
<1>10. CASE a \notin Bound /\ Go(<<Later(Current.k)>>)
  BY <1>3, <1>8, <1>9, <1>10
<1>11. CASE a \in Bound \cap Batched /\ Go(<<Later(After(Current.k, batches.at[a]))>>)
  <2>1. PICK k : k = After(Current.k, batches.at[a])
    OBVIOUS
  <2>2. batches.at[a] \in {NaN} \cup 0 .. batches.len - 1
    BY <1>2, <1>11, InTheLoops DEF Loop, Numbered, Batched
  <2>3. k \in {NaN} \cup Nat /\ k >= Current.k
    BY <1>2, <2>1, <2>2 DEF After, NaN
  <2>4. ASSUME IsLibrary(n) PROVE ForLibrary(n)
    BY <1>2, <1>5, <1>11, <2>4, TakesNothing
  <2>5. From \in Nat /\ Current.k \in Int /\ k \in Int
    BY <1>8, <2>3 DEF From, NaN
  <2>6. Right(n, k)
    BY <1>3, <2>3, <2>4, <2>5 DEF Right
  <2> QED
    BY <1>9, <1>11, <2>1, <2>3, <2>6
<1>12. CASE a \in Bound \ Batched /\ Go(<<HandleElement(a, Current.k), Later(NaN)>>)
  <2>1. ForLibrary(n) /\ ForLibrary(a)
    <3>1. ForLibrary(n)
      BY <1>2, <1>5, <1>12, TakesNothing
    <3>2. a \in Arguments(n)
      BY <1>5, <1>12
    <3> QED
      BY <1>2, <3>1, <3>2 DEF ForLibrary, Arguments
  <2>2. HandleElement(a, Current.k) =
          [do |-> "handle", of |-> a, left |-> Binding(a).args, k |-> Current.k]
    BY DEF HandleElement
  <2>3. HandleElement(a, Current.k) \in Jobs
    BY <1>8, <1>12, <2>2, ArgumentsOf DEF Jobs
  <2>4. PICK b, c : b = HandleElement(a, Current.k) /\ c = Later(NaN)
    OBVIOUS
  <2>5. b \in Jobs /\ c \in Jobs /\ b.of = a /\ c.of = n
    BY <1>6, <1>7, <1>8, <2>2, <2>3, <2>4
  <2>6. PICK u : u = <<b, c>>
    OBVIOUS
  <2>7. u \in Seq(Jobs) /\ \A i \in DOMAIN u : u[i].of \in {a, n}
    BY <2>5, <2>6
  <2>8. \A i \in DOMAIN u : Right(u[i].of, u[i].k)
    BY <2>1, <2>7 DEF Right
  <2> QED
    BY <1>2, <1>12, <2>4, <2>6, <2>7, <2>8, RightGoes
<1> QED
  BY <1>1, <1>10, <1>11, <1>12

(* A library is met in the loop over the libraries, what is none in the    *)
(* loop over all elements.                                                 *)
LEMMA RightContract ==
  ASSUME Builder, Order, Batches, LibrariesFirst, Library1 \/ Contract1
  PROVE  LibrariesFirst'
<1> DEFINE n == Current.of
<1>1. PICK k : Go(<<HandleElement(n, k)>>) /\ k = IF Library1 THEN 0 ELSE From
  BY DEF Library1, Contract1
<1>2. /\ outcome = "batching" /\ batches.todo # <<>> /\ n \notin Batched /\ n \in Bound
      /\ \/ IsLibrary(n) /\ Library1
         \/ Current.do = "element" /\ ~Library1
  BY DEF Library1, Contract1, Waiting, IsLibrary
<1>3. Right(n, k)
  <2>1. CASE Library1
    BY <1>1, <1>2, <2>1 DEF Right, Library1
  <2>2. CASE ~Library1
    <3>1. ~IsLibrary(n)
      BY <1>2, <2>2, InTheLoops, BeforeHead DEF Current, Batched
    <3>2. From \in Nat
      BY DEF From
    <3> QED
      BY <1>1, <2>2, <3>1, <3>2 DEF Right
  <2> QED
    BY <2>1, <2>2
<1>4. k \in {NaN} \cup Nat
  BY <1>1 DEF From
<1>5. PICK c : c = HandleElement(n, k)
  OBVIOUS
<1>6. c = [do |-> "handle", of |-> n, left |-> Binding(n).args, k |-> k]
  BY <1>5 DEF HandleElement
<1>7. c \in Jobs /\ c.of = n /\ c.k = k
  BY <1>2, <1>4, <1>6, ArgumentsOf DEF Jobs
<1>8. PICK u : u = <<c>>
  OBVIOUS
<1>9. u \in Seq(Jobs) /\ \A i \in DOMAIN u : Right(u[i].of, u[i].k)
  BY <1>3, <1>7, <1>8
<1> QED
  BY <1>1, <1>2, <1>5, <1>8, <1>9, RightGoes

LEMMA RightKept ==
  ASSUME LibrariesFirst, UNCHANGED <<bindings, order, batches>>,
         outcome' \in Looping => outcome \in Looping
  PROVE  LibrariesFirst'
<1>1. \A x, k : Right(x, k)' <=> Right(x, k)
  BY RightStays
<1>2. PICK at, T : at = batches.at /\ T = batches.todo
  OBVIOUS
<1>3. outcome' \in Looping =>
        /\ \A x \in DOMAIN at : Right(x, at[x])'
        /\ \A i \in DOMAIN T : T[i].do = "handle" => Right(T[i].of, T[i].k)'
  BY <1>1, <1>2 DEF LibrariesFirst
<1> QED
  BY <1>2, <1>3 DEF LibrariesFirst

LEMMA LibrariesFirstStep ==
  ASSUME Builder, Order, Batches, LibrariesFirst, [BatchNext]_all
  PROVE  LibrariesFirst'
<1>1. CASE ResolveNext /\ UNCHANGED batches
  <2>1. outcome' \notin Looping
    BY <1>1 DEF ResolveNext, Call, Calling, Contract, Library, Bind, ContractTemplate, BindFails,
       Throw, BindTemplate, DeployFn, FactoryCreate, Hook, HookNameExists, UseModule,
       UseModuleAgain, EndModule, Built, Invalid, Resolve, Walk, Resolved,
       AlreadyThere, NotBound, ResolveContract, Overflow, ContractResolved, AddBeforeEvent,
       ContractsOfDependency, AddEvent, ResolveSingleEvent, UsageFound, UsageEventNotFound, Add,
       Continue, Fail, Pending, builder, Looping
  <2> QED
    BY <2>1 DEF LibrariesFirst
<1>2. CASE ExecuteParallel
  <2>1. batches = NoBatches /\ outcome' = "batching"
    BY <1>2 DEF ExecuteParallel, Batches, Looping
  <2>2. PICK T : T = Elements("library", ModuleElements) \o Elements("element", ModuleElements)
    OBVIOUS
  <2>3. batches' = [at |-> <<>>, len |-> 0, err |-> "none", todo |-> T]
    <3>1. batches' = [batches EXCEPT !.todo = T]
      BY <1>2, <2>2 DEF ExecuteParallel
    <3> QED
      BY <2>1, <3>1 DEF NoBatches
  <2>4. \A i \in DOMAIN T : T[i].do \in {"library", "element"}
    <3>1. outcome = "resolved"
      BY <1>2 DEF ExecuteParallel
    <3>2. order.added \in Seq(Things)
      BY <3>1, Arranged DEF Walked
    <3>3. PICK l, u : l = Elements("library", ModuleElements) /\ u = Elements("element", ModuleElements)
      OBVIOUS
    <3>4. l \in Seq(Jobs) /\ \A i \in DOMAIN l : l[i].do = "library"
      BY <3>2, <3>3, ElementsFollow, ElementsAre
    <3>5. u \in Seq(Jobs) /\ \A i \in DOMAIN u : u[i].do = "element"
      BY <3>2, <3>3, ElementsFollow, ElementsAre
    <3>6. /\ T \in Seq(Jobs) /\ Len(T) = Len(l) + Len(u)
          /\ \A i \in 1 .. Len(l) + Len(u) : T[i] = IF i <= Len(l) THEN l[i] ELSE u[i - Len(l)]
      BY <2>2, <3>3, <3>4, <3>5, ConcatProperties
    <3>7. /\ Len(l) \in Nat /\ DOMAIN l = 1 .. Len(l) /\ Len(u) \in Nat /\ DOMAIN u = 1 .. Len(u)
          /\ DOMAIN T = 1 .. Len(l) + Len(u)
      BY <3>4, <3>5, <3>6, LenProperties
    <3> TAKE i \in DOMAIN T
    <3>8. CASE i <= Len(l)
      BY <3>4, <3>6, <3>7, <3>8
    <3>9. CASE ~(i <= Len(l))
      <4>1. i - Len(l) \in DOMAIN u /\ T[i] = u[i - Len(l)]
        BY <3>6, <3>7, <3>9
      <4> QED
        BY <3>5, <4>1
    <3> QED
      BY <3>8, <3>9
  <2>5. batches'.at = <<>> /\ batches'.todo = T /\ DOMAIN <<>> = {}
    BY <2>3
  <2> QED
    BY <2>4, <2>5 DEF LibrariesFirst
<1>3. CASE Skip
  <2>1. outcome = "batching" /\ batches.todo # <<>> /\ Go(<<>>)
    BY <1>3 DEF Skip, Waiting
  <2>2. <<>> \in Seq(Jobs) /\ DOMAIN <<>> = {}
    OBVIOUS
  <2> QED
    BY <2>1, <2>2, RightGoes
<1>4. CASE Library1 \/ Contract1
  BY <1>4, RightContract
<1>5. CASE HandleArgument
  BY <1>5, RightArgument
<1>6. CASE PutContract
  <2>1. Waiting("handle") /\ Put(Current.of, Current.k)
    BY <1>6 DEF PutContract
  <2>2. outcome = "batching" /\ batches.todo # <<>>
    BY <2>1 DEF Waiting
  <2> QED
    BY <2>1, <2>2, RightAtHead, RightPut
<1>7. CASE HandleEvent
  <2>1. PICK e : /\ e \notin Bound /\ outcome = "batching" /\ batches.todo # <<>>
                 /\ \/ \E k : Put(e, k)
                    \/ \E err : Refuse(err)
    BY <1>7 DEF HandleEvent, Waiting, HandleBeforeDeploy, HandleAfterDeploy
  <2>2. CASE \E k : Put(e, k)
    <3>1. PICK k : Put(e, k)
      BY <2>2
    <3>2. Right(e, k)
      BY <2>1 DEF Right
    <3> QED
      BY <2>1, <3>1, <3>2, RightPut
  <2>3. CASE \E err : Refuse(err)
    <3>1. PICK err : Refuse(err)
      BY <2>3
    <3>2. /\ batches' = [at |-> batches.at, len |-> batches.len, err |-> err, todo |-> batches.todo]
          /\ UNCHANGED <<bindings, order>>
      BY <3>1 DEF Refuse, Batches
    <3>3. batches'.at = batches.at /\ batches'.todo = batches.todo
      BY <3>2
    <3>4. \A x, k : Right(x, k)' <=> Right(x, k)
      BY <3>2, RightStays
    <3>5. PICK at, T : at = batches.at /\ T = batches.todo
      OBVIOUS
    <3>6. /\ \A x \in DOMAIN at : Right(x, at[x])'
          /\ \A i \in DOMAIN T : T[i].do = "handle" => Right(T[i].of, T[i].k)'
      BY <2>1, <3>4, <3>5 DEF LibrariesFirst, Looping
    <3> QED
      BY <3>3, <3>5, <3>6 DEF LibrariesFirst
  <2> QED
    BY <2>1, <2>2, <2>3
<1>8. CASE ExecuteBatches
  BY <1>8, RightKept DEF ExecuteBatches, Looping
<1>9. CASE UNCHANGED all
  BY <1>9, RightKept DEF all, builder
<1> QED
  BY <1>1, <1>2, <1>3, <1>4, <1>5, <1>6, <1>7, <1>8, <1>9 DEF BatchNext, Batching

(* The arguments of a contract, the libraries it is linked with, and what  *)
(* a hook after the deployment names are in batches before its own.  Not   *)
(* ordered are those in no batch that is executed, libraries that take     *)
(* contracts or are taken by one, what a deploy function uses, and what a  *)
(* hook before the deployment names: see BatchesRespected.                 *)
THEOREM BatchesAlwaysRespected == BatchSpec => []BatchesRespected
<1>1. Builder /\ Order /\ Batches /\ LibrariesFirst => BatchesRespected
  <2>1. SUFFICES ASSUME Builder, Order, Batches, LibrariesFirst, outcome = "batched"
                 PROVE  BatchesRespected
    BY DEF BatchesRespected, ArgumentsInEarlierBatch, LibrariesInEarlierBatch, HooksInLaterBatch
  <2>2. /\ Numbered(batches.at, batches.len) /\ Bound \subseteq Batched
        /\ Elems(order.added) \subseteq Batched
    BY <2>1, BatchedAll
  <2>3. ASSUME NEW n \in Bound, NEW x \in OnBindings(Binding(n).args) PROVE Earlier(x, n)
    <3>1. n \in Batched /\ x \in Batched
      BY <2>1, <2>2, <2>3, ArgumentsOf DEF Arguments
    <3>2. batches.at[n] # NaN => Lower(x, batches.at[n], batches.at)
      BY <2>2, <2>3, <3>1 DEF Numbered, Arguments, Batched
    <3> QED
      BY <3>1, <3>2 DEF Earlier, Lower
  <2>4. ASSUME NEW e \in Elems(order.added) \cap Hooks, Event(e).type \in AfterTypes
        PROVE  batches.at[e] # NaN /\ \A x \in DepsOf(e) \cup UsesOf(e) : Earlier(x, e)
    <3>1. e \in Hooked /\ e \notin Bound
      <4>1. order.added \in Seq(Things)
        BY <2>1, Arranged DEF Walked
      <4> QED
        BY <2>1, <2>4, <4>1, ElemsOf, Records DEF Things
    <3>2. e \in Batched /\ e \in OfType(AfterTypes)
      BY <2>2, <2>4, <3>1 DEF OfType
    <3>3. \A x \in DepsOf(e) \cup UsesOf(e) : Lower(x, batches.at[e], batches.at)
      BY <2>2, <3>2 DEF Numbered, Batched
    <3>4. batches.at[e] # NaN
      BY <2>2, <3>1, <3>2 DEF Numbered, Batched
    <3> QED
      BY <3>2, <3>3, <3>4 DEF Earlier, Lower, Batched
  <2>5. ASSUME NEW n \in Bound, ~IsLibrary(n), ~ForLibrary(n),
               NEW l \in Bound, IsLibrary(l), ~ForLibrary(l)
        PROVE  Earlier(l, n)
    <3>1. n \in Batched /\ l \in Batched
      BY <2>2, <2>5
    <3>2. batches.at[l] = 0 /\ batches.at[n] >= From
      BY <2>1, <2>5, <3>1 DEF LibrariesFirst, Looping, Right, Batched
    <3>3. Bound \subseteq Elems(order.added)
      BY <2>1, Arranged DEF Walked
    <3>4. From = 1
      BY <2>5, <3>3 DEF From
    <3>5. batches.at[n] \in Int
      BY <2>2, <3>1 DEF Numbered, Batched, NaN
    <3> QED
      BY <3>1, <3>2, <3>4, <3>5 DEF Earlier
  <2> QED
    BY <2>3, <2>4, <2>5
    DEF BatchesRespected, ArgumentsInEarlierBatch, LibrariesInEarlierBatch, HooksInLaterBatch
<1>2. BatchInit => LibrariesFirst
  BY DEF BatchInit, ResolveInit, Init, LibrariesFirst, Looping
<1>3. Builder /\ Order /\ Batches /\ LibrariesFirst /\ [BatchNext]_all => LibrariesFirst'
  BY LibrariesFirstStep
<1> QED
  BY <1>1, <1>2, <1>3, BuilderInvariant, OrderInvariant, BatchesInvariant, PTL DEF BatchSpec

(* A parallel deployment takes on whatever resolves and leaves out nothing *)
(* of it, but for what NoBatchMissing and OrderCanBeBatched except.        *)
THEOREM EverythingAlwaysBatched == BatchSpec => []EverythingBatched
<1>1. Builder /\ Order /\ Batches => EverythingBatched
  <2>1. SUFFICES ASSUME Builder, Order, Batches PROVE EverythingBatched
    OBVIOUS
  <2>2. NoBatchMissing
    <3>1. SUFFICES ASSUME outcome = "batched"
                   PROVE  /\ Batched = Elems(ModuleElements)
                          /\ \A k \in 0 .. batches.len - 1 : \E x \in Batched : batches.at[x] = k
                          /\ \A x \in Batched : batches.at[x] = NaN => x \in Bound /\ ForLibrary(x)
      BY DEF NoBatchMissing
    <3>2. Numbered(batches.at, batches.len) /\ Batched = Elems(ModuleElements)
      BY <2>1, <3>1, BatchedAll
    <3> QED
      BY <3>2 DEF Numbered, Batched
  <2>3. OrderCanBeBatched
    BY <2>1 DEF Batches
  <2> QED
    BY <2>2, <2>3 DEF EverythingBatched
<1> QED
  BY <1>1, BuilderInvariant, OrderInvariant, BatchesInvariant, PTL

=============================================================================
