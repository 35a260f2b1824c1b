------------------------------ MODULE DiffProofs ------------------------------
(***************************************************************************)
(* What holds of Diff for any module, any edits, and any number of         *)
(* deployments that stop anywhere and of networks that forget.             *)
(***************************************************************************)
EXTENDS Diff, TLAPS, FiniteSetTheorems, SequenceTheorems, WellFoundedInduction

Types == AtEnds \cup {"afterDeploy", None}
Rec == [name : Names \cup {FailHook}, kind : {"contract", "event"}, code : Codes \cup Types,
        on : Names \cup Values \cup {None}, address : {None, "live", "gone"}, executed : BOOLEAN]
Distinct(f) == \A i, j \in DOMAIN f : i # j => f[i].name # f[j].name
FileOK(f) ==
  /\ f \in Seq(Rec) /\ Distinct(f)
  /\ \A i \in DOMAIN f : f[i].kind = "event" => f[i].address = None
(* The module and the state file are well formed.                          *)
Recorded == module \in Seq(Elements) /\ WellFormed(module) /\ FileOK(file)

(***************************************************************************)
(* Names and positions.                                                    *)
(***************************************************************************)
LEMMA AtName ==
  ASSUME NEW f, Distinct(f), NEW p \in DOMAIN f
  PROVE  At(f, f[p].name) = f[p]
<1>1. \A i \in DOMAIN f : f[i].name = f[p].name => i = p
  BY DEF Distinct
<1>2. (CHOOSE i \in DOMAIN f : f[i].name = f[p].name) = p
  BY <1>1
<1> QED
  BY <1>2 DEF At

LEMMA PosName ==
  ASSUME WellFormed(module), NEW i \in DOMAIN module
  PROVE  Pos(module[i].name) = i
BY DEF WellFormed, Pos

LEMMA ElementFields ==
  ASSUME NEW e \in Elements
  PROVE  /\ e.name \in Names /\ e.kind \in {"contract", "event"} /\ e.code \in Codes \cup Types
         /\ e.on \in Names \cup Values \cup {None}
         /\ e = [name |-> e.name, kind |-> e.kind, code |-> e.code, on |-> e.on]
<1>1. CASE e \in {Contract(n, c, a) : n \in Names, c \in Codes, a \in Values \cup Names}
  BY <1>1 DEF Contract
<1>2. CASE e \in {Event(n, "afterDeploy", a) : n \in Names, a \in Names}
  BY <1>2 DEF Event, Types
<1>3. CASE e \in {Event(n, t, None) : n \in Names, t \in AtEnds}
  BY <1>3 DEF Event, Types
<1> QED
  BY <1>1, <1>2, <1>3 DEF Elements

LEMMA ModuleFields ==
  ASSUME Recorded
  PROVE  /\ Len(module) \in Nat /\ DOMAIN module = 1 .. Len(module)
         /\ \A i \in DOMAIN module : module[i] \in Elements
         /\ Distinct(module)
BY DEF Recorded, WellFormed, Distinct

LEMMA FileFields ==
  ASSUME Recorded
  PROVE  /\ Len(file) \in Nat /\ DOMAIN file = 1 .. Len(file)
         /\ \A p \in DOMAIN file : file[p] \in Rec
         /\ Distinct(file)
BY DEF Recorded, FileOK

(* Functions on 1 .. n are sequences.                                      *)
LEMMA FunctionIsSeq ==
  ASSUME NEW S, NEW n \in Nat, NEW f \in [1 .. n -> S]
  PROVE  f \in Seq(S) /\ Len(f) = n
OBVIOUS

(***************************************************************************)
(* The resolver.  Its state while it goes through the module, and what it  *)
(* may make of the state file: addresses are forgotten, no other is set.   *)
(***************************************************************************)
States == [f : [DOMAIN file -> Rec], keep : SUBSET Names, always : {None, "yes", "no"},
           blank : BOOLEAN, threw : BOOLEAN]
Begin == [f |-> file, keep |-> {}, always |-> None, blank |-> FALSE, threw |-> FALSE]
Weaker(g) ==
  \A p \in DOMAIN file :
    /\ g[p].name = file[p].name /\ g[p].kind = file[p].kind
    /\ g[p].code = file[p].code /\ g[p].on = file[p].on
    /\ g[p].address \in {file[p].address, None}

LEMMA InvalidatedFields ==
  ASSUME NEW f \in [DOMAIN file -> Rec], NEW keep, NEW n
  PROVE  /\ Invalidated(f, keep, n) \in [DOMAIN file -> Rec]
         /\ \A p \in DOMAIN file :
              LET g == Invalidated(f, keep, n)
              IN /\ g[p].name = f[p].name /\ g[p].kind = f[p].kind
                 /\ g[p].code = f[p].code /\ g[p].on = f[p].on
                 /\ g[p].address = IF f[p].name \in Forgotten(f, keep, n) THEN None ELSE f[p].address
<1> DEFINE lost == Forgotten(f, keep, n)
           hooks == {e.name : e \in {module[i] : i \in {j \in DOMAIN module :
                  module[j].kind = "event" /\ module[j].on \in lost \cup {n}}}}
           g == Invalidated(f, keep, n)
<1>1. g = [i \in DOMAIN f |->
        IF f[i].name \in lost THEN [f[i] EXCEPT !.address = None]
        ELSE IF f[i].name \in hooks /\ f[i].kind = "event" THEN [f[i] EXCEPT !.executed = FALSE]
        ELSE f[i]]
  BY DEF Invalidated
<1>2. DOMAIN f = DOMAIN file
  OBVIOUS
<1> HIDE DEF lost, hooks, g
<1>3. ASSUME NEW p \in DOMAIN file
      PROVE  /\ g[p] \in Rec
             /\ g[p].name = f[p].name /\ g[p].kind = f[p].kind
             /\ g[p].code = f[p].code /\ g[p].on = f[p].on
             /\ g[p].address = IF f[p].name \in lost THEN None ELSE f[p].address
  <2>1. f[p] \in Rec
    OBVIOUS
  <2>2. g[p] = IF f[p].name \in lost THEN [f[p] EXCEPT !.address = None]
        ELSE IF f[p].name \in hooks /\ f[p].kind = "event" THEN [f[p] EXCEPT !.executed = FALSE]
        ELSE f[p]
    BY <1>1, <1>2
  <2>3. ASSUME NEW r \in Rec
        PROVE  /\ [r EXCEPT !.address = None] \in Rec /\ [r EXCEPT !.executed = FALSE] \in Rec
               /\ [r EXCEPT !.address = None].address = None
               /\ [r EXCEPT !.executed = FALSE].address = r.address
               /\ [r EXCEPT !.address = None].name = r.name /\ [r EXCEPT !.executed = FALSE].name = r.name
               /\ [r EXCEPT !.address = None].kind = r.kind /\ [r EXCEPT !.executed = FALSE].kind = r.kind
               /\ [r EXCEPT !.address = None].code = r.code /\ [r EXCEPT !.executed = FALSE].code = r.code
               /\ [r EXCEPT !.address = None].on = r.on /\ [r EXCEPT !.executed = FALSE].on = r.on
    BY DEF Rec
  <2> QED
    BY <2>1, <2>2, <2>3
<1>4. g \in [DOMAIN file -> Rec]
  BY <1>1, <1>2, <1>3
<1> QED
  BY <1>3, <1>4 DEF g, lost

(***************************************************************************)
(* The resolver goes through the module element by element: its results    *)
(* exist, by the least number of which this is not true.                   *)
(***************************************************************************)
LEMMA Least ==
  ASSUME NEW T, T \subseteq Nat, T # {}
  PROVE  \E m \in T : \A k \in T : m <= k
<1> DEFINE R == OpToRel(<, Nat)
<1>1. IsWellFoundedOn(R, Nat)
  BY NatLessThanWellFounded, Zenon
<1>2. \A a, b \in Nat : a < b => <<a, b>> \in R
  BY Zenon DEF OpToRel
<1> HIDE DEF R
<1>3. PICK m \in T : \A k \in T : ~(<<k, m>> \in R)
  BY <1>1, WFMin, Zenon
<1>4. ASSUME NEW k \in T PROVE m <= k
  <2>1. ~(<<k, m>> \in R) /\ k \in Nat /\ m \in Nat
    BY <1>3
  <2>2. ~(k < m)
    BY <1>2, <2>1, Zenon
  <2> QED
    BY <2>1, <2>2
<1> QED
  BY <1>4

Goes(a, answer, n) ==
  a = [i \in 0 .. n |-> IF i = 0 THEN Begin ELSE ResolveElement(a[i - 1], module[i], answer)]

LEMMA GoesOn ==
  ASSUME NEW answer, NEW n \in Nat
  PROVE  \E a : Goes(a, answer, n)
<1> DEFINE T == {m \in Nat : ~\E a : Goes(a, answer, m)}
<1> SUFFICES ASSUME T # {} PROVE FALSE
  OBVIOUS
<1>1. PICK m \in T : \A k \in T : m <= k
  BY Least
<1>2. m # 0
  <2>1. Goes([i \in 0 .. 0 |-> Begin], answer, 0)
    BY DEF Goes
  <2> QED
    BY <1>1, <2>1
<1>3. m - 1 \in Nat /\ m - 1 \notin T
  BY <1>1, <1>2
<1>4. PICK r : Goes(r, answer, m - 1)
  BY <1>3
<1> DEFINE a == [i \in 0 .. m |-> IF i < m THEN r[i] ELSE ResolveElement(r[m - 1], module[m], answer)]
<1>5. \A i \in 0 .. m - 1 : r[i] = IF i = 0 THEN Begin ELSE ResolveElement(r[i - 1], module[i], answer)
  BY <1>4 DEF Goes
<1>6. ASSUME NEW i \in 0 .. m
      PROVE  a[i] = IF i = 0 THEN Begin ELSE ResolveElement(a[i - 1], module[i], answer)
  <2> HIDE DEF T
  <2>1. m \in Nat
    BY <1>1 DEF T
  <2>2. CASE i = 0
    BY <1>2, <1>5, <2>1, <2>2
  <2>3. CASE i # 0 /\ i < m
    <3>1. i \in 0 .. m - 1 /\ i - 1 \in 0 .. m /\ i - 1 < m
      BY <2>1, <2>3
    <3>2. a[i] = r[i] /\ a[i - 1] = r[i - 1]
      BY <2>3, <3>1
    <3> QED
      BY <1>5, <2>3, <3>1, <3>2
  <2>4. CASE i = m
    <3>1. m - 1 \in 0 .. m /\ m - 1 < m
      BY <1>2, <2>1
    <3>2. a[m - 1] = r[m - 1] /\ a[m] = ResolveElement(r[m - 1], module[m], answer)
      BY <2>1, <3>1
    <3> QED
      BY <1>2, <2>4, <3>2
  <2> QED
    BY <2>1, <2>2, <2>3, <2>4
<1>7. Goes(a, answer, m)
  <2>1. a = [i \in 0 .. m |-> a[i]]
    OBVIOUS
  <2> HIDE DEF a
  <2> QED
    BY <1>6, <2>1 DEF Goes
<1> HIDE DEF a
<1> QED
  BY <1>1, <1>7

LEMMA ResolveGoes ==
  ASSUME Recorded, NEW answer
  PROVE  \E a : /\ a[0] = Begin /\ Resolve(answer) = a[Len(module)]
                /\ \A i \in DOMAIN module : a[i] = ResolveElement(a[i - 1], module[i], answer)
<1> DEFINE n == Len(module)
           a == CHOOSE b : Goes(b, answer, n)
<1>1. n \in Nat /\ DOMAIN module = 1 .. n
  BY ModuleFields
<1>2. Resolve(answer) = a[n]
  BY DEF Resolve, Goes, Begin
<1> HIDE DEF n
<1>3. Goes(a, answer, n)
  BY <1>1, GoesOn
<1> HIDE DEF a
<1>4. \A i \in 0 .. n : a[i] = IF i = 0 THEN Begin ELSE ResolveElement(a[i - 1], module[i], answer)
  BY <1>3 DEF Goes
<1>5. 0 \in 0 .. n /\ \A i \in 1 .. n : i \in 0 .. n /\ i # 0
  BY <1>1
<1> QED
  BY <1>1, <1>2, <1>4, <1>5 DEF n

(***************************************************************************)
(* What one element makes of the state s of the resolver; p is its record. *)
(***************************************************************************)
Quiet(s, i, p) == s.always = "yes" /\ module[i].kind = "event"
Throws(s, t, i, p) ==
  /\ t.threw /\ t.f = s.f /\ t.keep = s.keep /\ t.always = s.always /\ t.blank = s.blank
KeepsHook(s, t, i, p) ==
  /\ module[i].kind = "event" /\ file[p].kind = "event" /\ s.always # "yes"
  /\ file[p].code = module[i].code
  /\ t.f = s.f /\ t.keep = s.keep \cup {module[i].name} /\ t.always = s.always
  /\ t.blank = s.blank /\ t.threw = s.threw
(* The developer is asked about the first contract that is gone.           *)
Answered(s, t, p, answer) ==
  IF s.always = None /\ s.f[p].address = "gone"
  THEN t.always = answer /\ (t.blank <=> answer = "no")
  ELSE t.always = s.always /\ ~t.blank
KeepsContract(s, t, i, p) ==
  /\ t.f = s.f /\ t.keep = s.keep \cup {module[i].name} /\ t.threw = s.threw
  /\ t.always # "yes" /\ file[p].code = module[i].code /\ s.f[p].address # None
Blanks(s, t, i, p) ==
  /\ t.f = s.f /\ t.keep = s.keep /\ t.blank /\ file[p].code # module[i].code
Redoes(s, t, i, p) ==
  /\ t.f = Invalidated(s.f, s.keep, module[i].name) /\ t.keep = s.keep /\ t.threw = s.threw
  /\ ~t.blank
  /\ t.always = "yes" \/ file[p].code # module[i].code \/ s.f[p].address = None

LEMMA NoRecord ==
  ASSUME Recorded, NEW answer, NEW i \in DOMAIN module, NEW s \in States, Weaker(s.f),
         s.threw \/ s.blank \/ \A p \in DOMAIN file : file[p].name # module[i].name
  PROVE  ResolveElement(s, module[i], answer) = s
<1>1. DOMAIN s.f = DOMAIN file
  BY DEF States
<1>2. module[i].name \in NameSet(s.f) => \E p \in DOMAIN file : file[p].name = module[i].name
  BY <1>1 DEF NameSet, Weaker
<1> QED
  BY <1>2 DEF ResolveElement

LEMMA StepCases ==
  ASSUME Recorded, NEW answer, NEW i \in DOMAIN module, NEW s \in States,
         Weaker(s.f), ~s.threw, ~s.blank, NEW p \in DOMAIN file, file[p].name = module[i].name,
         NEW t, t = ResolveElement(s, module[i], answer)
  PROVE  \/ t = s /\ s.always = "yes" /\ module[i].kind # "contract"
         \/ t = s /\ s.always = "yes" /\ file[p].kind = "event"
         \/ Throws(s, t, i, p)
         \/ KeepsHook(s, t, i, p)
         \/ /\ module[i].kind = "contract" /\ file[p].kind = "contract" /\ Answered(s, t, p, answer)
            /\ KeepsContract(s, t, i, p) \/ Blanks(s, t, i, p) \/ Redoes(s, t, i, p)
<1> DEFINE e == module[i]
           rec == s.f[p]
<1>1. /\ DOMAIN s.f = DOMAIN file /\ rec.name = e.name /\ rec.kind = file[p].kind
      /\ rec.code = file[p].code
  BY DEF States, Weaker
<1>2. Distinct(s.f)
  BY FileFields, <1>1 DEF Weaker, Distinct
<1>3. At(s.f, e.name) = rec /\ e.name \in NameSet(s.f)
  BY <1>1, <1>2, AtName DEF NameSet
<1>4. e.kind \in {"contract", "event"} /\ rec.kind \in {"contract", "event"}
  BY <1>1, ModuleFields, FileFields, ElementFields DEF Rec
<1>5. t = IF Misfit(s, rec, e) THEN [s EXCEPT !.threw = TRUE]
          ELSE IF rec.kind # e.kind THEN s
          ELSE IF e.kind = "contract" THEN ResolveContract(s, rec, e, answer)
          ELSE IF s.always = "yes" THEN s ELSE [s EXCEPT !.keep = @ \cup {e.name}]
  BY <1>3 DEF ResolveElement
<1> HIDE DEF e, rec
<1>6. CASE Misfit(s, rec, e)
  <2>1. Throws(s, t, i, p)
    BY <1>5, <1>6 DEF Throws, States
  <2> QED
    BY <2>1
<1>7. CASE ~Misfit(s, rec, e) /\ rec.kind # e.kind
  <2>1. t = s /\ s.always = "yes" /\ rec.kind = "event"
    BY <1>4, <1>5, <1>7 DEF Misfit
  <2> QED
    BY <1>1, <2>1
<1>8. CASE ~Misfit(s, rec, e) /\ rec.kind = e.kind /\ e.kind = "event"
  <2>1. s.always # "yes" => rec.code = e.code
    BY <1>8 DEF Misfit
  <2>2. t = IF s.always = "yes" THEN s ELSE [s EXCEPT !.keep = @ \cup {e.name}]
    BY <1>5, <1>8
  <2>3. CASE s.always = "yes"
    BY <1>1, <1>8, <2>2, <2>3
  <2>4. CASE s.always # "yes"
    <3>1. KeepsHook(s, t, i, p)
      BY <1>1, <1>8, <2>1, <2>2, <2>4 DEF KeepsHook, States, e
    <3> QED
      BY <3>1
  <2> QED
    BY <2>3, <2>4
<1>9. CASE rec.kind = e.kind /\ e.kind = "contract"
  <2> DEFINE always == IF Asked(s, rec) THEN answer ELSE s.always
             blank == Asked(s, rec) /\ answer = "no"
  <2>1. ~Misfit(s, rec, e)
    BY <1>9 DEF Misfit
  <2>2. t = IF ~Again(always, rec, e)
     THEN [s EXCEPT !.keep = @ \cup {e.name}, !.always = always, !.blank = blank]
     ELSE IF blank
     THEN [s EXCEPT !.always = always, !.blank = blank,
                    !.threw = Forgotten(s.f, s.keep, e.name) # {}]
     ELSE [s EXCEPT !.always = always, !.f = Invalidated(@, s.keep, e.name)]
    BY <1>5, <1>9, <2>1 DEF ResolveContract
  <2>3. /\ Asked(s, rec) <=> (s.always = None /\ rec.address = "gone")
        /\ Again(always, rec, e) <=> always = "yes" \/ rec.code # e.code \/ rec.address = None
    BY DEF Asked, Again
  <2>4. always \in {answer, s.always} /\ blank \in BOOLEAN
    OBVIOUS
  <2>5. CASE ~Again(always, rec, e)
    <3>1. t.f = s.f /\ t.keep = s.keep \cup {e.name} /\ t.threw = s.threw /\ t.always = always /\ t.blank = blank
      BY <2>2, <2>5 DEF States
    <3>2. KeepsContract(s, t, i, p) /\ Answered(s, t, p, answer)
      BY <1>1, <2>3, <2>5, <3>1 DEF KeepsContract, Answered, e, rec
    <3> QED
      BY <1>1, <1>9, <3>2 DEF e
  <2>6. CASE Again(always, rec, e) /\ blank
    <3>1. t.f = s.f /\ t.keep = s.keep /\ t.always = always /\ t.blank = blank
      BY <2>2, <2>6 DEF States
    <3>2. Blanks(s, t, i, p) /\ Answered(s, t, p, answer)
      BY <1>1, <2>3, <2>6, <3>1 DEF Blanks, Answered, e, rec, None
    <3> QED
      BY <1>1, <1>9, <3>2 DEF e
  <2>7. CASE Again(always, rec, e) /\ ~blank
    <3>1. /\ t.f = Invalidated(s.f, s.keep, e.name) /\ t.keep = s.keep /\ t.threw = s.threw
          /\ t.always = always /\ t.blank = s.blank
      BY <2>2, <2>7 DEF States
    <3>2. Redoes(s, t, i, p) /\ Answered(s, t, p, answer)
      BY <1>1, <2>3, <2>7, <3>1 DEF Redoes, Answered, e, rec
    <3> QED
      BY <1>1, <1>9, <3>2 DEF e
  <2> QED
    BY <2>5, <2>6, <2>7
<1> QED
  BY <1>4, <1>6, <1>7, <1>8, <1>9

LEMMA StepType ==
  ASSUME Recorded, NEW answer \in {"yes", "no"}, NEW i \in DOMAIN module, NEW s \in States, Weaker(s.f)
  PROVE  /\ ResolveElement(s, module[i], answer) \in States
         /\ Weaker(ResolveElement(s, module[i], answer).f)
<1> DEFINE e == module[i]
           t == ResolveElement(s, e, answer)
<1>1. e.name \in Names
  BY ModuleFields, ElementFields
<1>2. /\ Invalidated(s.f, s.keep, e.name) \in [DOMAIN file -> Rec]
      /\ Weaker(Invalidated(s.f, s.keep, e.name))
  <2>1. s.f \in [DOMAIN file -> Rec]
    BY DEF States
  <2> QED
    BY <2>1, InvalidatedFields DEF Weaker
<1> DEFINE f == Invalidated(s.f, s.keep, e.name)
<1> HIDE DEF e, f
<1> DEFINE Mk(g, k, a, b, w) == [f |-> g, keep |-> k, always |-> a, blank |-> b, threw |-> w]
<1>3. ASSUME NEW k \in {s.keep, s.keep \cup {e.name}}, NEW g \in {s.f, f},
             NEW a \in {None, "yes", "no"}, NEW b \in BOOLEAN, NEW w \in BOOLEAN
      PROVE  Mk(g, k, a, b, w) \in States /\ Weaker(Mk(g, k, a, b, w).f)
  <2>1. g \in [DOMAIN file -> Rec] /\ k \in SUBSET Names /\ Weaker(g)
    BY <1>1, <1>2 DEF States, f
  <2> QED
    BY <2>1 DEF States
<1>4. s.always \in {None, "yes", "no"} /\ s.blank \in BOOLEAN /\ s.threw \in BOOLEAN
  BY DEF States
<1>5. ASSUME NEW rec PROVE ResolveContract(s, rec, e, answer) \in States /\ Weaker(ResolveContract(s, rec, e, answer).f)
  <2> DEFINE u == ResolveContract(s, rec, e, answer)
  <2>1. PICK a \in {None, "yes", "no"}, b \in BOOLEAN, w \in BOOLEAN :
          \/ u = [s EXCEPT !.keep = @ \cup {e.name}, !.always = a, !.blank = b]
          \/ u = [s EXCEPT !.always = a, !.blank = b, !.threw = w]
          \/ u = [s EXCEPT !.always = a, !.f = Invalidated(@, s.keep, e.name)]
    <3> DEFINE a == IF Asked(s, rec) THEN answer ELSE s.always
               b == Asked(s, rec) /\ answer = "no"
               w == Forgotten(s.f, s.keep, e.name) # {}
    <3>1. a \in {None, "yes", "no"} /\ b \in BOOLEAN /\ w \in BOOLEAN
      BY <1>4
    <3>2. \/ u = [s EXCEPT !.keep = @ \cup {e.name}, !.always = a, !.blank = b]
          \/ u = [s EXCEPT !.always = a, !.blank = b, !.threw = w]
          \/ u = [s EXCEPT !.always = a, !.f = Invalidated(@, s.keep, e.name)]
      BY DEF ResolveContract
    <3> HIDE DEF a, b, w, u
    <3> QED
      BY <3>1, <3>2
  <2>2. \/ u = Mk(s.f, s.keep \cup {e.name}, a, b, s.threw)
        \/ u = Mk(s.f, s.keep, a, b, w)
        \/ u = Mk(f, s.keep, a, s.blank, s.threw)
    <3> HIDE DEF u
    <3> QED
      BY <2>1 DEF f, States
  <2> HIDE DEF u
  <2>3. u \in States /\ Weaker(u.f)
    BY <1>3, <1>4, <2>2
  <2> QED
    BY <2>3 DEF u
<1>6. /\ [s EXCEPT !.threw = TRUE] \in States /\ Weaker([s EXCEPT !.threw = TRUE].f)
      /\ [s EXCEPT !.keep = @ \cup {e.name}] \in States /\ Weaker([s EXCEPT !.keep = @ \cup {e.name}].f)
  BY <1>1 DEF States
<1>7. \/ t = s \/ t = [s EXCEPT !.threw = TRUE] \/ t = [s EXCEPT !.keep = @ \cup {e.name}]
      \/ \E rec : t = ResolveContract(s, rec, e, answer)
  BY DEF ResolveElement
<1> HIDE DEF t
<1>8. t \in States /\ Weaker(t.f)
  BY <1>5, <1>6, <1>7
<1> QED
  BY <1>8 DEF t, e

(***************************************************************************)
(* What is true of the resolver after i elements.                          *)
(***************************************************************************)
(* What is kept is on file as what the module says.                        *)
Kept(s, i) ==
  /\ \A n \in s.keep : \E j \in 1 .. i : module[j].name = n
  /\ \A n \in s.keep : \E p \in DOMAIN file : file[p].name = n
  /\ \A j \in DOMAIN module, p \in DOMAIN file :
       module[j].name \in s.keep /\ file[p].name = module[j].name =>
         file[p].kind = module[j].kind /\ file[p].code = module[j].code
(* The developer says no once.                                             *)
NoIsLast(s) == s.always = "no" <=> s.blank
(* As long as nobody was asked, all is kept but what has a cause.          *)
Unasked(s, i) ==
  ~s.threw /\ s.always = None =>
    \A j \in 1 .. i, p \in DOMAIN file : file[p].name = module[j].name =>
      /\ file[p].kind = module[j].kind
      /\ module[j].kind = "event" => module[j].name \in s.keep
      /\ module[j].kind = "contract" =>
           \/ module[j].name \in s.keep \/ file[p].code # module[j].code
           \/ s.f[p].address = None
(* What is gone is kept only when the developer says so, and that once.    *)
OneGone(s) ==
  \E q : \A p \in DOMAIN file :
    file[p].name \in s.keep /\ s.f[p].address = "gone" => s.blank /\ p = q
(* Without a loss, what is unchanged is kept, and forgets its address only *)
(* for one that takes it.                                                  *)
Unforced(s, i) ==
  (\A p \in DOMAIN file : file[p].address # "gone") /\ ~s.threw =>
    /\ s.always = None
    /\ \A j \in 1 .. i : Untouched(module[j].name) /\ module[j].kind = "contract" => module[j].name \in s.keep
    /\ \A p \in DOMAIN file : s.f[p].address # file[p].address =>
         /\ file[p].name \in s.keep
         /\ \E k \in 1 .. i : /\ module[k].kind = "contract" /\ ~Untouched(module[k].name)
                              /\ file[p].name \in AllArguments[k]

(* An element without a record, or one that was reached after the end of   *)
(* the resolver, changes nothing; others do as in StepCases.               *)
Passes(s, t, i, p, answer) ==
  /\ ~s.threw /\ ~s.blank /\ p \in DOMAIN file /\ file[p].name = module[i].name
  /\ \/ t = s /\ s.always = "yes" /\ (module[i].kind # "contract" \/ file[p].kind = "event")
     \/ Throws(s, t, i, p)
     \/ KeepsHook(s, t, i, p)
     \/ /\ module[i].kind = "contract" /\ file[p].kind = "contract" /\ Answered(s, t, p, answer)
        /\ KeepsContract(s, t, i, p) \/ Blanks(s, t, i, p) \/ Redoes(s, t, i, p)
Unmoved(s, t, i) ==
  t = s /\ (s.threw \/ s.blank \/ \A p \in DOMAIN file : file[p].name # module[i].name)

LEMMA StepSplit ==
  ASSUME Recorded, NEW answer, NEW i \in DOMAIN module, NEW s \in States, Weaker(s.f),
         NEW t, t = ResolveElement(s, module[i], answer)
  PROVE  Unmoved(s, t, i) \/ \E p : Passes(s, t, i, p, answer)
<1>1. CASE s.threw \/ s.blank \/ \A p \in DOMAIN file : file[p].name # module[i].name
  BY <1>1, NoRecord DEF Unmoved
<1>2. CASE ~s.threw /\ ~s.blank /\ \E p \in DOMAIN file : file[p].name = module[i].name
  <2>1. PICK p \in DOMAIN file : file[p].name = module[i].name
    BY <1>2
  <2>2. Passes(s, t, i, p, answer)
    BY <1>2, <2>1, StepCases DEF Passes
  <2> QED
    BY <2>2
<1> QED
  BY <1>1, <1>2

(* The record of an element is the only one of its name, and the element   *)
(* was not kept before.                                                    *)
LEMMA OneOfName ==
  ASSUME Recorded, NEW i \in DOMAIN module, NEW s, Kept(s, i - 1)
  PROVE  /\ i \in Nat /\ i - 1 \in Nat /\ module[i].name \notin s.keep
         /\ \A j \in 1 .. i - 1 : j \in 1 .. i /\ j \in DOMAIN module /\ j # i
         /\ \A j \in 1 .. i : j \in 1 .. i - 1 \/ j = i
         /\ i \in 1 .. i
         /\ \A j \in DOMAIN module : module[j].name = module[i].name => j = i
         /\ \A p, q \in DOMAIN file : file[p].name = file[q].name => p = q
<1>1. /\ Len(module) \in Nat /\ i \in 1 .. Len(module) /\ DOMAIN module = 1 .. Len(module)
  BY ModuleFields
<1>2. \A j \in DOMAIN module : module[j].name = module[i].name => j = i
  BY ModuleFields DEF Distinct
<1>3. \A p, q \in DOMAIN file : file[p].name = file[q].name => p = q
  BY FileFields DEF Distinct
<1>4. \A j \in 1 .. i - 1 : j \in 1 .. i /\ j \in DOMAIN module /\ j # i
  BY <1>1
<1>5. module[i].name \notin s.keep
  BY <1>2, <1>4 DEF Kept
<1>6. i \in Nat /\ i - 1 \in Nat /\ i \in 1 .. i /\ \A j \in 1 .. i : j \in 1 .. i - 1 \/ j = i
  BY <1>1
<1> QED
  BY <1>2, <1>3, <1>4, <1>5, <1>6

LEMMA KeptStep ==
  ASSUME Recorded, NEW answer, NEW i \in DOMAIN module, NEW s \in States, Weaker(s.f),
         NEW t, t = ResolveElement(s, module[i], answer), Kept(s, i - 1)
  PROVE  Kept(t, i)
<1>1. CASE t.keep = s.keep
  BY <1>1, OneOfName DEF Kept
<1>2. ASSUME NEW p \in DOMAIN file, file[p].name = module[i].name, file[p].kind = module[i].kind,
             file[p].code = module[i].code,
             t.keep = s.keep \cup {module[i].name}
      PROVE  Kept(t, i)
  <2>1. \A n \in t.keep : \E j \in 1 .. i : module[j].name = n
    BY <1>2, OneOfName DEF Kept
  <2>2. \A n \in t.keep : \E q \in DOMAIN file : file[q].name = n
    BY <1>2 DEF Kept
  <2>3. ASSUME NEW j \in DOMAIN module, NEW q \in DOMAIN file,
               module[j].name \in t.keep, file[q].name = module[j].name
        PROVE  file[q].kind = module[j].kind /\ file[q].code = module[j].code
    <3>1. CASE module[j].name \in s.keep
      BY <2>3, <3>1 DEF Kept
    <3>2. CASE module[j].name = module[i].name
      <4>1. j = i /\ q = p
        BY <1>2, <2>3, <3>2, OneOfName
      <4> QED
        BY <1>2, <4>1
    <3> QED
      BY <1>2, <2>3, <3>1, <3>2
  <2> QED
    BY <2>1, <2>2, <2>3 DEF Kept
<1>3. CASE Unmoved(s, t, i)
  BY <1>1, <1>3 DEF Unmoved
<1>4. ASSUME NEW p, Passes(s, t, i, p, answer) PROVE Kept(t, i)
  <2>1. p \in DOMAIN file /\ file[p].name = module[i].name
    BY <1>4 DEF Passes
  <2>2. CASE KeepsHook(s, t, i, p)
    BY <1>2, <2>1, <2>2 DEF KeepsHook
  <2>3. CASE module[i].kind = "contract" /\ file[p].kind = "contract" /\ KeepsContract(s, t, i, p)
    BY <1>2, <2>1, <2>3 DEF KeepsContract
  <2>4. CASE t = s \/ Throws(s, t, i, p) \/ Blanks(s, t, i, p) \/ Redoes(s, t, i, p)
    BY <1>1, <2>4 DEF Throws, Blanks, Redoes
  <2> QED
    BY <1>4, <2>2, <2>3, <2>4 DEF Passes
<1> QED
  BY <1>3, <1>4, StepSplit

LEMMA NoIsLastStep ==
  ASSUME Recorded, NEW answer \in {"yes", "no"}, NEW i \in DOMAIN module, NEW s \in States, Weaker(s.f),
         NEW t, t = ResolveElement(s, module[i], answer), NoIsLast(s)
  PROVE  NoIsLast(t)
<1>1. CASE Unmoved(s, t, i)
  BY <1>1 DEF Unmoved
<1>2. ASSUME NEW p, Passes(s, t, i, p, answer) PROVE NoIsLast(t)
  BY <1>2 DEF Passes, Throws, KeepsHook, Answered, NoIsLast
<1> QED
  BY <1>1, <1>2, StepSplit

LEMMA UnaskedStep ==
  ASSUME Recorded, NEW answer \in {"yes", "no"}, NEW i \in DOMAIN module, NEW s \in States, Weaker(s.f),
         NEW t, t = ResolveElement(s, module[i], answer),
         Kept(s, i - 1), NoIsLast(s), Unasked(s, i - 1)
  PROVE  Unasked(t, i)
<1> SUFFICES ASSUME ~t.threw, t.always = None, NEW j \in 1 .. i, NEW q \in DOMAIN file,
                    file[q].name = module[j].name
             PROVE  /\ file[q].kind = module[j].kind
                    /\ module[j].kind = "event" => module[j].name \in t.keep
                    /\ module[j].kind = "contract" =>
                         \/ module[j].name \in t.keep \/ file[q].code # module[j].code
                         \/ t.f[q].address = None
  BY DEF Unasked
<1>1. CASE Unmoved(s, t, i)
  <2>1. t = s /\ ~s.blank /\ ~s.threw
    BY <1>1 DEF Unmoved, NoIsLast, None
  <2>2. j # i
    BY <1>1, <2>1 DEF Unmoved
  <2>3. j \in 1 .. i - 1
    BY <2>2, OneOfName
  <2> QED
    BY <2>1, <2>3 DEF Unasked
<1>2. ASSUME NEW p, Passes(s, t, i, p, answer)
      PROVE  /\ file[q].kind = module[j].kind
             /\ module[j].kind = "event" => module[j].name \in t.keep
             /\ module[j].kind = "contract" =>
                  \/ module[j].name \in t.keep \/ file[q].code # module[j].code
                  \/ t.f[q].address = None
  <2>1. /\ ~s.threw /\ ~s.blank /\ s.always = None /\ p \in DOMAIN file
        /\ file[p].name = module[i].name
    BY <1>2 DEF Passes, Throws, KeepsHook, Answered, None
  <2>2. s.keep \subseteq t.keep /\ (s.f[q].address = None => t.f[q].address = None)
    <3>1. s.f \in [DOMAIN file -> Rec]
      BY DEF States
    <3>2. Invalidated(s.f, s.keep, module[i].name)[q].address \in {None, s.f[q].address}
      BY <3>1, InvalidatedFields
    <3> QED
      BY <1>2, <3>2 DEF Passes, Throws, KeepsHook, KeepsContract, Blanks, Redoes
  <2>3. CASE j \in 1 .. i - 1
    BY <2>1, <2>2, <2>3 DEF Unasked
  <2>4. CASE j = i
    <3>1. q = p
      BY <2>1, <2>4, OneOfName
    <3>2. s.always # "yes" /\ ~Throws(s, t, i, p)
      BY <2>1 DEF Throws, None
    <3>3. CASE KeepsHook(s, t, i, p)
      BY <2>4, <3>1, <3>3 DEF KeepsHook
    <3>4. CASE /\ module[i].kind = "contract" /\ file[p].kind = "contract"
               /\ KeepsContract(s, t, i, p)
      BY <2>4, <3>1, <3>4 DEF KeepsContract
    <3>5. CASE /\ module[i].kind = "contract" /\ file[p].kind = "contract"
               /\ Blanks(s, t, i, p) \/ Redoes(s, t, i, p)
      BY <2>2, <2>4, <3>1, <3>5 DEF Blanks, Redoes, None
    <3> QED
      BY <1>2, <2>1, <3>2, <3>3, <3>4, <3>5 DEF Passes
  <2> QED
    BY <2>3, <2>4, OneOfName
<1> QED
  BY <1>1, <1>2, StepSplit

LEMMA OneGoneStep ==
  ASSUME Recorded, NEW answer \in {"yes", "no"}, NEW i \in DOMAIN module, NEW s \in States, Weaker(s.f),
         NEW t, t = ResolveElement(s, module[i], answer),
         Kept(s, i - 1), NoIsLast(s), OneGone(s)
  PROVE  OneGone(t)
<1>1. PICK x : \A q \in DOMAIN file :
                 file[q].name \in s.keep /\ s.f[q].address = "gone" => s.blank /\ q = x
  BY DEF OneGone
<1>2. CASE t = s
  BY <1>2
<1>3. ASSUME NEW p, Passes(s, t, i, p, answer), t # s PROVE OneGone(t)
  <2>1. ~s.threw /\ ~s.blank /\ p \in DOMAIN file /\ file[p].name = module[i].name
    BY <1>3 DEF Passes
  <2>2. \A q \in DOMAIN file : ~(file[q].name \in s.keep /\ s.f[q].address = "gone")
    BY <1>1, <2>1
  <2>3. CASE t.keep = s.keep /\ (t.f = s.f \/ t.f = Invalidated(s.f, s.keep, module[i].name))
    <3>1. s.f \in [DOMAIN file -> Rec]
      BY DEF States
    <3>2. ASSUME NEW q \in DOMAIN file
          PROVE  Invalidated(s.f, s.keep, module[i].name)[q].address \in {None, s.f[q].address}
      BY <3>1, InvalidatedFields
    <3>3. \A q \in DOMAIN file : t.f[q].address = "gone" => s.f[q].address = "gone"
      BY <2>3, <3>2 DEF None
    <3> QED
      BY <2>2, <2>3, <3>3 DEF OneGone
  <2>4. ASSUME t.f = s.f, t.keep = s.keep \cup {module[i].name}, s.f[p].address = "gone" => t.blank
        PROVE  OneGone(t)
    <3>1. \A q \in DOMAIN file : file[q].name = module[i].name => q = p
      BY <2>1, OneOfName
    <3>2. \A q \in DOMAIN file : file[q].name \in t.keep /\ t.f[q].address = "gone" => t.blank /\ q = p
      BY <2>2, <2>4, <3>1
    <3> QED
      BY <3>2 DEF OneGone
  <2>5. CASE Throws(s, t, i, p) \/ Blanks(s, t, i, p) \/ Redoes(s, t, i, p)
    BY <2>3, <2>5 DEF Throws, Blanks, Redoes
  <2>6. CASE KeepsHook(s, t, i, p)
    <3>1. s.f[p].address # "gone"
      BY <2>1, <2>6 DEF KeepsHook, Recorded, FileOK, Weaker, None
    <3> QED
      BY <2>4, <2>6, <3>1 DEF KeepsHook
  <2>7. CASE KeepsContract(s, t, i, p) /\ Answered(s, t, p, answer)
    <3>1. s.f[p].address = "gone" => t.blank
      <4>1. s.always \in {None, "yes", "no"}
        BY DEF States
      <4> QED
        BY <2>1, <2>7, <4>1 DEF KeepsContract, Answered, NoIsLast
    <3> QED
      BY <2>4, <2>7, <3>1 DEF KeepsContract
  <2> QED
    BY <1>3, <2>5, <2>6, <2>7 DEF Passes
<1> QED
  BY <1>2, <1>3, StepSplit DEF Unmoved

(***************************************************************************)
(* Arguments of arguments.  What is defined by going back through the      *)
(* module exists, and what a redeployment forgets are arguments that were  *)
(* kept.                                                                   *)
(***************************************************************************)
Back(g, C, a, b, n) == g = [i \in 1 .. n |-> IF i \in C THEN {a[i]} \cup g[b[i]] ELSE {}]

LEMMA BackExists ==
  ASSUME NEW n \in Nat, NEW C, NEW a, NEW b, \A i \in C : b[i] \in 1 .. i - 1
  PROVE  \E g : Back(g, C, a, b, n)
<1> DEFINE Upto(g, m) == /\ g = [i \in 1 .. n |-> g[i]]
                         /\ \A i \in 1 .. m : g[i] = IF i \in C THEN {a[i]} \cup g[b[i]] ELSE {}
           T == {m \in 0 .. n : ~\E g : Upto(g, m)}
<1>1. CASE T # {}
  <2>1. T \subseteq Nat
    OBVIOUS
  <2>2. PICK m \in T : \A k \in T : m <= k
    BY <1>1, <2>1, Least
  <2>3. m # 0
    <3>1. Upto([i \in 1 .. n |-> {}], 0)
      OBVIOUS
    <3> QED
      BY <2>2, <3>1
  <2>4. m \in 1 .. n /\ m - 1 \in 0 .. n /\ m - 1 \notin T
    <3>1. m \in 0 .. n
      BY <2>2
    <3> HIDE DEF T
    <3>2. m - 1 \notin T
      BY <2>2, <3>1
    <3> QED
      BY <2>3, <3>1, <3>2
  <2>5. PICK r : Upto(r, m - 1)
    BY <2>4
  <2> DEFINE v == IF m \in C THEN {a[m]} \cup r[b[m]] ELSE {}
             g == [i \in 1 .. n |-> IF i = m THEN v ELSE r[i]]
  <2>6. g[m] = v /\ \A i \in 1 .. n : i # m => g[i] = r[i]
    BY <2>4
  <2>7. \A i \in 1 .. m : i \in C => b[i] \in 1 .. n /\ b[i] # m
    BY <2>4
  <2>8. ASSUME NEW i \in 1 .. m PROVE g[i] = IF i \in C THEN {a[i]} \cup g[b[i]] ELSE {}
    <3>1. i \in C => g[b[i]] = r[b[i]]
      BY <2>6, <2>7
    <3>2. CASE i = m
      BY <2>6, <3>1, <3>2
    <3>3. CASE i # m
      <4>1. i \in 1 .. m - 1 /\ i \in 1 .. n
        BY <2>4, <3>3
      <4>2. r[i] = IF i \in C THEN {a[i]} \cup r[b[i]] ELSE {}
        BY <2>5, <4>1
      <4> QED
        BY <2>6, <3>1, <3>3, <4>1, <4>2
    <3> QED
      BY <3>2, <3>3
  <2>9. g = [i \in 1 .. n |-> g[i]]
    OBVIOUS
  <2> HIDE DEF g
  <2>10. Upto(g, m)
    BY <2>8, <2>9
  <2> QED
    BY <2>2, <2>10
<1>2. CASE T = {}
  <2>1. n \in 0 .. n
    OBVIOUS
  <2>2. PICK g : Upto(g, n)
    BY <1>2, <2>1
  <2>3. Back(g, C, a, b, n)
    BY <2>2 DEF Back
  <2> QED
    BY <2>3
<1> QED
  BY <1>1, <1>2

(* A binding that an element is on comes before it.                        *)
LEMMA OnIsBefore ==
  ASSUME DiffAssumption, Recorded, NEW i \in DOMAIN module, module[i].on \in Names
  PROVE  Pos(module[i].on) \in 1 .. i - 1 /\ Arguments[i] = {module[i].on}
<1>1. PICK j \in 1 .. i - 1 : module[j].name = module[i].on
  BY DEF DiffAssumption, Recorded, WellFormed
<1>2. j \in DOMAIN module
  BY ModuleFields
<1>3. Pos(module[i].on) = j
  BY <1>1, <1>2, PosName DEF Recorded
<1> QED
  BY <1>1, <1>3 DEF Arguments

LEMMA AllArgumentsAre ==
  ASSUME DiffAssumption, Recorded, NEW i \in DOMAIN module, module[i].on \in Names
  PROVE  AllArguments[i] = {module[i].on} \cup AllArguments[Pos(module[i].on)]
<1> DEFINE n == Len(module)
           C == {k \in DOMAIN module : Arguments[k] # {}}
           a == [k \in DOMAIN module |-> module[k].on]
           b == [k \in DOMAIN module |-> Pos(module[k].on)]
           D(g) == g = [k \in DOMAIN module |-> Arguments[k] \cup UNION {g[Pos(m)] : m \in Arguments[k]}]
<1>1. n \in Nat /\ DOMAIN module = 1 .. n
  BY ModuleFields
<1>2. ASSUME NEW k \in C
      PROVE  b[k] \in 1 .. k - 1 /\ Arguments[k] = {a[k]} /\ b[k] = Pos(a[k])
  <2>1. k \in DOMAIN module /\ Arguments[k] # {}
    OBVIOUS
  <2>2. PICK j \in 1 .. k - 1 : module[j].name = module[k].on
    BY <2>1 DEF Arguments
  <2>3. module[k].on \in Names
    BY <1>1, <2>1, <2>2, ModuleFields, ElementFields
  <2> QED
    BY <2>1, <2>3, OnIsBefore
<1>3. \A k \in DOMAIN module : k \notin C => Arguments[k] = {}
  OBVIOUS
<1> HIDE DEF C, a, b, n
<1>4. PICK g : Back(g, C, a, b, n)
  BY <1>1, <1>2, BackExists
<1>5. D(g)
  <2>1. \A k \in DOMAIN module : (IF k \in C THEN {a[k]} \cup g[b[k]] ELSE {})
                                   = Arguments[k] \cup UNION {g[Pos(m)] : m \in Arguments[k]}
    BY <1>2, <1>3
  <2> QED
    BY <1>1, <1>4, <2>1 DEF Back
<1>6. AllArguments = CHOOSE h : D(h)
  BY DEF AllArguments
<1>7. D(AllArguments)
  <2> HIDE DEF D
  <2> QED
    BY <1>5, <1>6, Zenon
<1>8. AllArguments[i] = Arguments[i] \cup UNION {AllArguments[Pos(m)] : m \in Arguments[i]}
  BY <1>7
<1> QED
  BY <1>8, OnIsBefore

LEMMA ForgottenArguments ==
  ASSUME DiffAssumption, Recorded, NEW f, NEW keep \in SUBSET Names, NEW i \in DOMAIN module
  PROVE  Forgotten(f, keep, module[i].name) \subseteq keep \cap AllArguments[i]
<1> DEFINE n == Len(module)
           C == {k \in DOMAIN module : module[k].on \in keep /\ At(f, module[k].on).address # None}
           a == [k \in DOMAIN module |-> module[k].on]
           b == [k \in DOMAIN module |-> Pos(module[k].on)]
           D(g) == g = [k \in DOMAIN module |->
                          IF module[k].on \in keep /\ At(f, module[k].on).address # None
                          THEN {module[k].on} \cup g[Pos(module[k].on)] ELSE {}]
           from == CHOOSE g : D(g)
<1>1. n \in Nat /\ DOMAIN module = 1 .. n
  BY ModuleFields
<1>2. ASSUME NEW k \in C
      PROVE  /\ k \in DOMAIN module /\ b[k] \in 1 .. k - 1 /\ a[k] = module[k].on /\ b[k] = Pos(a[k])
             /\ a[k] \in keep /\ AllArguments[k] = {a[k]} \cup AllArguments[b[k]]
  BY <1>2, OnIsBefore, AllArgumentsAre
<1>3. \A k \in DOMAIN module : k \in C <=> module[k].on \in keep /\ At(f, module[k].on).address # None
  OBVIOUS
<1>4. Forgotten(f, keep, module[i].name) = from[i]
  <2>1. Pos(module[i].name) = i
    BY PosName DEF Recorded
  <2> QED
    BY <2>1 DEF Forgotten
<1> HIDE DEF C, a, b, n
<1>5. D(from)
  <2>1. PICK g : Back(g, C, a, b, n)
    BY <1>1, <1>2, BackExists
  <2>2. ASSUME NEW k \in DOMAIN module
        PROVE  (IF k \in C THEN {a[k]} \cup g[b[k]] ELSE {})
                 = IF module[k].on \in keep /\ At(f, module[k].on).address # None
                   THEN {module[k].on} \cup g[Pos(module[k].on)] ELSE {}
    <3>1. CASE k \in C
      <4>1. a[k] = module[k].on /\ b[k] = Pos(module[k].on)
        BY <1>2, <3>1
      <4> QED
        BY <1>3, <3>1, <4>1
    <3>2. CASE k \notin C
      BY <1>3, <3>2
    <3> QED
      BY <3>1, <3>2
  <2>3. D(g)
    BY <1>1, <2>1, <2>2 DEF Back
  <2> HIDE DEF D
  <2> QED
    BY <2>3, Zenon
<1>6. \A k \in DOMAIN module : from[k] = IF k \in C THEN {a[k]} \cup from[b[k]] ELSE {}
  <2> HIDE DEF from
  <2> SUFFICES ASSUME NEW k \in DOMAIN module
               PROVE  from[k] = IF k \in C THEN {a[k]} \cup from[b[k]] ELSE {}
    OBVIOUS
  <2>1. from[k] = IF module[k].on \in keep /\ At(f, module[k].on).address # None
                  THEN {module[k].on} \cup from[Pos(module[k].on)] ELSE {}
    BY <1>5
  <2>2. CASE k \in C
    <3>1. a[k] = module[k].on /\ b[k] = Pos(module[k].on)
      BY <1>2, <2>2
    <3> QED
      BY <1>3, <2>1, <2>2, <3>1
  <2>3. CASE k \notin C
    BY <1>3, <2>1, <2>3
  <2> QED
    BY <2>2, <2>3
<1> HIDE DEF from
<1> DEFINE B == {k \in DOMAIN module : ~(from[k] \subseteq keep \cap AllArguments[k])}
<1>7. CASE B # {}
  <2>1. B \subseteq Nat
    BY <1>1
  <2>2. PICK m \in B : \A k \in B : m <= k
    BY <1>7, <2>1, Least
  <2>3. m \in C
    BY <1>6, <2>2
  <2>4. b[m] \in DOMAIN module /\ b[m] \notin B
    <3>1. b[m] \in 1 .. m - 1 /\ m \in 1 .. n
      BY <1>1, <1>2, <2>3
    <3>2. b[m] \in DOMAIN module /\ ~(m <= b[m])
      BY <1>1, <3>1
    <3> QED
      BY <2>2, <3>2
  <2>5. from[b[m]] \subseteq keep \cap AllArguments[b[m]]
    BY <2>4
  <2>6. from[m] = {a[m]} \cup from[b[m]]
    BY <1>6, <2>2, <2>3
  <2>7. from[m] \subseteq keep \cap AllArguments[m]
    BY <1>2, <2>3, <2>5, <2>6
  <2> QED
    BY <2>2, <2>7
<1>8. CASE B = {}
  BY <1>4, <1>8
<1> QED
  BY <1>7, <1>8

LEMMA UntouchedIs ==
  ASSUME Recorded, NEW i \in DOMAIN module
  PROVE  Untouched(module[i].name) =>
           \E p \in DOMAIN file :
             /\ file[p].name = module[i].name /\ file[p].kind = "contract" /\ module[i].kind = "contract"
             /\ file[p].code = module[i].code /\ file[p].address = "live"
<1>1. At(module, module[i].name) = module[i]
  BY ModuleFields, AtName
<1>2. \A p \in DOMAIN file : At(file, file[p].name) = file[p]
  BY FileFields, AtName
<1> QED
  BY <1>1, <1>2 DEF Untouched, NameSet

LEMMA UnforcedStep ==
  ASSUME DiffAssumption, Recorded, NEW answer \in {"yes", "no"}, NEW i \in DOMAIN module,
         NEW s \in States, Weaker(s.f), NEW t, t = ResolveElement(s, module[i], answer),
         Kept(s, i - 1), NoIsLast(s), Unforced(s, i - 1)
  PROVE  Unforced(t, i)
<1> DEFINE Taken(p, k) == /\ module[k].kind = "contract" /\ ~Untouched(module[k].name)
                          /\ file[p].name \in AllArguments[k]
<1> SUFFICES ASSUME \A p \in DOMAIN file : file[p].address # "gone", ~t.threw
    PROVE  /\ t.always = None
           /\ \A j \in 1 .. i : Untouched(module[j].name) /\ module[j].kind = "contract" => module[j].name \in t.keep
           /\ \A p \in DOMAIN file : t.f[p].address # file[p].address =>
                file[p].name \in t.keep /\ \E k \in 1 .. i : Taken(p, k)
  BY DEF Unforced
<1> HIDE DEF Taken
<1>1. CASE Unmoved(s, t, i)
  <2>1. t = s /\ ~s.threw
    BY <1>1 DEF Unmoved
  <2>2. /\ s.always = None
        /\ \A j \in 1 .. i - 1 : Untouched(module[j].name) /\ module[j].kind = "contract" => module[j].name \in s.keep
        /\ \A p \in DOMAIN file : s.f[p].address # file[p].address =>
             file[p].name \in s.keep /\ \E k \in 1 .. i - 1 : Taken(p, k)
    BY <2>1 DEF Unforced, Taken
  <2>3. ~s.blank
    BY <2>2 DEF NoIsLast, None
  <2>4. ~Untouched(module[i].name)
    BY <1>1, <2>1, <2>3, UntouchedIs DEF Unmoved
  <2> QED
    BY <2>1, <2>2, <2>4, OneOfName
<1>2. ASSUME NEW p, Passes(s, t, i, p, answer)
      PROVE  /\ t.always = None
             /\ \A j \in 1 .. i : Untouched(module[j].name) /\ module[j].kind = "contract" => module[j].name \in t.keep
             /\ \A q \in DOMAIN file : t.f[q].address # file[q].address =>
                  file[q].name \in t.keep /\ \E k \in 1 .. i : Taken(q, k)
  <2>1. ~s.threw /\ ~s.blank /\ p \in DOMAIN file /\ file[p].name = module[i].name
    BY <1>2 DEF Passes
  <2>2. s.always = None
    BY <2>1 DEF Unforced
  <2>3. \A j \in 1 .. i - 1 : Untouched(module[j].name) /\ module[j].kind = "contract" => module[j].name \in s.keep
    BY <2>1 DEF Unforced
  <2>4. \A q \in DOMAIN file : s.f[q].address # file[q].address =>
             file[q].name \in s.keep /\ \E k \in 1 .. i - 1 : Taken(q, k)
    BY <2>1 DEF Unforced, Taken
  <2>5. s.always # "yes" /\ ~Throws(s, t, i, p)
    BY <2>2 DEF Throws, None
  <2>6. s.f[p].address # "gone"
    BY <2>1 DEF Weaker, None
  <2>7. CASE KeepsHook(s, t, i, p)
    <3>1. t.always = None /\ t.f = s.f /\ s.keep \subseteq t.keep /\ module[i].kind # "contract"
      BY <2>2, <2>7 DEF KeepsHook
    <3> QED
      BY <2>3, <2>4, <3>1, OneOfName
  <2>8. CASE Answered(s, t, p, answer) /\ KeepsContract(s, t, i, p)
    <3>1. t.always = None
      BY <2>2, <2>6, <2>8 DEF Answered
    <3>2. t.f = s.f /\ s.keep \subseteq t.keep /\ module[i].name \in t.keep
      BY <2>8 DEF KeepsContract
    <3> QED
      BY <2>3, <2>4, <3>1, <3>2, OneOfName
  <2>9. CASE Answered(s, t, p, answer) /\ Blanks(s, t, i, p)
    BY <2>2, <2>6, <2>9 DEF Answered, Blanks
  <2>10. CASE Answered(s, t, p, answer) /\ Redoes(s, t, i, p) /\ module[i].kind = "contract"
    <3>1. t.always = None
      BY <2>2, <2>6, <2>10 DEF Answered
    <3>2. t.keep = s.keep /\ t.f = Invalidated(s.f, s.keep, module[i].name)
      BY <2>10 DEF Redoes
    <3>3. file[p].code # module[i].code \/ file[p].address = None
      <4>1. file[p].code # module[i].code \/ s.f[p].address = None
        BY <2>10, <3>1 DEF Redoes, None
      <4>2. s.f[p].address = file[p].address
        BY <2>1, <2>4, OneOfName
      <4> QED
        BY <4>1, <4>2
    <3>4. ~Untouched(module[i].name)
      BY <2>1, <3>3, UntouchedIs, OneOfName DEF None
    <3>5. ASSUME NEW q \in DOMAIN file, t.f[q].address # file[q].address
          PROVE  file[q].name \in t.keep /\ \E k \in 1 .. i : Taken(q, k)
      <4>1. s.f \in [DOMAIN file -> Rec] /\ s.keep \in SUBSET Names
        BY DEF States
      <4>2. s.f[q].name = file[q].name
        BY DEF Weaker
      <4>3. CASE s.f[q].address # file[q].address
        BY <2>4, <3>2, <4>3, OneOfName
      <4>4. CASE s.f[q].address = file[q].address
        <5>1. t.f[q].address = IF s.f[q].name \in Forgotten(s.f, s.keep, module[i].name)
                               THEN None ELSE s.f[q].address
          BY <3>2, <4>1, InvalidatedFields
        <5>2. file[q].name \in Forgotten(s.f, s.keep, module[i].name)
          BY <3>5, <4>2, <4>4, <5>1
        <5>3. file[q].name \in s.keep /\ file[q].name \in AllArguments[i]
          BY <4>1, <5>2, ForgottenArguments
        <5>4. Taken(q, i)
          BY <2>10, <3>4, <5>3 DEF Taken
        <5> QED
          BY <3>2, <5>3, <5>4, OneOfName
      <4> QED
        BY <4>3, <4>4
    <3>6. \A j \in 1 .. i : Untouched(module[j].name) /\ module[j].kind = "contract" => module[j].name \in t.keep
      BY <2>3, <3>2, <3>4, OneOfName
    <3> QED
      BY <3>1, <3>5, <3>6
  <2> QED
    BY <1>2, <2>5, <2>7, <2>8, <2>9, <2>10 DEF Passes
<1> QED
  BY <1>1, <1>2, StepSplit

(***************************************************************************)
(* And so of its result.                                                   *)
(***************************************************************************)
Loop(s, i) == /\ s \in States /\ Weaker(s.f)
              /\ Kept(s, i) /\ NoIsLast(s) /\ Unasked(s, i) /\ OneGone(s) /\ Unforced(s, i)

LEMMA BeginLoop == ASSUME Recorded PROVE Loop(Begin, 0)
<1>1. Begin \in States /\ Weaker(Begin.f)
  <2>1. file \in [DOMAIN file -> Rec]
    BY FileFields DEF Recorded, FileOK
  <2> QED
    BY <2>1 DEF Begin, States, Weaker
<1>2. Kept(Begin, 0) /\ Unasked(Begin, 0)
  BY DEF Begin, Kept, Unasked
<1>3. NoIsLast(Begin) /\ OneGone(Begin) /\ Unforced(Begin, 0)
  BY DEF Begin, NoIsLast, OneGone, Unforced, None
<1> QED
  BY <1>1, <1>2, <1>3 DEF Loop

LEMMA LoopStep ==
  ASSUME DiffAssumption, Recorded, NEW answer \in {"yes", "no"}, NEW i \in DOMAIN module,
         NEW s, Loop(s, i - 1)
  PROVE  Loop(ResolveElement(s, module[i], answer), i)
<1> DEFINE t == ResolveElement(s, module[i], answer)
<1>1. s \in States /\ Weaker(s.f) /\ Kept(s, i - 1) /\ NoIsLast(s) /\ Unasked(s, i - 1) /\ OneGone(s) /\ Unforced(s, i - 1)
  BY DEF Loop
<1>2. t \in States /\ Weaker(t.f)
  BY <1>1, StepType
<1>3. Kept(t, i) /\ NoIsLast(t)
  BY <1>1, KeptStep, NoIsLastStep
<1>4. Unasked(t, i)
  BY <1>1, UnaskedStep
<1>5. OneGone(t)
  BY <1>1, OneGoneStep
<1>6. Unforced(t, i)
  BY <1>1, UnforcedStep
<1> QED
  BY <1>2, <1>3, <1>4, <1>5, <1>6 DEF Loop

LEMMA LoopEnds ==
  ASSUME DiffAssumption, Recorded, NEW answer \in {"yes", "no"}
  PROVE  Loop(Resolve(answer), Len(module))
<1> DEFINE n == Len(module)
<1>1. n \in Nat /\ DOMAIN module = 1 .. n
  BY ModuleFields
<1>2. PICK a : /\ a[0] = Begin /\ Resolve(answer) = a[n]
               /\ \A i \in DOMAIN module : a[i] = ResolveElement(a[i - 1], module[i], answer)
  BY ResolveGoes
<1> DEFINE B == {i \in 0 .. n : ~Loop(a[i], i)}
<1> HIDE DEF n
<1>3. CASE B # {}
  <2>1. B \subseteq Nat
    BY <1>1
  <2>2. PICK m \in B : \A k \in B : m <= k
    BY <1>3, <2>1, Least
  <2>3. m \in 0 .. n /\ ~Loop(a[m], m)
    BY <2>2
  <2>4. m # 0
    BY <1>2, <2>3, BeginLoop
  <2>5. m \in DOMAIN module /\ m - 1 \in 0 .. n /\ ~(m <= m - 1)
    BY <1>1, <2>3, <2>4
  <2>6. Loop(a[m - 1], m - 1)
    BY <2>2, <2>5
  <2>7. Loop(ResolveElement(a[m - 1], module[m], answer), m)
    BY <2>5, <2>6, LoopStep
  <2> QED
    BY <1>2, <2>3, <2>5, <2>7
<1>4. CASE B = {}
  <2>1. n \in 0 .. n
    BY <1>1
  <2> QED
    BY <1>2, <1>4, <2>1 DEF n
<1> QED
  BY <1>3, <1>4

(***************************************************************************)
(* The module as it is resolved.                                           *)
(***************************************************************************)
LEMMA ResolvedFields ==
  ASSUME Recorded, NEW s, Loop(s, Len(module))
  PROVE  /\ Resolved(s) \in [DOMAIN module -> Rec] /\ Resolved(s) \in Seq(Rec)
         /\ Len(Resolved(s)) = Len(module) /\ DOMAIN Resolved(s) = DOMAIN module
         /\ s.f \in Seq(Rec) /\ Len(s.f) = Len(file) /\ DOMAIN s.f = DOMAIN file
         /\ \A i \in DOMAIN module :
              LET new == Resolved(s)[i]
              IN /\ new.name = module[i].name /\ new.kind = module[i].kind
                 /\ new.code = module[i].code /\ new.on = module[i].on
                 /\ module[i].name \notin s.keep => new.address = None /\ ~new.executed
                 /\ \A p \in DOMAIN file : module[i].name \in s.keep /\ file[p].name = module[i].name =>
                      new.address = s.f[p].address /\ new.executed = s.f[p].executed
                 /\ new.kind = "event" => new.address = None
<1>1. /\ Len(module) \in Nat /\ DOMAIN module = 1 .. Len(module)
      /\ Len(file) \in Nat /\ DOMAIN file = 1 .. Len(file)
  BY ModuleFields, FileFields
<1>2. s.f \in [DOMAIN file -> Rec] /\ Weaker(s.f) /\ Kept(s, Len(module))
  BY DEF Loop, States
<1>3. ASSUME NEW p \in DOMAIN file PROVE At(s.f, file[p].name) = s.f[p]
  <2>1. Distinct(s.f)
    BY <1>2, FileFields DEF Weaker, Distinct
  <2>2. p \in DOMAIN s.f /\ s.f[p].name = file[p].name
    BY <1>2 DEF Weaker
  <2> QED
    BY <2>1, <2>2, AtName
<1>4. ASSUME NEW i \in DOMAIN module
      PROVE  /\ Resolved(s)[i] \in Rec
             /\ Resolved(s)[i].name = module[i].name /\ Resolved(s)[i].kind = module[i].kind
             /\ Resolved(s)[i].code = module[i].code /\ Resolved(s)[i].on = module[i].on
             /\ module[i].name \notin s.keep => Resolved(s)[i].address = None /\ ~Resolved(s)[i].executed
             /\ \A p \in DOMAIN file : module[i].name \in s.keep /\ file[p].name = module[i].name =>
                  Resolved(s)[i].address = s.f[p].address /\ Resolved(s)[i].executed = s.f[p].executed
             /\ Resolved(s)[i].kind = "event" => Resolved(s)[i].address = None
  <2> DEFINE e == module[i]
             new == Resolved(s)[i]
  <2>1. New(e) \in Rec /\ New(e).name = e.name /\ New(e).kind = e.kind /\ New(e).code = e.code
        /\ New(e).on = e.on /\ New(e).address = None /\ New(e).executed = FALSE
    <3>1. /\ e.name \in Names /\ e.kind \in {"contract", "event"} /\ e.code \in Codes \cup Types
          /\ e.on \in Names \cup Values \cup {None}
      BY ModuleFields, ElementFields
    <3> QED
      BY <3>1 DEF New, Rec
  <2>2. new = IF e.name \notin s.keep THEN New(e)
              ELSE [New(e) EXCEPT !.address = At(s.f, e.name).address, !.executed = At(s.f, e.name).executed]
    BY DEF Resolved
  <2> HIDE DEF e, new
  <2>3. CASE e.name \notin s.keep
    BY <2>1, <2>2, <2>3 DEF e, new
  <2>4. CASE e.name \in s.keep
    <3>1. PICK p \in DOMAIN file : file[p].name = e.name
      BY <1>2, <2>4 DEF Kept
    <3>2. At(s.f, e.name) = s.f[p] /\ s.f[p] \in Rec
      BY <1>2, <1>3, <3>1
    <3>3. \A q \in DOMAIN file : file[q].name = e.name => q = p
      BY <3>1, FileFields DEF Distinct
    <3>4. e.kind = "event" => s.f[p].address = None
      <4>1. file[p].kind = e.kind
        BY <1>2, <2>4, <3>1 DEF Kept, e
      <4> QED
        BY <1>2, <4>1 DEF Weaker, Recorded, FileOK
    <3>5. /\ new \in Rec /\ new.name = e.name /\ new.kind = e.kind /\ new.code = e.code /\ new.on = e.on
          /\ new.address = s.f[p].address /\ new.executed = s.f[p].executed
      BY <2>1, <2>2, <2>4, <3>2 DEF Rec
    <3> QED
      BY <2>4, <3>1, <3>3, <3>4, <3>5 DEF e, new
  <2> QED
    BY <2>3, <2>4
<1>5. Resolved(s) \in [DOMAIN module -> Rec]
  BY <1>4 DEF Resolved
<1>6. Resolved(s) \in Seq(Rec) /\ Len(Resolved(s)) = Len(module)
  BY <1>1, <1>5, FunctionIsSeq
<1>7. s.f \in Seq(Rec) /\ Len(s.f) = Len(file)
  BY <1>1, <1>2, FunctionIsSeq
<1> QED
  BY <1>2, <1>4, <1>5, <1>6, <1>7

LEMMA ToDoIs ==
  ASSUME NEW e \in Rec
  PROVE  ToDo(e) <=> IF e.kind = "event" THEN ~e.executed ELSE e.address = None
<1>1. e.executed \in BOOLEAN
  BY DEF Rec
<1>2. [e EXCEPT !.executed = TRUE].executed = TRUE /\ [e EXCEPT !.address = "live"].address = "live"
  BY DEF Rec
<1>3. e.executed => [e EXCEPT !.executed = TRUE] = e
  BY <1>1 DEF Rec
<1> QED
  BY <1>1, <1>2, <1>3 DEF ToDo, Finished, None

(* The first difference decides.                                           *)
LEMMA CheckSays ==
  ASSUME NEW old, NEW new, DOMAIN old \subseteq Nat
  PROVE  /\ CheckIfDiff(old, new) = "nothing" =>
              Len(old) = Len(new) /\ \A i \in DOMAIN old : Compare(old[i], new[i]) = "nothing"
         /\ CheckIfDiff(old, new) = "changed" =>
              Len(old) # Len(new) \/ \E i \in DOMAIN old : Compare(old[i], new[i]) = "changed"
<1> DEFINE found == {i \in DOMAIN old : Compare(old[i], new[i]) # "nothing"}
           first == CHOOSE i \in found : \A j \in found : i <= j
<1>1. CheckIfDiff(old, new) = IF Len(old) # Len(new) THEN "changed"
                              ELSE IF found = {} THEN "nothing" ELSE Compare(old[first], new[first])
  BY DEF CheckIfDiff
<1>2. found # {} => first \in found
  <2>1. found \subseteq Nat
    OBVIOUS
  <2> HIDE DEF found
  <2> QED
    BY <2>1, Least
<1> HIDE DEF first
<1> QED
  BY <1>1, <1>2

(***************************************************************************)
(* What diff says of the resolved module.                                  *)
(***************************************************************************)
LEMMA SilentResult ==
  ASSUME Recorded, NEW s, Loop(s, Len(module)), ~s.threw, s.always = None,
         CheckIfDiff(s.f, Resolved(s)) = "nothing",
         NEW i \in DOMAIN Resolved(s), Resolved(s)[i].name = s.f[i].name, ToDo(Resolved(s)[i])
  PROVE  Resolved(s)[i].kind = "event" /\ ~s.f[i].executed
<1> DEFINE new == Resolved(s)
<1>1. /\ i \in DOMAIN module /\ new[i] \in Rec /\ new[i].name = module[i].name
      /\ new[i].code = module[i].code /\ module[i].kind = new[i].kind
  BY ResolvedFields
<1>2. Len(s.f) = Len(new) /\ \A j \in DOMAIN s.f : Compare(s.f[j], new[j]) = "nothing"
  <2>1. DOMAIN s.f \subseteq Nat
    BY FileFields, ResolvedFields
  <2> QED
    BY <2>1, CheckSays
<1>3. i \in DOMAIN file /\ i \in DOMAIN s.f
  BY <1>1, <1>2, FileFields, ModuleFields, ResolvedFields
<1>4. file[i].name = module[i].name /\ file[i].code = s.f[i].code
  BY <1>1, <1>3 DEF Loop, Weaker
<1>5. Compare(s.f[i], new[i]) = "nothing"
  BY <1>2, <1>3
<1>6. i \in 1 .. Len(module)
  BY <1>1, ModuleFields
<1>7. CASE new[i].kind = "event"
  <2>1. module[i].name \in s.keep
    BY <1>1, <1>3, <1>4, <1>6, <1>7 DEF Loop, Unasked
  <2>2. new[i].executed = s.f[i].executed
    BY <1>1, <1>3, <1>4, <2>1, ResolvedFields
  <2> HIDE DEF new
  <2>3. ~new[i].executed
    BY <1>1, <1>7, ToDoIs DEF new
  <2> QED
    BY <1>7, <2>2, <2>3 DEF new
<1>8. CASE new[i].kind # "event"
  <2>1. s.f[i].code = new[i].code /\ s.f[i].address # None /\ module[i].kind = "contract"
    <3>1. new[i].kind = "contract"
      BY <1>1, <1>8 DEF Rec
    <3> HIDE DEF new
    <3> QED
      BY <1>1, <1>5, <3>1 DEF Compare, Both
  <2>2. module[i].name \in s.keep
    BY <1>1, <1>3, <1>4, <1>6, <2>1 DEF Loop, Unasked
  <2>3. new[i].address = s.f[i].address
    BY <1>1, <1>3, <1>4, <2>2, ResolvedFields
  <2> HIDE DEF new
  <2>4. ~ToDo(new[i])
    BY <1>1, <1>8, <2>1, <2>3, ToDoIs DEF new
  <2> QED
    BY <2>4 DEF new
<1> QED
  BY <1>7, <1>8

LEMMA AlarmResult ==
  ASSUME Recorded, NEW s, Loop(s, Len(module)),
         CheckIfDiff(s.f, Resolved(s)) = "changed",
         [i \in DOMAIN s.f |-> s.f[i].name] = [i \in DOMAIN Resolved(s) |-> Resolved(s)[i].name]
  PROVE  \E i \in DOMAIN Resolved(s) :
           \/ ToDo(Resolved(s)[i])
           \/ /\ Resolved(s)[i].kind = "contract"
              /\ Resolved(s)[i].on \notin Values \/ Resolved(s)[i].on # s.f[i].on
<1> DEFINE new == Resolved(s)
<1>1. DOMAIN s.f = DOMAIN new /\ \A i \in DOMAIN new : s.f[i].name = new[i].name
  <2> DEFINE F == [i \in DOMAIN s.f |-> s.f[i].name]
             G == [i \in DOMAIN new |-> new[i].name]
  <2>1. F = G
    OBVIOUS
  <2>2. DOMAIN F = DOMAIN s.f /\ DOMAIN G = DOMAIN new
    OBVIOUS
  <2>3. \A i \in DOMAIN new : G[i] = new[i].name /\ F[i] = s.f[i].name
    BY <2>1, <2>2
  <2> QED
    BY <2>1, <2>2, <2>3
<1>2. Len(s.f) = Len(new)
  <2>1. /\ DOMAIN s.f = 1 .. Len(s.f) /\ DOMAIN new = 1 .. Len(new)
        /\ Len(s.f) \in Nat /\ Len(new) \in Nat
    BY FileFields, ModuleFields, ResolvedFields
  <2> DEFINE a == Len(s.f)
             b == Len(new)
  <2>2. 1 .. a = 1 .. b /\ a \in Nat /\ b \in Nat
    BY <1>1, <2>1
  <2> HIDE DEF a, b
  <2>3. a = b
    <3>1. (a \in 1 .. a \/ a = 0) /\ (b \in 1 .. b \/ b = 0)
      BY <2>2
    <3>2. a <= b /\ b <= a
      BY <2>2, <3>1
    <3> QED
      BY <2>2, <3>2
  <2> QED
    BY <2>3 DEF a, b
<1>3. PICK i \in DOMAIN s.f : Compare(s.f[i], new[i]) = "changed"
  <2>1. DOMAIN s.f \subseteq Nat
    BY FileFields, ResolvedFields
  <2> QED
    BY <1>2, <2>1, CheckSays
<1>4. /\ i \in DOMAIN module /\ i \in DOMAIN new /\ i \in DOMAIN file
      /\ new[i] \in Rec /\ new[i].name = module[i].name
      /\ new[i].code = module[i].code /\ module[i].kind = new[i].kind /\ new[i].on = module[i].on
  BY <1>1, <1>3, ResolvedFields
<1>5. file[i].name = module[i].name /\ file[i].code = s.f[i].code
  BY <1>1, <1>4 DEF Loop, Weaker
<1>6. /\ new[i].kind = "contract" /\ s.f[i].kind = "contract"
      /\ s.f[i].code # new[i].code \/ ~CheckArgs(s.f[i], new[i]) \/ s.f[i].address = None
  <2>1. s.f[i].name = new[i].name
    BY <1>1, <1>4
  <2> HIDE DEF new
  <2> QED
    BY <1>3, <2>1 DEF Compare, Both
<1> HIDE DEF new
<1>7. CASE ~CheckArgs(s.f[i], new[i])
  BY <1>4, <1>6, <1>7 DEF CheckArgs, new
<1>8. CASE s.f[i].code # new[i].code
  <2>1. module[i].name \notin s.keep
    BY <1>4, <1>5, <1>6, <1>8 DEF Loop, Kept
  <2>2. new[i].address = None
    BY <1>4, <2>1, ResolvedFields DEF new
  <2> QED
    BY <1>4, <1>6, <2>2, ToDoIs DEF new
<1>9. CASE s.f[i].address = None
  <2>1. new[i].address = None
    BY <1>4, <1>5, <1>9, ResolvedFields DEF new
  <2> QED
    BY <1>4, <1>6, <2>1, ToDoIs DEF new
<1> QED
  BY <1>6, <1>7, <1>8, <1>9

(* For which elements there is a line.                                     *)
Lined(old, new, j) == j \in 1 .. Len(new) /\ (j <= Len(old) => Modified(old[j], new[j]))

LEMMA LinesAre ==
  ASSUME NEW old, NEW new, Len(old) \in Nat, Len(new) \in Nat, Len(old) <= Len(new)
  PROVE  {line[2] : line \in PrintDiff(old, new)} = {new[j].name : j \in {k \in 1 .. Len(new) : Lined(old, new, k)}}
<1> DEFINE a == Len(old)
           b == Len(new)
           L == {j \in 1 .. a : Modified(old[j], new[j])}
           M == a + 1 .. b
           N == {k \in 1 .. b : Lined(old, new, k)}
           A == {<<"~", new[j].name>> : j \in L}
           B == {<<"+", new[j].name>> : j \in M}
<1>1. PrintDiff(old, new) = A \cup B
  <2>1. Smaller(a, b) = a
    BY DEF Smaller
  <2> QED
    BY <2>1 DEF PrintDiff
<1>2. N = L \cup M
  <2>1. \A j : j \in N <=> j \in L \/ j \in M
    <3> SUFFICES ASSUME NEW j PROVE j \in N <=> j \in L \/ j \in M
      OBVIOUS
    <3>1. a \in Nat /\ b \in Nat /\ a <= b
      OBVIOUS
    <3>2. Lined(old, new, j) <=> j \in 1 .. b /\ (j <= a => Modified(old[j], new[j]))
      BY DEF Lined
    <3> HIDE DEF a, b
    <3> QED
      BY <3>1, <3>2
  <2> QED
    BY <2>1
<1> HIDE DEF L, M, N
<1>3. \A line \in A \cup B : line[2] \in {new[j].name : j \in N}
  BY <1>2
<1>4. ASSUME NEW j \in N PROVE new[j].name \in {line[2] : line \in A \cup B}
  <2>1. CASE j \in L
    <3>1. <<"~", new[j].name>> \in A \cup B /\ <<"~", new[j].name>>[2] = new[j].name
      BY <2>1
    <3> QED
      BY <3>1
  <2>2. CASE j \in M
    <3>1. <<"+", new[j].name>> \in A \cup B /\ <<"+", new[j].name>>[2] = new[j].name
      BY <2>2
    <3> QED
      BY <3>1
  <2> QED
    BY <1>2, <2>1, <2>2
<1> HIDE DEF A, B
<1>5. {line[2] : line \in A \cup B} = {new[j].name : j \in N}
  BY <1>3, <1>4
<1> QED
  BY <1>1, <1>5 DEF N

LEMMA LinesResult ==
  ASSUME Recorded, NEW s, Loop(s, Len(module)), ~s.threw, s.always = None,
         \A i \in 1 .. Len(s.f) : i <= Len(Resolved(s)) /\ s.f[i].name = Resolved(s)[i].name
  PROVE  {line[2] : line \in PrintDiff(s.f, Resolved(s))} =
           {Resolved(s)[i].name : i \in {j \in DOMAIN Resolved(s) :
              /\ ToDo(Resolved(s)[j])
              /\ j <= Len(s.f) /\ Resolved(s)[j].kind = "contract" => s.f[j].code # Resolved(s)[j].code}}
<1> DEFINE new == Resolved(s)
           a == Len(s.f)
           b == Len(new)
<1>1. /\ DOMAIN s.f = 1 .. a /\ DOMAIN new = 1 .. b /\ DOMAIN file = 1 .. a /\ DOMAIN module = 1 .. b
      /\ a \in Nat /\ b \in Nat /\ Len(module) = b
  BY FileFields, ModuleFields, ResolvedFields
<1>2. \A i \in 1 .. a : i <= b /\ s.f[i].name = new[i].name
  OBVIOUS
<1>3. a <= b
  <2> HIDE DEF a, b
  <2>1. a \in 1 .. a \/ a = 0
    BY <1>1
  <2> QED
    BY <1>1, <1>2, <2>1
<1>4. ASSUME NEW j \in 1 .. b
      PROVE  Lined(s.f, new, j) <=>
               /\ ToDo(new[j])
               /\ j <= a /\ new[j].kind = "contract" => s.f[j].code # new[j].code
  <2>1. /\ j \in DOMAIN module /\ j \in 1 .. Len(module) /\ new[j] \in Rec /\ new[j].name = module[j].name
        /\ new[j].kind = module[j].kind /\ new[j].code = module[j].code
        /\ new[j].kind \in {"contract", "event"}
        /\ module[j].name \notin s.keep => new[j].address = None /\ ~new[j].executed
        /\ \A p \in DOMAIN file : module[j].name \in s.keep /\ file[p].name = module[j].name =>
             new[j].address = s.f[p].address /\ new[j].executed = s.f[p].executed
    <3>1. j \in DOMAIN module /\ j \in 1 .. Len(module)
      BY <1>1
    <3>2. new[j] \in Rec
      BY <3>1, ResolvedFields
    <3>3. new[j].kind \in {"contract", "event"}
      BY <3>2 DEF Rec
    <3> QED
      BY <3>1, <3>2, <3>3, ResolvedFields
  <2>2. \A p \in DOMAIN file : file[p].name = s.f[p].name /\ file[p].kind = s.f[p].kind /\ file[p].code = s.f[p].code
    BY DEF Loop, Weaker
  <2>3. \A i \in DOMAIN module : module[i].name = module[j].name => i = j
    BY <2>1, ModuleFields DEF Distinct
  <2>4. ToDo(new[j]) <=> IF new[j].kind = "event" THEN ~new[j].executed ELSE new[j].address = None
    BY <2>1, ToDoIs
  <2>5. Lined(s.f, new, j) <=> (j <= a => Modified(s.f[j], new[j]))
    BY DEF Lined
  <2>6. CASE ~(j <= a)
    <3>1. module[j].name \notin s.keep
      <4>1. SUFFICES ASSUME module[j].name \in s.keep PROVE FALSE
        OBVIOUS
      <4>2. PICK p \in DOMAIN file : file[p].name = module[j].name
        BY <4>1 DEF Loop, Kept
      <4>3. p \in 1 .. a /\ p \in DOMAIN module
        <5> HIDE DEF a, b
        <5> QED
          BY <1>1, <1>3, <4>2
      <4>4. new[p].name = module[p].name
        BY <4>3, ResolvedFields
      <4>5. module[p].name = module[j].name
        BY <1>2, <2>2, <4>2, <4>3, <4>4
      <4>6. p = j
        BY <2>3, <4>3, <4>5
      <4> QED
        BY <1>1, <2>6, <4>3, <4>6
    <3> HIDE DEF new, a, b
    <3> QED
      BY <2>1, <2>4, <2>5, <2>6, <3>1
  <2>7. CASE j <= a
    <3>1. j \in 1 .. a /\ j \in DOMAIN file
      <4> HIDE DEF a, b
      <4> QED
        BY <1>1, <2>7
    <3>2. s.f[j].name = new[j].name /\ file[j].name = module[j].name
      BY <1>2, <2>1, <2>2, <3>1
    <3>3. /\ file[j].kind = module[j].kind
          /\ module[j].kind = "event" => module[j].name \in s.keep
      BY <2>1, <3>1, <3>2 DEF Loop, Unasked
    <3>4. module[j].name \in s.keep => file[j].code = module[j].code
      BY <2>1, <3>1, <3>2 DEF Loop, Kept
    <3>5. s.f[j].kind = module[j].kind /\ s.f[j].code = file[j].code
      BY <2>2, <3>1, <3>3
    <3>6. Modified(s.f[j], new[j]) <=>
            \/ module[j].kind = "contract" /\ s.f[j].code # new[j].code
            \/ module[j].kind = "event" /\ ~s.f[j].executed
      BY <2>1, <3>2, <3>3, <3>4, <3>5 DEF Modified, Both
    <3> HIDE DEF new, a, b
    <3>7. CASE module[j].kind = "contract"
      BY <2>1, <2>4, <2>5, <2>7, <3>4, <3>5, <3>6, <3>7
    <3>8. CASE module[j].kind = "event"
      <4>1. new[j].executed = s.f[j].executed
        BY <2>1, <3>1, <3>2, <3>3, <3>8
      <4> QED
        BY <2>1, <2>4, <2>5, <2>7, <3>6, <3>8, <4>1
    <3> QED
      BY <2>1, <3>7, <3>8
  <2> QED
    BY <2>6, <2>7
<1>5. {line[2] : line \in PrintDiff(s.f, new)} = {new[j].name : j \in {k \in 1 .. b : Lined(s.f, new, k)}}
  BY <1>1, <1>3, LinesAre
<1> QED
  BY <1>1, <1>4, <1>5

(***************************************************************************)
(* Every action keeps the module and the file well formed.                 *)
(***************************************************************************)
LEMMA AnswerIs == ASSUME NEW answer \in Answers PROVE answer \in {"yes", "no"}
BY DEF Answers

(* What a deployment leaves on file.                                       *)
Leaves(s, k, failed, todo) ==
  LET new == Resolved(s)
      hook == [New(Event(FailHook, None, None)) EXCEPT !.executed = TRUE]
  IN file' = [i \in DOMAIN new |-> IF i \in todo THEN Finished(new[i]) ELSE new[i]]
             \o (IF failed THEN <<hook>> ELSE <<>>)

LEMMA LeavesFields ==
  ASSUME DiffAssumption, Recorded, NEW s, Loop(s, Len(module)), NEW k, NEW failed, NEW todo,
         Leaves(s, k, failed, todo)
  PROVE  /\ FileOK(file')
         /\ \A i \in DOMAIN file' : file'[i].address = "gone" =>
              i \in DOMAIN module /\ Resolved(s)[i].address = "gone"
<1> DEFINE new == Resolved(s)
           hook == [New(Event(FailHook, None, None)) EXCEPT !.executed = TRUE]
           F == [i \in DOMAIN new |-> IF i \in todo THEN Finished(new[i]) ELSE new[i]]
           H == IF failed THEN <<hook>> ELSE <<>>
           n == Len(module)
<1>1. /\ n \in Nat /\ DOMAIN module = 1 .. n /\ DOMAIN new = 1 .. n
      /\ \A i \in 1 .. n : new[i] \in Rec /\ new[i].name = module[i].name
                           /\ (new[i].kind = "event" => new[i].address = None)
  BY ModuleFields, ResolvedFields
<1>2. ASSUME NEW i \in 1 .. n
      PROVE  /\ F[i] \in Rec /\ F[i].name = module[i].name /\ F[i].name \in Names
             /\ F[i].kind = "event" => F[i].address = None
             /\ F[i].address = "gone" => new[i].address = "gone"
  <2> DEFINE e == new[i]
  <2>1. e \in Rec /\ e.name = module[i].name /\ (e.kind = "event" => e.address = None)
    BY <1>1
  <2>2. F[i] \in {e, Finished(e)}
    BY <1>1
  <2>3. e.name \in Names
    BY <1>1, <2>1, ModuleFields, ElementFields
  <2> HIDE DEF e, F
  <2>4. /\ Finished(e) \in Rec /\ Finished(e).name = e.name /\ Finished(e).kind = e.kind
        /\ (e.kind = "event" => Finished(e).address = e.address)
        /\ Finished(e).address \in {e.address, "live"}
    BY <2>1 DEF Finished, Rec
  <2> QED
    BY <2>1, <2>2, <2>3, <2>4 DEF e
<1>3. F \in [1 .. n -> Rec]
  BY <1>1, <1>2
<1>4. F \in Seq(Rec) /\ Len(F) = n
  <2> HIDE DEF F, n
  <2> QED
    BY <1>1, <1>3, FunctionIsSeq
<1>5. hook \in Rec /\ hook.name = FailHook /\ hook.address = None
  BY DEF New, Event, Rec, Types, None
<1>6. file' = F \o H
  BY DEF Leaves
<1> HIDE DEF F, hook, n
<1>7. H \in Seq(Rec) /\ Len(H) \in {0, 1} /\ (Len(H) = 1 => H[1] = hook)
  BY <1>5
<1> HIDE DEF H
<1>8. /\ file' \in Seq(Rec) /\ Len(file') = n + Len(H)
      /\ \A i \in 1 .. n + Len(H) : file'[i] = IF i <= n THEN F[i] ELSE H[i - n]
  <2>1. F \in Seq(Rec) /\ H \in Seq(Rec) /\ Len(F) = n
    BY <1>4, <1>7
  <2>2. /\ F \o H \in Seq(Rec) /\ Len(F \o H) = n + Len(H)
        /\ \A i \in 1 .. n + Len(H) : (F \o H)[i] = IF i <= n THEN F[i] ELSE H[i - n]
    BY <2>1, ConcatProperties
  <2> QED
    BY <1>6, <2>2, Zenon
<1>9. DOMAIN file' = 1 .. n + Len(H)
  BY <1>8
<1>10. ASSUME NEW i \in DOMAIN file'
       PROVE  \/ i \in 1 .. n /\ file'[i] = F[i]
              \/ i = n + 1 /\ file'[i] = hook
  <2>1. CASE i <= n
    BY <1>1, <1>8, <1>9, <2>1
  <2>2. CASE ~(i <= n)
    <3>1. Len(H) = 1 /\ i = n + 1 /\ i - n = 1
      <4> DEFINE m == Len(H)
      <4>1. m \in {0, 1} /\ i \in 1 .. n + m /\ n \in Nat
        BY <1>1, <1>7, <1>9
      <4> HIDE DEF m
      <4>2. m = 1 /\ i = n + 1 /\ i - n = 1
        BY <2>2, <4>1
      <4> QED
        BY <4>2 DEF m
    <3> QED
      BY <1>7, <1>8, <1>9, <2>2, <3>1
  <2> QED
    BY <2>1, <2>2
<1>11. Distinct(file')
  <2> SUFFICES ASSUME NEW i \in DOMAIN file', NEW j \in DOMAIN file', i # j,
                      file'[i].name = file'[j].name
               PROVE  FALSE
    BY DEF Distinct
  <2>1. \A h \in DOMAIN module, m \in DOMAIN module : module[h].name = module[m].name => h = m
    BY ModuleFields DEF Distinct
  <2>2. FailHook \notin Names
    BY DEF DiffAssumption
  <2> QED
    BY <1>1, <1>2, <1>5, <1>10, <2>1, <2>2
<1>12. \A i \in DOMAIN file' : file'[i].kind = "event" => file'[i].address = None
  BY <1>2, <1>5, <1>10
<1>13. \A i \in DOMAIN file' : file'[i].address = "gone" => i \in DOMAIN module /\ new[i].address = "gone"
  BY <1>1, <1>2, <1>5, <1>10 DEF None
<1> QED
  BY <1>8, <1>11, <1>12, <1>13 DEF FileOK

LEMMA DeployFacts ==
  ASSUME DiffAssumption, Recorded, Deploy
  PROVE  \E s, k, failed, todo :
           /\ Loop(s, Len(module)) /\ ~s.threw /\ Leaves(s, k, failed, todo)
           /\ last'.answer = s.always
           /\ \A n \in last'.sent : \E j \in DOMAIN module :
                n = Resolved(s)[j].name /\ Resolved(s)[j].kind = "contract" /\ ToDo(Resolved(s)[j])
           /\ module' = module /\ report' = NoReport
<1>1. PICK answer \in Answers :
        LET s == Resolve(answer)
            new == Resolved(s)
            hook == [New(Event(FailHook, None, None)) EXCEPT !.executed = TRUE]
        IN /\ ~s.threw
           /\ \E k \in 0 .. Len(module), failed \in BOOLEAN :
                LET todo == {i \in 1 .. k : ToDo(new[i])}
                IN /\ failed => k < Len(module)
                   /\ file' = [i \in DOMAIN new |-> IF i \in todo THEN Finished(new[i]) ELSE new[i]]
                              \o (IF failed THEN <<hook>> ELSE <<>>)
                   /\ last' = [answer |-> s.always,
                               sent |-> {new[i].name : i \in {j \in todo : new[j].kind = "contract"}}]
  BY DEF Deploy
<1> DEFINE s == Resolve(answer)
           new == Resolved(s)
<1>2. Loop(s, Len(module))
  BY AnswerIs, LoopEnds
<1> HIDE DEF s
<1>3. PICK k \in 0 .. Len(module), failed \in BOOLEAN :
        LET todo == {i \in 1 .. k : ToDo(new[i])}
            hook == [New(Event(FailHook, None, None)) EXCEPT !.executed = TRUE]
        IN /\ file' = [i \in DOMAIN new |-> IF i \in todo THEN Finished(new[i]) ELSE new[i]]
                      \o (IF failed THEN <<hook>> ELSE <<>>)
           /\ last' = [answer |-> s.always,
                       sent |-> {new[i].name : i \in {j \in todo : new[j].kind = "contract"}}]
  BY <1>1 DEF s
<1> DEFINE todo == {i \in 1 .. k : ToDo(new[i])}
<1>4. Leaves(s, k, failed, todo)
  BY <1>3 DEF Leaves
<1>5. last'.answer = s.always /\ last'.sent = {new[i].name : i \in {j \in todo : new[j].kind = "contract"}}
  <2> HIDE DEF todo, new
  <2> QED
    BY <1>3 DEF todo
<1>6. ASSUME NEW n \in last'.sent
      PROVE  \E j \in DOMAIN module : n = new[j].name /\ new[j].kind = "contract" /\ ToDo(new[j])
  <2>1. PICK j \in todo : new[j].kind = "contract" /\ n = new[j].name
    <3> HIDE DEF todo, new
    <3> QED
      BY <1>5
  <2>2. j \in DOMAIN module /\ ToDo(new[j])
    BY ModuleFields
  <2> QED
    BY <2>1, <2>2
<1>7. ~s.threw
  BY <1>1 DEF s
<1>8. module' = module /\ report' = NoReport
  BY DEF Deploy
<1> QED
  BY <1>2, <1>4, <1>5, <1>6, <1>7, <1>8

LEMMA ResetKeeps == ASSUME Recorded, Reset PROVE Recorded'
<1> DEFINE g == [i \in DOMAIN file |->
                   IF file[i].address = "live" THEN [file[i] EXCEPT !.address = "gone"] ELSE file[i]]
<1>1. file' = g /\ module' = module
  BY DEF Reset
<1>2. Len(file) \in Nat /\ DOMAIN file = 1 .. Len(file)
  BY FileFields
<1>3. ASSUME NEW i \in DOMAIN file
      PROVE  /\ g[i] \in Rec /\ g[i].name = file[i].name
             /\ g[i].kind = "event" => g[i].address = None
  <2>1. file[i] \in Rec /\ (file[i].kind = "event" => file[i].address = None)
    BY FileFields DEF Recorded, FileOK
  <2> QED
    BY <2>1 DEF Rec, None
<1>4. DOMAIN g = DOMAIN file
  OBVIOUS
<1>5. g \in [1 .. Len(file) -> Rec]
  BY <1>2, <1>3
<1> HIDE DEF g
<1>6. g \in Seq(Rec)
  BY <1>2, <1>5, FunctionIsSeq
<1>7. Distinct(g)
  BY <1>3, <1>4, FileFields DEF Distinct
<1>8. FileOK(g)
  BY <1>3, <1>4, <1>6, <1>7 DEF FileOK
<1>9. WellFormed(module') /\ module' \in Seq(Elements)
  BY <1>1 DEF Recorded, WellFormed
<1> QED
  BY <1>1, <1>8, <1>9 DEF Recorded

LEMMA WithType ==
  ASSUME NEW m \in Seq(Elements), NEW i \in 1 .. Len(m) + 1, NEW e \in Elements
  PROVE  With(m, i, e) \in Seq(Elements)
<1>1. Len(m) \in Nat /\ i \in Nat /\ \A k \in 1 .. Len(m) : m[k] \in Elements
  BY ElementOfSeq
<1>2. SubSeq(m, 1, i - 1) \in Seq(Elements) /\ SubSeq(m, i, Len(m)) \in Seq(Elements)
  <2>1. /\ i - 1 \in Int /\ Len(m) \in Int
        /\ \A k \in 1 .. i - 1 : m[k] \in Elements
        /\ \A k \in i .. Len(m) : m[k] \in Elements
    BY <1>1
  <2> QED
    BY <1>1, <2>1, SubSeqProperties
<1>3. <<e>> \in Seq(Elements)
  OBVIOUS
<1>4. SubSeq(m, 1, i - 1) \o <<e>> \in Seq(Elements)
  BY <1>2, <1>3, ConcatProperties
<1> QED
  BY <1>2, <1>4, ConcatProperties DEF With

LEMMA WithoutType ==
  ASSUME NEW m \in Seq(Elements), NEW i \in 1 .. Len(m)
  PROVE  Without(m, i) \in Seq(Elements) /\ Len(Without(m, i)) = Len(m) - 1
<1>1. Len(m) \in Nat /\ i \in Nat /\ \A k \in 1 .. Len(m) : m[k] \in Elements
  BY ElementOfSeq
<1>2. /\ SubSeq(m, 1, i - 1) \in Seq(Elements) /\ SubSeq(m, i + 1, Len(m)) \in Seq(Elements)
      /\ Len(SubSeq(m, 1, i - 1)) = i - 1 /\ Len(SubSeq(m, i + 1, Len(m))) = Len(m) - i
  <2>1. /\ i - 1 \in Int /\ i + 1 \in Int /\ Len(m) \in Int
        /\ \A k \in 1 .. i - 1 : m[k] \in Elements
        /\ \A k \in i + 1 .. Len(m) : m[k] \in Elements
    BY <1>1
  <2>2. /\ SubSeq(m, 1, i - 1) \in Seq(Elements)
        /\ Len(SubSeq(m, 1, i - 1)) = IF 1 <= i - 1 THEN (i - 1) - 1 + 1 ELSE 0
    BY <2>1, SubSeqProperties
  <2>3. /\ SubSeq(m, i + 1, Len(m)) \in Seq(Elements)
        /\ Len(SubSeq(m, i + 1, Len(m))) = IF i + 1 <= Len(m) THEN Len(m) - (i + 1) + 1 ELSE 0
    BY <2>1, SubSeqProperties
  <2> QED
    BY <1>1, <2>2, <2>3
<1> DEFINE x == SubSeq(m, 1, i - 1)
           y == SubSeq(m, i + 1, Len(m))
           l == Len(m)
<1>3. Without(m, i) = x \o y
  BY DEF Without
<1>4. x \in Seq(Elements) /\ y \in Seq(Elements) /\ Len(x) = i - 1 /\ Len(y) = l - i
  BY <1>2
<1>5. l \in Nat /\ i \in Nat
  BY <1>1
<1> HIDE DEF x, y, l
<1>6. x \o y \in Seq(Elements) /\ Len(x \o y) = Len(x) + Len(y)
  BY <1>4, ConcatProperties
<1>7. (i - 1) + (l - i) = l - 1
  BY <1>5
<1>8. Len(x \o y) = l - 1
  BY <1>4, <1>6, <1>7
<1> QED
  BY <1>3, <1>6, <1>8 DEF l

LEMMA EditKeeps == ASSUME Recorded, Edit PROVE Recorded'
<1>1. /\ module \in Seq(Elements) /\ Len(module) \in Nat /\ DOMAIN module = 1 .. Len(module)
      /\ \A k \in DOMAIN module : module[k] \in Elements
  BY ModuleFields DEF Recorded
<1>2. PICK i \in 1 .. Len(module) + 1 :
       \/ \E e \in Elements : module' = With(module, i, e)
       \/ i <= Len(module) /\
            \/ module' = Without(module, i)
            \/ \E e \in Elements : module' = [module EXCEPT ![i] = e]
            \/ \E j \in DOMAIN module : module' = With(Without(module, i), j, module[i])
  BY DEF Edit
<1>3. module' \in Seq(Elements)
  <2>1. ASSUME NEW e \in Elements, module' = With(module, i, e) PROVE module' \in Seq(Elements)
    BY <1>1, <2>1, WithType
  <2>2. ASSUME i <= Len(module), module' = Without(module, i) PROVE module' \in Seq(Elements)
    BY <1>1, <2>2, WithoutType
  <2>3. ASSUME i <= Len(module), NEW e \in Elements, module' = [module EXCEPT ![i] = e]
        PROVE  module' \in Seq(Elements)
    BY <1>1, <2>3, ExceptSeq
  <2>4. ASSUME i <= Len(module), NEW j \in DOMAIN module, module' = With(Without(module, i), j, module[i])
        PROVE  module' \in Seq(Elements)
    <3>1. i \in 1 .. Len(module)
      BY <1>1, <2>4
    <3>2. Without(module, i) \in Seq(Elements) /\ Len(Without(module, i)) = Len(module) - 1
      BY <1>1, <3>1, WithoutType
    <3>3. j \in 1 .. Len(Without(module, i)) + 1 /\ module[i] \in Elements
      BY <1>1, <3>1, <3>2
    <3> QED
      BY <2>4, <3>2, <3>3, WithType
  <2> QED
    BY <1>2, <2>1, <2>2, <2>3, <2>4
<1>4. file' = file /\ WellFormed(module')
  BY DEF Edit
<1> QED
  BY <1>3, <1>4 DEF Recorded, FileOK, Distinct, WellFormed

LEMMA InitRecorded == ASSUME DiffAssumption, Init PROVE Recorded
<1>1. file = <<>> /\ module = Initial
  BY DEF Init
<1>2. FileOK(file)
  BY <1>1 DEF FileOK, Distinct
<1> QED
  BY <1>1, <1>2 DEF Recorded, DiffAssumption

LEMMA RecordedStep == ASSUME DiffAssumption, Recorded, [Next]_vars PROVE Recorded'
<1>1. ASSUME module' = module, FileOK(file') PROVE Recorded'
  BY <1>1 DEF Recorded, WellFormed
<1>2. CASE Diff \/ UNCHANGED vars
  BY <1>1, <1>2 DEF Diff, vars, Recorded
<1>3. CASE Deploy
  BY <1>1, <1>3, DeployFacts, LeavesFields
<1> QED
  BY <1>2, <1>3, ResetKeeps, EditKeeps DEF Next

(* The module is always one that can be built, and no name is on file      *)
(* twice, whatever is edited, interrupted and lost.                        *)
THEOREM WellRecorded == ASSUME DiffAssumption PROVE Spec => []Recorded
<1>1. Init => Recorded
  BY InitRecorded
<1>2. Recorded /\ [Next]_vars => Recorded'
  BY RecordedStep
<1> QED
  BY <1>1, <1>2, PTL DEF Spec

(***************************************************************************)
(* diff tells the truth.                                                   *)
(***************************************************************************)
Says(s) ==
  /\ Loop(s, Len(module))
  /\ report'.old = s.f /\ report'.new = Resolved(s)
  /\ report'.said \in {"nothing", "changed"} =>
       ~s.threw /\ report'.said = CheckIfDiff(s.f, Resolved(s))
  /\ ~report'.asked => s.always = None
  /\ report'.said = "changed" => report'.lines = PrintDiff(s.f, Resolved(s))

LEMMA DiffFacts ==
  ASSUME DiffAssumption, Recorded, Diff
  PROVE  \E s : Says(s)
<1>1. PICK answer \in Answers :
       LET s == Resolve(answer)
           new == Resolved(s)
           said == IF s.threw THEN "threw" ELSE CheckIfDiff(s.f, new)
       IN report' = [said |-> said, old |-> s.f, new |-> new, asked |-> s.always # None,
                     lines |-> IF said = "changed" THEN PrintDiff(s.f, new) ELSE {}]
  BY DEF Diff
<1> DEFINE s == Resolve(answer)
<1>2. Loop(s, Len(module))
  BY AnswerIs, LoopEnds
<1> HIDE DEF s
<1> DEFINE new == Resolved(s)
           said == IF s.threw THEN "threw" ELSE CheckIfDiff(s.f, new)
<1>3. report' = [said |-> said, old |-> s.f, new |-> new, asked |-> s.always # None,
                 lines |-> IF said = "changed" THEN PrintDiff(s.f, new) ELSE {}]
  BY <1>1 DEF s
<1>4. said \in {"nothing", "changed"} => ~s.threw /\ said = CheckIfDiff(s.f, new)
  OBVIOUS
<1> HIDE DEF said, new
<1>5. /\ report'.old = s.f /\ report'.new = new /\ report'.said = said
      /\ ~report'.asked => s.always = None
      /\ report'.said = "changed" => report'.lines = PrintDiff(s.f, new)
  BY <1>3
<1> QED
  BY <1>2, <1>4, <1>5 DEF Says, new

(* The word of diff is that of the next deployment, over all edits, but    *)
(* for hooks that are pending on record, of which it is silent, elements   *)
(* that moved or have another name, and false alarms about arguments       *)
(* (checkIfDiff of the resolver).                                          *)
THEOREM TruthfulDiff == ASSUME DiffAssumption PROVE Spec => []DiffTruthful
<1>1. Init => DiffTruthful
  BY DEF Init, NoReport, None, DiffTruthful, SilentKeepsTheRest, AlarmHasCause
<1>2. ASSUME Recorded, DiffTruthful, [Next]_vars PROVE DiffTruthful'
  <2>1. CASE report' = NoReport
    BY <2>1 DEF NoReport, None, DiffTruthful, SilentKeepsTheRest, AlarmHasCause
  <2>2. CASE UNCHANGED vars
    BY <1>2, <2>2 DEF vars, DiffTruthful, SilentKeepsTheRest, AlarmHasCause
  <2>3. CASE Diff
    <3>0. PICK s : Says(s)
      BY <1>2, <2>3, DiffFacts
    <3>1. Loop(s, Len(module)) /\ report'.old = s.f /\ report'.new = Resolved(s)
      BY <3>0 DEF Says
    <3>2. SilentKeepsTheRest'
      <4> SUFFICES ASSUME report'.said = "nothing", ~report'.asked, NEW i \in DOMAIN report'.new,
                          report'.new[i].name = report'.old[i].name, ToDo(report'.new[i])
                   PROVE  report'.new[i].kind = "event" /\ ~report'.old[i].executed
        BY DEF SilentKeepsTheRest
      <4>1. ~s.threw /\ s.always = None /\ CheckIfDiff(s.f, Resolved(s)) = "nothing"
        BY <3>0 DEF Says
      <4>2. /\ i \in DOMAIN Resolved(s) /\ ToDo(Resolved(s)[i])
            /\ Resolved(s)[i].name = s.f[i].name
        BY <3>1
      <4>3. Resolved(s)[i].kind = "event" /\ ~s.f[i].executed
        BY <1>2, <3>1, <4>1, <4>2, SilentResult
      <4> QED
        BY <3>1, <4>3
    <3>3. AlarmHasCause'
      <4> SUFFICES ASSUME report'.said = "changed",
                          [i \in DOMAIN report'.old |-> report'.old[i].name]
                            = [i \in DOMAIN report'.new |-> report'.new[i].name]
                   PROVE  \/ \E i \in DOMAIN report'.new : ToDo(report'.new[i])
                          \/ \E i \in DOMAIN report'.new :
                               report'.new[i].kind = "contract"
                               /\ (report'.new[i].on \notin Values \/ report'.new[i].on # report'.old[i].on)
        BY DEF AlarmHasCause
      <4>1. CheckIfDiff(s.f, Resolved(s)) = "changed"
        BY <3>0 DEF Says
      <4>2. [i \in DOMAIN s.f |-> s.f[i].name] = [i \in DOMAIN Resolved(s) |-> Resolved(s)[i].name]
        BY <3>1, Zenon
      <4>3. \E i \in DOMAIN Resolved(s) :
           \/ ToDo(Resolved(s)[i])
           \/ /\ Resolved(s)[i].kind = "contract"
              /\ Resolved(s)[i].on \notin Values \/ Resolved(s)[i].on # s.f[i].on
        BY <1>2, <3>1, <4>1, <4>2, AlarmResult
      <4> QED
        BY <3>1, <4>3
    <3> QED
      BY <3>2, <3>3 DEF DiffTruthful
  <2> QED
    BY <1>2, <2>1, <2>2, <2>3 DEF Next, Deploy, Reset, Edit
<1> QED
  BY <1>1, <1>2, WellRecorded, PTL DEF Spec

(* When diff says that something changed, elements were only appended and  *)
(* no contract is missing on the network: there is a line for each element *)
(* that a deployment would deploy or execute, but for contracts made again *)
(* from the same bytecode, and for no other (printDiffParams).             *)
THEOREM ExactLines == ASSUME DiffAssumption PROVE Spec => []LinesExact
<1>1. Init => LinesExact
  BY DEF Init, NoReport, None, LinesExact
<1>2. ASSUME Recorded, LinesExact, [Next]_vars PROVE LinesExact'
  <2>1. CASE report' = NoReport
    BY <2>1 DEF NoReport, None, LinesExact
  <2>2. CASE UNCHANGED vars
    BY <1>2, <2>2 DEF vars, LinesExact, Appended
  <2>3. CASE Diff
    <3>0. PICK s : Says(s)
      BY <1>2, <2>3, DiffFacts
    <3>1. Loop(s, Len(module)) /\ report'.old = s.f /\ report'.new = Resolved(s)
      BY <3>0 DEF Says
    <3> SUFFICES ASSUME report'.said = "changed", Appended', ~report'.asked
                 PROVE  {line[2] : line \in report'.lines} =
                          {report'.new[i].name : i \in {j \in DOMAIN report'.new :
                             /\ ToDo(report'.new[j])
                             /\ j <= Len(report'.old) /\ report'.new[j].kind = "contract" =>
                                  report'.old[j].code # report'.new[j].code}}
      BY DEF LinesExact
    <3>2. /\ ~s.threw /\ s.always = None
          /\ report'.lines = PrintDiff(s.f, Resolved(s))
      BY <3>0 DEF Says
    <3>3. \A i \in 1 .. Len(s.f) : i <= Len(Resolved(s)) /\ s.f[i].name = Resolved(s)[i].name
      BY <3>1 DEF Appended
    <3>4. {line[2] : line \in PrintDiff(s.f, Resolved(s))} =
            {Resolved(s)[i].name : i \in {j \in DOMAIN Resolved(s) :
               /\ ToDo(Resolved(s)[j])
               /\ j <= Len(s.f) /\ Resolved(s)[j].kind = "contract" => s.f[j].code # Resolved(s)[j].code}}
      BY <1>2, <3>1, <3>2, <3>3, LinesResult
    <3> QED
      BY <3>1, <3>2, <3>4, Zenon
  <2> QED
    BY <1>2, <2>1, <2>2, <2>3 DEF Next, Deploy, Reset, Edit
<1> QED
  BY <1>1, <1>2, WellRecorded, PTL DEF Spec

(***************************************************************************)
(* What a deployment makes again.                                          *)
(***************************************************************************)

(* A deployed contract that did not change is made again only after a      *)
(* loss, or as an argument of one that changed.                            *)
THEOREM UntouchedIsKept == ASSUME DiffAssumption PROVE Spec => UntouchedStays
<1> DEFINE Stays == \A n \in last'.sent :
                      Untouched(n) => \/ \E i \in DOMAIN file : file[i].address = "gone"
                                      \/ \E i \in DOMAIN module :
                                           /\ module[i].kind = "contract" /\ ~Untouched(module[i].name)
                                           /\ n \in AllArguments[i]
<1>1. ASSUME Recorded, [Next]_vars PROVE [Stays]_<<file, last>>
  <2>1. CASE Diff \/ UNCHANGED vars
    BY <2>1 DEF Diff, vars
  <2>2. CASE Reset \/ Edit
    BY <2>2 DEF Reset, Edit, NoneYet
  <2>3. CASE Deploy
    <3>1. PICK s : /\ Loop(s, Len(module)) /\ ~s.threw
                   /\ \A n \in last'.sent : \E j \in DOMAIN module :
                        n = Resolved(s)[j].name /\ Resolved(s)[j].kind = "contract" /\ ToDo(Resolved(s)[j])
      BY <1>1, <2>3, DeployFacts
    <3> SUFFICES ASSUME NEW n \in last'.sent, Untouched(n), \A p \in DOMAIN file : file[p].address # "gone"
                 PROVE  \E i \in DOMAIN module :
                          /\ module[i].kind = "contract" /\ ~Untouched(module[i].name)
                          /\ n \in AllArguments[i]
      OBVIOUS
    <3>2. PICK j \in DOMAIN module :
            n = Resolved(s)[j].name /\ Resolved(s)[j].kind = "contract" /\ ToDo(Resolved(s)[j])
      BY <3>1
    <3>3. n = module[j].name /\ module[j].kind = "contract" /\ Resolved(s)[j].address = None
      <4>1. Resolved(s)[j] \in Rec
        BY <1>1, <3>1, ResolvedFields
      <4> QED
        BY <1>1, <3>1, <3>2, <4>1, ResolvedFields, ToDoIs
    <3>4. j \in 1 .. Len(module)
      BY <1>1, ModuleFields
    <3>5. n \in s.keep
      BY <3>1, <3>3, <3>4 DEF Loop, Unforced
    <3>6. PICK p \in DOMAIN file : file[p].name = n /\ file[p].address = "live"
      BY <1>1, <3>3, UntouchedIs
    <3>7. s.f[p].address # file[p].address
      BY <1>1, <3>1, <3>3, <3>5, <3>6, ResolvedFields DEF None
    <3>8. \E i \in 1 .. Len(module) :
            /\ module[i].kind = "contract" /\ ~Untouched(module[i].name)
            /\ file[p].name \in AllArguments[i]
      BY <3>1, <3>7 DEF Loop, Unforced
    <3> QED
      BY <1>1, <3>6, <3>8, ModuleFields
  <2> QED
    BY <1>1, <2>1, <2>2, <2>3 DEF Next
<1>2. ASSUME [][Stays]_<<file, last>> PROVE UntouchedStays
  BY <1>2 DEF UntouchedStays
<1> QED
  BY <1>1, <1>2, WellRecorded, PTL DEF Spec, UntouchedStays

(* A deployment leaves no contract on record that the network lost, or     *)
(* one, if the developer says no.                                          *)
THEOREM MissingRedone == ASSUME DiffAssumption PROVE Spec => MissingIsRedone
<1> DEFINE Redone == last' # NoneYet => Cardinality(Missing') <= (IF last'.answer = "no" THEN 1 ELSE 0)
<1>1. ASSUME Recorded, [Next]_vars PROVE [Redone]_<<file, last>>
  <2>1. CASE Diff \/ UNCHANGED vars
    BY <2>1 DEF Diff, vars
  <2>2. CASE Reset \/ Edit
    BY <2>2 DEF Reset, Edit
  <2>3. CASE Deploy
    <3>1. PICK s, k, failed, todo :
            /\ Loop(s, Len(module)) /\ Leaves(s, k, failed, todo) /\ last'.answer = s.always
      BY <1>1, <2>3, DeployFacts
    <3>2. PICK q : \A p \in DOMAIN file :
                 file[p].name \in s.keep /\ s.f[p].address = "gone" => s.blank /\ p = q
      BY <3>1 DEF Loop, OneGone
    <3>3. ASSUME NEW i \in Missing'
          PROVE  /\ i \in DOMAIN module /\ q \in DOMAIN file /\ file[q].name = module[i].name
                 /\ last'.answer = "no"
      <4>1. i \in DOMAIN module /\ Resolved(s)[i].address = "gone"
        BY <1>1, <3>1, <3>3, LeavesFields DEF Missing
      <4>2. module[i].name \in s.keep
        BY <1>1, <3>1, <4>1, ResolvedFields DEF None
      <4>3. PICK p \in DOMAIN file : file[p].name = module[i].name
        BY <3>1, <4>2 DEF Loop, Kept
      <4>4. s.f[p].address = "gone"
        BY <1>1, <3>1, <4>1, <4>2, <4>3, ResolvedFields
      <4>5. s.blank /\ p = q
        BY <3>2, <4>2, <4>3, <4>4
      <4>6. s.always = "no"
        BY <3>1, <4>5 DEF Loop, NoIsLast
      <4> QED
        BY <3>1, <4>1, <4>3, <4>5, <4>6
    <3>4. CASE Missing' = {}
      <4>1. Cardinality(Missing') = 0
        BY <3>4, FS_EmptySet
      <4> QED
        BY <4>1
    <3>5. CASE Missing' # {}
      <4>1. PICK i \in Missing' : TRUE
        BY <3>5
      <4>2. \A j \in Missing' : j = i
        BY <1>1, <3>3, <4>1, ModuleFields DEF Distinct
      <4>3. Missing' = {i}
        BY <4>1, <4>2
      <4>4. Cardinality(Missing') = 1
        BY <4>3, FS_Singleton
      <4> QED
        BY <3>3, <4>1, <4>4
    <3> QED
      BY <3>4, <3>5
  <2> QED
    BY <1>1, <2>1, <2>2, <2>3 DEF Next
<1>2. ASSUME [][Redone]_<<file, last>> PROVE MissingIsRedone
  BY <1>2 DEF MissingIsRedone
<1> QED
  BY <1>1, <1>2, WellRecorded, PTL DEF Spec, MissingIsRedone
===============================================================================
