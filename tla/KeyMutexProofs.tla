--------------------------- MODULE KeyMutexProofs ---------------------------
(***************************************************************************)
(* KeyMutex implements FifoLock, for any keys and any number of calls.     *)
(***************************************************************************)
EXTENDS KeyMutex, TLAPS

(* The stages of a call, and the promises it may refer to.                 *)
TypeOK ==
  /\ lock \in [Keys -> Nat]
  /\ key \in Seq(Keys) /\ prev \in Seq(Nat)
  /\ stage \in Seq({"queued", "holding", "released", "lost"})
  /\ Len(prev) = Len(key) /\ Len(stage) = Len(key)

(* The lock holds the last promise for its key, unless all are released.   *)
LockIsLast ==
  \A k \in Keys :
    /\ lock[k] # 0 => lock[k] \in Calls /\ key[lock[k]] = k /\ ~Released(lock[k])
    /\ \A t \in Calls : key[t] = k /\ t > lock[k] => lock[k] = 0 /\ Released(t)

(* A call waits for the one before it on the same key; those in between,   *)
(* and all earlier ones when it waits for none, are released.              *)
ChainLinks ==
  \A t \in Calls :
    /\ prev[t] < t
    /\ prev[t] # 0 => key[prev[t]] = key[t]
    /\ \A u \in Calls : key[u] = key[t] /\ prev[t] < u /\ u < t => Released(u)

(* A call has had the key only after all earlier ones gave it back.        *)
InOrder ==
  \A t, u \in Calls : u < t /\ key[u] = key[t] /\ stage[t] # "queued" => Released(u)

Inv == TypeOK /\ LockIsLast /\ ChainLinks /\ InOrder

(* Two calls never have the same key.                                      *)
MutualExclusion == \A k \in Keys : \A t, u \in Holding(k) : t = u

LEMMA InvInit == Init => Inv
BY DEF Init, Inv, TypeOK, LockIsLast, ChainLinks, InOrder, Calls

(* A new call goes to the end of the chain.                                *)
LEMMA AcquireInv ==
  ASSUME Inv, NEW k \in Keys, AcquireQueued(k)
  PROVE  Inv'
<1> DEFINE n == Len(key) + 1
<1>1. /\ key \in Seq(Keys) /\ prev \in Seq(Nat) /\ lock \in [Keys -> Nat]
      /\ stage \in Seq({"queued", "holding", "released", "lost"})
      /\ Len(prev) = Len(key) /\ Len(stage) = Len(key)
      /\ key' = Append(key, k) /\ stage' = Append(stage, "queued")
      /\ prev' = Append(prev, lock[k]) /\ lock' = [lock EXCEPT ![k] = n]
  BY DEF Inv, TypeOK, AcquireQueued
<1>2. TypeOK'
  BY <1>1 DEF TypeOK
<1>3. /\ Calls' = Calls \cup {n} /\ n \notin Calls /\ \A t \in Calls : t \in Nat /\ t < n
      /\ key'[n] = k /\ stage'[n] = "queued" /\ prev'[n] = lock[k]
      /\ \A t \in Calls : key'[t] = key[t] /\ stage'[t] = stage[t] /\ prev'[t] = prev[t]
  BY <1>1 DEF Calls
<1>4. \A t \in Calls : prev[t] \in Nat /\ key[t] \in Keys
  BY <1>1 DEF Calls
<1>5. lock[k] \in Nat /\ (lock[k] # 0 => lock[k] \in Calls /\ key[lock[k]] = k)
  BY <1>1 DEF Inv, LockIsLast
<1>6. ASSUME NEW t \in Calls, key[t] = k, lock[k] < t PROVE Released(t)
  BY <1>6 DEF Inv, LockIsLast
<1>10. n \in Nat /\ n > 0
  BY <1>1
<1> HIDE DEF n
<1>7. LockIsLast'
  <2> SUFFICES ASSUME NEW j \in Keys
               PROVE  /\ lock'[j] # 0 => /\ lock'[j] \in Calls' /\ key'[lock'[j]] = j
                                         /\ stage'[lock'[j]] # "released"
                      /\ \A t \in Calls' : key'[t] = j /\ t > lock'[j] =>
                           lock'[j] = 0 /\ stage'[t] = "released"
    BY DEF LockIsLast, Released
  <2>1. CASE j = k
    <3>1. lock'[j] = n
      BY <1>1, <2>1
    <3> QED
      BY <1>3, <1>10, <2>1, <3>1
  <2>2. CASE j # k
    <3>1. lock'[j] = lock[j]
      BY <1>1, <2>2
    <3> QED
      BY <1>3, <2>2, <3>1 DEF Inv, LockIsLast, Released
  <2> QED
    BY <2>1, <2>2
<1>8. ChainLinks'
  <2> SUFFICES ASSUME NEW t \in Calls'
               PROVE  /\ prev'[t] < t
                      /\ prev'[t] # 0 => key'[prev'[t]] = key'[t]
                      /\ \A u \in Calls' : key'[u] = key'[t] /\ prev'[t] < u /\ u < t
                                             => stage'[u] = "released"
    BY DEF ChainLinks, Released
  <2>1. CASE t = n
    <3>1. lock[k] < n
      BY <1>3, <1>5, <1>10
    <3>2. prev'[t] # 0 => key'[prev'[t]] = key'[t]
      BY <1>3, <1>5, <2>1
    <3>3. \A u \in Calls' : u < n => u \in Calls
      BY <1>3, <1>10
    <3> QED
      BY <1>3, <1>6, <2>1, <3>1, <3>2, <3>3 DEF Released
  <2>2. CASE t \in Calls
    <3>1. /\ prev[t] < t /\ (prev[t] # 0 => key[prev[t]] = key[t])
          /\ \A u \in Calls : key[u] = key[t] /\ prev[t] < u /\ u < t => stage[u] = "released"
      BY <2>2 DEF Inv, ChainLinks, Released
    <3>2. prev[t] # 0 => prev[t] \in Calls
      BY <1>1, <1>4, <2>2, <3>1 DEF Calls
    <3>3. \A u \in Calls' : u < t => u \in Calls
      BY <1>1, <1>3, <2>2 DEF n
    <3> QED
      BY <1>3, <2>2, <3>1, <3>2, <3>3
  <2> QED
    BY <1>3, <2>1, <2>2
<1>9. InOrder'
  <2> SUFFICES ASSUME NEW t \in Calls', NEW u \in Calls',
                      u < t, key'[u] = key'[t], stage'[t] # "queued"
               PROVE  stage'[u] = "released"
    BY DEF InOrder, Released
  <2>1. t \in Calls
    BY <1>3
  <2>2. u \in Calls
    BY <1>1, <1>3, <2>1 DEF n
  <2> QED
    BY <1>3, <2>1, <2>2 DEF Inv, InOrder, Released
<1> QED
  BY <1>2, <1>7, <1>8, <1>9 DEF Inv

(* A call is granted the key when no earlier one may still have it.        *)
LEMMA GrantedFirst ==
  ASSUME Inv, NEW t \in Calls, Granted(t)
  PROVE  \A u \in Calls : key[u] = key[t] /\ u < t => Released(u)
<1> SUFFICES ASSUME NEW u \in Calls, key[u] = key[t], u < t PROVE Released(u)
  OBVIOUS
<1>1. t \in Nat /\ u \in Nat /\ u > 0 /\ prev[t] \in Nat /\ (0 < prev[t] /\ prev[t] < t => prev[t] \in Calls)
  BY DEF Inv, TypeOK, Calls
<1>2. prev[t] < t /\ (prev[t] # 0 => key[prev[t]] = key[t] /\ Released(prev[t]))
  BY DEF Inv, ChainLinks, Granted
<1>3. CASE prev[t] < u
  BY <1>3 DEF Inv, ChainLinks
<1>4. CASE u = prev[t]
  BY <1>1, <1>2, <1>4
<1>5. CASE u < prev[t]
  <2>1. prev[t] \in Calls /\ key[u] = key[prev[t]] /\ stage[prev[t]] # "queued"
    BY <1>1, <1>2, <1>5 DEF Released
  <2> QED
    BY <1>5, <2>1 DEF Inv, InOrder
<1> QED
  BY <1>1, <1>3, <1>4, <1>5

(* The steps of a call that has been made.                                 *)
LEMMA StageInv ==
  ASSUME Inv, NEW t \in Calls, Granted(t) \/ FuncEnds(t) \/ FuncFails(t)
  PROVE  Inv'
<1>1. /\ UNCHANGED <<key, prev>> /\ Calls' = Calls /\ ~Released(t)
      /\ \E s \in {"holding", "released", "lost"} : stage' = [stage EXCEPT ![t] = s]
  BY DEF Granted, FuncEnds, FuncFails, Released, Calls
<1>2. /\ stage \in Seq({"queued", "holding", "released", "lost"}) /\ Len(stage) = Len(key)
      /\ key \in Seq(Keys) /\ lock \in [Keys -> Nat] /\ prev \in Seq(Nat)
  BY DEF Inv, TypeOK
<1>3. /\ \A u \in Calls : u # t => stage'[u] = stage[u]
      /\ \A u \in Calls : Released(u) => Released(u)'
      /\ stage' \in Seq({"queued", "holding", "released", "lost"}) /\ Len(stage') = Len(key)
  BY <1>1, <1>2 DEF Calls, Released
<1>4. /\ key[t] \in Keys /\ t \in Nat /\ t > 0
      /\ lock' \in {lock, [lock EXCEPT ![key[t]] = 0]}
      /\ Released(t)' => lock' = IF lock[key[t]] = t THEN [lock EXCEPT ![key[t]] = 0] ELSE lock
      /\ ~Released(t)' => lock' = lock
  BY <1>1, <1>2 DEF Granted, FuncEnds, FuncFails, Released, Calls
<1>5. TypeOK'
  BY <1>1, <1>2, <1>3, <1>4 DEF Inv, TypeOK
<1>6. Released(t)' => stage[t] = "holding"
  BY <1>1, <1>2 DEF Granted, FuncEnds, FuncFails, Released, Calls
<1>7. LockIsLast'
  <2> SUFFICES ASSUME NEW k \in Keys
               PROVE  /\ lock'[k] # 0 => /\ lock'[k] \in Calls /\ key[lock'[k]] = k
                                         /\ stage'[lock'[k]] # "released"
                      /\ \A u \in Calls : key[u] = k /\ u > lock'[k] =>
                           lock'[k] = 0 /\ stage'[u] = "released"
    BY <1>1 DEF LockIsLast, Released
  <2>1. /\ lock[k] # 0 => lock[k] \in Calls /\ key[lock[k]] = k /\ stage[lock[k]] # "released"
        /\ \A u \in Calls : key[u] = k /\ u > lock[k] =>
             lock[k] = 0 /\ stage[u] = "released"
    BY DEF Inv, LockIsLast, Released
  <2>2. CASE lock[k] = t /\ Released(t)'
    <3>1. key[t] = k /\ lock'[k] = 0
      BY <1>2, <1>4, <2>1, <2>2
    <3>2. ASSUME NEW u \in Calls, key[u] = k PROVE stage'[u] = "released"
      <4>1. u \in Nat
        BY <1>2 DEF Calls
      <4>2. CASE u < t
        <5>1. Released(u)
          BY <1>6, <2>2, <3>1, <3>2, <4>2 DEF Inv, InOrder
        <5> QED
          BY <1>3, <5>1 DEF Released
      <4>3. CASE u = t
        BY <2>2, <4>3 DEF Released
      <4>4. CASE u > t
        BY <1>4, <2>1, <2>2, <3>2, <4>4
      <4> QED
        BY <1>4, <4>1, <4>2, <4>3, <4>4
    <3> QED
      BY <3>1, <3>2
  <2>3. CASE ~(lock[k] = t /\ Released(t)')
    <3>1. lock'[k] = lock[k]
      BY <1>2, <1>4, <2>3
    <3>2. lock[k] # 0 => stage'[lock[k]] # "released"
      BY <1>3, <2>1, <2>3 DEF Released
    <3> QED
      BY <1>3, <2>1, <3>1, <3>2 DEF Released
  <2> QED
    BY <2>2, <2>3
<1>8. ChainLinks'
  BY <1>1, <1>3 DEF Inv, ChainLinks
<1>9. InOrder'
  <2> SUFFICES ASSUME NEW u \in Calls, NEW v \in Calls, v < u, key[v] = key[u],
                      stage'[u] # "queued"
               PROVE  Released(v)
    BY <1>1, <1>3 DEF InOrder
  <2>1. CASE u # t
    BY <1>3, <2>1 DEF Inv, InOrder
  <2>2. CASE u = t /\ Granted(t)
    BY <2>2, GrantedFirst
  <2>3. CASE u = t /\ ~Granted(t)
    <3>1. stage[t] = "holding"
      BY <2>3 DEF FuncEnds, FuncFails
    <3> QED
      BY <2>3, <3>1 DEF Inv, InOrder
  <2> QED
    BY <2>1, <2>2, <2>3
<1> QED
  BY <1>5, <1>7, <1>8, <1>9 DEF Inv

LEMMA InvStep == Inv /\ [Next]_vars => Inv'
<1> SUFFICES ASSUME Inv, [Next]_vars PROVE Inv'
  OBVIOUS
<1>1. CASE \E k \in Keys : AcquireQueued(k)
  BY <1>1, AcquireInv
<1>2. CASE \E t \in Calls : Granted(t) \/ FuncEnds(t) \/ FuncFails(t)
  BY <1>2, StageInv
<1>3. CASE UNCHANGED vars
  BY <1>3 DEF vars, Inv, TypeOK, LockIsLast, ChainLinks, InOrder, Calls, Released
<1> QED
  BY <1>1, <1>2, <1>3 DEF Next

THEOREM Invariant == Spec => []Inv
BY InvInit, InvStep, PTL DEF Spec

(* No two calls have a key at the same time, not even when one was lost.   *)
LEMMA Exclusive == Inv => MutualExclusion
<1> SUFFICES ASSUME Inv, NEW k \in Keys, NEW t \in Holding(k), NEW u \in Holding(k)
             PROVE  t = u
  BY DEF MutualExclusion
<1>1. /\ t \in Calls /\ u \in Calls /\ key[t] = key[u] /\ ~Released(t) /\ ~Released(u)
      /\ stage[t] # "queued" /\ stage[u] # "queued"
  BY DEF Holding, Released
<1>2. t \in Nat /\ u \in Nat /\ ~(t < u) /\ ~(u < t)
  BY <1>1 DEF Inv, InOrder, TypeOK, Calls
<1> QED
  BY <1>2

THEOREM MutexExcludes == Spec => []MutualExclusion
BY Invariant, Exclusive, PTL

(* isLocked is exact.                                                      *)
THEOREM LockedIsExact == Spec => []LockedMeansTaken
<1>1. Inv => LockedMeansTaken
  <2> SUFFICES ASSUME Inv, NEW k \in Keys
               PROVE  lock[k] # 0 <=> Waiting(k) \cup Holding(k) # {}
    BY DEF LockedMeansTaken
  <2>1. \A t \in Calls : t \in Nat /\ t > 0
        /\ stage[t] \in {"queued", "holding", "released", "lost"}
    BY DEF Inv, TypeOK, Calls
  <2>2. CASE lock[k] # 0
    <3>1. lock[k] \in Calls /\ key[lock[k]] = k /\ ~Released(lock[k])
      BY <2>2 DEF Inv, LockIsLast
    <3>2. lock[k] \in Waiting(k) \cup Holding(k)
      BY <2>1, <3>1 DEF Waiting, Holding, Released
    <3> QED
      BY <2>2, <3>2
  <2>3. CASE lock[k] = 0
    <3>1. \A t \in Calls : key[t] = k => Released(t)
      BY <2>1, <2>3 DEF Inv, LockIsLast
    <3> QED
      BY <2>3, <3>1 DEF Waiting, Holding, Released
  <2> QED
    BY <2>2, <2>3
<1> QED
  BY <1>1, Invariant, PTL

(* What a step of a call that has been made does to the stages.            *)
LEMMA StageMap ==
  ASSUME Inv, NEW t \in Calls, Granted(t) \/ FuncEnds(t) \/ FuncFails(t)
  PROVE  /\ UNCHANGED key /\ Calls' = Calls /\ key[t] \in Keys /\ t > 0
         /\ \A u \in Calls : u # t => stage'[u] = stage[u]
         /\ Granted(t) => stage[t] = "queued" /\ stage'[t] = "holding"
         /\ FuncEnds(t) => stage[t] = "holding" /\ stage'[t] = "released"
         /\ FuncFails(t) => stage[t] = "holding" /\ stage'[t] = "lost"
<1>1. /\ stage \in Seq({"queued", "holding", "released", "lost"}) /\ Len(stage) = Len(key)
      /\ key \in Seq(Keys)
  BY DEF Inv, TypeOK
<1> QED
  BY <1>1 DEF Granted, FuncEnds, FuncFails, Calls

(* Nobody, or the only one.                                                *)
LEMMA OneIs == TheOne({}) = 0 /\ \A t : TheOne({t}) = t
BY DEF TheOne

(* Every step is one of the lock, or changes nothing of it.                *)
LEMMA StepMap == Inv /\ [Next]_vars => [Fifo!Next]_(Fifo!vars)
<1> SUFFICES ASSUME Inv, [Next]_vars PROVE [Fifo!Next]_(Fifo!vars)
  OBVIOUS
<1>0. Inv'
  BY InvStep
<1>1. ASSUME NEW k \in Keys, AcquireQueued(k) PROVE Fifo!Ask(k)
  <2> DEFINE n == Len(key) + 1
  <2>1. key \in Seq(Keys) /\ stage \in Seq({"queued", "holding", "released", "lost"})
        /\ Len(stage) = Len(key) /\ key' = Append(key, k) /\ stage' = Append(stage, "queued")
    BY <1>1 DEF Inv, TypeOK, AcquireQueued
  <2>2. /\ Calls' = Calls \cup {n} /\ n \notin Calls /\ Len(key') = n
        /\ key'[n] = k /\ stage'[n] = "queued"
        /\ \A t \in Calls : key'[t] = key[t] /\ stage'[t] = stage[t]
    BY <2>1 DEF Calls
  <2>3. \A j \in Keys : Holding(j)' = Holding(j)
    BY <2>2 DEF Holding
  <2>4. \A j \in Keys : Waiting(j)' = IF j = k THEN Waiting(j) \cup {n} ELSE Waiting(j)
    BY <2>2 DEF Waiting
  <2> QED
    BY <2>2, <2>3, <2>4 DEF Fifo!Ask
<1>2. ASSUME NEW t \in Calls, Granted(t), NEW k, k = key[t] PROVE Fifo!Serve(k)
  <2>1. \A u \in Calls : key[u] = key[t] /\ u < t => Released(u)
    BY <1>2, GrantedFirst
  <2>2. /\ UNCHANGED key /\ Calls' = Calls /\ k \in Keys /\ t > 0
        /\ \A u \in Calls : u # t => stage'[u] = stage[u]
        /\ stage[t] = "queued" /\ stage'[t] = "holding"
    BY <1>2, StageMap
  <2>3. \A u \in Calls : u \in Nat
    BY DEF Inv, TypeOK, Calls
  <2>4. Holding(k) = {}
    <3> SUFFICES ASSUME NEW u \in Holding(k) PROVE FALSE
      OBVIOUS
    <3>1. u \in Calls /\ key[u] = key[t] /\ stage[u] # "queued" /\ ~Released(u) /\ u # t
      BY <1>2, <2>2 DEF Holding, Released
    <3>2. u < t \/ t < u
      BY <2>3, <3>1
    <3> QED
      BY <2>1, <2>2, <3>1, <3>2 DEF Inv, InOrder, Released
  <2>5. Holding(k)' = {t} /\ \A j \in Keys : j # k => Holding(j)' = Holding(j)
    BY <1>2, <2>2, <2>4 DEF Holding
  <2>6. /\ t \in Waiting(k) /\ Waiting(k)' = Waiting(k) \ {t}
        /\ \A j \in Keys : j # k => Waiting(j)' = Waiting(j)
    BY <1>2, <2>2 DEF Waiting
  <2>7. \A u \in Waiting(k) : t <= u
    BY <1>2, <2>1, <2>3 DEF Waiting, Released
  <2>8. TheOne({}) = 0 /\ TheOne({t}) = t
    BY OneIs
  <2> QED
    BY <2>2, <2>4, <2>5, <2>6, <2>7, <2>8 DEF Fifo!Serve
<1>3. ASSUME NEW t \in Calls, FuncEnds(t), NEW k, k = key[t] PROVE Fifo!Return(k)
  <2>1. /\ UNCHANGED key /\ Calls' = Calls /\ k \in Keys /\ t > 0
        /\ \A u \in Calls : u # t => stage'[u] = stage[u]
        /\ stage[t] = "holding" /\ stage'[t] = "released"
    BY <1>3, StageMap
  <2>2. Holding(k) = {t}
    BY <1>3, <2>1, Exclusive DEF MutualExclusion, Holding
  <2>3. Holding(k)' = {} /\ \A j \in Keys : j # k => Holding(j)' = Holding(j)
    BY <1>3, <2>1, <2>2 DEF Holding
  <2>4. \A j \in Keys : Waiting(j)' = Waiting(j)
    BY <2>1 DEF Waiting
  <2>5. TheOne({}) = 0 /\ TheOne({t}) = t
    BY OneIs
  <2>6. TheOne(Holding(k)) = t /\ TheOne(Holding(k)') = 0
    BY <2>2, <2>3, <2>5
  <2>7. \A j \in Keys : TheOne(Holding(j)') = IF j = k THEN 0 ELSE TheOne(Holding(j))
    BY <2>3, <2>6
  <2>8. t # 0
    BY DEF Inv, TypeOK, Calls
  <2> QED
    BY <2>1, <2>4, <2>6, <2>7, <2>8 DEF Fifo!Return
<1>4. ASSUME NEW t \in Calls, FuncFails(t) PROVE UNCHANGED Fifo!vars
  <2>1. \A j \in Keys : Waiting(j)' = Waiting(j) /\ Holding(j)' = Holding(j)
    BY <1>4, StageMap DEF Waiting, Holding
  <2> QED
    BY <1>4, <2>1, StageMap DEF Fifo!vars
<1>5. ASSUME UNCHANGED vars PROVE UNCHANGED Fifo!vars
  BY <1>5 DEF vars, Fifo!vars, Waiting, Holding, Calls
<1>6. ASSUME NEW t \in Calls PROVE key[t] \in Keys
  BY <1>6 DEF Inv, TypeOK, Calls
<1> QED
  BY <1>1, <1>2, <1>3, <1>4, <1>5, <1>6 DEF Next, Fifo!Next

(* The promise chain hands each key over in the order of the calls.        *)
THEOREM Implements == Spec => ImplementsFifoLock
<1>1. Init => Fifo!Init
  BY OneIs DEF Init, Fifo!Init, Waiting, Holding, Calls
<1> QED
  BY <1>1, StepMap, Invariant, PTL DEF Spec, ImplementsFifoLock, Fifo!Spec
=============================================================================
