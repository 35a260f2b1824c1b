------------------------------ MODULE KeyMutex ------------------------------
(***************************************************************************)
(* The mutex of EventTxExecutor, one lock per sender: a chain of promises, *)
(* each caller waiting for the promise that stood in the lock before it    *)
(* put its own there.  Mutex, of the state file, is the case of one key.   *)
(*                                                                         *)
(* A call is numbered by the promise it creates; 0 is "undefined".  What   *)
(* the caller does with the key is FuncEnds or FuncFails.                  *)
(***************************************************************************)
EXTENDS Naturals, Sequences

CONSTANTS
  Keys,      \* senders
  MayFail,   \* whether what the holder does may throw
  MaxCalls   \* bound on calls of acquireQueued

ASSUME CallsAssumption == MaxCalls \in Nat /\ MayFail \in BOOLEAN

VARIABLES
  lock,     \* this._lock: the last promise for each key
  key,      \* the key each call asked for
  prev,     \* the promise each call waits for
  stage     \* queued, holding, released (its promise resolved), or lost

vars == <<lock, key, prev, stage>>

Calls == DOMAIN key
Released(t) == stage[t] = "released"

Init == /\ lock = [k \in Keys |-> 0]
        /\ key = <<>> /\ prev = <<>> /\ stage = <<>>

(* Slips: the caller waits for what the one before it waits for; or for    *)
(* its own promise, which it put there first.                              *)
AcquireQueuedTogether(k) ==
  /\ Len(key) < MaxCalls
  /\ key' = Append(key, k) /\ stage' = Append(stage, "queued")
  /\ prev' = Append(prev, IF lock[k] = 0 THEN 0 ELSE prev[lock[k]])
  /\ lock' = [lock EXCEPT ![k] = Len(key) + 1]
AcquireQueuedSwapped(k) ==
  /\ Len(key) < MaxCalls
  /\ key' = Append(key, k) /\ stage' = Append(stage, "queued")
  /\ prev' = Append(prev, Len(key) + 1)
  /\ lock' = [lock EXCEPT ![k] = Len(key) + 1]
(* The lock is read and replaced without an await in between.              *)
AcquireQueued(k) ==
  /\ Len(key) < MaxCalls
  /\ key' = Append(key, k) /\ stage' = Append(stage, "queued")
  /\ prev' = Append(prev, lock[k])
  /\ lock' = [lock EXCEPT ![k] = Len(key) + 1]

(* The promise waited for is resolved, or there was none.                  *)
Granted(t) ==
  /\ stage[t] = "queued"
  /\ prev[t] # 0 => Released(prev[t])
  /\ stage' = [stage EXCEPT ![t] = "holding"]
  /\ UNCHANGED <<lock, key, prev>>

(* A slip: the lock is emptied whoever stands in it.                       *)
FuncEndsEmptying(t) ==
  /\ stage[t] = "holding"
  /\ stage' = [stage EXCEPT ![t] = "released"]
  /\ lock' = [lock EXCEPT ![key[t]] = 0]
  /\ UNCHANGED <<key, prev>>
(* The holder calls release.                                               *)
FuncEnds(t) ==
  /\ stage[t] = "holding"
  /\ stage' = [stage EXCEPT ![t] = "released"]
  /\ lock' = IF lock[key[t]] = t THEN [lock EXCEPT ![key[t]] = 0] ELSE lock
  /\ UNCHANGED <<key, prev>>

(* The function or the wait for its transaction throws: release is never   *)
(* called.                                                                 *)
FuncFails(t) ==
  /\ MayFail /\ stage[t] = "holding"
  /\ stage' = [stage EXCEPT ![t] = "lost"]
  /\ UNCHANGED <<lock, key, prev>>

Next == \/ \E k \in Keys : AcquireQueued(k)
        \/ \E t \in Calls : Granted(t) \/ FuncEnds(t) \/ FuncFails(t)

(* Promise callbacks run, and what a holder does comes to an end.          *)
Fairness == \A t \in 1 .. MaxCalls :
  WF_vars(t \in Calls /\ (Granted(t) \/ FuncEnds(t) \/ FuncFails(t)))

Spec == Init /\ [][Next]_vars /\ Fairness

(***************************************************************************)
(* Properties.                                                             *)
(***************************************************************************)
(* The mutex is a fair lock: see FifoLock.  A key that was lost stays with *)
(* the call that lost it.                                                  *)
Waiting(k) == {t \in Calls : key[t] = k /\ stage[t] = "queued"}
Holding(k) == {t \in Calls : key[t] = k /\ stage[t] \in {"holding", "lost"}}
TheOne(S) == IF S = {} THEN 0 ELSE CHOOSE t \in S : TRUE
Fifo == INSTANCE FifoLock WITH
  issued <- Len(key), waiting <- [k \in Keys |-> Waiting(k)],
  holder <- [k \in Keys |-> TheOne(Holding(k))]
ImplementsFifoLock == Fifo!Spec

(* isLocked says so exactly while somebody holds the key or waits for it.  *)
LockedMeansTaken ==
  \A k \in Keys : lock[k] # 0 <=> Waiting(k) \cup Holding(k) # {}

(* Who waits is served unless an earlier holder of the key failed.         *)
EventuallyServed ==
  \A t \in 1 .. MaxCalls :
    (t \in Calls /\ stage[t] = "queued")
      ~> (/\ t \in Calls
          /\ \/ stage[t] # "queued"
             \/ \E u \in 1 .. t : key[u] = key[t] /\ stage[u] = "lost")
=============================================================================
