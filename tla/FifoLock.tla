------------------------------ MODULE FifoLock ------------------------------
(***************************************************************************)
(* What a keyed lock promises: one holder per key, and the key handed over *)
(* in the order in which it was asked for.  Calls are numbered as they     *)
(* come.                                                                   *)
(***************************************************************************)
EXTENDS Naturals

CONSTANT Keys
VARIABLES issued,   \* how many calls were made
          waiting,  \* the calls that wait for each key
          holder    \* the call that has each key, or 0

vars == <<issued, waiting, holder>>

Init == /\ issued = 0
        /\ waiting = [k \in Keys |-> {}] /\ holder = [k \in Keys |-> 0]

Ask(k) ==
  /\ issued' = issued + 1
  /\ waiting' = [waiting EXCEPT ![k] = @ \cup {issued + 1}]
  /\ UNCHANGED holder

(* A free key goes to the call that has waited longest. *)
Serve(k) ==
  /\ holder[k] = 0
  /\ \E t \in waiting[k] :
       /\ \A u \in waiting[k] : t <= u
       /\ waiting' = [waiting EXCEPT ![k] = @ \ {t}]
       /\ holder' = [holder EXCEPT ![k] = t]
  /\ UNCHANGED issued

Return(k) ==
  /\ holder[k] # 0
  /\ holder' = [holder EXCEPT ![k] = 0]
  /\ UNCHANGED <<issued, waiting>>

Next == \E k \in Keys : Ask(k) \/ Serve(k) \/ Return(k)

Spec == Init /\ [][Next]_vars
=============================================================================
