----------------------------- MODULE Checklist -----------------------------
(***************************************************************************)
(* What a resumable deployment promises, with neither chain nor state file *)
(* nor transactions: a list of elements that is worked off in order, run   *)
(* after run.  An element that is done stays done while the run lasts; the *)
(* next run begins with some of them, but never with a hook whose contract *)
(* has to be deployed again; success means that nothing is left.           *)
(***************************************************************************)
EXTENDS Naturals, Sequences

CONSTANTS
  Contracts,   \* the elements that are contracts; the others are hooks
  Order,       \* all elements, in the order in which they are worked off
  OnFail,      \* the hooks of a run that failed, in their order
  Deps         \* the contracts each hook depends on

VARIABLES
  done,    \* the elements on record as deployed or executed
  skip,    \* the contracts that need not be deployed
  status   \* running, failing (onFail hooks), done, stopped

vars == <<done, skip, status>>

Members(s) == {s[i] : i \in DOMAIN s}
Up == status \in {"running", "failing"}
Plan == IF status = "failing" THEN OnFail ELSE Order
Settled == done \cup skip
(* The element whose turn it is: the first that is not settled.            *)
Turn(i) == /\ i \in DOMAIN Plan /\ Plan[i] \notin Settled
           /\ \A j \in DOMAIN Plan : j < i => Plan[j] \in Settled

Init == done = {} /\ skip \subseteq Contracts /\ status = "stopped"

Configure ==
  /\ ~Up
  /\ skip' \in SUBSET Contracts
  /\ UNCHANGED <<done, status>>

(* Between two runs contracts may have to be deployed again, and with them *)
(* every hook that depends on one is to be executed again.                 *)
Begin ==
  /\ ~Up /\ status' = "running"
  /\ done' \in SUBSET (done \cap Members(Order))
  /\ \A e \in done' \ Contracts : Deps[e] \cap done \subseteq done'
  /\ UNCHANGED skip

Settle ==
  /\ Up
  /\ \E i \in DOMAIN Plan : Turn(i) /\ done' = done \cup {Plan[i]}
  /\ UNCHANGED <<skip, status>>

Fail ==
  /\ status = "running" /\ status' = "failing"
  /\ \E i \in DOMAIN Plan : Turn(i)
  /\ UNCHANGED <<done, skip>>

Succeed ==
  /\ status = "running" /\ status' = "done"
  /\ Members(Order) \subseteq Settled
  /\ UNCHANGED <<done, skip>>

Stop ==
  /\ Up /\ status' = "stopped"
  /\ UNCHANGED <<done, skip>>

Next == Configure \/ Begin \/ Settle \/ Fail \/ Succeed \/ Stop

Spec == Init /\ [][Next]_vars
=============================================================================
