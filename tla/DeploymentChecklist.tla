------------------------- MODULE DeploymentChecklist -------------------------
(***************************************************************************)
(* Deployment keeps the promise of Checklist: the elements on record are   *)
(* the contracts with an address and the executed hooks in the state file. *)
(***************************************************************************)
EXTENDS DeploymentInductive

(* What the file has of the plans; a deployFn is stored like a hook, but   *)
(* is no element of its own.                                               *)
OnRecord == {c \in Contracts : file.addr[c] # 0}
              \cup (file.done \cap (Members(Order) \cup Members(OnFail)))
Stage == IF status \in {"idle", "failed", "crashed"} THEN "stopped" ELSE status

Promise == INSTANCE Checklist WITH done <- OnRecord, status <- Stage

(* Whatever fails or dies in between, the runs of the tool work off the    *)
(* checklist of the module: in order, nothing forgotten or done twice      *)
(* within a run, hooks executed again with the contracts they depend on,   *)
(* an error only at an element that was due, success only when no element  *)
(* is left (deploy and TxExecutor._executeSync over the state file).       *)
ImplementsChecklist == Promise!Spec

(***************************************************************************)
(* What the refinement needs beyond Inductive.                             *)
(***************************************************************************)

(* No contract the module config leaves out is being deployed.             *)
NotSkipped == Up /\ at # "next" /\ El \in Contracts => El \notin skip

(* Bytecode 0 is that of a contract the file has never heard of.           *)
Coded == \A c \in Contracts : /\ code[c] # 0
                              /\ Up => mem.code[c] # 0
                              /\ file.addr[c] # 0 => file.code[c] # 0

(* What lies before the current onFail hook is done.                       *)
FailProgress ==
  status = "failing" => \A i \in DOMAIN OnFail : i < pos => OnFail[i] \in mem.done

Auxiliary == NotSkipped /\ Coded /\ FailProgress
=============================================================================
