------------------------ MODULE DeploymentInductive ------------------------
(***************************************************************************)
(* The inductive invariant behind the safety properties of Deployment: how *)
(* the state file, the memory of the process and the chain hang together   *)
(* in the middle of a run.                                                 *)
(***************************************************************************)
EXTENDS Deployment

(* While the process lives, what it knows of contracts and of executed     *)
(* hooks is on file; the file is ahead only by the calls of the hook that  *)
(* is running.                                                             *)
Sync ==
  /\ Up => /\ file.code = mem.code /\ file.addr = mem.addr
           /\ file.rcpt = mem.rcpt /\ file.done = mem.done
  /\ status = "running" =>
       \A e \in Events : file.log[e] = mem.log[e] \/ (at \in {"call", "wait"} /\ e = Cur)

(* An element is executed only if it was not before.                       *)
Place ==
  Up /\ at # "next" => IF El \in Contracts THEN mem.addr[El] = 0 ELSE El \notin mem.done

(* A deployFn's calls are never found on file: its event is not resolved,  *)
(* so its log is that of this run, which progress counts.                  *)
FnEvents == {FnEvent[c] : c \in Contracts} \ {NoEvent}
FnLog ==
  Up => /\ \A e \in FnEvents, t \in Contracts :
             /\ Len(file.log[e][t]) <= progress[t]
             /\ Len(mem.log[e][t]) <= progress[t]
        /\ at = "wait" /\ Cur \in FnEvents /\ Target \in Contracts =>
             Len(file.log[Cur][Target]) < progress[Target]

(* The contract that a transaction of the current element has created.     *)
MadeHere == IsAddressOf(made, El) /\ deployed[made].code = mem.code[El]
Created ==
  \/ at \in {"sent", "mined"}
  \/ /\ at \in {"call", "wait"} /\ El \in Contracts /\ Calls[Cur] # <<>>
     /\ IF at = "call" THEN ci > Len(Calls[Cur])
                       ELSE ci = Len(Calls[Cur]) /\ receipt # 0
InFlight ==
  Up => /\ Created => MadeHere
        /\ at = "mined" /\ El \notin custom => mem.rcpt[El] = made

(* No creation is of a run that is still to come.                          *)
History == \A i \in DOMAIN deployed : deployed[i].run <= run

(* What lies before the current element is done.                           *)
Progress ==
  status = "running" => \A i \in DOMAIN Order : i < pos =>
    IF Order[i] \in Contracts THEN mem.addr[Order[i]] # 0 \/ Order[i] \in skip
                              ELSE Order[i] \in mem.done

(* The onFail hooks run only when something is left to do.                 *)
Unfinished(s) ==
  (\E c \in Contracts : s.addr[c] = 0) \/ ~(Members(Order) \cap Events \subseteq s.done)
FailedAtSomething == status = "failing" => Unfinished(mem)

(* The inductive invariant: the parts above, the types, and the two        *)
(* properties of addresses.                                                *)
Inductive ==
  /\ TypeOK /\ Sync /\ Place /\ FnLog /\ InFlight /\ History
  /\ Progress /\ FailedAtSomething
  /\ RecordedAddressesExist /\ WiredCorrectly
=============================================================================
