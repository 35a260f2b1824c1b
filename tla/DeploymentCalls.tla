--------------------------- MODULE DeploymentCalls ---------------------------
(***************************************************************************)
(* What becomes of the calls hooks make, and of contracts with deploy      *)
(* functions: the conditions on a module under which resuming a hook does  *)
(* what one expects of it, and the invariants that show it.                *)
(***************************************************************************)
EXTENDS DeploymentChecklist

(* A binding with a deployFn that has to be deployed has it at hand: only  *)
(* invalidating arguments takes an address and leaves the metadata.        *)
CustomKnown ==
  Up => \A c \in Contracts : FnEvent[c] # NoEvent /\ mem.addr[c] = 0 =>
          c \in custom \/ \E d \in Contracts : c \in Args[d]

(***************************************************************************)
(* Conditions on the module.                                               *)
(***************************************************************************)

(* A receipt on file belongs to one call: no hook calls a contract twice.  *)
DistinctCalls ==
  \A e \in Events : \A i, j \in DOMAIN Calls[e] :
    i # j /\ Calls[e][i] \in Contracts => Calls[e][i] # Calls[e][j]

(* Nothing is recompiled, nothing is to be deployed anew.                  *)
NothingAnew == MaxEdits = 0 /\ Forced = {}

(* A hook that calls contracts and depends on some waits for these, and    *)
(* for those that take them as arguments, which could make them be         *)
(* deployed again.                                                         *)
Calling(e) == \E i \in DOMAIN Calls[e] : Calls[e][i] \in Contracts
CallersWait ==
  \A e \in Events : Calling(e) =>
    \/ Deps[e] = {}
    \/ /\ Kind[e] = "deployed" /\ e \notin FnEvents
       /\ \A d \in Contracts : Args[d] \cap Deps[e] # {} => d \in Deps[e]

(***************************************************************************)
(* Every call is made.                                                     *)
(***************************************************************************)
Sent(e, i) == \E j \in DOMAIN calls : calls[j].event = e /\ calls[j].index = i

(* The hook that runs has made its calls up to the present one.            *)
CallsBehind ==
  Up /\ at \in {"call", "wait"} => \A i \in DOMAIN Calls[Cur] : i < ci => Sent(Cur, i)

(* The answer that is awaited is to the present call.                      *)
Awaited ==
  Up /\ at = "wait" /\ receipt # 0 =>
    calls[receipt].event = Cur /\ calls[receipt].index = ci

(* Receipts are those of calls.                                            *)
ReceiptsOfCalls ==
  \A e \in Events : \A i \in DOMAIN Calls[e] :
    Calls[e][i] \in Contracts
      /\ (file.log[e][Calls[e][i]] # <<>> \/ mem.log[e][Calls[e][i]] # <<>>) => Sent(e, i)

(* An executed hook has made all its calls.                                *)
AllCallsMade ==
  \A e \in file.done \cup mem.done : \A i \in DOMAIN Calls[e] : Sent(e, i)

CallsMade == CallsBehind /\ Awaited /\ ReceiptsOfCalls /\ AllCallsMade

(***************************************************************************)
(* Every call is made to the present instance.                             *)
(***************************************************************************)

(* There is one bytecode.                                                  *)
OneCode == \A c \in Contracts : code[c] = 1 /\ file.code[c] \in {0, 1}

(* What a hook depends on is there while it runs, and ever after.          *)
Begun(e) == e \in file.done \/ \E j \in DOMAIN calls : calls[j].event = e
DepsStay ==
  /\ \A e \in Events : Calling(e) /\ Begun(e) => \A c \in Deps[e] : file.addr[c] # 0
  /\ Up /\ at \in {"call", "wait"} /\ Calling(Cur) => \A c \in Deps[Cur] : file.addr[c] # 0

CallsCurrent ==
  \A j \in DOMAIN calls :
    LET e == calls[j].event
        i == calls[j].index
    IN i \in DOMAIN Calls[e] /\ (Calls[e][i] \in Deps[e] => calls[j].to = file.addr[Calls[e][i]])

CallsReach == OneCode /\ DepsStay /\ CallsCurrent

(***************************************************************************)
(* No call is repeated.                                                    *)
(***************************************************************************)

(* t is deployed again whenever d is: it is d, or one of its arguments, or *)
(* of theirs.                                                              *)
GoesWith(d, t) ==
  \A S \in SUBSET Contracts : d \in S /\ (\A c \in S : Args[c] \subseteq S) => t \in S

(* A hook that is to be executed again meets new instances only; or no     *)
(* hook that calls is ever executed again.                                 *)
CalleesFollow ==
  \A e \in Events : \A d \in Deps[e], i \in DOMAIN Calls[e] :
    Calls[e][i] \in Contracts => GoesWith(d, Calls[e][i])
CalleesNew == CalleesFollow \/ (NothingAnew /\ CallersWait)
DepsThere == NothingAnew /\ CallersWait => OneCode /\ DepsStay

(* No answer is lost, no deploy function calls, and no hook on failure     *)
(* overwrites the file with what the process had read.                     *)
ReceiptsKept ==
  /\ Faults \cap {"crash", "wait"} = {} /\ OnFail = <<>>
  /\ \A e \in FnEvents : ~Calling(e)

(* The bytecode of all is on file before any call.                         *)
AllRecorded == calls # <<>> => \A c \in Contracts : file.code[c] # 0

(* What a transaction on the chain calls, and where.                       *)
Callee(j) == Calls[calls[j].event][calls[j].index]
CallsKnown ==
  \A j \in DOMAIN calls : /\ calls[j].index \in DOMAIN Calls[calls[j].event]
                          /\ Callee(j) \notin Contracts => calls[j].to = 0
                          /\ calls[j].run <= run

(* Nobody has called the contract that is being created.                   *)
NotCalledYet ==
  Up /\ Created => \A j \in DOMAIN calls : Callee(j) \in Contracts => calls[j].to # made

(* The calls that could be repeated: those to a present instance, of hooks *)
(* that are still to be finished.                                          *)
Live(j) ==
  /\ Callee(j) \in Contracts /\ calls[j].to = file.addr[Callee(j)]
  /\ calls[j].event \in Members(Order) \ file.done

(* The calls to t among the first n that hook e makes.                     *)
CallsTo(e, t, n) == Cardinality({i \in DOMAIN Calls[e] : i <= n /\ Calls[e][i] = t})

(* Hooks that come before, and call the same contract, are through.        *)
EarlierDone ==
  \A j \in DOMAIN calls : Live(j) =>
    \A p, q \in DOMAIN Order :
      /\ Order[p] = calls[j].event /\ q < p /\ Order[q] \in Events
      /\ \E i \in DOMAIN Calls[Order[q]] : Calls[Order[q]][i] = Callee(j)
      => Order[q] \in file.done

(* Receipts on file are at least as many as the calls they answer, but for *)
(* the call that is awaited.                                               *)
Logged ==
  \A j \in DOMAIN calls : Live(j) =>
    \/ Len(file.log[calls[j].event][Callee(j)])
         >= CallsTo(calls[j].event, Callee(j), calls[j].index)
    \/ Up /\ at = "wait" /\ receipt = j
LogAhead ==
  Up /\ at \in {"call", "wait"} =>
    \A t \in Contracts : Len(file.log[Cur][t]) >= CallsTo(Cur, t, ci - 1)

(* A hook resumed by this run has made just those calls to a contract that *)
(* the process has counted; one begun by this run is the one that runs.    *)
Counted ==
  status = "running" => \A j \in DOMAIN calls : Live(j) /\ calls[j].run < run =>
    progress[Callee(j)] =
      IF at \in {"call", "wait"} /\ Cur = calls[j].event
      THEN CallsTo(Cur, Callee(j), IF at = "call" THEN ci - 1 ELSE ci) ELSE 0
OfThisRun ==
  status = "running" => \A j \in DOMAIN calls : Live(j) /\ calls[j].run = run =>
    /\ at \in {"call", "wait"} /\ Cur = calls[j].event
    /\ calls[j].index < ci \/ (at = "wait" /\ calls[j].index = ci)

CallsOnce ==
  /\ DepsThere /\ Awaited /\ AllRecorded /\ CallsKnown /\ NotCalledYet /\ EarlierDone
  /\ Logged /\ LogAhead /\ Counted /\ OfThisRun
=============================================================================
