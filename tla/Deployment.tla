----------------------------- MODULE Deployment -----------------------------
(***************************************************************************)
(* The life of one module on one network: runs of IgnitionCore.deploy that *)
(* resolve the module against its state file, execute its elements one     *)
(* after the other (TxExecutor without parallelize), fail, crash and are   *)
(* started again.  The state file outlives the process; the chain outlives *)
(* both.                                                                   *)
(*                                                                         *)
(* An address is the position of the creation transaction in deployed and  *)
(* a receipt the position of the call in calls; 0 is "undefined".  The     *)
(* shape of the module (its elements, their order, what the hook functions *)
(* do) is fixed by constants; what may change between runs is the bytecode *)
(* the developer compiles.                                                 *)
(***************************************************************************)
EXTENDS Naturals, Sequences, FiniteSets

CONSTANTS
  Contracts,   \* binding names
  Events,      \* event names: hooks of contracts and of the module, Deploy<c>
  Accounts,    \* wallets a hook may send a plain transaction from
  Order,       \* the elements in resolved order (ModuleResolver.resolve)
  OnFail,      \* the module's onFail hooks, in registration order
  Args, Libs,  \* the bindings a contract takes as constructor args, links to
  Deps,        \* the bindings whose eventsDeps list an event
  Kind,        \* what the handler of an event checks and stores
  Calls,       \* whom a hook function calls, in order
  FnEvent,     \* Deploy<c> for a contract with a custom deployFn, or NoEvent
  NoEvent,
  Forced,      \* bindings with force() or a shouldRedeploy that says yes
  MaySkip,     \* bindings the module config may say not to deploy
  Faults,      \* what may go wrong: see Fault
  MaxRuns, MaxEdits   \* bounds on process starts and on recompilations

Fault == {"crash",   \* the process is killed
          "reject",  \* a transaction is refused before it is sent
          "revert",  \* a transaction is sent and reverts
          "wait",    \* waiting for a mined transaction fails (provider error)
          "throw"}   \* a hook function throws by itself

Targets == Contracts \cup Accounts
Elements == Contracts \cup Events
Members(s) == {s[i] : i \in DOMAIN s}

ASSUME ShapeAssumption ==
  /\ Contracts \cap Events = {} /\ Contracts \cap Accounts = {}
  /\ NoEvent \notin Events
  /\ Order \in Seq(Elements) /\ Contracts \subseteq Members(Order)
  /\ OnFail \in Seq(Events) /\ Members(OnFail) \cap Members(Order) = {}
  /\ Args \in [Contracts -> SUBSET Contracts]
  /\ Libs \in [Contracts -> SUBSET Contracts]
  /\ Deps \in [Events -> SUBSET Contracts]
  /\ Kind \in [Events -> {"compiled", "deployed", "onStart", "outcome", "deployFn"}]
  /\ Calls \in [Events -> Seq(Targets)]
  /\ FnEvent \in [Contracts -> Events \cup {NoEvent}]
  /\ Forced \subseteq Contracts /\ MaySkip \subseteq Contracts
  /\ Faults \subseteq Fault
  /\ MaxRuns \in Nat /\ MaxEdits \in Nat

ASSUME OrderAssumption ==  \* what resolving the order guarantees
  /\ \A i, j \in DOMAIN Order : i # j => Order[i] # Order[j]
  /\ \A i, j \in DOMAIN OnFail : i # j => OnFail[i] # OnFail[j]
  /\ \A c \in Contracts : FnEvent[c] # NoEvent =>
       FnEvent[c] \notin Members(Order) \cup Members(OnFail)

VARIABLES
  code,      \* the bytecode of each contract as compiled now
  skip,      \* the bindings with deploy: false in the module config now
  file,      \* the state file
  mem,       \* the resolved module state held by the process
  custom,    \* bindings whose deployFn the process knows
  status,    \* idle, running, failing (onFail hooks), done, failed, crashed
  pos, at,   \* the current element, and how far its execution has come
  ci,        \* the next call of the hook function that is running
  progress,  \* contractTxProgress of every binding
  locked,    \* the sender's key of EventTxExecutor's mutex is held
  receipt,   \* the call being waited for; 0 when it reverted
  made,      \* the contract address the current transaction created
  deployed,  \* on chain: contract creations, in order
  calls,     \* on chain: transactions sent by hooks, in order
  run        \* how many times the tool was started

proc == <<mem, custom, status, pos, at, ci, progress, locked, receipt, made>>
chain == <<deployed, calls>>
input == <<code, skip>>
setup == <<input, custom, run>>   \* what does not change during a run
vars == <<input, file, proc, chain, run>>

NoLog == [t \in Targets |-> <<>>]
EmptyState == [code |-> [c \in Contracts |-> 0],
               addr |-> [c \in Contracts |-> 0],
               rcpt |-> [c \in Contracts |-> 0],
               done |-> {},
               log  |-> [e \in Events |-> NoLog]]

Up == status \in {"running", "failing"}
Plan == IF status = "failing" THEN OnFail ELSE Order
El == Plan[pos]
AtElement == Up /\ at = "next" /\ pos <= Len(Plan)
AtContract == AtElement /\ El \in Contracts
AtEvent == AtElement /\ El \in Events

(***************************************************************************)
(* Resolving a module against its state file.                              *)
(***************************************************************************)
Recorded == {c \in Contracts : file.code[c] # 0}

(* Slips: a changed bytecode is not noticed; the receipt is looked at in   *)
(* place of the address.                                                   *)
FreshMissesEdit == {c \in Contracts : c \in Forced \/ file.addr[c] = 0}
FreshByReceipt == {c \in Contracts : \/ c \in Forced
                                     \/ file.code[c] # code[c]
                                     \/ file.rcpt[c] = 0}
Fresh == {c \in Contracts : \/ c \in Forced
                            \/ file.code[c] # code[c]
                            \/ file.addr[c] = 0}
Kept == Contracts \ Fresh

(* Redoing a recorded contract forgets the address of the contracts it     *)
(* takes as arguments, and so on down the arguments.                       *)
ArgsForgotten(S) ==
  \A c \in (Fresh \cap Recorded) \cup S : Args[c] \cap Kept \subseteq S
Invalidated == {c \in Kept : \A S \in SUBSET Kept : ArgsForgotten(S) => c \in S}
Redone == (Fresh \cap Recorded) \cup Invalidated
(* A slip: hooks of the contracts that are redone themselves are kept.     *)
ResetForArgsOnly == {e \in file.done : Deps[e] \cap Invalidated # {}}
ResetEvents == {e \in file.done : Deps[e] \cap Redone # {}}

(* A slip: the hooks that were executed are forgotten. *)
ResolvedLosesEvents ==
  [code |-> code,
   addr |-> [c \in Contracts |-> IF c \in Kept \ Invalidated THEN file.addr[c] ELSE 0],
   rcpt |-> [c \in Contracts |-> IF c \in Kept THEN file.rcpt[c] ELSE 0],
   done |-> {},
   log  |-> [e \in Events |-> NoLog]]

(* A slip: the log of a hook the order does not have is kept, too.         *)
ResolvedKeepsAllLogs ==
  [code |-> code,
   addr |-> [c \in Contracts |-> IF c \in Kept \ Invalidated THEN file.addr[c] ELSE 0],
   rcpt |-> [c \in Contracts |-> IF c \in Kept THEN file.rcpt[c] ELSE 0],
   done |-> (file.done \cap Members(Order)) \ ResetEvents,
   log  |-> [e \in Events |-> IF e \notin ResetEvents THEN file.log[e] ELSE NoLog]]

Resolved ==
  [code |-> code,
   addr |-> [c \in Contracts |-> IF c \in Kept \ Invalidated THEN file.addr[c] ELSE 0],
   rcpt |-> [c \in Contracts |-> IF c \in Kept THEN file.rcpt[c] ELSE 0],
   done |-> (file.done \cap Members(Order)) \ ResetEvents,
   log  |-> [e \in Events |-> IF e \in Members(Order) \ ResetEvents
                              THEN file.log[e] ELSE NoLog]]

(* A slip: only bindings that were never on file keep their deployFn.      *)
CustomForgotten == {c \in Fresh \ Recorded : FnEvent[c] # NoEvent}
(* The state file holds no functions: a binding whose metadata is taken    *)
(* from it has no deployFn any more.                                       *)
CustomDeployed == {c \in Fresh : FnEvent[c] # NoEvent}

(***************************************************************************)
(* Steps shared by the actions.                                            *)
(***************************************************************************)
StoreNewState(s) == file' = s
StoreSingleBinding(s, c) ==
  file' = [file EXCEPT !.code[c] = s.code[c], !.addr[c] = s.addr[c],
                       !.rcpt[c] = s.rcpt[c]]

Advance == pos' = pos + 1 /\ at' = "next"
(* A slip: the next element starts in the middle. *)
ThrowInPlace == /\ status' = IF status = "running" THEN "failing" ELSE "failed"
                /\ pos' = 1 /\ at' = at
(* An error leaves the loop: the onFail hooks run, unless it is theirs. *)
Throw == /\ status' = IF status = "running" THEN "failing" ELSE "failed"
         /\ pos' = 1 /\ at' = "next"

Idle == UNCHANGED <<setup, file, mem, ci, progress, locked, receipt, made, chain>>

Init ==
  /\ code = [c \in Contracts |-> 1] /\ skip \in SUBSET MaySkip
  /\ file = EmptyState /\ mem = EmptyState /\ custom = {}
  /\ status = "idle" /\ pos = 1 /\ at = "next" /\ ci = 1
  /\ progress = [c \in Contracts |-> 0]
  /\ locked = FALSE /\ receipt = 0 /\ made = 0
  /\ deployed = <<>> /\ calls = <<>> /\ run = 0

(* The developer changes and recompiles a contract between two runs. *)
Edit(c) ==
  /\ ~Up /\ run > 0 /\ code[c] <= MaxEdits
  /\ code' = [code EXCEPT ![c] = @ + 1]
  /\ UNCHANGED <<skip, file, proc, chain, run>>

(* The developer changes the module config between two runs.               *)
Configure(c) ==
  /\ ~Up /\ run > 0 /\ c \in MaySkip
  /\ skip' = IF c \in skip THEN skip \ {c} ELSE skip \cup {c}
  /\ UNCHANGED <<code, file, proc, chain, run>>

(* deploy(): read the state file, resolve, and store the resolved state    *)
(* before anything is executed.                                            *)
StartRun ==
  /\ ~Up /\ run < MaxRuns
  /\ mem' = Resolved /\ StoreNewState(Resolved) /\ custom' = CustomDeployed
  /\ status' = "running" /\ pos' = 1 /\ at' = "next" /\ ci' = 1
  /\ progress' = [c \in Contracts |-> 0]
  /\ locked' = FALSE /\ receipt' = 0 /\ made' = 0
  /\ run' = run + 1
  /\ UNCHANGED <<input, chain>>

Crash ==
  /\ Up /\ "crash" \in Faults
  /\ status' = "crashed"
  /\ UNCHANGED <<pos, at>> /\ Idle

(* A slip: a run whose onFail hooks went through reports success. *)
EndRunSucceeds ==
  /\ Up /\ at = "next" /\ pos > Len(Plan)
  /\ status' = "done"
  /\ UNCHANGED <<pos, at>> /\ Idle
(* All elements, or all onFail hooks, are through. *)
EndRun ==
  /\ Up /\ at = "next" /\ pos > Len(Plan)
  /\ status' = IF status = "running" THEN "done" ELSE "failed"
  /\ UNCHANGED <<pos, at>> /\ Idle

(***************************************************************************)
(* A contract.                                                             *)
(***************************************************************************)
SkipContract ==
  /\ AtContract
  /\ mem.addr[El] # 0 \/ El \in skip
  /\ Advance /\ UNCHANGED status /\ Idle

ToDeploy(c) == mem.addr[c] = 0 /\ c \notin skip

(* A slip: no address is checked. *)
LinkableAnyway(c) == TRUE
(* An argument needs transaction data, which initTx gives to all but the   *)
(* custom ones, and an address; a library needs an address.                *)
Linkable(c) ==
  /\ \A a \in Args[c] : a \notin custom /\ mem.addr[a] # 0
  /\ \A l \in Libs[c] : mem.addr[l] # 0

NotLinkable ==
  /\ AtContract /\ ToDeploy(El) /\ El \notin custom
  /\ ~Linkable(El)
  /\ Throw /\ Idle

DeployFails ==
  /\ AtContract /\ ToDeploy(El) /\ El \notin custom
  /\ Linkable(El)
  /\ Faults \cap {"reject", "revert"} # {}
  /\ Throw /\ Idle

Creation(c) ==
  [contract |-> c, code |-> mem.code[c], run |-> run, by |-> NoEvent,
   args |-> [a \in Contracts |-> IF a \in Args[c] \cup Libs[c] THEN mem.addr[a] ELSE 0]]

(* The creation transaction is sent and stored as input; it will be mined. *)
SendDeploy ==
  /\ AtContract /\ ToDeploy(El) /\ El \notin custom
  /\ Linkable(El)
  /\ deployed' = Append(deployed, Creation(El))
  /\ made' = Len(deployed) + 1
  /\ at' = "sent"
  /\ UNCHANGED <<setup, file, mem, status, pos, ci, progress, locked, receipt, calls>>

(* The first confirmation: the receipt is stored. *)
StoreReceipt ==
  /\ Up /\ at = "sent"
  /\ mem' = [mem EXCEPT !.rcpt[El] = made]
  /\ StoreSingleBinding(mem', El)
  /\ at' = "mined"
  /\ UNCHANGED <<setup, status, pos, ci, progress, locked, receipt, made, chain>>

WaitFails ==
  /\ Up /\ "wait" \in Faults
  /\ \/ at = "sent"
     \/ at = "mined" /\ El \notin custom
  /\ Throw /\ Idle

(* A slip: the address is kept in memory only. *)
RecordAddressUnstored ==
  /\ Up /\ at = "mined"
  /\ mem' = [mem EXCEPT !.addr[El] = made]
  /\ Advance
  /\ UNCHANGED <<setup, file, status, ci, progress, locked, receipt, made, chain>>

(* All confirmations are there: the address is recorded. *)
RecordAddress ==
  /\ Up /\ at = "mined"
  /\ mem' = [mem EXCEPT !.addr[El] = made]
  /\ StoreSingleBinding(mem', El)
  /\ Advance
  /\ UNCHANGED <<setup, status, ci, progress, locked, receipt, made, chain>>

(***************************************************************************)
(* A hook function: a contract event, a module event, or a deployFn.       *)
(***************************************************************************)
SkipEvent ==
  /\ AtEvent /\ El \in mem.done
  /\ Advance /\ UNCHANGED status /\ Idle

DepsDeployed == Kind[El] = "deployed" => \A c \in Deps[El] : mem.addr[c] # 0

DepsMissing ==
  /\ AtEvent /\ El \notin mem.done /\ ~DepsDeployed
  /\ Throw /\ Idle

BeginEvent ==
  /\ AtEvent /\ El \notin mem.done /\ DepsDeployed
  /\ at' = "call" /\ ci' = 1
  /\ UNCHANGED <<setup, file, mem, status, pos, progress, locked, receipt, made, chain>>

BeginDeployFn ==
  /\ AtContract /\ ToDeploy(El) /\ El \in custom
  /\ at' = "call" /\ ci' = 1
  /\ UNCHANGED <<setup, file, mem, status, pos, progress, locked, receipt, made, chain>>

Cur == IF El \in Events THEN El ELSE FnEvent[El]
CallLeft == Up /\ at = "call" /\ ci <= Len(Calls[Cur])
Target == Calls[Cur][ci]
Callable == Target \in Contracts => mem.addr[Target] # 0

(* A slip: stored receipts are not looked up. *)
ReplaysNever == FALSE
(* The wrapper of a contract function holds the call to be executed if the *)
(* event has more receipts for this binding than the process made calls to *)
(* the binding.  A wallet transaction is never looked up.                  *)
Replays == Target \in Contracts /\ Len(file.log[Cur][Target]) > progress[Target]

StoreCallOutput(r) ==
  file' = [file EXCEPT !.log[Cur][Target] = Append(@, r)]

CountCall == progress' = IF Target \in Contracts
                         THEN [progress EXCEPT ![Target] = @ + 1] ELSE progress

NotCallable ==
  /\ CallLeft /\ ~Callable
  /\ Throw /\ Idle

ReplayCall ==
  /\ CallLeft /\ Callable /\ ~locked /\ Replays
  /\ CountCall
  /\ StoreCallOutput(file.log[Cur][Target][progress[Target] + 1])
  /\ ci' = ci + 1
  /\ UNCHANGED <<setup, mem, status, pos, at, locked, receipt, made, chain>>

(* The transaction is refused (or the gas price stays too high, or the     *)
(* arguments do not fit): the sender's key is not released.                *)
RejectCall ==
  /\ CallLeft /\ Callable /\ ~locked /\ ~Replays
  /\ "reject" \in Faults
  /\ locked' = TRUE
  /\ Throw
  /\ UNCHANGED <<setup, file, mem, ci, progress, receipt, made, chain>>

(* A deployFn's last transaction creates the contract. *)
Creates == El \in Contracts /\ ci = Len(Calls[Cur])

SendCall ==
  /\ CallLeft /\ Callable /\ ~locked /\ ~Replays
  /\ locked' = TRUE
  /\ CountCall
  /\ calls' = Append(calls, [event |-> Cur, index |-> ci, run |-> run,
       to |-> IF Target \in Contracts THEN mem.addr[Target] ELSE 0])
  /\ receipt' = Len(calls) + 1
  /\ IF Creates
     THEN /\ deployed' = Append(deployed,
               [contract |-> El, code |-> mem.code[El], run |-> run, by |-> Cur,
                args |-> [a \in Contracts |-> 0]])
          /\ made' = Len(deployed) + 1
     ELSE UNCHANGED <<deployed, made>>
  /\ at' = "wait"
  /\ UNCHANGED <<setup, file, mem, status, pos, ci>>

SendRevertingCall ==
  /\ CallLeft /\ Callable /\ ~locked /\ ~Replays
  /\ "revert" \in Faults
  /\ locked' = TRUE
  /\ CountCall
  /\ receipt' = 0
  /\ at' = "wait"
  /\ UNCHANGED <<setup, file, mem, status, pos, ci, made, chain>>

(* A slip: the error of a failed transaction is swallowed. *)
CallWaitFailsSilently ==
  /\ Up /\ at = "wait"
  /\ receipt = 0 \/ "wait" \in Faults
  /\ locked' = FALSE /\ at' = "call" /\ ci' = ci + 1
  /\ UNCHANGED <<setup, file, mem, status, pos, progress, receipt, made, chain>>
(* Neither a revert nor a lost answer releases the sender's key. *)
CallWaitFails ==
  /\ Up /\ at = "wait"
  /\ receipt = 0 \/ "wait" \in Faults
  /\ Throw /\ Idle

(* A slip: the sender's key is kept. *)
ConfirmCallKeepsKey ==
  /\ Up /\ at = "wait" /\ receipt # 0
  /\ StoreCallOutput(receipt)
  /\ at' = "call" /\ ci' = ci + 1
  /\ UNCHANGED <<setup, mem, status, pos, progress, locked, receipt, made, chain>>
ConfirmCall ==
  /\ Up /\ at = "wait" /\ receipt # 0
  /\ locked' = FALSE
  /\ StoreCallOutput(receipt)
  /\ at' = "call" /\ ci' = ci + 1
  /\ UNCHANGED <<setup, mem, status, pos, progress, receipt, made, chain>>

FunctionThrows ==
  /\ Up /\ at = "call" /\ "throw" \in Faults
  /\ Throw /\ Idle

(* finishCurrentEvent and finishCurrentModuleEvent: the event as the file  *)
(* has it becomes executed in memory, and the whole memory becomes the     *)
(* file.  The outcome hooks of a module are stored without transactions.   *)
Finished(e) ==
  [mem EXCEPT !.done = @ \cup {e},
              !.log[e] = IF Kind[e] = "outcome" THEN NoLog ELSE file.log[e]]

FinishEvent ==
  /\ Up /\ at = "call" /\ El \in Events /\ ci > Len(Calls[El])
  /\ mem' = Finished(El) /\ StoreNewState(Finished(El))
  /\ Advance
  /\ UNCHANGED <<setup, status, ci, progress, locked, receipt, made, chain>>

(* A deployFn that sent nothing left no event in the file to finish. *)
DeployFnSentNothing ==
  /\ Up /\ at = "call" /\ El \in Contracts /\ Calls[Cur] = <<>>
  /\ Throw /\ Idle

FinishDeployFn ==
  /\ Up /\ at = "call" /\ El \in Contracts
  /\ Calls[Cur] # <<>> /\ ci > Len(Calls[Cur])
  /\ mem' = Finished(Cur) /\ StoreNewState(Finished(Cur))
  /\ at' = "mined"
  /\ UNCHANGED <<setup, status, pos, ci, progress, locked, receipt, made, chain>>

Step ==
  \/ EndRun
  \/ SkipContract \/ NotLinkable \/ DeployFails \/ SendDeploy
  \/ StoreReceipt \/ WaitFails \/ RecordAddress
  \/ SkipEvent \/ DepsMissing \/ BeginEvent \/ BeginDeployFn
  \/ NotCallable \/ ReplayCall \/ RejectCall \/ SendCall \/ SendRevertingCall
  \/ CallWaitFails \/ ConfirmCall
  \/ FinishEvent \/ DeployFnSentNothing \/ FinishDeployFn

Next == \/ Step \/ FunctionThrows \/ StartRun \/ Crash
        \/ \E c \in Contracts : Edit(c) \/ Configure(c)

(* Whenever a step of the tool is enabled, so is one that is no fault: a   *)
(* hook function need not throw, however long it waits.                    *)
Spec == Init /\ [][Next]_vars /\ WF_vars(Step)

(***************************************************************************)
(* Properties.                                                             *)
(***************************************************************************)
State == [code : [Contracts -> Nat], addr : [Contracts -> Nat],
          rcpt : [Contracts -> Nat], done : SUBSET Events,
          log : [Events -> [Targets -> Seq(Nat)]]]
Deployed == [contract : Contracts, code : Nat, run : Nat, by : Events \cup {NoEvent},
             args : [Contracts -> Nat]]
Called == [event : Events, index : Nat, run : Nat, to : Nat]

(* The types of the state file, the memory of the process and the chain;   *)
(* an element is being executed only where the plan has one, a deployFn    *)
(* only for the contracts that have it, and a call is awaited that the     *)
(* hook function makes.                                                    *)
TypeOK ==
  /\ code \in [Contracts -> Nat] /\ skip \subseteq MaySkip
  /\ file \in State /\ mem \in State
  /\ custom \subseteq {c \in Contracts : FnEvent[c] # NoEvent}
  /\ status \in {"idle", "running", "failing", "done", "failed", "crashed"}
  /\ pos \in Nat \ {0} /\ at \in {"next", "sent", "mined", "call", "wait"}
  /\ ci \in Nat \ {0} /\ run \in Nat
  /\ progress \in [Contracts -> Nat] /\ locked \in BOOLEAN
  /\ receipt \in 0 .. Len(calls) /\ made \in 0 .. Len(deployed)
  /\ deployed \in Seq(Deployed) /\ calls \in Seq(Called)
  /\ Up /\ at # "next" => pos \in DOMAIN Plan
  /\ Up /\ at \in {"sent", "mined"} => El \in Contracts
  /\ Up /\ at \in {"call", "wait"} => El \in Events \cup custom
  /\ Up /\ at = "wait" => ci \in DOMAIN Calls[Cur]

IsAddressOf(a, c) == a \in DOMAIN deployed /\ deployed[a].contract = c

(* An address on record, in the file or in memory, is that of an instance  *)
(* of this contract, created from the bytecode on record: neither a failed *)
(* confirmation nor a recompilation ever leaves the address of something   *)
(* else behind (executor.ts stores code, receipt and address in separate   *)
(* writes).                                                                *)
RecordedAddressesExist ==
  \A s \in {file, mem}, c \in Contracts :
    s.addr[c] # 0 => /\ IsAddressOf(s.addr[c], c)
                     /\ deployed[s.addr[c]].code = s.code[c]
                     /\ FnEvent[c] = NoEvent => s.rcpt[c] = s.addr[c]

(* A contract is created with the addresses of earlier creations of the    *)
(* contracts it takes and links to, and those of this run have the         *)
(* bytecode of this run; a hook calls an instance of the contract it names.*)
WiredCorrectly ==
  /\ \A i \in DOMAIN deployed :
       LET d == deployed[i] IN
       d.by = NoEvent =>
         \A a \in Args[d.contract] \cup Libs[d.contract] :
           /\ IsAddressOf(d.args[a], a) /\ d.args[a] < i
           /\ d.run = run => deployed[d.args[a]].code = mem.code[a]
  /\ \A j \in DOMAIN calls :
       LET t == Calls[calls[j].event][calls[j].index] IN
       t \in Contracts => IsAddressOf(calls[j].to, t)

(* Between two elements the file says what the process knows: whenever the *)
(* process dies there, the next run resumes from all of it.                *)
FileInSync == status = "running" /\ at = "next" => file = mem

(* A run that reports success has deployed every contract and executed     *)
(* every hook, whatever earlier runs left undone.                          *)
DoneMeansDeployed ==
  [][status # "done" /\ status' = "done" =>
       /\ \A c \in Contracts \ skip : file.addr[c] # 0
       /\ Members(Order) \cap Events \subseteq file.done]_vars

(* Within a run no write loses an address or an executed hook: the whole   *)
(* file is rewritten from memory by every hook, also by those of onFail    *)
(* after an error left a hook half way.                                    *)
RunNeverForgets ==
  [][run' = run =>
       /\ \A c \in Contracts : file.addr[c] # 0 => file'.addr[c] = file.addr[c]
       /\ file.done \subseteq file'.done]_vars

(* Nothing left to do: every element is on record, with today's bytecode.  *)
Complete ==
  /\ \A c \in Contracts : file.addr[c] # 0 /\ file.code[c] = code[c] /\ c \notin Forced
  /\ Members(Order) \cap Events \subseteq file.done

(* Hooks of the module, which belong to no contract.                       *)
ModuleHook(e) == Kind[e] \in {"onStart", "outcome"}

(* Running a deployed module again creates no contract, sends nothing for  *)
(* one and forgets nothing. Hooks of the module are left out: the code     *)
(* skips those on record as executed (events/handler.ts:218), where        *)
(* docs/concepts/module_builder/events.md:41 and :45 would have them run   *)
(* every time.                                                             *)
RerunSendsNothing ==
  [][Complete =>
       /\ deployed' = deployed
       /\ \A j \in DOMAIN calls' \ DOMAIN calls : ModuleHook(calls'[j].event)
       /\ code' = code => Complete']_vars

(* A contract with a deployFn is created by this deployFn alone, unless    *)
(* another takes it as an argument: then its address may be forgotten      *)
(* while its metadata, which has no functions, stay those of the file.     *)
CustomStaysCustom ==
  \A i \in DOMAIN deployed :
    LET c == deployed[i].contract IN
    \/ deployed[i].by = FnEvent[c]
    \/ deployed[i].by = NoEvent /\ \E d \in Contracts : c \in Args[d]

(* A hook on record as executed has sent each of its calls, to the present *)
(* instance of a contract it depends on.                                   *)
ExecutedMeansCalled ==
  \A e \in file.done : Kind[e] # "outcome" =>
    \A i \in DOMAIN Calls[e] :
      \E j \in DOMAIN calls :
        /\ calls[j].event = e /\ calls[j].index = i
        /\ Calls[e][i] \in Deps[e] => calls[j].to = file.addr[Calls[e][i]]

(* A hook's call reaches the same instance of a contract at most once,     *)
(* however often the hook is resumed.                                      *)
NoRepeatedCall ==
  \A i, j \in DOMAIN calls :
    i < j /\ calls[i].to # 0 /\ Kind[calls[i].event] # "outcome" =>
      ~(/\ calls[i].event = calls[j].event
        /\ calls[i].index = calls[j].index /\ calls[i].to = calls[j].to)

(* A contract deployed from the present bytecode, which nobody asked to    *)
(* redeploy, stays where it is, unless one on record that takes it as an   *)
(* argument has to be deployed again.                                      *)
TakerGoes(c) ==
  \E d \in Contracts : c \in Args[d] /\ file.code[d] # 0 /\ file'.addr[d] = 0
KeepsDeployed ==
  [][\A c \in Contracts \ Forced :
       file.addr[c] # 0 /\ file.code[c] = code[c] =>
         file'.addr[c] = file.addr[c] \/ TakerGoes(c)]_vars

(* A run ends: it succeeds, fails or is killed.                            *)
RunEnds == Up ~> ~Up
=============================================================================
