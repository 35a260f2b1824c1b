---------------------------- MODULE DeploymentView ----------------------------
(***************************************************************************)
(* What the developer is shown of a deployment and what is true of it: the *)
(* default logger (OverviewLogger on top of FileLogging, drawn by          *)
(* TerminalLayout), called in the course of a sequential deployment, and   *)
(* the summary at its end (ModuleDeploymentSummaryService).                *)
(*                                                                         *)
(* Every method of the logger may throw, and what it throws is an error of *)
(* the deployment like any other: onFail hooks run, and the logger is      *)
(* asked to show it.                                                       *)
(***************************************************************************)
EXTENDS Integers, Sequences, FiniteSets

CONSTANTS
  Contracts, Hooks, \* what a module consists of
  Elements,         \* the same, in the order of the resolver
  EndHooks,         \* the onSuccess and onCompletion hooks among the hooks
  FailHooks,        \* the onFail hooks, a sequence
  Args,             \* the contracts a contract takes as constructor arguments
  Needs,            \* the contracts each hook is declared on
  Calls,            \* what each hook sends, a sequence of "call" and "transfer"
  Configurable,     \* the contracts the module config may leave out
  MaxRuns           \* bound on the number of deployments

ASSUME ViewAssumption ==
  /\ Elements \in Seq(Contracts \cup Hooks) /\ Contracts \cap Hooks = {}
  /\ \A i, j \in DOMAIN Elements : i # j => Elements[i] # Elements[j]
  /\ EndHooks \subseteq Hooks /\ Configurable \subseteq Contracts
  /\ Args \in [Contracts -> SUBSET Contracts]
  /\ Calls \in [Hooks -> Seq({"call", "transfer"})]
  /\ FailHooks \in Seq(STRING \ Hooks) /\ MaxRuns \in Nat

VARIABLES
  run,   \* the deployment that runs, or that ran last
  file,  \* the state file: addresses, executed hooks, what each hook sent
  mem,   \* the same, resolved and kept by the process; no receipts during a hook
  old,   \* the state file as it was read at the beginning, for the summary
  view,  \* the logger and the screen
  done,  \* the elements this deployment deployed or executed
  sent,  \* the number of transactions of this deployment that were mined
  lost   \* whether a call was ever sent and its receipt not seen

vars == <<run, file, mem, old, view, done, sent, lost>>

None == "none"
Elem == Elements[run.pos]
IsDone(x) == x \in file.address \cup file.executed
Unsent == [in |-> 0, out |-> 0, paid |-> 0]
Passed == {Elements[i] : i \in 1 .. run.pos - 1}

(***************************************************************************)
(* The logger: what it holds, and what was drawn last.                     *)
(***************************************************************************)
NewView == [context |-> None, shown |-> FALSE, status |-> <<>>, count |-> 0, total |-> 0,
            tx |-> "", message |-> None, summary |-> <<>>, threw |-> FALSE]
(* The same process deployed another module before.                        *)
AfterOther == [NewView EXCEPT !.context = "other"]

(* Whoever is called before a module was started throws, and so does a     *)
(* method that is given an element that is not there.                      *)
Log(v, known, w) == IF v.threw THEN v
                    ELSE IF v.context = None \/ ~known THEN [v EXCEPT !.threw = TRUE]
                    ELSE w
LogLine(v) == Log(v, TRUE, v)
Known(v, x) == x \in DOMAIN v.status
Draw(v, tx) == [v EXCEPT !.tx = tx, !.message = None, !.summary = <<>>]

StartModuleDeploy(v) ==
  [v EXCEPT !.context = "this", !.shown = TRUE, !.count = 0, !.total = Len(Elements),
            !.status = [x \in {Elements[i] : i \in DOMAIN Elements} |-> "empty"],
            !.tx = "", !.message = None, !.summary = <<>>]
(* A slip: what was deployed before is counted here, and when it finishes.  *)
AlreadyDeployedCounted(v, x) ==
  Log(v, Known(v, x), Draw([v EXCEPT !.status[x] = "successfully", !.count = @ + 1], ""))
AlreadyDeployed(v, x) ==
  Log(v, Known(v, x), Draw([v EXCEPT !.status[x] = "successfully"], ""))
(* A slip: the spinner of a contract does not start.                       *)
BindingExecutionUnshown(v, x) == Log(v, Known(v, x), Draw(v, ""))
BindingExecution(v, x) ==
  Log(v, Known(v, x), Draw([v EXCEPT !.status[x] = "in progress"], ""))
EventExecution(v, x) ==
  Log(v, Known(v, x), Draw([v EXCEPT !.status[x] = "in progress"], ""))
SendingTx(v) == Log(v, TRUE, Draw(v, "sending"))
SentTx(v) == Log(v, TRUE, Draw(v, "sent"))
WaitTransactionConfirmation(v) == Log(v, TRUE, Draw(v, "waiting for block"))
TransactionConfirmation(v) == Log(v, TRUE, Draw(v, "waiting for block"))
FinishedBindingExecution(v, x) ==
  Log(v, Known(v, x), Draw([v EXCEPT !.status[x] = "successfully", !.count = @ + 1], ""))
(* A slip: the count and the status of an onFail hook are looked for.      *)
FinishedEventAll(v, x) ==
  Log(v, Known(v, x), Draw([v EXCEPT !.status[x] = "successfully", !.count = @ + 1], ""))
FinishedEventExecution(v, x) ==
  IF x \in Hooks
  THEN Log(v, Known(v, x), Draw([v EXCEPT !.status[x] = "successfully", !.count = @ + 1], ""))
  ELSE LogLine(v)
FinishModuleDeploy(v, transactions) ==
  Log(v, TRUE, [Draw(v, "") EXCEPT !.summary = <<transactions>>])
LogError(v, error) ==
  [Draw(v, "") EXCEPT !.shown = FALSE, !.message = error, !.threw = FALSE]

(* What TerminalLayout draws of the elements.                              *)
Percentage(v) == (v.count * 200 + v.total) \div (2 * v.total)
ModuleElements(v, s) == IF v.shown THEN {x \in DOMAIN v.status : v.status[x] = s} ELSE {}

(***************************************************************************)
(* The deployment.                                                         *)
(***************************************************************************)
At(s) == run.at = s
In(S) == run.at \in S
Raised(r, error) ==
  [r EXCEPT !.at = "failing", !.left = FailHooks, !.error = error, !.first = error]
(* The logger was called; if it threw, so does the deployment.             *)
Proceed(v, r) == /\ view' = [v EXCEPT !.threw = FALSE]
                 /\ run' = IF v.threw THEN Raised(run, "logger") ELSE r
Advance == [run EXCEPT !.at = "next", !.pos = @ + 1]
Unfiled == UNCHANGED <<file, mem>>
Kept == UNCHANGED <<old, done, sent, lost>>

Init ==
  /\ run = [at |-> "idle", pos |-> 1, made |-> 0, skip |-> {}, left |-> <<>>,
            error |-> None, first |-> None, n |-> 0]
  /\ file = [address |-> {}, executed |-> {}, log |-> [h \in Hooks |-> Unsent]]
  /\ mem = file /\ old = file /\ view = NewView /\ done = {} /\ sent = 0 /\ lost = FALSE

(* A contract on file without an address is deployed anew, and the ones it *)
(* takes as arguments with it, and so on; executed hooks on any of them    *)
(* are undone.                                                             *)
ArgsForgotten(S) ==
  \A c \in (Contracts \ file.address) \cup S : Args[c] \cap file.address \subseteq S
Forgotten == {c \in file.address : \A S \in SUBSET file.address : ArgsForgotten(S) => c \in S}
Undone == {h \in file.executed : ~(Needs[h] \subseteq file.address \ Forgotten)}
Resolved == [address |-> file.address \ Forgotten, executed |-> file.executed \ Undone,
             log |-> [h \in Hooks |-> IF h \in Undone THEN Unsent ELSE file.log[h]]]

(* The process is new, or has deployed another module.  The state that was *)
(* read is changed by resolving: it shares its hooks with the new one, and *)
(* the record of the address of a forgotten contract.  So the two agree on *)
(* a forgotten contract whatever comes of it.                              *)
Deploy ==
  /\ At("idle") /\ run.n < MaxRuns
  /\ \E skip \in SUBSET Configurable :
       run' = [at |-> "resolving", pos |-> 1, made |-> 0, skip |-> skip, left |-> <<>>,
               error |-> None, first |-> None, n |-> run.n + 1]
  /\ view' \in {NewView, AfterOther}
  /\ mem' = Resolved /\ old' = [Resolved EXCEPT !.address = file.address] /\ done' = {} /\ sent' = 0
  /\ UNCHANGED <<file, lost>>

(* The module is not valid, or does not fit the state file.                *)
ResolveFails ==
  /\ At("resolving")
  /\ run' = [run EXCEPT !.at = "raised", !.error = "module", !.first = "module"]
  /\ Unfiled /\ Kept /\ UNCHANGED view
(* The new state cannot be stored: no module was started yet.              *)
StoreFails == At("resolving") /\ run' = Raised(run, "store") /\ Unfiled /\ Kept /\ UNCHANGED view
Execute ==
  /\ At("resolving")
  /\ Proceed(StartModuleDeploy(view), [run EXCEPT !.at = "next"])
  /\ file' = mem /\ UNCHANGED mem /\ Kept

AtContract == At("next") /\ run.pos <= Len(Elements) /\ Elem \in Contracts
AtHook == At("next") /\ run.pos <= Len(Elements) /\ Elem \in Hooks

SkipContract ==
  /\ AtContract /\ Elem \in file.address
  /\ Proceed(FinishedBindingExecution(AlreadyDeployed(view, Elem), Elem), Advance)
  /\ Unfiled /\ Kept
LeaveOut ==
  /\ AtContract /\ Elem \in run.skip \ file.address
  /\ run' = Advance /\ Unfiled /\ Kept /\ UNCHANGED view
ExecuteSingleBinding ==
  /\ AtContract /\ Elem \notin run.skip \cup file.address
  /\ Proceed(BindingExecution(view, Elem), [run EXCEPT !.at = "binding"])
  /\ Unfiled /\ Kept
SendContract ==
  /\ At("binding") /\ Args[Elem] \subseteq mem.address
  /\ Proceed(SendingTx(LogLine(view)), [run EXCEPT !.at = "sending"])
  /\ Unfiled /\ Kept
ContractSent ==
  /\ At("sending")
  /\ Proceed(TransactionConfirmation(WaitTransactionConfirmation(SentTx(view))),
             [run EXCEPT !.at = "sent"])
  /\ Unfiled /\ Kept
ContractMined ==
  /\ At("sent")
  /\ mem' = [mem EXCEPT !.address = @ \cup {Elem}]
  /\ file' = [file EXCEPT !.address = @ \cup {Elem}]
  /\ done' = done \cup {Elem} /\ sent' = sent + 1
  /\ Proceed(FinishedBindingExecution(TransactionConfirmation(view), Elem), Advance)
  /\ UNCHANGED <<old, lost>>
(* Arguments, node or transaction.  The node refuses, and the logger is    *)
(* told that the transaction was sent all the same.                        *)
ContractFails ==
  /\ In({"binding", "sending", "sent"}) /\ run' = Raised(run, "contract")
  /\ view' = IF At("sending") THEN SentTx(view) ELSE view
  /\ Unfiled /\ Kept

SkipHook ==
  /\ AtHook /\ Elem \in file.executed
  /\ Proceed(FinishedEventExecution(AlreadyDeployed(EventExecution(view, Elem), Elem), Elem), Advance)
  /\ Unfiled /\ Kept
DepsMissing ==
  /\ AtHook /\ Elem \notin file.executed /\ ~(Needs[Elem] \subseteq file.address)
  /\ view' = EventExecution(view, Elem) /\ run' = Raised(run, "needs")
  /\ Unfiled /\ Kept
ExecuteHook ==
  /\ AtHook /\ Elem \notin file.executed /\ Needs[Elem] \subseteq file.address
  /\ Proceed(EventExecution(view, Elem), [run EXCEPT !.at = "hook", !.made = 0])
  /\ Unfiled /\ Kept

More == run.made < Len(Calls[Elem])
Kind == Calls[Elem][run.made + 1]
(* contractTxProgress of the contract the hook calls.                      *)
Progress == Cardinality({i \in 1 .. run.made : Calls[Elem][i] = "call"})
Replays == Kind = "call" /\ file.log[Elem].out > Progress
(* The receipt of an earlier run is returned, and stored once more.        *)
ReplayCall ==
  /\ At("hook") /\ More /\ Replays
  /\ file' = [file EXCEPT !.log[Elem].out = @ + 1]
  /\ run' = [run EXCEPT !.made = @ + 1]
  /\ Kept /\ UNCHANGED <<mem, view>>
SendCall ==
  /\ At("hook") /\ More /\ ~Replays
  /\ Proceed(SendingTx(LogLine(view)), [run EXCEPT !.at = "calling"])
  /\ Unfiled /\ Kept
CallSent ==
  /\ At("calling")
  /\ file' = IF Kind = "call" THEN [file EXCEPT !.log[Elem].in = @ + 1] ELSE file
  /\ Proceed(LogLine(IF Kind = "call" THEN WaitTransactionConfirmation(SentTx(view)) ELSE SentTx(view)),
             [run EXCEPT !.at = "called"])
  /\ Kept /\ UNCHANGED mem
(* A slip: the receipt is not stored.                                      *)
CallMinedUnstored ==
  /\ At("called") /\ run' = [run EXCEPT !.at = "hook", !.made = @ + 1]
  /\ sent' = sent + 1
  /\ UNCHANGED <<file, mem, old, view, done, lost>>
CallMined ==
  /\ At("called")
  /\ file' = IF Kind = "call" THEN [file EXCEPT !.log[Elem].out = @ + 1]
             ELSE [file EXCEPT !.log[Elem].paid = @ + 1]
  /\ run' = [run EXCEPT !.at = "hook", !.made = @ + 1] /\ sent' = sent + 1
  /\ UNCHANGED <<mem, old, view, done, lost>>
Unanswered == At("called") /\ Kind = "call"
(* The node refuses, the answer is lost, or the function throws.           *)
HookFails ==
  /\ In({"hook", "calling", "called"}) /\ run' = Raised(run, "hook")
  /\ lost' = (lost \/ Unanswered)
  /\ Unfiled /\ UNCHANGED <<old, view, done, sent>>
(* A slip: every hook is replaced by one that sent nothing.                *)
FinishHookEmpty ==
  /\ At("hook") /\ ~More
  /\ mem' = [mem EXCEPT !.executed = @ \cup {Elem}, !.log[Elem] = Unsent]
  /\ file' = mem'
  /\ done' = done \cup {Elem}
  /\ Proceed(FinishedEventExecution(view, Elem), Advance)
  /\ UNCHANGED <<old, sent, lost>>
(* An onSuccess or onCompletion hook is replaced by one that sent nothing. *)
FinishHook ==
  /\ At("hook") /\ ~More
  /\ mem' = [mem EXCEPT !.executed = @ \cup {Elem},
                         !.log[Elem] = IF Elem \in EndHooks THEN Unsent ELSE file.log[Elem]]
  /\ file' = mem'
  /\ done' = done \cup {Elem}
  /\ Proceed(FinishedEventExecution(view, Elem), Advance)
  /\ UNCHANGED <<old, sent, lost>>

(***************************************************************************)
(* The end of a deployment.                                                *)
(***************************************************************************)
(* An onFail hook; the memory of the process is written over the file.     *)
FailHook ==
  /\ At("failing") /\ run.left # <<>>
  /\ file' = mem
  /\ LET v == FinishedEventExecution(view, Head(run.left))
     IN /\ view' = [v EXCEPT !.threw = FALSE]
        /\ run' = IF v.threw THEN [run EXCEPT !.at = "raised", !.error = "logger"]
                  ELSE [run EXCEPT !.left = Tail(@)]
  /\ Kept /\ UNCHANGED mem
FailHookThrows ==
  /\ At("failing") /\ run.left # <<>>
  /\ run' = [run EXCEPT !.at = "raised", !.error = "failHook"]
  /\ Unfiled /\ Kept /\ UNCHANGED view
FailHooksDone ==
  /\ At("failing") /\ run.left = <<>> /\ run' = [run EXCEPT !.at = "raised"]
  /\ Unfiled /\ Kept /\ UNCHANGED view
ReportError ==
  /\ At("raised") /\ view' = LogError(view, run.error) /\ run' = [run EXCEPT !.at = "idle"]
  /\ Unfiled /\ Kept

(* What is new against the state the deployment began with; each input of  *)
(* a new hook must have an output to take the gas from.                    *)
NewHooks == file.executed \ old.executed
NewContracts == file.address \ old.address
Receipts(h) == file.log[h].out + file.log[h].paid
(* The sum of f over those of the first k elements that are in S.          *)
Sums(f, S) == LET sum[k \in 0 .. Len(Elements)] ==
                    IF k = 0 THEN 0
                    ELSE sum[k - 1] + (IF Elements[k] \in S THEN f[Elements[k]] ELSE 0)
              IN sum
Sum(f, S) == Sums(f, S)[Len(Elements)]
Transactions == Cardinality(NewContracts) + Sum([h \in Hooks |-> Receipts(h)], NewHooks)
Countable == \A h \in NewHooks : file.log[h].in <= Receipts(h)
Complete == At("next") /\ run.pos > Len(Elements)
ShowSummary ==
  /\ Complete /\ Countable
  /\ Proceed(FinishModuleDeploy(view, Transactions), [run EXCEPT !.at = "idle"])
  /\ Unfiled /\ Kept
SummaryThrows ==
  /\ Complete /\ ~Countable
  /\ run' = [run EXCEPT !.at = "raised", !.error = "summary", !.first = "summary"]
  /\ Unfiled /\ Kept /\ UNCHANGED view

(* The process is killed.                                                  *)
Crash ==
  /\ ~At("idle") /\ run' = [run EXCEPT !.at = "idle"] /\ view' = NewView
  /\ lost' = (lost \/ Unanswered)
  /\ Unfiled /\ UNCHANGED <<old, done, sent>>

Step ==
  \/ ResolveFails \/ StoreFails \/ Execute
  \/ SkipContract \/ LeaveOut \/ ExecuteSingleBinding \/ SendContract \/ ContractSent
  \/ ContractMined \/ ContractFails
  \/ SkipHook \/ DepsMissing \/ ExecuteHook \/ ReplayCall \/ SendCall \/ CallSent
  \/ CallMined \/ HookFails \/ FinishHook
  \/ FailHook \/ FailHookThrows \/ FailHooksDone \/ ReportError \/ ShowSummary \/ SummaryThrows
Next == Deploy \/ Step \/ Crash
Spec == Init /\ [][Next]_vars

(***************************************************************************)
(* Properties.                                                             *)
(***************************************************************************)
(* The progress that is shown is that of the state file, over runs that    *)
(* skip and redo: the elements passed that are on record, and 100% at the  *)
(* end of a deployment that leaves nothing out.                            *)
ProgressExact ==
  view.shown => /\ view.count = Cardinality({x \in Passed : IsDone(x)})
                /\ view.summary # <<>> /\ run.skip \subseteq file.address => Percentage(view) = 100

(* A tick stands for what is on record, so that a process that is killed   *)
(* now has not told the developer too much; a spinner turns for the        *)
(* element that is being deployed or executed, and for no other.           *)
StatusTruthful ==
  /\ \A x \in ModuleElements(view, "successfully") : IsDone(x)
  /\ \A x \in ModuleElements(view, "in progress") : x = Elem
  /\ In({"binding", "sending", "sent", "hook", "calling", "called"}) =>
       ModuleElements(view, "in progress") = {Elem}

(* What ends a deployment is what the developer is told: the logger itself *)
(* never ends one.  An error of an onFail hook takes the place of the one  *)
(* before it; and before the module is started the logger fails the onFail *)
(* hooks.                                                                  *)
CauseShown ==
  /\ run.first # "logger"
  /\ view.message \notin {None, run.first} => run.first = "store" \/ view.message = "failHook"
  /\ view.message = "logger" => FailHooks # <<>>

(* The number of transactions that the summary shows is that of the ones   *)
(* this deployment sent, and counts none of an earlier one, but for those  *)
(* of its onSuccess and onCompletion hooks; in a deployment that redid no  *)
(* contract for its being an argument, and began no hook over that had     *)
(* transactions on file.                                                   *)
DoneHooks == done \cap Hooks
StartedAnew == done \cap old.address = {} /\ \A h \in DoneHooks : old.log[h] = Unsent
SummaryExact ==
  view.summary # <<>> /\ StartedAnew =>
    sent = view.summary[1] + Sum([h \in Hooks |-> Len(Calls[h])], DoneHooks \cap EndHooks)

(* A complete deployment is reported as one that failed only if the        *)
(* receipt of some call was lost in one before: a crash or a failed wait   *)
(* between input and receipt.                                              *)
SummaryFailsAfterLoss == run.first = "summary" => lost
=============================================================================
