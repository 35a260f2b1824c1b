----------------------------- MODULE ParallelRun -----------------------------
(***************************************************************************)
(* A parallel deployment: TxExecutor._executeBatches and _executeEvents,   *)
(* the hooks of a batch running together, the calls they make through      *)
(* EventTxExecutor, the nonces of the senders and the state file, which    *)
(* everyone reads, changes and writes with an await in between.            *)
(*                                                                         *)
(* A call of a hook starts executeAll, which runs every pending call of    *)
(* every hook: one lane for each sender.  Lanes of a sender take turns by  *)
(* the key of the mutex, a first-come first-served lock (KeyMutexProofs).  *)
(* What stands between two awaits is one step.  The program runs until all *)
(* its promises wait for something outside (Quiet) before it hears of the  *)
(* network or a timer; until then its hooks and lanes take turns in any    *)
(* order, between the reading and the writing of a file too.               *)
(***************************************************************************)
EXTENDS Integers, Sequences, FiniteSets

CONSTANTS
  Contracts, Hooks, Senders,
  Batches,      \* sequence of [contracts |-> sequence, hooks |-> set]
  Args,         \* the contracts the constructor of each contract takes
  Deps,         \* the contracts each hook is declared on, a sequence
  Calls,        \* the calls of each hook: sequence of [to, from]
  Signer,       \* who signs each contract
  OnRecord,     \* the contracts an earlier run may have deployed
  MayDeployFn,  \* the contracts that may have a deploy function
  MaySkip,      \* the contracts the configuration may leave out
  MayFail       \* whether nodes, transactions and hooks may fail

ASSUME ParallelAssumption ==
  /\ Batches \in Seq([contracts : Seq(Contracts), hooks : SUBSET Hooks]) /\ Batches # <<>>
  /\ \A j, k \in DOMAIN Batches : j # k => Batches[j].hooks \cap Batches[k].hooks = {}
  /\ Calls \in [Hooks -> Seq([to : Contracts, from : Senders])]
  /\ Signer \in [Contracts -> Senders] /\ Args \in [Contracts -> SUBSET Contracts]
  /\ Deps \in [Hooks -> Seq(Contracts)]
  /\ OnRecord \cup MayDeployFn \cup MaySkip \subseteq Contracts
  /\ MayFail \in BOOLEAN

VARIABLES
  main,      \* the loop over the batches
  hook,      \* how far each hook is
  root,      \* _rootEvents: the pending calls <<hook, number>>, oldest first
  lanes,     \* the lanes of executeAll, by <<hook, number of the call, sender>>
  queue,     \* who has the key of each sender and who waits for it, in order
  progress,  \* contractTxProgress of each contract
  nonceMap,  \* the next nonce of each sender, once it was looked up
  mem, file, \* addresses, executed hooks and receipts: in memory, on disk
  txs,       \* the transactions sent: [from, nonce, what]
  mined,     \* how many transactions of each sender are mined
  custom     \* the contracts with a deploy function, and those left out

chain == <<nonceMap, txs, mined>>
executor == <<root, lanes, queue, progress>>
vars == <<main, hook, executor, chain, mem, file, custom>>

Unknown == -1
NoCopy == <<>>
Waits(h) == {Deps[h][i] : i \in DOMAIN Deps[h]}
NewState(deployed) ==
  [address |-> [c \in Contracts |-> c \in deployed],
   executed |-> [h \in Hooks |-> FALSE],
   log |-> [h \in Hooks |-> [c \in Contracts |-> 0]]]

Init ==
  /\ main = [at |-> "send", batch |-> 1, left |-> Batches[1].contracts,
             sent |-> <<>>, looked |-> Unknown, copy |-> NoCopy]
  /\ hook = [h \in Hooks |-> [at |-> "idle", next |-> 1, left |-> <<>>, copy |-> NoCopy]]
  /\ root = <<>> /\ lanes = <<>> /\ queue = [s \in Senders |-> <<>>]
  /\ progress = [c \in Contracts |-> 0]
  /\ nonceMap = [s \in Senders |-> Unknown] /\ txs = <<>> /\ mined = [s \in Senders |-> 0]
  /\ mem \in {NewState({}), NewState(OnRecord)} /\ file = mem
  /\ custom \in [deployFn : SUBSET MayDeployFn, skipped : SUBSET MaySkip]

InBatch == Batches[main.batch].hooks
Skips(c) == mem.address[c] \/ c \in custom.skipped
HasKey(l) == queue[l[3]] # <<>> /\ Head(queue[l[3]]) = l
(* Everything that runs waits for an answer from outside.                  *)
LoopWaits == CASE main.at = "send" -> IF main.left = <<>> THEN main.sent # <<>>
                                ELSE ~Skips(Head(main.left))
               [] main.at = "hooks" -> \E h \in InBatch : hook[h].at # "ended"
               [] main.at = "record" -> FALSE
               [] OTHER -> TRUE
Quiet == /\ LoopWaits
         /\ \A h \in Hooks : hook[h].at \in {"idle", "await", "away", "ended", "failed", "refused"}
         /\ \A l \in DOMAIN lanes : lanes[l].at \in {"send", "wait", "lost", "failed"}
                                    \/ (lanes[l].at = "queued" /\ ~HasKey(l))

(***************************************************************************)
(* getAndIncrementTransactionCount: a sender that is not in the map is     *)
(* looked up first, and the answer put there when it comes.                *)
(***************************************************************************)
MustLookUp(s, looked) == nonceMap[s] = Unknown /\ looked = Unknown
Nonce(s, looked) == IF looked # Unknown THEN looked ELSE nonceMap[s]
TakeNonce(s, looked) ==
  /\ ~MustLookUp(s, looked)
  /\ nonceMap' = [nonceMap EXCEPT ![s] = Nonce(s, looked) + 1]
Send(s, looked, what) ==
  /\ TakeNonce(s, looked)
  /\ txs' = Append(txs, [from |-> s, nonce |-> Nonce(s, looked), what |-> what])
  /\ UNCHANGED mined

(***************************************************************************)
(* The loop over the batches.                                              *)
(***************************************************************************)
Sending(c) == main.at = "send" /\ main.left # <<>> /\ Head(main.left) = c /\ Quiet
ByLoop == UNCHANGED <<hook, executor, custom>>

(* It was deployed by an earlier run, or the configuration leaves it out.  *)
SkipContract ==
  /\ main.at = "send" /\ main.left # <<>> /\ Skips(Head(main.left))
  /\ main' = [main EXCEPT !.left = Tail(@)]
  /\ ByLoop /\ UNCHANGED <<chain, mem, file>>

(* A contract whose arguments have no address is refused before.           *)
HasAddresses(c) == \A a \in Args[c] : mem.address[a]
ToBeSent(c) == Sending(c) /\ c \notin custom.deployFn /\ HasAddresses(c)
LookUpForContract(c) ==
  /\ ToBeSent(c) /\ MustLookUp(Signer[c], main.looked)
  /\ main' = [main EXCEPT !.looked = mined[Signer[c]]]
  /\ ByLoop /\ UNCHANGED <<chain, mem, file>>

(* Sent, not waited for.                                                   *)
SendContract(c) ==
  /\ ToBeSent(c) /\ Send(Signer[c], main.looked, <<c, 0>>)
  /\ main' = [main EXCEPT !.left = Tail(@), !.sent = Append(@, c), !.looked = Unknown]
  /\ ByLoop /\ UNCHANGED <<mem, file>>

(* Before the nonce is taken: an argument has no address; a look-up or the *)
(* estimate of the gas fails; or there is a deploy function, which runs    *)
(* but leaves no transaction to wait for.                                  *)
ContractFails(c) ==
  /\ Sending(c) /\ main.looked = Unknown
  /\ c \in custom.deployFn \/ ~HasAddresses(c) \/ MayFail
  /\ main' = [main EXCEPT !.at = "threw"]
  /\ ByLoop /\ UNCHANGED <<chain, mem, file>>
(* After it: the node refuses the transaction, and the nonce is gone.      *)
ContractRefused(c) ==
  /\ MayFail /\ ToBeSent(c) /\ TakeNonce(Signer[c], main.looked)
  /\ main' = [main EXCEPT !.at = "refused", !.looked = Unknown]
  /\ ByLoop /\ UNCHANGED <<txs, mined, mem, file>>
(* One that was sent is reverted.  Until all are sent nobody waits for it, *)
(* and the process ends at the rejection.                                  *)
BatchMined ==
  mined' = [s \in Senders |-> mined[s] +
    Cardinality({i \in DOMAIN main.sent : Signer[main.sent[i]] = s})]
ContractReverts ==
  /\ MayFail /\ main.at = "send" /\ main.sent # <<>> /\ Quiet
  /\ BatchMined /\ main' = [main EXCEPT !.at = "threw"]
  /\ ByLoop /\ UNCHANGED <<nonceMap, txs, mem, file>>

(* All transactions of the batch are mined, and its hooks start; one that  *)
(* finds a contract without an address throws.                             *)
Start(h) == IF \A c \in Waits(h) : mem.address[c]
            THEN [hook[h] EXCEPT !.at = "run"] ELSE [hook[h] EXCEPT !.at = "refused"]
ExecuteEvents ==
  /\ main.at = "send" /\ main.left = <<>> /\ (Quiet \/ main.sent = <<>>)
  /\ BatchMined /\ main' = [main EXCEPT !.at = "hooks"]
  /\ hook' = [h \in Hooks |-> IF h \in InBatch THEN Start(h) ELSE hook[h]]
  /\ UNCHANGED <<executor, nonceMap, txs, mem, file, custom>>

EventsExecuted ==
  /\ main.at = "hooks" /\ \A h \in InBatch : hook[h].at = "ended"
  /\ main' = [main EXCEPT !.at = "record"]
  /\ ByLoop /\ UNCHANGED <<chain, mem, file>>

(* Now the addresses are set and stored, one after the other.              *)
RecordAddress(c) ==
  /\ main.at = "record" /\ main.copy = NoCopy /\ main.sent # <<>> /\ c = Head(main.sent)
  /\ mem' = [mem EXCEPT !.address[c] = TRUE]
  /\ main' = [main EXCEPT !.copy = <<file>>]
  /\ ByLoop /\ UNCHANGED <<chain, file>>
StoreAddress(c) ==
  /\ main.at = "record" /\ main.copy # NoCopy /\ c = Head(main.sent)
  /\ file' = [Head(main.copy) EXCEPT !.address[c] = TRUE]
  /\ main' = [main EXCEPT !.sent = Tail(@), !.copy = NoCopy]
  /\ ByLoop /\ UNCHANGED <<chain, mem>>

Enter(k) == [main EXCEPT !.at = "send", !.batch = k, !.left = Batches[k].contracts, !.sent = <<>>]
(* A slip: the next batch does not wait for the addresses to be recorded.  *)
NextBatchEarly ==
  /\ main.at = "record" /\ main.copy = NoCopy
  /\ main' = IF main.batch < Len(Batches) THEN Enter(main.batch + 1)
             ELSE [main EXCEPT !.at = "ended"]
  /\ ByLoop /\ UNCHANGED <<chain, mem, file>>
NextBatch ==
  /\ main.at = "record" /\ main.sent = <<>>
  /\ main' = IF main.batch < Len(Batches) THEN Enter(main.batch + 1)
             ELSE [main EXCEPT !.at = "ended"]
  /\ ByLoop /\ UNCHANGED <<chain, mem, file>>

(***************************************************************************)
(* A hook: its calls, and what is stored when its function has returned.   *)
(***************************************************************************)
ByHook == UNCHANGED <<main, chain, custom>>
Running(h) == hook[h].at \in {"run", "back"}
AtEnd(h) == Running(h) /\ hook[h].next > Len(Calls[h])
SenderOf(e) == Calls[e[1]][e[2]].from
SendersIn(r) == {SenderOf(r[i]) : i \in DOMAIN r}
(* The pending calls of one sender, in the order they are pending.         *)
PendingOf(r, s) ==
  LET list[n \in 0 .. Len(r)] ==
        IF n = 0 THEN <<>>
        ELSE IF SenderOf(r[n]) = s THEN Append(list[n - 1], r[n]) ELSE list[n - 1]
  IN list[Len(r)]
Lane(r, s) == [todo |-> PendingOf(r, s), at |-> "queued",
               iterator |-> 0, looked |-> Unknown, copy |-> NoCopy]

(* The call is added to the pending ones and all of these are executed,    *)
(* those that are already being executed included.                         *)
Call(h) ==
  LET i == hook[h].next
      r == Append(root, <<h, i>>)
      new == {<<h, i, s>> : s \in SendersIn(r)}
  IN /\ Running(h) /\ i <= Len(Calls[h])
     /\ root' = r
     /\ lanes' = [l \in DOMAIN lanes \cup new |->
                    IF l \in new THEN Lane(r, l[3]) ELSE lanes[l]]
     /\ queue' = [s \in Senders |->
                    IF s \in SendersIn(r) THEN Append(queue[s], <<h, i, s>>) ELSE queue[s]]
     /\ hook' = [hook EXCEPT ![h].at = "await"]
     /\ ByHook /\ UNCHANGED <<progress, mem, file>>

(* The function waits for something of its own: a timer, a read of the     *)
(* chain.                                                                  *)
Leave(h) ==
  /\ hook[h].at = "run" /\ hook' = [hook EXCEPT ![h].at = "away"]
  /\ ByHook /\ UNCHANGED <<executor, mem, file>>
ComeBack(h) ==
  /\ hook[h].at = "away" /\ Quiet /\ hook' = [hook EXCEPT ![h].at = "back"]
  /\ ByHook /\ UNCHANGED <<executor, mem, file>>

(* The function throws of itself; nothing of it is stored, and the loop    *)
(* waits for it in vain.                                                   *)
HookThrows(h) ==
  /\ MayFail /\ Running(h) /\ hook' = [hook EXCEPT ![h].at = "failed"]
  /\ ByHook /\ UNCHANGED <<executor, mem, file>>

(* A slip: the memory is written before the hook is marked in it.          *)
StoreFinishedLate(h) ==
  /\ hook[h].at = "finish"
  /\ mem' = [mem EXCEPT !.executed[h] = TRUE, !.log[h] = Head(hook[h].copy).log[h]]
  /\ file' = mem
  /\ hook' = [hook EXCEPT ![h].at = "deps", ![h].left = Deps[h], ![h].copy = NoCopy]
  /\ ByHook /\ UNCHANGED executor
(* finishCurrentEvent: the hook is read from the file and marked executed  *)
(* in memory, and all of the memory is written.                            *)
FinishEvent(h) ==
  /\ AtEnd(h)
  /\ hook' = [hook EXCEPT ![h].at = "finish", ![h].copy = <<file>>]
  /\ ByHook /\ UNCHANGED <<executor, mem, file>>
StoreFinished(h) ==
  /\ hook[h].at = "finish"
  /\ mem' = [mem EXCEPT !.executed[h] = TRUE, !.log[h] = Head(hook[h].copy).log[h]]
  /\ file' = mem'
  /\ hook' = [hook EXCEPT ![h].at = "deps", ![h].left = Deps[h], ![h].copy = NoCopy]
  /\ ByHook /\ UNCHANGED executor

(* Then each contract of the hook is stored, as it is in memory.           *)
ReadForDep(h) ==
  /\ hook[h].at = "deps" /\ hook[h].left # <<>> /\ hook[h].copy = NoCopy
  /\ hook' = [hook EXCEPT ![h].copy = <<file>>]
  /\ ByHook /\ UNCHANGED <<executor, mem, file>>
StoreDep(h) ==
  /\ hook[h].at = "deps" /\ hook[h].copy # NoCopy
  /\ LET c == Head(hook[h].left)
     IN file' = [Head(hook[h].copy) EXCEPT !.address[c] = mem.address[c]]
  /\ hook' = [hook EXCEPT ![h].left = Tail(@), ![h].copy = NoCopy]
  /\ ByHook /\ UNCHANGED <<executor, mem>>
HookEnds(h) ==
  /\ hook[h].at = "deps" /\ hook[h].left = <<>>
  /\ hook' = [hook EXCEPT ![h].at = "ended"]
  /\ ByHook /\ UNCHANGED <<executor, mem, file>>

(***************************************************************************)
(* A lane l = <<h, i, s>>: it executes what was pending when hook h made   *)
(* its call number i, one call after the other, for sender s.              *)
(***************************************************************************)
Entry(l) == Head(lanes[l].todo)
To(l) == Calls[Entry(l)[1]][Entry(l)[2]].to
ByLane == UNCHANGED <<main, mem, custom>>

(* A slip: the key is not waited for.                                      *)
FuncAnyway(l) ==
  /\ lanes[l].at = "queued"
  /\ lanes' = [lanes EXCEPT ![l].at = "send", ![l].iterator = progress[To(l)]]
  /\ ByLane /\ UNCHANGED <<hook, root, queue, progress, chain, file>>
(* A slip: a receipt that was there before is taken for an answer.         *)
FuncReplaysEarly(l) ==
  /\ lanes[l].at = "queued" /\ HasKey(l)
  /\ LET replays == file.log[l[1]][To(l)] >= progress[To(l)]
     IN /\ lanes' = [lanes EXCEPT ![l].at = IF replays THEN "answered" ELSE "send",
                                  ![l].iterator = progress[To(l)]]
        /\ progress' = IF replays THEN [progress EXCEPT ![To(l)] = @ + 1] ELSE progress
  /\ ByLane /\ UNCHANGED <<hook, root, queue, chain, file>>
(* The wrapper of the contract runs with the session of the hook whose     *)
(* call started the lane.  It answers with a receipt when the file has     *)
(* more of them than the contract has made progress.                       *)
Func(l) ==
  /\ lanes[l].at = "queued" /\ HasKey(l)
  /\ LET replays == file.log[l[1]][To(l)] > progress[To(l)]
     IN /\ lanes' = [lanes EXCEPT ![l].at = IF replays THEN "answered" ELSE "send",
                                  ![l].iterator = progress[To(l)]]
        /\ progress' = IF replays THEN [progress EXCEPT ![To(l)] = @ + 1] ELSE progress
  /\ ByLane /\ UNCHANGED <<hook, root, queue, chain, file>>

LookUpForCall(l) ==
  /\ lanes[l].at = "send" /\ Quiet /\ MustLookUp(l[3], lanes[l].looked)
  /\ lanes' = [lanes EXCEPT ![l].looked = mined[l[3]]]
  /\ ByLane /\ UNCHANGED <<hook, root, queue, progress, chain, file>>

SendCall(l) ==
  /\ lanes[l].at = "send" /\ Quiet /\ Send(l[3], lanes[l].looked, Entry(l))
  /\ lanes' = [lanes EXCEPT ![l].at = "sent", ![l].copy = <<file>>]
  /\ ByLane /\ UNCHANGED <<hook, root, queue, progress, file>>

(* Its input is stored with what was read before, and the progress counted *)
(* from what it was.                                                       *)
StoreInput(l) ==
  /\ lanes[l].at = "sent"
  /\ file' = Head(lanes[l].copy)
  /\ progress' = [progress EXCEPT ![To(l)] = lanes[l].iterator + 1]
  /\ lanes' = [lanes EXCEPT ![l].at = "wait", ![l].copy = NoCopy]
  /\ ByLane /\ UNCHANGED <<hook, root, queue, chain>>

(* The key is not given back, and the hook that waits for its call throws; *)
(* one that has its answer already does not.                               *)
Breaks(l) ==
  /\ hook' = IF hook[l[1]].at = "await" /\ hook[l[1]].next = l[2]
             THEN [hook EXCEPT ![l[1]].at = "failed"] ELSE hook
  /\ ByLane /\ UNCHANGED <<root, queue, progress, txs, file>>
(* A look-up fails, or the gas price: no nonce was taken.                  *)
LookUpFails(l) ==
  /\ MayFail /\ lanes[l].at = "send" /\ lanes[l].looked = Unknown /\ Quiet
  /\ lanes' = [lanes EXCEPT ![l].at = "failed"]
  /\ Breaks(l) /\ UNCHANGED <<nonceMap, mined>>
(* The node refuses it: the nonce is gone.                                 *)
CallFails(l) ==
  /\ MayFail /\ lanes[l].at = "send" /\ Quiet /\ TakeNonce(l[3], lanes[l].looked)
  /\ lanes' = [lanes EXCEPT ![l].at = "lost"]
  /\ Breaks(l) /\ UNCHANGED mined
(* It was sent and is reverted.                                            *)
CallReverts(l) ==
  /\ MayFail /\ lanes[l].at = "wait" /\ Quiet
  /\ lanes' = [lanes EXCEPT ![l].at = "failed"]
  /\ mined' = [mined EXCEPT ![l[3]] = @ + 1]
  /\ Breaks(l) /\ UNCHANGED nonceMap

(* A slip: the key is kept.                                                *)
ReleaseKeeping(l) ==
  /\ lanes[l].at = "answered" \/ (lanes[l].at = "wait" /\ Quiet)
  /\ mined' = IF lanes[l].at = "wait" THEN [mined EXCEPT ![l[3]] = @ + 1] ELSE mined
  /\ lanes' = [lanes EXCEPT ![l].at = "store", ![l].copy = <<file>>]
  /\ ByLane /\ UNCHANGED <<hook, root, queue, progress, nonceMap, txs, file>>
(* Mined, or answered: the key is given back.                              *)
Release(l) ==
  /\ lanes[l].at = "answered" \/ (lanes[l].at = "wait" /\ Quiet)
  /\ mined' = IF lanes[l].at = "wait" THEN [mined EXCEPT ![l[3]] = @ + 1] ELSE mined
  /\ queue' = [queue EXCEPT ![l[3]] = Tail(@)]
  /\ lanes' = [lanes EXCEPT ![l].at = "store", ![l].copy = <<file>>]
  /\ ByLane /\ UNCHANGED <<hook, root, progress, nonceMap, txs, file>>

(* The pending call of a hook is deleted, whichever it is by now.          *)
Without(h) ==
  LET places == {k \in DOMAIN root : root[k][1] = h}
      place == CHOOSE k \in places : TRUE
  IN IF places = {} THEN root
     ELSE SubSeq(root, 1, place - 1) \o SubSeq(root, place + 1, Len(root))

(* The receipt is stored for the hook that made the call, which goes on if *)
(* it still waits; then the lane turns to its next call.                   *)
Resolve(l) ==
  LET e == Entry(l)
      left == Tail(lanes[l].todo)
  IN /\ lanes[l].at = "store"
     /\ file' = [Head(lanes[l].copy) EXCEPT !.log[e[1]][To(l)] = @ + 1]
     /\ hook' = IF hook[e[1]].at = "await" /\ hook[e[1]].next = e[2]
                THEN [hook EXCEPT ![e[1]].at = "run", ![e[1]].next = @ + 1] ELSE hook
     /\ root' = Without(e[1])
     /\ IF left = <<>>
        THEN lanes' = [m \in DOMAIN lanes \ {l} |-> lanes[m]] /\ UNCHANGED queue
        ELSE /\ lanes' = [lanes EXCEPT ![l].todo = left, ![l].at = "queued",
                            ![l].looked = Unknown, ![l].copy = NoCopy]
             /\ queue' = [queue EXCEPT ![l[3]] = Append(@, l)]
     /\ ByLane /\ UNCHANGED <<progress, chain>>

LoopStep ==
  \/ \E c \in Contracts : LookUpForContract(c) \/ SendContract(c) \/ ContractFails(c)
                          \/ ContractRefused(c) \/ RecordAddress(c) \/ StoreAddress(c)
  \/ SkipContract \/ ContractReverts \/ ExecuteEvents \/ EventsExecuted \/ NextBatch
HookStep(h) == \/ Leave(h) \/ ComeBack(h) \/ Call(h) \/ HookThrows(h)
              \/ FinishEvent(h) \/ StoreFinished(h) \/ ReadForDep(h) \/ StoreDep(h) \/ HookEnds(h)
LaneStep(l) == \/ Func(l) \/ LookUpForCall(l) \/ SendCall(l) \/ StoreInput(l)
               \/ LookUpFails(l) \/ CallFails(l) \/ CallReverts(l) \/ Release(l) \/ Resolve(l)
Next == LoopStep \/ (\E h \in Hooks : HookStep(h)) \/ (\E l \in DOMAIN lanes : LaneStep(l))

(* Promises that are resolved run on, nodes answer, hooks return.          *)
Fairness == WF_vars(LoopStep) /\ \A h \in Hooks : WF_vars(HookStep(h))
            /\ WF_vars(\E l \in DOMAIN lanes : LaneStep(l))
Spec == Init /\ [][Next]_vars /\ Fairness

(***************************************************************************)
(* Properties.                                                             *)
(***************************************************************************)
(* No two transactions of a sender are sent with the same nonce, and those *)
(* of a sender of whom no node refused one, a contract or a call, leave no *)
(* gap, although the first look-up has an await between the test and the   *)
(* write, and whatever fails before or after: a look-up, a hook, or a      *)
(* transaction that was sent and is reverted.                              *)
Lost(s) == \/ main.at = "refused" /\ main.left # <<>> /\ Signer[Head(main.left)] = s
           \/ \E l \in DOMAIN lanes : l[3] = s /\ lanes[l].at = "lost"
From(s) == {i \in DOMAIN txs : txs[i].from = s}
InSequence(s) ==
  /\ \A i, j \in From(s) : i # j => txs[i].nonce # txs[j].nonce
  /\ Lost(s) \/ {txs[i].nonce : i \in From(s)} = 0 .. Cardinality(From(s)) - 1
NoncesInSequence == \A s \in Senders : InSequence(s)

(* A sender who signs contracts has signed one that no earlier run had     *)
(* deployed, and that is not left out, before any hook calls from him: his *)
(* nonce is in the map then, and nobody looks it up again.                 *)
CallsFrom(h, s) == \E i \in DOMAIN Calls[h] : Calls[h][i].from = s
In(c, j) == \E i \in DOMAIN Batches[j].contracts : Batches[j].contracts[i] = c
SignsFirst(s) ==
  (\E c \in Contracts : Signer[c] = s) =>
    \A k \in DOMAIN Batches : (\E h \in Batches[k].hooks : CallsFrom(h, s)) =>
      \E j \in 1 .. k, c \in Contracts \ (OnRecord \cup MaySkip) : In(c, j) /\ Signer[c] = s

(* No contract is called by two senders.  If one is, their lanes may be at *)
(* it at the same time, and what one has added to the progress is lost     *)
(* when the other writes its own.                                          *)
OneCaller ==
  \A g, h \in Hooks : \A i \in DOMAIN Calls[g], j \in DOMAIN Calls[h] :
    Calls[g][i].to = Calls[h][j].to => Calls[g][i].from = Calls[h][j].from

(* At most one hook of a batch makes no call.  A hook that makes none is   *)
(* finished as soon as it returns; two of them read and write the state    *)
(* file at the same time, and one may write over what the other did.       *)
OneWithoutCalls ==
  \A k \in DOMAIN Batches : \A g, h \in Batches[k].hooks :
    Calls[g] = <<>> /\ Calls[h] = <<>> => g = h

(* A hook recorded as executed has sent all its calls.                     *)
ExecutedMeansSent ==
  \A h \in Hooks : mem.executed[h] \/ file.executed[h] =>
    \A i \in DOMAIN Calls[h] : \E k \in DOMAIN txs : txs[k].what = <<h, i>>

(* What a contract takes and what a hook names is in an earlier batch.  Of *)
(* arguments and of hooks after a deployment in batches that are executed, *)
(* the batcher promises it (BatchesRespected of Batcher); of the rest, it  *)
(* is an assumption.                                                       *)
NeedsInEarlierBatch ==
  \A k \in DOMAIN Batches : \A a \in Contracts :
    \/ \E c \in Contracts : In(c, k) /\ a \in Args[c]
    \/ \E h \in Batches[k].hooks : a \in Waits(h)
    => \E j \in 1 .. k - 1 : In(a, j)

(* No hook is refused, and no contract, for the lack of the address of a   *)
(* contract that is not left out by the configuration.                     *)
AddressesInTime ==
  /\ \A h \in Hooks : hook[h].at = "refused" => Waits(h) \cap custom.skipped # {}
  /\ main.at = "send" /\ main.left # <<>> /\ ~Skips(Head(main.left)) =>
       \A a \in Args[Head(main.left)] : Skips(a)

(* A deployment that is done is on record: what the state file lacks, the  *)
(* next run would do again.                                                *)
DoneMeansRecorded == main.at = "ended" => file.address = mem.address /\ file.executed = mem.executed

(* A deployment comes to an end, unless a hook throws or is refused, or a  *)
(* call of it fails: a key that is not given back is waited for forever,   *)
(* and so is the end of a hook that threw.                                 *)
Settles == <>(\/ main.at \in {"ended", "threw", "refused"}
              \/ \E h \in Hooks : hook[h].at \in {"failed", "refused"}
              \/ \E l \in DOMAIN lanes : lanes[l].at \in {"failed", "lost"})
=============================================================================
