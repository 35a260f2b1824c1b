---------------------------- MODULE ParallelProofs ----------------------------
(***************************************************************************)
(* Proofs about ParallelRun, for any batches, hooks, calls and senders:    *)
(* nobody misses the address of a contract in an earlier batch, but of one *)
(* the configuration leaves out; no sender uses a nonce twice, nor leaves  *)
(* one out unless a node refused a transaction of his, although the loop   *)
(* and the lanes of many calls take nonces, the first look-up has an await *)
(* in it and anything may fail in between; a hook that is recorded as      *)
(* executed has sent all its calls, if no contract is called by two        *)
(* senders; and no address and no hook that was recorded is written over,  *)
(* if moreover at most one hook of a batch makes no call.                  *)
(***************************************************************************)
EXTENDS ParallelRun, FiniteSetTheorems, SequenceTheorems, WellFoundedInduction, TLAPS

IsLane(x) == x = [todo |-> x.todo, at |-> x.at, iterator |-> x.iterator,
                  looked |-> x.looked, copy |-> x.copy]
IsHook(x) == x = [at |-> x.at, next |-> x.next, left |-> x.left, copy |-> x.copy]
IsMain(x) == x = [at |-> x.at, batch |-> x.batch, left |-> x.left, sent |-> x.sent,
                  looked |-> x.looked, copy |-> x.copy]
Of(s) == {l \in DOMAIN lanes : l[3] = s}
Names(s) == Hooks \X Nat \X {s}

(* The hooks of the batches to come.                                       *)
ToCome == {k \in DOMAIN Batches : k > main.batch \/ (k = main.batch /\ main.at = "send")}
Idle == \A k \in ToCome : \A h \in Batches[k].hooks : hook[h].at = "idle"

(* The loop over the batches.                                              *)
MainShape ==
  /\ IsMain(main) /\ main.left \in Seq(Contracts) /\ main.sent \in Seq(Contracts)
  /\ main.copy # NoCopy => main.sent # <<>>
  /\ DOMAIN Batches = 1 .. Len(Batches) /\ main.batch \in DOMAIN Batches
  /\ DOMAIN hook = Hooks /\ \A h \in Hooks : IsHook(hook[h]) /\ hook[h].next \in Nat
  /\ Idle

(* Hooks make no call twice.                                               *)
HooksGoOn ==
  \A h \in Hooks : /\ hook'[h].next >= hook[h].next
                   /\ hook'[h].at \in {"idle", "run", "away", "back"} =>
                        \/ hook[h].at \in {"idle", "run", "away", "back"}
                        \/ hook'[h].next > hook[h].next

(* A sequence to which something was appended is not empty.                *)
LEMMA Appended ==
  ASSUME NEW S, NEW q \in Seq(S), NEW x \in S
  PROVE  /\ Append(q, x) \in Seq(S) /\ Append(q, x) # <<>>
         /\ q # <<>> => Head(Append(q, x)) = Head(q)
<1>1. Append(q, x) \in Seq(S) /\ Append(q, x) # <<>>
  BY AppendProperties
<1>2. q # <<>> => Head(Append(q, x)) = Head(q)
  OBVIOUS
<1>3. QED
  BY <1>1, <1>2

(* A batch has a sequence of contracts.                                    *)
LEMMA BatchesAre ==
  ASSUME ParallelAssumption
  PROVE  /\ DOMAIN Batches = 1 .. Len(Batches) /\ 1 \in DOMAIN Batches /\ Len(Batches) \in Nat
         /\ \A k \in DOMAIN Batches : /\ Batches[k].contracts \in Seq(Contracts)
                                       /\ Batches[k].hooks \subseteq Hooks
<1> DEFINE R == [contracts : Seq(Contracts), hooks : SUBSET Hooks]
<1>1. \A x \in R : x.contracts \in Seq(Contracts) /\ x.hooks \subseteq Hooks
  OBVIOUS
<1>2. Batches \in Seq(R) /\ Batches # <<>>
  BY DEF ParallelAssumption
<1> HIDE DEF R
<1>3. /\ DOMAIN Batches = 1 .. Len(Batches) /\ 1 \in DOMAIN Batches /\ Len(Batches) \in Nat
      /\ \A k \in DOMAIN Batches : Batches[k] \in R
  BY <1>2
<1>4. QED
  BY <1>1, <1>3

(***************************************************************************)
(* The loop and the hooks.                                                 *)
(***************************************************************************)
(* What the loop does to itself and to the hooks.                          *)
LEMMA LoopShape ==
  ASSUME ParallelAssumption, MainShape, LoopStep
  PROVE  MainShape' /\ HooksGoOn
<1>1. /\ IsMain(main) /\ main.left \in Seq(Contracts) /\ main.sent \in Seq(Contracts)
      /\ main.copy # NoCopy => main.sent # <<>>
      /\ DOMAIN Batches = 1 .. Len(Batches) /\ main.batch \in DOMAIN Batches
      /\ DOMAIN hook = Hooks /\ \A h \in Hooks : IsHook(hook[h]) /\ hook[h].next \in Nat
  BY DEF MainShape
<1>2. ASSUME IsMain(main'), main'.left \in Seq(Contracts), main'.sent \in Seq(Contracts),
             main'.copy # NoCopy => main'.sent # <<>>, main'.batch \in DOMAIN Batches,
             \/ main'.batch = main.batch /\ (main'.at = "send" => main.at = "send")
             \/ main'.batch = main.batch + 1,
             hook' = hook
      PROVE  MainShape' /\ HooksGoOn
  <2>1. ToCome' \subseteq ToCome
    BY <1>1, <1>2, BatchesAre DEF ToCome
  <2>2. Idle'
    BY <1>2, <2>1 DEF MainShape, Idle
  <2>3. HooksGoOn
    BY <1>1, <1>2 DEF HooksGoOn
  <2>4. QED
    BY <1>1, <1>2, <2>2, <2>3 DEF MainShape
<1>3. CASE SkipContract
  <2>1. main' = [main EXCEPT !.left = Tail(@)] /\ main.left # <<>> /\ hook' = hook
    BY <1>3 DEF SkipContract, ByLoop
  <2>2. Tail(main.left) \in Seq(Contracts)
    BY <1>1, <2>1
  <2>3. QED
    BY <1>1, <1>2, <2>1, <2>2 DEF IsMain
<1>4. ASSUME NEW c \in Contracts, LookUpForContract(c) PROVE MainShape' /\ HooksGoOn
  <2>1. main' = [main EXCEPT !.looked = mined[Signer[c]]] /\ hook' = hook
    BY <1>4 DEF LookUpForContract, ToBeSent, ByLoop
  <2>2. QED
    BY <1>1, <1>2, <2>1 DEF IsMain
<1>5. ASSUME ContractReverts \/ \E c \in Contracts : ContractFails(c) \/ ContractRefused(c)
      PROVE  MainShape' /\ HooksGoOn
  <2>1. /\ \/ main' = [main EXCEPT !.at = "threw"]
           \/ main' = [main EXCEPT !.at = "refused", !.looked = Unknown]
        /\ hook' = hook
    BY <1>5 DEF ContractFails, ContractRefused, ContractReverts, ByLoop
  <2>2. QED
    BY <1>1, <1>2, <2>1 DEF IsMain
<1>6. ASSUME NEW c \in Contracts, RecordAddress(c) PROVE MainShape' /\ HooksGoOn
  <2>1. main' = [main EXCEPT !.copy = <<file>>] /\ main.sent # <<>> /\ hook' = hook
    BY <1>6 DEF RecordAddress, ByLoop
  <2>2. QED
    BY <1>1, <1>2, <2>1 DEF IsMain
<1>7. ASSUME NEW c \in Contracts, StoreAddress(c) PROVE MainShape' /\ HooksGoOn
  <2>1. main' = [main EXCEPT !.sent = Tail(@), !.copy = NoCopy] /\ main.sent # <<>> /\ hook' = hook
    BY <1>1, <1>7 DEF StoreAddress, ByLoop
  <2>2. Tail(main.sent) \in Seq(Contracts)
    BY <1>1, <2>1
  <2>3. QED
    BY <1>1, <1>2, <2>1, <2>2 DEF IsMain
<1>8. CASE EventsExecuted
  <2>1. main' = [main EXCEPT !.at = "record"] /\ hook' = hook
    BY <1>8 DEF EventsExecuted, ByLoop
  <2>2. QED
    BY <1>1, <1>2, <2>1 DEF IsMain
<1>9. CASE NextBatch
  <2>1. main.sent = <<>> /\ main.copy = NoCopy /\ hook' = hook
    BY <1>1, <1>9 DEF NextBatch, ByLoop
  <2>2. CASE main.batch < Len(Batches)
    <3>1. main' = [main EXCEPT !.at = "send", !.batch = main.batch + 1,
                     !.left = Batches[main.batch + 1].contracts, !.sent = <<>>]
      BY <1>9, <2>2 DEF NextBatch, Enter
    <3>2. main.batch + 1 \in DOMAIN Batches
      BY <1>1, <2>2, BatchesAre
    <3>3. Batches[main.batch + 1].contracts \in Seq(Contracts)
      BY <3>2, BatchesAre
    <3>4. <<>> \in Seq(Contracts)
      OBVIOUS
    <3>5. QED
      BY <1>1, <1>2, <2>1, <3>1, <3>2, <3>3, <3>4 DEF IsMain
  <2>3. CASE ~(main.batch < Len(Batches))
    <3>1. main' = [main EXCEPT !.at = "ended"]
      BY <1>9, <2>3 DEF NextBatch
    <3>2. QED
      BY <1>1, <1>2, <2>1, <3>1 DEF IsMain
  <2>4. QED
    BY <2>2, <2>3
<1>10. ASSUME NEW c \in Contracts, SendContract(c) PROVE MainShape' /\ HooksGoOn
  <2>1. /\ main' = [main EXCEPT !.left = Tail(@), !.sent = Append(@, c), !.looked = Unknown]
        /\ main.left # <<>> /\ hook' = hook
    BY <1>10 DEF SendContract, ToBeSent, Sending, ByLoop
  <2>2. Tail(main.left) \in Seq(Contracts)
    BY <1>1, <2>1
  <2>3. Append(main.sent, c) \in Seq(Contracts) /\ Append(main.sent, c) # <<>>
    BY <1>1, Appended
  <2>4. QED
    BY <1>1, <1>2, <2>1, <2>2, <2>3 DEF IsMain
<1>11. CASE ExecuteEvents
  <2>1. /\ main' = [main EXCEPT !.at = "hooks"]
        /\ hook' = [h \in Hooks |-> IF h \in InBatch THEN Start(h) ELSE hook[h]]
    BY <1>11 DEF ExecuteEvents
  <2>2. \A h \in Hooks : IsHook(hook'[h]) /\ hook'[h].next = hook[h].next
    <3> SUFFICES ASSUME NEW h \in Hooks
                 PROVE  IsHook(hook'[h]) /\ hook'[h].next = hook[h].next
      OBVIOUS
    <3>1. \/ hook'[h] = [hook[h] EXCEPT !.at = "run"]
          \/ hook'[h] = [hook[h] EXCEPT !.at = "refused"]
          \/ hook'[h] = hook[h]
      BY <2>1 DEF Start
    <3>2. IsHook(hook[h])
      BY <1>1
    <3>3. QED
      BY <3>1, <3>2 DEF IsHook
  <2>3. \A h \in Hooks : hook'[h] = hook[h] \/ (h \in InBatch /\ hook[h].at = "idle")
    <3>1. main.batch \in ToCome
      BY <1>1, <1>11 DEF ToCome, ExecuteEvents
    <3>2. \A h \in InBatch : hook[h].at = "idle"
      BY <3>1 DEF MainShape, Idle, InBatch
    <3>3. QED
      BY <2>1, <3>2
  <2>4. /\ IsMain(main') /\ main'.left = main.left /\ main'.sent = main.sent
        /\ main'.batch = main.batch /\ main'.copy = main.copy /\ main'.at = "hooks"
    BY <1>1, <2>1 DEF IsMain
  <2>5. DOMAIN hook' = Hooks
    BY <2>1
  <2>6. Idle'
    <3> SUFFICES ASSUME NEW k \in ToCome', NEW h \in Batches[k].hooks PROVE hook'[h].at = "idle"
      BY DEF Idle
    <3>1. k \in ToCome /\ k \in DOMAIN Batches /\ k # main.batch
      BY <1>1, <2>4, BatchesAre DEF ToCome
    <3>2. h \notin InBatch /\ h \in Hooks
      BY <1>1, <3>1, BatchesAre DEF InBatch, ParallelAssumption
    <3>3. QED
      BY <2>3, <3>1, <3>2 DEF MainShape, Idle
  <2>7. HooksGoOn
    <3>1. \A h \in Hooks : hook'[h].next >= hook[h].next
      BY <1>1, <2>2
    <3>2. QED
      BY <2>3, <3>1 DEF HooksGoOn
  <2>8. QED
    BY <1>1, <2>2, <2>4, <2>5, <2>6, <2>7 DEF MainShape
<1>12. QED
  BY <1>3, <1>4, <1>5, <1>6, <1>7, <1>8, <1>9, <1>10, <1>11 DEF LoopStep

(* What a hook does to itself.                                             *)
LEMMA HookShape ==
  ASSUME ParallelAssumption, MainShape, NEW h \in Hooks, HookStep(h)
  PROVE  /\ MainShape' /\ HooksGoOn /\ main' = main
         /\ hook[h].at # "idle" /\ \A g \in Hooks \ {h} : hook'[g] = hook[g]
         /\ hook'[h].at \notin {"idle", "refused"} /\ hook'[h].next = hook[h].next
<1>1. /\ IsHook(hook[h]) /\ hook[h].next \in Nat /\ DOMAIN hook = Hooks
      /\ \A g \in Hooks : IsHook(hook[g]) /\ hook[g].next \in Nat
  BY DEF MainShape
<1>2. main' = main
  BY DEF HookStep, Leave, ComeBack, HookThrows, Call, FinishEvent, StoreFinished, ReadForDep,
     StoreDep, HookEnds, ByHook
<1>3. /\ DOMAIN hook' = Hooks /\ \A g \in Hooks \ {h} : hook'[g] = hook[g]
      /\ IsHook(hook'[h]) /\ hook'[h].next = hook[h].next
      /\ hook[h].at # "idle" /\ hook'[h].at \notin {"idle", "refused"}
      /\ hook'[h].at \in {"run", "away", "back"} => hook[h].at \in {"run", "away", "back"}
  <2>1. CASE Leave(h)
    <3>1. hook[h].at = "run" /\ hook' = [hook EXCEPT ![h].at = "away"]
      BY <2>1 DEF Leave
    <3>2. QED
      BY <1>1, <3>1 DEF IsHook
  <2>2. CASE ComeBack(h)
    <3>1. hook[h].at = "away" /\ hook' = [hook EXCEPT ![h].at = "back"]
      BY <2>2 DEF ComeBack
    <3>2. QED
      BY <1>1, <3>1 DEF IsHook
  <2>3. CASE FinishEvent(h)
    <3>1. hook[h].at \in {"run", "back"}
          /\ hook' = [hook EXCEPT ![h].at = "finish", ![h].copy = <<file>>]
      BY <2>3 DEF FinishEvent, AtEnd, Running
    <3>2. QED
      BY <1>1, <3>1 DEF IsHook
  <2>4. CASE StoreFinished(h)
    <3>1. hook[h].at = "finish"
          /\ hook' = [hook EXCEPT ![h].at = "deps", ![h].left = Deps[h], ![h].copy = NoCopy]
      BY <2>4 DEF StoreFinished
    <3>2. QED
      BY <1>1, <3>1 DEF IsHook
  <2>5. CASE ReadForDep(h)
    <3>1. hook[h].at = "deps" /\ hook' = [hook EXCEPT ![h].copy = <<file>>]
      BY <2>5 DEF ReadForDep
    <3>2. QED
      BY <1>1, <3>1 DEF IsHook
  <2>6. CASE StoreDep(h)
    <3>1. hook[h].at = "deps" /\ hook' = [hook EXCEPT ![h].left = Tail(@), ![h].copy = NoCopy]
      BY <2>6 DEF StoreDep
    <3>2. QED
      BY <1>1, <3>1 DEF IsHook
  <2>7. CASE HookEnds(h)
    <3>1. hook[h].at = "deps" /\ hook' = [hook EXCEPT ![h].at = "ended"]
      BY <2>7 DEF HookEnds
    <3>2. QED
      BY <1>1, <3>1 DEF IsHook
  <2>8. CASE Call(h)
    <3>1. hook[h].at \in {"run", "back"} /\ hook' = [hook EXCEPT ![h].at = "await"]
      BY <2>8 DEF Call, Running
    <3>2. QED
      BY <1>1, <3>1 DEF IsHook
  <2>9. CASE HookThrows(h)
    <3>1. hook[h].at \in {"run", "back"} /\ hook' = [hook EXCEPT ![h].at = "failed"]
      BY <2>9 DEF HookThrows, Running
    <3>2. QED
      BY <1>1, <3>1 DEF IsHook
  <2>10. QED
    BY <2>1, <2>2, <2>3, <2>4, <2>5, <2>6, <2>7, <2>8, <2>9 DEF HookStep
<1>4. MainShape'
  <2>1. ToCome' = ToCome
    BY <1>2 DEF ToCome
  <2>2. Idle'
    <3> SUFFICES ASSUME NEW k \in ToCome, NEW g \in Batches[k].hooks PROVE hook'[g].at = "idle"
      BY <2>1 DEF Idle
    <3>1. g \in Hooks /\ hook[g].at = "idle"
      BY BatchesAre DEF ToCome, MainShape, Idle
    <3>2. QED
      BY <1>3, <3>1
  <2>3. QED
    BY <1>1, <1>2, <1>3, <2>2 DEF MainShape
<1>5. HooksGoOn
  <2> SUFFICES ASSUME NEW g \in Hooks
               PROVE  /\ hook'[g].next >= hook[g].next
                      /\ hook'[g].at \in {"idle", "run", "away", "back"} =>
                           hook[g].at \in {"idle", "run", "away", "back"}
    BY DEF HooksGoOn
  <2>1. hook'[g].next = hook[g].next /\ hook[g].next \in Nat
    BY <1>1, <1>3
  <2>2. hook'[g].next >= hook[g].next
    BY <2>1
  <2>3. CASE g = h
    BY <1>3, <2>2, <2>3
  <2>4. CASE g # h
    BY <1>3, <2>2, <2>4
  <2>5. QED
    BY <2>3, <2>4
<1>6. QED
  BY <1>2, <1>3, <1>4, <1>5

(* A lane lets a hook that waits go on, or fail.                           *)
LEMMA HooksOfLanes ==
  ASSUME ParallelAssumption, MainShape, main' = main,
         \/ hook' = hook
         \/ \E g : /\ hook[g].at = "await"
                   /\ \/ hook' = [hook EXCEPT ![g].at = "failed"]
                      \/ hook' = [hook EXCEPT ![g].at = "run", ![g].next = @ + 1]
  PROVE  MainShape' /\ HooksGoOn
<1>1. /\ DOMAIN hook = Hooks /\ \A h \in Hooks : IsHook(hook[h]) /\ hook[h].next \in Nat
  BY DEF MainShape
<1>2. /\ DOMAIN hook' = Hooks
      /\ \A h \in Hooks :
           \/ hook'[h] = hook[h]
           \/ /\ hook[h].at = "await"
              /\ \/ hook'[h] = [hook[h] EXCEPT !.at = "failed"]
                 \/ hook'[h] = [hook[h] EXCEPT !.at = "run", !.next = @ + 1]
  BY <1>1
<1>3. \A h \in Hooks :
        /\ IsHook(hook'[h]) /\ hook'[h].next \in Nat
        /\ hook'[h] = hook[h] \/ hook[h].at = "await"
        /\ hook'[h].next >= hook[h].next
        /\ \/ hook'[h].at \in {hook[h].at, "failed"}
           \/ (hook'[h].at = "run" /\ hook'[h].next > hook[h].next)
  <2> SUFFICES ASSUME NEW h \in Hooks
               PROVE  /\ IsHook(hook'[h]) /\ hook'[h].next \in Nat
                      /\ hook'[h] = hook[h] \/ hook[h].at = "await"
                      /\ hook'[h].next >= hook[h].next
                      /\ \/ hook'[h].at \in {hook[h].at, "failed"}
                         \/ (hook'[h].at = "run" /\ hook'[h].next > hook[h].next)
    OBVIOUS
  <2>1. IsHook(hook[h]) /\ hook[h].next \in Nat
    BY <1>1
  <2>2. CASE hook'[h] = hook[h]
    <3>1. IsHook(hook'[h]) /\ hook'[h].next = hook[h].next /\ hook'[h].at = hook[h].at
      BY <2>1, <2>2 DEF IsHook
    <3>2. hook'[h].next \in Nat /\ hook'[h].next >= hook[h].next
      BY <2>1, <3>1
    <3>3. QED
      BY <2>2, <3>1, <3>2
  <2>3. CASE hook[h].at = "await" /\ hook'[h] = [hook[h] EXCEPT !.at = "failed"]
    <3>1. IsHook(hook'[h]) /\ hook'[h].next = hook[h].next /\ hook'[h].at = "failed"
      BY <2>1, <2>3 DEF IsHook
    <3>2. hook'[h].next \in Nat /\ hook'[h].next >= hook[h].next
      BY <2>1, <3>1
    <3>3. QED
      BY <2>3, <3>1, <3>2
  <2>4. CASE hook[h].at = "await" /\ hook'[h] = [hook[h] EXCEPT !.at = "run", !.next = @ + 1]
    <3>1. IsHook(hook'[h]) /\ hook'[h].next = hook[h].next + 1 /\ hook'[h].at = "run"
      BY <2>1, <2>4 DEF IsHook
    <3>2. hook[h].next + 1 > hook[h].next /\ hook[h].next + 1 >= hook[h].next
          /\ hook[h].next + 1 \in Nat
      BY <2>1
    <3>3. QED
      BY <2>4, <3>1, <3>2
  <2>5. QED
    BY <1>2, <2>2, <2>3, <2>4
<1>4. HooksGoOn
  BY <1>3 DEF HooksGoOn
<1>5. Idle'
  <2> SUFFICES ASSUME NEW k \in ToCome, NEW g \in Batches[k].hooks PROVE hook'[g].at = "idle"
    BY DEF Idle, ToCome
  <2>1. g \in Hooks /\ hook[g].at = "idle"
    BY BatchesAre DEF ToCome, MainShape, Idle
  <2>2. QED
    BY <1>3, <2>1
<1>6. MainShape'
  BY <1>2, <1>3, <1>5 DEF MainShape
<1>7. QED
  BY <1>4, <1>6

(* What a lane may do to hooks, whoever it is for.                         *)
LEMMA LaneHooks ==
  ASSUME ParallelAssumption, MainShape, NEW l \in DOMAIN lanes, LaneStep(l)
  PROVE  MainShape' /\ HooksGoOn /\ main' = main
<1>1. main' = main
  BY DEF LaneStep, Func, LookUpForCall, SendCall, StoreInput, CallFails, LookUpFails, CallReverts,
     Breaks, Release, Resolve, ByLane
<1>2. \/ hook' = hook
      \/ \E g : /\ hook[g].at = "await"
                /\ \/ hook' = [hook EXCEPT ![g].at = "failed"]
                   \/ hook' = [hook EXCEPT ![g].at = "run", ![g].next = @ + 1]
  <2>1. CASE Func(l) \/ LookUpForCall(l) \/ SendCall(l) \/ StoreInput(l) \/ Release(l)
    BY <2>1 DEF Func, LookUpForCall, SendCall, StoreInput, Release
  <2>2. CASE LookUpFails(l) \/ CallFails(l) \/ CallReverts(l)
    BY <2>2 DEF LookUpFails, CallFails, CallReverts, Breaks
  <2>3. CASE Resolve(l)
    BY <2>3 DEF Resolve
  <2>4. QED
    BY <2>1, <2>2, <2>3 DEF LaneStep
<1>3. QED
  BY <1>1, <1>2, HooksOfLanes

(* Whatever anyone does.                                                   *)
LEMMA StepShape ==
  ASSUME ParallelAssumption, MainShape, [Next]_vars
  PROVE  MainShape' /\ HooksGoOn
<1>1. CASE UNCHANGED vars
  BY <1>1, HooksOfLanes DEF vars
<1>2. QED
  BY <1>1, LoopShape, HookShape, LaneHooks DEF Next

(***************************************************************************)
(* The contracts of the batches.                                           *)
(***************************************************************************)
Has(q, c) == \E i \in DOMAIN q : q[i] = c
IsMem(x) == /\ x = [address |-> x.address, executed |-> x.executed, log |-> x.log]
            /\ DOMAIN x.address = Contracts

(* What is left of a batch is of that batch.                               *)
LeftHere == \A c \in Contracts : Has(main.left, c) => In(c, main.batch)

(* A contract of a batch that was begun is ahead of the loop, sent, left   *)
(* out, or has its address; and what was looked up is for a contract that  *)
(* is sent.                                                                *)
Placed ==
  /\ IsMem(mem) /\ custom.skipped \subseteq MaySkip
  /\ \A j \in DOMAIN Batches, c \in Contracts : In(c, j) =>
       /\ j < main.batch => Skips(c)
       /\ j = main.batch => Has(main.left, c) \/ Has(main.sent, c) \/ Skips(c)
  /\ main.copy # NoCopy => mem.address[Head(main.sent)]
  /\ main.at \in {"hooks", "record", "ended"} => main.left = <<>>
  /\ (main.at = "send" /\ main.left # <<>>) \/ main.at = "threw" \/ main.looked = Unknown
  /\ main.at = "send" /\ main.looked # Unknown => ~Skips(Head(main.left))

LEMMA TailHas ==
  ASSUME NEW S, NEW q \in Seq(S), q # <<>>, NEW c
  PROVE  /\ Has(q, c) => c = Head(q) \/ Has(Tail(q), c)
         /\ Has(Tail(q), c) => Has(q, c)
<1> DEFINE n == Len(q)
           t == Tail(q)
<1>1. n \in Nat \ {0} /\ DOMAIN q = 1 .. n /\ Head(q) = q[1]
  OBVIOUS
<1>2. DOMAIN t = 1 .. n - 1 /\ \A i \in 1 .. n - 1 : t[i] = q[i + 1]
  OBVIOUS
<1> HIDE DEF n, t
<1>3. ASSUME NEW i \in 1 .. n, q[i] = c PROVE c = q[1] \/ \E k \in 1 .. n - 1 : t[k] = c
  <2>1. CASE i = 1
    BY <1>3, <2>1
  <2>2. CASE i # 1
    <3>1. i - 1 \in 1 .. n - 1 /\ (i - 1) + 1 = i
      BY <1>1, <2>2
    <3>2. t[i - 1] = c
      BY <1>2, <1>3, <3>1
    <3>3. QED
      BY <3>1, <3>2
  <2>3. QED
    BY <2>1, <2>2
<1>4. ASSUME NEW i \in 1 .. n - 1, t[i] = c PROVE \E k \in 1 .. n : q[k] = c
  <2>1. i + 1 \in 1 .. n /\ q[i + 1] = c
    BY <1>1, <1>2, <1>4
  <2>2. QED
    BY <2>1
<1>5. QED
  BY <1>1, <1>2, <1>3, <1>4 DEF Has, t

LEMMA AppendHas ==
  ASSUME NEW S, NEW q \in Seq(S), NEW x \in S, NEW c
  PROVE  Has(Append(q, x), c) <=> Has(q, c) \/ c = x
<1> DEFINE n == Len(q)
           a == Append(q, x)
<1>1. n \in Nat /\ DOMAIN q = 1 .. n
  OBVIOUS
<1>2. DOMAIN a = 1 .. n + 1 /\ a[n + 1] = x /\ \A i \in 1 .. n : a[i] = q[i]
  OBVIOUS
<1> HIDE DEF n, a
<1>3. \A i \in 1 .. n + 1 : i \in 1 .. n \/ i = n + 1
  BY <1>1
<1>4. \A i \in 1 .. n : i \in 1 .. n + 1
  BY <1>1
<1>5. n + 1 \in 1 .. n + 1
  BY <1>1
<1>6. QED
  BY <1>1, <1>2, <1>3, <1>4, <1>5 DEF Has, a

(* What the module and its configuration say does not change.              *)
LEMMA CustomStays ==
  ASSUME [Next]_vars
  PROVE  custom' = custom
<1>1. ASSUME NEW h \in Hooks, HookStep(h) PROVE custom' = custom
  BY <1>1 DEF HookStep, Leave, ComeBack, HookThrows, Call, FinishEvent, StoreFinished, ReadForDep,
     StoreDep, HookEnds, ByHook
<1>2. ASSUME NEW l \in DOMAIN lanes, LaneStep(l) PROVE custom' = custom
  BY <1>2 DEF LaneStep, Func, LookUpForCall, SendCall, StoreInput, LookUpFails, CallFails,
     CallReverts, Breaks, Release, Resolve, ByLane
<1>3. ASSUME LoopStep PROVE custom' = custom
  BY <1>3 DEF LoopStep, LookUpForContract, SendContract, ContractFails, ContractRefused,
     ContractReverts, RecordAddress, StoreAddress, SkipContract, ExecuteEvents, EventsExecuted,
     NextBatch, ByLoop
<1>4. QED
  BY <1>1, <1>2, <1>3 DEF Next, vars

(* Hooks and lanes give no contract an address.                            *)
LEMMA AddressesStay ==
  ASSUME IsMem(mem), [Next]_vars, ~LoopStep
  PROVE  main' = main /\ IsMem(mem)' /\ mem'.address = mem.address /\ custom' = custom
<1>0. custom' = custom
  BY CustomStays
<1>1. ASSUME NEW h \in Hooks, HookStep(h)
      PROVE  main' = main /\ IsMem(mem)' /\ mem'.address = mem.address
  <2>1. main' = main
    BY <1>1 DEF HookStep, Leave, ComeBack, HookThrows, Call, FinishEvent, StoreFinished, ReadForDep,
       StoreDep, HookEnds, ByHook
  <2>2. CASE mem' = mem
    BY <2>1, <2>2 DEF IsMem
  <2>3. CASE StoreFinished(h)
    <3>1. mem' = [mem EXCEPT !.executed[h] = TRUE, !.log[h] = Head(hook[h].copy).log[h]]
      BY <2>3 DEF StoreFinished
    <3>2. QED
      BY <2>1, <3>1 DEF IsMem
  <2>4. QED
    BY <1>1, <2>2, <2>3 DEF HookStep, Leave, ComeBack, HookThrows, Call, FinishEvent, ReadForDep,
       StoreDep, HookEnds
<1>2. ASSUME NEW l \in DOMAIN lanes, LaneStep(l) PROVE main' = main /\ mem' = mem
  BY <1>2 DEF LaneStep, Func, LookUpForCall, SendCall, StoreInput, CallFails, LookUpFails,
     CallReverts, Breaks, Release, Resolve, ByLane
<1>3. CASE UNCHANGED vars
  BY <1>3 DEF vars, IsMem
<1>4. QED
  BY <1>0, <1>1, <1>2, <1>3 DEF Next, IsMem

LEMMA PlacedStep ==
  ASSUME ParallelAssumption, MainShape, Placed, [Next]_vars
  PROVE  Placed'
<1>1. /\ IsMain(main) /\ main.left \in Seq(Contracts) /\ main.sent \in Seq(Contracts)
      /\ main.copy # NoCopy => main.sent # <<>>
      /\ DOMAIN Batches = 1 .. Len(Batches) /\ main.batch \in DOMAIN Batches
  BY DEF MainShape
<1>2. IsMem(mem) /\ custom' = custom
  BY CustomStays DEF Placed
<1>3. CASE ~LoopStep
  BY <1>2, <1>3, AddressesStay DEF Placed, Skips
<1>4. CASE SkipContract
  <2>1. /\ main' = [main EXCEPT !.left = Tail(@)] /\ mem' = mem
        /\ main.at = "send" /\ main.left # <<>> /\ Skips(Head(main.left))
    BY <1>4 DEF SkipContract
  <2>2. main.looked = Unknown
    BY <2>1 DEF Placed
  <2>3. \A c \in Contracts : Has(main.left, c) => c = Head(main.left) \/ Has(Tail(main.left), c)
    BY <1>1, <2>1, TailHas
  <2>4. main'.left = Tail(main.left) /\ main'.sent = main.sent /\ main'.copy = main.copy
        /\ main'.looked = main.looked /\ main'.at = main.at /\ main'.batch = main.batch
    BY <1>1, <2>1 DEF IsMain
  <2>5. QED
    BY <1>2, <2>1, <2>2, <2>3, <2>4 DEF Placed, Skips
<1>5. ASSUME NEW c \in Contracts, LookUpForContract(c) PROVE Placed'
  <2>1. /\ main' = [main EXCEPT !.looked = mined[Signer[c]]] /\ mem' = mem
        /\ main.at = "send" /\ main.left # <<>> /\ Quiet /\ Head(main.left) = c
    BY <1>5 DEF LookUpForContract, ToBeSent, Sending
  <2>2. ~Skips(Head(main.left))
    BY <2>1 DEF Quiet, LoopWaits
  <2>3. main'.left = main.left /\ main'.sent = main.sent /\ main'.copy = main.copy
        /\ main'.at = main.at /\ main'.batch = main.batch
    BY <1>1, <2>1 DEF IsMain
  <2>4. QED
    BY <1>2, <2>1, <2>2, <2>3 DEF Placed, Skips
<1>6. ASSUME ContractReverts \/ \E c \in Contracts : ContractFails(c) \/ ContractRefused(c)
      PROVE  Placed'
  <2>1. /\ \/ main' = [main EXCEPT !.at = "threw"]
           \/ main' = [main EXCEPT !.at = "refused", !.looked = Unknown]
        /\ mem' = mem
    BY <1>6 DEF ContractFails, ContractRefused, ContractReverts
  <2>2. /\ main'.left = main.left /\ main'.sent = main.sent /\ main'.copy = main.copy
        /\ main'.batch = main.batch
        /\ main'.at = "threw" \/ (main'.at = "refused" /\ main'.looked = Unknown)
    BY <1>1, <2>1 DEF IsMain
  <2>3. QED
    BY <1>2, <2>1, <2>2 DEF Placed, Skips
<1>7. ASSUME NEW c \in Contracts, RecordAddress(c) PROVE Placed'
  <2>1. /\ main' = [main EXCEPT !.copy = <<file>>] /\ main.at = "record"
        /\ main.sent # <<>> /\ c = Head(main.sent)
        /\ mem' = [mem EXCEPT !.address[c] = TRUE]
    BY <1>7 DEF RecordAddress
  <2>2. IsMem(mem)' /\ mem'.address[c] /\ \A d \in Contracts : mem.address[d] => mem'.address[d]
    BY <1>2, <2>1 DEF IsMem
  <2>3. main'.left = main.left /\ main'.sent = main.sent /\ main'.looked = main.looked
        /\ main'.at = main.at /\ main'.batch = main.batch
    BY <1>1, <2>1 DEF IsMain
  <2>4. QED
    BY <1>2, <2>1, <2>2, <2>3 DEF Placed, Skips
<1>8. ASSUME NEW c \in Contracts, StoreAddress(c) PROVE Placed'
  <2>1. /\ main' = [main EXCEPT !.sent = Tail(@), !.copy = NoCopy] /\ main.at = "record"
        /\ main.sent # <<>> /\ c = Head(main.sent) /\ mem.address[Head(main.sent)] /\ mem' = mem
    BY <1>1, <1>8 DEF StoreAddress, Placed
  <2>2. \A d \in Contracts : Has(main.sent, d) => d = Head(main.sent) \/ Has(Tail(main.sent), d)
    BY <1>1, <2>1, TailHas
  <2>3. main'.left = main.left /\ main'.sent = Tail(main.sent) /\ main'.looked = main.looked
        /\ main'.at = main.at /\ main'.batch = main.batch /\ main'.copy = NoCopy
    BY <1>1, <2>1 DEF IsMain
  <2>4. QED
    BY <1>2, <2>1, <2>2, <2>3 DEF Placed, Skips
<1>9. CASE EventsExecuted
  <2>1. main' = [main EXCEPT !.at = "record"] /\ mem' = mem /\ main.at = "hooks"
    BY <1>9 DEF EventsExecuted
  <2>2. main'.left = main.left /\ main'.sent = main.sent /\ main'.copy = main.copy
        /\ main'.at = "record" /\ main'.batch = main.batch /\ main'.looked = main.looked
    BY <1>1, <2>1 DEF IsMain
  <2>3. QED
    BY <1>2, <2>1, <2>2 DEF Placed, Skips
<1>10. CASE NextBatch
  <2>1. main.sent = <<>> /\ main.copy = NoCopy /\ mem' = mem /\ main.at = "record"
    BY <1>1, <1>10 DEF NextBatch
  <2>2. main.left = <<>> /\ main.looked = Unknown
    BY <2>1 DEF Placed
  <2>3. \A j \in DOMAIN Batches, c \in Contracts :
          In(c, j) /\ (j < main.batch \/ j = main.batch) => Skips(c)
    BY <1>2, <2>1, <2>2 DEF Placed, Skips, Has
  <2>4. CASE main.batch < Len(Batches)
    <3> DEFINE b == main.batch + 1
    <3>1. main' = [main EXCEPT !.at = "send", !.batch = b,
                     !.left = Batches[b].contracts, !.sent = <<>>]
      BY <1>10, <2>4 DEF NextBatch, Enter
    <3>2. main'.left = Batches[b].contracts /\ main'.sent = <<>> /\ main'.copy = main.copy
          /\ main'.at = "send" /\ main'.batch = b /\ main'.looked = main.looked
      BY <1>1, <3>1 DEF IsMain
    <3>3. \A j \in DOMAIN Batches : j < b => j < main.batch \/ j = main.batch
      BY <1>1, BatchesAre
    <3>4. \A c \in Contracts : In(c, b) => Has(main'.left, c)
      BY <3>2 DEF In, Has
    <3> HIDE DEF b
    <3>5. QED
      BY <1>2, <2>1, <2>2, <2>3, <3>2, <3>3, <3>4 DEF Placed, Skips, Skips
  <2>5. CASE ~(main.batch < Len(Batches))
    <3>1. main' = [main EXCEPT !.at = "ended"]
      BY <1>10, <2>5 DEF NextBatch
    <3>2. main'.left = main.left /\ main'.sent = main.sent /\ main'.copy = main.copy
          /\ main'.at = "ended" /\ main'.batch = main.batch /\ main'.looked = main.looked
      BY <1>1, <3>1 DEF IsMain
    <3>3. QED
      BY <1>2, <2>1, <2>2, <3>2 DEF Placed, Skips
  <2>6. QED
    BY <2>4, <2>5
<1>11. ASSUME NEW c \in Contracts, SendContract(c) PROVE Placed'
  <2>1. /\ main' = [main EXCEPT !.left = Tail(@), !.sent = Append(@, c), !.looked = Unknown]
        /\ main.at = "send" /\ main.left # <<>> /\ Head(main.left) = c /\ mem' = mem
    BY <1>11 DEF SendContract, ToBeSent, Sending
  <2>2. \A d \in Contracts : Has(main.left, d) => d = c \/ Has(Tail(main.left), d)
    BY <1>1, <2>1, TailHas
  <2>3. \A d \in Contracts : Has(Append(main.sent, c), d) <=> Has(main.sent, d) \/ d = c
    BY <1>1, AppendHas
  <2>4. main.sent # <<>> => Head(Append(main.sent, c)) = Head(main.sent)
    BY <1>1, Appended
  <2>5. main'.left = Tail(main.left) /\ main'.sent = Append(main.sent, c)
        /\ main'.copy = main.copy /\ main'.at = "send" /\ main'.batch = main.batch
        /\ main'.looked = Unknown
    BY <1>1, <2>1 DEF IsMain
  <2>6. QED
    BY <1>1, <1>2, <2>1, <2>2, <2>3, <2>4, <2>5 DEF Placed, Skips
<1>12. CASE ExecuteEvents
  <2>1. /\ main' = [main EXCEPT !.at = "hooks"] /\ mem' = mem
        /\ main.at = "send" /\ main.left = <<>>
    BY <1>12 DEF ExecuteEvents
  <2>2. main'.left = main.left /\ main'.sent = main.sent /\ main'.copy = main.copy
        /\ main'.at = "hooks" /\ main'.batch = main.batch /\ main'.looked = main.looked
    BY <1>1, <2>1 DEF IsMain
  <2>3. QED
    BY <1>2, <2>1, <2>2 DEF Placed, Skips
<1>13. QED
  BY <1>3, <1>4, <1>5, <1>6, <1>7, <1>8, <1>9, <1>10, <1>11, <1>12 DEF LoopStep

(* Nobody else moves the loop.                                             *)
LEMMA LoopAlone ==
  ASSUME [Next]_vars, ~LoopStep
  PROVE  main' = main
<1>1. ASSUME NEW h \in Hooks, HookStep(h) PROVE main' = main
  BY <1>1 DEF HookStep, Leave, ComeBack, HookThrows, Call, FinishEvent, StoreFinished, ReadForDep,
     StoreDep, HookEnds, ByHook
<1>2. ASSUME NEW l \in DOMAIN lanes, LaneStep(l) PROVE main' = main
  BY <1>2 DEF LaneStep, Func, LookUpForCall, SendCall, StoreInput, CallFails, LookUpFails,
     CallReverts, Breaks, Release, Resolve, ByLane
<1>3. QED
  BY <1>1, <1>2 DEF Next, vars

LEMMA LeftHereStep ==
  ASSUME ParallelAssumption, MainShape, LeftHere, [Next]_vars
  PROVE  LeftHere'
<1>1. /\ IsMain(main) /\ main.left \in Seq(Contracts)
      /\ DOMAIN Batches = 1 .. Len(Batches) /\ main.batch \in DOMAIN Batches
  BY DEF MainShape
<1>2. CASE main'.left = main.left /\ main'.batch = main.batch
  BY <1>2 DEF LeftHere
<1>3. ASSUME main.left # <<>>, main'.left = Tail(main.left), main'.batch = main.batch
      PROVE  LeftHere'
  <2>1. \A c \in Contracts : Has(Tail(main.left), c) => Has(main.left, c)
    BY <1>1, <1>3, TailHas
  <2>2. QED
    BY <1>3, <2>1 DEF LeftHere
<1>4. ASSUME main'.left = Batches[main'.batch].contracts PROVE LeftHere'
  BY <1>4 DEF LeftHere, In, Has
<1>5. ASSUME \/ EventsExecuted \/ ExecuteEvents
             \/ ContractReverts
             \/ \E c \in Contracts : LookUpForContract(c) \/ ContractFails(c) \/ ContractRefused(c)
                                     \/ RecordAddress(c) \/ StoreAddress(c)
      PROVE  main'.left = main.left /\ main'.batch = main.batch
  BY <1>1, <1>5 DEF LookUpForContract, ToBeSent, ContractFails, ContractRefused, ContractReverts,
     RecordAddress, StoreAddress, EventsExecuted, ExecuteEvents, IsMain
<1>6. ASSUME SkipContract \/ \E c \in Contracts : SendContract(c)
      PROVE  main.left # <<>> /\ main'.left = Tail(main.left) /\ main'.batch = main.batch
  BY <1>1, <1>6 DEF SkipContract, SendContract, ToBeSent, Sending, IsMain
<1>7. ASSUME NextBatch
      PROVE  \/ main'.left = main.left /\ main'.batch = main.batch
             \/ main'.left = Batches[main'.batch].contracts
  BY <1>1, <1>7 DEF NextBatch, Enter, IsMain
<1>8. CASE LoopStep
  <2>1. CASE SkipContract \/ \E c \in Contracts : SendContract(c)
    BY <1>3, <1>6, <2>1
  <2>2. QED
    BY <1>2, <1>4, <1>5, <1>7, <1>8, <2>1 DEF LoopStep
<1>9. CASE ~LoopStep
  <2>1. main' = main
    BY <1>9, LoopAlone
  <2>2. QED
    BY <1>2, <2>1
<1>10. QED
  BY <1>8, <1>9

(***************************************************************************)
(* Pending calls and lanes.                                                *)
(***************************************************************************)
(* Pending calls are calls of hooks.                                       *)
RootKnown ==
  /\ \E S : root \in Seq(S)
  /\ \A k \in DOMAIN root : root[k][1] \in Hooks /\ root[k][2] \in DOMAIN Calls[root[k][1]]
  /\ \A h \in Hooks : hook[h].next >= 1

(* Deleting leaves the other pending calls.                                *)
LEMMA WithoutLeaves ==
  ASSUME NEW S, root \in Seq(S), NEW h
  PROVE  /\ Without(h) \in Seq(S)
         /\ \A k \in DOMAIN Without(h) : \E m \in DOMAIN root : Without(h)[k] = root[m]
<1> DEFINE n == Len(root)
           places == {k \in DOMAIN root : root[k][1] = h}
           p == CHOOSE k \in places : TRUE
           a == SubSeq(root, 1, p - 1)
           b == SubSeq(root, p + 1, n)
<1>1. n \in Nat /\ DOMAIN root = 1 .. n
  OBVIOUS
<1>2. CASE places = {}
  BY <1>2 DEF Without
<1>3. CASE places # {}
  <2>1. p \in 1 .. n
    BY <1>1, <1>3
  <2> HIDE DEF p
  <2>2. a \in Seq(S) /\ Len(a) = p - 1 /\ \A i \in 1 .. p - 1 : a[i] = root[i]
    BY <1>1, <2>1, SubSeqProperties
  <2>3. b \in Seq(S) /\ Len(b) = n - p /\ \A i \in 1 .. n - p : b[i] = root[p + i]
    <3> DEFINE m == p + 1
    <3>1. m \in Int /\ n \in Int /\ \A i \in m .. n : root[i] \in S
      BY <1>1, <2>1
    <3>2. m = p + 1
      OBVIOUS
    <3> HIDE DEF m, n
    <3>3. LET q == SubSeq(root, m, n)
          IN /\ q \in Seq(S) /\ Len(q) = IF m <= n THEN n - m + 1 ELSE 0
             /\ \A i \in 1 .. n - m + 1 : q[i] = root[m + i - 1]
      BY <3>1, SubSeqProperties
    <3>4. b = SubSeq(root, m, n)
      BY DEF m, n
    <3> HIDE DEF b
    <3>5. n - m + 1 = n - p /\ (~(m <= n) => n - p = 0)
          /\ \A i \in 1 .. n - p : m + i - 1 = p + i
      BY <1>1, <2>1, <3>2
    <3>6. QED
      BY <3>3, <3>4, <3>5
  <2>4. Without(h) = a \o b
    BY <1>3 DEF Without, p
  <2> HIDE DEF a, b, n
  <2>5. /\ a \o b \in Seq(S) /\ Len(a \o b) = (p - 1) + (n - p)
        /\ \A i \in 1 .. (p - 1) + (n - p) :
             (a \o b)[i] = IF i <= p - 1 THEN a[i] ELSE b[i - (p - 1)]
    <3>1. /\ a \o b \in Seq(S) /\ Len(a \o b) = Len(a) + Len(b)
          /\ \A i \in 1 .. Len(a) + Len(b) :
               (a \o b)[i] = IF i <= Len(a) THEN a[i] ELSE b[i - Len(a)]
      BY <2>2, <2>3, ConcatProperties
    <3>2. QED
      BY <2>2, <2>3, <3>1
  <2>6. ASSUME NEW i \in 1 .. (p - 1) + (n - p) PROVE \E m \in 1 .. n : (a \o b)[i] = root[m]
    <3>1. CASE i <= p - 1
      <4>1. i \in 1 .. p - 1 /\ i \in 1 .. n
        BY <1>1, <2>1, <3>1
      <4>2. QED
        BY <2>2, <2>5, <3>1, <4>1
    <3>2. CASE ~(i <= p - 1)
      <4>1. i - (p - 1) \in 1 .. n - p /\ p + (i - (p - 1)) \in 1 .. n
        BY <1>1, <2>1, <3>2
      <4>2. b[i - (p - 1)] = root[p + (i - (p - 1))]
        BY <2>3, <4>1
      <4>3. QED
        BY <2>5, <3>2, <4>1, <4>2
    <3>3. QED
      BY <3>1, <3>2
  <2>7. DOMAIN (a \o b) = 1 .. (p - 1) + (n - p)
    BY <2>5
  <2>8. QED
    BY <1>1, <2>4, <2>5, <2>6, <2>7
<1>4. QED
  BY <1>2, <1>3

(* A pending call was pending before, or a hook makes it.                  *)
LEMMA RootGrows ==
  ASSUME RootKnown, [Next]_vars
  PROVE  /\ (\E S : root \in Seq(S))'
         /\ \A k \in DOMAIN root' :
              \/ \E m \in DOMAIN root : root'[k] = root[m]
              \/ \E h \in Hooks : Call(h) /\ root'[k] = <<h, hook[h].next>>
<1>1. PICK S : root \in Seq(S)
  BY DEF RootKnown
<1>2. CASE root' = root
  BY <1>1, <1>2
<1>3. ASSUME NEW h \in Hooks, Call(h)
      PROVE  /\ (\E T : root \in Seq(T))'
             /\ \A k \in DOMAIN root' :
                  (\E m \in DOMAIN root : root'[k] = root[m]) \/ root'[k] = <<h, hook[h].next>>
  <2> DEFINE x == <<h, hook[h].next>>
             n == Len(root)
  <2>1. root' = Append(root, x)
    BY <1>3 DEF Call
  <2> HIDE DEF x
  <2>2. n \in Nat /\ DOMAIN root = 1 .. n /\ root \in Seq(S \cup {x})
    BY <1>1
  <2>3. /\ root' \in Seq(S \cup {x}) /\ DOMAIN root' = 1 .. n + 1
        /\ root'[n + 1] = x /\ \A i \in 1 .. n : root'[i] = root[i]
    BY <2>1, <2>2
  <2> HIDE DEF n
  <2>4. \A k \in 1 .. n + 1 : k \in 1 .. n \/ k = n + 1
    BY <2>2
  <2>5. QED
    BY <2>2, <2>3, <2>4 DEF x
<1>4. ASSUME NEW l \in DOMAIN lanes, Resolve(l)
      PROVE  /\ (\E T : root \in Seq(T))'
             /\ \A k \in DOMAIN root' : \E m \in DOMAIN root : root'[k] = root[m]
  <2>1. root' = Without(Entry(l)[1])
    BY <1>4 DEF Resolve
  <2>2. QED
    BY <1>1, <2>1, WithoutLeaves
<1>5. root' = root \/ (\E h \in Hooks : Call(h)) \/ (\E l \in DOMAIN lanes : Resolve(l))
  <2>1. CASE LoopStep
    BY <2>1 DEF LoopStep, LookUpForContract, ToBeSent, SendContract, ContractFails, ContractRefused,
       ContractReverts, RecordAddress, StoreAddress, SkipContract, ExecuteEvents, EventsExecuted,
       NextBatch, ByLoop, executor
  <2>2. ASSUME NEW h \in Hooks, HookStep(h) PROVE root' = root \/ Call(h)
    BY <2>2 DEF HookStep, Leave, ComeBack, HookThrows, FinishEvent, StoreFinished, ReadForDep,
       StoreDep, HookEnds, executor
  <2>3. ASSUME NEW l \in DOMAIN lanes, LaneStep(l) PROVE root' = root \/ Resolve(l)
    BY <2>3 DEF LaneStep, Func, LookUpForCall, SendCall, StoreInput, CallFails, LookUpFails,
       CallReverts, Breaks, Release
  <2>4. CASE UNCHANGED vars
    BY <2>4 DEF vars, executor
  <2>5. QED
    BY <2>1, <2>2, <2>3, <2>4 DEF Next
<1>6. QED
  BY <1>2, <1>3, <1>4, <1>5

(* Calls come from senders.                                                *)
LEMMA CallsAre ==
  ASSUME ParallelAssumption, NEW h \in Hooks
  PROVE  /\ DOMAIN Calls[h] = 1 .. Len(Calls[h])
         /\ \A i \in DOMAIN Calls[h] : Calls[h][i].from \in Senders
<1> DEFINE R == [to : Contracts, from : Senders]
<1>1. \A x \in R : x.from \in Senders
  OBVIOUS
<1>2. Calls[h] \in Seq(R)
  BY DEF ParallelAssumption
<1> HIDE DEF R
<1>3. DOMAIN Calls[h] = 1 .. Len(Calls[h]) /\ \A i \in DOMAIN Calls[h] : Calls[h][i] \in R
  BY <1>2
<1>4. QED
  BY <1>1, <1>3

(* The call a hook makes is one of its calls.                              *)
LEMMA CallIsOne ==
  ASSUME ParallelAssumption, MainShape, RootKnown, NEW h \in Hooks, Call(h)
  PROVE  hook[h].next \in DOMAIN Calls[h]
<1>1. Calls[h] \in Seq([to : Contracts, from : Senders])
  BY DEF ParallelAssumption
<1>2. hook[h].next \in Nat /\ hook[h].next >= 1 /\ hook[h].next <= Len(Calls[h])
  BY DEF MainShape, RootKnown, Call
<1>3. QED
  BY <1>1, <1>2

LEMMA RootStep ==
  ASSUME ParallelAssumption, MainShape, RootKnown, [Next]_vars
  PROVE  RootKnown'
<1>1. MainShape' /\ HooksGoOn
  BY StepShape
<1>2. \A h \in Hooks : hook'[h].next >= 1
  <2> SUFFICES ASSUME NEW h \in Hooks PROVE hook'[h].next >= 1
    OBVIOUS
  <2>1. hook[h].next \in Nat /\ hook'[h].next \in Nat /\ hook[h].next >= 1
        /\ hook'[h].next >= hook[h].next
    BY <1>1 DEF MainShape, RootKnown, HooksGoOn
  <2>2. QED
    BY <2>1
<1>3. ASSUME NEW k \in DOMAIN root'
      PROVE  root'[k][1] \in Hooks /\ root'[k][2] \in DOMAIN Calls[root'[k][1]]
  <2>1. CASE \E m \in DOMAIN root : root'[k] = root[m]
    BY <2>1 DEF RootKnown
  <2>2. ASSUME NEW h \in Hooks, Call(h), root'[k] = <<h, hook[h].next>>
        PROVE  root'[k][1] \in Hooks /\ root'[k][2] \in DOMAIN Calls[root'[k][1]]
    <3>1. root'[k][1] = h /\ root'[k][2] = hook[h].next
      BY <2>2
    <3>2. QED
      BY <2>2, <3>1, CallIsOne
  <2>3. QED
    BY <2>1, <2>2, RootGrows
<1>4. QED
  BY <1>2, <1>3, RootGrows DEF RootKnown

(* A lane is there, or was made for a pending call.                        *)
LEMMA LanesGrow ==
  ASSUME [Next]_vars, NEW l \in DOMAIN lanes', l \notin DOMAIN lanes
  PROVE  \E h \in Hooks : /\ Call(h) /\ l = <<h, hook[h].next, l[3]>>
                          /\ \E k \in DOMAIN root' : SenderOf(root'[k]) = l[3]
<1>1. ~LoopStep /\ ~UNCHANGED vars
  BY DEF LoopStep, LookUpForContract, ToBeSent, SendContract, ContractFails, ContractRefused,
     ContractReverts, RecordAddress, StoreAddress, SkipContract, ExecuteEvents, EventsExecuted,
     NextBatch, ByLoop, executor, vars
<1>2. ASSUME NEW m \in DOMAIN lanes, LaneStep(m) PROVE FALSE
  <2>1. DOMAIN lanes' \subseteq DOMAIN lanes
    BY <1>2 DEF LaneStep, Func, LookUpForCall, SendCall, StoreInput, CallFails, LookUpFails,
       CallReverts, Breaks, Release, Resolve
  <2>2. QED
    BY <2>1
<1>3. PICK h \in Hooks : HookStep(h)
  BY <1>1, <1>2 DEF Next
<1>4. Call(h)
  BY <1>3 DEF HookStep, Leave, ComeBack, HookThrows, FinishEvent, StoreFinished, ReadForDep,
     StoreDep, HookEnds, executor
<1> DEFINE new == {<<h, hook[h].next, s>> : s \in SendersIn(root')}
<1>5. DOMAIN lanes' = DOMAIN lanes \cup new
  BY <1>4 DEF Call
<1>6. PICK s \in SendersIn(root') : l = <<h, hook[h].next, s>>
  BY <1>5
<1>7. l[3] = s /\ \E k \in DOMAIN root' : SenderOf(root'[k]) = s
  BY <1>6 DEF SendersIn
<1>8. QED
  BY <1>4, <1>6, <1>7

(* Lanes are those of calls a hook made, and it has no call that waits for *)
(* one twice.                                                              *)
LanesPast ==
  \A l \in DOMAIN lanes :
    /\ IsLane(lanes[l])
    /\ l[1] \in Hooks /\ l[2] \in Nat /\ l[3] \in Senders /\ l = <<l[1], l[2], l[3]>>
    /\ l[2] <= hook[l[1]].next
    /\ hook[l[1]].at \in {"idle", "run", "away", "back"} => l[2] < hook[l[1]].next

(* A lane that goes on is a lane.                                          *)
LEMMA LaneShape ==
  ASSUME NEW l \in DOMAIN lanes, IsLane(lanes[l]), LaneStep(l), l \in DOMAIN lanes'
  PROVE  IsLane(lanes'[l])
<1>1. CASE Func(l)
  <2> DEFINE a == IF file.log[l[1]][To(l)] > progress[To(l)] THEN "answered" ELSE "send"
             i == progress[To(l)]
  <2>1. lanes' = [lanes EXCEPT ![l].at = a, ![l].iterator = i]
    BY <1>1 DEF Func
  <2> HIDE DEF a, i
  <2>2. lanes'[l] = [lanes[l] EXCEPT !.at = a, !.iterator = i]
    BY <2>1
  <2>3. QED
    BY <2>2 DEF IsLane
<1>2. CASE LookUpForCall(l)
  <2>1. lanes'[l] = [lanes[l] EXCEPT !.looked = mined[l[3]]]
    BY <1>2 DEF LookUpForCall
  <2>2. QED
    BY <2>1 DEF IsLane
<1>3. CASE SendCall(l)
  <2>1. lanes'[l] = [lanes[l] EXCEPT !.at = "sent", !.copy = <<file>>]
    BY <1>3 DEF SendCall
  <2>2. QED
    BY <2>1 DEF IsLane
<1>4. CASE StoreInput(l)
  <2>1. lanes'[l] = [lanes[l] EXCEPT !.at = "wait", !.copy = NoCopy]
    BY <1>4 DEF StoreInput
  <2>2. QED
    BY <2>1 DEF IsLane
<1>5. CASE LookUpFails(l) \/ CallFails(l) \/ CallReverts(l)
  <2>1. \/ lanes'[l] = [lanes[l] EXCEPT !.at = "lost"]
        \/ lanes'[l] = [lanes[l] EXCEPT !.at = "failed"]
    BY <1>5 DEF LookUpFails, CallFails, CallReverts
  <2>2. QED
    BY <2>1 DEF IsLane
<1>6. CASE Release(l)
  <2>1. lanes'[l] = [lanes[l] EXCEPT !.at = "store", !.copy = <<file>>]
    BY <1>6 DEF Release
  <2>2. QED
    BY <2>1 DEF IsLane
<1>7. CASE Resolve(l)
  <2> DEFINE left == Tail(lanes[l].todo)
  <2>1. \/ lanes' = [m \in DOMAIN lanes \ {l} |-> lanes[m]]
        \/ lanes' = [lanes EXCEPT ![l].todo = left, ![l].at = "queued",
                       ![l].looked = Unknown, ![l].copy = NoCopy]
    BY <1>7 DEF Resolve
  <2> HIDE DEF left
  <2>2. lanes'[l] = [lanes[l] EXCEPT !.todo = left, !.at = "queued", !.looked = Unknown,
                       !.copy = NoCopy]
    BY <2>1
  <2>3. QED
    BY <2>2 DEF IsLane
<1>8. QED
  BY <1>1, <1>2, <1>3, <1>4, <1>5, <1>6, <1>7 DEF LaneStep

(* Every lane is one.                                                      *)
LEMMA LanesShape ==
  ASSUME \A l \in DOMAIN lanes : IsLane(lanes[l]), [Next]_vars, NEW l \in DOMAIN lanes'
  PROVE  IsLane(lanes'[l])
<1>1. ASSUME NEW m \in DOMAIN lanes, LaneStep(m) PROVE IsLane(lanes'[l])
  <2>1. DOMAIN lanes' \subseteq DOMAIN lanes /\ \A k \in DOMAIN lanes' \ {m} : lanes'[k] = lanes[k]
    BY <1>1 DEF LaneStep, Func, LookUpForCall, SendCall, StoreInput, CallFails, LookUpFails,
       CallReverts, Breaks, Release, Resolve
  <2>2. CASE l = m
    BY <1>1, <2>1, <2>2, LaneShape
  <2>3. CASE l # m
    BY <2>1, <2>3
  <2>4. QED
    BY <2>2, <2>3
<1>2. ASSUME NEW h \in Hooks, HookStep(h) PROVE IsLane(lanes'[l])
  <2>1. CASE lanes' = lanes
    BY <2>1
  <2>2. CASE Call(h)
    <3>1. lanes'[l] = Lane(root', l[3]) \/ (l \in DOMAIN lanes /\ lanes'[l] = lanes[l])
      BY <2>2 DEF Call
    <3>2. QED
      BY <3>1 DEF Lane, IsLane
  <2>3. QED
    BY <1>2, <2>1, <2>2 DEF HookStep, Leave, ComeBack, HookThrows, FinishEvent, StoreFinished,
       ReadForDep, StoreDep, HookEnds, executor
<1>3. CASE LoopStep \/ UNCHANGED vars
  <2>1. lanes' = lanes
    BY <1>3 DEF LoopStep, LookUpForContract, ToBeSent, SendContract, ContractFails, ContractRefused,
       ContractReverts, RecordAddress, StoreAddress, SkipContract, ExecuteEvents, EventsExecuted,
       NextBatch, ByLoop, executor, vars
  <2>2. QED
    BY <2>1
<1>4. QED
  BY <1>1, <1>2, <1>3 DEF Next

LEMMA LanesPastStep ==
  ASSUME ParallelAssumption, MainShape, RootKnown, LanesPast, [Next]_vars
  PROVE  LanesPast'
<1>1. MainShape' /\ HooksGoOn /\ RootKnown'
  BY StepShape, RootStep
<1>2. \A l \in DOMAIN lanes' : IsLane(lanes'[l])
  BY LanesShape DEF LanesPast
<1> SUFFICES ASSUME NEW l \in DOMAIN lanes'
             PROVE  /\ l[1] \in Hooks /\ l[2] \in Nat /\ l[3] \in Senders /\ l = <<l[1], l[2], l[3]>>
                    /\ l[2] <= hook'[l[1]].next
                    /\ hook'[l[1]].at \in {"idle", "run", "away", "back"} =>
                         l[2] < hook'[l[1]].next
  BY <1>2 DEF LanesPast
<1>3. CASE l \in DOMAIN lanes
  <2>1. /\ l[1] \in Hooks /\ l[2] \in Nat /\ l[3] \in Senders /\ l = <<l[1], l[2], l[3]>>
        /\ l[2] <= hook[l[1]].next
        /\ hook[l[1]].at \in {"idle", "run", "away", "back"} => l[2] < hook[l[1]].next
    BY <1>3 DEF LanesPast
  <2>2. hook[l[1]].next \in Nat /\ hook'[l[1]].next \in Nat
    BY <1>1, <2>1 DEF MainShape
  <2>3. QED
    BY <1>1, <2>1, <2>2 DEF HooksGoOn
<1>4. CASE l \notin DOMAIN lanes
  <2>1. PICK h \in Hooks : /\ Call(h) /\ l = <<h, hook[h].next, l[3]>>
                           /\ \E k \in DOMAIN root' : SenderOf(root'[k]) = l[3]
    BY <1>4, LanesGrow
  <2>2. l[1] = h /\ l[2] = hook[h].next /\ hook[h].next \in Nat
    BY <2>1 DEF MainShape
  <2>3. l[3] \in Senders
    <3>1. PICK k \in DOMAIN root' : SenderOf(root'[k]) = l[3]
      BY <2>1
    <3>2. /\ root'[k][1] \in Hooks /\ root'[k][2] \in DOMAIN Calls[root'[k][1]]
      BY <1>1 DEF RootKnown
    <3>3. QED
      BY <3>1, <3>2, CallsAre DEF SenderOf
  <2>4. hook'[h].next = hook[h].next /\ hook'[h].at = "await"
    <3>1. hook' = [hook EXCEPT ![h].at = "await"] /\ IsHook(hook[h]) /\ DOMAIN hook = Hooks
      BY <2>1 DEF Call, MainShape
    <3>2. QED
      BY <3>1 DEF IsHook
  <2>5. QED
    BY <2>1, <2>2, <2>3, <2>4
<1>5. QED
  BY <1>3, <1>4

(***************************************************************************)
(* Addresses in time.                                                      *)
(***************************************************************************)
(* What a hook waits for has its address when its batch begins, unless it  *)
(* is left out.                                                            *)
LEMMA NeedsThere ==
  ASSUME NeedsInEarlierBatch, MainShape, Placed, NEW a \in Contracts,
         \/ \E c \in Contracts : In(c, main.batch) /\ a \in Args[c]
         \/ \E h \in InBatch : a \in Waits(h)
  PROVE  Skips(a)
<1>1. /\ DOMAIN Batches = 1 .. Len(Batches) /\ main.batch \in DOMAIN Batches
  BY DEF MainShape
<1>2. PICK j \in 1 .. main.batch - 1 : In(a, j)
  BY <1>1 DEF NeedsInEarlierBatch, InBatch
<1>3. Len(Batches) \in Nat
  BY DEF MainShape
<1>4. j \in DOMAIN Batches /\ j < main.batch
  BY <1>1
<1>5. QED
  BY <1>2, <1>4 DEF Placed

(* A hook is refused only for a contract that is left out.                 *)
RefusedSkips == \A h \in Hooks : hook[h].at = "refused" => Waits(h) \cap custom.skipped # {}

LEMMA RefusedSkipsStep ==
  ASSUME ParallelAssumption, NeedsInEarlierBatch, MainShape, Placed, RefusedSkips, [Next]_vars
  PROVE  RefusedSkips'
<1> SUFFICES ASSUME NEW h \in Hooks, hook'[h].at = "refused"
             PROVE  Waits(h) \cap custom.skipped # {}
  BY CustomStays DEF RefusedSkips
<1>1. DOMAIN hook = Hooks /\ IsHook(hook[h])
  BY DEF MainShape
<1>2. CASE hook'[h].at = hook[h].at
  BY <1>2 DEF RefusedSkips
<1>3. ASSUME LoopStep, hook'[h].at # hook[h].at PROVE Waits(h) \cap custom.skipped # {}
  <2>1. ExecuteEvents
    BY <1>3 DEF LoopStep, LookUpForContract, SendContract, ContractFails, ContractRefused,
       ContractReverts, RecordAddress, StoreAddress, SkipContract, EventsExecuted, NextBatch, ByLoop
  <2>2. h \in InBatch /\ hook'[h] = Start(h)
    BY <1>3, <2>1 DEF ExecuteEvents
  <2>3. \A c \in Waits(h) : Skips(c)
    <3>1. Deps[h] \in Seq(Contracts)
      BY DEF ParallelAssumption
    <3>2. Waits(h) \subseteq Contracts
      BY <3>1 DEF Waits
    <3>3. QED
      BY <2>2, <3>2, NeedsThere
  <2>4. ~\A c \in Waits(h) : mem.address[c]
    <3> SUFFICES ASSUME \A c \in Waits(h) : mem.address[c] PROVE FALSE
      OBVIOUS
    <3>1. hook'[h].at = "run"
      BY <1>1, <2>2 DEF Start, IsHook
    <3>2. QED
      BY <3>1
  <2>5. QED
    BY <2>3, <2>4 DEF Skips
<1>4. ASSUME NEW g \in Hooks, HookStep(g) PROVE hook'[h].at = hook[h].at
  <2>1. hook'[h] = hook[h] \/ hook'[h].at \notin {"idle", "refused"}
    BY <1>4, HookShape
  <2>2. QED
    BY <2>1
<1>5. ASSUME NEW l \in DOMAIN lanes, LaneStep(l) PROVE hook'[h].at = hook[h].at
  <2>1. \/ hook' = hook
        \/ \E g : \/ hook' = [hook EXCEPT ![g].at = "failed"]
                 \/ hook' = [hook EXCEPT ![g].at = "run", ![g].next = @ + 1]
    BY <1>5 DEF LaneStep, Func, LookUpForCall, SendCall, StoreInput, LookUpFails, CallFails,
       CallReverts, Breaks, Release, Resolve
  <2>2. \/ hook'[h] = hook[h]
        \/ hook'[h] = [hook[h] EXCEPT !.at = "failed"]
        \/ hook'[h] = [hook[h] EXCEPT !.at = "run", !.next = @ + 1]
    BY <1>1, <2>1
  <2>3. QED
    BY <1>1, <2>2 DEF IsHook
<1>6. CASE UNCHANGED vars
  BY <1>2, <1>6 DEF vars
<1>7. QED
  BY <1>2, <1>3, <1>4, <1>5, <1>6 DEF Next

(* Everything that is so at the start.                                     *)
LEMMA InitPlaced ==
  ASSUME ParallelAssumption, Init
  PROVE  MainShape /\ Placed /\ LeftHere /\ RootKnown /\ LanesPast /\ RefusedSkips
<1>1. main = [at |-> "send", batch |-> 1, left |-> Batches[1].contracts,
              sent |-> <<>>, looked |-> Unknown, copy |-> NoCopy]
  BY DEF Init
<1>2. hook = [h \in Hooks |-> [at |-> "idle", next |-> 1, left |-> <<>>, copy |-> NoCopy]]
  BY DEF Init
<1>3. \A h \in Hooks : IsHook(hook[h]) /\ hook[h].next = 1 /\ hook[h].at = "idle"
  BY <1>2 DEF IsHook
<1>4. /\ Batches[1].contracts \in Seq(Contracts) /\ 1 \in DOMAIN Batches
      /\ DOMAIN Batches = 1 .. Len(Batches) /\ \A k \in DOMAIN Batches : Batches[k].hooks \subseteq Hooks
  BY BatchesAre
<1>5. MainShape
  <2>1. IsMain(main)
    BY <1>1 DEF IsMain
  <2>2. <<>> \in Seq(Contracts)
    OBVIOUS
  <2>3. Idle
    BY <1>3, <1>4 DEF Idle, ToCome
  <2>4. QED
    BY <1>1, <1>2, <1>3, <1>4, <2>1, <2>2, <2>3 DEF MainShape
<1>6. Placed
  <2>1. IsMem(mem)
    <3>1. \E d : mem = NewState(d)
      BY DEF Init
    <3>2. QED
      BY <3>1 DEF NewState, IsMem
  <2>2. \A c \in Contracts : In(c, 1) <=> Has(main.left, c)
    BY <1>1 DEF In, Has
  <2>3. \A j \in DOMAIN Batches : ~(j < 1)
    BY <1>4
  <2>4. main.batch = 1 /\ main.copy = NoCopy /\ main.at = "send" /\ main.looked = Unknown
    BY <1>1
  <2>5. custom.skipped \subseteq MaySkip
    BY DEF Init
  <2>6. QED
    BY <2>1, <2>2, <2>3, <2>4, <2>5 DEF Placed
<1>7. root = <<>> /\ DOMAIN lanes = {}
  BY DEF Init
<1>8. RootKnown
  <2>1. root \in Seq({})
    BY <1>7
  <2>2. QED
    BY <1>3, <1>7, <2>1 DEF RootKnown
<1>9. LeftHere
  BY <1>1 DEF LeftHere, In, Has
<1>10. QED
  BY <1>3, <1>5, <1>6, <1>7, <1>8, <1>9 DEF LanesPast, RefusedSkips

LEMMA PlacedInTime ==
  ASSUME NeedsInEarlierBatch, ParallelAssumption, MainShape, Placed, LeftHere, RefusedSkips
  PROVE  AddressesInTime
<1>1. \A h \in Hooks : hook[h].at = "refused" => Waits(h) \cap custom.skipped # {}
  BY DEF RefusedSkips
<1>2. ASSUME main.at = "send", main.left # <<>> PROVE \A a \in Args[Head(main.left)] : Skips(a)
  <2> DEFINE c == Head(main.left)
  <2>1. main.left \in Seq(Contracts)
    BY DEF MainShape
  <2>2. c \in Contracts /\ Has(main.left, c)
    BY <1>2, <2>1 DEF Has
  <2> HIDE DEF c
  <2>3. In(c, main.batch) /\ Args[c] \subseteq Contracts
    BY <2>2 DEF LeftHere, ParallelAssumption
  <2>4. \A a \in Args[c] : Skips(a)
    BY <2>2, <2>3, NeedsThere
  <2>5. QED
    BY <2>4 DEF c
<1>3. QED
  BY <1>1, <1>2 DEF AddressesInTime

(* Contracts and hooks that need a contract come in a later batch than it; *)
(* though the addresses of a batch are set only after its hooks have run,  *)
(* nobody ever misses one but that of a contract that is left out.         *)
THEOREM NeedsMet ==
  ASSUME ParallelAssumption, NeedsInEarlierBatch
  PROVE  Spec => []AddressesInTime
<1> DEFINE Inv == MainShape /\ Placed /\ LeftHere /\ RefusedSkips
<1>1. Init => Inv
  BY InitPlaced
<1>2. Inv /\ [Next]_vars => Inv'
  BY StepShape, PlacedStep, LeftHereStep, RefusedSkipsStep
<1>3. Inv => AddressesInTime
  BY PlacedInTime
<1>4. QED
  BY <1>1, <1>2, <1>3, PTL DEF Spec

(***************************************************************************)
(* Nonces.                                                                 *)
(***************************************************************************)
(* What is known of a sender.                                              *)
Shape(s) ==
  /\ DOMAIN queue = Senders /\ queue[s] \in Seq(Names(s))
  /\ \A l \in Of(s) : l \in Names(s) /\ IsLane(lanes[l])
  /\ DOMAIN nonceMap = Senders /\ DOMAIN mined = Senders
  /\ nonceMap[s] \in Nat \cup {Unknown} /\ mined[s] \in Nat
  /\ \E S : txs \in Seq(S)

(* A lane between its start and its answer has the key.                    *)
Exclusive(s) == \A l \in Of(s) : lanes[l].at \notin {"queued", "store"} => HasKey(l)

(* A hook that runs makes a call that has no lane yet.                     *)
Fresh(s) ==
  \A l \in Of(s) : /\ l[2] <= hook[l[1]].next
                   /\ hook[l[1]].at \in {"idle", "run", "away", "back"} => l[2] < hook[l[1]].next

(* A lookup that was answered finds the map as it was.                     *)
LookedUp(s) ==
  \A l \in Of(s) :
    /\ lanes[l].at = "queued" => lanes[l].looked = Unknown
    /\ lanes[l].at = "send" /\ lanes[l].looked # Unknown =>
         lanes[l].looked = 0 /\ nonceMap[s] = Unknown
    /\ lanes[l].at \in {"sent", "wait", "lost"} => nonceMap[s] # Unknown

(* The nonces that were taken.                                             *)
Taken(s) ==
  /\ nonceMap[s] = Unknown => mined[s] = 0 /\ From(s) = {}
  /\ IsFiniteSet(From(s))
  /\ \A i \in From(s) : txs[i].nonce \in Nat /\ txs[i].nonce < nonceMap[s]
  /\ \A i, j \in From(s) : i # j => txs[i].nonce # txs[j].nonce
  /\ Lost(s) \/ nonceMap[s] = Unknown
       \/ /\ {txs[i].nonce : i \in From(s)} = 0 .. nonceMap[s] - 1
          /\ Cardinality(From(s)) = nonceMap[s]

NonceInv(s) == MainShape /\ Shape(s) /\ Exclusive(s) /\ Fresh(s) /\ LookedUp(s) /\ Taken(s)

(* A sender who signs contracts.  Who looks a nonce up for a contract of   *)
(* his finds the map as it was; who was sent has it in the map; and until  *)
(* it is there, nothing calls from him.                                    *)
Signs(s) == \E c \in Contracts : Signer[c] = s
NobodyCalls(s) ==
  /\ Of(s) = {} /\ \A k \in DOMAIN root : SenderOf(root[k]) # s
  /\ \A h \in Hooks : CallsFrom(h, s) => hook[h].at = "idle"
Apart(s) ==
  /\ main.at = "send" /\ main.looked # Unknown /\ Signer[Head(main.left)] = s =>
       main.looked = 0 /\ nonceMap[s] = Unknown
  /\ \A c \in Contracts : Signer[c] = s =>
       /\ Has(main.sent, c) => nonceMap[s] # Unknown
       /\ c \notin OnRecord /\ mem.address[c] => nonceMap[s] # Unknown
  /\ Signs(s) => nonceMap[s] # Unknown \/ NobodyCalls(s)

(* When the deployment starts nothing was sent.                            *)
LEMMA InitNonce ==
  ASSUME ParallelAssumption, Init, NEW s \in Senders
  PROVE  NonceInv(s)
<1>1. MainShape
  BY InitPlaced
<1>2. DOMAIN lanes = {} /\ queue[s] = <<>> /\ DOMAIN queue = Senders
  BY DEF Init
<1>3. DOMAIN nonceMap = Senders /\ DOMAIN mined = Senders /\ nonceMap[s] = Unknown
      /\ mined[s] = 0 /\ txs = <<>>
  BY DEF Init
<1>4. Of(s) = {} /\ From(s) = {}
  BY <1>2, <1>3 DEF Of, From
<1>5. Shape(s)
  <2>1. <<>> \in Seq(Names(s))
    OBVIOUS
  <2>2. QED
    BY <1>2, <1>3, <1>4, <2>1 DEF Shape
<1>6. Taken(s)
  BY <1>3, <1>4, FS_EmptySet DEF Taken
<1>7. QED
  BY <1>1, <1>4, <1>5, <1>6 DEF NonceInv, Exclusive, Fresh, LookedUp

(***************************************************************************)
(* Transactions.                                                           *)
(***************************************************************************)
(* A transaction of another sender.                                        *)
LEMMA OthersSend ==
  ASSUME NEW s, NEW t, t # s, NEW n, NEW what, \E S : txs \in Seq(S),
         txs' = Append(txs, [from |-> t, nonce |-> n, what |-> what])
  PROVE  /\ (\E S : txs \in Seq(S))' /\ From(s)' = From(s)
         /\ \A i \in From(s) : txs'[i] = txs[i]
<1> DEFINE x == [from |-> t, nonce |-> n, what |-> what]
<1>1. PICK S : txs \in Seq(S)
  OBVIOUS
<1>2. x.from = t
  OBVIOUS
<1> HIDE DEF x
<1>3. txs' \in Seq(S \cup {x}) /\ DOMAIN txs = 1 .. Len(txs) /\ DOMAIN txs' = 1 .. Len(txs) + 1
      /\ txs'[Len(txs) + 1] = x /\ \A i \in DOMAIN txs : txs'[i] = txs[i]
  BY <1>1 DEF x
<1>4. Len(txs) \in Nat
  BY <1>1
<1>5. QED
  BY <1>2, <1>3, <1>4 DEF From

(* A transaction of this sender.                                           *)
LEMMA OwnSends ==
  ASSUME NEW s, NEW n, NEW what, \E S : txs \in Seq(S),
         txs' = Append(txs, [from |-> s, nonce |-> n, what |-> what])
  PROVE  /\ (\E S : txs \in Seq(S))' /\ From(s)' = From(s) \cup {Len(txs) + 1}
         /\ Len(txs) + 1 \notin From(s) /\ txs'[Len(txs) + 1].nonce = n
         /\ \A i \in From(s) : txs'[i] = txs[i]
<1> DEFINE x == [from |-> s, nonce |-> n, what |-> what]
<1>1. PICK S : txs \in Seq(S)
  OBVIOUS
<1>2. x.from = s /\ x.nonce = n
  OBVIOUS
<1> HIDE DEF x
<1>3. txs' \in Seq(S \cup {x}) /\ DOMAIN txs = 1 .. Len(txs) /\ DOMAIN txs' = 1 .. Len(txs) + 1
      /\ txs'[Len(txs) + 1] = x /\ \A i \in DOMAIN txs : txs'[i] = txs[i]
  BY <1>1 DEF x
<1>4. Len(txs) \in Nat
  BY <1>1
<1>5. QED
  BY <1>2, <1>3, <1>4 DEF From

(* Who takes a nonce takes the next one: either it was looked up, and then *)
(* nothing was sent yet, or it is in the map.                              *)
LEMMA NextNonce ==
  ASSUME NEW s, Shape(s), Taken(s), NEW looked, ~MustLookUp(s, looked),
         looked # Unknown => looked = 0 /\ nonceMap[s] = Unknown,
         NEW n, n = Nonce(s, looked)
  PROVE  /\ n \in Nat /\ \A i \in From(s) : txs[i].nonce < n
         /\ Lost(s) \/ /\ {txs[i].nonce : i \in From(s)} = 0 .. n - 1
                       /\ Cardinality(From(s)) = n
<1>1. CASE looked # Unknown
  <2>1. n = 0 /\ From(s) = {}
    BY <1>1 DEF Taken, Nonce
  <2>2. 0 .. n - 1 = {} /\ Cardinality({}) = 0
    BY <2>1, FS_EmptySet
  <2>3. QED
    BY <2>1, <2>2
<1>2. CASE looked = Unknown
  <2>1. n = nonceMap[s] /\ nonceMap[s] # Unknown
    BY <1>2 DEF MustLookUp, Nonce
  <2>2. QED
    BY <2>1 DEF Shape, Taken
<1>3. QED
  BY <1>1, <1>2

(* A transaction with the next nonce is sent.                              *)
LEMMA SendsNext ==
  ASSUME NEW s, Shape(s), Taken(s), NEW n \in Nat, \A i \in From(s) : txs[i].nonce < n,
         Lost(s) \/ /\ {txs[i].nonce : i \in From(s)} = 0 .. n - 1
                    /\ Cardinality(From(s)) = n,
         NEW k, k \notin From(s), From(s)' = From(s) \cup {k}, txs'[k].nonce = n,
         \A i \in From(s) : txs'[i] = txs[i],
         nonceMap'[s] = n + 1, Lost(s) => Lost(s)'
  PROVE  Taken(s)'
<1>1. n + 1 \in Nat /\ n + 1 # Unknown /\ n < n + 1
  BY DEF Unknown
<1>2. IsFiniteSet(From(s)) /\ \A i, j \in From(s) : i # j => txs[i].nonce # txs[j].nonce
  BY DEF Taken
<1>3. \A i \in From(s) : txs[i].nonce \in Nat
  BY DEF Taken
<1>4. IsFiniteSet(From(s)') /\ Cardinality(From(s)') = Cardinality(From(s)) + 1
  <2>1. /\ IsFiniteSet(From(s) \cup {k})
        /\ Cardinality(From(s) \cup {k}) = Cardinality(From(s)) + 1
    BY <1>2, FS_AddElement
  <2>2. QED
    BY <2>1
<1>5. \A i \in From(s)' : txs'[i].nonce \in Nat /\ txs'[i].nonce < nonceMap'[s]
  <2>1. ASSUME NEW i \in From(s) PROVE txs'[i].nonce \in Nat /\ txs'[i].nonce < n + 1
    <3>1. txs'[i] = txs[i] /\ txs[i].nonce \in Nat /\ txs[i].nonce < n
      BY <1>3
    <3>2. QED
      BY <3>1
  <2>2. QED
    BY <1>1, <2>1
<1>6. \A i, j \in From(s)' : i # j => txs'[i].nonce # txs'[j].nonce
  <2>1. ASSUME NEW i \in From(s) PROVE txs'[i].nonce # n
    <3>1. txs'[i] = txs[i] /\ txs[i].nonce \in Nat /\ txs[i].nonce < n
      BY <1>3
    <3>2. QED
      BY <3>1
  <2>2. QED
    BY <1>2, <2>1
<1>7. Lost(s)' \/ /\ {txs'[i].nonce : i \in From(s)'} = 0 .. nonceMap'[s] - 1
                  /\ Cardinality(From(s)') = nonceMap'[s]
  <2> SUFFICES ASSUME ~Lost(s)
               PROVE  /\ {txs'[i].nonce : i \in From(s)'} = 0 .. nonceMap'[s] - 1
                      /\ Cardinality(From(s)') = nonceMap'[s]
    OBVIOUS
  <2>1. {txs'[i].nonce : i \in From(s)'} = {txs[i].nonce : i \in From(s)} \cup {n}
    OBVIOUS
  <2>2. (0 .. n - 1) \cup {n} = 0 .. (n + 1) - 1
    OBVIOUS
  <2>3. QED
    BY <1>4, <2>1, <2>2
<1>8. QED
  BY <1>1, <1>4, <1>5, <1>6, <1>7 DEF Taken

(***************************************************************************)
(* The loop and the hooks.                                                 *)
(***************************************************************************)
(* A hook goes no way back, so its lanes stay in its past.                 *)
LEMMA FreshStays ==
  ASSUME NEW s, NonceInv(s), MainShape', HooksGoOn, Of(s)' \subseteq Of(s)
  PROVE  Fresh(s)'
<1> SUFFICES ASSUME NEW l \in Of(s)
             PROVE  /\ l[2] <= hook'[l[1]].next
                    /\ hook'[l[1]].at \in {"idle", "run", "away", "back"} =>
                         l[2] < hook'[l[1]].next
  BY DEF Fresh
<1>1. l[1] \in Hooks /\ l[2] \in Nat
  BY DEF NonceInv, Shape, Names
<1>2. hook[l[1]].next \in Nat /\ hook'[l[1]].next \in Nat
  BY <1>1 DEF NonceInv, MainShape
<1>3. QED
  BY <1>1, <1>2 DEF NonceInv, Fresh, HooksGoOn

(* When a contract was refused the loop has come to its end.               *)
LEMMA LoopIsOn ==
  ASSUME LoopStep
  PROVE  main.at # "refused"
BY DEF LoopStep, LookUpForContract, SendContract, ToBeSent, Sending, ContractFails, ContractRefused,
   ContractReverts, RecordAddress, StoreAddress, SkipContract, ExecuteEvents, EventsExecuted,
   NextBatch

LEMMA RefusedStays ==
  ASSUME [Next]_vars, main.at = "refused"
  PROVE  main' = main
BY LoopIsOn, LoopAlone

(* Nothing happens to the lanes of the sender.                             *)
LEMMA LanesStay ==
  ASSUME NEW s, NonceInv(s), MainShape', HooksGoOn, main.at = "refused" => main' = main,
         Of(s)' = Of(s), \A l \in Of(s) : lanes'[l] = lanes[l],
         DOMAIN queue' = DOMAIN queue, queue'[s] = queue[s],
         DOMAIN nonceMap' = DOMAIN nonceMap, nonceMap'[s] = nonceMap[s],
         DOMAIN mined' = DOMAIN mined, mined'[s] \in Nat,
         mined'[s] = mined[s] \/ nonceMap[s] # Unknown,
         (\E S : txs \in Seq(S))', From(s)' = From(s), \A i \in From(s) : txs'[i] = txs[i]
  PROVE  NonceInv(s)'
<1>1. Shape(s)'
  BY DEF NonceInv, Shape, Names
<1>2. Exclusive(s)'
  BY DEF NonceInv, Exclusive, Shape, HasKey, Of
<1>3. Fresh(s)'
  BY FreshStays
<1>4. LookedUp(s)'
  BY DEF NonceInv, LookedUp
<1>5. Lost(s) => Lost(s)'
  BY DEF Lost, Of
<1>6. Taken(s)'
  BY <1>5 DEF NonceInv, Taken
<1>7. QED
  BY <1>1, <1>2, <1>3, <1>4, <1>6 DEF NonceInv

(* A step that is none of the lanes' and takes no nonce.                   *)
LEMMA NothingTaken ==
  ASSUME NEW s \in Senders, NonceInv(s), MainShape', HooksGoOn, main.at = "refused" => main' = main,
         lanes' = lanes, queue' = queue, nonceMap' = nonceMap, txs' = txs,
         DOMAIN mined' = Senders, mined'[s] \in Nat, mined'[s] = mined[s] \/ nonceMap[s] # Unknown
  PROVE  NonceInv(s)'
<1>1. PICK S : txs \in Seq(S)
  BY DEF NonceInv, Shape
<1>2. txs' \in Seq(S)
  BY <1>1
<1>3. Of(s)' = Of(s) /\ From(s)' = From(s)
  BY DEF Of, From
<1>4. DOMAIN mined' = DOMAIN mined
  BY DEF NonceInv, Shape
<1>5. QED
  BY <1>2, <1>3, <1>4, LanesStay

(* A contract of the sender is sent, with the next nonce: the sender was   *)
(* looked up before, or has no lane yet.                                   *)
LEMMA SendsContract ==
  ASSUME ParallelAssumption, NEW s \in Senders, NonceInv(s), Apart(s),
         NEW c \in Contracts, SendContract(c), Signer[c] = s
  PROVE  NonceInv(s)' /\ nonceMap'[s] # Unknown
<1> DEFINE n == Nonce(s, main.looked)
<1>1. MainShape' /\ HooksGoOn
  BY LoopShape DEF NonceInv, LoopStep
<1>2. /\ main.at = "send" /\ Head(main.left) = c /\ ~MustLookUp(s, main.looked)
      /\ nonceMap' = [nonceMap EXCEPT ![s] = n + 1] /\ mined' = mined
      /\ txs' = Append(txs, [from |-> s, nonce |-> n, what |-> <<c, 0>>])
      /\ lanes' = lanes /\ queue' = queue
  BY DEF SendContract, ToBeSent, Sending, Send, TakeNonce, ByLoop, executor
<1>3. Shape(s) /\ Taken(s) /\ DOMAIN nonceMap = Senders
  BY DEF NonceInv, Shape
<1>4. main.looked # Unknown => main.looked = 0 /\ nonceMap[s] = Unknown
  BY <1>2 DEF Apart
<1>5. /\ n \in Nat /\ \A i \in From(s) : txs[i].nonce < n
      /\ Lost(s) \/ /\ {txs[i].nonce : i \in From(s)} = 0 .. n - 1
                    /\ Cardinality(From(s)) = n
  BY <1>2, <1>3, <1>4, NextNonce
<1> HIDE DEF n
<1>6. /\ DOMAIN nonceMap' = Senders /\ nonceMap'[s] = n + 1
      /\ n + 1 \in Nat /\ n + 1 # Unknown
  BY <1>2, <1>3, <1>5 DEF Unknown
<1>7. Of(s)' = Of(s) /\ (Lost(s) => Lost(s)')
  BY <1>2 DEF Of, Lost
<1>8. Taken(s)' /\ (\E S : txs \in Seq(S))'
  <2>1. \E S : txs \in Seq(S)
    BY DEF NonceInv, Shape
  <2>2. /\ (\E S : txs \in Seq(S))' /\ From(s)' = From(s) \cup {Len(txs) + 1}
        /\ Len(txs) + 1 \notin From(s) /\ txs'[Len(txs) + 1].nonce = n
        /\ \A i \in From(s) : txs'[i] = txs[i]
    BY <1>2, <2>1, OwnSends
  <2>3. QED
    BY <1>3, <1>5, <1>6, <1>7, <2>2, SendsNext
<1>9. Shape(s)'
  BY <1>2, <1>6, <1>7, <1>8 DEF NonceInv, Shape, Names
<1>10. Exclusive(s)'
  BY <1>2, <1>7 DEF NonceInv, Exclusive, HasKey
<1>11. Fresh(s)'
  BY <1>1, <1>7, FreshStays
<1>12. LookedUp(s)'
  <2>1. nonceMap[s] # Unknown \/ Of(s) = {}
    BY DEF Apart, NobodyCalls, Signs
  <2>2. QED
    BY <1>2, <1>6, <1>7, <2>1 DEF NonceInv, LookedUp
<1>13. QED
  BY <1>1, <1>6, <1>8, <1>9, <1>10, <1>11, <1>12 DEF NonceInv

(* A contract of the sender is refused, with the nonce taken: what is left *)
(* of the batch says so.                                                   *)
LEMMA LosesContract ==
  ASSUME ParallelAssumption, NEW s \in Senders, NonceInv(s), Apart(s),
         NEW c \in Contracts, ContractRefused(c), Signer[c] = s
  PROVE  NonceInv(s)' /\ nonceMap'[s] # Unknown
<1> DEFINE n == Nonce(s, main.looked)
<1>1. MainShape' /\ HooksGoOn
  BY LoopShape DEF NonceInv, LoopStep
<1>2. /\ main.at = "send" /\ main.left # <<>> /\ Head(main.left) = c
      /\ ~MustLookUp(s, main.looked)
      /\ nonceMap' = [nonceMap EXCEPT ![s] = n + 1] /\ mined' = mined /\ txs' = txs
      /\ lanes' = lanes /\ queue' = queue
      /\ main' = [main EXCEPT !.at = "refused", !.looked = Unknown]
  BY DEF ContractRefused, ToBeSent, Sending, TakeNonce, ByLoop, executor
<1>3. Shape(s) /\ Taken(s) /\ DOMAIN nonceMap = Senders /\ IsMain(main)
  BY DEF NonceInv, Shape, MainShape
<1>4. main.looked # Unknown => main.looked = 0 /\ nonceMap[s] = Unknown
  BY <1>2 DEF Apart
<1>5. n \in Nat /\ \A i \in From(s) : txs[i].nonce < n
  BY <1>2, <1>3, <1>4, NextNonce
<1> HIDE DEF n
<1>6. /\ DOMAIN nonceMap' = Senders /\ nonceMap'[s] = n + 1
      /\ n + 1 \in Nat /\ n + 1 # Unknown
  BY <1>2, <1>3, <1>5 DEF Unknown
<1>7. Of(s)' = Of(s) /\ From(s)' = From(s)
  BY <1>2 DEF Of, From
<1>8. Lost(s)'
  <2>1. main'.at = "refused" /\ main'.left = main.left
    BY <1>2, <1>3 DEF IsMain
  <2>2. QED
    BY <1>2, <2>1 DEF Lost
<1>9. \A i \in From(s) : txs[i].nonce \in Nat /\ txs[i].nonce < n + 1
  <2>1. \A i \in From(s) : txs[i].nonce \in Nat
    BY <1>3 DEF Taken
  <2>2. QED
    BY <1>5, <2>1
<1>10. Taken(s)'
  BY <1>2, <1>3, <1>6, <1>7, <1>8, <1>9 DEF Taken
<1>11. Shape(s)'
  <2>1. PICK S : txs \in Seq(S)
    BY <1>3 DEF Shape
  <2>2. txs' \in Seq(S)
    BY <1>2, <2>1
  <2>3. QED
    BY <1>2, <1>3, <1>6, <1>7, <2>2 DEF Shape, Names
<1>12. Exclusive(s)'
  BY <1>2, <1>7 DEF NonceInv, Exclusive, HasKey
<1>13. Fresh(s)'
  BY <1>1, <1>7, FreshStays
<1>14. LookedUp(s)'
  <2>1. nonceMap[s] # Unknown \/ Of(s) = {}
    BY DEF Apart, NobodyCalls, Signs
  <2>2. QED
    BY <1>2, <1>6, <1>7, <2>1 DEF NonceInv, LookedUp
<1>15. QED
  BY <1>1, <1>6, <1>10, <1>11, <1>12, <1>13, <1>14 DEF NonceInv

(* What is mined of the sender was sent, so his nonce is in the map.       *)
LEMMA HearsOfMined ==
  ASSUME ParallelAssumption, NEW s \in Senders, NonceInv(s), Apart(s),
         ExecuteEvents \/ ContractReverts
  PROVE  NonceInv(s)'
<1> DEFINE D == {i \in DOMAIN main.sent : Signer[main.sent[i]] = s}
<1>1. MainShape' /\ HooksGoOn
  BY LoopShape DEF NonceInv, LoopStep
<1>2. /\ mined' = [t \in Senders |-> mined[t] +
           Cardinality({i \in DOMAIN main.sent : Signer[main.sent[i]] = t})]
      /\ lanes' = lanes /\ queue' = queue /\ nonceMap' = nonceMap /\ txs' = txs
      /\ main.at = "send"
  BY DEF ExecuteEvents, ContractReverts, BatchMined, ByLoop, executor
<1>3. main.sent \in Seq(Contracts) /\ mined[s] \in Nat
  BY DEF NonceInv, MainShape, Shape
<1>4. mined'[s] = mined[s] + Cardinality(D) /\ DOMAIN mined' = Senders
  BY <1>2
<1>5. Cardinality(D) \in Nat
  <2>1. IsFiniteSet(1 .. Len(main.sent))
    <3>1. Len(main.sent) \in Int
      BY <1>3
    <3>2. QED
      BY <3>1, FS_Interval
  <2>2. D \subseteq 1 .. Len(main.sent)
    BY <1>3
  <2> HIDE DEF D
  <2>3. QED
    BY <2>1, <2>2, FS_Subset, FS_CardinalityType
<1>6. D = {} \/ nonceMap[s] # Unknown
  <2> SUFFICES ASSUME NEW i \in D PROVE nonceMap[s] # Unknown
    OBVIOUS
  <2>1. main.sent[i] \in Contracts /\ Has(main.sent, main.sent[i]) /\ Signer[main.sent[i]] = s
    BY <1>3 DEF Has
  <2>2. QED
    BY <2>1 DEF Apart
<1> HIDE DEF D
<1>7. mined'[s] \in Nat /\ (mined'[s] = mined[s] \/ nonceMap[s] # Unknown)
  <2>1. Cardinality({}) = 0
    BY FS_EmptySet
  <2>2. mined'[s] \in Nat
    BY <1>3, <1>4, <1>5
  <2>3. ASSUME D = {} PROVE mined'[s] = mined[s]
    <3>1. Cardinality(D) = 0
      BY <2>1, <2>3
    <3>2. QED
      BY <1>3, <1>4, <3>1
  <2>4. QED
    BY <1>6, <2>2, <2>3
<1>8. QED
  BY <1>1, <1>2, <1>4, <1>7, NothingTaken

LEMMA LoopKeeps ==
  ASSUME ParallelAssumption, NEW s \in Senders, NonceInv(s), Apart(s), LoopStep
  PROVE  NonceInv(s)'
<1>0. main.at # "refused"
  BY LoopIsOn
<1>1. MainShape' /\ HooksGoOn
  BY LoopShape DEF NonceInv
<1>2. /\ DOMAIN queue = Senders /\ DOMAIN nonceMap = Senders /\ DOMAIN mined = Senders
      /\ mined[s] \in Nat /\ \E S : txs \in Seq(S)
  BY DEF NonceInv, Shape
<1>3. ASSUME NEW c \in Contracts, SendContract(c) PROVE NonceInv(s)'
  <2>1. CASE Signer[c] = s
    BY <1>3, <2>1, SendsContract
  <2>2. CASE Signer[c] # s
    <3>1. /\ nonceMap' = [nonceMap EXCEPT ![Signer[c]] = Nonce(Signer[c], main.looked) + 1]
          /\ txs' = Append(txs, [from |-> Signer[c], nonce |-> Nonce(Signer[c], main.looked),
                                 what |-> <<c, 0>>])
          /\ mined' = mined /\ lanes' = lanes /\ queue' = queue
      BY <1>3 DEF SendContract, ToBeSent, Send, TakeNonce, ByLoop, executor
    <3>2. nonceMap'[s] = nonceMap[s] /\ DOMAIN nonceMap' = DOMAIN nonceMap
      BY <1>2, <2>2, <3>1
    <3>3. /\ (\E S : txs \in Seq(S))' /\ From(s)' = From(s)
          /\ \A i \in From(s) : txs'[i] = txs[i]
      BY <1>2, <2>2, <3>1, OthersSend
    <3>4. Of(s)' = Of(s)
      BY <3>1 DEF Of
    <3>5. QED
      BY <1>0, <1>1, <1>2, <3>1, <3>2, <3>3, <3>4, LanesStay
  <2>3. QED
    BY <2>1, <2>2
<1>4. CASE ExecuteEvents \/ ContractReverts
  BY <1>4, HearsOfMined
<1>5. CASE UNCHANGED <<executor, chain>>
  BY <1>0, <1>1, <1>2, <1>5, NothingTaken DEF executor, chain
<1>6. ASSUME NEW c \in Contracts, ContractRefused(c) PROVE NonceInv(s)'
  <2>1. CASE Signer[c] = s
    BY <1>6, <2>1, LosesContract
  <2>2. CASE Signer[c] # s
    <3>1. /\ nonceMap' = [nonceMap EXCEPT ![Signer[c]] = Nonce(Signer[c], main.looked) + 1]
          /\ txs' = txs /\ mined' = mined /\ lanes' = lanes /\ queue' = queue
      BY <1>6 DEF ContractRefused, TakeNonce, ByLoop, executor
    <3>2. nonceMap'[s] = nonceMap[s] /\ DOMAIN nonceMap' = DOMAIN nonceMap
      BY <1>2, <2>2, <3>1
    <3>3. (\E S : txs \in Seq(S))' /\ From(s)' = From(s)
      <4>1. PICK S : txs \in Seq(S)
        BY <1>2
      <4>2. txs' \in Seq(S)
        BY <3>1, <4>1
      <4>3. QED
        BY <3>1, <4>2 DEF From
    <3>4. Of(s)' = Of(s)
      BY <3>1 DEF Of
    <3>5. QED
      BY <1>0, <1>1, <1>2, <3>1, <3>2, <3>3, <3>4, LanesStay
  <2>3. QED
    BY <2>1, <2>2
<1>7. QED
  BY <1>3, <1>4, <1>5, <1>6 DEF LoopStep, LookUpForContract, ToBeSent, ContractFails,
     RecordAddress, StoreAddress, SkipContract, EventsExecuted, NextBatch, ByLoop

(* A hook goes on without a call.                                          *)
LEMMA HookGoesOn ==
  ASSUME ParallelAssumption, NEW s \in Senders, NonceInv(s), NEW h \in Hooks,
         HookStep(h), ~Call(h)
  PROVE  NonceInv(s)'
<1>1. MainShape' /\ HooksGoOn /\ main' = main
  BY HookShape DEF NonceInv
<1>2. lanes' = lanes /\ queue' = queue /\ nonceMap' = nonceMap
      /\ mined' = mined /\ txs' = txs
  BY DEF HookStep, Leave, ComeBack, HookThrows, FinishEvent, StoreFinished, ReadForDep, StoreDep,
     HookEnds, ByHook, chain, executor
<1>3. DOMAIN mined = Senders /\ mined[s] \in Nat
  BY DEF NonceInv, Shape
<1>4. QED
  BY <1>1, <1>2, <1>3, NothingTaken

(* A call adds a lane for each sender, at the end of the queue.            *)
LEMMA CallAdds ==
  ASSUME ParallelAssumption, NEW s \in Senders, NonceInv(s), NEW h \in Hooks, Call(h)
  PROVE  NonceInv(s)'
<1> DEFINE i == hook[h].next
           r == Append(root, <<h, i>>)
           new == {<<h, i, t>> : t \in SendersIn(r)}
           n == <<h, i, s>>
<1>1. /\ hook[h].at \in {"run", "back"}
      /\ lanes' = [l \in DOMAIN lanes \cup new |-> IF l \in new THEN Lane(r, l[3]) ELSE lanes[l]]
      /\ queue' = [t \in Senders |->
                     IF t \in SendersIn(r) THEN Append(queue[t], <<h, i, t>>) ELSE queue[t]]
      /\ hook' = [hook EXCEPT ![h].at = "await"]
      /\ main' = main /\ nonceMap' = nonceMap /\ mined' = mined /\ txs' = txs
  BY DEF Call, Running, ByHook, chain
<1>2. /\ i \in Nat /\ DOMAIN hook = Hooks
      /\ \A g \in Hooks : IsHook(hook[g]) /\ hook[g].next \in Nat
  BY DEF NonceInv, MainShape
<1>3. /\ DOMAIN hook' = Hooks /\ \A g \in Hooks \ {h} : hook'[g] = hook[g]
      /\ IsHook(hook'[h]) /\ hook'[h].next = i /\ hook'[h].at = "await"
  <2>1. hook' = [hook EXCEPT ![h].at = "await"]
    BY <1>1
  <2>2. DOMAIN hook = Hooks /\ IsHook(hook[h]) /\ hook[h].next = i
    BY <1>2
  <2> HIDE DEF i
  <2>3. hook'[h] = [hook[h] EXCEPT !.at = "await"] /\ DOMAIN hook' = Hooks
        /\ \A g \in Hooks \ {h} : hook'[g] = hook[g]
    BY <2>1, <2>2
  <2>4. QED
    BY <2>2, <2>3 DEF IsHook
<1>4. \A l \in new : l = <<h, i, l[3]>> /\ (l[3] = s => l = n)
  OBVIOUS
<1>5. Of(s) \cap new = {}
  <2> SUFFICES ASSUME NEW l \in Of(s), l \in new PROVE FALSE
    OBVIOUS
  <2>1. l = n
    BY <1>4 DEF Of
  <2>2. l[1] = h /\ l[2] = i
    BY <2>1
  <2>3. l[2] < i
    BY <1>1, <2>2 DEF NonceInv, Fresh
  <2>4. QED
    BY <1>2, <2>2, <2>3
<1>6. n \in new <=> s \in SendersIn(r)
  OBVIOUS
<1> HIDE DEF i, r, n
<1>7. n = <<h, i, s>> /\ n[1] = h /\ n[2] = i /\ n[3] = s /\ n \in Names(s)
  BY <1>2 DEF n, Names
<1> HIDE DEF new
<1>8. /\ \A l \in Of(s) : lanes'[l] = lanes[l]
      /\ Of(s) \subseteq Of(s)' /\ Of(s)' \subseteq Of(s) \cup {n}
      /\ n \in Of(s)' => s \in SendersIn(r) \/ n \in Of(s)
  BY <1>1, <1>4, <1>5, <1>6, <1>7 DEF Of
<1>9. n \in Of(s)' /\ n \notin Of(s) =>
        IsLane(lanes'[n]) /\ lanes'[n].at = "queued" /\ lanes'[n].looked = Unknown
  <2>1. n \in Of(s)' /\ n \notin Of(s) => lanes'[n] = Lane(r, n[3])
    BY <1>1, <1>6, <1>7, <1>8 DEF Of
  <2>2. QED
    BY <2>1 DEF Lane, IsLane
<1>10. \/ queue'[s] = queue[s] \/ queue'[s] = Append(queue[s], n)
  BY <1>1, <1>7
<1>11. /\ queue[s] \in Seq(Names(s)) /\ queue'[s] \in Seq(Names(s))
       /\ queue[s] # <<>> => queue'[s] # <<>> /\ Head(queue'[s]) = Head(queue[s])
  <2>1. queue[s] \in Seq(Names(s))
    BY DEF NonceInv, Shape
  <2>2. CASE queue'[s] = Append(queue[s], n)
    <3>1. n \in Names(s)
      BY <1>7
    <3>2. /\ Append(queue[s], n) \in Seq(Names(s)) /\ Append(queue[s], n) # <<>>
          /\ queue[s] # <<>> => Head(Append(queue[s], n)) = Head(queue[s])
      BY <2>1, <3>1, Appended
    <3>3. QED
      BY <2>1, <2>2, <3>2
  <2>3. QED
    BY <1>10, <2>1, <2>2
<1>12. MainShape'
  BY HookShape DEF HookStep, NonceInv
<1>13. Shape(s)'
  <2>1. PICK S : txs \in Seq(S)
    BY DEF NonceInv, Shape
  <2>2. (\E T : txs \in Seq(T))'
    BY <1>1, <2>1
  <2>3. DOMAIN queue' = Senders
    BY <1>1
  <2>4. \A l \in Of(s)' : l \in Names(s) /\ IsLane(lanes'[l])
    BY <1>7, <1>8, <1>9 DEF NonceInv, Shape
  <2>5. QED
    BY <1>1, <1>11, <2>2, <2>3, <2>4 DEF NonceInv, Shape, Names
<1>14. Exclusive(s)'
  <2> SUFFICES ASSUME NEW l \in Of(s)', lanes'[l].at \notin {"queued", "store"} PROVE HasKey(l)'
    BY DEF Exclusive
  <2>1. l \in Of(s) /\ lanes'[l] = lanes[l]
    BY <1>8, <1>9
  <2>2. HasKey(l) /\ l[3] = s
    BY <2>1 DEF NonceInv, Exclusive, Of
  <2>3. QED
    BY <1>11, <2>2 DEF HasKey
<1>15. Fresh(s)'
  <2> SUFFICES ASSUME NEW l \in Of(s)'
               PROVE  /\ l[2] <= hook'[l[1]].next
                      /\ hook'[l[1]].at \in {"idle", "run", "away", "back"} =>
                           l[2] < hook'[l[1]].next
    BY DEF Fresh
  <2>1. CASE l \in Of(s)
    <3>1. l[1] \in Hooks
      BY <2>1 DEF NonceInv, Shape, Names
    <3>2. /\ l[2] <= hook[l[1]].next
          /\ hook[l[1]].at \in {"idle", "run", "away", "back"} => l[2] < hook[l[1]].next
      BY <2>1 DEF NonceInv, Fresh
    <3>3. CASE l[1] = h
      BY <1>3, <3>2, <3>3 DEF i
    <3>4. CASE l[1] # h
      BY <1>3, <3>1, <3>2, <3>4
    <3>5. QED
      BY <3>3, <3>4
  <2>2. CASE l = n
    BY <1>2, <1>3, <1>7, <2>2
  <2>3. QED
    BY <1>8, <2>1, <2>2
<1>16. LookedUp(s)'
  <2> SUFFICES ASSUME NEW l \in Of(s)'
               PROVE  /\ lanes'[l].at = "queued" => lanes'[l].looked = Unknown
                      /\ lanes'[l].at = "send" /\ lanes'[l].looked # Unknown =>
                           lanes'[l].looked = 0 /\ nonceMap'[s] = Unknown
                      /\ lanes'[l].at \in {"sent", "wait", "lost"} => nonceMap'[s] # Unknown
    BY DEF LookedUp
  <2>1. CASE l \in Of(s)
    BY <1>1, <1>8, <2>1 DEF NonceInv, LookedUp
  <2>2. CASE l \notin Of(s)
    BY <1>8, <1>9, <2>2
  <2>3. QED
    BY <2>1, <2>2
<1>17. (Lost(s) => Lost(s)') /\ From(s)' = From(s)
  BY <1>1, <1>8, <1>9 DEF Lost, Of, From
<1>18. Taken(s)'
  BY <1>1, <1>17 DEF NonceInv, Taken
<1>19. QED
  BY <1>12, <1>13, <1>14, <1>15, <1>16, <1>18 DEF NonceInv

(***************************************************************************)
(* Lanes.                                                                  *)
(***************************************************************************)
(* A lane of another sender.                                               *)
LEMMA OtherLane ==
  ASSUME ParallelAssumption, NEW s \in Senders, NonceInv(s), NEW l \in DOMAIN lanes,
         l[3] # s, LaneStep(l)
  PROVE  NonceInv(s)'
<1>1. MainShape' /\ HooksGoOn /\ main' = main
  BY LaneHooks DEF NonceInv
<1>2. DOMAIN queue = Senders /\ DOMAIN nonceMap = Senders /\ DOMAIN mined = Senders /\ s \in Senders
  BY DEF NonceInv, Shape
<1>3. Of(s)' = Of(s) /\ \A m \in Of(s) : lanes'[m] = lanes[m]
  <2>1. CASE Func(l)
    BY <2>1 DEF Func, Of
  <2>2. CASE LookUpForCall(l)
    BY <2>2 DEF LookUpForCall, Of
  <2>3. CASE SendCall(l)
    BY <2>3 DEF SendCall, Of
  <2>4. CASE StoreInput(l)
    BY <2>4 DEF StoreInput, Of
  <2>5. CASE LookUpFails(l) \/ CallFails(l) \/ CallReverts(l)
    BY <2>5 DEF LookUpFails, CallFails, CallReverts, Of
  <2>6. CASE Release(l)
    BY <2>6 DEF Release, Of
  <2>7. CASE Resolve(l)
    <3>1. CASE lanes' = [m \in DOMAIN lanes \ {l} |-> lanes[m]]
      BY <3>1 DEF Of
    <3>2. CASE lanes' # [m \in DOMAIN lanes \ {l} |-> lanes[m]]
      <4>1. \E t : lanes' = [lanes EXCEPT ![l].todo = t, ![l].at = "queued",
                               ![l].looked = Unknown, ![l].copy = NoCopy]
        BY <2>7, <3>2 DEF Resolve
      <4>2. QED
        BY <4>1 DEF Of
    <3>3. QED
      BY <3>1, <3>2
  <2>8. QED
    BY <2>1, <2>2, <2>3, <2>4, <2>5, <2>6, <2>7 DEF LaneStep
<1>4. DOMAIN queue' = DOMAIN queue /\ queue'[s] = queue[s]
  BY <1>2 DEF LaneStep, Func, LookUpForCall, SendCall, StoreInput, CallFails, LookUpFails,
     CallReverts, Breaks, Release, Resolve
<1>5. /\ DOMAIN nonceMap' = DOMAIN nonceMap /\ nonceMap'[s] = nonceMap[s]
      /\ DOMAIN mined' = DOMAIN mined /\ mined'[s] = mined[s] /\ mined[s] \in Nat
  BY <1>2 DEF NonceInv, Shape, LaneStep, Func, LookUpForCall, SendCall, StoreInput, CallFails,
     LookUpFails, CallReverts, Breaks, Release, Resolve, Send, TakeNonce, chain
<1>6. (\E S : txs \in Seq(S))' /\ From(s)' = From(s) /\ \A i \in From(s) : txs'[i] = txs[i]
  <2>1. CASE SendCall(l)
    <3>1. txs' = Append(txs, [from |-> l[3], nonce |-> Nonce(l[3], lanes[l].looked),
                              what |-> Entry(l)])
      BY <2>1 DEF SendCall, Send
    <3>2. \E S : txs \in Seq(S)
      BY DEF NonceInv, Shape
    <3>3. QED
      BY <3>1, <3>2, OthersSend
  <2>2. CASE txs' = txs
    <3>1. PICK S : txs \in Seq(S)
      BY DEF NonceInv, Shape
    <3>2. txs' \in Seq(S)
      BY <2>2, <3>1
    <3>3. QED
      BY <2>2, <3>2 DEF From
  <2>3. QED
    BY <2>1, <2>2 DEF LaneStep, Func, LookUpForCall, StoreInput, CallFails, LookUpFails,
       CallReverts, Breaks, Release, Resolve, chain
<1>7. QED
  BY <1>1, <1>3, <1>4, <1>5, <1>6, LanesStay

(* Who has the key is the only lane of the sender that is anywhere.        *)
LEMMA OneHasKey ==
  ASSUME NEW s, Exclusive(s), NEW l \in Of(s), HasKey(l), NEW m \in Of(s), m # l
  PROVE  lanes[m].at \in {"queued", "store"}
BY DEF Exclusive, HasKey, Of

(* A lane that has the key and keeps it.                                   *)
LEMMA KeyKept ==
  ASSUME NEW s, NonceInv(s), MainShape', HooksGoOn, NEW l \in Of(s), HasKey(l),
         main' = main, DOMAIN lanes' = DOMAIN lanes, \A m \in Of(s) \ {l} : lanes'[m] = lanes[m],
         IsLane(lanes'[l]), lanes'[l].at # "queued", queue' = queue,
         DOMAIN nonceMap' = DOMAIN nonceMap, DOMAIN mined' = DOMAIN mined,
         nonceMap'[s] \in Nat \cup {Unknown}, mined'[s] \in Nat, (\E S : txs \in Seq(S))',
         lanes'[l].at = "send" /\ lanes'[l].looked # Unknown =>
           lanes'[l].looked = 0 /\ nonceMap'[s] = Unknown,
         lanes'[l].at \in {"sent", "wait", "lost"} => nonceMap'[s] # Unknown,
         Taken(s)'
  PROVE  NonceInv(s)'
<1>1. Of(s)' = Of(s)
  BY DEF Of
<1>2. Shape(s)'
  BY <1>1 DEF NonceInv, Shape, Names
<1>3. Exclusive(s)'
  BY <1>1 DEF NonceInv, Exclusive, HasKey
<1>4. Fresh(s)'
  BY <1>1, FreshStays
<1>5. LookedUp(s)'
  <2> SUFFICES ASSUME NEW m \in Of(s)
               PROVE  /\ lanes'[m].at = "queued" => lanes'[m].looked = Unknown
                      /\ lanes'[m].at = "send" /\ lanes'[m].looked # Unknown =>
                           lanes'[m].looked = 0 /\ nonceMap'[s] = Unknown
                      /\ lanes'[m].at \in {"sent", "wait", "lost"} => nonceMap'[s] # Unknown
    BY <1>1 DEF LookedUp
  <2>1. CASE m # l
    <3>1. lanes[m].at \in {"queued", "store"}
      BY <2>1, OneHasKey DEF NonceInv
    <3>2. QED
      BY <2>1, <3>1 DEF NonceInv, LookedUp
  <2>2. CASE m = l
    BY <2>2
  <2>3. QED
    BY <2>1, <2>2
<1>6. QED
  BY <1>2, <1>3, <1>4, <1>5 DEF NonceInv

(* A step that changes neither the nonces nor what was sent.               *)
LEMMA TakenStays ==
  ASSUME NEW s, NonceInv(s), nonceMap' = nonceMap, txs' = txs,
         mined'[s] = mined[s] \/ nonceMap[s] # Unknown,
         Lost(s) => Lost(s)'
  PROVE  Taken(s)' /\ (\E S : txs \in Seq(S))'
<1>1. PICK S : txs \in Seq(S)
  BY DEF NonceInv, Shape
<1>2. txs' \in Seq(S)
  BY <1>1
<1>3. From(s)' = From(s)
  BY DEF From
<1>4. QED
  BY <1>2, <1>3 DEF NonceInv, Taken

(* A lane of the sender that turns to its call, looks the nonce up, or     *)
(* stores its input.                                                       *)
LEMMA LaneGoesOn ==
  ASSUME ParallelAssumption, NEW s \in Senders, NonceInv(s), NEW l \in Of(s),
         Func(l) \/ LookUpForCall(l) \/ StoreInput(l)
  PROVE  NonceInv(s)'
<1>1. MainShape' /\ HooksGoOn /\ main' = main
  BY LaneHooks DEF NonceInv, LaneStep, Of
<1>2. l \in DOMAIN lanes /\ l[3] = s /\ IsLane(lanes[l])
  BY DEF Of, NonceInv, Shape
<1>3. nonceMap' = nonceMap /\ mined' = mined /\ txs' = txs /\ queue' = queue
  BY DEF Func, LookUpForCall, StoreInput, chain
<1>4. /\ DOMAIN nonceMap' = DOMAIN nonceMap /\ DOMAIN mined' = DOMAIN mined
      /\ nonceMap'[s] \in Nat \cup {Unknown} /\ mined'[s] \in Nat
  BY <1>3 DEF NonceInv, Shape
<1>5. /\ HasKey(l) /\ DOMAIN lanes' = DOMAIN lanes
      /\ \A m \in DOMAIN lanes \ {l} : lanes'[m] = lanes[m]
      /\ IsLane(lanes'[l]) /\ lanes'[l].at \in {"send", "answered", "wait"}
      /\ lanes[l].at # "lost"
      /\ lanes'[l].at = "send" /\ lanes'[l].looked # Unknown =>
           lanes'[l].looked = 0 /\ nonceMap'[s] = Unknown
      /\ lanes'[l].at = "wait" => nonceMap'[s] # Unknown
  <2>1. CASE Func(l)
    <3> DEFINE a == IF file.log[l[1]][To(l)] > progress[To(l)] THEN "answered" ELSE "send"
               i == progress[To(l)]
    <3>1. /\ lanes[l].at = "queued" /\ HasKey(l)
          /\ lanes' = [lanes EXCEPT ![l].at = a, ![l].iterator = i]
      BY <2>1 DEF Func
    <3>2. a \in {"answered", "send"} /\ lanes[l].looked = Unknown
      BY <3>1 DEF NonceInv, LookedUp
    <3> HIDE DEF a, i
    <3>3. /\ DOMAIN lanes' = DOMAIN lanes /\ \A m \in DOMAIN lanes \ {l} : lanes'[m] = lanes[m]
          /\ lanes'[l] = [lanes[l] EXCEPT !.at = a, !.iterator = i]
      BY <1>2, <3>1
    <3>4. IsLane(lanes'[l]) /\ lanes'[l].at = a /\ lanes'[l].looked = lanes[l].looked
      BY <1>2, <3>3 DEF IsLane
    <3>5. QED
      BY <3>1, <3>2, <3>3, <3>4
  <2>2. CASE LookUpForCall(l)
    <3>1. /\ lanes[l].at = "send" /\ nonceMap[s] = Unknown
          /\ lanes' = [lanes EXCEPT ![l].looked = mined[s]]
      BY <1>2, <2>2 DEF LookUpForCall, MustLookUp
    <3>2. mined[s] = 0 /\ HasKey(l)
      BY <3>1 DEF NonceInv, Taken, Exclusive
    <3>3. /\ DOMAIN lanes' = DOMAIN lanes /\ \A m \in DOMAIN lanes \ {l} : lanes'[m] = lanes[m]
          /\ lanes'[l] = [lanes[l] EXCEPT !.looked = mined[s]]
      BY <1>2, <3>1
    <3>4. IsLane(lanes'[l]) /\ lanes'[l].at = "send" /\ lanes'[l].looked = 0
      BY <1>2, <3>1, <3>2, <3>3 DEF IsLane
    <3>5. QED
      BY <1>3, <3>1, <3>2, <3>3, <3>4
  <2>3. CASE StoreInput(l)
    <3>1. /\ lanes[l].at = "sent" /\ lanes' = [lanes EXCEPT ![l].at = "wait", ![l].copy = NoCopy]
      BY <2>3 DEF StoreInput
    <3>2. nonceMap[s] # Unknown /\ HasKey(l)
      BY <3>1 DEF NonceInv, LookedUp, Exclusive
    <3>3. /\ DOMAIN lanes' = DOMAIN lanes /\ \A m \in DOMAIN lanes \ {l} : lanes'[m] = lanes[m]
          /\ lanes'[l] = [lanes[l] EXCEPT !.at = "wait", !.copy = NoCopy]
      BY <1>2, <3>1
    <3>4. IsLane(lanes'[l]) /\ lanes'[l].at = "wait"
      BY <1>2, <3>3 DEF IsLane
    <3>5. QED
      BY <1>3, <3>1, <3>2, <3>3, <3>4
  <2>4. QED
    BY <2>1, <2>2, <2>3
<1>6. Lost(s) => Lost(s)'
  BY <1>1, <1>5 DEF Lost
<1>7. Taken(s)' /\ (\E S : txs \in Seq(S))'
  BY <1>3, <1>6, TakenStays
<1>8. \A m \in Of(s) \ {l} : lanes'[m] = lanes[m]
  BY <1>5 DEF Of
<1>9. lanes'[l].at # "queued" /\ lanes'[l].at \notin {"sent", "lost"}
  BY <1>5
<1>10. QED
  BY <1>1, <1>3, <1>4, <1>5, <1>7, <1>8, <1>9, KeyKept

(* A lane of the sender sends its call, or loses the nonce it took.        *)
LEMMA LaneTakesNonce ==
  ASSUME ParallelAssumption, NEW s \in Senders, NonceInv(s), NEW l \in Of(s),
         SendCall(l) \/ CallFails(l)
  PROVE  NonceInv(s)'
<1> DEFINE n == Nonce(s, lanes[l].looked)
<1>1. MainShape' /\ HooksGoOn /\ main' = main
  BY LaneHooks DEF NonceInv, LaneStep, Of
<1>2. l \in DOMAIN lanes /\ l[3] = s /\ IsLane(lanes[l])
  BY DEF Of, NonceInv, Shape
<1>3. /\ lanes[l].at = "send" /\ ~MustLookUp(s, lanes[l].looked)
      /\ nonceMap' = [nonceMap EXCEPT ![s] = n + 1] /\ mined' = mined /\ queue' = queue
  BY <1>2 DEF SendCall, CallFails, Breaks, Send, TakeNonce
<1>4. HasKey(l)
  BY <1>3 DEF NonceInv, Exclusive
<1>5. /\ n \in Nat /\ \A i \in From(s) : txs[i].nonce < n
      /\ Lost(s) \/ /\ {txs[i].nonce : i \in From(s)} = 0 .. n - 1
                    /\ Cardinality(From(s)) = n
  <2>1. Shape(s) /\ Taken(s) /\ LookedUp(s)
    BY DEF NonceInv
  <2>2. lanes[l].looked # Unknown => lanes[l].looked = 0 /\ nonceMap[s] = Unknown
    BY <1>3, <2>1 DEF LookedUp
  <2>3. QED
    BY <1>3, <2>1, <2>2, NextNonce
<1> HIDE DEF n
<1>6. /\ DOMAIN nonceMap' = DOMAIN nonceMap /\ DOMAIN mined' = DOMAIN mined
      /\ nonceMap'[s] = n + 1 /\ mined'[s] = mined[s] /\ mined[s] \in Nat
  BY <1>3 DEF NonceInv, Shape
<1>7. n + 1 \in Nat /\ n + 1 # Unknown /\ n < n + 1
  BY <1>5 DEF Unknown
<1>8. IsFiniteSet(From(s)) /\ \A i, j \in From(s) : i # j => txs[i].nonce # txs[j].nonce
  BY DEF NonceInv, Taken
<1>9. \A i \in From(s) : txs[i].nonce \in Nat
  BY DEF NonceInv, Taken
<1>10. CASE SendCall(l)
  <2>1. /\ txs' = Append(txs, [from |-> s, nonce |-> n, what |-> Entry(l)])
        /\ lanes' = [lanes EXCEPT ![l].at = "sent", ![l].copy = <<file>>]
    BY <1>2, <1>10 DEF SendCall, Send, n
  <2>2. /\ DOMAIN lanes' = DOMAIN lanes /\ \A m \in DOMAIN lanes \ {l} : lanes'[m] = lanes[m]
        /\ lanes'[l] = [lanes[l] EXCEPT !.at = "sent", !.copy = <<file>>]
    BY <1>2, <2>1
  <2>3. IsLane(lanes'[l]) /\ lanes'[l].at = "sent"
    BY <1>2, <2>2 DEF IsLane
  <2>4. Lost(s) => Lost(s)'
    BY <1>1, <1>3, <2>2 DEF Lost
  <2>5. Shape(s) /\ Taken(s) /\ \E S : txs \in Seq(S)
    BY DEF NonceInv, Shape
  <2>6. Taken(s)' /\ (\E S : txs \in Seq(S))'
    <3>1. /\ (\E S : txs \in Seq(S))' /\ From(s)' = From(s) \cup {Len(txs) + 1}
          /\ Len(txs) + 1 \notin From(s) /\ txs'[Len(txs) + 1].nonce = n
          /\ \A i \in From(s) : txs'[i] = txs[i]
      BY <2>1, <2>5, OwnSends
    <3>2. QED
      BY <1>5, <1>6, <2>4, <2>5, <3>1, SendsNext
  <2>7. \A m \in Of(s) \ {l} : lanes'[m] = lanes[m]
    BY <2>2 DEF Of
  <2>8. QED
    BY <1>1, <1>3, <1>4, <1>6, <1>7, <2>2, <2>3, <2>6, <2>7, KeyKept
<1>11. CASE CallFails(l)
  <2>1. lanes' = [lanes EXCEPT ![l].at = "lost"] /\ txs' = txs
    BY <1>11 DEF CallFails, Breaks
  <2>2. /\ DOMAIN lanes' = DOMAIN lanes /\ \A m \in DOMAIN lanes \ {l} : lanes'[m] = lanes[m]
        /\ lanes'[l] = [lanes[l] EXCEPT !.at = "lost"]
    BY <1>2, <2>1
  <2>3. IsLane(lanes'[l]) /\ lanes'[l].at = "lost"
    BY <1>2, <2>2 DEF IsLane
  <2>4. Lost(s)'
    BY <1>2, <2>2, <2>3 DEF Lost
  <2>5. From(s)' = From(s) /\ (\E S : txs \in Seq(S))'
    <3>1. PICK S : txs \in Seq(S)
      BY DEF NonceInv, Shape
    <3>2. txs' \in Seq(S)
      BY <2>1, <3>1
    <3>3. QED
      BY <2>1, <3>2 DEF From
  <2>6. \A i \in From(s) : txs[i].nonce < n + 1
    BY <1>5, <1>9
  <2>7. Taken(s)'
    BY <1>6, <1>7, <1>8, <1>9, <2>1, <2>4, <2>5, <2>6 DEF Taken
  <2>8. \A m \in Of(s) \ {l} : lanes'[m] = lanes[m]
    BY <2>2 DEF Of
  <2>9. QED
    BY <1>1, <1>3, <1>4, <1>6, <1>7, <2>2, <2>3, <2>5, <2>7, <2>8, KeyKept
<1>12. QED
  BY <1>10, <1>11

(* A look-up of a lane fails, or what it sent is reverted: no nonce is     *)
(* taken, and the key is kept.                                             *)
LEMMA LaneBreaks ==
  ASSUME ParallelAssumption, NEW s \in Senders, NonceInv(s), NEW l \in Of(s),
         LookUpFails(l) \/ CallReverts(l)
  PROVE  NonceInv(s)'
<1>1. MainShape' /\ HooksGoOn /\ main' = main
  BY LaneHooks DEF NonceInv, LaneStep, Of
<1>2. l \in DOMAIN lanes /\ l[3] = s /\ IsLane(lanes[l])
  BY DEF Of, NonceInv, Shape
<1>3. /\ lanes[l].at \in {"send", "wait"} /\ nonceMap' = nonceMap /\ queue' = queue /\ txs' = txs
      /\ lanes' = [lanes EXCEPT ![l].at = "failed"]
      /\ mined' = mined \/ (lanes[l].at = "wait" /\ mined' = [mined EXCEPT ![s] = @ + 1])
  BY <1>2 DEF LookUpFails, CallReverts, Breaks
<1>4. HasKey(l)
  BY <1>3 DEF NonceInv, Exclusive
<1>5. /\ DOMAIN lanes' = DOMAIN lanes /\ \A m \in DOMAIN lanes \ {l} : lanes'[m] = lanes[m]
      /\ lanes'[l] = [lanes[l] EXCEPT !.at = "failed"]
  BY <1>2, <1>3
<1>6. IsLane(lanes'[l]) /\ lanes'[l].at = "failed"
  BY <1>2, <1>5 DEF IsLane
<1>7. Lost(s) => Lost(s)'
  BY <1>1, <1>3, <1>5 DEF Lost
<1>8. /\ DOMAIN mined' = DOMAIN mined /\ mined'[s] \in Nat
      /\ mined'[s] = mined[s] \/ nonceMap[s] # Unknown
  <2>1. DOMAIN mined = Senders /\ mined[s] \in Nat
    BY DEF NonceInv, Shape
  <2>2. lanes[l].at = "wait" => nonceMap[s] # Unknown
    BY DEF NonceInv, LookedUp
  <2>3. QED
    BY <1>3, <2>1, <2>2
<1>9. Taken(s)' /\ (\E S : txs \in Seq(S))'
  BY <1>3, <1>7, <1>8, TakenStays
<1>10. \A m \in Of(s) \ {l} : lanes'[m] = lanes[m]
  BY <1>5 DEF Of
<1>11. DOMAIN nonceMap' = DOMAIN nonceMap /\ nonceMap'[s] \in Nat \cup {Unknown}
  BY <1>3 DEF NonceInv, Shape
<1>12. lanes'[l].at \notin {"queued", "send", "sent", "wait", "lost"}
  BY <1>6
<1>13. QED
  BY <1>1, <1>3, <1>4, <1>5, <1>6, <1>8, <1>9, <1>10, <1>11, <1>12, KeyKept

(* The key of the sender is given back: no lane is anywhere.               *)
LEMMA LaneReleases ==
  ASSUME ParallelAssumption, NEW s \in Senders, NonceInv(s), NEW l \in Of(s), Release(l)
  PROVE  NonceInv(s)'
<1>1. MainShape' /\ HooksGoOn /\ main' = main
  BY LaneHooks DEF NonceInv, LaneStep, Of
<1>2. l \in DOMAIN lanes /\ l[3] = s /\ IsLane(lanes[l])
  BY DEF Of, NonceInv, Shape
<1>3. /\ lanes[l].at \in {"answered", "wait"}
      /\ mined' = IF lanes[l].at = "wait" THEN [mined EXCEPT ![s] = @ + 1] ELSE mined
      /\ queue' = [queue EXCEPT ![s] = Tail(@)]
      /\ lanes' = [lanes EXCEPT ![l].at = "store", ![l].copy = <<file>>]
      /\ nonceMap' = nonceMap /\ txs' = txs
  BY <1>2 DEF Release
<1>4. HasKey(l)
  BY <1>3 DEF NonceInv, Exclusive
<1>5. DOMAIN queue = Senders /\ DOMAIN mined = Senders /\ s \in Senders /\ mined[s] \in Nat
      /\ queue[s] \in Seq(Names(s))
  BY DEF NonceInv, Shape
<1>6. /\ DOMAIN mined' = Senders /\ mined'[s] \in Nat
      /\ mined'[s] = mined[s] \/ nonceMap[s] # Unknown
  <2>1. CASE lanes[l].at = "wait"
    <3>1. nonceMap[s] # Unknown
      BY <2>1 DEF NonceInv, LookedUp
    <3>2. mined' = [mined EXCEPT ![s] = @ + 1]
      BY <1>3, <2>1
    <3>3. QED
      BY <1>5, <3>1, <3>2
  <2>2. CASE lanes[l].at # "wait"
    BY <1>3, <1>5, <2>2
  <2>3. QED
    BY <2>1, <2>2
<1>7. DOMAIN queue' = Senders /\ queue'[s] \in Seq(Names(s))
  <2>1. queue'[s] = Tail(queue[s]) /\ DOMAIN queue' = Senders
    BY <1>3, <1>5
  <2>2. queue[s] # <<>>
    BY <1>2, <1>4 DEF HasKey
  <2>3. QED
    BY <1>5, <2>1, <2>2
<1>8. /\ DOMAIN lanes' = DOMAIN lanes /\ \A m \in DOMAIN lanes \ {l} : lanes'[m] = lanes[m]
      /\ lanes'[l] = [lanes[l] EXCEPT !.at = "store", !.copy = <<file>>]
  BY <1>2, <1>3
<1>9. IsLane(lanes'[l]) /\ lanes'[l].at = "store"
  BY <1>2, <1>8 DEF IsLane
<1>10. Of(s)' = Of(s)
  BY <1>8 DEF Of
<1>11. \A m \in Of(s) : /\ lanes'[m].at \in {"queued", "store"} /\ IsLane(lanes'[m])
                        /\ lanes'[m].at = "queued" => lanes'[m].looked = Unknown
  <2> SUFFICES ASSUME NEW m \in Of(s)
               PROVE  /\ lanes'[m].at \in {"queued", "store"} /\ IsLane(lanes'[m])
                      /\ lanes'[m].at = "queued" => lanes'[m].looked = Unknown
    OBVIOUS
  <2>1. CASE m # l
    <3>1. lanes[m].at \in {"queued", "store"} /\ m \in DOMAIN lanes
      BY <1>4, <2>1, OneHasKey DEF NonceInv, Of
    <3>2. QED
      BY <1>8, <2>1, <3>1 DEF NonceInv, Shape, LookedUp
  <2>2. CASE m = l
    BY <1>9, <2>2
  <2>3. QED
    BY <2>1, <2>2
<1>12. Taken(s)' /\ (\E S : txs \in Seq(S))'
  <2>1. Lost(s) => Lost(s)'
    BY <1>1, <1>3, <1>8 DEF Lost
  <2>2. QED
    BY <1>3, <1>6, <2>1, TakenStays
<1>13. Shape(s)'
  BY <1>3, <1>5, <1>6, <1>7, <1>10, <1>11, <1>12 DEF NonceInv, Shape, Names
<1>14. Exclusive(s)' /\ LookedUp(s)'
  BY <1>10, <1>11 DEF Exclusive, LookedUp
<1>15. Fresh(s)'
  BY <1>1, <1>10, FreshStays
<1>16. QED
  BY <1>1, <1>12, <1>13, <1>14, <1>15 DEF NonceInv

(* A lane ends, or waits for the key again.                                *)
LEMMA LaneResolves ==
  ASSUME ParallelAssumption, NEW s \in Senders, NonceInv(s), NEW l \in Of(s), Resolve(l)
  PROVE  NonceInv(s)'
<1>1. MainShape' /\ HooksGoOn /\ main' = main
  BY LaneHooks DEF NonceInv, LaneStep, Of
<1>2. l \in DOMAIN lanes /\ l[3] = s /\ IsLane(lanes[l]) /\ l \in Names(s)
  BY DEF Of, NonceInv, Shape
<1>3. /\ lanes[l].at = "store"
      /\ nonceMap' = nonceMap /\ mined' = mined /\ txs' = txs
      /\ \/ lanes' = [m \in DOMAIN lanes \ {l} |-> lanes[m]] /\ queue' = queue
         \/ /\ \E t : lanes' = [lanes EXCEPT ![l].todo = t, ![l].at = "queued",
                                  ![l].looked = Unknown, ![l].copy = NoCopy]
            /\ queue' = [queue EXCEPT ![s] = Append(@, l)]
  BY <1>2 DEF Resolve, chain
<1>4. DOMAIN queue = Senders /\ s \in Senders /\ queue[s] \in Seq(Names(s))
  BY DEF NonceInv, Shape
<1>5. /\ DOMAIN queue' = Senders /\ queue'[s] \in Seq(Names(s))
      /\ queue[s] # <<>> => queue'[s] # <<>> /\ Head(queue'[s]) = Head(queue[s])
  <2>1. CASE queue' = queue
    BY <1>4, <2>1
  <2>2. CASE queue' = [queue EXCEPT ![s] = Append(@, l)]
    <3>1. queue'[s] = Append(queue[s], l) /\ DOMAIN queue' = Senders
      BY <1>4, <2>2
    <3>2. /\ Append(queue[s], l) \in Seq(Names(s)) /\ Append(queue[s], l) # <<>>
          /\ queue[s] # <<>> => Head(Append(queue[s], l)) = Head(queue[s])
      <4>1. l \in Names(s) /\ queue[s] \in Seq(Names(s))
        BY <1>2, <1>4
      <4>2. QED
        BY <4>1, Appended
    <3>3. QED
      BY <3>1, <3>2
  <2>3. QED
    BY <1>3, <2>1, <2>2
<1>6. /\ Of(s)' \subseteq Of(s)
      /\ \A m \in Of(s)' \ {l} : lanes'[m] = lanes[m]
      /\ \A m \in Of(s) \ {l} : m \in DOMAIN lanes' /\ lanes'[m] = lanes[m]
      /\ l \in Of(s)' =>
           IsLane(lanes'[l]) /\ lanes'[l].at = "queued" /\ lanes'[l].looked = Unknown
  <2>1. CASE lanes' = [m \in DOMAIN lanes \ {l} |-> lanes[m]]
    BY <2>1 DEF Of
  <2>2. CASE \E t : lanes' = [lanes EXCEPT ![l].todo = t, ![l].at = "queued",
                                ![l].looked = Unknown, ![l].copy = NoCopy]
    <3>1. PICK t : lanes' = [lanes EXCEPT ![l].todo = t, ![l].at = "queued",
                               ![l].looked = Unknown, ![l].copy = NoCopy]
      BY <2>2
    <3>2. /\ DOMAIN lanes' = DOMAIN lanes /\ \A m \in DOMAIN lanes \ {l} : lanes'[m] = lanes[m]
          /\ lanes'[l] = [lanes[l] EXCEPT !.todo = t, !.at = "queued",
                            !.looked = Unknown, !.copy = NoCopy]
      BY <1>2, <3>1
    <3>3. IsLane(lanes'[l]) /\ lanes'[l].at = "queued" /\ lanes'[l].looked = Unknown
      BY <1>2, <3>2 DEF IsLane
    <3>4. QED
      BY <3>2, <3>3 DEF Of
  <2>3. QED
    BY <1>3, <2>1, <2>2
<1>7. Taken(s)' /\ (\E S : txs \in Seq(S))'
  <2>1. Lost(s) => Lost(s)'
    <3> SUFFICES ASSUME NEW m \in DOMAIN lanes, m[3] = s, lanes[m].at = "lost" PROVE Lost(s)'
      BY <1>1 DEF Lost
    <3>1. m \in Of(s) \ {l}
      BY <1>3 DEF Of
    <3>2. QED
      BY <1>6, <3>1 DEF Lost
  <2>2. QED
    BY <1>3, <2>1, TakenStays
<1>8. Shape(s)'
  <2>1. \A m \in Of(s)' : m \in Names(s) /\ IsLane(lanes'[m])
    BY <1>6 DEF NonceInv, Shape
  <2>2. QED
    BY <1>3, <1>5, <1>7, <2>1 DEF NonceInv, Shape, Names
<1>9. Exclusive(s)'
  <2> SUFFICES ASSUME NEW m \in Of(s)', lanes'[m].at \notin {"queued", "store"} PROVE HasKey(m)'
    BY DEF Exclusive
  <2>1. m \in Of(s) /\ m # l /\ lanes'[m] = lanes[m]
    BY <1>6
  <2>2. HasKey(m) /\ m[3] = s
    BY <2>1 DEF NonceInv, Exclusive, Of
  <2>3. QED
    BY <1>5, <2>2 DEF HasKey
<1>10. Fresh(s)'
  BY <1>1, <1>6, FreshStays
<1>11. LookedUp(s)'
  <2> SUFFICES ASSUME NEW m \in Of(s)'
               PROVE  /\ lanes'[m].at = "queued" => lanes'[m].looked = Unknown
                      /\ lanes'[m].at = "send" /\ lanes'[m].looked # Unknown =>
                           lanes'[m].looked = 0 /\ nonceMap'[s] = Unknown
                      /\ lanes'[m].at \in {"sent", "wait", "lost"} => nonceMap'[s] # Unknown
    BY DEF LookedUp
  <2>1. CASE m = l
    BY <1>6, <2>1
  <2>2. CASE m # l
    <3>1. m \in Of(s) /\ lanes'[m] = lanes[m] /\ nonceMap'[s] = nonceMap[s]
      BY <1>3, <1>6, <2>2
    <3>2. QED
      BY <3>1 DEF NonceInv, LookedUp
  <2>3. QED
    BY <2>1, <2>2
<1>12. QED
  BY <1>1, <1>7, <1>8, <1>9, <1>10, <1>11 DEF NonceInv

(***************************************************************************)
(* Every step.                                                             *)
(***************************************************************************)
(* The nonces of a sender are taken by the loop and by his lanes.          *)
LEMMA StepNonce ==
  ASSUME ParallelAssumption, NEW s \in Senders, NonceInv(s), Apart(s), [Next]_vars
  PROVE  NonceInv(s)'
<1>1. CASE LoopStep
  BY <1>1, LoopKeeps
<1>2. ASSUME NEW h \in Hooks, HookStep(h) PROVE NonceInv(s)'
  BY <1>2, HookGoesOn, CallAdds
<1>3. ASSUME NEW l \in DOMAIN lanes, LaneStep(l), l[3] # s PROVE NonceInv(s)'
  BY <1>3, OtherLane
<1>4. ASSUME NEW l \in DOMAIN lanes, LaneStep(l), l[3] = s PROVE NonceInv(s)'
  <2>1. l \in Of(s)
    BY <1>4 DEF Of
  <2>2. QED
    BY <1>4, <2>1, LaneGoesOn, LaneTakesNonce, LaneBreaks, LaneReleases, LaneResolves
       DEF LaneStep
<1>5. CASE UNCHANGED vars
  <2>1. lanes' = lanes /\ queue' = queue /\ nonceMap' = nonceMap /\ txs' = txs /\ mined' = mined
    BY <1>5 DEF vars, executor, chain
  <2>2. MainShape' /\ HooksGoOn /\ main' = main
    BY <1>5, StepShape DEF NonceInv, vars
  <2>3. DOMAIN mined = Senders /\ mined[s] \in Nat
    BY DEF NonceInv, Shape
  <2>4. QED
    BY <2>1, <2>2, <2>3, NothingTaken
<1>6. QED
  BY <1>1, <1>2, <1>3, <1>4, <1>5 DEF Next

(***************************************************************************)
(* Senders who sign contracts.                                             *)
(***************************************************************************)
(* A nonce is taken for a contract of the sender or by a lane of his; once *)
(* it is in the map it stays there.                                        *)
LEMMA WhoTakes ==
  ASSUME ParallelAssumption, NEW s \in Senders, NonceInv(s), Apart(s), [Next]_vars
  PROVE  /\ \/ nonceMap'[s] = nonceMap[s]
            \/ \E c \in Contracts : (SendContract(c) \/ ContractRefused(c)) /\ Signer[c] = s
            \/ Of(s) # {} /\ main' = main
         /\ nonceMap[s] # Unknown => nonceMap'[s] # Unknown
<1>1. DOMAIN nonceMap = Senders /\ Shape(s) /\ Taken(s) /\ LookedUp(s)
  BY DEF NonceInv, Shape
<1>2. ASSUME NEW c \in Contracts, SendContract(c) \/ ContractRefused(c)
      PROVE  /\ nonceMap'[s] = nonceMap[s] \/ Signer[c] = s
             /\ nonceMap[s] # Unknown => nonceMap'[s] # Unknown
  <2>1. CASE Signer[c] = s
    BY <1>2, <2>1, SendsContract, LosesContract
  <2>2. CASE Signer[c] # s
    BY <1>1, <1>2, <2>2 DEF SendContract, ContractRefused, Send, TakeNonce
  <2>3. QED
    BY <2>1, <2>2
<1>3. ASSUME NEW l \in DOMAIN lanes, SendCall(l) \/ CallFails(l)
      PROVE  /\ nonceMap'[s] = nonceMap[s] \/ (Of(s) # {} /\ main' = main)
             /\ nonceMap[s] # Unknown => nonceMap'[s] # Unknown
  <2> DEFINE n == Nonce(l[3], lanes[l].looked)
  <2>1. /\ lanes[l].at = "send" /\ ~MustLookUp(l[3], lanes[l].looked) /\ main' = main
        /\ nonceMap' = [nonceMap EXCEPT ![l[3]] = n + 1]
    BY <1>3 DEF SendCall, CallFails, Breaks, Send, TakeNonce, ByLane
  <2>2. CASE l[3] # s
    BY <1>1, <2>1, <2>2
  <2>3. CASE l[3] = s
    <3>1. l \in Of(s)
      BY <2>3 DEF Of
    <3>2. lanes[l].looked # Unknown => lanes[l].looked = 0 /\ nonceMap[s] = Unknown
      BY <1>1, <2>1, <3>1 DEF LookedUp
    <3>3. n \in Nat
      BY <1>1, <2>1, <2>3, <3>2, NextNonce
    <3> HIDE DEF n
    <3>4. nonceMap'[s] = n + 1 /\ n + 1 # Unknown
      BY <1>1, <2>1, <2>3, <3>3 DEF Unknown
    <3>5. QED
      BY <2>1, <3>1, <3>4
  <2>4. QED
    BY <2>2, <2>3
<1>4. \/ nonceMap' = nonceMap \/ (\E c \in Contracts : SendContract(c) \/ ContractRefused(c))
      \/ \E l \in DOMAIN lanes : SendCall(l) \/ CallFails(l)
  <2>1. CASE LoopStep
    BY <2>1 DEF LoopStep, LookUpForContract, ToBeSent, ContractFails,
       ContractReverts, RecordAddress, StoreAddress, SkipContract, ExecuteEvents, EventsExecuted,
       NextBatch, chain
  <2>2. ASSUME NEW h \in Hooks, HookStep(h) PROVE nonceMap' = nonceMap
    BY <2>2 DEF HookStep, Leave, ComeBack, HookThrows, Call, FinishEvent, StoreFinished, ReadForDep,
       StoreDep, HookEnds, ByHook, chain
  <2>3. ASSUME NEW l \in DOMAIN lanes, LaneStep(l)
        PROVE  nonceMap' = nonceMap \/ SendCall(l) \/ CallFails(l)
    BY <2>3 DEF LaneStep, Func, LookUpForCall, StoreInput, LookUpFails, CallReverts, Release,
       Resolve, chain
  <2>4. CASE UNCHANGED vars
    BY <2>4 DEF vars, chain
  <2>5. QED
    BY <2>1, <2>2, <2>3, <2>4 DEF Next
<1>5. QED
  BY <1>2, <1>3, <1>4

(* A lookup for a contract that was answered finds the map as it was.      *)
LEMMA LoopLooksUp ==
  ASSUME ParallelAssumption, NEW s \in Senders, NonceInv(s), Placed, Apart(s), [Next]_vars,
         main'.at = "send", main'.looked # Unknown, Signer[Head(main'.left)] = s
  PROVE  main'.looked = 0 /\ nonceMap'[s] = Unknown
<1>1. IsMain(main) /\ main.left \in Seq(Contracts)
  BY DEF NonceInv, MainShape
<1>2. ASSUME NEW c \in Contracts, LookUpForContract(c)
      PROVE  main'.looked = 0 /\ nonceMap'[s] = Unknown
  <2>1. /\ main' = [main EXCEPT !.looked = mined[Signer[c]]] /\ Head(main.left) = c
        /\ nonceMap[Signer[c]] = Unknown /\ nonceMap' = nonceMap
    BY <1>2 DEF LookUpForContract, ToBeSent, Sending, MustLookUp, chain
  <2>2. main'.left = main.left /\ main'.looked = mined[Signer[c]]
    BY <1>1, <2>1 DEF IsMain
  <2>3. Signer[c] = s /\ mined[s] = 0
    BY <2>1, <2>2 DEF NonceInv, Taken
  <2>4. QED
    BY <2>1, <2>2, <2>3
<1>3. ASSUME LoopStep PROVE \E c \in Contracts : LookUpForContract(c)
  <2>1. ASSUME NEW c \in Contracts, SendContract(c) PROVE FALSE
    <3>1. main' = [main EXCEPT !.left = Tail(@), !.sent = Append(@, c), !.looked = Unknown]
      BY <2>1 DEF SendContract, ToBeSent
    <3>2. main'.looked = Unknown
      BY <1>1, <3>1 DEF IsMain
    <3>3. QED
      BY <3>2
  <2>2. ASSUME SkipContract PROVE FALSE
    <3>1. /\ main' = [main EXCEPT !.left = Tail(@)]
          /\ main.at = "send" /\ Skips(Head(main.left))
      BY <2>2 DEF SkipContract
    <3>2. main.looked = Unknown /\ main'.looked = main.looked
      BY <1>1, <3>1 DEF IsMain, Placed
    <3>3. QED
      BY <3>2
  <2>3. ASSUME ContractReverts \/ \E c \in Contracts : ContractFails(c) \/ ContractRefused(c)
        PROVE  FALSE
    <3>1. main'.at \in {"threw", "refused"}
      BY <1>1, <2>3 DEF ContractFails, ContractRefused, ContractReverts, IsMain
    <3>2. QED
      BY <3>1
  <2>4. ASSUME NEW c \in Contracts, RecordAddress(c) \/ StoreAddress(c) PROVE FALSE
    <3>1. main'.at = "record"
      BY <1>1, <2>4 DEF RecordAddress, StoreAddress, IsMain
    <3>2. QED
      BY <3>1
  <2>5. ASSUME ExecuteEvents \/ EventsExecuted PROVE FALSE
    <3>1. main'.at \in {"hooks", "record"}
      BY <1>1, <2>5 DEF ExecuteEvents, EventsExecuted, IsMain
    <3>2. QED
      BY <3>1
  <2>6. ASSUME NextBatch PROVE FALSE
    <3>1. main.looked = Unknown
      BY <2>6 DEF NextBatch, Placed
    <3>2. main'.looked = main.looked
      BY <1>1, <2>6 DEF NextBatch, Enter, IsMain
    <3>3. QED
      BY <3>1, <3>2
  <2>7. QED
    BY <1>3, <2>1, <2>2, <2>3, <2>4, <2>5, <2>6 DEF LoopStep
<1>4. CASE ~LoopStep
  <2>1. main' = main
    BY <1>4, LoopAlone
  <2>2. main.looked = 0 /\ nonceMap[s] = Unknown /\ Head(main.left) \in Contracts
    <3>1. main.left # <<>>
      BY <2>1 DEF Placed
    <3>2. QED
      BY <1>1, <2>1, <3>1 DEF Apart
  <2>3. Of(s) = {}
    BY <2>1, <2>2 DEF Apart, NobodyCalls, Signs
  <2>4. nonceMap'[s] = nonceMap[s]
    BY <1>4, <2>3, WhoTakes DEF LoopStep
  <2>5. QED
    BY <2>1, <2>2, <2>4
<1>5. QED
  BY <1>2, <1>3, <1>4

(* A contract has an address or is on its way to one because it was sent.  *)
LEMMA WhoIsSent ==
  ASSUME MainShape, Placed, [Next]_vars, NEW c \in Contracts
  PROVE  /\ Has(main'.sent, c) => Has(main.sent, c) \/ SendContract(c)
         /\ mem'.address[c] => mem.address[c] \/ Has(main.sent, c)
<1>1. /\ IsMain(main) /\ main.left \in Seq(Contracts) /\ main.sent \in Seq(Contracts)
      /\ IsMem(mem)
  BY DEF MainShape, Placed
<1>2. CASE ~LoopStep
  BY <1>1, <1>2, AddressesStay
<1>3. ASSUME NEW d \in Contracts, SendContract(d)
      PROVE  mem' = mem /\ (Has(main'.sent, c) => Has(main.sent, c) \/ SendContract(c))
  <2>1. /\ main' = [main EXCEPT !.left = Tail(@), !.sent = Append(@, d), !.looked = Unknown]
        /\ mem' = mem
    BY <1>3 DEF SendContract, ToBeSent
  <2>2. main'.sent = Append(main.sent, d)
    BY <1>1, <2>1 DEF IsMain
  <2>3. Has(main'.sent, c) <=> Has(main.sent, c) \/ c = d
    BY <1>1, <2>2, AppendHas
  <2>4. QED
    BY <1>3, <2>1, <2>3
<1>4. ASSUME NEW d \in Contracts, StoreAddress(d)
      PROVE  mem' = mem /\ (Has(main'.sent, c) => Has(main.sent, c))
  <2>1. /\ main' = [main EXCEPT !.sent = Tail(@), !.copy = NoCopy] /\ main.sent # <<>> /\ mem' = mem
    BY <1>4 DEF StoreAddress, MainShape
  <2>2. main'.sent = Tail(main.sent)
    BY <1>1, <2>1 DEF IsMain
  <2>3. QED
    BY <1>1, <2>1, <2>2, TailHas
<1>5. ASSUME NEW d \in Contracts, RecordAddress(d)
      PROVE  main'.sent = main.sent /\ (mem'.address[c] => mem.address[c] \/ Has(main.sent, c))
  <2>1. /\ main' = [main EXCEPT !.copy = <<file>>] /\ main.sent # <<>> /\ d = Head(main.sent)
        /\ mem' = [mem EXCEPT !.address[d] = TRUE]
    BY <1>5 DEF RecordAddress
  <2>2. main'.sent = main.sent /\ (c # d => mem'.address[c] = mem.address[c])
    BY <1>1, <2>1 DEF IsMain, IsMem
  <2>3. Has(main.sent, d)
    BY <1>1, <2>1 DEF Has
  <2>4. QED
    BY <2>2, <2>3
<1>6. ASSUME SkipContract \/ ExecuteEvents \/ EventsExecuted \/ NextBatch
             \/ ContractReverts
             \/ \E d \in Contracts : LookUpForContract(d) \/ ContractFails(d) \/ ContractRefused(d)
      PROVE  mem' = mem /\ (main'.sent = main.sent \/ main'.sent = <<>>)
  BY <1>1, <1>6 DEF SkipContract, ExecuteEvents, EventsExecuted, NextBatch, Enter,
     LookUpForContract, ToBeSent, ContractFails, ContractRefused, ContractReverts, IsMain
<1>7. ~Has(<<>>, c)
  BY DEF Has
<1>8. QED
  BY <1>2, <1>3, <1>4, <1>5, <1>6, <1>7 DEF LoopStep

(* Hooks are started by the loop.                                          *)
LEMMA WhoStarts ==
  ASSUME ParallelAssumption, MainShape, [Next]_vars, NEW h \in Hooks,
         hook[h].at = "idle", hook'[h].at # "idle"
  PROVE  ExecuteEvents /\ h \in InBatch
<1>1. ASSUME NEW g \in Hooks, HookStep(g) PROVE FALSE
  <2>1. hook'[h] = hook[h]
    BY <1>1, HookShape
  <2>2. QED
    BY <2>1
<1>2. ASSUME NEW l \in DOMAIN lanes, LaneStep(l) PROVE FALSE
  <2>1. DOMAIN hook = Hooks
    BY DEF MainShape
  <2>2. \/ hook' = hook
        \/ \E g : /\ hook[g].at = "await"
                  /\ \/ hook' = [hook EXCEPT ![g].at = "failed"]
                     \/ hook' = [hook EXCEPT ![g].at = "run", ![g].next = @ + 1]
    BY <1>2 DEF LaneStep, Func, LookUpForCall, SendCall, StoreInput, CallFails, LookUpFails,
       CallReverts, Breaks, Release, Resolve
  <2>3. hook'[h] = hook[h]
    BY <2>1, <2>2
  <2>4. QED
    BY <2>3
<1>3. LoopStep /\ hook' # hook
  BY <1>1, <1>2 DEF Next, vars
<1>4. ExecuteEvents
  BY <1>3 DEF LoopStep, LookUpForContract, ToBeSent, SendContract, ContractFails, ContractRefused,
     ContractReverts, RecordAddress, StoreAddress, SkipContract, EventsExecuted, NextBatch, ByLoop
<1>5. QED
  BY <1>4 DEF ExecuteEvents

(* Until a contract of the sender was sent, no hook that calls from him    *)
(* was started.                                                            *)
LEMMA NobodyCallsYet ==
  ASSUME ParallelAssumption, NEW s \in Senders, SignsFirst(s), Signs(s), Placed, RootKnown,
         NonceInv(s), Apart(s), NobodyCalls(s), nonceMap[s] = Unknown, [Next]_vars
  PROVE  NobodyCalls(s)'
<1>1. MainShape
  BY DEF NonceInv
<1>2. ASSUME NEW h \in Hooks, CallsFrom(h, s) PROVE hook'[h].at = "idle"
  <2> SUFFICES ASSUME hook'[h].at # "idle" PROVE FALSE
    OBVIOUS
  <2>1. hook[h].at = "idle"
    BY <1>2 DEF NobodyCalls
  <2>2. ExecuteEvents /\ h \in InBatch
    BY <1>1, <2>1, WhoStarts
  <2>3. main.left = <<>> /\ main.batch \in DOMAIN Batches /\ DOMAIN Batches = 1 .. Len(Batches)
    BY <1>1, <2>2 DEF ExecuteEvents, MainShape
  <2>4. PICK j \in 1 .. main.batch, c \in Contracts \ (OnRecord \cup MaySkip) :
               In(c, j) /\ Signer[c] = s
    BY <1>2, <2>2, <2>3 DEF SignsFirst, Signs, InBatch
  <2>5. j \in DOMAIN Batches /\ (j < main.batch \/ j = main.batch)
    BY <2>3, BatchesAre
  <2>6. Has(main.sent, c) \/ mem.address[c]
    <3>1. ~Has(main.left, c)
      BY <2>3 DEF Has
    <3>2. QED
      BY <2>4, <2>5, <3>1 DEF Placed, Skips
  <2>7. QED
    BY <2>4, <2>6 DEF Apart
<1>3. ASSUME NEW k \in DOMAIN root' PROVE SenderOf(root'[k]) # s
  <2>1. ASSUME NEW h \in Hooks, Call(h), root'[k] = <<h, hook[h].next>>
        PROVE  SenderOf(root'[k]) # s
    <3> DEFINE i == hook[h].next
    <3>1. i \in DOMAIN Calls[h]
      BY <1>1, <2>1, CallIsOne
    <3>2. SenderOf(root'[k]) = Calls[h][i].from
      BY <2>1 DEF SenderOf
    <3> HIDE DEF i
    <3>3. hook[h].at # "idle"
      BY <2>1 DEF Call, Running
    <3>4. ~CallsFrom(h, s)
      BY <3>3 DEF NobodyCalls
    <3>5. QED
      BY <3>1, <3>2, <3>4 DEF CallsFrom
  <2>2. CASE \E m \in DOMAIN root : root'[k] = root[m]
    BY <2>2 DEF NobodyCalls
  <2>3. QED
    BY <2>1, <2>2, RootGrows
<1>4. Of(s)' = {}
  <2> SUFFICES ASSUME NEW l \in DOMAIN lanes', l[3] = s PROVE FALSE
    BY DEF Of
  <2>1. l \notin DOMAIN lanes
    BY DEF NobodyCalls, Of
  <2>2. QED
    BY <1>3, <2>1, LanesGrow
<1>5. QED
  BY <1>2, <1>3, <1>4 DEF NobodyCalls

LEMMA ApartStep ==
  ASSUME ParallelAssumption, NEW s \in Senders, SignsFirst(s), Placed, RootKnown,
         NonceInv(s), Apart(s), [Next]_vars
  PROVE  Apart(s)'
<1>1. nonceMap[s] # Unknown => nonceMap'[s] # Unknown
  BY WhoTakes
<1>2. main'.at = "send" /\ main'.looked # Unknown /\ Signer[Head(main'.left)] = s =>
        main'.looked = 0 /\ nonceMap'[s] = Unknown
  BY LoopLooksUp
<1>3. ASSUME NEW c \in Contracts, Signer[c] = s
      PROVE  /\ Has(main'.sent, c) => nonceMap'[s] # Unknown
             /\ c \notin OnRecord /\ mem'.address[c] => nonceMap'[s] # Unknown
  <2>1. /\ Has(main.sent, c) => nonceMap[s] # Unknown
        /\ c \notin OnRecord /\ mem.address[c] => nonceMap[s] # Unknown
    BY <1>3 DEF Apart
  <2>2. SendContract(c) => nonceMap'[s] # Unknown
    BY <1>3, SendsContract
  <2>3. MainShape
    BY DEF NonceInv
  <2>4. QED
    BY <1>1, <2>1, <2>2, <2>3, WhoIsSent
<1>4. Signs(s) => nonceMap'[s] # Unknown \/ NobodyCalls(s)'
  BY <1>1, NobodyCallsYet DEF Apart
<1>5. QED
  BY <1>2, <1>3, <1>4 DEF Apart

(* What was taken is what InSequence says.                                 *)
LEMMA TakenInSequence ==
  ASSUME NEW s, NonceInv(s)
  PROVE  InSequence(s)
<1>1. CASE nonceMap[s] = Unknown
  <2>1. From(s) = {}
    BY <1>1 DEF NonceInv, Taken
  <2>2. Cardinality(From(s)) = 0 /\ {txs[i].nonce : i \in From(s)} = {} /\ 0 .. 0 - 1 = {}
    BY <2>1, FS_EmptySet
  <2>3. QED
    BY <2>1, <2>2 DEF InSequence
<1>2. CASE nonceMap[s] # Unknown
  BY <1>2 DEF NonceInv, Taken, InSequence
<1>3. QED
  BY <1>1, <1>2

(* Nobody has called when the deployment starts.                           *)
LEMMA InitApart ==
  ASSUME ParallelAssumption, Init, NEW s
  PROVE  Apart(s)
<1>1. /\ main = [at |-> "send", batch |-> 1, left |-> Batches[1].contracts,
                 sent |-> <<>>, looked |-> Unknown, copy |-> NoCopy]
      /\ hook = [h \in Hooks |-> [at |-> "idle", next |-> 1, left |-> <<>>, copy |-> NoCopy]]
      /\ root = <<>> /\ DOMAIN lanes = {}
      /\ mem \in {NewState({}), NewState(OnRecord)}
  BY DEF Init
<1>2. main.sent = <<>> /\ main.looked = Unknown
  BY <1>1
<1>3. \A c \in Contracts : ~Has(main.sent, c) /\ (mem.address[c] => c \in OnRecord)
  <2>1. \A c \in Contracts : ~Has(main.sent, c)
    BY <1>2 DEF Has
  <2>2. \A d : NewState(d).address = [c \in Contracts |-> c \in d]
    BY DEF NewState
  <2>3. ASSUME NEW c \in Contracts, mem.address[c] PROVE c \in OnRecord
    <3>1. CASE mem = NewState({})
      <4>1. mem.address = [d \in Contracts |-> d \in {}]
        BY <2>2, <3>1
      <4>2. QED
        BY <2>3, <4>1
    <3>2. CASE mem = NewState(OnRecord)
      <4>1. mem.address = [d \in Contracts |-> d \in OnRecord]
        BY <2>2, <3>2
      <4>2. QED
        BY <2>3, <4>1
    <3>3. QED
      BY <1>1, <3>1, <3>2
  <2>4. QED
    BY <2>1, <2>3
<1>4. NobodyCalls(s)
  BY <1>1 DEF NobodyCalls, Of
<1>5. QED
  BY <1>2, <1>3, <1>4 DEF Apart

(* getAndIncrementTransactionCount (manager.ts:41-52) looks a nonce up     *)
(* with an await between the test of the map and the write of it, and the  *)
(* calls of every hook of a batch take nonces for the same sender at the   *)
(* same time.  The key of the sender makes it safe among calls, and the    *)
(* contract the sender has signed before makes it safe between the loop,   *)
(* which takes no key, and the calls.  A contract or a call that fails     *)
(* before its nonce is taken leaves no gap, nor does one that was sent and *)
(* is reverted, nor a hook that throws: for any number of batches, hooks,  *)
(* calls and senders no nonce is used twice, and none is left out unless   *)
(* the node refused a contract or a call of the sender after the nonce was *)
(* taken for it (manager.ts:103-109, executor.ts:792-810).                 *)
THEOREM NoncesSafe ==
  ASSUME ParallelAssumption, \A s \in Senders : SignsFirst(s)
  PROVE  Spec => []NoncesInSequence
<1> DEFINE Inv == /\ Placed /\ RootKnown /\ MainShape
                  /\ \A s \in Senders : NonceInv(s) /\ Apart(s)
<1>1. Init => Inv
  BY InitPlaced, InitNonce, InitApart
<1>2. Inv /\ [Next]_vars => Inv'
  <2> SUFFICES ASSUME Inv, [Next]_vars PROVE Inv'
    OBVIOUS
  <2>1. Placed' /\ RootKnown' /\ MainShape'
    BY PlacedStep, RootStep, StepShape
  <2>2. ASSUME NEW s \in Senders PROVE NonceInv(s)' /\ Apart(s)'
    BY StepNonce, ApartStep
  <2>3. QED
    BY <2>1, <2>2
<1>3. Inv => NoncesInSequence
  BY TakenInSequence DEF NoncesInSequence
<1>4. QED
  BY <1>1, <1>2, <1>3, PTL DEF Spec

(* A sender who signs no contract needs no contract to be sent before his  *)
(* calls: his nonces are safe in any deployment.                           *)
THEOREM CallersInSequence ==
  ASSUME ParallelAssumption, NEW s \in Senders, \A c \in Contracts : Signer[c] # s
  PROVE  Spec => []InSequence(s)
<1> DEFINE Inv == Placed /\ RootKnown /\ MainShape /\ NonceInv(s) /\ Apart(s)
<1>1. SignsFirst(s)
  BY DEF SignsFirst
<1>2. Init => Inv
  BY InitPlaced, InitNonce, InitApart
<1>3. Inv /\ [Next]_vars => Inv'
  BY <1>1, PlacedStep, RootStep, StepShape, StepNonce, ApartStep
<1>4. Inv => InSequence(s)
  BY TakenInSequence
<1>5. QED
  BY <1>2, <1>3, <1>4, PTL DEF Spec

(***************************************************************************)
(* What is pending of a sender.                                            *)
(***************************************************************************)
LEMMA Least ==
  ASSUME NEW T, T \subseteq Nat, T # {}
  PROVE  \E m \in T : \A k \in T : m <= k
<1> DEFINE R == OpToRel(<, Nat)
<1>1. IsWellFoundedOn(R, Nat)
  BY NatLessThanWellFounded, Zenon
<1>2. \A a, b \in Nat : a < b => <<a, b>> \in R
  BY Zenon DEF OpToRel
<1> HIDE DEF R
<1>3. PICK m \in T : \A k \in T : ~(<<k, m>> \in R)
  BY <1>1, WFMin, Zenon
<1>4. ASSUME NEW k \in T PROVE m <= k
  <2>1. ~(<<k, m>> \in R) /\ k \in Nat /\ m \in Nat
    BY <1>3
  <2>2. ~(k < m)
    BY <1>2, <2>1, Zenon
  <2> QED
    BY <2>1, <2>2
<1> QED
  BY <1>4

Joined(q, e, s) == IF SenderOf(e) = s THEN Append(q, e) ELSE q
ListFcn(f, r, s, n) == f = [k \in 0 .. n |-> IF k = 0 THEN <<>> ELSE Joined(f[k - 1], r[k], s)]

(* There is such a list.                                                   *)
LEMMA ListExists ==
  ASSUME NEW r, NEW s, NEW n \in Nat
  PROVE  \E f : ListFcn(f, r, s, n)
<1> DEFINE T == {m \in Nat : ~\E f : ListFcn(f, r, s, m)}
<1> SUFFICES ASSUME T # {} PROVE FALSE
  OBVIOUS
<1>1. PICK m \in T : \A k \in T : m <= k
  BY Least
<1>2. m # 0
  <2>1. ListFcn([k \in 0 .. 0 |-> <<>>], r, s, 0)
    BY DEF ListFcn
  <2> QED
    BY <1>1, <2>1
<1>3. m - 1 \in Nat /\ m - 1 \notin T
  BY <1>1, <1>2
<1>4. PICK g : ListFcn(g, r, s, m - 1)
  BY <1>3
<1> DEFINE last == Joined(g[m - 1], r[m], s)
           f == [k \in 0 .. m |-> IF k < m THEN g[k] ELSE last]
<1>5. \A k \in 0 .. m - 1 : g[k] = IF k = 0 THEN <<>> ELSE Joined(g[k - 1], r[k], s)
  BY <1>4 DEF ListFcn
<1> HIDE DEF T
<1>6. m \in Nat
  BY <1>1 DEF T
<1>7. \A k \in 0 .. m : f[k] = IF k = 0 THEN <<>> ELSE Joined(f[k - 1], r[k], s)
  <2> SUFFICES ASSUME NEW k \in 0 .. m
               PROVE  f[k] = IF k = 0 THEN <<>> ELSE Joined(f[k - 1], r[k], s)
    OBVIOUS
  <2> HIDE DEF last
  <2>1. CASE k = 0
    BY <1>2, <1>5, <1>6, <2>1
  <2>2. CASE k # 0 /\ k < m
    <3>1. k \in 0 .. m - 1 /\ k - 1 \in 0 .. m /\ k - 1 < m
      BY <1>6, <2>2
    <3>2. f[k] = g[k] /\ f[k - 1] = g[k - 1]
      BY <2>2, <3>1
    <3> QED
      BY <1>5, <2>2, <3>1, <3>2
  <2>3. CASE k = m
    <3>1. m - 1 \in 0 .. m /\ m - 1 < m
      BY <1>2, <1>6
    <3>2. f[m - 1] = g[m - 1] /\ f[m] = last
      BY <1>6, <3>1
    <3> QED
      BY <1>2, <2>3, <3>2 DEF last
  <2> QED
    BY <1>6, <2>1, <2>2, <2>3
<1>8. ListFcn(f, r, s, m)
  <2>1. f = [k \in 0 .. m |-> f[k]]
    OBVIOUS
  <2> HIDE DEF f
  <2> QED
    BY <1>7, <2>1 DEF ListFcn
<1> HIDE DEF f
<1> QED
  BY <1>1, <1>8 DEF T

(* The calls of a sender that are pending are his, and there are some if   *)
(* he is the sender of one.                                                *)
LEMMA PendingIs ==
  ASSUME NEW S, NEW r \in Seq(S), NEW s
  PROVE  /\ PendingOf(r, s) \in Seq({e \in S : SenderOf(e) = s})
         /\ s \in SendersIn(r) => PendingOf(r, s) # <<>>
<1> DEFINE n == Len(r)
           F == CHOOSE f : ListFcn(f, r, s, n)
           Q == {e \in S : SenderOf(e) = s}
<1>1. n \in Nat /\ DOMAIN r = 1 .. n /\ \A i \in 1 .. n : r[i] \in S
  OBVIOUS
<1>2. PendingOf(r, s) = F[n]
  BY DEF PendingOf, ListFcn, Joined
<1> HIDE DEF n
<1>3. ListFcn(F, r, s, n)
  BY <1>1, ListExists
<1> HIDE DEF F
<1>4. \A k \in 0 .. n : F[k] = IF k = 0 THEN <<>> ELSE Joined(F[k - 1], r[k], s)
  BY <1>3 DEF ListFcn
<1> DEFINE Good(k) == /\ F[k] \in Seq(Q)
                      /\ (\E i \in 1 .. k : SenderOf(r[i]) = s) => F[k] # <<>>
           B == {k \in 0 .. n : ~Good(k)}
<1>5. Good(0)
  <2>1. F[0] = <<>>
    BY <1>1, <1>4
  <2> QED
    BY <2>1
<1>6. ASSUME NEW k \in 1 .. n, Good(k - 1) PROVE Good(k)
  <2>1. F[k] = Joined(F[k - 1], r[k], s)
    BY <1>1, <1>4
  <2> DEFINE q == F[k - 1]
             e == r[k]
  <2>2. e \in S /\ q \in Seq(Q)
    BY <1>1, <1>6
  <2>3. ASSUME NEW i \in 1 .. k, SenderOf(r[i]) = s, SenderOf(e) # s PROVE q # <<>>
    <3>1. i \in 1 .. k - 1
      BY <2>3
    <3> QED
      BY <1>6, <2>3, <3>1
  <2> HIDE DEF q, e
  <2>4. CASE SenderOf(e) = s
    <3>1. F[k] = Append(q, e) /\ e \in Q
      BY <2>1, <2>2, <2>4 DEF Joined, q, e
    <3>2. F[k] \in Seq(Q) /\ F[k] # <<>>
      <4> HIDE DEF Q
      <4> QED
        BY <2>2, <3>1, AppendProperties
    <3> QED
      BY <3>2
  <2>5. CASE SenderOf(e) # s
    <3>1. F[k] = q
      BY <2>1, <2>5 DEF Joined, q, e
    <3> QED
      BY <2>2, <2>3, <2>5, <3>1
  <2> QED
    BY <2>4, <2>5
<1>7. CASE B # {}
  <2> HIDE DEF Good
  <2>1. B \subseteq Nat
    BY <1>1
  <2>2. PICK m \in B : \A k \in B : m <= k
    BY <1>7, <2>1, Least
  <2>3. m \in 1 .. n /\ m - 1 \in 0 .. n /\ ~(m <= m - 1)
    BY <1>1, <1>5, <2>2
  <2> QED
    BY <1>6, <2>2, <2>3
<1>8. CASE B = {}
  <2>1. Good(n)
    BY <1>1, <1>8
  <2>2. s \in SendersIn(r) => \E i \in 1 .. n : SenderOf(r[i]) = s
    BY <1>1 DEF SendersIn
  <2> QED
    BY <1>2, <2>1, <2>2
<1> QED
  BY <1>7, <1>8
(***************************************************************************)
(* Who has the key, and what the lanes have to do.                         *)
(***************************************************************************)
KnownCalls(s) == {e \in Hooks \X Nat : e[2] \in DOMAIN Calls[e[1]] /\ SenderOf(e) = s}

(* Pending calls are calls of hooks, and so are those of the lanes.        *)
RootCalls == root \in Seq(Hooks \X Nat)
HaveCalls ==
  \A l \in DOMAIN lanes : lanes[l].todo \in Seq(KnownCalls(l[3])) /\ lanes[l].todo # <<>>

(* A lane that does its call has the key of its sender.                    *)
Queues ==
  /\ DOMAIN queue = Senders /\ \A s \in Senders : queue[s] \in Seq(Names(s))
  /\ \A l \in DOMAIN lanes : lanes[l].at \notin {"queued", "store"} => HasKey(l)

(* What a lane does to itself and to the others.                           *)
OthersStay(l) ==
  DOMAIN lanes' \subseteq DOMAIN lanes /\ \A m \in DOMAIN lanes' \ {l} : lanes'[m] = lanes[m]

LEMMA LaneAlone ==
  ASSUME NEW l \in DOMAIN lanes, LaneStep(l)
  PROVE  OthersStay(l) /\ (~Resolve(l) => DOMAIN lanes' = DOMAIN lanes)
BY DEF LaneStep, Func, LookUpForCall, SendCall, StoreInput, CallFails, LookUpFails, CallReverts,
   Breaks, Release, Resolve, OthersStay

(* Only lanes and calls change lanes.                                      *)
LEMMA LanesAlone ==
  ASSUME [Next]_vars, ~\E l \in DOMAIN lanes : LaneStep(l)
  PROVE  (lanes' = lanes /\ root' = root /\ queue' = queue /\ progress' = progress)
         \/ \E h \in Hooks : Call(h)
<1>1. CASE LoopStep
  BY <1>1 DEF LoopStep, LookUpForContract, ToBeSent, SendContract, ContractFails, ContractRefused,
     ContractReverts, RecordAddress, StoreAddress, SkipContract, ExecuteEvents, EventsExecuted,
     NextBatch, ByLoop, executor
<1>2. ASSUME NEW h \in Hooks, HookStep(h)
      PROVE  (lanes' = lanes /\ root' = root /\ queue' = queue /\ progress' = progress) \/ Call(h)
  BY <1>2 DEF HookStep, Leave, ComeBack, HookThrows, FinishEvent, StoreFinished, ReadForDep,
     StoreDep, HookEnds, executor
<1>3. CASE UNCHANGED vars
  BY <1>3 DEF vars, executor
<1>4. QED
  BY <1>1, <1>2, <1>3 DEF Next

(* A call makes a lane for each sender of what is pending.                 *)
LEMMA NewLanes ==
  ASSUME NEW h \in Hooks, Call(h), NEW l \in DOMAIN lanes'
  PROVE  \/ l \in DOMAIN lanes /\ lanes'[l] = lanes[l]
         \/ /\ lanes'[l] = Lane(root', l[3]) /\ l[3] \in SendersIn(root')
            /\ l = <<h, hook[h].next, l[3]>>
<1> DEFINE i == hook[h].next
           r == Append(root, <<h, i>>)
           new == {<<h, i, s>> : s \in SendersIn(r)}
<1>1. root' = r /\ lanes' = [m \in DOMAIN lanes \cup new |->
                               IF m \in new THEN Lane(r, m[3]) ELSE lanes[m]]
  BY DEF Call
<1> HIDE DEF r
<1>2. CASE l \in new
  <2>1. PICK s \in SendersIn(r) : l = <<h, i, s>>
    BY <1>2
  <2>2. l[3] = s
    BY <2>1
  <2>3. lanes'[l] = Lane(r, l[3])
    BY <1>1, <1>2
  <2> QED
    BY <1>1, <2>1, <2>2, <2>3
<1>3. CASE l \notin new
  BY <1>1, <1>3
<1> QED
  BY <1>2, <1>3

(* What a lane that resolves its call turns to.                            *)
LEMMA TurnsTo ==
  ASSUME NEW l \in DOMAIN lanes, IsLane(lanes[l]), Resolve(l), l \in DOMAIN lanes'
  PROVE  /\ Tail(lanes[l].todo) # <<>> /\ lanes'[l].todo = Tail(lanes[l].todo)
         /\ lanes'[l].at = "queued" /\ lanes'[l].copy = NoCopy
<1> DEFINE left == Tail(lanes[l].todo)
<1>1. CASE left = <<>>
  <2>1. lanes' = [m \in DOMAIN lanes \ {l} |-> lanes[m]]
    BY <1>1 DEF Resolve
  <2> QED
    BY <2>1
<1>2. CASE left # <<>>
  <2>1. lanes' = [lanes EXCEPT ![l].todo = left, ![l].at = "queued", ![l].looked = Unknown,
                    ![l].copy = NoCopy]
    BY <1>2 DEF Resolve
  <2> HIDE DEF left
  <2>2. lanes'[l] = [lanes[l] EXCEPT !.todo = left, !.at = "queued", !.looked = Unknown,
                       !.copy = NoCopy]
    BY <2>1
  <2>3. lanes'[l].todo = left /\ lanes'[l].at = "queued" /\ lanes'[l].copy = NoCopy
    BY <2>2 DEF IsLane
  <2> QED
    BY <1>2, <2>3 DEF left
<1> QED
  BY <1>1, <1>2

(* What the other steps of a lane do to it.                                *)
LEMMA LaneMoves ==
  ASSUME NEW l \in DOMAIN lanes, IsLane(lanes[l]), LaneStep(l)
  PROVE  /\ ~Resolve(l) => l \in DOMAIN lanes' /\ lanes'[l].todo = lanes[l].todo
         /\ Func(l) => /\ lanes[l].at = "queued" /\ lanes'[l].at \in {"answered", "send"}
                       /\ lanes'[l].at = "answered" => file.log[l[1]][To(l)] > progress[To(l)]
                       /\ lanes'[l].iterator = progress[To(l)] /\ lanes'[l].copy = lanes[l].copy
                       /\ lanes'[l].at = "send" => progress' = progress
         /\ LookUpForCall(l) => /\ lanes[l].at = "send" /\ lanes'[l].at = "send"
                                /\ lanes'[l].iterator = lanes[l].iterator
                                /\ lanes'[l].copy = lanes[l].copy
         /\ SendCall(l) => /\ lanes[l].at = "send" /\ lanes'[l].at = "sent"
                           /\ lanes'[l].iterator = lanes[l].iterator /\ lanes'[l].copy = <<file>>
         /\ StoreInput(l) => /\ lanes[l].at = "sent" /\ lanes'[l].at = "wait"
                             /\ lanes'[l].copy = NoCopy
         /\ LookUpFails(l) \/ CallFails(l) \/ CallReverts(l) =>
              /\ lanes[l].at \in {"send", "wait"} /\ lanes'[l].at \in {"lost", "failed"}
              /\ lanes'[l].copy = lanes[l].copy
         /\ Release(l) => /\ lanes[l].at \in {"answered", "wait"} /\ lanes'[l].at = "store"
                          /\ lanes'[l].copy = <<file>>
<1>1. ASSUME Func(l)
      PROVE  /\ l \in DOMAIN lanes' /\ lanes'[l].todo = lanes[l].todo
             /\ lanes[l].at = "queued" /\ lanes'[l].at \in {"answered", "send"}
             /\ lanes'[l].at = "answered" => file.log[l[1]][To(l)] > progress[To(l)]
             /\ lanes'[l].iterator = progress[To(l)] /\ lanes'[l].copy = lanes[l].copy
             /\ lanes'[l].at = "send" => progress' = progress
  <2> DEFINE r == file.log[l[1]][To(l)] > progress[To(l)]
             a == IF r THEN "answered" ELSE "send"
             i == progress[To(l)]
  <2>1. /\ lanes' = [lanes EXCEPT ![l].at = a, ![l].iterator = i] /\ lanes[l].at = "queued"
        /\ ~r => progress' = progress
    BY <1>1 DEF Func
  <2>2. a \in {"answered", "send"} /\ (a = "answered" <=> r)
    OBVIOUS
  <2> HIDE DEF a, i, r
  <2>3. lanes'[l] = [lanes[l] EXCEPT !.at = a, !.iterator = i]
    BY <2>1
  <2>4. lanes'[l].todo = lanes[l].todo /\ lanes'[l].copy = lanes[l].copy
        /\ lanes'[l].at = a /\ lanes'[l].iterator = i /\ l \in DOMAIN lanes'
    BY <2>1, <2>3 DEF IsLane
  <2>5. a = "answered" => file.log[l[1]][To(l)] > progress[To(l)]
    BY <2>2 DEF r
  <2>6. a = "send" => progress' = progress
    BY <2>1, <2>2
  <2> QED
    BY <2>1, <2>2, <2>4, <2>5, <2>6 DEF i
<1>2. ASSUME LookUpForCall(l)
      PROVE  /\ l \in DOMAIN lanes' /\ lanes'[l].todo = lanes[l].todo
             /\ lanes[l].at = "send" /\ lanes'[l].at = "send"
             /\ lanes'[l].iterator = lanes[l].iterator /\ lanes'[l].copy = lanes[l].copy
  <2>1. lanes' = [lanes EXCEPT ![l].looked = mined[l[3]]] /\ lanes[l].at = "send"
    BY <1>2 DEF LookUpForCall
  <2>2. lanes'[l] = [lanes[l] EXCEPT !.looked = mined[l[3]]] /\ l \in DOMAIN lanes'
    BY <2>1
  <2>3. lanes'[l].todo = lanes[l].todo /\ lanes'[l].copy = lanes[l].copy
        /\ lanes'[l].at = lanes[l].at /\ lanes'[l].iterator = lanes[l].iterator
    BY <2>2 DEF IsLane
  <2> QED
    BY <2>1, <2>2, <2>3
<1>3. ASSUME SendCall(l)
      PROVE  /\ l \in DOMAIN lanes' /\ lanes'[l].todo = lanes[l].todo
             /\ lanes[l].at = "send" /\ lanes'[l].at = "sent"
             /\ lanes'[l].iterator = lanes[l].iterator /\ lanes'[l].copy = <<file>>
  <2>1. lanes' = [lanes EXCEPT ![l].at = "sent", ![l].copy = <<file>>] /\ lanes[l].at = "send"
    BY <1>3 DEF SendCall
  <2>2. lanes'[l] = [lanes[l] EXCEPT !.at = "sent", !.copy = <<file>>] /\ l \in DOMAIN lanes'
    BY <2>1
  <2>3. lanes'[l].todo = lanes[l].todo /\ lanes'[l].copy = <<file>>
        /\ lanes'[l].at = "sent" /\ lanes'[l].iterator = lanes[l].iterator
    BY <2>2 DEF IsLane
  <2> QED
    BY <2>1, <2>2, <2>3
<1>4. ASSUME StoreInput(l)
      PROVE  /\ l \in DOMAIN lanes' /\ lanes'[l].todo = lanes[l].todo
             /\ lanes[l].at = "sent" /\ lanes'[l].at = "wait" /\ lanes'[l].copy = NoCopy
  <2>1. lanes' = [lanes EXCEPT ![l].at = "wait", ![l].copy = NoCopy] /\ lanes[l].at = "sent"
    BY <1>4 DEF StoreInput
  <2>2. lanes'[l] = [lanes[l] EXCEPT !.at = "wait", !.copy = NoCopy] /\ l \in DOMAIN lanes'
    BY <2>1
  <2>3. lanes'[l].todo = lanes[l].todo /\ lanes'[l].copy = NoCopy /\ lanes'[l].at = "wait"
    BY <2>2 DEF IsLane
  <2> QED
    BY <2>1, <2>2, <2>3
<1>5. ASSUME LookUpFails(l) \/ CallFails(l) \/ CallReverts(l)
      PROVE  /\ l \in DOMAIN lanes' /\ lanes'[l].todo = lanes[l].todo
             /\ lanes[l].at \in {"send", "wait"} /\ lanes'[l].at \in {"lost", "failed"}
             /\ lanes'[l].copy = lanes[l].copy
  <2>1. PICK a \in {"lost", "failed"} : lanes' = [lanes EXCEPT ![l].at = a]
    BY <1>5 DEF LookUpFails, CallFails, CallReverts
  <2>2. lanes'[l] = [lanes[l] EXCEPT !.at = a] /\ l \in DOMAIN lanes'
    BY <2>1
  <2>3. lanes'[l].todo = lanes[l].todo /\ lanes'[l].copy = lanes[l].copy /\ lanes'[l].at = a
    BY <2>2 DEF IsLane
  <2>4. lanes[l].at \in {"send", "wait"}
    BY <1>5 DEF LookUpFails, CallFails, CallReverts
  <2> QED
    BY <2>1, <2>2, <2>3, <2>4
<1>6. ASSUME Release(l)
      PROVE  /\ l \in DOMAIN lanes' /\ lanes'[l].todo = lanes[l].todo
             /\ lanes[l].at \in {"answered", "wait"} /\ lanes'[l].at = "store"
             /\ lanes'[l].copy = <<file>>
  <2>1. /\ lanes' = [lanes EXCEPT ![l].at = "store", ![l].copy = <<file>>]
        /\ lanes[l].at \in {"answered", "wait"}
    BY <1>6 DEF Release
  <2>2. lanes'[l] = [lanes[l] EXCEPT !.at = "store", !.copy = <<file>>] /\ l \in DOMAIN lanes'
    BY <2>1
  <2>3. lanes'[l].todo = lanes[l].todo /\ lanes'[l].copy = <<file>> /\ lanes'[l].at = "store"
    BY <2>2 DEF IsLane
  <2> QED
    BY <2>1, <2>2, <2>3
<1> QED
  BY <1>1, <1>2, <1>3, <1>4, <1>5, <1>6 DEF LaneStep

LEMMA RootCallsStep ==
  ASSUME ParallelAssumption, MainShape, RootKnown, RootCalls, [Next]_vars
  PROVE  RootCalls'
<1>1. ASSUME NEW h \in Hooks, Call(h) PROVE RootCalls'
  <2> DEFINE e == <<h, hook[h].next>>
  <2>1. root' = Append(root, e)
    BY <1>1 DEF Call
  <2>2. e \in Hooks \X Nat
    BY DEF MainShape
  <2> HIDE DEF e
  <2> QED
    BY <2>1, <2>2 DEF RootCalls
<1>2. ASSUME NEW l \in DOMAIN lanes, LaneStep(l) PROVE RootCalls'
  <2>1. root' = root \/ root' = Without(Entry(l)[1])
    BY <1>2 DEF LaneStep, Func, LookUpForCall, SendCall, StoreInput, CallFails, LookUpFails,
       CallReverts, Breaks, Release, Resolve
  <2> QED
    BY <2>1, WithoutLeaves DEF RootCalls
<1>3. CASE root' = root
  BY <1>3 DEF RootCalls
<1> QED
  BY <1>1, <1>2, <1>3, LanesAlone

(* A lane has calls of its sender to make.                                 *)
LEMMA HaveCallsStep ==
  ASSUME ParallelAssumption, MainShape, RootKnown, LanesPast, RootCalls, HaveCalls, [Next]_vars
  PROVE  HaveCalls'
<1>1. RootKnown' /\ RootCalls'
  BY RootStep, RootCallsStep
<1> SUFFICES ASSUME NEW l \in DOMAIN lanes'
             PROVE  lanes'[l].todo \in Seq(KnownCalls(l[3])) /\ lanes'[l].todo # <<>>
  BY DEF HaveCalls, KnownCalls, SenderOf
<1>2. CASE l \in DOMAIN lanes /\ lanes'[l] = lanes[l]
  BY <1>2 DEF HaveCalls
<1>3. ASSUME NEW h \in Hooks, Call(h), l \notin DOMAIN lanes \/ lanes'[l] # lanes[l]
      PROVE  lanes'[l].todo \in Seq(KnownCalls(l[3])) /\ lanes'[l].todo # <<>>
  <2> DEFINE s == l[3]
             S == {root'[k] : k \in DOMAIN root'}
             q == PendingOf(root', s)
  <2>1. lanes'[l] = Lane(root', s) /\ s \in SendersIn(root')
    BY <1>3, NewLanes
  <2> HIDE DEF s
  <2>2. lanes'[l].todo = q
    BY <2>1 DEF Lane
  <2>3. root' \in Seq(S)
    <3>1. root' \in Seq(Hooks \X Nat)
      BY <1>1 DEF RootCalls
    <3> QED
      BY <3>1
  <2>4. S \subseteq Hooks \X Nat /\ \A e \in S : e[2] \in DOMAIN Calls[e[1]]
    <3>1. root' \in Seq(Hooks \X Nat)
      BY <1>1 DEF RootCalls
    <3>2. \A k \in DOMAIN root' : root'[k] \in Hooks \X Nat
      BY <3>1
    <3> QED
      BY <1>1, <3>2 DEF RootKnown
  <2> HIDE DEF S
  <2>5. q \in Seq({e \in S : SenderOf(e) = s}) /\ q # <<>>
    BY <2>1, <2>3, PendingIs
  <2>6. {e \in S : SenderOf(e) = s} \subseteq KnownCalls(s)
    BY <2>4 DEF KnownCalls
  <2> HIDE DEF q
  <2>7. q \in Seq(KnownCalls(s))
    BY <2>5, <2>6
  <2> QED
    BY <2>2, <2>5, <2>7 DEF s
<1>4. ASSUME NEW m \in DOMAIN lanes, LaneStep(m), l \notin DOMAIN lanes \/ lanes'[l] # lanes[l]
      PROVE  lanes'[l].todo \in Seq(KnownCalls(l[3])) /\ lanes'[l].todo # <<>>
  <2>1. l = m
    BY <1>4, LaneAlone DEF OthersStay
  <2>2. IsLane(lanes[l]) /\ lanes[l].todo \in Seq(KnownCalls(l[3])) /\ lanes[l].todo # <<>>
    BY <1>4, <2>1 DEF LanesPast, HaveCalls
  <2>3. CASE Resolve(l)
    <3>1. Tail(lanes[l].todo) # <<>> /\ lanes'[l].todo = Tail(lanes[l].todo)
      BY <1>4, <2>1, <2>2, <2>3, TurnsTo
    <3> DEFINE T == KnownCalls(l[3])
               q == lanes[l].todo
    <3>2. q \in Seq(T) /\ q # <<>>
      BY <2>2
    <3> HIDE DEF T, q
    <3>3. Tail(q) \in Seq(T)
      BY <3>2
    <3> QED
      BY <3>1, <3>3 DEF T, q
  <2>4. CASE ~Resolve(l)
    <3>1. lanes'[l].todo = lanes[l].todo
      BY <1>4, <2>1, <2>2, <2>4, LaneMoves
    <3> QED
      BY <2>2, <3>1
  <2> QED
    BY <2>3, <2>4
<1>5. CASE lanes' = lanes
  BY <1>2, <1>5
<1> QED
  BY <1>2, <1>3, <1>4, <1>5, LanesAlone

(* Who has the key keeps it until he gives it back.                        *)
LEMMA QueuesStep ==
  ASSUME ParallelAssumption, MainShape, RootKnown, LanesPast, Queues, [Next]_vars
  PROVE  Queues'
<1>1. RootKnown' /\ LanesPast'
  BY RootStep, LanesPastStep
<1>2. \A s \in Senders : queue[s] \in Seq(Names(s))
  BY DEF Queues
<1>3. CASE lanes' = lanes /\ queue' = queue
  BY <1>3 DEF Queues, HasKey, Names
<1>4. ASSUME NEW s \in Senders, NEW x \in Names(s), NEW l, l[3] = s,
             queue'[s] = Append(queue[s], x) \/ queue'[s] = queue[s]
      PROVE  queue'[s] \in Seq(Names(s)) /\ (HasKey(l) => HasKey(l)')
  <2> DEFINE q == queue[s]
             T == Names(s)
  <2>1. q \in Seq(T) /\ x \in T
    BY <1>2, <1>4
  <2>2. queue'[s] = Append(q, x) \/ queue'[s] = q
    BY <1>4
  <2> HIDE DEF q, T
  <2>3. Append(q, x) \in Seq(T) /\ Append(q, x) # <<>> /\ (q # <<>> => Head(Append(q, x)) = Head(q))
    BY <2>1, Appended
  <2>4. queue'[s] \in Seq(T) /\ (q # <<>> => queue'[s] # <<>> /\ Head(queue'[s]) = Head(q))
    BY <2>1, <2>2, <2>3
  <2> QED
    BY <1>4, <2>4 DEF HasKey, q, T
<1>5. ASSUME NEW h \in Hooks, Call(h) PROVE Queues'
  <2> DEFINE i == hook[h].next
             Q == SendersIn(root')
  <2>1. queue' = [s \in Senders |-> IF s \in Q THEN Append(queue[s], <<h, i, s>>) ELSE queue[s]]
    BY <1>5 DEF Call
  <2>2. i \in Nat
    BY DEF MainShape
  <2> HIDE DEF i, Q
  <2>3. \A s \in Senders : <<h, i, s>> \in Names(s)
    BY <2>2 DEF Names
  <2>4. \A s \in Senders : queue'[s] = Append(queue[s], <<h, i, s>>) \/ queue'[s] = queue[s]
    BY <2>1
  <2>5. ASSUME NEW s \in Senders PROVE queue'[s] \in Seq(Names(s))
    <3> DEFINE l == <<h, i, s>>
    <3>1. l[3] = s /\ l \in Names(s)
      BY <2>3
    <3> HIDE DEF l
    <3> QED
      BY <1>4, <2>4, <3>1 DEF l
  <2>6. ASSUME NEW l \in DOMAIN lanes', lanes'[l].at \notin {"queued", "store"} PROVE HasKey(l)'
    <3>1. l \in DOMAIN lanes /\ lanes'[l] = lanes[l]
      BY <1>5, <2>6, NewLanes DEF Lane
    <3>2. HasKey(l) /\ l[3] \in Senders
      BY <2>6, <3>1 DEF Queues, LanesPast
    <3> QED
      BY <1>4, <2>3, <2>4, <3>2
  <2>7. DOMAIN queue' = Senders
    BY <2>1
  <2> QED
    BY <2>5, <2>6, <2>7 DEF Queues, Names
<1>6. ASSUME NEW l \in DOMAIN lanes, LaneStep(l) PROVE Queues'
  <2> DEFINE s == l[3]
  <2>1. s \in Senders /\ IsLane(lanes[l]) /\ l \in Names(s)
    BY DEF LanesPast, Names
  <2> HIDE DEF s
  <2>2. OthersStay(l)
    BY <1>6, LaneAlone
  <2>3. CASE Resolve(l)
    <3>1. queue' = queue \/ queue' = [queue EXCEPT ![s] = Append(@, l)]
      BY <2>3 DEF Resolve, s
    <3>2. \A r \in Senders : queue'[r] = queue[r] \/ (r = s /\ queue'[r] = Append(queue[r], l))
      BY <3>1 DEF Queues
    <3>3. DOMAIN queue' = Senders
      BY <3>1 DEF Queues
    <3>4. \A r \in Senders : queue'[r] \in Seq(Names(r))
      <4>1. s \in Senders /\ l[3] = s
        BY <2>1 DEF s
      <4> QED
        BY <1>2, <1>4, <2>1, <3>2, <4>1
    <3>5. ASSUME NEW m \in DOMAIN lanes', lanes'[m].at \notin {"queued", "store"} PROVE HasKey(m)'
      <4>1. m # l
        BY <2>1, <2>3, <3>5, TurnsTo
      <4>2. m \in DOMAIN lanes /\ lanes'[m] = lanes[m]
        BY <2>2, <4>1 DEF OthersStay
      <4>3. HasKey(m) /\ m[3] \in Senders
        BY <3>5, <4>2 DEF Queues, LanesPast
      <4>4. CASE m[3] = s
        BY <1>4, <2>1, <3>2, <4>3, <4>4
      <4>5. CASE m[3] # s
        BY <3>2, <4>3, <4>5 DEF HasKey
      <4> QED
        BY <4>4, <4>5
    <3> QED
      BY <3>3, <3>4, <3>5 DEF Queues, Names
  <2>4. CASE Release(l)
    <3>1. queue' = [queue EXCEPT ![s] = Tail(@)] /\ lanes[l].at \in {"answered", "wait"}
      BY <2>4 DEF Release, s
    <3>2. HasKey(l)
      BY <3>1 DEF Queues
    <3>3. DOMAIN queue' = Senders /\ \A r \in Senders : queue'[r] \in Seq(Names(r))
      <4>1. queue[s] # <<>>
        BY <3>2 DEF HasKey, s
      <4>2. Tail(queue[s]) \in Seq(Names(s))
        BY <1>2, <2>1, <4>1
      <4> QED
        BY <1>2, <2>1, <3>1, <4>2 DEF Queues
    <3>4. ASSUME NEW m \in DOMAIN lanes', lanes'[m].at \notin {"queued", "store"} PROVE HasKey(m)'
      <4>1. m # l
        BY <2>1, <2>4, <3>4, LaneMoves DEF LaneStep
      <4>2. m \in DOMAIN lanes /\ lanes'[m] = lanes[m]
        BY <2>2, <4>1 DEF OthersStay
      <4>3. HasKey(m)
        BY <3>4, <4>2 DEF Queues
      <4>4. m[3] # s
        BY <3>2, <4>1, <4>3 DEF HasKey, s
      <4> QED
        BY <3>1, <4>3, <4>4 DEF HasKey, Queues
    <3> QED
      BY <3>3, <3>4 DEF Queues, Names
  <2>5. CASE ~Resolve(l) /\ ~Release(l)
    <3>1. queue' = queue
      BY <1>6, <2>5 DEF LaneStep, Func, LookUpForCall, SendCall, StoreInput, CallFails, LookUpFails,
         CallReverts, Breaks
    <3>2. HasKey(l)
      BY <1>6, <2>5 DEF LaneStep, Func, LookUpForCall, SendCall, StoreInput, CallFails, LookUpFails,
         CallReverts, Breaks, Queues
    <3>3. ASSUME NEW m \in DOMAIN lanes', lanes'[m].at \notin {"queued", "store"} PROVE HasKey(m)
      <4>1. CASE m = l
        BY <3>2, <4>1
      <4>2. CASE m # l
        BY <2>2, <3>3, <4>2 DEF Queues, OthersStay
      <4> QED
        BY <4>1, <4>2
    <3> QED
      BY <3>1, <3>3 DEF Queues, HasKey, Names
  <2> QED
    BY <2>3, <2>4, <2>5
<1> QED
  BY <1>3, <1>5, <1>6, LanesAlone

(***************************************************************************)
(* The states that are written: the file, the memory and the copies that   *)
(* were read before an await.                                              *)
(***************************************************************************)
IsState(x) ==
  /\ x = [address |-> x.address, executed |-> x.executed, log |-> x.log]
  /\ DOMAIN x.executed = Hooks /\ DOMAIN x.log = Hooks
  /\ \A h \in Hooks : x.log[h] \in [Contracts -> Nat]
Alike(x, y) == IsState(x) /\ x.executed = y.executed /\ x.log = y.log
IsCopy(x, q) == q # NoCopy /\ x = Head(q)
Image(x) ==
  \/ x = file \/ x = mem \/ IsCopy(x, main.copy)
  \/ \E h \in Hooks : IsCopy(x, hook[h].copy)
  \/ \E l \in DOMAIN lanes : IsCopy(x, lanes[l].copy)
Copies ==
  /\ \A x : Image(x) => IsState(x)
  /\ \A h \in Hooks : hook[h].at = "finish" => hook[h].copy # NoCopy
  /\ \A l \in DOMAIN lanes : lanes[l].at \in {"sent", "store"} => lanes[l].copy # NoCopy

LEMMA FileRead ==
  ASSUME NEW q, NEW x
  PROVE  /\ q = <<file>> => (IsCopy(x, q) <=> x = file)
         /\ q = NoCopy => ~IsCopy(x, q)
BY DEF IsCopy, NoCopy

(* Setting an address leaves the records of the hooks.                     *)
LEMMA AddressSet ==
  ASSUME NEW x, IsState(x), NEW y, NEW c, NEW b, y = [x EXCEPT !.address[c] = b]
  PROVE  Alike(y, x)
BY DEF Alike, IsState

(* What the loop writes, and where it keeps what it read.                  *)
LEMMA LoopImages ==
  ASSUME ParallelAssumption, MainShape, Copies, LoopStep, NEW x, Image(x)'
  PROVE  \E y : Image(y) /\ Alike(x, y)
<1>1. \A y : Image(y) => Alike(y, y)
  BY DEF Copies, Alike
<1>2. IsMain(main) /\ DOMAIN hook = Hooks /\ \A h \in Hooks : IsHook(hook[h])
  BY DEF MainShape
<1>3. lanes' = lanes
  BY DEF LoopStep, LookUpForContract, ToBeSent, SendContract, ContractFails, ContractRefused,
     ContractReverts, RecordAddress, StoreAddress, SkipContract, ExecuteEvents, EventsExecuted,
     NextBatch, ByLoop, executor
<1>4. ASSUME NEW h \in Hooks PROVE hook'[h].copy = hook[h].copy
  <2>1. CASE hook' = hook
    BY <2>1
  <2>2. CASE ExecuteEvents
    <3>1. hook'[h] = Start(h) \/ hook'[h] = hook[h]
      BY <2>2 DEF ExecuteEvents
    <3> QED
      BY <1>2, <3>1 DEF Start, IsHook
  <2> QED
    BY <2>1, <2>2 DEF LoopStep, LookUpForContract, ToBeSent, SendContract, ContractFails,
       ContractRefused, ContractReverts, RecordAddress, StoreAddress, SkipContract, EventsExecuted,
       NextBatch, ByLoop
<1>5. CASE x = file \/ IsCopy(x, main.copy) \/ x = mem
  BY <1>1, <1>5 DEF Image
<1>6. \/ x = file' \/ x = mem' \/ IsCopy(x, main'.copy)
      \/ (\E h \in Hooks : IsCopy(x, hook[h].copy))
      \/ \E l \in DOMAIN lanes : IsCopy(x, lanes[l].copy)
  BY <1>3, <1>4 DEF Image, IsCopy
<1>7. CASE file' = file /\ mem' = mem /\ main'.copy = main.copy
  BY <1>1, <1>6, <1>7 DEF Image
<1>8. ASSUME NEW c \in Contracts, RecordAddress(c) PROVE \E y : Image(y) /\ Alike(x, y)
  <2>1. /\ mem' = [mem EXCEPT !.address[c] = TRUE] /\ file' = file
        /\ main' = [main EXCEPT !.copy = <<file>>]
    BY <1>8 DEF RecordAddress
  <2>2. main'.copy = <<file>>
    BY <1>2, <2>1 DEF IsMain
  <2>3. Image(mem) /\ Image(file) /\ IsState(mem)
    BY DEF Image, Copies
  <2>4. Alike(mem', mem)
    BY <2>1, <2>3, AddressSet
  <2>5. IsCopy(x, main'.copy) => x = file
    BY <2>2, FileRead
  <2> QED
    BY <1>1, <1>6, <2>1, <2>3, <2>4, <2>5 DEF Image
<1>9. ASSUME NEW c \in Contracts, StoreAddress(c) PROVE \E y : Image(y) /\ Alike(x, y)
  <2>1. /\ file' = [Head(main.copy) EXCEPT !.address[c] = TRUE] /\ mem' = mem
        /\ main' = [main EXCEPT !.sent = Tail(@), !.copy = NoCopy] /\ main.copy # NoCopy
    BY <1>9 DEF StoreAddress
  <2>2. main'.copy = NoCopy
    BY <1>2, <2>1 DEF IsMain
  <2>3. Image(Head(main.copy)) /\ IsState(Head(main.copy))
    BY <2>1 DEF Image, Copies, IsCopy
  <2>4. Alike(file', Head(main.copy))
    BY <2>1, <2>3, AddressSet
  <2>5. ~IsCopy(x, main'.copy)
    BY <2>2, FileRead
  <2> QED
    BY <1>1, <1>6, <2>1, <2>3, <2>4, <2>5 DEF Image
<1>10. ASSUME ~\E c \in Contracts : RecordAddress(c) \/ StoreAddress(c)
       PROVE  file' = file /\ mem' = mem /\ main'.copy = main.copy
  <2>1. file' = file /\ mem' = mem
    BY <1>10 DEF LoopStep, LookUpForContract, ToBeSent, SendContract, ContractFails,
       ContractRefused, ContractReverts, SkipContract, ExecuteEvents, EventsExecuted, NextBatch
  <2>2. main'.copy = main.copy
    BY <1>2, <1>10 DEF LoopStep, LookUpForContract, ToBeSent, SendContract, ContractFails,
       ContractRefused, ContractReverts, SkipContract, ExecuteEvents, EventsExecuted, NextBatch,
       Enter, IsMain
  <2> QED
    BY <2>1, <2>2
<1> QED
  BY <1>7, <1>8, <1>9, <1>10

(* What a hook writes.                                                     *)
LEMMA HookImages ==
  ASSUME ParallelAssumption, MainShape, Copies, NEW h \in Hooks, HookStep(h), NEW x, Image(x)'
  PROVE  (\E y : Image(y) /\ Alike(x, y)) \/ (StoreFinished(h) /\ x = mem')
<1>1. \A y : Image(y) => Alike(y, y)
  BY DEF Copies, Alike
<1>2. DOMAIN hook = Hooks /\ IsHook(hook[h])
  BY DEF MainShape
<1>3. main' = main /\ \A g \in Hooks \ {h} : hook'[g] = hook[g]
  BY HookShape
<1>4. \A l \in DOMAIN lanes' : (l \in DOMAIN lanes /\ lanes'[l] = lanes[l]) \/ lanes'[l].copy = NoCopy
  <2>1. CASE lanes' = lanes
    BY <2>1
  <2>2. CASE Call(h)
    BY <2>2, NewLanes DEF Lane
  <2> QED
    BY <2>1, <2>2 DEF HookStep, Leave, ComeBack, HookThrows, FinishEvent, StoreFinished, ReadForDep,
       StoreDep, HookEnds, executor
<1>5. \/ x = file' \/ x = mem' \/ IsCopy(x, main.copy) \/ IsCopy(x, hook'[h].copy)
      \/ (\E g \in Hooks : IsCopy(x, hook[g].copy))
      \/ \E l \in DOMAIN lanes : IsCopy(x, lanes[l].copy)
  <2>1. CASE \E g \in Hooks : IsCopy(x, hook'[g].copy)
    BY <1>3, <2>1
  <2>2. CASE \E l \in DOMAIN lanes' : IsCopy(x, lanes'[l].copy)
    BY <1>4, <2>2 DEF IsCopy
  <2> QED
    BY <1>3, <2>1, <2>2 DEF Image
<1>6. CASE file' = file /\ mem' = mem /\ hook'[h].copy = hook[h].copy
  BY <1>1, <1>5, <1>6 DEF Image
<1>7. ASSUME FinishEvent(h) \/ ReadForDep(h)
      PROVE  file' = file /\ mem' = mem /\ hook'[h].copy = <<file>>
  <2>1. /\ file' = file /\ mem' = mem
        /\ \/ hook' = [hook EXCEPT ![h].at = "finish", ![h].copy = <<file>>]
           \/ hook' = [hook EXCEPT ![h].copy = <<file>>]
    BY <1>7 DEF FinishEvent, ReadForDep
  <2> QED
    BY <1>2, <2>1 DEF IsHook
<1>8. CASE FinishEvent(h) \/ ReadForDep(h)
  <2>1. IsCopy(x, hook'[h].copy) => x = file
    BY <1>7, <1>8, FileRead
  <2> QED
    BY <1>1, <1>5, <1>7, <1>8, <2>1 DEF Image
<1>9. CASE StoreDep(h)
  <2> DEFINE c == Head(hook[h].left)
  <2>1. /\ file' = [Head(hook[h].copy) EXCEPT !.address[c] = mem.address[c]] /\ mem' = mem
        /\ hook' = [hook EXCEPT ![h].left = Tail(@), ![h].copy = NoCopy] /\ hook[h].copy # NoCopy
    BY <1>9 DEF StoreDep
  <2> HIDE DEF c
  <2>2. hook'[h].copy = NoCopy
    BY <1>2, <2>1 DEF IsHook
  <2>3. Image(Head(hook[h].copy)) /\ IsState(Head(hook[h].copy))
    BY <2>1 DEF Image, Copies, IsCopy
  <2>4. Alike(file', Head(hook[h].copy))
    BY <2>1, <2>3, AddressSet
  <2>5. ~IsCopy(x, hook'[h].copy)
    BY <2>2, FileRead
  <2> QED
    BY <1>1, <1>5, <2>1, <2>3, <2>4, <2>5 DEF Image
<1>10. CASE StoreFinished(h)
  <2>1. /\ file' = mem'
        /\ hook' = [hook EXCEPT ![h].at = "deps", ![h].left = Deps[h], ![h].copy = NoCopy]
    BY <1>10 DEF StoreFinished
  <2>2. hook'[h].copy = NoCopy
    BY <1>2, <2>1 DEF IsHook
  <2>3. ~IsCopy(x, hook'[h].copy)
    BY <2>2, FileRead
  <2> QED
    BY <1>1, <1>5, <1>10, <2>1, <2>3 DEF Image
<1>11. ASSUME Leave(h) \/ ComeBack(h) \/ HookThrows(h) \/ Call(h) \/ HookEnds(h)
       PROVE  file' = file /\ mem' = mem /\ hook'[h].copy = hook[h].copy
  <2>1. file' = file /\ mem' = mem /\ \E a : hook' = [hook EXCEPT ![h].at = a]
    BY <1>11 DEF Leave, ComeBack, HookThrows, Call, HookEnds
  <2> QED
    BY <1>2, <2>1 DEF IsHook
<1> QED
  BY <1>6, <1>8, <1>9, <1>10, <1>11 DEF HookStep

(* What a lane writes.                                                     *)
LEMMA LaneImages ==
  ASSUME ParallelAssumption, MainShape, LanesPast, Copies, NEW l \in DOMAIN lanes, LaneStep(l),
         NEW x, Image(x)'
  PROVE  (\E y : Image(y) /\ Alike(x, y)) \/ (Resolve(l) /\ x = file')
<1>1. \A y : Image(y) => Alike(y, y)
  BY DEF Copies, Alike
<1>2. IsLane(lanes[l]) /\ OthersStay(l)
  BY LaneAlone DEF LanesPast
<1>3. main' = main /\ mem' = mem
  BY DEF LaneStep, Func, LookUpForCall, SendCall, StoreInput, CallFails, LookUpFails, CallReverts,
     Breaks, Release, Resolve, ByLane
<1>4. ASSUME NEW h \in Hooks PROVE hook'[h].copy = hook[h].copy
  <2>1. DOMAIN hook = Hooks /\ IsHook(hook[h])
    BY DEF MainShape
  <2>2. \/ hook' = hook
        \/ \E g : \/ hook' = [hook EXCEPT ![g].at = "failed"]
                 \/ hook' = [hook EXCEPT ![g].at = "run", ![g].next = @ + 1]
    BY DEF LaneStep, Func, LookUpForCall, SendCall, StoreInput, CallFails, LookUpFails, CallReverts,
       Breaks, Release, Resolve
  <2>3. \/ hook'[h] = hook[h] \/ hook'[h] = [hook[h] EXCEPT !.at = "failed"]
        \/ hook'[h] = [hook[h] EXCEPT !.at = "run", !.next = @ + 1]
    BY <2>1, <2>2
  <2> QED
    BY <2>1, <2>3 DEF IsHook
<1>5. \/ x = file' \/ Image(x) \/ (l \in DOMAIN lanes' /\ IsCopy(x, lanes'[l].copy))
  BY <1>2, <1>3, <1>4 DEF Image, OthersStay, IsCopy
<1>6. l \in DOMAIN lanes' /\ IsCopy(x, lanes'[l].copy) => x = file \/ IsCopy(x, lanes[l].copy)
  BY <1>2, LaneMoves, TurnsTo, FileRead DEF LaneStep, LookUpForCall
<1>7. x = file' => x = file \/ Resolve(l) \/ (StoreInput(l) /\ x = Head(lanes[l].copy))
  BY DEF LaneStep, Func, LookUpForCall, SendCall, StoreInput, CallFails, LookUpFails, CallReverts,
     Breaks, Release
<1>8. StoreInput(l) => Image(Head(lanes[l].copy))
  BY DEF StoreInput, Copies, Image, IsCopy
<1> QED
  BY <1>1, <1>5, <1>6, <1>7, <1>8 DEF Image

(* The call of a lane.                                                     *)
LEMMA EntryIs ==
  ASSUME ParallelAssumption, HaveCalls, NEW l \in DOMAIN lanes
  PROVE  /\ Entry(l) \in KnownCalls(l[3]) /\ Entry(l)[1] \in Hooks
         /\ Entry(l)[2] \in DOMAIN Calls[Entry(l)[1]] /\ Entry(l) = <<Entry(l)[1], Entry(l)[2]>>
         /\ To(l) \in Contracts /\ SenderOf(Entry(l)) = l[3]
<1> DEFINE e == Entry(l)
<1>1. e \in KnownCalls(l[3])
  <2> DEFINE q == lanes[l].todo
             T == KnownCalls(l[3])
  <2>1. q \in Seq(T) /\ q # <<>>
    BY DEF HaveCalls
  <2> HIDE DEF q, T
  <2>2. Head(q) \in T
    BY <2>1
  <2> QED
    BY <2>2 DEF Entry, q, T
<1> HIDE DEF e
<1>2. e \in Hooks \X Nat /\ e[2] \in DOMAIN Calls[e[1]] /\ SenderOf(e) = l[3]
  BY <1>1 DEF KnownCalls
<1>3. e[1] \in Hooks /\ e = <<e[1], e[2]>>
  BY <1>2
<1>4. Calls[e[1]][e[2]].to \in Contracts
  <2> DEFINE R == [to : Contracts, from : Senders]
             q == Calls[e[1]]
  <2>1. \A x \in R : x.to \in Contracts
    OBVIOUS
  <2>2. q \in Seq(R) /\ e[2] \in DOMAIN q
    BY <1>2, <1>3 DEF ParallelAssumption
  <2> HIDE DEF q, R
  <2>3. q[e[2]] \in R
    BY <2>2
  <2> QED
    BY <2>1, <2>3 DEF q
<1>5. To(l) \in Contracts
  BY <1>4 DEF To, e
<1> QED
  BY <1>1, <1>2, <1>3, <1>5 DEF e

(* A hook that is finished is marked with its receipts.                    *)
LEMMA FinishedState ==
  ASSUME ParallelAssumption, Copies, NEW h \in Hooks, StoreFinished(h)
  PROVE  /\ IsState(mem') /\ Image(mem) /\ Image(Head(hook[h].copy))
         /\ mem'.log[h] = Head(hook[h].copy).log[h]
         /\ \A g \in Hooks \ {h} : mem'.log[g] = mem.log[g] /\ mem'.executed[g] = mem.executed[g]
<1> DEFINE q == Head(hook[h].copy).log[h]
<1>1. mem' = [mem EXCEPT !.executed[h] = TRUE, !.log[h] = q]
  BY DEF StoreFinished
<1>2. hook[h].copy # NoCopy
  BY DEF StoreFinished, Copies
<1>3. Image(mem) /\ Image(Head(hook[h].copy))
  BY <1>2 DEF Image, IsCopy
<1>4. IsState(mem) /\ IsState(Head(hook[h].copy))
  BY <1>3 DEF Copies
<1>5. q \in [Contracts -> Nat]
  BY <1>4 DEF IsState
<1> HIDE DEF q
<1>6. IsState(mem') /\ mem'.log[h] = q
      /\ \A g \in Hooks \ {h} : mem'.log[g] = mem.log[g] /\ mem'.executed[g] = mem.executed[g]
  BY <1>1, <1>4, <1>5 DEF IsState
<1> QED
  BY <1>3, <1>6 DEF q

(* A receipt is added to those of the hook that made the call.             *)
LEMMA ResolvedState ==
  ASSUME ParallelAssumption, LanesPast, HaveCalls, Copies, NEW l \in DOMAIN lanes, Resolve(l)
  PROVE  LET y == Head(lanes[l].copy)
         IN /\ IsState(file') /\ Image(y) /\ file'.executed = y.executed
            /\ \A h \in Hooks, c \in Contracts :
                 \/ file'.log[h][c] = y.log[h][c]
                 \/ c = To(l) /\ file'.log[h][c] = y.log[h][c] + 1
<1> DEFINE y == Head(lanes[l].copy)
           g == Entry(l)[1]
           d == To(l)
<1>1. file' = [y EXCEPT !.log[g][d] = @ + 1] /\ lanes[l].copy # NoCopy
  BY DEF Resolve, Copies
<1>2. Image(y)
  BY <1>1 DEF Image, IsCopy
<1>3. IsState(y)
  BY <1>2 DEF Copies
<1>4. g \in Hooks /\ d \in Contracts
  BY EntryIs
<1> HIDE DEF y, g, d
<1>5. /\ IsState(file') /\ file'.executed = y.executed
      /\ \A h \in Hooks, c \in Contracts :
           file'.log[h][c] = y.log[h][c] \/ (c = d /\ file'.log[h][c] = y.log[h][c] + 1)
  <2>1. /\ y = [address |-> y.address, executed |-> y.executed, log |-> y.log]
        /\ DOMAIN y.log = Hooks /\ \A h \in Hooks : y.log[h] \in [Contracts -> Nat]
    BY <1>3 DEF IsState
  <2> DEFINE L == [y.log EXCEPT ![g][d] = @ + 1]
  <2>2. file' = [y EXCEPT !.log = L]
    BY <1>1, <2>1
  <2>3. /\ DOMAIN L = Hooks /\ L[g] = [y.log[g] EXCEPT ![d] = @ + 1]
        /\ \A h \in Hooks \ {g} : L[h] = y.log[h]
    BY <1>4, <2>1
  <2>4. L[g] \in [Contracts -> Nat] /\ L[g][d] = y.log[g][d] + 1
        /\ \A c \in Contracts \ {d} : L[g][c] = y.log[g][c]
    BY <1>4, <2>1, <2>3
  <2> HIDE DEF L
  <2>5. /\ file' = [address |-> file'.address, executed |-> file'.executed, log |-> file'.log]
        /\ file'.log = L /\ file'.executed = y.executed
    BY <2>1, <2>2
  <2>6. \A h \in Hooks : L[h] \in [Contracts -> Nat]
    BY <2>1, <2>3, <2>4
  <2>7. ASSUME NEW h \in Hooks, NEW c \in Contracts
        PROVE  L[h][c] = y.log[h][c] \/ (c = d /\ L[h][c] = y.log[h][c] + 1)
    BY <2>3, <2>4
  <2> QED
    BY <1>3, <2>3, <2>5, <2>6, <2>7 DEF IsState
<1> QED
  BY <1>2, <1>5 DEF y, d

(* Where what is written comes from.                                       *)
LEMMA ImagesGrow ==
  ASSUME ParallelAssumption, MainShape, LanesPast, Copies, [Next]_vars, NEW x, Image(x)'
  PROVE  \/ \E y : Image(y) /\ Alike(x, y)
         \/ \E h \in Hooks : StoreFinished(h) /\ x = mem'
         \/ \E l \in DOMAIN lanes : Resolve(l) /\ x = file'
<1>1. CASE UNCHANGED vars
  <2>1. Image(x)
    BY <1>1 DEF vars, executor, Image
  <2> QED
    BY <2>1 DEF Copies, Alike
<1> QED
  BY <1>1, LoopImages, HookImages, LaneImages DEF Next

(* A hook that is finishing has come to the end of its calls.              *)
LEMMA Finishing ==
  ASSUME ParallelAssumption, MainShape, [Next]_vars, NEW h \in Hooks, hook'[h].at = "finish"
  PROVE  hook'[h] = hook[h] \/ (FinishEvent(h) /\ hook'[h].copy = <<file>>)
<1>1. DOMAIN hook = Hooks /\ IsHook(hook[h])
  BY DEF MainShape
<1>2. CASE LoopStep
  <2>1. hook' = hook \/ ExecuteEvents
    BY <1>2 DEF LoopStep, LookUpForContract, ToBeSent, SendContract, ContractFails, ContractRefused,
       ContractReverts, RecordAddress, StoreAddress, SkipContract, EventsExecuted, NextBatch, ByLoop
  <2>2. ExecuteEvents => hook'[h] = Start(h) \/ hook'[h] = hook[h]
    BY DEF ExecuteEvents
  <2>3. Start(h).at # "finish"
    BY <1>1 DEF Start, IsHook
  <2> QED
    BY <2>1, <2>2, <2>3
<1>3. ASSUME NEW g \in Hooks, HookStep(g)
      PROVE  hook'[h] = hook[h] \/ (FinishEvent(h) /\ hook'[h].copy = <<file>>)
  <2>1. CASE g # h
    <3>1. hook'[h] = hook[h]
      BY <1>3, <2>1, HookShape
    <3> QED
      BY <3>1
  <2>2. CASE g = h /\ FinishEvent(h)
    <3>1. hook'[h] = [hook[h] EXCEPT !.at = "finish", !.copy = <<file>>]
      BY <1>1, <2>2 DEF FinishEvent
    <3>2. hook'[h].copy = <<file>>
      BY <1>1, <3>1 DEF IsHook
    <3> QED
      BY <2>2, <3>2
  <2>3. CASE g = h /\ ~FinishEvent(h)
    <3>1. HookStep(h) /\ ~FinishEvent(h)
      BY <1>3, <2>3
    <3>2. Leave(h) \/ ComeBack(h) \/ HookThrows(h) \/ Call(h) \/ HookEnds(h)
            => hook'[h].at # "finish"
      BY <1>1 DEF Leave, ComeBack, HookThrows, Call, HookEnds, IsHook
    <3>3. StoreFinished(h) => hook'[h].at # "finish"
      BY <1>1 DEF StoreFinished, IsHook
    <3>4. ReadForDep(h) => hook'[h].at # "finish"
      BY <1>1 DEF ReadForDep, IsHook
    <3>5. StoreDep(h) => hook'[h].at # "finish"
      BY <1>1 DEF StoreDep, IsHook
    <3> QED
      BY <3>1, <3>2, <3>3, <3>4, <3>5 DEF HookStep
  <2> QED
    BY <2>1, <2>2, <2>3
<1>4. ASSUME NEW l \in DOMAIN lanes, LaneStep(l)
      PROVE  hook'[h] = hook[h] \/ (FinishEvent(h) /\ hook'[h].copy = <<file>>)
  <2>1. \/ hook' = hook
        \/ \E g : \/ hook' = [hook EXCEPT ![g].at = "failed"]
                 \/ hook' = [hook EXCEPT ![g].at = "run", ![g].next = @ + 1]
    BY <1>4 DEF LaneStep, Func, LookUpForCall, SendCall, StoreInput, CallFails, LookUpFails,
       CallReverts, Breaks, Release, Resolve
  <2>2. \/ hook'[h] = hook[h] \/ hook'[h] = [hook[h] EXCEPT !.at = "failed"]
        \/ hook'[h] = [hook[h] EXCEPT !.at = "run", !.next = @ + 1]
    BY <1>1, <2>1
  <2>3. hook'[h] = hook[h]
    BY <1>1, <2>2 DEF IsHook
  <2> QED
    BY <2>3
<1>5. CASE UNCHANGED vars
  BY <1>5 DEF vars
<1> QED
  BY <1>2, <1>3, <1>4, <1>5 DEF Next
LEMMA CopiesStep ==
  ASSUME ParallelAssumption, MainShape, LanesPast, HaveCalls, Copies, [Next]_vars
  PROVE  Copies'
<1>1. ASSUME NEW x, Image(x)' PROVE IsState(x)
  BY <1>1, ImagesGrow, FinishedState, ResolvedState DEF Alike
<1>2. ASSUME NEW l \in DOMAIN lanes', lanes'[l].at \in {"sent", "store"}
      PROVE  lanes'[l].copy # NoCopy
  <2>1. CASE l \in DOMAIN lanes /\ lanes'[l] = lanes[l]
    BY <1>2, <2>1 DEF Copies
  <2>2. ASSUME NEW h \in Hooks, Call(h), ~(l \in DOMAIN lanes /\ lanes'[l] = lanes[l]) PROVE FALSE
    BY <1>2, <2>2, NewLanes DEF Lane
  <2>3. ASSUME NEW m \in DOMAIN lanes, LaneStep(m), ~(l \in DOMAIN lanes /\ lanes'[l] = lanes[l])
        PROVE  lanes'[l].copy # NoCopy
    <3>1. l = m /\ IsLane(lanes[l])
      BY <2>3, LaneAlone DEF OthersStay, LanesPast
    <3>2. <<file>> # NoCopy
      BY DEF NoCopy
    <3> QED
      BY <1>2, <2>3, <3>1, <3>2, LaneMoves, TurnsTo DEF LaneStep
  <2> QED
    BY <2>1, <2>2, <2>3, LanesAlone
<1>3. ASSUME NEW h \in Hooks, hook'[h].at = "finish" PROVE hook'[h].copy # NoCopy
  <2>1. <<file>> # NoCopy
    BY DEF NoCopy
  <2> QED
    BY <1>3, <2>1, Finishing DEF Copies
<1> QED
  BY <1>1, <1>2, <1>3 DEF Copies, IsState

(***************************************************************************)
(* No receipt is taken for the answer to another call: a contract has as   *)
(* much progress as calls to it were stored, and no hook has more receipts *)
(* of it, in whatever was read.                                            *)
(***************************************************************************)
Waited(c) == \E l \in DOMAIN lanes : lanes[l].at = "wait" /\ To(l) = c
Below(n, c) == n <= progress[c] /\ (Waited(c) => n < progress[c])
CountedLane(l) ==
  /\ lanes[l].at = "store" =>
       \A h \in Hooks : Below(Head(lanes[l].copy).log[h][To(l)] + 1, To(l))
  /\ lanes[l].at \in {"send", "sent"} => lanes[l].iterator = progress[To(l)]
  /\ lanes[l].at # "answered"
Counted ==
  /\ progress \in [Contracts -> Nat]
  /\ \A x : Image(x) => \A h \in Hooks, c \in Contracts : Below(x.log[h][c], c)
  /\ \A l \in DOMAIN lanes : CountedLane(l)

(* All that a sender calls is called by him.                               *)
LEMMA OneSender ==
  ASSUME ParallelAssumption, OneCaller, HaveCalls, NEW l \in DOMAIN lanes, NEW m \in DOMAIN lanes,
         To(l) = To(m)
  PROVE  l[3] = m[3]
<1> DEFINE g == Entry(l)[1]
           i == Entry(l)[2]
           h == Entry(m)[1]
           j == Entry(m)[2]
<1>1. /\ g \in Hooks /\ i \in DOMAIN Calls[g] /\ Calls[g][i].from = l[3]
      /\ h \in Hooks /\ j \in DOMAIN Calls[h] /\ Calls[h][j].from = m[3]
  BY EntryIs DEF SenderOf
<1>2. Calls[g][i].to = Calls[h][j].to
  BY DEF To
<1> HIDE DEF g, h, i, j
<1>3. Calls[g][i].from = Calls[h][j].from
  BY <1>1, <1>2 DEF OneCaller
<1> QED
  BY <1>1, <1>3

(* Only one lane at a time is at a call to a contract.                     *)
LEMMA OneAtATime ==
  ASSUME ParallelAssumption, OneCaller, HaveCalls, Queues,
         NEW l \in DOMAIN lanes, lanes[l].at \notin {"queued", "store"},
         NEW m \in DOMAIN lanes, lanes[m].at \notin {"queued", "store"}, To(l) = To(m)
  PROVE  l = m
<1>1. l[3] = m[3]
  BY OneSender
<1>2. HasKey(l) /\ HasKey(m)
  BY DEF Queues
<1> QED
  BY <1>1, <1>2 DEF HasKey

(* A lane that does not resolve its call keeps it.                         *)
LEMMA SameCall ==
  ASSUME NEW l \in DOMAIN lanes, l \in DOMAIN lanes', lanes'[l].todo = lanes[l].todo
  PROVE  To(l)' = To(l) /\ Entry(l)' = Entry(l)
BY DEF To, Entry

(* No hook finds a receipt for a call that was not made.                   *)
LEMMA NoReplay ==
  ASSUME ParallelAssumption, LanesPast, HaveCalls, Copies, Counted, NEW l \in DOMAIN lanes, Func(l)
  PROVE  ~(file.log[l[1]][To(l)] > progress[To(l)])
<1>1. IsLane(lanes[l]) /\ l[1] \in Hooks /\ To(l) \in Contracts
  BY EntryIs DEF LanesPast
<1>2. file.log[l[1]][To(l)] <= progress[To(l)]
  BY <1>1 DEF Counted, Below, Image
<1>3. IsState(file)
  BY DEF Copies, Image
<1>4. file.log[l[1]][To(l)] \in Nat /\ progress[To(l)] \in Nat
  BY <1>1, <1>3 DEF IsState, Counted
<1> QED
  BY <1>2, <1>4

(* A contract makes progress when the input of a call to it is stored.     *)
LEMMA ProgressMoves ==
  ASSUME ParallelAssumption, LanesPast, HaveCalls, Copies, Counted, [Next]_vars
  PROVE  \/ progress' = progress /\ ~\E l \in DOMAIN lanes : StoreInput(l)
         \/ \E l \in DOMAIN lanes : /\ StoreInput(l) /\ To(l) \in Contracts
                                     /\ progress' = [progress EXCEPT ![To(l)] = @ + 1]
<1>1. ASSUME NEW l \in DOMAIN lanes, StoreInput(l)
      PROVE  To(l) \in Contracts /\ progress' = [progress EXCEPT ![To(l)] = @ + 1]
  <2>1. /\ progress' = [progress EXCEPT ![To(l)] = lanes[l].iterator + 1]
        /\ lanes[l].iterator = progress[To(l)] /\ To(l) \in Contracts
    BY <1>1, EntryIs DEF StoreInput, Counted, CountedLane
  <2> QED
    BY <2>1
<1>2. ASSUME NEW l \in DOMAIN lanes, Func(l) PROVE progress' = progress
  BY <1>2, NoReplay DEF Func
<1>3. ASSUME NEW l \in DOMAIN lanes, LaneStep(l), ~StoreInput(l) PROVE progress' = progress
  BY <1>2, <1>3 DEF LaneStep, LookUpForCall, SendCall, CallFails, LookUpFails, CallReverts, Breaks,
     Release, Resolve
<1>4. ASSUME NEW h \in Hooks, Call(h) PROVE progress' = progress
  BY <1>4 DEF Call
<1> QED
  BY <1>1, <1>3, <1>4, LanesAlone DEF LaneStep

(* What is below the progress of a contract stays below it.                *)
LEMMA BelowStays ==
  ASSUME ParallelAssumption, OneCaller, MainShape, LanesPast, HaveCalls, Copies, Queues, Counted,
         [Next]_vars, NEW c \in Contracts, NEW n \in Nat, Below(n, c)
  PROVE  Below(n, c)'
<1>1. progress[c] \in Nat
  BY DEF Counted
<1>2. ASSUME NEW l \in DOMAIN lanes', lanes'[l].at = "wait",
             ~(l \in DOMAIN lanes /\ lanes'[l] = lanes[l])
      PROVE  l \in DOMAIN lanes /\ StoreInput(l)
  <2>1. ASSUME NEW h \in Hooks, Call(h) PROVE FALSE
    BY <1>2, <2>1, NewLanes DEF Lane
  <2>2. ASSUME NEW m \in DOMAIN lanes, LaneStep(m) PROVE l \in DOMAIN lanes /\ StoreInput(l)
    <3>1. l = m /\ IsLane(lanes[l])
      BY <1>2, <2>2, LaneAlone DEF OthersStay, LanesPast
    <3> QED
      BY <1>2, <2>2, <3>1, LaneMoves, TurnsTo DEF LaneStep
  <2> QED
    BY <1>2, <2>1, <2>2, LanesAlone
<1>3. CASE progress' = progress /\ ~\E l \in DOMAIN lanes : StoreInput(l)
  <2>1. Waited(c)' => Waited(c)
    <3> SUFFICES ASSUME NEW l \in DOMAIN lanes', lanes'[l].at = "wait", To(l)' = c PROVE Waited(c)
      BY DEF Waited
    <3>1. l \in DOMAIN lanes /\ lanes'[l] = lanes[l]
      BY <1>2, <1>3
    <3>2. To(l)' = To(l)
      BY <3>1, SameCall
    <3> QED
      BY <3>1, <3>2 DEF Waited
  <2> QED
    BY <1>3, <2>1 DEF Below
<1>4. ASSUME NEW l \in DOMAIN lanes, StoreInput(l), To(l) \in Contracts,
             progress' = [progress EXCEPT ![To(l)] = @ + 1]
      PROVE  Below(n, c)'
  <2>1. CASE To(l) = c
    <3>1. progress'[c] = progress[c] + 1 /\ n <= progress[c]
      BY <1>4, <2>1 DEF Counted, Below
    <3>2. n <= progress'[c] /\ n < progress'[c]
      BY <1>1, <3>1
    <3> QED
      BY <3>2 DEF Below
  <2>2. CASE To(l) # c
    <3>1. progress'[c] = progress[c]
      BY <1>4, <2>2 DEF Counted
    <3>2. Waited(c)' => Waited(c)
      <4> SUFFICES ASSUME NEW m \in DOMAIN lanes', lanes'[m].at = "wait", To(m)' = c PROVE Waited(c)
        BY DEF Waited
      <4>1. IsLane(lanes[l]) /\ LaneStep(l)
        BY <1>4 DEF LanesPast, LaneStep
      <4>2. ~Resolve(l)
        BY <1>4 DEF StoreInput, Resolve
      <4>3. To(l)' = To(l)
        BY <4>1, <4>2, LaneMoves, SameCall
      <4>4. m # l
        BY <2>2, <4>3
      <4>5. m \in DOMAIN lanes /\ lanes'[m] = lanes[m]
        BY <4>1, <4>4, LaneAlone DEF OthersStay
      <4>6. To(m)' = To(m)
        BY <4>5, SameCall
      <4> QED
        BY <4>5, <4>6 DEF Waited
    <3> QED
      BY <3>1, <3>2 DEF Below
  <2> QED
    BY <2>1, <2>2
<1> QED
  BY <1>3, <1>4, ProgressMoves

LEMMA CountedStep ==
  ASSUME ParallelAssumption, OneCaller, MainShape, RootKnown, LanesPast, HaveCalls, Copies, Queues,
         Counted, [Next]_vars
  PROVE  Counted'
<1>1. progress' \in [Contracts -> Nat]
  <2>1. progress \in [Contracts -> Nat]
    BY DEF Counted
  <2>2. ASSUME NEW c \in Contracts PROVE [progress EXCEPT ![c] = @ + 1] \in [Contracts -> Nat]
    BY <2>1
  <2> QED
    BY <2>1, <2>2, ProgressMoves
<1>2. ASSUME NEW x, Image(x)', NEW h \in Hooks, NEW c \in Contracts PROVE Below(x.log[h][c], c)'
  <2>1. ASSUME NEW y, Image(y) PROVE y.log[h][c] \in Nat /\ Below(y.log[h][c], c)
    BY <2>1 DEF Copies, IsState, Counted
  <2>2. ASSUME NEW y, Image(y), x.log[h][c] = y.log[h][c] PROVE Below(x.log[h][c], c)'
    BY <2>1, <2>2, BelowStays
  <2>3. ASSUME NEW y, Image(y), Alike(x, y) PROVE Below(x.log[h][c], c)'
    BY <2>2, <2>3 DEF Alike
  <2>4. ASSUME NEW g \in Hooks, StoreFinished(g), x = mem' PROVE Below(x.log[h][c], c)'
    BY <2>2, <2>4, FinishedState
  <2>5. ASSUME NEW l \in DOMAIN lanes, Resolve(l), x = file' PROVE Below(x.log[h][c], c)'
    <3> DEFINE y == Head(lanes[l].copy)
    <3>1. /\ Image(y)
          /\ \/ x.log[h][c] = y.log[h][c]
             \/ c = To(l) /\ x.log[h][c] = y.log[h][c] + 1
      BY <2>5, ResolvedState
    <3>2. lanes[l].at = "store"
      BY <2>5 DEF Resolve
    <3>3. Below(y.log[h][To(l)] + 1, To(l))
      BY <3>2 DEF Counted, CountedLane
    <3> HIDE DEF y
    <3>4. CASE x.log[h][c] = y.log[h][c]
      BY <2>2, <3>1, <3>4
    <3>5. CASE c = To(l) /\ x.log[h][c] = y.log[h][c] + 1
      <4>1. x.log[h][c] \in Nat
        BY <2>1, <3>1, <3>5
      <4> QED
        BY <3>3, <3>5, <4>1, BelowStays
    <3> QED
      BY <3>1, <3>4, <3>5
  <2> QED
    BY <1>2, <2>3, <2>4, <2>5, ImagesGrow
<1>3. ASSUME NEW l \in DOMAIN lanes', l \in DOMAIN lanes, lanes'[l] = lanes[l]
      PROVE  CountedLane(l)'
  <2>1. To(l)' = To(l) /\ To(l) \in Contracts
    BY <1>3, SameCall, EntryIs
  <2>2. ASSUME lanes[l].at = "store", NEW h \in Hooks
        PROVE  Below(Head(lanes[l].copy).log[h][To(l)] + 1, To(l))'
    <3> DEFINE y == Head(lanes[l].copy)
    <3>1. Image(y)
      BY <1>3, <2>2 DEF Copies, Image, IsCopy
    <3>2. PICK m \in Nat : m = y.log[h][To(l)]
      <4>1. y.log[h][To(l)] \in Nat
        BY <2>1, <3>1 DEF Copies, IsState
      <4> HIDE DEF y
      <4> QED
        BY <4>1
    <3>3. PICK n \in Nat : n = m + 1
      OBVIOUS
    <3>4. PICK c \in Contracts : c = To(l)
      BY <2>1
    <3>5. Below(n, c)
      BY <1>3, <2>2, <3>2, <3>3, <3>4 DEF Counted, CountedLane
    <3>6. Below(n, c)'
      BY <3>5, BelowStays
    <3>7. Head(lanes'[l].copy).log[h][To(l)'] + 1 = n /\ To(l)' = c
      BY <1>3, <2>1, <3>2, <3>3, <3>4
    <3> QED
      BY <3>6, <3>7 DEF Below
  <2>3. ASSUME lanes[l].at \in {"send", "sent"} PROVE lanes'[l].iterator = progress'[To(l)]
    <3>1. lanes[l].iterator = progress[To(l)]
      BY <1>3, <2>3 DEF Counted, CountedLane
    <3>2. ASSUME NEW m \in DOMAIN lanes, StoreInput(m) PROVE To(m) # To(l)
      <4>1. lanes[m].at = "sent" /\ IsLane(lanes[m]) /\ LaneStep(m)
        BY <3>2 DEF StoreInput, LanesPast, LaneStep
      <4>2. m # l
        BY <1>3, <3>2, <4>1, LaneMoves
      <4> QED
        BY <1>3, <2>3, <4>1, <4>2, OneAtATime
    <3>3. progress'[To(l)] = progress[To(l)]
      BY <2>1, <3>2, ProgressMoves DEF Counted, CountedLane
    <3> QED
      BY <1>3, <3>1, <3>3
  <2> QED
    BY <1>3, <2>1, <2>2, <2>3 DEF Counted, CountedLane
<1>4. ASSUME NEW l \in DOMAIN lanes', l \notin DOMAIN lanes \/ lanes'[l] # lanes[l], NEW h \in Hooks,
             Call(h)
      PROVE  CountedLane(l)'
  BY <1>4, NewLanes DEF CountedLane, Lane
<1>5. ASSUME NEW l \in DOMAIN lanes, LaneStep(l), l \in DOMAIN lanes' PROVE CountedLane(l)'
  <2>1. IsLane(lanes[l]) /\ To(l) \in Contracts
    BY EntryIs DEF LanesPast
  <2>2. CountedLane(l)
    BY DEF Counted
  <2>3. CASE Resolve(l)
    BY <1>5, <2>1, <2>3, TurnsTo DEF CountedLane
  <2>4. ~Resolve(l) => To(l)' = To(l)
    BY <1>5, <2>1, LaneMoves, SameCall
  <2>5. CASE Func(l)
    <3>1. lanes'[l].at = "send" /\ lanes'[l].iterator = progress[To(l)] /\ progress' = progress
      BY <1>5, <2>1, <2>5, LaneMoves, NoReplay
    <3>2. To(l)' = To(l)
      BY <2>4, <2>5 DEF Func, Resolve
    <3> QED
      BY <3>1, <3>2 DEF CountedLane
  <2>6. CASE LookUpForCall(l) \/ SendCall(l)
    <3>1. lanes'[l].at \in {"send", "sent"} /\ lanes'[l].iterator = lanes[l].iterator
          /\ lanes[l].at = "send"
      BY <1>5, <2>1, <2>6, LaneMoves
    <3>2. To(l)' = To(l) /\ progress' = progress
      BY <2>4, <2>6 DEF LookUpForCall, SendCall, Resolve
    <3> QED
      BY <2>2, <3>1, <3>2 DEF CountedLane
  <2>7. CASE StoreInput(l) \/ LookUpFails(l) \/ CallFails(l) \/ CallReverts(l)
    BY <1>5, <2>1, <2>7, LaneMoves DEF CountedLane
  <2>8. CASE Release(l)
    <3>1. /\ lanes[l].at \in {"answered", "wait"} /\ lanes'[l].at = "store"
          /\ lanes'[l].copy = <<file>>
      BY <1>5, <2>1, <2>8, LaneMoves
    <3>2. lanes[l].at = "wait"
      BY <2>2, <3>1 DEF CountedLane
    <3>3. PICK c \in Contracts : c = To(l)
      BY <2>1
    <3>4. To(l)' = c /\ progress' = progress
      BY <2>4, <2>8, <3>2, <3>3 DEF Release, Resolve
    <3>5. Waited(c)
      BY <3>2, <3>3 DEF Waited
    <3>6. ASSUME NEW m \in DOMAIN lanes', lanes'[m].at = "wait", To(m)' = c PROVE FALSE
      <4>1. m # l
        BY <3>1, <3>6
      <4>2. m \in DOMAIN lanes /\ lanes'[m] = lanes[m]
        BY <1>5, <4>1, LaneAlone DEF OthersStay
      <4>3. To(m) = To(l)
        BY <3>3, <3>6, <4>2, SameCall
      <4> QED
        BY <3>2, <3>6, <4>1, <4>2, <4>3, OneAtATime
    <3>7. IsState(file)
      BY DEF Copies, Image
    <3>8. ASSUME NEW h \in Hooks PROVE Below(Head(lanes[l].copy).log[h][To(l)] + 1, To(l))'
      <4>1. file.log[h][c] \in Nat /\ progress[c] \in Nat /\ Below(file.log[h][c], c)
        BY <3>7 DEF IsState, Counted, Image
      <4>2. PICK n \in Nat : n = file.log[h][c] + 1
        BY <4>1
      <4>3. n <= progress'[c]
        BY <3>4, <3>5, <4>1, <4>2 DEF Below
      <4>4. Below(n, c)'
        BY <3>6, <4>3 DEF Below, Waited
      <4>5. Head(lanes'[l].copy).log[h][To(l)'] + 1 = n
        BY <3>1, <3>4, <4>2
      <4> QED
        BY <3>4, <4>4, <4>5 DEF Below
    <3> QED
      BY <3>1, <3>8 DEF CountedLane
  <2> QED
    BY <1>5, <2>3, <2>5, <2>6, <2>7, <2>8 DEF LaneStep
<1>6. ASSUME NEW l \in DOMAIN lanes' PROVE CountedLane(l)'
  BY <1>3, <1>4, <1>5, LanesAlone, LaneAlone DEF OthersStay
<1> QED
  BY <1>1, <1>2, <1>6 DEF Counted

(***************************************************************************)
(* What was sent.                                                          *)
(***************************************************************************)
Sent(e) == \E k \in DOMAIN txs : txs[k].what = e
AtEndOf(h) == hook[h].next > Len(Calls[h])
SentInv ==
  /\ \E S : txs \in Seq(S)
  /\ \A l \in DOMAIN lanes : lanes[l].at \in {"sent", "wait", "store"} => Sent(Entry(l))
  /\ \A h \in Hooks : \A i \in DOMAIN Calls[h] : i < hook[h].next => Sent(<<h, i>>)
  /\ \A h \in Hooks : hook[h].at = "finish" => AtEndOf(h)
  /\ \A x : Image(x) => \A h \in Hooks : x.executed[h] => AtEndOf(h)

(* What was sent stays sent.                                               *)
LEMMA SentStays ==
  ASSUME SentInv, [Next]_vars
  PROVE  /\ \E S : txs' \in Seq(S)
         /\ \A e : Sent(e) => Sent(e)'
         /\ \A l \in DOMAIN lanes : \A e : SendCall(l) /\ e = Entry(l) => Sent(e)'
<1>1. PICK S : txs \in Seq(S)
  BY DEF SentInv
<1>2. ASSUME NEW x, txs' = Append(txs, x)
      PROVE  (\E T : txs' \in Seq(T)) /\ (\A e : Sent(e) \/ e = x.what => Sent(e)')
  <2> DEFINE T == S \cup {x}
  <2>1. txs \in Seq(T) /\ x \in T
    BY <1>1
  <2> HIDE DEF T
  <2>2. txs' \in Seq(T) /\ Len(txs') = Len(txs) + 1 /\ txs'[Len(txs) + 1] = x
        /\ \A k \in 1 .. Len(txs) : txs'[k] = txs[k]
    BY <1>2, <2>1, AppendProperties
  <2>3. DOMAIN txs = 1 .. Len(txs) /\ DOMAIN txs' = 1 .. Len(txs) + 1 /\ Len(txs) \in Nat
    BY <2>1, <2>2
  <2>4. DOMAIN txs \subseteq DOMAIN txs' /\ Len(txs) + 1 \in DOMAIN txs'
    BY <2>3
  <2>5. ASSUME NEW e, Sent(e) PROVE Sent(e)'
    BY <2>2, <2>3, <2>4, <2>5 DEF Sent
  <2>6. Sent(x.what)'
    BY <2>2, <2>4 DEF Sent
  <2> QED
    BY <2>2, <2>5, <2>6
<1>3. ASSUME txs' = txs PROVE (\E T : txs' \in Seq(T)) /\ \A e : Sent(e) => Sent(e)'
  BY <1>1, <1>3 DEF Sent
<1>4. ASSUME NEW l \in DOMAIN lanes, SendCall(l)
      PROVE  \E x : txs' = Append(txs, x) /\ x.what = Entry(l)
  <2> DEFINE x == [from |-> l[3], nonce |-> Nonce(l[3], lanes[l].looked), what |-> Entry(l)]
  <2>1. txs' = Append(txs, x) /\ x.what = Entry(l)
    BY <1>4 DEF SendCall, Send
  <2> HIDE DEF x
  <2> QED
    BY <2>1
<1>5. ASSUME NEW c \in Contracts, SendContract(c) PROVE \E x : txs' = Append(txs, x)
  BY <1>5 DEF SendContract, ToBeSent, Send
<1>6. ASSUME LoopStep PROVE txs' = txs \/ \E x : txs' = Append(txs, x)
  <2>1. CASE \E c \in Contracts : SendContract(c)
    BY <1>5, <2>1
  <2>2. CASE ~\E c \in Contracts : SendContract(c)
    BY <1>6, <2>2 DEF LoopStep, LookUpForContract, ToBeSent, ContractFails, ContractRefused,
       ContractReverts, RecordAddress, StoreAddress, SkipContract, ExecuteEvents, EventsExecuted,
       NextBatch, chain
  <2> QED
    BY <2>1, <2>2
<1>7. ASSUME NEW h \in Hooks, HookStep(h) PROVE txs' = txs
  BY <1>7 DEF HookStep, Leave, ComeBack, HookThrows, Call, FinishEvent, StoreFinished, ReadForDep,
     StoreDep, HookEnds, ByHook, chain
<1>8. ASSUME NEW l \in DOMAIN lanes, LaneStep(l), ~SendCall(l) PROVE txs' = txs
  BY <1>8 DEF LaneStep, Func, LookUpForCall, StoreInput, CallFails, LookUpFails, CallReverts,
     Breaks, Release, Resolve, chain
<1>9. (\E T : txs' \in Seq(T)) /\ \A e : Sent(e) => Sent(e)'
  <2>1. CASE UNCHANGED vars
    BY <1>3, <2>1 DEF vars, chain
  <2> QED
    BY <1>2, <1>3, <1>4, <1>6, <1>7, <1>8, <2>1 DEF Next
<1>10. ASSUME NEW l \in DOMAIN lanes, NEW e, SendCall(l), e = Entry(l) PROVE Sent(e)'
  BY <1>2, <1>4, <1>10
<1> QED
  BY <1>9, <1>10

(* A hook comes to its next call when the one it waits for is resolved.    *)
LEMMA NextMoves ==
  ASSUME ParallelAssumption, MainShape, [Next]_vars, NEW h \in Hooks
  PROVE  \/ hook'[h].next = hook[h].next
         \/ \E l \in DOMAIN lanes : /\ Resolve(l) /\ hook'[h].next = hook[h].next + 1
                                     /\ Entry(l)[1] = h /\ Entry(l)[2] = hook[h].next
<1>1. DOMAIN hook = Hooks /\ IsHook(hook[h])
  BY DEF MainShape
<1>2. CASE LoopStep
  <2>1. hook' = hook \/ ExecuteEvents
    BY <1>2 DEF LoopStep, LookUpForContract, ToBeSent, SendContract, ContractFails, ContractRefused,
       ContractReverts, RecordAddress, StoreAddress, SkipContract, EventsExecuted, NextBatch, ByLoop
  <2>2. ExecuteEvents => hook'[h] = Start(h) \/ hook'[h] = hook[h]
    BY DEF ExecuteEvents
  <2>3. Start(h).next = hook[h].next
    BY <1>1 DEF Start, IsHook
  <2> QED
    BY <2>1, <2>2, <2>3
<1>3. ASSUME NEW g \in Hooks, HookStep(g) PROVE hook'[h].next = hook[h].next
  BY <1>3, HookShape
<1>4. ASSUME NEW l \in DOMAIN lanes, Resolve(l)
      PROVE  \/ hook'[h].next = hook[h].next
             \/ /\ hook'[h].next = hook[h].next + 1
                /\ Entry(l)[1] = h /\ Entry(l)[2] = hook[h].next
  <2> DEFINE g == Entry(l)[1]
             i == Entry(l)[2]
  <2>1. \/ hook' = hook
        \/ hook[g].next = i /\ hook' = [hook EXCEPT ![g].at = "run", ![g].next = @ + 1]
    BY <1>4 DEF Resolve
  <2> HIDE DEF g, i
  <2>2. \/ hook'[h] = hook[h]
        \/ g = h /\ hook[h].next = i /\ hook'[h] = [hook[h] EXCEPT !.at = "run", !.next = @ + 1]
    BY <1>1, <2>1
  <2>3. hook'[h].next = hook[h].next \/ (g = h /\ hook[h].next = i /\ hook'[h].next = hook[h].next + 1)
    BY <1>1, <2>2 DEF IsHook
  <2> QED
    BY <2>3 DEF g, i
<1>5. ASSUME NEW l \in DOMAIN lanes, LaneStep(l), ~Resolve(l) PROVE hook'[h].next = hook[h].next
  <2>1. hook' = hook \/ \E g : hook' = [hook EXCEPT ![g].at = "failed"]
    BY <1>5 DEF LaneStep, Func, LookUpForCall, SendCall, StoreInput, CallFails, LookUpFails,
       CallReverts, Breaks, Release
  <2>2. hook'[h] = hook[h] \/ hook'[h] = [hook[h] EXCEPT !.at = "failed"]
    BY <1>1, <2>1
  <2> QED
    BY <1>1, <2>2 DEF IsHook
<1>6. CASE UNCHANGED vars
  BY <1>6 DEF vars
<1> QED
  BY <1>2, <1>3, <1>4, <1>5, <1>6 DEF Next

LEMMA SentStep ==
  ASSUME ParallelAssumption, MainShape, RootKnown, LanesPast, HaveCalls, Copies, Counted, SentInv,
         [Next]_vars
  PROVE  SentInv'
<1>1. (\E S : txs' \in Seq(S)) /\ \A e : Sent(e) => Sent(e)'
  BY SentStays
<1>2. ASSUME NEW h \in Hooks, AtEndOf(h) PROVE AtEndOf(h)'
  <2>1. hook[h].next \in Nat /\ hook'[h].next \in Nat /\ hook'[h].next >= hook[h].next
    BY StepShape DEF MainShape, HooksGoOn
  <2>2. Len(Calls[h]) \in Nat
    BY DEF ParallelAssumption
  <2> QED
    BY <1>2, <2>1, <2>2 DEF AtEndOf
<1>3. ASSUME NEW l \in DOMAIN lanes', lanes'[l].at \in {"sent", "wait", "store"}
      PROVE  Sent(Entry(l))'
  <2>1. CASE l \in DOMAIN lanes /\ lanes'[l] = lanes[l]
    <3>1. PICK e : e = Entry(l)
      OBVIOUS
    <3>2. Entry(l)' = e
      BY <2>1, <3>1, SameCall
    <3>3. Sent(e)
      BY <1>3, <2>1, <3>1 DEF SentInv
    <3>4. Sent(e)'
      BY <1>1, <3>3
    <3> QED
      BY <3>2, <3>4 DEF Sent
  <2>2. ASSUME NEW h \in Hooks, Call(h), ~(l \in DOMAIN lanes /\ lanes'[l] = lanes[l]) PROVE FALSE
    BY <1>3, <2>2, NewLanes DEF Lane
  <2>3. ASSUME NEW m \in DOMAIN lanes, LaneStep(m), ~(l \in DOMAIN lanes /\ lanes'[l] = lanes[l])
        PROVE  Sent(Entry(l))'
    <3>1. l = m /\ IsLane(lanes[l])
      BY <2>3, LaneAlone DEF OthersStay, LanesPast
    <3>2. ~Resolve(l)
      BY <1>3, <2>3, <3>1, TurnsTo
    <3>3. PICK e : e = Entry(l)
      OBVIOUS
    <3>4. Entry(l)' = e
      BY <1>3, <2>3, <3>1, <3>2, <3>3, LaneMoves, SameCall
    <3>5. SendCall(l) \/ lanes[l].at \in {"sent", "wait"}
      BY <1>3, <2>3, <3>1, <3>2, LaneMoves DEF LaneStep, Counted, CountedLane
    <3>6. Sent(e)'
      BY <1>1, <2>3, <3>1, <3>3, <3>5, SentStays DEF SentInv
    <3> QED
      BY <3>4, <3>6 DEF Sent
  <2> QED
    BY <2>1, <2>2, <2>3, LanesAlone
<1>4. ASSUME NEW h \in Hooks, NEW i \in DOMAIN Calls[h], i < hook'[h].next PROVE Sent(<<h, i>>)'
  <2>1. CASE i < hook[h].next
    BY <1>1, <2>1 DEF SentInv
  <2>2. CASE ~(i < hook[h].next)
    <3>1. i \in Nat /\ hook[h].next \in Nat
      BY CallsAre DEF MainShape
    <3>2. PICK l \in DOMAIN lanes : /\ Resolve(l) /\ hook'[h].next = hook[h].next + 1
                                     /\ Entry(l)[1] = h /\ Entry(l)[2] = hook[h].next
      BY <1>4, <2>2, NextMoves
    <3>3. i = hook[h].next
      BY <1>4, <2>2, <3>1, <3>2
    <3>4. Entry(l) = <<h, i>>
      BY <3>2, <3>3, EntryIs
    <3>5. Sent(<<h, i>>)
      BY <3>2, <3>4 DEF SentInv, Resolve
    <3> QED
      BY <1>1, <3>5
  <2> QED
    BY <2>1, <2>2
<1>5. ASSUME NEW h \in Hooks, hook'[h].at = "finish" PROVE AtEndOf(h)'
  <2>1. CASE hook'[h] = hook[h]
    BY <1>2, <1>5, <2>1 DEF SentInv
  <2>2. CASE FinishEvent(h)
    <3>1. AtEndOf(h)
      BY <2>2 DEF FinishEvent, AtEnd, AtEndOf
    <3> QED
      BY <1>2, <3>1
  <2> QED
    BY <1>5, <2>1, <2>2, Finishing
<1>6. ASSUME NEW x, Image(x)', NEW h \in Hooks, x.executed[h] PROVE AtEndOf(h)'
  <2>1. ASSUME NEW y, Image(y), y.executed[h] PROVE AtEndOf(h)'
    BY <1>2, <2>1 DEF SentInv
  <2>2. ASSUME NEW g \in Hooks, StoreFinished(g), x = mem' PROVE AtEndOf(h)'
    <3>1. CASE g = h
      <4>1. AtEndOf(h)
        BY <2>2, <3>1 DEF StoreFinished, SentInv
      <4> QED
        BY <1>2, <4>1
    <3>2. CASE g # h
      BY <1>6, <2>1, <2>2, <3>2, FinishedState
    <3> QED
      BY <3>1, <3>2
  <2>3. ASSUME NEW l \in DOMAIN lanes, Resolve(l), x = file' PROVE AtEndOf(h)'
    <3>1. Image(Head(lanes[l].copy)) /\ Head(lanes[l].copy).executed = x.executed
      BY <2>3, ResolvedState
    <3> QED
      BY <1>6, <2>1, <3>1
  <2> QED
    BY <1>6, <2>1, <2>2, <2>3, ImagesGrow DEF Alike
<1> QED
  BY <1>1, <1>3, <1>4, <1>5, <1>6 DEF SentInv

(* All of it at the start.                                                 *)
LEMMA InitSent ==
  ASSUME ParallelAssumption, Init
  PROVE  RootCalls /\ HaveCalls /\ Queues /\ Copies /\ Counted /\ SentInv
<1>1. /\ root = <<>> /\ DOMAIN lanes = {} /\ queue = [s \in Senders |-> <<>>] /\ txs = <<>>
      /\ progress = [c \in Contracts |-> 0] /\ file = mem /\ main.copy = NoCopy
      /\ \A h \in Hooks : hook[h].at = "idle" /\ hook[h].next = 1 /\ hook[h].copy = NoCopy
  BY DEF Init
<1>2. PICK d : mem = NewState(d)
  BY DEF Init
<1>3. IsState(mem) /\ \A h \in Hooks : ~mem.executed[h] /\ \A c \in Contracts : mem.log[h][c] = 0
  BY <1>2 DEF NewState, IsState
<1>4. \A x : Image(x) => x = mem
  BY <1>1 DEF Image, IsCopy
<1>5. RootCalls /\ HaveCalls /\ Queues
  BY <1>1 DEF RootCalls, HaveCalls, Queues
<1>6. Copies
  BY <1>1, <1>3, <1>4 DEF Copies
<1>7. Counted
  BY <1>1, <1>3, <1>4 DEF Counted, Below, Waited
<1>8. SentInv
  <2>1. txs \in Seq({})
    BY <1>1
  <2>2. \A h \in Hooks : \A i \in DOMAIN Calls[h] : ~(i < hook[h].next)
    BY <1>1, CallsAre
  <2> QED
    BY <1>1, <1>3, <1>4, <2>1, <2>2 DEF SentInv
<1> QED
  BY <1>5, <1>6, <1>7, <1>8

LEMMA SentExecuted ==
  ASSUME ParallelAssumption, MainShape, SentInv
  PROVE  ExecutedMeansSent
<1> SUFFICES ASSUME NEW h \in Hooks, mem.executed[h] \/ file.executed[h], NEW i \in DOMAIN Calls[h]
             PROVE  Sent(<<h, i>>)
  BY DEF ExecutedMeansSent, Sent
<1>1. AtEndOf(h)
  BY DEF SentInv, Image
<1>2. i < hook[h].next
  <2> DEFINE R == [to : Contracts, from : Senders]
             q == Calls[h]
  <2>1. q \in Seq(R)
    BY DEF ParallelAssumption
  <2> HIDE DEF R, q
  <2>2. DOMAIN q = 1 .. Len(q) /\ Len(q) \in Nat
    BY <2>1
  <2>3. i \in 1 .. Len(q) /\ hook[h].next > Len(q) /\ hook[h].next \in Nat
    BY <1>1, <2>2 DEF AtEndOf, MainShape, q
  <2> QED
    BY <2>2, <2>3
<1> QED
  BY <1>2 DEF SentInv

(* Receipts are counted, not matched with the calls they are of, and the   *)
(* progress of a contract is written from what it was before the call was  *)
(* sent.  When no contract is called by two senders, no call of a hook is  *)
(* taken for made that was not sent, whatever other hooks do in between    *)
(* and whatever copies of the state file are written over each other: a    *)
(* hook that is marked executed, in memory or on disk, has sent them all.  *)
THEOREM ExecutedSent ==
  ASSUME ParallelAssumption, OneCaller
  PROVE  Spec => []ExecutedMeansSent
<1> DEFINE Inv == /\ MainShape /\ RootKnown /\ LanesPast
                  /\ RootCalls /\ HaveCalls /\ Queues /\ Copies /\ Counted /\ SentInv
<1>1. Init => Inv
  BY InitPlaced, InitSent
<1>2. Inv /\ [Next]_vars => Inv'
  BY StepShape, RootStep, LanesPastStep, RootCallsStep, HaveCallsStep, QueuesStep, CopiesStep,
     CountedStep, SentStep
<1>3. Inv => ExecutedMeansSent
  BY SentExecuted
<1>4. QED
  BY <1>1, <1>2, <1>3, PTL DEF Spec

(***************************************************************************)
(* Turns: who runs between two waits, and what is on record.               *)
(***************************************************************************)
(* Who has read the file, or reads it next, before anything outside is     *)
(* waited for: the loop, a hook, or a lane.                                *)
OfLoop == <<"loop", 0>>
OfHook(h) == <<"hook", h>>
OfLane(l) == <<"lane", l>>
HookBusy(h) == hook[h].at \in {"finish", "deps"} \/ AtEnd(h)
LaneBusy(l) == lanes[l].at \in {"sent", "store"}
Busy == {x \in {OfLoop} : ~LoopWaits} \cup {OfHook(h) : h \in {g \in Hooks : HookBusy(g)}}
        \cup {OfLane(l) : l \in {m \in DOMAIN lanes : LaneBusy(m)}}
Alone == \A x, y \in Busy : x = y
FirstCall == \A h \in Hooks : hook[h].at = "idle" => hook[h].next = 1

(* Nobody is busy when everything waits.                                   *)
LEMMA QuietIdle ==
  ASSUME Quiet
  PROVE  Busy = {}
BY DEF Quiet, Busy, HookBusy, LaneBusy, AtEnd, Running

(* Who is busy.                                                            *)
LEMMA NowBusy ==
  /\ ~LoopWaits => OfLoop \in Busy
  /\ \A h \in Hooks : HookBusy(h) => OfHook(h) \in Busy
  /\ \A l \in DOMAIN lanes : LaneBusy(l) => OfLane(l) \in Busy
BY DEF Busy

(* Whether the loop waits is changed by nobody else but a hook that ends.  *)
LEMMA LoopStays ==
  ASSUME ParallelAssumption, MainShape, main' = main, mem'.address = mem.address, custom' = custom,
         \A h \in Hooks : hook'[h].at = "ended" <=> hook[h].at = "ended"
  PROVE  LoopWaits' <=> LoopWaits
<1>1. InBatch \subseteq Hooks /\ InBatch' = InBatch
  BY BatchesAre DEF MainShape, InBatch
<1> QED
  BY <1>1 DEF LoopWaits, Skips

(* What each step of a hook does to it.                                    *)
LEMMA HookMoves ==
  ASSUME MainShape, NEW h \in Hooks, HookStep(h)
  PROVE  /\ Leave(h) => hook[h].at = "run" /\ hook'[h].at = "away"
         /\ ComeBack(h) => hook[h].at = "away" /\ hook'[h].at = "back"
         /\ HookThrows(h) => hook[h].at \in {"run", "back"} /\ hook'[h].at = "failed"
         /\ Call(h) => hook[h].at \in {"run", "back"} /\ hook'[h].at = "await"
         /\ FinishEvent(h) => AtEnd(h) /\ hook'[h].at = "finish"
         /\ StoreFinished(h) => /\ hook[h].at = "finish" /\ hook'[h].at = "deps"
                                /\ hook'[h].copy = NoCopy
         /\ ReadForDep(h) => hook[h].at = "deps" /\ hook'[h].at = "deps" /\ hook'[h].copy = <<file>>
         /\ StoreDep(h) => /\ hook[h].at = "deps" /\ hook[h].copy # NoCopy
                           /\ hook'[h].at = "deps" /\ hook'[h].copy = NoCopy
         /\ HookEnds(h) => hook[h].at = "deps" /\ hook'[h].at = "ended"
<1> DEFINE x == hook[h]
<1>1. DOMAIN hook = Hooks /\ IsHook(x)
  BY DEF MainShape
<1> HIDE DEF x
<1>2. ASSUME Leave(h) PROVE hook[h].at = "run" /\ hook'[h].at = "away"
  <2>1. hook[h].at = "run" /\ hook'[h] = [x EXCEPT !.at = "away"]
    BY <1>1, <1>2 DEF Leave, x
  <2> QED
    BY <1>1, <2>1 DEF IsHook
<1>3. ASSUME ComeBack(h) PROVE hook[h].at = "away" /\ hook'[h].at = "back"
  <2>1. hook[h].at = "away" /\ hook'[h] = [x EXCEPT !.at = "back"]
    BY <1>1, <1>3 DEF ComeBack, x
  <2> QED
    BY <1>1, <2>1 DEF IsHook
<1>4. ASSUME Call(h) PROVE hook[h].at \in {"run", "back"} /\ hook'[h].at = "await"
  <2>1. hook[h].at \in {"run", "back"} /\ hook'[h] = [x EXCEPT !.at = "await"]
    BY <1>1, <1>4 DEF Call, Running, x
  <2> QED
    BY <1>1, <2>1 DEF IsHook
<1>5. ASSUME FinishEvent(h) PROVE AtEnd(h) /\ hook'[h].at = "finish"
  <2>1. AtEnd(h) /\ hook'[h] = [x EXCEPT !.at = "finish", !.copy = <<file>>]
    BY <1>1, <1>5 DEF FinishEvent, x
  <2> QED
    BY <1>1, <2>1 DEF IsHook
<1>6. ASSUME StoreFinished(h)
      PROVE  hook[h].at = "finish" /\ hook'[h].at = "deps" /\ hook'[h].copy = NoCopy
  <2>1. /\ hook[h].at = "finish"
        /\ hook'[h] = [x EXCEPT !.at = "deps", !.left = Deps[h], !.copy = NoCopy]
    BY <1>1, <1>6 DEF StoreFinished, x
  <2> QED
    BY <1>1, <2>1 DEF IsHook
<1>7. ASSUME ReadForDep(h)
      PROVE  hook[h].at = "deps" /\ hook'[h].at = "deps" /\ hook'[h].copy = <<file>>
  <2>1. hook[h].at = "deps" /\ hook'[h] = [x EXCEPT !.copy = <<file>>]
    BY <1>1, <1>7 DEF ReadForDep, x
  <2>2. x.at = "deps"
    BY <2>1 DEF x
  <2> QED
    BY <1>1, <2>1, <2>2 DEF IsHook
<1>8. ASSUME StoreDep(h)
      PROVE  /\ hook[h].at = "deps" /\ hook[h].copy # NoCopy
             /\ hook'[h].at = "deps" /\ hook'[h].copy = NoCopy
  <2>1. /\ hook[h].at = "deps" /\ hook[h].copy # NoCopy
        /\ hook'[h] = [x EXCEPT !.left = Tail(x.left), !.copy = NoCopy]
    BY <1>1, <1>8 DEF StoreDep, x
  <2>2. x.at = "deps"
    BY <2>1 DEF x
  <2> QED
    BY <1>1, <2>1, <2>2 DEF IsHook
<1>9. ASSUME HookEnds(h) PROVE hook[h].at = "deps" /\ hook'[h].at = "ended"
  <2>1. hook[h].at = "deps" /\ hook'[h] = [x EXCEPT !.at = "ended"]
    BY <1>1, <1>9 DEF HookEnds, x
  <2> QED
    BY <1>1, <2>1 DEF IsHook
<1>10. ASSUME HookThrows(h) PROVE hook[h].at \in {"run", "back"} /\ hook'[h].at = "failed"
  <2>1. hook[h].at \in {"run", "back"} /\ hook'[h] = [x EXCEPT !.at = "failed"]
    BY <1>1, <1>10 DEF HookThrows, Running, x
  <2> QED
    BY <1>1, <2>1 DEF IsHook
<1> QED
  BY <1>2, <1>3, <1>4, <1>5, <1>6, <1>7, <1>8, <1>9, <1>10

(* A hook that is finished leaves the addresses in memory.                 *)
LEMMA FinishedAddresses ==
  ASSUME Copies, NEW h \in Hooks, StoreFinished(h)
  PROVE  mem'.address = mem.address
<1> DEFINE q == Head(hook[h].copy).log[h]
<1>1. mem' = [mem EXCEPT !.executed[h] = TRUE, !.log[h] = q]
  BY DEF StoreFinished
<1>2. IsState(mem)
  BY DEF Copies, Image
<1> HIDE DEF q
<1> QED
  BY <1>1, <1>2 DEF IsState

(* The loop runs when nobody else does, and starts one hook without calls. *)
LEMMA LoopTurns ==
  ASSUME ParallelAssumption, OneWithoutCalls, MainShape, FirstCall, Alone, LoopStep
  PROVE  Alone'
<1>1. IsMain(main) /\ DOMAIN hook = Hooks /\ \A h \in Hooks : IsHook(hook[h])
  BY DEF MainShape
<1>2. lanes' = lanes
  BY DEF LoopStep, LookUpForContract, ToBeSent, SendContract, ContractFails, ContractRefused,
     ContractReverts, RecordAddress, StoreAddress, SkipContract, ExecuteEvents, EventsExecuted,
     NextBatch, ByLoop, executor
<1>3. \A l \in DOMAIN lanes' : LaneBusy(l)' => l \in DOMAIN lanes /\ LaneBusy(l)
  BY <1>2 DEF LaneBusy
<1>4. ASSUME ~LoopWaits \/ Quiet PROVE OfLoop \in Busy \/ Busy = {}
  BY <1>4, QuietIdle, NowBusy
<1>5. CASE ~ExecuteEvents
  <2>1. hook' = hook
    BY <1>5 DEF LoopStep, LookUpForContract, ToBeSent, SendContract, ContractFails, ContractRefused,
       ContractReverts, RecordAddress, StoreAddress, SkipContract, EventsExecuted, NextBatch, ByLoop
  <2>2. ~LoopWaits \/ Quiet
    BY <1>5 DEF LoopStep, LookUpForContract, ToBeSent, SendContract, ContractFails, ContractRefused,
       ContractReverts, RecordAddress, StoreAddress, SkipContract, EventsExecuted, NextBatch,
       Sending, LoopWaits
  <2>3. \A h \in Hooks : HookBusy(h)' => HookBusy(h)
    BY <2>1 DEF HookBusy, AtEnd, Running
  <2>4. ASSUME NEW z \in Busy' PROVE z = OfLoop \/ (z \in Busy /\ z # OfLoop)
    BY <1>3, <2>3 DEF Busy, OfLoop, OfHook, OfLane
  <2>5. \A z \in Busy' : z = OfLoop
    BY <1>4, <2>2, <2>4 DEF Alone
  <2> QED
    BY <2>5 DEF Alone
<1>6. CASE ExecuteEvents
  <2>1. /\ main.at = "send" /\ main.left = <<>> /\ (Quiet \/ main.sent = <<>>)
        /\ main' = [main EXCEPT !.at = "hooks"]
        /\ hook' = [h \in Hooks |-> IF h \in InBatch THEN Start(h) ELSE hook[h]]
    BY <1>6 DEF ExecuteEvents
  <2>2. OfLoop \in Busy \/ Busy = {}
    BY <1>4, <2>1 DEF LoopWaits
  <2>3. main'.at = "hooks" /\ main'.batch = main.batch
    BY <1>1, <2>1 DEF IsMain
  <2>4. main.batch \in DOMAIN Batches /\ InBatch \subseteq Hooks
    BY BatchesAre DEF MainShape, InBatch
  <2>5. ASSUME NEW h \in InBatch
        PROVE  hook'[h].at \in {"run", "refused"} /\ hook'[h].next = 1
    <3>1. hook[h].at = "idle"
      BY <2>1, <2>4 DEF MainShape, Idle, ToCome, InBatch
    <3>2. hook[h].next = 1 /\ hook'[h] = Start(h) /\ IsHook(hook[h])
      BY <1>1, <2>1, <2>4, <3>1 DEF FirstCall
    <3> QED
      BY <3>2 DEF Start, IsHook
  <2>6. ASSUME NEW h \in Hooks, HookBusy(h)', ~HookBusy(h) PROVE h \in InBatch /\ Calls[h] = <<>>
    <3>1. h \in InBatch
      <4>1. CASE h \notin InBatch
        <5>1. hook'[h] = hook[h]
          BY <2>1, <4>1
        <5> QED
          BY <2>6, <5>1 DEF HookBusy, AtEnd, Running
      <4> QED
        BY <4>1
    <3>2. 1 > Len(Calls[h])
      BY <2>5, <2>6, <3>1 DEF HookBusy, AtEnd, Running
    <3> DEFINE R == [to : Contracts, from : Senders]
               q == Calls[h]
    <3>3. q \in Seq(R)
      BY DEF ParallelAssumption
    <3>4. 1 > Len(q)
      BY <3>2
    <3> HIDE DEF R, q
    <3>5. q = <<>>
      BY <3>3, <3>4
    <3> QED
      BY <3>1, <3>5 DEF q
  <2>7. InBatch # {} => LoopWaits'
    <3>1. \A h \in InBatch : hook'[h].at # "ended"
      BY <2>5
    <3>2. InBatch' = InBatch
      BY <2>3 DEF InBatch
    <3> QED
      BY <2>3, <3>1, <3>2 DEF LoopWaits
  <2>8. ASSUME NEW h \in InBatch, Calls[h] = <<>> PROVE Alone'
    <3>1. \A g \in InBatch : Calls[g] = <<>> => g = h
      BY <2>4, <2>8 DEF OneWithoutCalls, InBatch
    <3>2. ASSUME NEW z \in Busy' PROVE z = OfHook(h) \/ (z \in Busy /\ z # OfLoop)
      BY <1>3, <2>6, <2>7, <3>1 DEF Busy, OfLoop, OfHook, OfLane
    <3>3. \A z \in Busy' : z = OfHook(h)
      BY <2>2, <3>2 DEF Alone
    <3> QED
      BY <3>3 DEF Alone
  <2>9. CASE \A h \in InBatch : Calls[h] # <<>>
    <3>1. ASSUME NEW z \in Busy' PROVE z = OfLoop \/ (z \in Busy /\ z # OfLoop)
      BY <1>3, <2>6, <2>9 DEF Busy, OfLoop, OfHook, OfLane
    <3>2. \A z \in Busy' : z = OfLoop
      BY <2>2, <3>1 DEF Alone
    <3> QED
      BY <3>2 DEF Alone
  <2> QED
    BY <2>8, <2>9
<1> QED
  BY <1>5, <1>6

(* A hook goes on when nobody else is busy, and hands over to the loop.    *)
LEMMA HookTurns ==
  ASSUME ParallelAssumption, MainShape, Copies, Alone, NEW h \in Hooks, HookStep(h)
  PROVE  Alone'
<1>1. /\ main' = main /\ hook'[h].next = hook[h].next
      /\ \A g \in Hooks \ {h} : hook'[g] = hook[g]
  BY HookShape
<1>2. mem'.address = mem.address /\ custom' = custom
  <2>1. mem'.address = mem.address
    BY FinishedAddresses DEF HookStep, Leave, ComeBack, HookThrows, Call, FinishEvent, ReadForDep,
       StoreDep, HookEnds
  <2>2. custom' = custom
    BY DEF HookStep, Leave, ComeBack, HookThrows, Call, FinishEvent, StoreFinished, ReadForDep,
       StoreDep, HookEnds, ByHook
  <2> QED
    BY <2>1, <2>2
<1>3. \A l \in DOMAIN lanes' : LaneBusy(l)' => l \in DOMAIN lanes /\ LaneBusy(l)
  <2>1. CASE Call(h)
    BY <2>1, NewLanes DEF LaneBusy, Lane
  <2>2. CASE ~Call(h)
    <3>1. lanes' = lanes
      BY <2>2 DEF HookStep, Leave, ComeBack, HookThrows, FinishEvent, StoreFinished, ReadForDep,
         StoreDep, HookEnds, executor
    <3> QED
      BY <3>1 DEF LaneBusy
  <2> QED
    BY <2>1, <2>2
<1>4. \A g \in Hooks \ {h} : HookBusy(g)' => HookBusy(g)
  BY <1>1 DEF HookBusy, AtEnd, Running
<1>5. CASE HookEnds(h)
  <2>1. hook[h].at = "deps" /\ hook'[h].at = "ended"
    BY <1>5, HookMoves
  <2>2. HookBusy(h) /\ ~HookBusy(h)'
    BY <2>1 DEF HookBusy, AtEnd, Running
  <2>3. ASSUME NEW z \in Busy' PROVE z = OfLoop \/ (z \in Busy /\ z # OfHook(h))
    BY <1>3, <1>4, <2>2 DEF Busy, OfLoop, OfHook, OfLane
  <2>4. \A z \in Busy' : z = OfLoop
    <3>1. OfHook(h) \in Busy
      BY <2>2, NowBusy
    <3> QED
      BY <2>3, <3>1 DEF Alone
  <2> QED
    BY <2>4 DEF Alone
<1>6. CASE ~HookEnds(h)
  <2>1. hook[h].at # "ended" /\ hook'[h].at # "ended"
    BY <1>6, HookMoves DEF HookStep, AtEnd, Running
  <2>2. LoopWaits' <=> LoopWaits
    BY <1>1, <1>2, <2>1, LoopStays
  <2>3. CASE ComeBack(h)
    <3>1. Busy = {}
      BY <2>3, QuietIdle DEF ComeBack
    <3>2. ASSUME NEW z \in Busy' PROVE z = OfHook(h) \/ (z \in Busy /\ z # OfHook(h))
      BY <1>3, <1>4, <2>2 DEF Busy, OfLoop, OfHook, OfLane
    <3>3. \A z \in Busy' : z = OfHook(h)
      BY <3>1, <3>2
    <3> QED
      BY <3>3 DEF Alone
  <2>4. CASE ~ComeBack(h)
    <3>1. HookBusy(h)' => HookBusy(h)
      <4>1. Leave(h) \/ HookThrows(h) \/ Call(h) => ~HookBusy(h)'
        BY HookMoves DEF HookBusy, AtEnd, Running
      <4>2. FinishEvent(h) \/ StoreFinished(h) \/ ReadForDep(h) \/ StoreDep(h) => HookBusy(h)
        BY HookMoves DEF HookBusy
      <4> QED
        BY <1>6, <2>4, <4>1, <4>2 DEF HookStep
    <3>2. ASSUME NEW z \in Busy' PROVE z \in Busy
      BY <1>3, <1>4, <2>2, <3>1 DEF Busy, OfLoop, OfHook, OfLane
    <3> QED
      BY <3>2 DEF Alone
  <2> QED
    BY <2>3, <2>4
<1> QED
  BY <1>5, <1>6

(* What a lane does to a hook.                                             *)
LEMMA HookLetGo ==
  ASSUME MainShape, NEW l \in DOMAIN lanes, LaneStep(l), NEW h \in Hooks
  PROVE  /\ \/ hook'[h] = hook[h]
            \/ hook[h].at = "await" /\ hook'[h].at = "failed"
            \/ Resolve(l) /\ h = Entry(l)[1] /\ hook[h].at = "await" /\ hook'[h].at = "run"
         /\ hook'[h].copy = hook[h].copy
<1> DEFINE g == Entry(l)[1]
           x == hook[h]
<1>1. DOMAIN hook = Hooks /\ IsHook(x)
  BY DEF MainShape
<1>2. CASE Resolve(l)
  <2>1. \/ hook' = hook
        \/ hook[g].at = "await" /\ hook' = [hook EXCEPT ![g].at = "run", ![g].next = @ + 1]
    BY <1>2 DEF Resolve
  <2> HIDE DEF g
  <2>2. \/ hook'[h] = x
        \/ h = g /\ x.at = "await" /\ hook'[h] = [x EXCEPT !.at = "run", !.next = x.next + 1]
    BY <1>1, <2>1
  <2> HIDE DEF x
  <2>3. \/ hook'[h] = x
        \/ h = g /\ x.at = "await" /\ hook'[h].at = "run" /\ hook'[h].copy = x.copy
    BY <1>1, <2>2 DEF IsHook
  <2> QED
    BY <1>2, <2>3 DEF g, x
<1>3. CASE ~Resolve(l)
  <2>1. \/ hook' = hook
        \/ hook[l[1]].at = "await" /\ hook' = [hook EXCEPT ![l[1]].at = "failed"]
    BY <1>3 DEF LaneStep, Func, LookUpForCall, SendCall, StoreInput, CallFails, LookUpFails,
       CallReverts, Breaks, Release
  <2>2. hook'[h] = x \/ (x.at = "await" /\ hook'[h] = [x EXCEPT !.at = "failed"])
    BY <1>1, <2>1
  <2> HIDE DEF x
  <2>3. hook'[h] = x \/ (x.at = "await" /\ hook'[h].at = "failed" /\ hook'[h].copy = x.copy)
    BY <1>1, <2>2 DEF IsHook
  <2> QED
    BY <2>3 DEF x
<1> QED
  BY <1>2, <1>3

(* A lane goes on when nobody else is busy, and hands over to the hook     *)
(* that waits for it.                                                      *)
LEMMA LaneTurns ==
  ASSUME ParallelAssumption, MainShape, LanesPast, Counted, Alone,
         NEW l \in DOMAIN lanes, LaneStep(l)
  PROVE  Alone'
<1>1. IsLane(lanes[l]) /\ OthersStay(l)
  BY LaneAlone DEF LanesPast
<1>2. LoopWaits' <=> LoopWaits
  <2>1. main' = main /\ mem' = mem /\ custom' = custom
    BY DEF LaneStep, Func, LookUpForCall, SendCall, StoreInput, CallFails, LookUpFails, CallReverts,
       Breaks, Release, Resolve, ByLane
  <2>2. \A h \in Hooks : hook'[h].at = "ended" <=> hook[h].at = "ended"
    BY HookLetGo
  <2> QED
    BY <2>1, <2>2, LoopStays
<1>3. \A m \in DOMAIN lanes' : m # l => m \in DOMAIN lanes /\ (LaneBusy(m)' => LaneBusy(m))
  BY <1>1 DEF OthersStay, LaneBusy
<1>4. CASE Resolve(l)
  <2>1. PICK g : g = Entry(l)[1]
    OBVIOUS
  <2>2. \A h \in Hooks : HookBusy(h)' => HookBusy(h) \/ h = g
    <3> SUFFICES ASSUME NEW h \in Hooks, HookBusy(h)', h # g PROVE HookBusy(h)
      OBVIOUS
    <3>1. hook'[h] = hook[h] \/ hook'[h].at = "failed"
      BY <2>1, HookLetGo
    <3> QED
      BY <3>1 DEF HookBusy, AtEnd, Running
  <2>3. LaneBusy(l) /\ (l \in DOMAIN lanes' => ~LaneBusy(l)')
    BY <1>1, <1>4, TurnsTo DEF LaneBusy, Resolve
  <2>4. ASSUME NEW z \in Busy' PROVE z = OfHook(g) \/ (z \in Busy /\ z # OfLane(l))
    BY <1>2, <1>3, <2>2, <2>3 DEF Busy, OfLoop, OfHook, OfLane
  <2>5. \A z \in Busy' : z = OfHook(g)
    <3>1. OfLane(l) \in Busy
      BY <2>3, NowBusy
    <3> QED
      BY <2>4, <3>1 DEF Alone
  <2> QED
    BY <2>5 DEF Alone
<1>5. CASE ~Resolve(l)
  <2>1. \A h \in Hooks : HookBusy(h)' => HookBusy(h)
    <3> SUFFICES ASSUME NEW h \in Hooks, HookBusy(h)' PROVE HookBusy(h)
      OBVIOUS
    <3>1. hook'[h] = hook[h] \/ hook'[h].at = "failed"
      BY <1>5, HookLetGo
    <3> QED
      BY <3>1 DEF HookBusy, AtEnd, Running
  <2>2. CASE SendCall(l) \/ Release(l)
    <3>1. Busy = {}
      BY <2>2, QuietIdle DEF SendCall, Release, Counted, CountedLane
    <3>2. ASSUME NEW z \in Busy' PROVE z = OfLane(l) \/ z \in Busy
      BY <1>2, <1>3, <2>1 DEF Busy, OfLoop, OfHook, OfLane
    <3>3. \A z \in Busy' : z = OfLane(l)
      BY <3>1, <3>2
    <3> QED
      BY <3>3 DEF Alone
  <2>3. CASE ~SendCall(l) /\ ~Release(l)
    <3>1. l \in DOMAIN lanes' => ~LaneBusy(l)'
      BY <1>1, <1>5, <2>3, LaneMoves DEF LaneStep, LaneBusy
    <3>2. ASSUME NEW z \in Busy' PROVE z \in Busy
      BY <1>2, <1>3, <2>1, <3>1 DEF Busy, OfLoop, OfHook, OfLane
    <3> QED
      BY <3>2 DEF Alone
  <2> QED
    BY <2>2, <2>3
<1> QED
  BY <1>4, <1>5

(* A hook that was not started has made no call.                           *)
LEMMA FirstCallStep ==
  ASSUME ParallelAssumption, MainShape, FirstCall, [Next]_vars
  PROVE  FirstCall'
<1> SUFFICES ASSUME NEW h \in Hooks, hook'[h].at = "idle" PROVE hook'[h].next = 1
  BY DEF FirstCall
<1>1. CASE LoopStep
  <2>1. hook' = hook \/ ExecuteEvents
    BY <1>1 DEF LoopStep, LookUpForContract, ToBeSent, SendContract, ContractFails, ContractRefused,
       ContractReverts, RecordAddress, StoreAddress, SkipContract, EventsExecuted, NextBatch, ByLoop
  <2>2. ExecuteEvents => hook'[h] = Start(h) \/ hook'[h] = hook[h]
    BY DEF ExecuteEvents
  <2>3. Start(h).at # "idle"
    BY DEF Start, MainShape, IsHook
  <2> QED
    BY <2>1, <2>2, <2>3 DEF FirstCall
<1>2. ASSUME NEW g \in Hooks, HookStep(g) PROVE hook'[h] = hook[h]
  BY <1>2, HookShape
<1>3. ASSUME NEW l \in DOMAIN lanes, LaneStep(l) PROVE hook'[h] = hook[h]
  BY <1>3, HookLetGo
<1>4. CASE UNCHANGED vars
  BY <1>4 DEF vars, FirstCall
<1> QED
  BY <1>1, <1>2, <1>3, <1>4 DEF Next, FirstCall

(* Whoever runs, nobody else does.                                         *)
LEMMA AloneStep ==
  ASSUME ParallelAssumption, OneWithoutCalls, MainShape, LanesPast, Copies, Counted,
         FirstCall, Alone, [Next]_vars
  PROVE  Alone'
<1>1. CASE UNCHANGED vars
  <2>1. Busy' = Busy
    BY <1>1 DEF vars, executor, Busy, LoopWaits, Skips, InBatch, HookBusy, LaneBusy, AtEnd, Running
  <2> QED
    BY <2>1 DEF Alone
<1> QED
  BY <1>1, LoopTurns, HookTurns, LaneTurns DEF Next

(* What is held of the file is what the file says, but for receipts; and   *)
(* the file says what the memory says, but for the address that is being   *)
(* recorded.                                                               *)
Same(x, y) == x.address = y.address /\ x.executed = y.executed
Held ==
  /\ main.copy # NoCopy => main.at = "record" /\ Same(Head(main.copy), file)
  /\ \A h \in Hooks : hook[h].at = "deps" /\ hook[h].copy # NoCopy => Same(Head(hook[h].copy), file)
  /\ \A l \in DOMAIN lanes : LaneBusy(l) => Same(Head(lanes[l].copy), file)
InSync ==
  /\ mem.address \in [Contracts -> BOOLEAN] /\ file.executed = mem.executed
  /\ main.copy = NoCopy => mem.address = file.address
  /\ main.copy # NoCopy => mem.address = [file.address EXCEPT ![Head(main.sent)] = TRUE]

(* The loop that has read the file is busy.                                *)
LEMMA HeldBusy ==
  ASSUME Held, main.copy # NoCopy
  PROVE  OfLoop \in Busy
<1>1. main.at = "record"
  BY DEF Held
<1> QED
  BY <1>1, NowBusy DEF LoopWaits

(* Nobody but the loop has read the file while it records an address.      *)
LEMMA LoopHolds ==
  ASSUME Alone, OfLoop \in Busy
  PROVE  /\ \A h \in Hooks : hook[h].at # "deps"
         /\ \A l \in DOMAIN lanes : ~LaneBusy(l)
<1>1. \A h : OfHook(h) # OfLoop
  BY DEF OfHook, OfLoop
<1>2. \A l : OfLane(l) # OfLoop
  BY DEF OfLane, OfLoop
<1>3. \A x \in Busy : x = OfLoop
  BY DEF Alone
<1>4. \A h \in Hooks : ~HookBusy(h)
  BY <1>1, <1>3, NowBusy
<1>5. \A l \in DOMAIN lanes : ~LaneBusy(l)
  BY <1>2, <1>3, NowBusy
<1> QED
  BY <1>4, <1>5 DEF HookBusy

(* Nobody but a busy hook has read the file.                               *)
LEMMA HookHolds ==
  ASSUME Alone, Held, NEW h \in Hooks, HookBusy(h)
  PROVE  /\ main.copy = NoCopy
         /\ \A g \in Hooks \ {h} : hook[g].at # "deps"
         /\ \A l \in DOMAIN lanes : ~LaneBusy(l)
<1>1. \A x \in Busy : x = OfHook(h)
  BY NowBusy DEF Alone
<1>2. OfHook(h) # OfLoop /\ (\A l : OfLane(l) # OfHook(h)) /\ \A g : OfHook(g) = OfHook(h) => g = h
  BY DEF OfHook, OfLoop, OfLane
<1>3. main.copy = NoCopy
  BY <1>1, <1>2, HeldBusy
<1>4. \A g \in Hooks \ {h} : ~HookBusy(g)
  BY <1>1, <1>2, NowBusy
<1>5. \A l \in DOMAIN lanes : ~LaneBusy(l)
  BY <1>1, <1>2, NowBusy
<1> QED
  BY <1>3, <1>4, <1>5 DEF HookBusy

LEMMA LoopRecords ==
  ASSUME ParallelAssumption, MainShape, Copies, Alone, Held, InSync, LoopStep
  PROVE  Held' /\ InSync'
<1>1. IsMain(main) /\ \A h \in Hooks : IsHook(hook[h])
  BY DEF MainShape
<1>2. lanes' = lanes
  BY DEF LoopStep, LookUpForContract, ToBeSent, SendContract, ContractFails, ContractRefused,
     ContractReverts, RecordAddress, StoreAddress, SkipContract, ExecuteEvents, EventsExecuted,
     NextBatch, ByLoop, executor
<1>3. \A h \in Hooks : hook'[h].at = "deps" => hook'[h] = hook[h]
  <2>1. CASE ExecuteEvents
    <3> SUFFICES ASSUME NEW h \in Hooks, hook'[h].at = "deps" PROVE hook'[h] = hook[h]
      OBVIOUS
    <3>1. hook'[h] = Start(h) \/ hook'[h] = hook[h]
      BY <2>1 DEF ExecuteEvents
    <3>2. Start(h).at # "deps"
      BY <1>1 DEF Start, IsHook
    <3> QED
      BY <3>1, <3>2
  <2>2. CASE ~ExecuteEvents
    BY <2>2 DEF LoopStep, LookUpForContract, ToBeSent, SendContract, ContractFails, ContractRefused,
       ContractReverts, RecordAddress, StoreAddress, SkipContract, EventsExecuted, NextBatch, ByLoop
  <2> QED
    BY <2>1, <2>2
<1>4. ASSUME NEW c \in Contracts, RecordAddress(c) PROVE Held' /\ InSync'
  <2>1. /\ main.at = "record" /\ main.copy = NoCopy /\ c = Head(main.sent)
        /\ mem' = [mem EXCEPT !.address[c] = TRUE] /\ file' = file
        /\ main' = [main EXCEPT !.copy = <<file>>]
    BY <1>4 DEF RecordAddress
  <2>2. main'.at = "record" /\ main'.copy = <<file>> /\ main'.sent = main.sent
    BY <1>1, <2>1 DEF IsMain
  <2>3. IsState(mem)
    BY DEF Copies, Image
  <2>4. mem'.address = [mem.address EXCEPT ![c] = TRUE] /\ mem'.executed = mem.executed
    BY <2>1, <2>3 DEF IsState
  <2>5. main'.copy # NoCopy /\ Head(main'.copy) = file
    BY <2>2 DEF NoCopy
  <2>6. InSync'
    BY <2>1, <2>2, <2>4, <2>5 DEF InSync
  <2>7. Held'
    BY <1>2, <1>3, <2>1, <2>2, <2>5 DEF Held, Same, LaneBusy
  <2> QED
    BY <2>6, <2>7
<1>5. ASSUME NEW c \in Contracts, StoreAddress(c) PROVE Held' /\ InSync'
  <2> DEFINE y == Head(main.copy)
  <2>1. /\ main.at = "record" /\ main.copy # NoCopy /\ c = Head(main.sent)
        /\ file' = [y EXCEPT !.address[c] = TRUE] /\ mem' = mem
        /\ main' = [main EXCEPT !.sent = Tail(@), !.copy = NoCopy]
    BY <1>5 DEF StoreAddress
  <2>2. IsState(y) /\ y.address = file.address /\ y.executed = file.executed
    BY <2>1 DEF Copies, Image, IsCopy, Held, Same
  <2> HIDE DEF y
  <2>3. file'.address = [file.address EXCEPT ![c] = TRUE] /\ file'.executed = file.executed
    BY <2>1, <2>2 DEF IsState
  <2>4. main'.copy = NoCopy
    BY <1>1, <2>1 DEF IsMain
  <2>5. InSync'
    BY <2>1, <2>3, <2>4 DEF InSync
  <2>6. (\A h \in Hooks : hook[h].at # "deps") /\ \A l \in DOMAIN lanes : ~LaneBusy(l)
    BY <2>1, HeldBusy, LoopHolds
  <2>7. Held'
    BY <1>2, <1>3, <2>4, <2>6 DEF Held, LaneBusy
  <2> QED
    BY <2>5, <2>7
<1>6. ASSUME ~\E c \in Contracts : RecordAddress(c) \/ StoreAddress(c) PROVE Held' /\ InSync'
  <2>1. file' = file /\ mem' = mem
    BY <1>6 DEF LoopStep, LookUpForContract, ToBeSent, SendContract, ContractFails, ContractRefused,
       ContractReverts, SkipContract, ExecuteEvents, EventsExecuted, NextBatch
  <2>2. main'.copy = main.copy
    BY <1>1, <1>6 DEF LoopStep, LookUpForContract, ToBeSent, SendContract, ContractFails,
       ContractRefused, ContractReverts, SkipContract, ExecuteEvents, EventsExecuted, NextBatch,
       Enter, IsMain
  <2>3. main.at # "record" \/ main.sent = <<>>
    BY <1>6 DEF LoopStep, LookUpForContract, ToBeSent, SendContract, ContractFails, ContractRefused,
       ContractReverts, Sending, SkipContract, ExecuteEvents, EventsExecuted, NextBatch
  <2>4. main.copy = NoCopy
    BY <2>3 DEF Held, MainShape
  <2>5. InSync'
    BY <2>1, <2>2, <2>4 DEF InSync
  <2>6. Held'
    BY <1>2, <1>3, <2>1, <2>2, <2>4 DEF Held, Same, LaneBusy
  <2> QED
    BY <2>5, <2>6
<1> QED
  BY <1>4, <1>5, <1>6

LEMMA HookRecords ==
  ASSUME ParallelAssumption, MainShape, Copies, Alone, Held, InSync, NEW h \in Hooks, HookStep(h)
  PROVE  Held' /\ InSync'
<1>1. main' = main /\ \A g \in Hooks \ {h} : hook'[g] = hook[g]
  BY HookShape
<1>2. \A l \in DOMAIN lanes' : LaneBusy(l)' => l \in DOMAIN lanes /\ LaneBusy(l) /\ lanes'[l] = lanes[l]
  <2>1. CASE Call(h)
    BY <2>1, NewLanes DEF LaneBusy, Lane
  <2>2. CASE ~Call(h)
    <3>1. lanes' = lanes
      BY <2>2 DEF HookStep, Leave, ComeBack, HookThrows, FinishEvent, StoreFinished, ReadForDep,
         StoreDep, HookEnds, executor
    <3> QED
      BY <3>1 DEF LaneBusy
  <2> QED
    BY <2>1, <2>2
<1>3. ASSUME Same(file', file), mem' = mem,
             hook'[h].at = "deps" /\ hook'[h].copy # NoCopy => hook'[h].copy = <<file'>>
      PROVE  Held' /\ InSync'
  <2>1. hook'[h].at = "deps" /\ hook'[h].copy # NoCopy => Same(Head(hook'[h].copy), file')
    BY <1>3 DEF Same
  <2>2. Held'
    BY <1>1, <1>2, <1>3, <2>1 DEF Held, Same
  <2>3. InSync'
    BY <1>1, <1>3 DEF InSync, Same
  <2> QED
    BY <2>2, <2>3
<1>4. CASE StoreFinished(h)
  <2>1. hook[h].at = "finish" /\ hook'[h].copy = NoCopy
    BY <1>4, HookMoves
  <2>2. /\ main.copy = NoCopy /\ (\A g \in Hooks \ {h} : hook[g].at # "deps")
        /\ \A l \in DOMAIN lanes : ~LaneBusy(l)
    BY <2>1, HookHolds DEF HookBusy
  <2>3. file' = mem' /\ mem'.address = mem.address
    BY <1>4, FinishedAddresses DEF StoreFinished
  <2>4. InSync'
    BY <1>1, <2>2, <2>3 DEF InSync
  <2>5. Held'
    BY <1>1, <1>2, <2>1, <2>2 DEF Held
  <2> QED
    BY <2>4, <2>5
<1>5. CASE StoreDep(h)
  <2> DEFINE y == Head(hook[h].copy)
             c == Head(hook[h].left)
  <2>1. hook[h].at = "deps" /\ hook[h].copy # NoCopy /\ hook'[h].copy = NoCopy
    BY <1>5, HookMoves
  <2>2. mem' = mem /\ file' = [y EXCEPT !.address[c] = mem.address[c]]
    BY <1>5 DEF StoreDep
  <2>3. IsState(y) /\ y.address = file.address /\ y.executed = file.executed
    BY <2>1 DEF Copies, Image, IsCopy, Held, Same
  <2>4. main.copy = NoCopy
    BY <2>1, HookHolds DEF HookBusy
  <2>5. y.address = mem.address /\ y.address \in [Contracts -> BOOLEAN]
    BY <2>3, <2>4 DEF InSync
  <2> HIDE DEF y, c
  <2>6. file'.address = [y.address EXCEPT ![c] = y.address[c]] /\ file'.executed = y.executed
    BY <2>2, <2>3, <2>5 DEF IsState
  <2>7. Same(file', file)
    BY <2>3, <2>5, <2>6 DEF Same
  <2> QED
    BY <1>3, <2>1, <2>2, <2>7
<1>6. CASE ReadForDep(h)
  <2>1. hook'[h].copy = <<file>> /\ file' = file /\ mem' = mem
    BY <1>6, HookMoves DEF ReadForDep
  <2> QED
    BY <1>3, <2>1 DEF Same
<1>7. CASE Leave(h) \/ ComeBack(h) \/ HookThrows(h) \/ Call(h) \/ FinishEvent(h) \/ HookEnds(h)
  <2>1. file' = file /\ mem' = mem
    BY <1>7 DEF Leave, ComeBack, HookThrows, Call, FinishEvent, HookEnds
  <2>2. hook'[h].at # "deps"
    BY <1>7, HookMoves
  <2> QED
    BY <1>3, <2>1, <2>2 DEF Same
<1> QED
  BY <1>4, <1>5, <1>6, <1>7 DEF HookStep

(* A lane writes what it read, and a receipt.                              *)
LEMMA LaneWrites ==
  ASSUME Copies, Held, NEW l \in DOMAIN lanes, LaneStep(l)
  PROVE  Same(file', file) /\ (SendCall(l) \/ Release(l) => file' = file)
<1> DEFINE y == Head(lanes[l].copy)
           g == Entry(l)[1]
           c == To(l)
<1>1. CASE StoreInput(l) \/ Resolve(l)
  <2>1. lanes[l].at \in {"sent", "store"} /\ ~SendCall(l) /\ ~Release(l)
    BY <1>1 DEF StoreInput, Resolve, SendCall, Release
  <2>2. IsState(y) /\ Same(y, file)
    BY <2>1 DEF Copies, Image, IsCopy, Held, LaneBusy
  <2>3. file' = y \/ file' = [y EXCEPT !.log[g][c] = @ + 1]
    BY <1>1 DEF StoreInput, Resolve
  <2> HIDE DEF y, g, c
  <2>4. file'.address = y.address /\ file'.executed = y.executed
    BY <2>2, <2>3 DEF IsState
  <2> QED
    BY <2>1, <2>2, <2>4 DEF Same
<1>2. CASE ~StoreInput(l) /\ ~Resolve(l)
  <2>1. file' = file
    BY <1>2 DEF LaneStep, Func, LookUpForCall, SendCall, CallFails, LookUpFails, CallReverts,
       Breaks, Release
  <2> QED
    BY <2>1 DEF Same
<1> QED
  BY <1>1, <1>2

LEMMA LaneRecords ==
  ASSUME ParallelAssumption, MainShape, LanesPast, Copies, Held, InSync,
         NEW l \in DOMAIN lanes, LaneStep(l)
  PROVE  Held' /\ InSync'
<1>1. IsLane(lanes[l]) /\ OthersStay(l)
  BY LaneAlone DEF LanesPast
<1>2. main' = main /\ mem' = mem
  BY DEF LaneStep, Func, LookUpForCall, SendCall, StoreInput, CallFails, LookUpFails, CallReverts,
     Breaks, Release, Resolve, ByLane
<1>3. Same(file', file) /\ (SendCall(l) \/ Release(l) => file' = file)
  BY LaneWrites
<1>4. \A h \in Hooks : hook'[h].at = "deps" => hook'[h] = hook[h]
  BY HookLetGo
<1>5. ASSUME NEW m \in DOMAIN lanes', LaneBusy(m)' PROVE Same(Head(lanes'[m].copy), file')
  <2>1. CASE m # l
    BY <1>1, <1>3, <1>5, <2>1 DEF OthersStay, LaneBusy, Held, Same
  <2>2. CASE m = l
    <3>1. SendCall(l) \/ Release(l)
      BY <1>1, <1>5, <2>2, LaneMoves, TurnsTo DEF LaneStep, LaneBusy
    <3>2. lanes'[m].copy = <<file>> /\ file' = file
      BY <1>1, <1>3, <2>2, <3>1, LaneMoves
    <3> QED
      BY <3>2 DEF Same
  <2> QED
    BY <2>1, <2>2
<1>6. Held'
  BY <1>2, <1>3, <1>4, <1>5 DEF Held, Same
<1>7. InSync'
  BY <1>2, <1>3 DEF InSync, Same
<1> QED
  BY <1>6, <1>7

(* Everything that is written agrees with what is there.                   *)
LEMMA RecordsStep ==
  ASSUME ParallelAssumption, MainShape, LanesPast, Copies, Alone, Held, InSync, [Next]_vars
  PROVE  Held' /\ InSync'
<1>1. CASE UNCHANGED vars
  BY <1>1 DEF vars, executor, Held, Same, LaneBusy, InSync
<1> QED
  BY <1>1, LoopRecords, HookRecords, LaneRecords DEF Next

(* Only the loop is busy at the start, and nothing is held.                *)
LEMMA InitRecords ==
  ASSUME ParallelAssumption, Init
  PROVE  FirstCall /\ Alone /\ Held /\ InSync
<1>1. /\ main.copy = NoCopy /\ DOMAIN lanes = {} /\ file = mem
      /\ \A h \in Hooks : hook[h].at = "idle" /\ hook[h].next = 1 /\ hook[h].copy = NoCopy
  BY DEF Init
<1>2. PICK d : mem = NewState(d)
  BY DEF Init
<1>3. mem.address \in [Contracts -> BOOLEAN]
  <2>1. mem.address = [c \in Contracts |-> c \in d]
    BY <1>2 DEF NewState
  <2>2. \A c \in Contracts : (c \in d) \in BOOLEAN
    OBVIOUS
  <2> QED
    BY <2>1, <2>2
<1>4. FirstCall /\ Held
  BY <1>1 DEF FirstCall, Held
<1>5. InSync
  BY <1>1, <1>3 DEF InSync
<1>6. \A z \in Busy : z = OfLoop
  BY <1>1 DEF Busy, HookBusy, AtEnd, Running
<1>7. Alone
  BY <1>6 DEF Alone
<1> QED
  BY <1>4, <1>5, <1>7

(* The invariant that carries both theorems below.                         *)
LEMMA RecordInvariant ==
  ASSUME ParallelAssumption, OneCaller, OneWithoutCalls
  PROVE  Spec => [](Held /\ InSync)
<1> DEFINE Inv == /\ MainShape /\ RootKnown /\ LanesPast
                  /\ RootCalls /\ HaveCalls /\ Queues /\ Copies /\ Counted
                  /\ FirstCall /\ Alone /\ Held /\ InSync
<1>1. Init => Inv
  BY InitPlaced, InitSent, InitRecords
<1>2. Inv /\ [Next]_vars => Inv'
  BY StepShape, RootStep, LanesPastStep, RootCallsStep, HaveCallsStep, QueuesStep, CopiesStep,
     CountedStep, FirstCallStep, AloneStep, RecordsStep
<1>3. Inv => Held /\ InSync
  OBVIOUS
<1>4. QED
  BY <1>1, <1>2, <1>3, PTL DEF Spec

(* The loop, the hooks of a batch and the lanes of all their calls read    *)
(* the state file, wait, and write what they read with a change of their   *)
(* own (state-repo.ts:194-350); nothing but the order in which promises    *)
(* settle keeps one from writing over what another wrote.  It does, if no  *)
(* contract has two callers and at most one hook of a batch makes no call: *)
(* for any batches, hooks, calls and senders, what a process killed at any *)
(* time leaves on disk has every address and every executed hook that is   *)
(* in memory, but for the address that is just being recorded.             *)
THEOREM RecordedThroughout ==
  ASSUME ParallelAssumption, OneCaller, OneWithoutCalls
  PROVE  Spec => [](main.copy = NoCopy => /\ file.address = mem.address
                                          /\ file.executed = mem.executed)
<1>1. Held /\ InSync => (main.copy = NoCopy => /\ file.address = mem.address
                                              /\ file.executed = mem.executed)
  BY DEF InSync
<1> QED
  BY <1>1, RecordInvariant, PTL

(* A deployment that is done (executor.ts:313-395) has everything it did   *)
(* on record, so that the next run does nothing again.                     *)
THEOREM DoneRecorded ==
  ASSUME ParallelAssumption, OneCaller, OneWithoutCalls
  PROVE  Spec => []DoneMeansRecorded
<1>1. Held /\ InSync => DoneMeansRecorded
  <2> SUFFICES ASSUME Held, InSync, main.at = "ended"
               PROVE  file.address = mem.address /\ file.executed = mem.executed
    BY DEF DoneMeansRecorded
  <2>1. main.copy = NoCopy
    BY DEF Held
  <2> QED
    BY <2>1 DEF InSync
<1> QED
  BY <1>1, RecordInvariant, PTL
=============================================================================
