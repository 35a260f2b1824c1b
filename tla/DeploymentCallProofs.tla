------------------------ MODULE DeploymentCallProofs ------------------------
(***************************************************************************)
(* Deployment implements Checklist, for every module, every set of faults  *)
(* and any number of runs and edits; what stays deployed, what deploy      *)
(* functions create, and that hooks make their calls, under the conditions *)
(* of DeploymentCalls.                                                     *)
(***************************************************************************)
EXTENDS DeploymentCalls, DeploymentProofs, FiniteSetTheorems

(***************************************************************************)
(* What the refinement needs beyond the inductive invariant.               *)
(***************************************************************************)

(* The element that is being executed was not left out by the config.      *)
LEMMA NotSkippedStep ==
  ASSUME TypeOK, NotSkipped, [Next]_vars
  PROVE  NotSkipped'
<1>1. CASE QuietStep
  BY <1>1, QuietFacts DEF NotSkipped
<1>2. CASE SendDeploy \/ BeginDeployFn
  <2>1. UNCHANGED <<skip, status, pos>> /\ El \notin skip
    BY <1>2 DEF SendDeploy, BeginDeployFn, ToDeploy, setup, input
  <2> QED
    BY <2>1 DEF NotSkipped, El, Plan
<1>3. CASE BeginEvent
  <2>1. UNCHANGED <<status, pos>> /\ El \in Events
    BY <1>3 DEF BeginEvent, AtEvent
  <2> QED
    BY <2>1, ShapeAssumption DEF NotSkipped, El, Plan, ShapeAssumption
<1>4. CASE StoreReceipt \/ FinishDeployFn
  <2>1. UNCHANGED <<skip, status, pos>> /\ Up /\ at # "next"
    BY <1>4 DEF StoreReceipt, FinishDeployFn, setup, input
  <2> QED
    BY <2>1 DEF NotSkipped, El, Plan, Up
<1>5. CASE CallStep \/ ReplayCall
  BY <1>5, CallFacts DEF NotSkipped
<1>6. CASE RecordAddress \/ FinishEvent \/ StartRun
  BY <1>6 DEF RecordAddress, FinishEvent, StartRun, Advance, NotSkipped
<1>7. CASE Develop
  BY <1>7, DevelopFacts DEF NotSkipped
<1>8. CASE UNCHANGED vars
  BY <1>8 DEF vars, proc, input, NotSkipped, Up, El, Plan
<1> QED
  BY <1>1, <1>2, <1>3, <1>4, <1>5, <1>6, <1>7, <1>8, NextCases

(* Every contract the file has an address of has a bytecode on file.       *)
LEMMA CodedStep ==
  ASSUME TypeOK, Sync, Coded, [Next]_vars
  PROVE  Coded'
<1>0. code \in [Contracts -> Nat]
  BY DEF TypeOK
<1>1. CASE QuietStep
  BY <1>1, QuietFacts DEF Coded
<1>2. CASE SendDeploy \/ BeginEvent \/ BeginDeployFn
  <2>1. UNCHANGED <<code, file, mem, status>>
    BY <1>2 DEF SendDeploy, BeginEvent, BeginDeployFn, setup, input
  <2> QED
    BY <2>1 DEF Coded, Up
<1>3. CASE StoreReceipt \/ RecordAddress
  <2>1. UNCHANGED code /\ Up /\ file'.code = mem.code /\ mem'.code = mem.code
    BY <1>3, StoreFacts DEF StoreReceipt, RecordAddress, setup, input
  <2> QED
    BY <2>1 DEF Coded
<1>4. CASE ReplayCall \/ ConfirmCall
  BY <1>4, CallFacts, LogFacts DEF Coded, CallStep
<1>5. CASE SendCall \/ SendRevertingCall
  <2>1. UNCHANGED <<code, file, mem, status>>
    BY <1>5 DEF SendCall, SendRevertingCall, setup, input
  <2> QED
    BY <2>1 DEF Coded, Up
<1>6. CASE FinishEvent \/ FinishDeployFn
  <2>1. UNCHANGED code /\ Up /\ file'.code = mem.code /\ mem'.code = mem.code
    BY <1>6, FinishFacts DEF setup, input
  <2> QED
    BY <2>1 DEF Coded
<1>7. CASE StartRun
  <2>1. UNCHANGED code /\ file'.code = code /\ mem'.code = code
    BY <1>7 DEF StartRun, StoreNewState, Resolved, input
  <2> QED
    BY <2>1 DEF Coded
<1>8. CASE Develop
  <2>1. \A c \in Contracts : code'[c] # 0
    BY <1>0, <1>8 DEF Develop, Edit, Configure, Coded
  <2>2. ~Up' /\ UNCHANGED file
    BY <1>8, DevelopFacts
  <2> QED
    BY <2>1, <2>2 DEF Coded
<1>9. CASE UNCHANGED vars
  BY <1>9 DEF vars, proc, input, Coded, Up
<1> QED
  BY <1>1, <1>2, <1>3, <1>4, <1>5, <1>6, <1>7, <1>8, <1>9, NextCases DEF CallStep

(* Before the current onFail hook all are executed.                        *)
LEMMA FailProgressStep ==
  ASSUME TypeOK, FailProgress, [Next]_vars
  PROVE  FailProgress'
<1>0. pos \in Nat \ {0} /\ mem \in State /\ (\A i \in DOMAIN OnFail : i \in Nat \ {0})
  BY ShapeAssumption DEF TypeOK, ShapeAssumption
<1>1. SUFFICES ASSUME status' = "failing", NEW i \in DOMAIN OnFail, i < pos'
               PROVE  OnFail[i] \in mem'.done
  BY DEF FailProgress
<1>2. CASE status = "failing" /\ pos' = pos /\ mem.done \subseteq mem'.done
  BY <1>1, <1>2 DEF FailProgress
<1>3. CASE QuietStep
  <2>1. UNCHANGED mem
    BY <1>3, QuietFacts
  <2>2. CASE SkipContract \/ SkipEvent
    <3>1. /\ status = "failing" /\ pos' = pos + 1 /\ El = OnFail[pos] /\ pos \in DOMAIN OnFail
          /\ Up
      BY <1>0, <1>1, <2>2, ShapeAssumption
         DEF SkipContract, SkipEvent, AtContract, AtEvent, AtElement, Advance, El, Plan,
             ShapeAssumption
    <3>2. OnFail[pos] \in mem.done
      <4>1. El \in Events
        BY <3>1, ShapeAssumption DEF ShapeAssumption
      <4> QED
        BY <2>2, <3>1, <4>1, ShapeAssumption
           DEF SkipContract, SkipEvent, AtContract, ShapeAssumption
    <3>3. i < pos \/ i = pos
      BY <1>0, <1>1, <3>1
    <3> QED
      BY <2>1, <3>1, <3>2, <3>3 DEF FailProgress
  <2>3. CASE ~SkipContract /\ ~SkipEvent
    <3>1. pos' = 1
      BY <1>1, <1>3, <2>3
         DEF QuietStep, EndRun, NotLinkable, DeployFails, WaitFails, DepsMissing, NotCallable,
             CallWaitFails, FunctionThrows, DeployFnSentNothing, RejectCall, Crash, Throw
    <3> QED
      BY <1>0, <1>1, <3>1
  <2> QED
    BY <2>2, <2>3
<1>4. CASE SendDeploy \/ BeginEvent \/ BeginDeployFn
  BY <1>1, <1>2, <1>4 DEF SendDeploy, BeginEvent, BeginDeployFn
<1>5. CASE CallStep \/ ReplayCall
  BY <1>1, <1>2, <1>5, CallFacts
<1>6. CASE StoreReceipt \/ RecordAddress \/ FinishDeployFn
  <2>1. Up /\ at # "next" /\ El \in Contracts /\ status = "failing"
    BY <1>1, <1>6 DEF StoreReceipt, RecordAddress, FinishDeployFn, Advance, TypeOK
  <2>2. El \in Events
    BY <2>1, PlanElements DEF TypeOK
  <2> QED
    BY <2>1, <2>2, ShapeAssumption DEF ShapeAssumption
<1>7. CASE FinishEvent
  <2>1. /\ status = "failing" /\ pos' = pos + 1 /\ El = OnFail[pos] /\ Cur = El
    BY <1>1, <1>7 DEF FinishEvent, Advance, El, Plan, Cur
  <2>2. mem'.done = mem.done \cup {El}
    BY <1>7, <2>1, FinishFacts
  <2>3. i < pos \/ i = pos
    BY <1>0, <1>1, <2>1
  <2> QED
    BY <2>1, <2>2, <2>3 DEF FailProgress
<1>8. CASE StartRun \/ Develop
  BY <1>1, <1>8, DevelopFacts DEF StartRun
<1>9. CASE UNCHANGED vars
  BY <1>1, <1>2, <1>9 DEF vars, proc
<1> QED
  BY <1>3, <1>4, <1>5, <1>6, <1>7, <1>8, <1>9, NextCases

LEMMA AuxiliaryInit == Init => Auxiliary
BY DEF Init, Auxiliary, NotSkipped, Coded, FailProgress, EmptyState, Up

LEMMA AuxiliaryStep == Inductive /\ Auxiliary /\ [Next]_vars => Auxiliary'
BY NotSkippedStep, CodedStep, FailProgressStep DEF Auxiliary, Inductive

(***************************************************************************)
(* The elements on record, and whose turn it is.                           *)
(***************************************************************************)

(* Contracts and hooks, by which OnRecord is taken apart.                  *)
LEMMA RecordParts ==
  ASSUME TypeOK
  PROVE  /\ Contracts \cap Events = {} /\ skip \subseteq Contracts /\ file.done \subseteq Events
         /\ file.addr \in [Contracts -> Nat]
         /\ \A c \in Contracts : c \in OnRecord <=> file.addr[c] # 0
         /\ \A e \in Members(Order) \cup Members(OnFail) :
              e \notin Contracts => (e \in OnRecord <=> e \in file.done)
<1>1. Contracts \cap Events = {} /\ MaySkip \subseteq Contracts
  BY ShapeAssumption DEF ShapeAssumption
<1>2. /\ file.done \subseteq Events /\ file.addr \in [Contracts -> Nat]
      /\ skip \subseteq MaySkip
  BY DEF TypeOK, State
<1> QED
  BY <1>1, <1>2 DEF OnRecord

(* A step that changes no address and no executed hook changes nothing of  *)
(* the record.                                                             *)
LEMMA RecordKept ==
  ASSUME file'.addr = file.addr, file'.done = file.done
  PROVE  OnRecord' = OnRecord
BY DEF OnRecord

(* The tool is at the first element that is not settled.                   *)
LEMMA ElementDue ==
  ASSUME Inductive, Auxiliary, Up, pos \in DOMAIN Plan,
         IF El \in Contracts THEN mem.addr[El] = 0 /\ El \notin skip ELSE El \notin mem.done
  PROVE  Promise!Turn(pos) /\ Promise!Up /\ Promise!Plan = Plan
<1>1. TypeOK /\ file.addr = mem.addr /\ file.done = mem.done
  BY DEF Inductive, Sync
<1>2. Promise!Plan = Plan /\ Promise!Up
  BY DEF Promise!Plan, Promise!Up, Plan, Stage, Up
<1>3. El \in Members(Order) \cup Members(OnFail)
  BY DEF El, Plan, Members
<1>4. El \notin OnRecord /\ El \notin skip
  BY <1>1, <1>3, RecordParts
<1>5. ASSUME NEW i \in DOMAIN Plan, i < pos PROVE Plan[i] \in OnRecord \cup skip
  <2>1. CASE status = "running"
    <3>1. Plan = Order /\ Order[i] \in Members(Order)
      BY <1>5, <2>1 DEF Plan, Members
    <3>2. IF Order[i] \in Contracts THEN mem.addr[Order[i]] # 0 \/ Order[i] \in skip
                                    ELSE Order[i] \in mem.done
      BY <1>5, <2>1, <3>1 DEF Inductive, Progress
    <3> QED
      BY <1>1, <3>1, <3>2, RecordParts
  <2>2. CASE status = "failing"
    <3>1. Plan = OnFail /\ OnFail[i] \in Members(OnFail) /\ OnFail[i] \in mem.done
      BY <1>5, <2>2 DEF Plan, Members, Auxiliary, FailProgress
    <3> QED
      BY <1>1, <3>1 DEF OnRecord
  <2> QED
    BY <2>1, <2>2 DEF Up
<1> QED
  BY <1>2, <1>4, <1>5 DEF Promise!Turn, Promise!Settled, El

(* The element that is being executed is due.                              *)
LEMMA RunningDue ==
  ASSUME Inductive, Auxiliary, Up, at # "next"
  PROVE  pos \in DOMAIN Plan /\ Promise!Turn(pos) /\ Promise!Up /\ Promise!Plan = Plan
<1>1. pos \in DOMAIN Plan
  BY DEF Inductive, TypeOK
<1>2. IF El \in Contracts THEN mem.addr[El] = 0 /\ El \notin skip ELSE El \notin mem.done
  BY DEF Inductive, Place, Auxiliary, NotSkipped
<1> QED
  BY <1>1, <1>2, ElementDue

(***************************************************************************)
(* Every step is one of Checklist, or changes nothing of it.               *)
(***************************************************************************)

(* An error of the order comes from the element that is due.               *)
LEMMA ThrowsDue ==
  ASSUME Inductive, Auxiliary, QuietStep, status = "running", status' = "failing"
  PROVE  pos \in DOMAIN Plan /\ Promise!Turn(pos) /\ Promise!Plan = Plan
<1>1. /\ pos \in DOMAIN Plan /\ Up
      /\ IF El \in Contracts THEN mem.addr[El] = 0 ELSE El \notin mem.done
  BY ThrowsUnfinished DEF Inductive, Plan, Up
<1>2. El \in Contracts => El \notin skip
  <2>1. CASE at # "next"
    BY <1>1, <2>1 DEF Auxiliary, NotSkipped
  <2>2. CASE at = "next"
    <3>1. NotLinkable \/ DeployFails \/ DepsMissing
      BY <2>2 DEF QuietStep, EndRun, SkipContract, SkipEvent, WaitFails, NotCallable,
         CallWaitFails, FunctionThrows, DeployFnSentNothing, RejectCall, CallLeft, Crash,
         Advance
    <3> QED
      BY <3>1, ShapeAssumption
         DEF NotLinkable, DeployFails, DepsMissing, AtEvent, ToDeploy, ShapeAssumption
  <2> QED
    BY <2>1, <2>2
<1> QED
  BY <1>1, <1>2, ElementDue

(* When the last element is through, all are settled.                      *)
LEMMA EndSettled ==
  ASSUME Inductive, EndRun, status = "running"
  PROVE  Members(Order) \subseteq OnRecord \cup skip
<1>1. /\ TypeOK /\ file.addr = mem.addr /\ file.done = mem.done
      /\ pos > Len(Order) /\ Order \in Seq(Elements) /\ pos \in Nat
  BY ShapeAssumption DEF Inductive, Sync, Up, EndRun, Plan, TypeOK, ShapeAssumption
<1>2. \A i \in DOMAIN Order : i < pos
  BY <1>1
<1>3. ASSUME NEW i \in DOMAIN Order PROVE Order[i] \in OnRecord \cup skip
  <2>1. IF Order[i] \in Contracts THEN mem.addr[Order[i]] # 0 \/ Order[i] \in skip
                                  ELSE Order[i] \in mem.done
    BY <1>2 DEF Inductive, Progress
  <2>2. Order[i] \in Members(Order)
    BY DEF Members
  <2> QED
    BY <1>1, <2>1, <2>2, RecordParts
<1> QED
  BY <1>3 DEF Members

(* Errors, skipped elements and the end of a run.                          *)
LEMMA QuietMap ==
  ASSUME Inductive, Auxiliary, QuietStep
  PROVE  [Promise!Next]_(Promise!vars)
<1>1. Up /\ UNCHANGED <<OnRecord, skip>>
  BY QuietFacts, RecordKept
<1>2. \/ status' = status
      \/ status = "running" /\ status' = "failing"
      \/ EndRun /\ status = "running" /\ status' = "done"
      \/ status' \in {"failed", "crashed"}
  BY DEF QuietStep, EndRun, SkipContract, NotLinkable, DeployFails, WaitFails, SkipEvent,
     DepsMissing, NotCallable, CallWaitFails, FunctionThrows, DeployFnSentNothing, RejectCall,
     Crash, Throw
<1>3. CASE status' = status
  BY <1>1, <1>3 DEF Promise!vars, Stage
<1>4. CASE status = "running" /\ status' = "failing"
  <2>1. Promise!Fail
    BY <1>1, <1>4, ThrowsDue DEF Promise!Fail, Stage
  <2> QED
    BY <2>1 DEF Promise!Next
<1>5. CASE EndRun /\ status = "running" /\ status' = "done"
  <2>1. Promise!Members(Order) = Members(Order)
    BY DEF Promise!Members, Members
  <2>2. Promise!Succeed
    BY <1>1, <1>5, <2>1, EndSettled DEF Promise!Succeed, Promise!Settled, Stage
  <2> QED
    BY <2>2 DEF Promise!Next
<1>6. CASE status' \in {"failed", "crashed"}
  <2>1. Promise!Stop
    BY <1>1, <1>6 DEF Promise!Stop, Promise!Up, Stage, Up
  <2> QED
    BY <2>1 DEF Promise!Next
<1> QED
  BY <1>2, <1>3, <1>4, <1>5, <1>6

(* The address of a contract, or a hook that was executed, is recorded:    *)
(* the element that is due is settled.                                     *)
LEMMA SettleMap ==
  ASSUME Inductive, Auxiliary, RecordAddress \/ FinishEvent
  PROVE  Promise!Settle
<1>0. TypeOK /\ Sync /\ mem \in State /\ mem.addr \in [Contracts -> Nat]
  BY DEF Inductive, TypeOK, State
<1>1. Up /\ at # "next" /\ UNCHANGED <<skip, status>>
  BY DEF RecordAddress, FinishEvent, setup, input
<1>2. /\ pos \in DOMAIN Plan /\ Promise!Turn(pos) /\ Promise!Up /\ Promise!Plan = Plan
      /\ file.addr = mem.addr /\ file.done = mem.done
      /\ El \in Members(Order) \cup Members(OnFail)
  BY <1>1, RunningDue DEF Inductive, Sync, El, Plan, Members
<1>3. OnRecord' = OnRecord \cup {El}
  <2>1. CASE RecordAddress
    <3>1. El \in Contracts /\ MadeHere /\ deployed \in Seq(Deployed)
      BY <2>1 DEF RecordAddress, Inductive, TypeOK, InFlight, Created
    <3>2. made # 0 /\ made \in Nat
      BY <3>1 DEF MadeHere, IsAddressOf
    <3>3. mem'.addr = [mem.addr EXCEPT ![El] = made]
      BY <1>0, <2>1 DEF RecordAddress, State
    <3>4. file'.addr = [file.addr EXCEPT ![El] = made] /\ file'.done = file.done
      BY <1>0, <1>2, <2>1, <3>3, StoreFacts
    <3> QED
      BY <1>0, <1>2, <3>1, <3>2, <3>4 DEF OnRecord
  <2>2. CASE FinishEvent
    <3>1. Cur = El
      BY <2>2 DEF FinishEvent, Cur
    <3>2. file'.addr = file.addr /\ file'.done = file.done \cup {El}
      BY <1>0, <1>2, <2>2, <3>1, FinishFacts
    <3> QED
      BY <1>2, <3>2 DEF OnRecord
  <2> QED
    BY <2>1, <2>2
<1>4. Stage' = Stage
  BY <1>1 DEF Stage
<1> QED
  BY <1>1, <1>2, <1>3, <1>4 DEF Promise!Settle, El

(* The steps between the beginning and the end of an element.              *)
LEMMA StutterMap ==
  ASSUME Inductive, \/ SendDeploy \/ StoreReceipt \/ BeginEvent \/ BeginDeployFn
                    \/ ReplayCall \/ CallStep \/ FinishDeployFn \/ UNCHANGED vars
                    \/ \E c \in Contracts : Edit(c)
  PROVE  UNCHANGED (Promise!vars)
<1>0. TypeOK /\ Sync /\ mem \in State
  BY DEF Inductive, TypeOK
<1>1. ASSUME file'.addr = file.addr, OnRecord' = OnRecord, UNCHANGED <<skip, status>>
      PROVE  UNCHANGED (Promise!vars)
  BY <1>1 DEF Promise!vars, Stage
<1>2. ASSUME UNCHANGED <<file, skip, status>> PROVE UNCHANGED (Promise!vars)
  BY <1>1, <1>2, RecordKept
<1>3. CASE SendDeploy \/ BeginEvent \/ BeginDeployFn \/ SendCall \/ SendRevertingCall
  BY <1>2, <1>3 DEF SendDeploy, BeginEvent, BeginDeployFn, SendCall, SendRevertingCall,
     setup, input
<1>4. CASE StoreReceipt
  <2>1. /\ UNCHANGED <<skip, status>> /\ Up
        /\ file'.addr = mem'.addr /\ file'.done = file.done
    BY <1>0, <1>4, StoreFacts DEF StoreReceipt, setup, input
  <2>2. mem'.addr = mem.addr
    BY <1>0, <1>4 DEF StoreReceipt, State
  <2> QED
    BY <1>0, <1>1, <2>1, <2>2, RecordKept DEF Sync
<1>5. CASE ReplayCall \/ ConfirmCall
  BY <1>0, <1>1, <1>5, CallFacts, LogFacts, RecordKept DEF CallStep
<1>6. CASE FinishDeployFn
  <2>1. /\ UNCHANGED <<skip, status>> /\ Up /\ at = "call" /\ El \in Contracts
    BY <1>6 DEF FinishDeployFn, setup, input
  <2>2. file'.addr = file.addr /\ file'.done = file.done \cup {Cur}
    BY <1>0, <1>6, <2>1, FinishFacts DEF Sync
  <2>3. Cur \notin Members(Order) \cup Members(OnFail)
    BY <1>0, <2>1, DeployFnRuns, OrderAssumption DEF FnEvents, OrderAssumption
  <2>4. OnRecord' = OnRecord
    BY <2>2, <2>3 DEF OnRecord
  <2> QED
    BY <1>1, <2>1, <2>2, <2>4
<1>7. CASE \E c \in Contracts : Edit(c)
  BY <1>2, <1>7 DEF Edit, proc
<1>8. CASE UNCHANGED vars
  BY <1>2, <1>8 DEF vars, proc, input
<1> QED
  BY <1>3, <1>4, <1>5, <1>6, <1>7, <1>8 DEF CallStep

(* A run begins with what resolving leaves on record: an executed hook     *)
(* only when no contract it depends on has lost its address.               *)
LEMMA BeginMap ==
  ASSUME Inductive, Auxiliary, StartRun
  PROVE  Promise!Begin
<1>0. TypeOK
  BY DEF Inductive
<1>1. /\ file' = Resolved /\ status' = "running" /\ ~Up /\ UNCHANGED skip
  BY DEF StartRun, StoreNewState, input
<1>2. ASSUME NEW c \in Contracts
      PROVE  Resolved.addr[c] = IF c \in Kept \ Invalidated THEN file.addr[c] ELSE 0
  BY DEF Resolved
<1>3. Resolved.done = (file.done \cap Members(Order)) \ ResetEvents
  BY DEF Resolved
<1>4. OnRecord' \subseteq OnRecord \cap Members(Order)
  BY <1>0, <1>1, <1>2, <1>3, ShapeAssumption DEF OnRecord, ShapeAssumption
<1>5. ASSUME NEW e \in OnRecord' \ Contracts, NEW c \in Deps[e] \cap OnRecord
      PROVE  c \in OnRecord'
  <2>1. e \in file.done /\ e \in Events /\ e \notin ResetEvents
    BY <1>0, <1>1, <1>3, <1>5, RecordParts DEF OnRecord
  <2>2. c \in Contracts /\ file.addr[c] # 0
    <3>1. Deps[e] \subseteq Contracts
      BY <2>1, ShapeAssumption DEF ShapeAssumption
    <3> QED
      BY <1>0, <3>1, RecordParts
  <2>3. c \notin Redone
    BY <2>1 DEF ResetEvents
  <2>4. c \in Kept \ Invalidated
    BY <2>2, <2>3 DEF Redone, Kept, Recorded, Auxiliary, Coded
  <2> QED
    BY <1>1, <1>2, <2>2, <2>4 DEF OnRecord
<1>6. ~Promise!Up /\ Stage' = "running" /\ Promise!Members(Order) = Members(Order)
  BY <1>1 DEF Promise!Up, Stage, Up, Promise!Members, Members
<1> QED
  BY <1>1, <1>4, <1>5, <1>6 DEF Promise!Begin

(* The developer changes the module config.                                *)
LEMMA ConfigureMap ==
  ASSUME Inductive, NEW c \in Contracts, Configure(c)
  PROVE  Promise!Configure
<1>1. skip \subseteq Contracts
  BY RecordParts DEF Inductive
<1>2. /\ ~Up /\ UNCHANGED <<file, status>>
      /\ skip' = IF c \in skip THEN skip \ {c} ELSE skip \cup {c}
  BY DEF Configure, proc
<1>3. OnRecord' = OnRecord /\ Stage' = Stage /\ ~Promise!Up
  BY <1>2, RecordKept DEF Stage, Promise!Up, Up
<1> QED
  BY <1>1, <1>2, <1>3 DEF Promise!Configure

(* Every step of Deployment is a step of Checklist, or leaves it alone.    *)
LEMMA StepMap ==
  ASSUME Inductive, Auxiliary, [Next]_vars
  PROVE  [Promise!Next]_(Promise!vars)
<1>1. CASE QuietStep
  BY <1>1, QuietMap
<1>2. CASE RecordAddress \/ FinishEvent
  BY <1>2, SettleMap DEF Promise!Next
<1>3. CASE StartRun
  BY <1>3, BeginMap DEF Promise!Next
<1>4. CASE \E c \in Contracts : Configure(c)
  BY <1>4, ConfigureMap DEF Promise!Next
<1>5. CASE \/ SendDeploy \/ StoreReceipt \/ BeginEvent \/ BeginDeployFn
           \/ ReplayCall \/ CallStep \/ FinishDeployFn \/ UNCHANGED vars
           \/ \E c \in Contracts : Edit(c)
  BY <1>5, StutterMap
<1> QED
  BY <1>1, <1>2, <1>3, <1>4, <1>5, NextCases DEF Develop

LEMMA InitMap == Init => Promise!Init
<1> SUFFICES ASSUME Init PROVE Promise!Init
  OBVIOUS
<1>1. TypeOK /\ file = EmptyState /\ status = "idle"
  BY InitType DEF Init
<1>2. OnRecord = {}
  BY <1>1 DEF OnRecord, EmptyState
<1> QED
  BY <1>1, <1>2, RecordParts DEF Promise!Init, Stage

(* Whatever fails or dies in between, the runs of the tool work off the    *)
(* checklist of the module: Deployment implements Checklist.               *)
THEOREM WorksOffChecklist == Spec => ImplementsChecklist
<1>1. Spec => []Auxiliary
  BY AuxiliaryInit, AuxiliaryStep, InductiveInvariant, PTL DEF Spec
<1> QED
  BY <1>1, InitMap, StepMap, InductiveInvariant, PTL DEF Spec, ImplementsChecklist, Promise!Spec

(* The two invariants proved before hold together.                         *)
LEMMA Foundation == Spec => [](Inductive /\ Auxiliary)
BY InductiveInit, InductiveStep, AuxiliaryInit, AuxiliaryStep, PTL DEF Spec

(***************************************************************************)
(* What stays deployed.                                                    *)
(***************************************************************************)

(* The addresses that are invalidated are closed under arguments: the      *)
(* least such set.                                                         *)
LEMMA InvalidatedClosed == ArgsForgotten(Invalidated)
<1>1. SUFFICES ASSUME NEW d \in (Fresh \cap Recorded) \cup Invalidated,
                      NEW x \in Args[d] \cap Kept,
                      NEW S \in SUBSET Kept, ArgsForgotten(S)
               PROVE  x \in S
  BY DEF ArgsForgotten, Invalidated
<1>2. d \in (Fresh \cap Recorded) \cup S
  BY <1>1 DEF Invalidated
<1> QED
  BY <1>1, <1>2 DEF ArgsForgotten

(* An address is invalidated only on behalf of a contract that takes it    *)
(* and is redone.                                                          *)
LEMMA InvalidatedTaken ==
  ASSUME NEW c \in Invalidated
  PROVE  \E d \in Redone : c \in Args[d]
<1>1. ArgsForgotten(Invalidated)
  BY InvalidatedClosed
<1>2. SUFFICES ASSUME \A d \in Redone : c \notin Args[d] PROVE FALSE
  OBVIOUS
<1>3. ArgsForgotten(Invalidated \ {c})
  BY <1>1, <1>2 DEF ArgsForgotten, Redone
<1>4. Invalidated \ {c} \in SUBSET Kept
  BY DEF Invalidated
<1> QED
  BY <1>3, <1>4 DEF Invalidated

(* What resolving makes of a contract that is up to date.                  *)
LEMMA ResolvedKeeps ==
  ASSUME TypeOK, Coded, NEW c \in Contracts \ Forced, file.addr[c] # 0, file.code[c] = code[c]
  PROVE  \/ Resolved.addr[c] = file.addr[c]
         \/ \E d \in Contracts : c \in Args[d] /\ file.code[d] # 0 /\ Resolved.addr[d] = 0
<1>1. c \in Kept
  BY DEF Kept, Fresh
<1>2. CASE c \notin Invalidated
  BY <1>1, <1>2 DEF Resolved
<1>3. CASE c \in Invalidated
  <2>1. PICK d \in Redone : c \in Args[d]
    BY <1>3, InvalidatedTaken
  <2>2. d \in Contracts /\ file.code[d] # 0 /\ d \notin Kept \ Invalidated
    BY DEF Redone, Recorded, Fresh, Invalidated, Kept, Coded
  <2>3. Resolved.addr[d] = 0
    BY <2>2 DEF Resolved
  <2> QED
    BY <2>1, <2>2, <2>3
<1> QED
  BY <1>2, <1>3

(* A contract that is up to date stays where it is, unless a contract that *)
(* takes it as an argument has to be deployed again.                       *)
THEOREM StaysDeployed == Spec => KeepsDeployed
<1>1. ASSUME Inductive, Auxiliary, [Next]_vars,
             NEW c \in Contracts \ Forced, file.addr[c] # 0, file.code[c] = code[c]
      PROVE  file'.addr[c] = file.addr[c] \/ TakerGoes(c)
  <2>1. CASE StartRun
    BY <1>1, <2>1, ResolvedKeeps DEF StartRun, StoreNewState, Inductive, Auxiliary, TakerGoes
  <2>2. CASE ~StartRun
    BY <1>1, <2>2, FileSteps
  <2> QED
    BY <2>1, <2>2
<1>2. Inductive /\ Auxiliary /\ [Next]_vars =>
        [\A c \in Contracts \ Forced :
           file.addr[c] # 0 /\ file.code[c] = code[c] =>
             file'.addr[c] = file.addr[c] \/ TakerGoes(c)]_vars
  BY <1>1
<1> QED
  BY <1>2, Foundation, PTL DEF Spec, KeepsDeployed

(***************************************************************************)
(* What deploy functions create.                                           *)
(***************************************************************************)
LEMMA CustomKnownStep ==
  ASSUME Inductive, CustomKnown, [Next]_vars
  PROVE  CustomKnown'
<1>0. TypeOK /\ Sync /\ Place /\ mem \in State /\ mem.addr \in [Contracts -> Nat]
  BY DEF Inductive, TypeOK, State
<1>1. CASE Up /\ UNCHANGED custom /\ \A c \in Contracts : mem'.addr[c] = 0 => mem.addr[c] = 0
  BY <1>1 DEF CustomKnown
<1>2. CASE QuietStep
  BY <1>1, <1>2, QuietFacts
<1>3. CASE SendDeploy \/ BeginEvent \/ BeginDeployFn
  BY <1>1, <1>3 DEF SendDeploy, BeginEvent, BeginDeployFn, AtContract, AtEvent, AtElement, setup
<1>4. CASE StoreReceipt \/ RecordAddress
  <2>1. Up /\ El \in Contracts /\ mem.addr[El] = 0 /\ UNCHANGED custom
    BY <1>0, <1>4, StoreFacts DEF Place, StoreReceipt, RecordAddress, setup
  <2>2. mem'.addr = mem.addr \/ mem'.addr = [mem.addr EXCEPT ![El] = made]
    BY <1>0, <1>4 DEF StoreReceipt, RecordAddress, State
  <2> QED
    BY <1>0, <1>1, <2>1, <2>2
<1>5. CASE CallStep \/ ReplayCall
  BY <1>0, <1>1, <1>5, CallFacts
<1>6. CASE FinishEvent \/ FinishDeployFn
  BY <1>0, <1>1, <1>6, FinishFacts DEF setup
<1>7. CASE StartRun
  <2>1. mem' = Resolved /\ custom' = CustomDeployed
    BY <1>7 DEF StartRun
  <2>2. ASSUME NEW c \in Contracts, FnEvent[c] # NoEvent, Resolved.addr[c] = 0
        PROVE  c \in CustomDeployed \/ \E d \in Contracts : c \in Args[d]
    <3>1. CASE c \in Invalidated
      BY <3>1, InvalidatedTaken DEF Redone, Recorded, Invalidated, Kept
    <3>2. CASE c \notin Invalidated
      BY <2>2, <3>2 DEF Resolved, Kept, Fresh, CustomDeployed
    <3> QED
      BY <3>1, <3>2
  <2> QED
    BY <2>1, <2>2 DEF CustomKnown
<1>8. CASE Develop
  BY <1>8, DevelopFacts DEF CustomKnown
<1>9. CASE UNCHANGED vars
  BY <1>9 DEF vars, proc, CustomKnown, Up
<1> QED
  BY <1>2, <1>3, <1>4, <1>5, <1>6, <1>7, <1>8, <1>9, NextCases

(* A creation is that of the current contract: by its deploy function, or  *)
(* by the tool if the process knows of none.                               *)
LEMMA CustomStep ==
  ASSUME Inductive, CustomKnown, CustomStaysCustom, [Next]_vars
  PROVE  CustomStaysCustom'
<1>0. TypeOK /\ deployed \in Seq(Deployed)
  BY DEF Inductive, TypeOK
<1>1. CASE UNCHANGED deployed
  BY <1>1 DEF CustomStaysCustom
<1>2. ASSUME NEW d, deployed' = Append(deployed, d),
             \/ d.by = FnEvent[d.contract]
             \/ d.by = NoEvent /\ \E t \in Contracts : d.contract \in Args[t]
      PROVE  CustomStaysCustom'
  <2>1. \A i \in DOMAIN deployed' : \/ i \in DOMAIN deployed /\ deployed'[i] = deployed[i]
                                    \/ deployed'[i] = d
    BY <1>0, <1>2
  <2> QED
    BY <1>2, <2>1 DEF CustomStaysCustom
<1>3. CASE SendDeploy
  <2>1. /\ deployed' = Append(deployed, Creation(El)) /\ Up /\ El \in Contracts
        /\ mem.addr[El] = 0 /\ El \notin custom
    BY <1>3 DEF SendDeploy, AtContract, AtElement, ToDeploy
  <2>2. FnEvent[El] = NoEvent \/ \E t \in Contracts : El \in Args[t]
    BY <2>1 DEF CustomKnown
  <2>3. Creation(El).by = NoEvent /\ Creation(El).contract = El
    BY DEF Creation
  <2> QED
    BY <1>2, <2>1, <2>2, <2>3
<1>4. CASE SendCall
  <2>1. CASE Creates
    <3>1. El \in Contracts /\ Cur = FnEvent[El]
      BY <2>1, ShapeAssumption DEF Creates, Cur, ShapeAssumption
    <3>2. \E d : deployed' = Append(deployed, d) /\ d.contract = El /\ d.by = Cur
      <4> DEFINE d == [contract |-> El, code |-> mem.code[El], run |-> run, by |-> Cur,
                       args |-> [a \in Contracts |-> 0]]
      <4>1. deployed' = Append(deployed, d) /\ d.contract = El /\ d.by = Cur
        BY <1>4, <2>1 DEF SendCall
      <4> QED
        BY <4>1
    <3> QED
      BY <1>2, <3>1, <3>2
  <2>2. CASE ~Creates
    BY <1>1, <1>4, <2>2 DEF SendCall
  <2> QED
    BY <2>1, <2>2
<1>5. CASE ~SendDeploy /\ ~SendCall
  <2>1. UNCHANGED deployed
    BY <1>0, <1>5, NextCases, QuietFacts, FinishFacts, DevelopFacts
       DEF StoreReceipt, RecordAddress, BeginEvent, BeginDeployFn, ReplayCall,
       CallStep, SendRevertingCall, ConfirmCall, StartRun, vars, chain
  <2> QED
    BY <1>1, <2>1
<1> QED
  BY <1>3, <1>4, <1>5

(* A contract with a deploy function is created by it alone, unless it is  *)
(* taken as an argument.                                                   *)
THEOREM CustomByItsFunction == Spec => []CustomStaysCustom
<1>1. Init => CustomKnown /\ CustomStaysCustom
  BY DEF Init, CustomKnown, CustomStaysCustom, Up
<1>2. Inductive /\ CustomKnown /\ CustomStaysCustom /\ [Next]_vars
        => (CustomKnown /\ CustomStaysCustom)'
  BY CustomKnownStep, CustomStep
<1> QED
  BY <1>1, <1>2, InductiveInvariant, PTL DEF Spec

(***************************************************************************)
(* Every call is made.                                                     *)
(***************************************************************************)

(* Calls on the chain are there to stay; SendCall adds one.                *)
LEMMA CallsGrow ==
  ASSUME TypeOK, [Next]_vars
  PROVE  /\ ~SendCall => UNCHANGED calls
         /\ \A j \in DOMAIN calls : j \in DOMAIN calls' /\ calls'[j] = calls[j]
         /\ \A e, i : Sent(e, i) => Sent(e, i)'
<1>1. ~SendCall => UNCHANGED calls
  BY NextCases, QuietFacts, FinishFacts, DevelopFacts
     DEF SendDeploy, StoreReceipt, RecordAddress, BeginEvent, BeginDeployFn, ReplayCall,
     CallStep, SendRevertingCall, ConfirmCall, StartRun, vars, chain
<1>2. SendCall => \E x : calls' = Append(calls, x)
  BY DEF SendCall
<1>3. calls \in Seq(Called)
  BY DEF TypeOK
<1>4. \A j \in DOMAIN calls : j \in DOMAIN calls' /\ calls'[j] = calls[j]
  BY <1>1, <1>2, <1>3
<1> QED
  BY <1>1, <1>4 DEF Sent

(* What SendCall adds.                                                     *)
LEMMA CallAdded ==
  ASSUME TypeOK, SendCall
  PROVE  LET x == [event |-> Cur, index |-> ci, run |-> run,
                   to |-> IF Target \in Contracts THEN mem.addr[Target] ELSE 0]
         IN /\ Len(calls') = Len(calls) + 1 /\ DOMAIN calls' = DOMAIN calls \cup {receipt'}
            /\ receipt' = Len(calls) + 1 /\ receipt' \notin DOMAIN calls
            /\ calls'[receipt'] = x
            /\ \A j \in DOMAIN calls : calls'[j] = calls[j]
<1> DEFINE x == [event |-> Cur, index |-> ci, run |-> run,
                 to |-> IF Target \in Contracts THEN mem.addr[Target] ELSE 0]
<1>1. calls' = Append(calls, x) /\ receipt' = Len(calls) + 1
  BY DEF SendCall
<1>2. calls \in Seq(Called)
  BY DEF TypeOK
<1> HIDE DEF x
<1>3. /\ Len(calls') = Len(calls) + 1 /\ DOMAIN calls' = DOMAIN calls \cup {receipt'}
      /\ receipt' \notin DOMAIN calls /\ calls'[receipt'] = x
      /\ \A j \in DOMAIN calls : calls'[j] = calls[j]
  BY <1>1, <1>2
<1> QED
  BY <1>1, <1>3 DEF x

(* A call that is answered from the file was made before.                  *)
LEMMA ReplayedWasSent ==
  ASSUME TypeOK, ReceiptsOfCalls, ReplayCall
  PROVE  /\ Target \in Contracts /\ file.log[Cur][Target] # <<>>
         /\ \A i \in DOMAIN Calls[Cur] : Calls[Cur][i] = Target => Sent(Cur, i)
<1>1. Cur \in Events
  BY CallFacts
<1>2. Target \in Contracts /\ Len(file.log[Cur][Target]) > progress[Target]
  BY DEF ReplayCall, Replays
<1>3. progress[Target] \in Nat
  BY <1>2 DEF TypeOK
<1>4. file.log[Cur][Target] # <<>>
  <2> SUFFICES ASSUME file.log[Cur][Target] = <<>> PROVE FALSE
    OBVIOUS
  <2>1. Len(file.log[Cur][Target]) = 0
    OBVIOUS
  <2> QED
    BY <1>2, <1>3, <2>1
<1> QED
  BY <1>1, <1>2, <1>4 DEF ReceiptsOfCalls

(* A call that is confirmed was made.                                      *)
LEMMA ConfirmedWasSent ==
  ASSUME TypeOK, Awaited, ConfirmCall
  PROVE  Sent(Cur, ci)
<1>1. Up /\ at = "wait" /\ receipt # 0 /\ receipt \in DOMAIN calls
  BY DEF ConfirmCall, TypeOK
<1> QED
  BY <1>1 DEF Awaited, Sent

(* An answer is awaited for the call that was just sent.                   *)
LEMMA AwaitedStep ==
  ASSUME TypeOK, Awaited, [Next]_vars
  PROVE  Awaited'
<1>1. CASE SendCall
  <2>1. Cur' = Cur /\ ci' = ci
    BY <1>1, CallFacts DEF CallStep, SendCall
  <2> QED
    BY <1>1, <2>1, CallAdded DEF Awaited
<1>2. CASE UNCHANGED vars
  BY <1>2 DEF vars, proc, chain, Awaited, Up, Cur, El, Plan
<1>3. CASE ~SendCall /\ ~UNCHANGED vars
  <2>1. Up' /\ at' = "wait" => receipt' = 0
    BY <1>3, NextCases, QuietFacts, DevelopFacts
       DEF SendDeploy, StoreReceipt, RecordAddress, BeginEvent, BeginDeployFn, CallStep,
       SendRevertingCall, ReplayCall, ConfirmCall, CallLeft, FinishEvent, FinishDeployFn,
       StartRun, Advance
  <2> QED
    BY <2>1 DEF Awaited
<1> QED
  BY <1>1, <1>2, <1>3

LEMMA CallsBehindStep ==
  ASSUME TypeOK, Awaited, CallsBehind, ReceiptsOfCalls, [Next]_vars
  PROVE  CallsBehind'
<1>1. CASE QuietStep \/ SendDeploy \/ StoreReceipt \/ RecordAddress \/ FinishEvent
           \/ FinishDeployFn \/ StartRun \/ Develop
  <2>1. Up' => at' \notin {"call", "wait"}
    BY <1>1, QuietFacts, DevelopFacts
       DEF SendDeploy, StoreReceipt, RecordAddress, FinishEvent, FinishDeployFn, StartRun, Advance
  <2> QED
    BY <2>1 DEF CallsBehind
<1>2. CASE BeginEvent \/ BeginDeployFn
  <2>1. at' = "call" /\ ci' = 1
    BY <1>2 DEF BeginEvent, BeginDeployFn
  <2>2. SUFFICES ASSUME Up', NEW i \in DOMAIN Calls[Cur'], i < 1 PROVE FALSE
    BY <2>1 DEF CallsBehind
  <2>3. Cur' \in Events
    <3>1. TypeOK'
      BY TypeStep
    <3> QED
      BY <2>1, <2>2, <3>1, ShapeAssumption DEF TypeOK, Cur, ShapeAssumption
  <2>4. Calls[Cur'] \in Seq(Targets)
    BY <2>3, ShapeAssumption DEF ShapeAssumption
  <2> QED
    BY <2>2, <2>4
<1>3. CASE CallStep \/ ReplayCall
  <2>1. /\ Up /\ at \in {"call", "wait"} /\ Cur' = Cur /\ Cur \in Events /\ ci \in DOMAIN Calls[Cur]
    BY <1>3, CallFacts
  <2>2. \A i \in DOMAIN Calls[Cur] : i \in Nat
    BY <2>1, ShapeAssumption DEF ShapeAssumption
  <2>3. \A i \in DOMAIN Calls[Cur] : i < ci => Sent(Cur, i)'
    BY <2>1, CallsGrow DEF CallsBehind
  <2>4. CASE SendCall
    BY <2>1, <2>3, <2>4 DEF CallsBehind, SendCall
  <2>5. CASE SendRevertingCall
    BY <2>1, <2>3, <2>5 DEF CallsBehind, SendRevertingCall
  <2>6. CASE ConfirmCall \/ ReplayCall
    <3>1. Sent(Cur, ci)
      BY <2>1, <2>6, ConfirmedWasSent, ReplayedWasSent DEF Target
    <3>2. at' = "call" /\ ci' = ci + 1
      BY <2>6 DEF ConfirmCall, ReplayCall, CallLeft
    <3>3. \A i \in DOMAIN Calls[Cur] : i < ci + 1 => i < ci \/ i = ci
      BY <2>1, <2>2
    <3>4. \A i \in DOMAIN Calls[Cur] : i < ci + 1 => Sent(Cur, i)
      BY <2>1, <3>1, <3>3 DEF CallsBehind
    <3>5. \A i \in DOMAIN Calls[Cur] : i < ci + 1 => Sent(Cur, i)'
      BY <2>1, <3>4, CallsGrow
    <3> QED
      BY <2>1, <3>2, <3>5 DEF CallsBehind
  <2> QED
    BY <1>3, <2>4, <2>5, <2>6 DEF CallStep
<1>4. CASE UNCHANGED vars
  BY <1>4 DEF vars, proc, chain, CallsBehind, Up, Cur, El, Plan, Sent
<1> QED
  BY <1>1, <1>2, <1>3, <1>4, NextCases

LEMMA ReceiptsStep ==
  ASSUME DistinctCalls, TypeOK, Sync, Awaited, ReceiptsOfCalls, [Next]_vars
  PROVE  ReceiptsOfCalls'
<1>0. \A e \in Events : /\ Calls[e] \in Seq(Targets)
                        /\ \A i \in DOMAIN Calls[e] : Calls[e][i] \in Targets
  BY ShapeAssumption DEF ShapeAssumption
<1>1. CASE \A e \in Events, t \in Targets :
             /\ file'.log[e][t] # <<>> => file.log[e][t] # <<>> \/ mem.log[e][t] # <<>>
             /\ mem'.log[e][t] # <<>> => file.log[e][t] # <<>> \/ mem.log[e][t] # <<>>
  BY <1>0, <1>1, CallsGrow DEF ReceiptsOfCalls
<1>2. CASE QuietStep \/ Develop
  BY <1>1, <1>2, QuietFacts, DevelopFacts DEF proc
<1>3. CASE SendDeploy \/ BeginEvent \/ BeginDeployFn \/ SendCall \/ SendRevertingCall
  BY <1>1, <1>3 DEF SendDeploy, BeginEvent, BeginDeployFn, SendCall, SendRevertingCall
<1>4. CASE StoreReceipt \/ RecordAddress
  BY <1>1, <1>4, StoreFacts
<1>5. CASE ReplayCall \/ ConfirmCall
  <2>1. \A i \in DOMAIN Calls[Cur] : Calls[Cur][i] = Target /\ Target \in Contracts => Sent(Cur, i)
    <3>1. CASE ReplayCall
      BY <3>1, ReplayedWasSent
    <3>2. CASE ConfirmCall
      <4>1. Sent(Cur, ci) /\ Cur \in Events /\ ci \in DOMAIN Calls[Cur]
        BY <3>2, ConfirmedWasSent, CallFacts DEF CallStep
      <4>2. \A i \in DOMAIN Calls[Cur] : Calls[Cur][i] = Target /\ Target \in Contracts => i = ci
        BY <4>1 DEF DistinctCalls, Target
      <4> QED
        BY <4>1, <4>2
    <3> QED
      BY <1>5, <3>1, <3>2
  <2>2. UNCHANGED mem
    BY <1>5 DEF ReplayCall, ConfirmCall
  <2>3. ASSUME NEW e \in Events, NEW i \in DOMAIN Calls[e], Calls[e][i] \in Contracts,
               file'.log[e][Calls[e][i]] # <<>> \/ mem'.log[e][Calls[e][i]] # <<>>
        PROVE  Sent(e, i)
    <3>1. CASE e = Cur /\ Calls[e][i] = Target
      BY <2>1, <2>3, <3>1
    <3>2. CASE e # Cur \/ Calls[e][i] # Target
      <4>1. file'.log[e][Calls[e][i]] = file.log[e][Calls[e][i]]
        BY <1>0, <1>5, <2>3, <3>2, LogFacts
      <4> QED
        BY <2>2, <2>3, <4>1 DEF ReceiptsOfCalls
    <3> QED
      BY <3>1, <3>2
  <2> QED
    BY <2>3, CallsGrow DEF ReceiptsOfCalls
<1>6. CASE FinishEvent \/ FinishDeployFn
  <2>1. /\ file' = mem' /\ Cur \in Events
        /\ mem'.log = [mem.log EXCEPT ![Cur] =
                          IF Kind[Cur] = "outcome" THEN NoLog ELSE file.log[Cur]]
    BY <1>6, FinishFacts
  <2>2. mem.log \in [Events -> [Targets -> Seq(Nat)]]
    BY DEF TypeOK, State
  <2>3. \A e \in Events, t \in Targets :
          mem'.log[e][t] # <<>> => file.log[e][t] # <<>> \/ mem.log[e][t] # <<>>
    BY <2>1, <2>2 DEF NoLog
  <2> QED
    BY <1>1, <2>1, <2>3
<1>7. CASE StartRun
  <2>1. file' = Resolved /\ mem' = Resolved
    BY <1>7 DEF StartRun, StoreNewState
  <2>2. \A e \in Events, t \in Targets :
          Resolved.log[e][t] # <<>> => file.log[e][t] # <<>>
    BY DEF Resolved, NoLog
  <2> QED
    BY <1>1, <2>1, <2>2
<1>8. CASE UNCHANGED vars
  BY <1>1, <1>8 DEF vars, proc
<1> QED
  BY <1>2, <1>3, <1>4, <1>5, <1>6, <1>7, <1>8, NextCases DEF CallStep

LEMMA AllCallsMadeStep ==
  ASSUME TypeOK, CallsBehind, AllCallsMade, [Next]_vars
  PROVE  AllCallsMade'
<1>1. CASE file'.done \cup mem'.done \subseteq file.done \cup mem.done
  BY <1>1, CallsGrow DEF AllCallsMade
<1>2. CASE QuietStep \/ Develop
  BY <1>1, <1>2, QuietFacts, DevelopFacts DEF proc
<1>3. CASE SendDeploy \/ BeginEvent \/ BeginDeployFn \/ SendCall \/ SendRevertingCall
  BY <1>1, <1>3 DEF SendDeploy, BeginEvent, BeginDeployFn, SendCall, SendRevertingCall
<1>4. CASE StoreReceipt \/ RecordAddress
  <2>1. file'.done = file.done /\ mem'.done = mem.done
    <3>1. file \in State /\ mem \in State
      BY DEF TypeOK
    <3> QED
      BY <1>4, <3>1 DEF StoreReceipt, RecordAddress, StoreSingleBinding, State
  <2> QED
    BY <1>1, <2>1
<1>5. CASE ReplayCall \/ ConfirmCall
  BY <1>1, <1>5, LogFacts DEF ReplayCall, ConfirmCall
<1>6. CASE FinishEvent \/ FinishDeployFn
  <2>1. /\ Up /\ at = "call" /\ Cur \in Events /\ file' = mem' /\ mem'.done = mem.done \cup {Cur}
    BY <1>6, FinishFacts
  <2>2. ci > Len(Calls[Cur])
    BY <1>6 DEF FinishEvent, FinishDeployFn, Cur
  <2>3. Calls[Cur] \in Seq(Targets) /\ ci \in Nat
    BY <2>1, ShapeAssumption DEF TypeOK, ShapeAssumption
  <2>4. \A i \in DOMAIN Calls[Cur] : i < ci
    BY <2>2, <2>3
  <2> QED
    BY <2>1, <2>4, CallsGrow DEF AllCallsMade, CallsBehind
<1>7. CASE StartRun
  BY <1>1, <1>7 DEF StartRun, StoreNewState, Resolved
<1>8. CASE UNCHANGED vars
  BY <1>1, <1>8 DEF vars, proc
<1> QED
  BY <1>2, <1>3, <1>4, <1>5, <1>6, <1>7, <1>8, NextCases DEF CallStep

LEMMA CallsMadeInit == Init => CallsMade
BY DEF Init, CallsMade, CallsBehind, Awaited, ReceiptsOfCalls, AllCallsMade, EmptyState, NoLog, Up, Targets

(* Of a module whose hooks call no contract twice, an executed hook has    *)
(* made every one of its calls, whatever failed, crashed or was redeployed *)
(* in between.                                                             *)
THEOREM ExecutedHooksCalled ==
  ASSUME DistinctCalls
  PROVE  Spec => []AllCallsMade
<1>1. Inductive /\ CallsMade /\ [Next]_vars => CallsMade'
  BY AwaitedStep, CallsBehindStep, ReceiptsStep, AllCallsMadeStep DEF CallsMade, Inductive
<1>2. CallsMade => AllCallsMade
  BY DEF CallsMade
<1> QED
  BY <1>1, <1>2, CallsMadeInit, InductiveInvariant, PTL DEF Spec

(***************************************************************************)
(* Every call reaches the present instance.                                *)
(***************************************************************************)

(* Nothing is recompiled.                                                  *)
LEMMA OneCodeStep ==
  ASSUME NothingAnew, TypeOK, Sync, OneCode, [Next]_vars
  PROVE  OneCode'
<1>1. UNCHANGED code
  <2>1. ASSUME NEW c \in Contracts PROVE ~Edit(c)
    BY DEF OneCode, NothingAnew, Edit
  <2> QED
    BY <2>1, NextCases, QuietFacts, CallFacts, FinishFacts
       DEF SendDeploy, StoreReceipt, RecordAddress, BeginEvent, BeginDeployFn, StartRun,
       Develop, Configure, vars, setup, input
<1>2. file'.code = file.code \/ file'.code = code
  <2>1. CASE StoreReceipt \/ RecordAddress
    BY <2>1, StoreFacts DEF Sync
  <2>2. CASE FinishEvent \/ FinishDeployFn
    BY <2>2, FinishFacts DEF Sync
  <2>3. CASE ReplayCall \/ ConfirmCall
    BY <2>3, LogFacts
  <2>4. CASE StartRun
    BY <2>4 DEF StartRun, StoreNewState, Resolved
  <2>5. CASE ~(StoreReceipt \/ RecordAddress \/ FinishEvent \/ FinishDeployFn \/ ReplayCall
              \/ ConfirmCall \/ StartRun)
    <3>1. UNCHANGED file
      BY <2>5, NextCases, QuietFacts, DevelopFacts
         DEF SendDeploy, BeginEvent, BeginDeployFn, CallStep, SendCall, SendRevertingCall, vars
    <3> QED
      BY <3>1
  <2> QED
    BY <2>1, <2>2, <2>3, <2>4, <2>5
<1> QED
  BY <1>1, <1>2 DEF OneCode

(* A set of contracts that are all deployed, and are taken as arguments by *)
(* one another only, is kept by resolving.                                 *)
LEMMA KeptTogether ==
  ASSUME NothingAnew, TypeOK, OneCode, Coded, NEW D \in SUBSET Contracts,
         \A c \in D : file.addr[c] # 0,
         \A d \in Contracts : Args[d] \cap D # {} => d \in D
  PROVE  D \cap Redone = {} /\ \A c \in D : Resolved.addr[c] = file.addr[c]
<1>1. D \cap Fresh = {} /\ D \subseteq Kept
  BY DEF Fresh, Kept, NothingAnew, OneCode, Coded
<1>2. ArgsForgotten(Kept \ D)
  <2>1. SUFFICES ASSUME NEW c \in (Fresh \cap Recorded) \cup (Kept \ D),
                        NEW x \in Args[c] \cap Kept, x \in D
                 PROVE  FALSE
    BY DEF ArgsForgotten
  <2>2. c \in Contracts /\ c \notin D
    BY <1>1 DEF Fresh, Kept
  <2> QED
    BY <2>1, <2>2
<1>3. D \cap Invalidated = {}
  BY <1>2 DEF Invalidated
<1>4. D \cap Redone = {}
  BY <1>1, <1>3 DEF Redone
<1> QED
  BY <1>1, <1>3, <1>4 DEF Resolved

(* So are the contracts a hook that calls depends on, once it has begun.   *)
LEMMA DepsKept ==
  ASSUME NothingAnew, CallersWait, TypeOK, OneCode, Coded, DepsStay,
         NEW e \in Events, Calling(e), Begun(e)
  PROVE  Deps[e] \cap Redone = {} /\ \A c \in Deps[e] : Resolved.addr[c] = file.addr[c]
<1>1. Deps[e] \in SUBSET Contracts
  BY ShapeAssumption DEF ShapeAssumption
<1>2. \A c \in Deps[e] : file.addr[c] # 0
  BY DEF DepsStay
<1>3. \A d \in Contracts : Args[d] \cap Deps[e] # {} => d \in Deps[e]
  BY DEF CallersWait
<1> QED
  BY <1>1, <1>2, <1>3, KeptTogether

(* Which hooks a step makes begin: the one that runs.                      *)
LEMMA Begins ==
  ASSUME TypeOK, Sync, [Next]_vars, NEW e \in Events, Begun(e)'
  PROVE  Begun(e) \/ (Up /\ at \in {"call", "wait"} /\ e = Cur)
<1>1. CASE SendCall
  <2>1. Up /\ at \in {"call", "wait"} /\ UNCHANGED file
    BY <1>1 DEF SendCall, CallLeft
  <2> QED
    BY <1>1, <2>1, CallAdded DEF Begun
<1>2. CASE ~SendCall
  <2>1. UNCHANGED calls
    BY <1>2, CallsGrow
  <2>2. CASE FinishEvent \/ FinishDeployFn
    BY <2>1, <2>2, FinishFacts DEF Begun, Sync
  <2>3. CASE ~(FinishEvent \/ FinishDeployFn)
    <3>1. file'.done \subseteq file.done
      <4>1. CASE ReplayCall \/ ConfirmCall
        BY <4>1, LogFacts
      <4>2. CASE StoreReceipt \/ RecordAddress
        BY <4>2, StoreFacts
      <4>3. CASE StartRun
        BY <4>3 DEF StartRun, StoreNewState, Resolved
      <4>4. CASE ~(ReplayCall \/ ConfirmCall \/ StoreReceipt \/ RecordAddress \/ StartRun)
        BY <1>2, <2>3, <4>4, NextCases, QuietFacts, DevelopFacts
           DEF SendDeploy, BeginEvent, BeginDeployFn, CallStep, SendRevertingCall, vars
      <4> QED
        BY <4>1, <4>2, <4>3, <4>4
    <3> QED
      BY <2>1, <3>1 DEF Begun
  <2> QED
    BY <2>2, <2>3
<1> QED
  BY <1>1, <1>2

LEMMA DepsStayStep ==
  ASSUME NothingAnew, CallersWait, Inductive, Auxiliary, OneCode, DepsStay, [Next]_vars
  PROVE  DepsStay'
<1>0. TypeOK /\ Sync /\ Coded /\ \A e \in Events : Deps[e] \subseteq Contracts
  BY ShapeAssumption DEF Inductive, Auxiliary, ShapeAssumption
<1>1. CASE StartRun
  <2>1. file' = Resolved /\ at' = "next"
    BY <1>1 DEF StartRun, StoreNewState
  <2>2. \A e \in Events : Begun(e)' => Begun(e)
    BY <1>0, <1>1, Begins DEF StartRun
  <2> QED
    BY <1>0, <2>1, <2>2, DepsKept DEF DepsStay
<1>2. CASE ~StartRun
  <2>1. \A c \in Contracts : file.addr[c] # 0 => file'.addr[c] # 0
    BY <1>2, FileSteps
  <2>2. \A e \in Events : Calling(e) /\ Begun(e)' => \A c \in Deps[e] : file'.addr[c] # 0
    BY <1>0, <2>1, Begins DEF DepsStay
  <2>3. ASSUME Up', at' \in {"call", "wait"}, Calling(Cur')
        PROVE  \A c \in Deps[Cur'] : file'.addr[c] # 0
    <3>1. CASE CallStep \/ ReplayCall
      <4>1. Up /\ at \in {"call", "wait"} /\ Cur' = Cur /\ Cur \in Events
        BY <1>0, <3>1, CallFacts
      <4> QED
        BY <1>0, <2>1, <2>3, <4>1 DEF DepsStay
    <3>2. CASE BeginEvent
      <4>1. /\ El \in Events /\ Cur' = El /\ Up /\ UNCHANGED file
            /\ Kind[El] = "deployed" => \A c \in Deps[El] : mem.addr[c] # 0
        BY <3>2 DEF BeginEvent, AtEvent, AtElement, DepsDeployed, Cur, El, Plan
      <4> QED
        BY <1>0, <2>3, <4>1 DEF CallersWait, Sync
    <3>3. CASE BeginDeployFn
      <4>1. El \in Contracts /\ El \in custom /\ UNCHANGED <<status, pos>>
        BY <3>3 DEF BeginDeployFn, AtContract
      <4>2. Cur' \in FnEvents
        BY <1>0, <4>1, ShapeAssumption DEF Cur, El, Plan, TypeOK, FnEvents, ShapeAssumption
      <4> QED
        BY <2>3, <4>2, FnEventFacts DEF CallersWait
    <3>4. CASE UNCHANGED vars
      BY <2>3, <3>4 DEF vars, proc, DepsStay, Up, Cur, El, Plan
    <3> QED
      BY <1>2, <2>3, <3>1, <3>2, <3>3, <3>4, NextCases, QuietFacts, DevelopFacts
         DEF SendDeploy, StoreReceipt, RecordAddress, FinishEvent, FinishDeployFn, Advance
  <2> QED
    BY <2>2, <2>3 DEF DepsStay
<1> QED
  BY <1>1, <1>2

LEMMA CallsCurrentStep ==
  ASSUME NothingAnew, CallersWait, Inductive, Auxiliary, OneCode, DepsStay, CallsCurrent, [Next]_vars
  PROVE  CallsCurrent'
<1>0. TypeOK /\ Sync /\ Coded
  BY DEF Inductive, Auxiliary
<1>1. ASSUME NEW e \in Events, NEW i \in DOMAIN Calls[e], Calls[e][i] \in Deps[e], Begun(e)
      PROVE  file'.addr[Calls[e][i]] = file.addr[Calls[e][i]]
  <2>1. Calls[e][i] \in Contracts /\ Calling(e)
    BY <1>1, ShapeAssumption DEF ShapeAssumption, Calling
  <2>2. CASE StartRun
    BY <1>0, <1>1, <2>1, <2>2, DepsKept DEF StartRun, StoreNewState
  <2>3. CASE ~StartRun
    BY <1>1, <2>1, <2>3, FileSteps DEF DepsStay
  <2> QED
    BY <2>2, <2>3
<1>2. ASSUME NEW j \in DOMAIN calls, NEW e, e = calls[j].event, NEW i, i = calls[j].index
      PROVE  i \in DOMAIN Calls[e] /\ (Calls[e][i] \in Deps[e] => calls[j].to = file'.addr[Calls[e][i]])
  <2>1. e \in Events
    <3>1. calls \in Seq(Called)
      BY <1>0 DEF TypeOK
    <3>2. calls[j] \in Called
      BY <1>2, <3>1
    <3> QED
      BY <1>2, <3>2 DEF Called
  <2>2. Begun(e)
    BY <1>2 DEF Begun
  <2>3. i \in DOMAIN Calls[e] /\ (Calls[e][i] \in Deps[e] => calls[j].to = file.addr[Calls[e][i]])
    BY <1>2 DEF CallsCurrent
  <2> QED
    BY <1>1, <2>1, <2>2, <2>3
<1>3. CASE SendCall
  <2>1. UNCHANGED file /\ Up /\ Cur \in Events /\ ci \in DOMAIN Calls[Cur]
    BY <1>0, <1>3, CallFacts DEF SendCall, CallLeft, CallStep
  <2>2. /\ calls'[receipt'].event = Cur /\ calls'[receipt'].index = ci
        /\ Target \in Contracts => calls'[receipt'].to = mem.addr[Target]
    BY <1>0, <1>3, CallAdded
  <2>3. Target \in Deps[Cur] => calls'[receipt'].to = file'.addr[Target]
    <3>1. Deps[Cur] \subseteq Contracts
      BY <2>1, ShapeAssumption DEF ShapeAssumption
    <3> QED
      BY <1>0, <2>1, <2>2, <3>1 DEF Sync
  <2>4. DOMAIN calls' = DOMAIN calls \cup {receipt'} /\ \A j \in DOMAIN calls : calls'[j] = calls[j]
    BY <1>0, <1>3, CallAdded
  <2> QED
    BY <1>2, <2>1, <2>2, <2>3, <2>4 DEF CallsCurrent, Target
<1>4. CASE ~SendCall
  <2>1. UNCHANGED calls
    BY <1>0, <1>4, CallsGrow
  <2> QED
    BY <1>2, <2>1 DEF CallsCurrent
<1> QED
  BY <1>3, <1>4

LEMMA CallsReachInit == Init => CallsReach
BY DEF Init, CallsReach, OneCode, DepsStay, CallsCurrent, Begun, EmptyState, Up

(* Of a module whose hooks call no contract twice and wait for what they   *)
(* depend on, an executed hook has made every call to the instance that is *)
(* on record, as long as nothing is recompiled.                            *)
THEOREM ExecutedHooksReached ==
  ASSUME DistinctCalls, NothingAnew, CallersWait
  PROVE  Spec => []ExecutedMeansCalled
<1>1. Inductive /\ Auxiliary /\ CallsMade /\ [Next]_vars => CallsMade'
  BY AwaitedStep, CallsBehindStep, ReceiptsStep, AllCallsMadeStep DEF CallsMade, Inductive
<1>2. Inductive /\ Auxiliary /\ CallsReach /\ [Next]_vars => CallsReach'
  BY OneCodeStep, DepsStayStep, CallsCurrentStep DEF CallsReach, Inductive
<1>3. CallsMade /\ CallsReach => ExecutedMeansCalled
  <2> SUFFICES ASSUME AllCallsMade, CallsCurrent,
                      NEW e \in file.done, NEW i \in DOMAIN Calls[e]
               PROVE  \E j \in DOMAIN calls :
                        /\ calls[j].event = e /\ calls[j].index = i
                        /\ Calls[e][i] \in Deps[e] => calls[j].to = file.addr[Calls[e][i]]
    BY DEF ExecutedMeansCalled, CallsMade, CallsReach
  <2>1. PICK j \in DOMAIN calls : calls[j].event = e /\ calls[j].index = i
    BY DEF AllCallsMade, Sent
  <2> QED
    BY <2>1 DEF CallsCurrent
<1> QED
  BY <1>1, <1>2, <1>3, CallsMadeInit, CallsReachInit, Foundation, PTL DEF Spec

(***************************************************************************)
(* No call is repeated.                                                    *)
(***************************************************************************)

(* Counting the calls to one contract along a hook function.               *)
LEMMA CallsToNext ==
  ASSUME NEW e \in Events, NEW t, NEW n \in Nat
  PROVE  /\ CallsTo(e, t, n) \in Nat
         /\ CallsTo(e, t, 0) = 0
         /\ n + 1 \in DOMAIN Calls[e] =>
              CallsTo(e, t, n + 1) = CallsTo(e, t, n) + IF Calls[e][n + 1] = t THEN 1 ELSE 0
<1> DEFINE S(m) == {i \in DOMAIN Calls[e] : i <= m /\ Calls[e][i] = t}
<1>1. Calls[e] \in Seq(Targets) /\ DOMAIN Calls[e] = 1 .. Len(Calls[e]) /\ Len(Calls[e]) \in Nat
  BY ShapeAssumption DEF ShapeAssumption
<1>2. \A m : IsFiniteSet(S(m))
  <2>1. IsFiniteSet(DOMAIN Calls[e])
    BY <1>1, FS_Interval
  <2> QED
    BY <2>1, FS_Subset
<1>3. S(0) = {}
  BY <1>1
<1>4. n + 1 \in DOMAIN Calls[e] =>
        S(n + 1) = IF Calls[e][n + 1] = t THEN S(n) \cup {n + 1} ELSE S(n)
  BY <1>1
<1>5. n + 1 \notin S(n)
  OBVIOUS
<1>6. Cardinality(S(n)) \in Nat /\ Cardinality(S(0)) = 0
  BY <1>2, <1>3, FS_CardinalityType, FS_EmptySet
<1>7. Cardinality(S(n) \cup {n + 1}) = Cardinality(S(n)) + 1
  BY <1>2, <1>5, FS_AddElement
<1>8. \A m : CallsTo(e, t, m) = Cardinality(S(m))
  BY DEF CallsTo
<1> HIDE DEF S
<1> QED
  BY <1>4, <1>6, <1>7, <1>8

(* Only the loop over the order calls contracts.                           *)
LEMMA InOrder ==
  ASSUME ReceiptsKept, TypeOK, Up, at # "next"
  PROVE  /\ status = "running" /\ Plan = Order /\ pos \in DOMAIN Order /\ El = Order[pos]
         /\ at \in {"call", "wait"} /\ Calling(Cur) =>
              El \in Events /\ Cur = El /\ Cur \in Members(Order)
<1>1. pos \in DOMAIN Plan /\ (status = "failing" => Plan = <<>>)
  BY DEF TypeOK, Plan, ReceiptsKept
<1>2. status = "running" /\ Plan = Order /\ pos \in DOMAIN Order /\ El = Order[pos]
  BY <1>1 DEF Up, Plan, El
<1>3. ASSUME at \in {"call", "wait"}, El \notin Events PROVE ~Calling(Cur)
  <2>1. El \in custom /\ Cur = FnEvent[El] /\ El \in Contracts /\ FnEvent[El] # NoEvent
    BY <1>3 DEF TypeOK, Cur
  <2> QED
    BY <2>1 DEF ReceiptsKept, FnEvents
<1> QED
  BY <1>2, <1>3 DEF Cur, Members

LEMMA CallInOrder ==
  ASSUME ReceiptsKept, TypeOK, CallStep \/ ReplayCall, Target \in Contracts
  PROVE  /\ status = "running" /\ pos \in DOMAIN Order /\ El = Order[pos]
         /\ El \in Events /\ Cur = El /\ Cur \in Members(Order)
<1>1. Up /\ at \in {"call", "wait"} /\ ci \in DOMAIN Calls[Cur]
  BY CallFacts
<1>2. Calling(Cur)
  BY <1>1 DEF Calling, Target
<1> QED
  BY <1>1, <1>2, InOrder

LEMMA AllRecordedStep ==
  ASSUME Inductive, Auxiliary, AllRecorded, [Next]_vars
  PROVE  AllRecorded'
<1>0. TypeOK /\ Sync /\ Coded
  BY DEF Inductive, Auxiliary
<1>1. Up => \A c \in Contracts : file.code[c] # 0
  BY <1>0 DEF Sync, Coded
<1>2. ASSUME \A c \in Contracts : file.code[c] # 0, NEW c \in Contracts PROVE file'.code[c] # 0
  <2>1. file'.code = file.code \/ (Up /\ file'.code = mem.code) \/ file'.code = code
    <3>1. CASE StoreReceipt \/ RecordAddress
      BY <1>0, <3>1, StoreFacts
    <3>2. CASE FinishEvent \/ FinishDeployFn
      BY <1>0, <3>2, FinishFacts
    <3>3. CASE ReplayCall \/ ConfirmCall
      BY <1>0, <3>3, LogFacts
    <3>4. CASE StartRun
      BY <3>4 DEF StartRun, StoreNewState, Resolved
    <3>5. CASE ~(StoreReceipt \/ RecordAddress \/ FinishEvent \/ FinishDeployFn \/ ReplayCall
                \/ ConfirmCall \/ StartRun)
      <4>1. UNCHANGED file
        BY <3>5, NextCases, QuietFacts, DevelopFacts
           DEF SendDeploy, BeginEvent, BeginDeployFn, CallStep, SendCall, SendRevertingCall, vars
      <4> QED
        BY <4>1
    <3> QED
      BY <3>1, <3>2, <3>3, <3>4, <3>5
  <2> QED
    BY <1>0, <1>2, <2>1 DEF Coded
<1>3. CASE SendCall
  <2>1. Up
    BY <1>3 DEF SendCall, CallLeft
  <2> QED
    BY <1>1, <1>2, <2>1 DEF AllRecorded
<1>4. CASE ~SendCall
  BY <1>0, <1>2, <1>4, CallsGrow DEF AllRecorded
<1> QED
  BY <1>3, <1>4

LEMMA CallsKnownStep ==
  ASSUME TypeOK, CallsKnown, [Next]_vars
  PROVE  CallsKnown'
<1>1. run \in Nat /\ run' \in {run, run + 1}
  BY NextCases, QuietFacts, DevelopFacts, CallFacts, FinishFacts
     DEF TypeOK, SendDeploy, StoreReceipt, RecordAddress, BeginEvent, BeginDeployFn, StartRun,
     setup, vars
<1>2. \A j \in DOMAIN calls : calls[j].run \in Nat
  <2>1. calls \in Seq(Called)
    BY DEF TypeOK
  <2>2. \A j \in DOMAIN calls : calls[j] \in Called
    BY <2>1
  <2> QED
    BY <2>2 DEF Called
<1>3. \A j \in DOMAIN calls : calls[j].run <= run'
  BY <1>1, <1>2 DEF CallsKnown
<1>4. CASE SendCall
  <2>1. ci \in DOMAIN Calls[Cur] /\ run' = run
    BY <1>4, CallFacts DEF CallStep
  <2>2. /\ calls'[receipt'].event = Cur /\ calls'[receipt'].index = ci
        /\ calls'[receipt'].run = run /\ (Target \notin Contracts => calls'[receipt'].to = 0)
    BY <1>4, CallAdded
  <2>3. DOMAIN calls' = DOMAIN calls \cup {receipt'} /\ \A j \in DOMAIN calls : calls'[j] = calls[j]
    BY <1>4, CallAdded
  <2>4. SUFFICES ASSUME NEW j \in DOMAIN calls'
                 PROVE  /\ calls'[j].index \in DOMAIN Calls[calls'[j].event]
                        /\ Calls[calls'[j].event][calls'[j].index] \notin Contracts => calls'[j].to = 0
                        /\ calls'[j].run <= run'
    BY DEF CallsKnown, Callee
  <2>5. CASE j = receipt'
    BY <1>1, <2>1, <2>2, <2>5 DEF Target
  <2>6. CASE j \in DOMAIN calls
    BY <1>3, <2>3, <2>6 DEF CallsKnown, Callee
  <2> QED
    BY <2>3, <2>5, <2>6
<1>5. CASE ~SendCall
  BY <1>3, <1>5, CallsGrow DEF CallsKnown, Callee
<1> QED
  BY <1>4, <1>5

(* A contract that counts as created was so before, or is by this step.    *)
LEMMA CreatedKept ==
  ASSUME ReceiptsKept, TypeOK, [Next]_vars, Up', Created'
  PROVE  SendDeploy \/ (SendCall /\ Creates) \/ (Up /\ Created /\ UNCHANGED <<made, calls>>)
<1>0. ci \in Nat \ {0}
  BY DEF TypeOK
<1>1. CASE QuietStep \/ RecordAddress \/ FinishEvent \/ StartRun
  <2>1. at' = "next"
    BY <1>1, QuietFacts DEF RecordAddress, FinishEvent, StartRun, Advance
  <2> QED
    BY <2>1 DEF Created
<1>2. CASE StoreReceipt
  BY <1>2 DEF StoreReceipt, Created, chain
<1>3. CASE BeginEvent \/ BeginDeployFn
  <2>1. at' = "call" /\ ci' = 1
    BY <1>3 DEF BeginEvent, BeginDeployFn
  <2>2. TypeOK'
    BY TypeStep
  <2>3. Calls[Cur'] \in Seq(Targets)
    BY <2>1, <2>2, ShapeAssumption DEF TypeOK, Cur, ShapeAssumption, Up
  <2>4. Calls[Cur'] # <<>> => ~(1 > Len(Calls[Cur']))
    BY <2>3
  <2> QED
    BY <2>1, <2>4 DEF Created
<1>4. CASE ReplayCall
  <2>1. El' = El /\ at' = "call" /\ El \in Events
    <3>1. Target \in Contracts
      BY <1>4 DEF ReplayCall, Replays
    <3> QED
      BY <1>4, <3>1, CallFacts, CallInOrder DEF ReplayCall, CallLeft
  <2> QED
    BY <2>1, ShapeAssumption DEF Created, ShapeAssumption
<1>5. CASE SendCall
  <2>1. at' = "wait" /\ El' = El /\ Cur' = Cur /\ ci' = ci
    BY <1>5, CallFacts DEF SendCall, CallStep
  <2> QED
    BY <1>5, <2>1 DEF Created, Creates
<1>6. CASE SendRevertingCall
  BY <1>6 DEF SendRevertingCall, Created
<1>7. CASE ConfirmCall
  <2>1. /\ Up /\ at = "wait" /\ at' = "call" /\ ci' = ci + 1 /\ receipt # 0
        /\ El' = El /\ Cur' = Cur /\ UNCHANGED <<made, calls>>
        /\ ci \in DOMAIN Calls[Cur] /\ Cur \in Events
    BY <1>7, CallFacts DEF ConfirmCall, CallStep, chain
  <2>2. Calls[Cur] \in Seq(Targets)
    BY <2>1, ShapeAssumption DEF ShapeAssumption
  <2>3. ci + 1 > Len(Calls[Cur]) => ci = Len(Calls[Cur])
    BY <1>0, <2>1, <2>2
  <2> QED
    BY <2>1, <2>3 DEF Created
<1>8. CASE FinishDeployFn
  BY <1>8 DEF FinishDeployFn, Created, chain
<1>9. CASE Develop
  BY <1>9, DevelopFacts
<1>10. CASE UNCHANGED vars
  BY <1>10 DEF vars, proc, chain, Created, Up, Cur, El, Plan
<1> QED
  BY <1>1, <1>2, <1>3, <1>4, <1>5, <1>6, <1>7, <1>8, <1>9, <1>10, NextCases DEF CallStep

(* Calls go to contracts that were created.                                *)
LEMMA CalledExist ==
  ASSUME TypeOK, WiredCorrectly, NEW j \in DOMAIN calls, Callee(j) \in Contracts
  PROVE  calls[j].to \in 1 .. Len(deployed)
<1>1. IsAddressOf(calls[j].to, Callee(j))
  BY DEF WiredCorrectly, Callee
<1> QED
  BY <1>1 DEF IsAddressOf, TypeOK

LEMMA NotCalledYetStep ==
  ASSUME ReceiptsKept, Inductive, NotCalledYet, [Next]_vars
  PROVE  NotCalledYet'
<1>0. TypeOK /\ WiredCorrectly /\ RecordedAddressesExist /\ Len(deployed) \in Nat
  BY DEF Inductive, TypeOK
<1>1. SUFFICES ASSUME Up', Created', NEW j \in DOMAIN calls',
                      Calls[calls'[j].event][calls'[j].index] \in Contracts
               PROVE  calls'[j].to # made'
  BY DEF NotCalledYet, Callee
<1>2. CASE Up /\ Created /\ UNCHANGED <<made, calls>>
  BY <1>1, <1>2 DEF NotCalledYet, Callee
<1>3. CASE SendDeploy
  <2>1. made' = Len(deployed) + 1 /\ UNCHANGED calls
    BY <1>3 DEF SendDeploy
  <2>2. calls[j].to \in 1 .. Len(deployed)
    BY <1>0, <1>1, <2>1, CalledExist DEF Callee
  <2> QED
    BY <1>0, <2>1, <2>2
<1>4. CASE SendCall /\ Creates
  <2>1. made' = Len(deployed) + 1
    BY <1>4 DEF SendCall
  <2>2. DOMAIN calls' = DOMAIN calls \cup {receipt'} /\ \A k \in DOMAIN calls : calls'[k] = calls[k]
    BY <1>0, <1>4, CallAdded
  <2>3. CASE j \in DOMAIN calls
    <3>1. calls[j].to \in 1 .. Len(deployed)
      BY <1>0, <1>1, <2>2, <2>3, CalledExist DEF Callee
    <3> QED
      BY <1>0, <2>1, <2>2, <2>3, <3>1
  <2>4. CASE j = receipt'
    <3>1. /\ calls'[j].event = Cur /\ calls'[j].index = ci
          /\ Target \in Contracts => calls'[j].to = mem.addr[Target]
      BY <1>0, <1>4, <2>4, CallAdded
    <3>2. Target \in Contracts /\ mem.addr[Target] # 0
      BY <1>1, <1>4, <3>1 DEF Target, SendCall, Callable
    <3>3. mem.addr[Target] \in 1 .. Len(deployed)
      BY <1>0, <3>2 DEF RecordedAddressesExist, IsAddressOf, TypeOK
    <3> QED
      BY <1>0, <2>1, <3>1, <3>2, <3>3
  <2> QED
    BY <2>2, <2>3, <2>4
<1> QED
  BY <1>0, <1>1, <1>2, <1>3, <1>4, CreatedKept

(* A hook that is to be executed again calls contracts that are deployed   *)
(* again.                                                                  *)
LEMMA ResetForgets ==
  ASSUME CalleesNew, DepsThere, TypeOK, Coded, \A c \in Contracts : file.code[c] # 0,
         NEW e \in Events, Begun(e), Deps[e] \cap Redone # {},
         NEW i \in DOMAIN Calls[e], Calls[e][i] \in Contracts
  PROVE  Resolved.addr[Calls[e][i]] = 0
<1>1. CASE NothingAnew /\ CallersWait
  <2>1. Calling(e)
    BY DEF Calling
  <2> QED
    BY <1>1, <2>1, DepsKept DEF DepsThere
<1>2. CASE CalleesFollow
  <2>1. PICK d \in Deps[e] : d \in Redone
    OBVIOUS
  <2> DEFINE S == Fresh \cup Invalidated
  <2>2. S \in SUBSET Contracts /\ d \in S
    BY <2>1 DEF Redone, Fresh, Invalidated, Kept
  <2>3. ASSUME NEW c \in S PROVE Args[c] \subseteq S
    <3>1. c \in (Fresh \cap Recorded) \cup Invalidated /\ Args[c] \subseteq Contracts
      BY <2>2, ShapeAssumption DEF Recorded, ShapeAssumption
    <3>2. Args[c] \cap Kept \subseteq Invalidated
      BY <3>1, InvalidatedClosed DEF ArgsForgotten
    <3> QED
      BY <3>1, <3>2 DEF Kept
  <2>4. Calls[e][i] \in S
    BY <1>2, <2>1, <2>2, <2>3 DEF CalleesFollow, GoesWith
  <2> QED
    BY <2>4 DEF Resolved, Kept
<1> QED
  BY <1>1, <1>2 DEF CalleesNew

(* No call comes alive again, and resolving keeps the receipts of the hook *)
(* of one that is.                                                         *)
LEMMA LiveKept ==
  ASSUME CalleesNew, Inductive, Auxiliary, DepsThere, AllRecorded, CallsKnown, NotCalledYet,
         [Next]_vars, NEW j \in DOMAIN calls, Live(j)'
  PROVE  /\ Live(j) /\ j \in DOMAIN calls' /\ calls'[j] = calls[j] /\ Callee(j)' = Callee(j)
         /\ StartRun => calls[j].event \notin ResetEvents
<1>0. TypeOK /\ Coded /\ WiredCorrectly /\ Sync /\ Place
  BY DEF Inductive, Auxiliary
<1>1. j \in DOMAIN calls' /\ calls'[j] = calls[j] /\ Callee(j)' = Callee(j)
  BY <1>0, CallsGrow DEF Callee
<1> DEFINE e == calls[j].event
           t == Callee(j)
<1>2. t \in Contracts /\ calls[j].to = file'.addr[t] /\ e \in Members(Order) \ file'.done
  BY <1>1 DEF Live
<1>3. calls[j].to # 0
  BY <1>0, <1>2, CalledExist
<1>4. CASE ~StartRun
  <2>1. file.done \subseteq file'.done
    BY <1>4, FileSteps
  <2>2. ASSUME StoreReceipt \/ RecordAddress, t = El PROVE FALSE
    <3>1. /\ file'.addr = mem'.addr /\ Up /\ mem.addr[El] = 0 /\ El \in Contracts
          /\ mem.addr \in [Contracts -> Nat] /\ mem \in State
      BY <1>0, <2>2, StoreFacts DEF Place, TypeOK, State
    <3>2. CASE StoreReceipt
      <4>1. mem'.addr = mem.addr
        BY <3>1, <3>2 DEF StoreReceipt, State
      <4> QED
        BY <1>2, <1>3, <2>2, <3>1, <4>1
    <3>3. CASE RecordAddress
      <4>1. mem'.addr = [mem.addr EXCEPT ![El] = made] /\ at = "mined"
        BY <3>1, <3>3 DEF RecordAddress, State
      <4>2. calls[j].to = made
        BY <1>2, <2>2, <3>1, <4>1
      <4> QED
        BY <1>2, <3>1, <4>1, <4>2 DEF NotCalledYet, Created
    <3> QED
      BY <2>2, <3>2, <3>3
  <2>3. file'.addr[t] = file.addr[t]
    BY <1>2, <1>4, <2>2, FileSteps
  <2> QED
    BY <1>1, <1>2, <1>4, <2>1, <2>3 DEF Live
<1>5. CASE StartRun
  <2>1. file' = Resolved /\ calls # <<>>
    BY <1>5 DEF StartRun, StoreNewState
  <2>2. calls[j].event \in Events
    <3>1. calls \in Seq(Called)
      BY <1>0 DEF TypeOK
    <3>2. calls[j] \in Called
      BY <3>1
    <3> QED
      BY <3>2 DEF Called
  <2>3. Begun(e) /\ calls[j].index \in DOMAIN Calls[e]
    BY DEF Begun, CallsKnown
  <2>4. Deps[e] \cap Redone = {}
    BY <1>0, <1>2, <1>3, <2>1, <2>2, <2>3, ResetForgets DEF Callee, AllRecorded
  <2>5. e \notin ResetEvents /\ e \notin file.done
    BY <1>2, <2>1, <2>4 DEF ResetEvents, Resolved
  <2>6. file'.addr[t] = file.addr[t]
    BY <1>2, <1>3, <2>1 DEF Resolved
  <2> QED
    BY <1>1, <1>2, <2>5, <2>6 DEF Live
<1> QED
  BY <1>4, <1>5

LEMMA CallType ==
  ASSUME TypeOK, NEW j \in DOMAIN calls
  PROVE  calls[j].event \in Events /\ calls[j].index \in Nat /\ calls[j].run \in Nat
<1>1. calls \in Seq(Called)
  BY DEF TypeOK
<1>2. calls[j] \in Called
  BY <1>1
<1> QED
  BY <1>2 DEF Called

(* The hook of a call that is just sent to a contract is the one whose     *)
(* turn it is.                                                             *)
LEMMA SentNow ==
  ASSUME ReceiptsKept, Inductive, [Next]_vars, NEW j \in DOMAIN calls', j \notin DOMAIN calls
  PROVE  /\ SendCall /\ j = receipt' /\ UNCHANGED <<file, run, ci>> /\ Up' /\ at' = "wait"
         /\ calls'[j].event = Cur /\ calls'[j].index = ci /\ calls'[j].run = run
         /\ Cur' = Cur /\ at = "call" /\ (Callee(j)' = Target)
<1>0. TypeOK
  BY DEF Inductive
<1>1. SendCall
  BY <1>0, CallsGrow
<1>2. j = receipt'
  BY <1>0, <1>1, CallAdded
<1>3. calls'[j].event = Cur /\ calls'[j].index = ci /\ calls'[j].run = run
  BY <1>0, <1>1, <1>2, CallAdded
<1>4. Cur' = Cur /\ Up' /\ run' = run
  BY <1>0, <1>1, CallFacts DEF CallStep
<1>5. UNCHANGED <<file, ci>> /\ at' = "wait" /\ at = "call"
  BY <1>1 DEF SendCall, CallLeft
<1> QED
  BY <1>1, <1>2, <1>3, <1>4, <1>5 DEF Callee, Target

LEMMA EarlierDoneStep ==
  ASSUME CalleesNew, ReceiptsKept, Inductive, Auxiliary, CallsOnce, [Next]_vars
  PROVE  EarlierDone'
<1>0. TypeOK /\ Coded /\ Sync /\ Progress /\ Order \in Seq(Elements)
  BY ShapeAssumption DEF Inductive, Auxiliary, ShapeAssumption
<1>1. SUFFICES ASSUME NEW j \in DOMAIN calls', Live(j)',
                      NEW p \in DOMAIN Order, NEW q \in DOMAIN Order,
                      Order[p] = calls'[j].event, q < p, Order[q] \in Events,
                      NEW i \in DOMAIN Calls[Order[q]], Calls[Order[q]][i] = Callee(j)'
               PROVE  Order[q] \in file'.done
  BY DEF EarlierDone
<1>2. CASE j \in DOMAIN calls
  <2>1. /\ Live(j) /\ calls'[j] = calls[j] /\ Callee(j)' = Callee(j)
        /\ StartRun => calls[j].event \notin ResetEvents
    BY <1>1, <1>2, LiveKept DEF CallsOnce
  <2>2. Order[q] \in file.done
    BY <1>1, <1>2, <2>1 DEF CallsOnce, EarlierDone
  <2>3. CASE ~StartRun
    BY <2>2, <2>3, FileSteps
  <2>4. CASE StartRun
    <3>1. file' = Resolved
      BY <2>4 DEF StartRun, StoreNewState
    <3>2. Callee(j) \in Contracts /\ Resolved.addr[Callee(j)] # 0
      <4>1. Callee(j) \in Contracts /\ calls[j].to = Resolved.addr[Callee(j)]
        BY <1>1, <2>1, <3>1 DEF Live
      <4> QED
        BY <1>0, <1>2, <4>1, CalledExist DEF Inductive
    <3>3. \A c \in Contracts : file.code[c] # 0
      BY <1>2 DEF CallsOnce, AllRecorded
    <3>4. Begun(Order[q])
      BY <2>2 DEF Begun
    <3>5. Deps[Order[q]] \cap Redone = {}
      BY <1>0, <1>1, <2>1, <3>2, <3>3, <3>4, ResetForgets DEF CallsOnce
    <3>6. Order[q] \in Members(Order) \ ResetEvents
      BY <3>5 DEF Members, ResetEvents
    <3> QED
      BY <2>2, <3>1, <3>6 DEF Resolved
  <2> QED
    BY <2>3, <2>4
<1>3. CASE j \notin DOMAIN calls
  <2>1. SendCall /\ UNCHANGED file /\ calls'[j].event = Cur /\ Callee(j)' = Target
    BY <1>3, SentNow
  <2>2. Target \in Contracts
    BY <1>1, <2>1 DEF Live
  <2>3. status = "running" /\ pos \in DOMAIN Order /\ Order[pos] = Cur
    BY <1>0, <2>1, <2>2, CallInOrder DEF CallStep
  <2>4. p = pos
    BY <1>1, <2>1, <2>3, OrderAssumption DEF OrderAssumption
  <2>5. Order[q] \in mem.done /\ mem.done = file.done
    <3>1. Order[q] \notin Contracts
      BY <1>1, ShapeAssumption DEF ShapeAssumption
    <3> QED
      BY <1>0, <1>1, <2>3, <2>4, <3>1 DEF Progress, Sync, Up
  <2> QED
    BY <2>1, <2>5
<1> QED
  BY <1>2, <1>3

(* The receipts of a hook that is still to be finished are kept.           *)
LEMMA LogKept ==
  ASSUME ReceiptsKept, Inductive, [Next]_vars,
         NEW e \in Events, e \in Members(Order) \ file'.done, StartRun => e \notin ResetEvents,
         NEW t \in Targets
  PROVE  Len(file'.log[e][t]) >= Len(file.log[e][t])
<1>0. TypeOK /\ Sync /\ Len(file.log[e][t]) \in Nat
  <2>1. TypeOK /\ file.log \in [Events -> [Targets -> Seq(Nat)]]
    BY DEF Inductive, TypeOK, State
  <2>2. file.log[e][t] \in Seq(Nat)
    BY <2>1
  <2> QED
    BY <2>1, <2>2 DEF Inductive
<1>1. CASE UNCHANGED file
  BY <1>0, <1>1
<1>2. CASE ReplayCall \/ ConfirmCall
  <2>1. CASE e = Cur /\ t = Target
    <3>1. Len(file'.log[e][t]) = Len(file.log[e][t]) + 1
      BY <1>0, <1>2, <2>1, LogFacts
    <3> DEFINE l == Len(file.log[e][t])
               m == Len(file'.log[e][t])
    <3>2. l \in Nat /\ m = l + 1
      BY <1>0, <3>1
    <3> HIDE DEF l, m
    <3>3. m >= l
      BY <3>2
    <3> QED
      BY <3>3 DEF l, m
  <2>2. CASE e # Cur \/ t # Target
    <3>1. file'.log[e][t] = file.log[e][t]
      BY <1>0, <1>2, <2>2, LogFacts
    <3> QED
      BY <1>0, <3>1
  <2> QED
    BY <2>1, <2>2
<1>3. CASE StoreReceipt \/ RecordAddress
  BY <1>0, <1>3, StoreFacts
<1>4. CASE FinishEvent \/ FinishDeployFn
  <2>1. /\ file' = mem' /\ Up /\ at = "call" /\ mem'.done = mem.done \cup {Cur}
        /\ mem'.log = [mem.log EXCEPT ![Cur] =
                          IF Kind[Cur] = "outcome" THEN NoLog ELSE file.log[Cur]]
    BY <1>0, <1>4, FinishFacts
  <2>2. e # Cur
    BY <2>1
  <2>3. mem.log \in [Events -> [Targets -> Seq(Nat)]]
    BY <1>0 DEF TypeOK, State
  <2>4. status = "running"
    BY <1>0, <2>1, InOrder
  <2>5. file'.log[e] = mem.log[e]
    BY <2>1, <2>2, <2>3
  <2> QED
    BY <1>0, <2>2, <2>4, <2>5 DEF Sync
<1>5. CASE StartRun
  BY <1>0, <1>5 DEF StartRun, StoreNewState, Resolved
<1> QED
  BY <1>1, <1>2, <1>3, <1>4, <1>5, FileSteps

(* An answer that is awaited comes.                                        *)
LEMMA WaitSteps ==
  ASSUME ReceiptsKept, Up, at = "wait", receipt # 0, [Next]_vars
  PROVE  ConfirmCall \/ UNCHANGED vars
BY DEF ReceiptsKept, Next, Step, EndRun, SkipContract, NotLinkable, DeployFails, SendDeploy,
   StoreReceipt, WaitFails, RecordAddress, SkipEvent, DepsMissing, BeginEvent, BeginDeployFn,
   NotCallable, ReplayCall, RejectCall, SendCall, SendRevertingCall, CallLeft, CallWaitFails,
   FinishEvent, DeployFnSentNothing, FinishDeployFn, FunctionThrows, StartRun, Crash, Edit,
   Configure, AtContract, AtEvent, AtElement

(* One more receipt for one more call.                                     *)
LEMMA LogAheadNext ==
  ASSUME TypeOK, LogAhead, ReplayCall \/ ConfirmCall, NEW t \in Contracts
  PROVE  Len(file'.log[Cur][t]) >= CallsTo(Cur, t, ci)
<1>1. /\ Up /\ at \in {"call", "wait"} /\ Cur \in Events /\ ci \in DOMAIN Calls[Cur]
      /\ ci \in Nat \ {0} /\ Target \in Targets /\ t \in Targets
  BY CallFacts DEF CallStep, TypeOK, Targets
<1>2. /\ CallsTo(Cur, t, ci - 1) \in Nat
      /\ CallsTo(Cur, t, ci) = CallsTo(Cur, t, ci - 1) + IF Target = t THEN 1 ELSE 0
  <2>1. ci - 1 \in Nat /\ (ci - 1) + 1 = ci
    BY <1>1
  <2> QED
    BY <1>1, <2>1, CallsToNext DEF Target
<1>3. Len(file.log[Cur][t]) >= CallsTo(Cur, t, ci - 1) /\ Len(file.log[Cur][t]) \in Nat
  <2>1. file.log \in [Events -> [Targets -> Seq(Nat)]]
    BY DEF TypeOK, State
  <2>2. file.log[Cur][t] \in Seq(Nat)
    BY <1>1, <2>1
  <2> QED
    BY <1>1, <2>2 DEF LogAhead
<1>4. CASE Target = t
  <2>1. Len(file'.log[Cur][t]) = Len(file.log[Cur][t]) + 1
    BY <1>4, LogFacts
  <2> DEFINE l == Len(file.log[Cur][t])
             m == Len(file'.log[Cur][t])
  <2>2. l \in Nat /\ m = l + 1 /\ l >= CallsTo(Cur, t, ci - 1)
    BY <1>3, <2>1
  <2> HIDE DEF l, m
  <2>3. m >= CallsTo(Cur, t, ci)
    BY <1>2, <1>4, <2>2
  <2> QED
    BY <2>3 DEF m
<1>5. CASE Target # t
  <2>1. file'.log[Cur][t] = file.log[Cur][t]
    BY <1>1, <1>5, LogFacts
  <2>2. CallsTo(Cur, t, ci) = CallsTo(Cur, t, ci - 1)
    BY <1>2, <1>5
  <2> QED
    BY <1>3, <2>1, <2>2
<1> QED
  BY <1>4, <1>5

LEMMA LogAheadStep ==
  ASSUME TypeOK, LogAhead, [Next]_vars
  PROVE  LogAhead'
<1>0. TypeOK'
  BY TypeStep
<1>1. CASE QuietStep \/ SendDeploy \/ StoreReceipt \/ RecordAddress \/ FinishEvent
           \/ FinishDeployFn \/ StartRun \/ Develop
  <2>1. Up' => at' \notin {"call", "wait"}
    BY <1>1, QuietFacts, DevelopFacts
       DEF SendDeploy, StoreReceipt, RecordAddress, FinishEvent, FinishDeployFn, StartRun, Advance
  <2> QED
    BY <2>1 DEF LogAhead
<1>2. CASE BeginEvent \/ BeginDeployFn
  <2>1. at' = "call" /\ ci' = 1
    BY <1>2 DEF BeginEvent, BeginDeployFn
  <2>2. SUFFICES ASSUME Up', NEW t \in Contracts
                 PROVE  Len(file'.log[Cur'][t]) >= CallsTo(Cur', t, 0)
    BY <2>1 DEF LogAhead, CallsTo
  <2>3. Cur' \in Events
    BY <1>0, <2>1, <2>2, ShapeAssumption DEF TypeOK, Cur, ShapeAssumption
  <2>4. file'.log \in [Events -> [Targets -> Seq(Nat)]] /\ t \in Targets
    BY <1>0 DEF TypeOK, State, Targets
  <2>5. file'.log[Cur'][t] \in Seq(Nat)
    BY <2>3, <2>4
  <2>6. CallsTo(Cur', t, 0) = 0
    BY <2>3, CallsToNext
  <2> QED
    BY <2>5, <2>6
<1>3. CASE SendCall \/ SendRevertingCall
  <2>1. Up /\ at \in {"call", "wait"} /\ Cur' = Cur /\ UNCHANGED <<file, ci>>
    BY <1>3, CallFacts DEF CallStep, SendCall, SendRevertingCall
  <2> QED
    BY <2>1 DEF LogAhead, CallsTo
<1>4. CASE ReplayCall \/ ConfirmCall
  <2>1. Cur' = Cur /\ ci' = ci + 1 /\ ci \in Nat
    BY <1>4, CallFacts DEF CallStep, ReplayCall, ConfirmCall, TypeOK
  <2>2. ci' - 1 = ci
    BY <2>1
  <2> QED
    BY <1>4, <2>1, <2>2, LogAheadNext DEF LogAhead, CallsTo
<1>5. CASE UNCHANGED vars
  BY <1>5 DEF vars, proc, LogAhead, CallsTo, Up, Cur, El, Plan
<1> QED
  BY <1>1, <1>2, <1>3, <1>4, <1>5, NextCases DEF CallStep

LEMMA LoggedStep ==
  ASSUME CalleesNew, ReceiptsKept, Inductive, Auxiliary, CallsOnce, [Next]_vars
  PROVE  Logged'
<1>0. TypeOK /\ Contracts \subseteq Targets /\ file.log \in [Events -> [Targets -> Seq(Nat)]]
  BY DEF Inductive, TypeOK, State, Targets
<1>1. SUFFICES ASSUME NEW j \in DOMAIN calls', Live(j)'
               PROVE  \/ Len(file'.log[calls'[j].event][Callee(j)'])
                           >= CallsTo(calls'[j].event, Callee(j)', calls'[j].index)
                      \/ Up' /\ at' = "wait" /\ receipt' = j
  BY DEF Logged, CallsTo
<1>2. CASE j \notin DOMAIN calls
  BY <1>2, SentNow
<1>3. CASE j \in DOMAIN calls
  <2> DEFINE e == calls[j].event
             t == Callee(j)
             n == CallsTo(e, t, calls[j].index)
  <2>1. /\ Live(j) /\ calls'[j] = calls[j] /\ Callee(j)' = t /\ (StartRun => e \notin ResetEvents)
        /\ e \in Events /\ calls[j].index \in Nat
    BY <1>0, <1>1, <1>3, LiveKept, CallType DEF CallsOnce
  <2>2. t \in Contracts /\ e \in Members(Order) \ file'.done
    BY <1>1, <2>1 DEF Live
  <2>3. CASE Len(file.log[e][t]) >= n
    <3>1. Len(file'.log[e][t]) >= Len(file.log[e][t])
      BY <1>0, <2>1, <2>2, LogKept
    <3>2. n \in Nat
      BY <2>1, CallsToNext
    <3>3. Len(file.log[e][t]) \in Nat /\ Len(file'.log[e][t]) \in Nat
      <4>1. TypeOK'
        BY <1>0, TypeStep
      <4>2. file'.log \in [Events -> [Targets -> Seq(Nat)]]
        BY <4>1 DEF TypeOK, State
      <4>3. file'.log[e][t] \in Seq(Nat) /\ file.log[e][t] \in Seq(Nat)
        BY <1>0, <2>1, <2>2, <4>2
      <4> HIDE DEF e, t
      <4> QED
        BY <4>3
    <3> DEFINE l == Len(file.log[e][t])
               m == Len(file'.log[e][t])
    <3>4. m >= l /\ l >= n /\ l \in Nat /\ m \in Nat
      BY <2>3, <3>1, <3>3
    <3> HIDE DEF l, m, n
    <3>5. m >= n
      BY <3>2, <3>4
    <3> QED
      BY <2>1, <3>5 DEF m, n
  <2>4. CASE Up /\ at = "wait" /\ receipt = j
    <3>1. j # 0 /\ calls[j].event = Cur /\ calls[j].index = ci
      BY <1>0, <1>3, <2>4 DEF CallsOnce, Awaited, TypeOK
    <3>2. CASE ConfirmCall
      BY <1>0, <2>1, <2>2, <3>1, <3>2, LogAheadNext DEF CallsOnce
    <3>3. CASE UNCHANGED vars
      BY <2>4, <3>3 DEF vars, proc, Up
    <3> QED
      BY <2>4, <3>1, <3>2, <3>3, WaitSteps
  <2> QED
    BY <1>3, <2>1, <2>3, <2>4 DEF CallsOnce, Logged
<1> QED
  BY <1>2, <1>3

(* A hook that runs before another, whose calls to the same contract are   *)
(* still to be finished, calls it no more: it would be done.               *)
LEMMA OthersCallElsewhere ==
  ASSUME ReceiptsKept, Inductive, CallsOnce, CallStep \/ ReplayCall,
         NEW j \in DOMAIN calls, Live(j), calls[j].event # Cur
  PROVE  Target # Callee(j)
<1>0. TypeOK /\ Sync /\ Place /\ Progress /\ Order \in Seq(Elements)
  BY ShapeAssumption DEF Inductive, ShapeAssumption
<1>1. SUFFICES ASSUME Target = Callee(j) PROVE FALSE
  OBVIOUS
<1>2. /\ status = "running" /\ pos \in DOMAIN Order /\ El = Order[pos]
      /\ El \in Events /\ Cur = El /\ ci \in DOMAIN Calls[Cur]
      /\ Up /\ at \in {"call", "wait"}
  BY <1>0, <1>1, CallFacts, CallInOrder DEF Live
<1>3. Cur \notin file.done /\ El \notin Contracts
  BY <1>0, <1>2, ShapeAssumption DEF Place, Sync, ShapeAssumption
<1>4. PICK p \in DOMAIN Order : Order[p] = calls[j].event
  BY DEF Live, Members
<1>5. p > pos
  <2>1. calls[j].event \in Events /\ calls[j].event \notin file.done
    BY <1>0, CallType DEF Live
  <2>2. ~(p < pos)
    BY <1>0, <1>2, <1>4, <2>1, ShapeAssumption DEF Progress, Sync, ShapeAssumption
  <2>3. p # pos
    BY <1>2, <1>4
  <2>4. p \in Nat /\ pos \in Nat
    BY <1>0 DEF TypeOK
  <2> QED
    BY <2>2, <2>3, <2>4
<1>6. Calls[Cur][ci] = Callee(j)
  BY <1>1 DEF Target
<1> QED
  BY <1>2, <1>3, <1>4, <1>5, <1>6 DEF CallsOnce, EarlierDone

LEMMA CountedStep ==
  ASSUME CalleesNew, ReceiptsKept, Inductive, Auxiliary, CallsOnce, [Next]_vars
  PROVE  Counted'
<1>0. TypeOK /\ Sync /\ progress \in [Contracts -> Nat] /\ ci \in Nat \ {0}
  BY DEF Inductive, TypeOK
<1>1. SUFFICES ASSUME status' = "running", NEW j \in DOMAIN calls', Live(j)', calls'[j].run < run'
               PROVE  progress'[Callee(j)'] =
                        IF at' \in {"call", "wait"} /\ Cur' = calls'[j].event
                        THEN CallsTo(Cur', Callee(j)', IF at' = "call" THEN ci' - 1 ELSE ci') ELSE 0
  BY DEF Counted, CallsTo
<1>2. j \in DOMAIN calls
  <2>1. SUFFICES ASSUME j \notin DOMAIN calls PROVE FALSE
    OBVIOUS
  <2>2. calls'[j].run = run /\ run' = run /\ run \in Nat
    BY <1>0, <2>1, SentNow DEF TypeOK
  <2> QED
    BY <1>1, <2>2
<1> DEFINE e == calls[j].event
           t == Callee(j)
<1>3. /\ Live(j) /\ calls'[j] = calls[j] /\ Callee(j)' = t
      /\ e \in Events /\ t \in Contracts /\ e \notin file'.done
  BY <1>0, <1>1, <1>2, LiveKept, CallType DEF CallsOnce, Live
<1>4. SUFFICES progress'[t] = IF at' \in {"call", "wait"} /\ Cur' = e
                              THEN CallsTo(e, t, IF at' = "call" THEN ci' - 1 ELSE ci') ELSE 0
  BY <1>3
<1> HIDE DEF e, t
<1>5. CASE StartRun
  BY <1>3, <1>5 DEF StartRun
<1>6. ASSUME ~StartRun, status = "running"
      PROVE  progress[t] = IF at \in {"call", "wait"} /\ Cur = e
                           THEN CallsTo(e, t, IF at = "call" THEN ci - 1 ELSE ci) ELSE 0
  <2>1. calls[j].run < run
    BY <1>0, <1>1, <1>3, <1>6, InRun
  <2> QED
    BY <1>2, <1>3, <1>6, <2>1 DEF CallsOnce, Counted, e, t
<1>7. CASE QuietStep
  BY <1>1, <1>6, <1>7, QuietFacts DEF Up, StartRun
<1>8. CASE SendDeploy \/ StoreReceipt \/ RecordAddress
  <2>1. /\ ~StartRun /\ UNCHANGED <<status, progress>>
        /\ at \notin {"call", "wait"} /\ at' \notin {"call", "wait"}
    BY <1>8 DEF SendDeploy, StoreReceipt, RecordAddress, AtContract, AtElement, Advance, StartRun
  <2> QED
    BY <1>1, <1>6, <2>1
<1>9. CASE BeginEvent \/ BeginDeployFn
  <2>1. /\ ~StartRun /\ UNCHANGED <<status, progress>> /\ at = "next" /\ at' = "call" /\ ci' = 1
    BY <1>9 DEF BeginEvent, BeginDeployFn, AtContract, AtEvent, AtElement, StartRun
  <2>2. CallsTo(e, t, 0) = 0
    BY <1>3, CallsToNext
  <2> QED
    BY <1>1, <1>6, <2>1, <2>2
<1>10. CASE CallStep \/ ReplayCall
  <2>1. /\ ~StartRun /\ UNCHANGED status /\ at \in {"call", "wait"} /\ at' \in {"call", "wait"}
        /\ Cur' = Cur /\ ci \in DOMAIN Calls[Cur]
    BY <1>0, <1>10, CallFacts DEF StartRun
  <2>2. CASE Cur # e
    <3>1. Target # t
      BY <1>2, <1>3, <1>10, <2>2, OthersCallElsewhere DEF e, t
    <3>2. progress'[t] = progress[t]
      BY <1>0, <1>3, <1>10, <3>1
         DEF CallStep, SendCall, SendRevertingCall, ConfirmCall, ReplayCall, CountCall
    <3> QED
      BY <1>1, <1>6, <2>1, <2>2, <3>2
  <2>3. CASE Cur = e
    <3>1. /\ CallsTo(e, t, ci - 1) \in Nat
          /\ CallsTo(e, t, ci) = CallsTo(e, t, ci - 1) + IF Target = t THEN 1 ELSE 0
      <4>1. ci - 1 \in Nat /\ (ci - 1) + 1 = ci
        BY <1>0
      <4> QED
        BY <1>3, <2>1, <2>3, <4>1, CallsToNext DEF Target
    <3>2. CASE ConfirmCall
      <4>1. UNCHANGED progress /\ at = "wait" /\ at' = "call" /\ ci' = ci + 1 /\ ci' - 1 = ci
        BY <1>0, <3>2 DEF ConfirmCall
      <4> QED
        BY <1>1, <1>6, <2>1, <2>3, <4>1
    <3>3. CASE ~ConfirmCall
      <4>1. CountCall /\ at = "call"
        BY <1>10, <3>3 DEF CallStep, SendCall, SendRevertingCall, ReplayCall, CallLeft
      <4>2. progress'[t] = progress[t] + IF Target = t THEN 1 ELSE 0
        BY <1>0, <1>3, <4>1 DEF CountCall
      <4>3. progress'[t] = CallsTo(e, t, ci)
        BY <1>1, <1>6, <2>1, <2>3, <3>1, <4>1, <4>2
      <4>4. (at' = "wait" /\ ci' = ci) \/ (at' = "call" /\ ci' - 1 = ci)
        BY <1>0, <1>10, <3>3, <4>1 DEF CallStep, SendCall, SendRevertingCall, ReplayCall
      <4> QED
        BY <2>1, <2>3, <4>3, <4>4
    <3> QED
      BY <3>2, <3>3
  <2> QED
    BY <2>2, <2>3
<1>11. CASE FinishEvent \/ FinishDeployFn
  <2>1. /\ ~StartRun /\ UNCHANGED <<status, progress>> /\ at = "call" /\ Cur \in file'.done
        /\ at' \notin {"call", "wait"}
    BY <1>0, <1>11, FinishFacts DEF FinishEvent, FinishDeployFn, Advance, StartRun, Up
  <2> QED
    BY <1>1, <1>3, <1>6, <2>1
<1>12. CASE Develop
  BY <1>1, <1>12, DevelopFacts
<1>13. CASE UNCHANGED vars
  <2>1. ~StartRun
    BY <1>0, <1>13 DEF StartRun, vars, TypeOK
  <2> QED
    BY <1>1, <1>6, <1>13, <2>1 DEF vars, proc, Cur, El, Plan
<1> QED
  BY <1>5, <1>7, <1>8, <1>9, <1>10, <1>11, <1>12, <1>13, NextCases

LEMMA OfThisRunStep ==
  ASSUME CalleesNew, ReceiptsKept, Inductive, Auxiliary, CallsOnce, [Next]_vars
  PROVE  OfThisRun'
<1>0. TypeOK /\ Sync /\ ci \in Nat \ {0} /\ run \in Nat
  BY DEF Inductive, TypeOK
<1>1. SUFFICES ASSUME status' = "running", NEW j \in DOMAIN calls', Live(j)', calls'[j].run = run'
               PROVE  /\ at' \in {"call", "wait"} /\ Cur' = calls'[j].event
                      /\ calls'[j].index < ci' \/ (at' = "wait" /\ calls'[j].index = ci')
  BY DEF OfThisRun
<1>2. CASE j \notin DOMAIN calls
  BY <1>2, SentNow
<1>3. CASE j \in DOMAIN calls
  <2>1. /\ Live(j) /\ calls'[j] = calls[j] /\ calls[j].event \notin file'.done
        /\ calls[j].index \in Nat /\ calls[j].run \in Nat
    BY <1>0, <1>1, <1>3, LiveKept, CallType DEF CallsOnce, Live
  <2>2. ~StartRun
    <3>1. calls[j].run <= run
      BY <1>3 DEF CallsOnce, CallsKnown
    <3> QED
      BY <1>0, <1>1, <2>1, <3>1 DEF StartRun
  <2>3. run' = run
    BY <1>0, <2>2, InRun
  <2>4. ASSUME status = "running"
        PROVE  /\ at \in {"call", "wait"} /\ Cur = calls[j].event
               /\ calls[j].index < ci \/ (at = "wait" /\ calls[j].index = ci)
    BY <1>1, <1>3, <2>1, <2>3, <2>4 DEF CallsOnce, OfThisRun
  <2>5. CASE QuietStep
    BY <1>1, <2>4, <2>5, QuietFacts
  <2>6. CASE SendDeploy \/ StoreReceipt \/ RecordAddress \/ BeginEvent \/ BeginDeployFn
    BY <1>1, <2>4, <2>6 DEF SendDeploy, StoreReceipt, RecordAddress, BeginEvent, BeginDeployFn,
       AtContract, AtEvent, AtElement
  <2>7. CASE CallStep \/ ReplayCall
    <3>1. UNCHANGED status /\ at' \in {"call", "wait"} /\ Cur' = Cur
      BY <1>0, <2>7, CallFacts
    <3>2. (at = "call" /\ ci' = ci) \/ (ci' = ci + 1)
      BY <2>7 DEF CallStep, SendCall, SendRevertingCall, ConfirmCall, ReplayCall, CallLeft
    <3>3. calls[j].index < ci'
      <4>1. CASE ci' = ci + 1
        BY <1>0, <1>1, <2>1, <2>4, <3>1, <4>1
      <4>2. CASE at = "call" /\ ci' = ci
        BY <1>1, <2>4, <3>1, <4>2
      <4> QED
        BY <3>2, <4>1, <4>2
    <3> QED
      BY <1>1, <2>1, <2>4, <3>1, <3>3
  <2>8. CASE FinishEvent \/ FinishDeployFn
    <3>1. UNCHANGED status /\ Cur \in file'.done
      BY <1>0, <2>8, FinishFacts
    <3> QED
      BY <1>1, <2>1, <2>4, <3>1
  <2>9. CASE Develop
    BY <1>1, <2>9, DevelopFacts
  <2>10. CASE UNCHANGED vars
    BY <1>1, <2>1, <2>4, <2>10 DEF vars, proc, Cur, El, Plan
  <2> QED
    BY <2>2, <2>5, <2>6, <2>7, <2>8, <2>9, <2>10, NextCases
<1> QED
  BY <1>2, <1>3

LEMMA CallsOnceStep ==
  ASSUME CalleesNew, ReceiptsKept, Inductive, Auxiliary, CallsOnce, [Next]_vars
  PROVE  CallsOnce'
<1>1. DepsThere'
  BY OneCodeStep, DepsStayStep DEF Inductive, CallsOnce, DepsThere
<1>2. Awaited' /\ AllRecorded' /\ CallsKnown' /\ NotCalledYet'
  BY AwaitedStep, AllRecordedStep, CallsKnownStep, NotCalledYetStep DEF Inductive, CallsOnce
<1>3. LogAhead'
  BY LogAheadStep DEF Inductive, CallsOnce
<1> QED
  BY <1>1, <1>2, <1>3, EarlierDoneStep, LoggedStep, CountedStep, OfThisRunStep DEF CallsOnce

LEMMA CallsOnceInit == Init => CallsOnce /\ NoRepeatedCall
<1>1. SUFFICES ASSUME Init PROVE CallsOnce /\ NoRepeatedCall
  OBVIOUS
<1>2. CallsReach
  BY <1>1, CallsReachInit
<1>3. status = "idle" /\ calls = <<>> /\ DOMAIN calls = {}
  BY <1>1 DEF Init
<1> QED
  BY <1>2, <1>3 DEF CallsReach, CallsOnce, DepsThere, Awaited, AllRecorded, CallsKnown,
     NotCalledYet, EarlierDone, Logged, LogAhead, Counted, OfThisRun, NoRepeatedCall, Up

(* A call that would repeat another finds its receipt.                     *)
LEMMA RepetitionReplays ==
  ASSUME ReceiptsKept, Inductive, CallsOnce, SendCall, NEW j \in DOMAIN calls,
         calls[j].event = Cur, calls[j].index = ci, calls[j].to # 0,
         calls[j].to = IF Target \in Contracts THEN mem.addr[Target] ELSE 0
  PROVE  FALSE
<1>0. TypeOK /\ Sync /\ Place /\ ci \in Nat \ {0} /\ run \in Nat
  BY DEF Inductive, TypeOK
<1>1. Callee(j) = Target /\ Target \in Contracts /\ calls[j].to = mem.addr[Target]
  BY DEF Callee, Target
<1>2. /\ status = "running" /\ Up /\ at = "call" /\ El \in Events /\ Cur = El
      /\ Cur \in Members(Order) /\ Cur \in Events /\ ci \in DOMAIN Calls[Cur]
  BY <1>0, <1>1, CallFacts, CallInOrder DEF CallStep, SendCall, CallLeft
<1>3. Live(j)
  BY <1>0, <1>1, <1>2, ShapeAssumption DEF Live, Sync, Place, ShapeAssumption
<1>4. calls[j].run < run
  <2>1. calls[j].run \in Nat /\ calls[j].run <= run
    BY <1>0, CallType DEF CallsOnce, CallsKnown
  <2>2. calls[j].run # run
    BY <1>0, <1>2, <1>3 DEF CallsOnce, OfThisRun
  <2> QED
    BY <1>0, <2>1, <2>2
<1>5. progress[Target] = CallsTo(Cur, Target, ci - 1)
  BY <1>1, <1>2, <1>3, <1>4 DEF CallsOnce, Counted
<1>6. Len(file.log[Cur][Target]) >= CallsTo(Cur, Target, ci)
  BY <1>1, <1>2, <1>3 DEF CallsOnce, Logged
<1>7. CallsTo(Cur, Target, ci - 1) \in Nat /\ CallsTo(Cur, Target, ci) = CallsTo(Cur, Target, ci - 1) + 1
  <2>1. ci - 1 \in Nat /\ (ci - 1) + 1 = ci
    BY <1>0
  <2> QED
    BY <1>2, <2>1, CallsToNext DEF Target
<1>8. Len(file.log[Cur][Target]) \in Nat
  <2>1. file.log \in [Events -> [Targets -> Seq(Nat)]] /\ Target \in Targets
    BY <1>0, <1>1 DEF TypeOK, State, Targets
  <2>2. file.log[Cur][Target] \in Seq(Nat)
    BY <1>2, <2>1
  <2> QED
    BY <2>2
<1>9. Len(file.log[Cur][Target]) > progress[Target]
  <2> DEFINE l == Len(file.log[Cur][Target])
  <2>1. l \in Nat /\ l >= CallsTo(Cur, Target, ci)
    BY <1>6, <1>8
  <2> HIDE DEF l
  <2>2. l > progress[Target]
    BY <1>5, <1>7, <2>1
  <2> QED
    BY <2>2 DEF l
<1> QED
  BY <1>1, <1>9 DEF SendCall, Replays

LEMMA NoRepeatedCallStep ==
  ASSUME ReceiptsKept, Inductive, CallsOnce, NoRepeatedCall, [Next]_vars
  PROVE  NoRepeatedCall'
<1>0. TypeOK
  BY DEF Inductive
<1>1. CASE ~SendCall
  BY <1>0, <1>1, CallsGrow DEF NoRepeatedCall
<1>2. CASE SendCall
  <2>1. /\ DOMAIN calls' = DOMAIN calls \cup {receipt'} /\ receipt' = Len(calls) + 1
        /\ \A j \in DOMAIN calls : calls'[j] = calls[j]
    BY <1>0, <1>2, CallAdded
  <2>2. /\ calls'[receipt'].event = Cur /\ calls'[receipt'].index = ci
        /\ calls'[receipt'].to = IF Target \in Contracts THEN mem.addr[Target] ELSE 0
    BY <1>0, <1>2, CallAdded
  <2>3. calls \in Seq(Called) /\ DOMAIN calls = 1 .. Len(calls) /\ Len(calls) \in Nat
    BY <1>0 DEF TypeOK
  <2>4. SUFFICES ASSUME NEW i \in DOMAIN calls', NEW j \in DOMAIN calls', i < j,
                        calls'[i].to # 0, Kind[calls'[i].event] # "outcome",
                        calls'[i].event = calls'[j].event, calls'[i].index = calls'[j].index,
                        calls'[i].to = calls'[j].to
                 PROVE  FALSE
    BY DEF NoRepeatedCall
  <2>5. i \in DOMAIN calls
    BY <2>1, <2>3, <2>4
  <2>6. CASE j \in DOMAIN calls
    BY <2>1, <2>4, <2>5, <2>6 DEF NoRepeatedCall
  <2>7. CASE j = receipt'
    BY <1>2, <2>1, <2>2, <2>4, <2>5, <2>7, RepetitionReplays
  <2> QED
    BY <2>1, <2>6, <2>7
<1> QED
  BY <1>1, <1>2

(* A call reaches the same instance once, however often its hook fails and *)
(* is resumed, if no answer is lost, no hook on failure rewrites the file, *)
(* and a hook is executed again for new instances of all that it calls.    *)
THEOREM CallsNotRepeated ==
  ASSUME ReceiptsKept, CalleesNew
  PROVE  Spec => []NoRepeatedCall
<1>1. Inductive /\ Auxiliary /\ CallsOnce /\ NoRepeatedCall /\ [Next]_vars
        => (CallsOnce /\ NoRepeatedCall)'
  BY CallsOnceStep, NoRepeatedCallStep
<1> QED
  BY <1>1, CallsOnceInit, Foundation, PTL DEF Spec
=============================================================================
