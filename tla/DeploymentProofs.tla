-------------------------- MODULE DeploymentProofs --------------------------
(***************************************************************************)
(* What holds of Deployment for every module, every set of faults and any  *)
(* number of runs and edits: its types; Inductive is an invariant, and     *)
(* what follows from it: the state file never lags behind, nothing on      *)
(* record is forgotten, addresses are those of the right contracts, and    *)
(* success means that all is done.                                         *)
(***************************************************************************)
EXTENDS DeploymentInductive, TLAPS

(***************************************************************************)
(* Type correctness.                                                       *)
(***************************************************************************)

(* The elements of a plan are those of the module; the hooks on failure    *)
(* are events.                                                             *)
LEMMA PlanElements ==
  ASSUME pos \in DOMAIN Plan
  PROVE  El \in Elements /\ (status = "failing" => El \in Events)
BY ShapeAssumption DEF ShapeAssumption, Plan, El, Elements

(* Resolving maps a well-typed state file to a well-typed state.           *)
LEMMA ResolvedType ==
  ASSUME TypeOK
  PROVE  Resolved \in State /\ CustomDeployed \subseteq {c \in Contracts : FnEvent[c] # NoEvent}
<1>1. NoLog \in [Targets -> Seq(Nat)]
  BY DEF NoLog
<1>2. /\ file.code \in [Contracts -> Nat] /\ file.addr \in [Contracts -> Nat]
      /\ file.rcpt \in [Contracts -> Nat] /\ file.done \subseteq Events
      /\ file.log \in [Events -> [Targets -> Seq(Nat)]]
  <2>1. file \in State
    BY DEF TypeOK
  <2> QED
    BY <2>1 DEF State
<1>3. code \in [Contracts -> Nat]
  BY DEF TypeOK
<1> QED
  BY <1>1, <1>2, <1>3 DEF Resolved, State, CustomDeployed, Fresh

(* What is stored for a contract keeps the file well typed.                *)
LEMMA StoreType ==
  ASSUME TypeOK, NEW s \in State, NEW c \in Contracts, StoreSingleBinding(s, c)
  PROVE  file' \in State
BY DEF TypeOK, State, StoreSingleBinding

(* The changes the actions make to a module state keep it well typed.      *)
LEMMA RecordType ==
  ASSUME NEW s \in State, NEW c \in Contracts, NEW n \in Nat
  PROVE  /\ [s EXCEPT !.addr[c] = n] \in State
         /\ [s EXCEPT !.rcpt[c] = n] \in State
<1>1. s.addr \in [Contracts -> Nat] /\ s.rcpt \in [Contracts -> Nat]
  BY DEF State
<1>2. /\ [s.addr EXCEPT ![c] = n] \in [Contracts -> Nat]
      /\ [s.rcpt EXCEPT ![c] = n] \in [Contracts -> Nat]
  BY <1>1
<1> QED
  BY <1>2 DEF State

LEMMA LogType ==
  ASSUME NEW s \in State, NEW e \in Events, NEW t \in Targets, NEW n \in Nat
  PROVE  [s EXCEPT !.log[e][t] = Append(@, n)] \in State
<1>1. s.log \in [Events -> [Targets -> Seq(Nat)]]
  BY DEF State
<1>2. Append(s.log[e][t], n) \in Seq(Nat)
  BY <1>1
<1>3. [s.log[e] EXCEPT ![t] = Append(s.log[e][t], n)] \in [Targets -> Seq(Nat)]
  BY <1>1, <1>2
<1>4. [s.log EXCEPT ![e] = [s.log[e] EXCEPT ![t] = Append(s.log[e][t], n)]]
        \in [Events -> [Targets -> Seq(Nat)]]
  BY <1>1, <1>3
<1> QED
  BY <1>4 DEF State

(* The hook that is running is an event, and whom it calls is a target.    *)
LEMMA CurType ==
  ASSUME TypeOK, Up, at \in {"call", "wait"}
  PROVE  /\ Cur \in Events
         /\ ci \in DOMAIN Calls[Cur] => Target \in Targets
         /\ at = "wait" => Target \in Targets
<1>1. Cur \in Events
  BY ShapeAssumption DEF TypeOK, Cur, ShapeAssumption
<1>2. Calls[Cur] \in Seq(Targets)
  BY <1>1, ShapeAssumption DEF ShapeAssumption
<1> QED
  BY <1>1, <1>2 DEF Target, TypeOK

(* A step that leaves the process at an element, or down, and touches      *)
(* nothing else keeps the types.                                           *)
LEMMA IdleType ==
  ASSUME TypeOK, Idle, Up' => at' = "next",
         status' \in {"idle", "running", "failing", "done", "failed", "crashed"},
         pos' \in Nat \ {0}, at' \in {"next", "sent", "mined", "call", "wait"}
  PROVE  TypeOK'
BY DEF TypeOK, Idle, setup, input, chain

(* So does one that ends the current element by an error, or by advancing. *)
LEMMA ThrowOrAdvance ==
  ASSUME TypeOK, Throw \/ (Advance /\ UNCHANGED status)
  PROVE  /\ status' \in {"idle", "running", "failing", "done", "failed", "crashed"}
         /\ pos' \in Nat \ {0} /\ at' = "next"
BY DEF TypeOK, Throw, Advance

(* Every step of the specification keeps the types.                        *)
LEMMA TypeStep ==
  ASSUME TypeOK, [Next]_vars
  PROVE  TypeOK'
<1>1. CASE EndRun
  BY <1>1, IdleType DEF EndRun, TypeOK, Up
<1>2. CASE \/ SkipContract \/ NotLinkable \/ DeployFails \/ WaitFails \/ SkipEvent
           \/ DepsMissing \/ NotCallable \/ CallWaitFails \/ FunctionThrows
           \/ DeployFnSentNothing
  <2>1. Idle /\ (Throw \/ (Advance /\ UNCHANGED status))
    BY <1>2 DEF SkipContract, NotLinkable, DeployFails, WaitFails, SkipEvent,
       DepsMissing, NotCallable, CallWaitFails, FunctionThrows, DeployFnSentNothing
  <2> QED
    BY <2>1, IdleType, ThrowOrAdvance
<1>3. CASE SendDeploy
  <2>1. El \in Contracts /\ pos \in DOMAIN Plan /\ El \notin custom /\ Up
    BY <1>3, ShapeAssumption DEF SendDeploy, AtContract, AtElement, TypeOK, Plan, ShapeAssumption
  <2>2. Creation(El) \in Deployed
    BY <2>1 DEF Creation, Deployed, TypeOK, State
  <2>3. /\ deployed' = Append(deployed, Creation(El)) /\ made' = Len(deployed) + 1
        /\ at' = "sent"
        /\ UNCHANGED <<setup, file, mem, status, pos, ci, progress, locked, receipt, calls>>
    BY <1>3 DEF SendDeploy
  <2>4. deployed' \in Seq(Deployed) /\ made' \in 0 .. Len(deployed')
    <3>1. deployed \in Seq(Deployed)
      BY DEF TypeOK
    <3> HIDE DEF Deployed
    <3> QED
      BY <2>2, <2>3, <3>1
  <2>5. Up' /\ El' = El /\ pos' \in DOMAIN Plan'
    BY <2>1, <2>3 DEF Up, El, Plan
  <2> QED
    BY <2>1, <2>3, <2>4, <2>5 DEF TypeOK, setup, input
<1>4. CASE StoreReceipt
  <2>1. El \in Contracts /\ pos \in DOMAIN Plan
    BY <1>4 DEF StoreReceipt, TypeOK
  <2>2. mem' \in State
    <3>1. mem \in State /\ made \in Nat /\ mem' = [mem EXCEPT !.rcpt[El] = made]
      BY <1>4 DEF StoreReceipt, TypeOK
    <3> QED
      BY <2>1, <3>1, RecordType
  <2>3. file' \in State
    BY <1>4, <2>1, <2>2, StoreType DEF StoreReceipt
  <2>4. El' = El /\ Plan' = Plan
    BY <1>4 DEF StoreReceipt, El, Plan
  <2> QED
    BY <1>4, <2>1, <2>2, <2>3, <2>4 DEF StoreReceipt, TypeOK, setup, input, chain
<1>5. CASE RecordAddress
  <2>1. El \in Contracts
    BY <1>5 DEF RecordAddress, TypeOK
  <2>2. mem' \in State
    <3>1. mem \in State /\ made \in Nat /\ mem' = [mem EXCEPT !.addr[El] = made]
      BY <1>5 DEF RecordAddress, TypeOK
    <3> QED
      BY <2>1, <3>1, RecordType
  <2>3. file' \in State
    BY <1>5, <2>1, <2>2, StoreType DEF RecordAddress
  <2> QED
    BY <1>5, <2>1, <2>2, <2>3 DEF RecordAddress, Advance, TypeOK, setup, input, chain
<1>6. CASE BeginEvent \/ BeginDeployFn
  <2>1. El \in Events \cup custom /\ pos \in DOMAIN Plan
    BY <1>6, ShapeAssumption
       DEF BeginEvent, BeginDeployFn, AtContract, AtEvent, AtElement, TypeOK, Plan, ShapeAssumption
  <2>2. El' = El /\ Plan' = Plan /\ at' = "call" /\ ci' = 1 /\ custom' = custom
    BY <1>6 DEF BeginEvent, BeginDeployFn, El, Plan, setup
  <2> QED
    BY <1>6, <2>1, <2>2 DEF BeginEvent, BeginDeployFn, TypeOK, setup, input, chain
<1>7. CASE ReplayCall
  <2>1. Up /\ at = "call" /\ Target \in Contracts /\ Cur \in Events
    BY <1>7, CurType DEF ReplayCall, CallLeft, Replays
  <2>2. progress' = [progress EXCEPT ![Target] = @ + 1]
    BY <1>7, <2>1 DEF ReplayCall, CountCall
  <2>3. file.log[Cur][Target][progress[Target] + 1] \in Nat
    <3>1. /\ file.log \in [Events -> [Targets -> Seq(Nat)]]
          /\ progress \in [Contracts -> Nat]
      BY DEF TypeOK, State
    <3>2. file.log[Cur][Target] \in Seq(Nat) /\ progress[Target] \in Nat
      BY <2>1, <3>1 DEF Targets
    <3>3. Len(file.log[Cur][Target]) > progress[Target]
      BY <1>7 DEF ReplayCall, Replays
    <3>4. ASSUME NEW log \in Seq(Nat), NEW n \in Nat, Len(log) > n
          PROVE  log[n + 1] \in Nat
      BY <3>4
    <3> QED
      BY <3>2, <3>3, <3>4
  <2>4. file' \in State
    <3>1. file \in State /\ Target \in Targets
      BY <2>1 DEF TypeOK, Targets
    <3> QED
      BY <1>7, <2>1, <2>3, <3>1, LogType DEF ReplayCall, StoreCallOutput
  <2>5. El' = El /\ Plan' = Plan /\ UNCHANGED custom
    BY <1>7 DEF ReplayCall, El, Plan, setup
  <2> QED
    BY <1>7, <2>1, <2>2, <2>4, <2>5 DEF ReplayCall, TypeOK, setup, input, chain
<1>8. CASE RejectCall
  BY <1>8, ThrowOrAdvance DEF RejectCall, TypeOK, setup, input, chain
<1>9. CASE SendCall
  <2>1. /\ Up /\ at = "call" /\ Cur \in Events /\ Target \in Targets
        /\ El \in Events \cup custom /\ pos \in DOMAIN Plan
    BY <1>9, CurType, ShapeAssumption DEF SendCall, CallLeft, TypeOK, ShapeAssumption
  <2>2. progress' \in [Contracts -> Nat]
    BY <1>9, <2>1 DEF SendCall, CountCall, TypeOK
  <2>3. [event |-> Cur, index |-> ci, run |-> run,
         to |-> IF Target \in Contracts THEN mem.addr[Target] ELSE 0] \in Called
    BY <2>1 DEF Called, TypeOK, State
  <2>4. calls' \in Seq(Called) /\ receipt' \in 0 .. Len(calls')
    BY <1>9, <2>3 DEF SendCall, TypeOK
  <2>5. deployed' \in Seq(Deployed) /\ made' \in 0 .. Len(deployed')
    <3>1. CASE Creates
      <4>1. [contract |-> El, code |-> mem.code[El], run |-> run, by |-> Cur,
             args |-> [a \in Contracts |-> 0]] \in Deployed
        BY <2>1, <3>1 DEF Creates, Deployed, TypeOK, State
      <4>2. deployed' = Append(deployed, [contract |-> El, code |-> mem.code[El],
                                          run |-> run, by |-> Cur,
                                          args |-> [a \in Contracts |-> 0]])
            /\ made' = Len(deployed) + 1 /\ deployed \in Seq(Deployed)
        BY <1>9, <3>1 DEF SendCall, TypeOK
      <4> QED
        BY <4>1, <4>2
    <3>2. CASE ~Creates
      BY <1>9, <3>2 DEF SendCall, TypeOK
    <3> QED
      BY <3>1, <3>2
  <2>6. El' = El /\ Plan' = Plan /\ UNCHANGED custom
    BY <1>9 DEF SendCall, El, Plan, setup
  <2>7. ci' \in DOMAIN Calls[Cur'] /\ Cur' = Cur
    <3>1. Calls[Cur] \in Seq(Targets) /\ ci \in Nat \ {0} /\ ci <= Len(Calls[Cur])
      BY <1>9, <2>1, ShapeAssumption DEF SendCall, CallLeft, TypeOK, ShapeAssumption
    <3> QED
      BY <1>9, <2>6, <3>1 DEF SendCall, Cur
  <2> QED
    BY <1>9, <2>1, <2>2, <2>4, <2>5, <2>6, <2>7 DEF SendCall, TypeOK, setup, input
<1>10. CASE SendRevertingCall
  <2>1. /\ Up /\ at = "call" /\ Cur \in Events /\ Target \in Targets
        /\ El \in Events \cup custom /\ pos \in DOMAIN Plan
    BY <1>10, CurType, ShapeAssumption DEF SendRevertingCall, CallLeft, TypeOK, ShapeAssumption
  <2>2. progress' \in [Contracts -> Nat]
    BY <1>10, <2>1 DEF SendRevertingCall, CountCall, TypeOK
  <2>3. El' = El /\ Plan' = Plan /\ UNCHANGED custom
    BY <1>10 DEF SendRevertingCall, El, Plan, setup
  <2>4. ci' \in DOMAIN Calls[Cur'] /\ Cur' = Cur
    <3>1. Calls[Cur] \in Seq(Targets) /\ ci \in Nat \ {0} /\ ci <= Len(Calls[Cur])
      BY <1>10, <2>1, ShapeAssumption DEF SendRevertingCall, CallLeft, TypeOK, ShapeAssumption
    <3> QED
      BY <1>10, <2>3, <3>1 DEF SendRevertingCall, Cur
  <2> QED
    BY <1>10, <2>1, <2>2, <2>3, <2>4 DEF SendRevertingCall, TypeOK, setup, input, chain
<1>11. CASE ConfirmCall
  <2>0. Up /\ at = "wait" /\ receipt \in Nat /\ El \in Events \cup custom /\ pos \in DOMAIN Plan
    BY <1>11 DEF ConfirmCall, TypeOK
  <2>1. Cur \in Events /\ Target \in Targets
    BY <2>0, CurType
  <2>2. file' \in State
    <3>1. file \in State /\ file' = [file EXCEPT !.log[Cur][Target] = Append(@, receipt)]
      BY <1>11 DEF ConfirmCall, StoreCallOutput, TypeOK
    <3> QED
      BY <2>0, <2>1, <3>1, LogType
  <2>3. El' = El /\ Plan' = Plan /\ UNCHANGED custom
    BY <1>11 DEF ConfirmCall, El, Plan, setup
  <2>4. /\ locked' = FALSE /\ at' = "call" /\ ci' = ci + 1
        /\ UNCHANGED <<setup, mem, status, pos, progress, receipt, made, chain>>
    BY <1>11 DEF ConfirmCall
  <2>5. /\ Up' /\ ~(at' # "call") /\ ci' \in Nat \ {0}
        /\ receipt' \in 0 .. Len(calls') /\ made' \in 0 .. Len(deployed')
    BY <2>0, <2>4 DEF TypeOK, chain, Up
  <2> QED
    BY <2>0, <2>2, <2>3, <2>4, <2>5 DEF TypeOK, setup, input, chain
<1>12. CASE FinishEvent \/ FinishDeployFn
  <2>1. Up /\ at = "call" /\ Cur \in Events /\ El \in Events \cup custom /\ pos \in DOMAIN Plan
    BY <1>12, CurType DEF FinishEvent, FinishDeployFn, TypeOK
  <2>2. mem' = Finished(Cur) /\ file' = Finished(Cur)
    <3>1. CASE FinishEvent
      BY <3>1 DEF FinishEvent, StoreNewState, Cur
    <3>2. CASE FinishDeployFn
      BY <3>2 DEF FinishDeployFn, StoreNewState
    <3> QED
      BY <1>12, <3>1, <3>2
  <2>3. NoLog \in [Targets -> Seq(Nat)]
    BY DEF NoLog
  <2>4. Finished(Cur) \in State
    BY <2>1, <2>3 DEF Finished, TypeOK, State
  <2>5. CASE FinishEvent
    BY <2>2, <2>4, <2>5 DEF FinishEvent, Advance, TypeOK, setup, input, chain
  <2>6. CASE FinishDeployFn
    <3>1. El \in Contracts /\ El' = El /\ Plan' = Plan
      BY <2>6 DEF FinishDeployFn, El, Plan
    <3> QED
      BY <2>1, <2>2, <2>4, <2>6, <3>1 DEF FinishDeployFn, TypeOK, setup, input, chain
  <2> QED
    BY <1>12, <2>5, <2>6
<1>13. CASE StartRun
  <2>1. Resolved \in State /\ CustomDeployed \subseteq {c \in Contracts : FnEvent[c] # NoEvent}
    BY ResolvedType
  <2>2. progress' \in [Contracts -> Nat] /\ at' = "next"
    BY <1>13 DEF StartRun
  <2>3. receipt' \in 0 .. Len(calls') /\ made' \in 0 .. Len(deployed')
    BY <1>13 DEF StartRun, TypeOK, chain
  <2>4. /\ mem' = Resolved /\ file' = Resolved /\ custom' = CustomDeployed
        /\ status' = "running" /\ pos' = 1 /\ ci' = 1
        /\ locked' = FALSE /\ run' = run + 1
        /\ UNCHANGED <<input, chain>>
    BY <1>13 DEF StartRun, StoreNewState
  <2>5. /\ status' \in {"idle", "running", "failing", "done", "failed", "crashed"}
        /\ at' \in {"next", "sent", "mined", "call", "wait"}
        /\ pos' \in Nat \ {0} /\ ci' \in Nat \ {0} /\ run' \in Nat
    BY <2>2, <2>4 DEF TypeOK
  <2>8. locked' \in BOOLEAN
    BY <2>4, Zenon
  <2>6. /\ code' \in [Contracts -> Nat] /\ skip' \subseteq MaySkip
        /\ deployed' \in Seq(Deployed) /\ calls' \in Seq(Called)
    BY <2>4 DEF TypeOK, input, chain
  <2>7. ~(at' # "next" \/ at' \in {"sent", "mined"} \/ at' \in {"call", "wait"} \/ at' = "wait")
    BY <2>2
  <2> QED
    BY <2>1, <2>2, <2>3, <2>4, <2>5, <2>6, <2>7, <2>8, Zenon DEF TypeOK
<1>14. CASE Crash
  BY <1>14, IdleType DEF Crash, TypeOK, Up
<1>15. CASE \E c \in Contracts : Edit(c) \/ Configure(c)
  <2>1. code' \in [Contracts -> Nat] /\ skip' \subseteq MaySkip
    <3>1. PICK c \in Contracts : Edit(c) \/ Configure(c)
      BY <1>15
    <3>2. code \in [Contracts -> Nat] /\ skip \subseteq MaySkip
      BY DEF TypeOK
    <3>3. CASE Edit(c)
      BY <3>2, <3>3 DEF Edit
    <3>4. CASE Configure(c)
      BY <3>2, <3>4 DEF Configure
    <3> QED
      BY <3>1, <3>3, <3>4
  <2>2. ~Up /\ UNCHANGED <<file, proc, chain, run>>
    BY <1>15 DEF Edit, Configure
  <2> QED
    BY <2>1, <2>2 DEF TypeOK, Up, proc, chain
<1>16. CASE UNCHANGED vars
  BY <1>16 DEF TypeOK, vars, input, proc, chain, Up, El, Plan, Cur
<1> QED
  BY <1>1, <1>2, <1>3, <1>4, <1>5, <1>6, <1>7, <1>8, <1>9, <1>10, <1>11, <1>12,
     <1>13, <1>14, <1>15, <1>16 DEF Next, Step

(* The state the tool is installed in has these types.                     *)
LEMMA InitType ==
  ASSUME Init
  PROVE  TypeOK
<1>1. NoLog \in [Targets -> Seq(Nat)]
  BY DEF NoLog
<1>2. EmptyState \in State
  BY <1>1 DEF EmptyState, State
<1>3. /\ code \in [Contracts -> Nat] /\ skip \subseteq MaySkip
      /\ file \in State /\ mem \in State
      /\ progress \in [Contracts -> Nat] /\ custom = {} /\ ~Up
  BY <1>2 DEF Init, Up
<1>4. /\ pos = 1 /\ at = "next" /\ ci = 1 /\ run = 0 /\ locked = FALSE
      /\ status = "idle"
  BY DEF Init
<1>5. /\ deployed \in Seq(Deployed) /\ calls \in Seq(Called)
      /\ receipt \in 0 .. Len(calls) /\ made \in 0 .. Len(deployed)
  BY DEF Init
<1>6. /\ status \in {"idle", "running", "failing", "done", "failed", "crashed"}
      /\ at \in {"next", "sent", "mined", "call", "wait"}
      /\ pos \in Nat \ {0} /\ ci \in Nat \ {0} /\ run \in Nat
  BY <1>4
<1>7. locked \in BOOLEAN
  BY <1>4, Zenon
<1> QED
  BY <1>3, <1>5, <1>6, <1>7, Zenon DEF TypeOK

(* The variables of Deployment always have their types.                    *)
THEOREM TypeCorrect == Spec => []TypeOK
BY InitType, TypeStep, PTL DEF Spec

(***************************************************************************)
(* The inductive invariant.                                                *)
(***************************************************************************)
(* The steps that change neither the file, the memory nor the chain, and   *)
(* end an element, the run, or the process.                                *)
QuietStep ==
  \/ EndRun \/ SkipContract \/ NotLinkable \/ DeployFails \/ WaitFails \/ SkipEvent
  \/ DepsMissing \/ NotCallable \/ CallWaitFails \/ FunctionThrows
  \/ DeployFnSentNothing \/ RejectCall \/ Crash
(* The steps by which a hook function makes its calls, but for the replay. *)
CallStep == SendCall \/ SendRevertingCall \/ ConfirmCall
(* The steps of the developer.                                             *)
Develop == \E c \in Contracts : Edit(c) \/ Configure(c)

LEMMA NextCases ==
  ASSUME [Next]_vars
  PROVE  \/ QuietStep \/ SendDeploy \/ StoreReceipt \/ RecordAddress
         \/ BeginEvent \/ BeginDeployFn \/ ReplayCall \/ CallStep
         \/ FinishEvent \/ FinishDeployFn \/ StartRun \/ Develop \/ UNCHANGED vars
BY Zenon DEF Next, Step, QuietStep, CallStep, Develop

LEMMA QuietFacts ==
  ASSUME QuietStep
  PROVE  /\ Up /\ (Up' => at' = "next")
         /\ UNCHANGED <<code, skip, custom, run, file, mem, progress, receipt, made, chain>>
         /\ status' = "running" => status = "running" /\ at = "next" /\ pos' = pos + 1
<1>1. CASE EndRun
  BY <1>1 DEF EndRun, Idle, setup, input, Up
<1>2. CASE SkipContract
  BY <1>2 DEF SkipContract, AtContract, AtElement, Advance, Idle, setup, input, Up
<1>3. CASE SkipEvent
  BY <1>3 DEF SkipEvent, AtEvent, AtElement, Advance, Idle, setup, input, Up
<1>4. CASE NotLinkable \/ DeployFails \/ DepsMissing
  BY <1>4 DEF NotLinkable, DeployFails, DepsMissing, AtContract, AtEvent, AtElement,
     Throw, Idle, setup, input, Up
<1>5. CASE WaitFails \/ NotCallable \/ CallWaitFails \/ FunctionThrows \/ DeployFnSentNothing
  BY <1>5 DEF WaitFails, NotCallable, CallWaitFails, FunctionThrows, DeployFnSentNothing,
     CallLeft, Throw, Idle, setup, input, Up
<1>6. CASE RejectCall
  BY <1>6 DEF RejectCall, CallLeft, Throw, setup, input, Up
<1>7. CASE Crash
  BY <1>7 DEF Crash, Idle, setup, input, Up
<1> QED
  BY <1>1, <1>2, <1>3, <1>4, <1>5, <1>6, <1>7 DEF QuietStep

LEMMA DevelopFacts ==
  ASSUME Develop
  PROVE  ~Up /\ ~Up' /\ status' \notin {"running", "failing"}
         /\ UNCHANGED <<file, proc, chain, run>>
BY DEF Develop, Edit, Configure, proc, Up

(* A hook function's steps do not leave its element nor touch the memory.  *)
LEMMA CallFacts ==
  ASSUME TypeOK, CallStep \/ ReplayCall
  PROVE  /\ Up /\ at \in {"call", "wait"} /\ Up' /\ at' \in {"call", "wait"}
         /\ UNCHANGED <<code, skip, custom, run, mem, status, pos>>
         /\ El' = El /\ Cur' = Cur /\ Plan' = Plan
         /\ Cur \in Events /\ Target \in Targets
         /\ ci \in DOMAIN Calls[Cur]
<1>1. /\ Up /\ at \in {"call", "wait"} /\ Up' /\ at' \in {"call", "wait"}
      /\ UNCHANGED <<code, skip, custom, run, mem, status, pos>>
  BY DEF CallStep, ReplayCall, SendCall, SendRevertingCall, ConfirmCall, CallLeft,
     setup, input, Up
<1>2. El' = El /\ Cur' = Cur /\ Plan' = Plan
  BY <1>1 DEF El, Cur, Plan
<1>3. Cur \in Events
  BY <1>1, CurType
<1>4. Calls[Cur] \in Seq(Targets)
  BY <1>3, ShapeAssumption DEF ShapeAssumption
<1>5. ci \in DOMAIN Calls[Cur]
  <2>1. CASE ConfirmCall
    BY <2>1 DEF ConfirmCall, TypeOK
  <2>2. CASE ~ConfirmCall
    <3>1. ci <= Len(Calls[Cur]) /\ ci \in Nat \ {0}
      BY <2>2 DEF CallStep, ReplayCall, SendCall, SendRevertingCall, CallLeft, TypeOK
    <3> QED
      BY <1>4, <3>1
  <2> QED
    BY <2>1, <2>2
<1> QED
  BY <1>1, <1>2, <1>3, <1>4, <1>5 DEF Target

(* Storing a receipt or an address: file and memory change alike.          *)
LEMMA StoreFacts ==
  ASSUME TypeOK, Sync, StoreReceipt \/ RecordAddress
  PROVE  /\ Up /\ Up' /\ El \in Contracts /\ at \in {"sent", "mined"}
         /\ file'.code = mem'.code /\ file'.addr = mem'.addr /\ file'.rcpt = mem'.rcpt
         /\ file'.done = file.done /\ mem'.done = mem.done
         /\ file'.log = file.log /\ mem'.log = mem.log /\ mem'.code = mem.code
<1>1. Up /\ Up' /\ El \in Contracts /\ at \in {"sent", "mined"}
  BY DEF StoreReceipt, RecordAddress, TypeOK, Up
<1>2. /\ file \in State /\ mem \in State
      /\ file.code = mem.code /\ file.addr = mem.addr /\ file.rcpt = mem.rcpt
  BY <1>1 DEF TypeOK, Sync
<1>3. file' = [file EXCEPT !.code[El] = mem'.code[El], !.addr[El] = mem'.addr[El],
                           !.rcpt[El] = mem'.rcpt[El]]
  BY DEF StoreReceipt, RecordAddress, StoreSingleBinding
<1>4. /\ file'.code = [file.code EXCEPT ![El] = mem'.code[El]]
      /\ file'.addr = [file.addr EXCEPT ![El] = mem'.addr[El]]
      /\ file'.rcpt = [file.rcpt EXCEPT ![El] = mem'.rcpt[El]]
      /\ file'.done = file.done /\ file'.log = file.log
  BY <1>2, <1>3 DEF State
<1>5. \/ mem' = [mem EXCEPT !.addr[El] = made]
      \/ mem' = [mem EXCEPT !.rcpt[El] = made]
  BY DEF StoreReceipt, RecordAddress
<1>6. /\ mem'.code = mem.code /\ mem'.done = mem.done /\ mem'.log = mem.log
      /\ \/ mem'.addr = [mem.addr EXCEPT ![El] = made] /\ mem'.rcpt = mem.rcpt
         \/ mem'.rcpt = [mem.rcpt EXCEPT ![El] = made] /\ mem'.addr = mem.addr
  BY <1>2, <1>5 DEF State
<1>7. /\ mem.code \in [Contracts -> Nat] /\ mem.addr \in [Contracts -> Nat]
      /\ mem.rcpt \in [Contracts -> Nat]
  BY <1>2 DEF State
<1> QED
  BY <1>1, <1>2, <1>4, <1>6, <1>7

(* Finishing a hook function makes the file what the process knows.        *)
LEMMA FinishFacts ==
  ASSUME TypeOK, FinishEvent \/ FinishDeployFn
  PROVE  /\ Up /\ Up' /\ at = "call" /\ file' = mem'
         /\ mem'.code = mem.code /\ mem'.addr = mem.addr /\ mem'.rcpt = mem.rcpt
         /\ mem'.done = mem.done \cup {Cur} /\ Cur \in Events
         /\ mem'.log = [mem.log EXCEPT ![Cur] =
                          IF Kind[Cur] = "outcome" THEN NoLog ELSE file.log[Cur]]
         /\ status' = status /\ UNCHANGED <<setup, chain, made, progress>>
<1>1. Up /\ Up' /\ at = "call" /\ status' = status /\ UNCHANGED <<setup, chain, made, progress>>
  BY DEF FinishEvent, FinishDeployFn, Up
<1>2. Cur \in Events
  BY <1>1, CurType
<1>3. mem' = Finished(Cur) /\ file' = Finished(Cur)
  <2>1. CASE FinishEvent
    BY <2>1 DEF FinishEvent, StoreNewState, Cur
  <2>2. CASE FinishDeployFn
    BY <2>2 DEF FinishDeployFn, StoreNewState
  <2> QED
    BY <2>1, <2>2
<1>4. mem \in State
  BY DEF TypeOK
<1> QED
  BY <1>1, <1>2, <1>3, <1>4 DEF Finished, State

(* A step keeps file and memory together.                                  *)
LEMMA SyncStep ==
  ASSUME TypeOK, Sync, [Next]_vars
  PROVE  Sync'
<1>1. CASE QuietStep
  BY <1>1, QuietFacts DEF Sync, Up
<1>2. CASE SendDeploy \/ BeginEvent \/ BeginDeployFn
  <2>1. at = "next" /\ Up /\ UNCHANGED <<file, mem, status>>
    BY <1>2 DEF SendDeploy, BeginEvent, BeginDeployFn, AtContract, AtEvent, AtElement
  <2> QED
    BY <2>1 DEF Sync, Up
<1>3. CASE StoreReceipt \/ RecordAddress
  <2>1. status' = status
    BY <1>3 DEF StoreReceipt, RecordAddress
  <2> QED
    BY <1>3, <2>1, StoreFacts DEF Sync
<1>4. CASE CallStep \/ ReplayCall
  <2>1. CASE ConfirmCall \/ ReplayCall
    <3>1. PICK n : file' = [file EXCEPT !.log[Cur][Target] = Append(@, n)]
      BY <2>1 DEF ConfirmCall, ReplayCall, StoreCallOutput
    <3>2. /\ file \in State /\ file.log \in [Events -> [Targets -> Seq(Nat)]]
      BY DEF TypeOK, State
    <3>3. /\ file'.code = file.code /\ file'.addr = file.addr /\ file'.rcpt = file.rcpt
          /\ file'.done = file.done
          /\ \A e \in Events : e # Cur => file'.log[e] = file.log[e]
      BY <3>1, <3>2 DEF State
    <3> QED
      BY <1>4, <3>3, CallFacts DEF Sync
  <2>2. CASE SendCall \/ SendRevertingCall
    <3>1. UNCHANGED file
      BY <2>2 DEF SendCall, SendRevertingCall
    <3> QED
      BY <1>4, <3>1, CallFacts DEF Sync
  <2> QED
    BY <1>4, <2>1, <2>2 DEF CallStep
<1>5. CASE FinishEvent \/ FinishDeployFn
  BY <1>5, FinishFacts DEF Sync
<1>6. CASE StartRun
  BY <1>6 DEF StartRun, StoreNewState, Sync
<1>7. CASE Develop
  BY <1>7, DevelopFacts DEF Sync, proc
<1>8. CASE UNCHANGED vars
  BY <1>8 DEF vars, proc, Sync, Up, Cur, El, Plan
<1> QED
  BY <1>1, <1>2, <1>3, <1>4, <1>5, <1>6, <1>7, <1>8, NextCases

(* A step executes only what was not executed before.                      *)
LEMMA PlaceStep ==
  ASSUME TypeOK, Sync, Place, [Next]_vars
  PROVE  Place'
<1>1. CASE QuietStep
  BY <1>1, QuietFacts DEF Place
<1>2. CASE SendDeploy \/ BeginEvent \/ BeginDeployFn
  <2>1. UNCHANGED <<mem, status, pos>>
    BY <1>2 DEF SendDeploy, BeginEvent, BeginDeployFn
  <2>2. El' = El
    BY <2>1 DEF El, Plan
  <2>3. IF El \in Contracts THEN mem.addr[El] = 0 ELSE El \notin mem.done
    BY <1>2, ShapeAssumption DEF SendDeploy, BeginEvent, BeginDeployFn, AtContract, AtEvent,
       ToDeploy, ShapeAssumption
  <2> QED
    BY <2>1, <2>2, <2>3 DEF Place
<1>3. CASE StoreReceipt
  <2>1. mem' = [mem EXCEPT !.rcpt[El] = made] /\ UNCHANGED <<status, pos>> /\ mem \in State
    BY <1>3 DEF StoreReceipt, TypeOK
  <2>2. mem'.addr = mem.addr /\ mem'.done = mem.done /\ El' = El
    BY <2>1 DEF State, El, Plan
  <2> QED
    BY <1>3, <2>2 DEF Place, StoreReceipt
<1>4. CASE RecordAddress \/ FinishEvent
  BY <1>4 DEF RecordAddress, FinishEvent, Advance, Place
<1>5. CASE CallStep \/ ReplayCall
  BY <1>5, CallFacts DEF Place
<1>6. CASE FinishDeployFn
  <2>1. El' = El /\ El \in Contracts
    BY <1>6 DEF FinishDeployFn, El, Plan
  <2> QED
    BY <1>6, <2>1, FinishFacts DEF Place
<1>7. CASE StartRun
  BY <1>7 DEF StartRun, Place
<1>8. CASE Develop
  BY <1>8, DevelopFacts DEF Place
<1>9. CASE UNCHANGED vars
  BY <1>9 DEF vars, proc, Place, Up, El, Plan
<1> QED
  BY <1>1, <1>2, <1>3, <1>4, <1>5, <1>6, <1>7, <1>8, <1>9, NextCases

(* What a replayed or a confirmed call changes in the file.                *)
LEMMA LogFacts ==
  ASSUME TypeOK, ConfirmCall \/ ReplayCall
  PROVE  /\ file'.code = file.code /\ file'.addr = file.addr /\ file'.rcpt = file.rcpt
         /\ file'.done = file.done
         /\ \A e \in Events, t \in Targets : e # Cur \/ t # Target =>
              file'.log[e][t] = file.log[e][t]
         /\ Len(file'.log[Cur][Target]) = Len(file.log[Cur][Target]) + 1
<1>1. PICK n : /\ file' = [file EXCEPT !.log[Cur][Target] = Append(@, n)]
  BY DEF ConfirmCall, ReplayCall, StoreCallOutput
<1>2. /\ file \in State /\ file.log \in [Events -> [Targets -> Seq(Nat)]]
  BY DEF TypeOK, State
<1>3. Cur \in Events /\ Target \in Targets
  BY CallFacts DEF CallStep
<1>4. file.log[Cur][Target] \in Seq(Nat)
  BY <1>2, <1>3
<1>5. /\ file'.code = file.code /\ file'.addr = file.addr /\ file'.rcpt = file.rcpt
      /\ file'.done = file.done
      /\ file'.log = [file.log EXCEPT ![Cur][Target] = Append(@, n)]
  BY <1>1, <1>2 DEF State
<1>6. Len(Append(file.log[Cur][Target], n)) = Len(file.log[Cur][Target]) + 1
  BY <1>4
<1> QED
  BY <1>2, <1>3, <1>5, <1>6

(* The event of a deployFn is neither in the order nor a hook on failure.  *)
LEMMA FnEventFacts ==
  FnEvents \subseteq Events /\ FnEvents \cap Members(Order) = {}
BY ShapeAssumption, OrderAssumption DEF FnEvents, ShapeAssumption, OrderAssumption

(* The process counts at least the calls a deployFn has on file.           *)
LEMMA FnLogStep ==
  ASSUME TypeOK, Sync, FnLog, [Next]_vars
  PROVE  FnLog'
<1>0. /\ progress \in [Contracts -> Nat] /\ file \in State /\ mem \in State
      /\ file.log \in [Events -> [Targets -> Seq(Nat)]]
      /\ mem.log \in [Events -> [Targets -> Seq(Nat)]]
  BY DEF TypeOK, State
<1>1. CASE QuietStep
  BY <1>1, QuietFacts DEF FnLog
<1>2. CASE SendDeploy \/ BeginEvent \/ BeginDeployFn
  <2>1. Up /\ at' # "wait" /\ UNCHANGED <<file, mem, progress>>
    BY <1>2 DEF SendDeploy, BeginEvent, BeginDeployFn, AtContract, AtEvent, AtElement
  <2> QED
    BY <2>1 DEF FnLog
<1>3. CASE StoreReceipt \/ RecordAddress
  <2>1. at' # "wait" /\ UNCHANGED progress
    BY <1>3 DEF StoreReceipt, RecordAddress, Advance
  <2> QED
    BY <1>3, <2>1, StoreFacts DEF FnLog
<1>4. CASE ReplayCall
  <2>1. /\ Up /\ at' = "call" /\ Target \in Contracts /\ Cur \notin FnEvents
        /\ progress' = [progress EXCEPT ![Target] = @ + 1]
    <3>1. /\ Up /\ at' = "call" /\ Target \in Contracts
          /\ progress' = [progress EXCEPT ![Target] = @ + 1]
          /\ Len(file.log[Cur][Target]) > progress[Target]
      BY <1>4 DEF ReplayCall, CallLeft, Replays, CountCall
    <3>2. Len(file.log[Cur][Target]) \in Nat /\ progress[Target] \in Nat
      BY <1>0, <1>4, <3>1, CallFacts
    <3>3. Cur \in FnEvents => Len(file.log[Cur][Target]) <= progress[Target]
      BY <3>1 DEF FnLog
    <3> QED
      BY <3>1, <3>2, <3>3
  <2>2. \A e \in FnEvents, t \in Contracts : file'.log[e][t] = file.log[e][t]
    BY <1>4, <2>1, LogFacts, FnEventFacts DEF Targets
  <2>3. \A t \in Contracts : progress[t] \in Nat /\ progress'[t] >= progress[t]
    BY <1>0, <2>1
  <2>4. UNCHANGED mem
    BY <1>4 DEF ReplayCall
  <2>5. \A e \in FnEvents, t \in Contracts :
          Len(file.log[e][t]) \in Nat /\ Len(mem.log[e][t]) \in Nat
    BY <1>0, FnEventFacts DEF Targets
  <2>6. \A t \in Contracts : progress'[t] \in Nat
    BY <1>0, <2>1
  <2> QED
    BY <2>1, <2>2, <2>3, <2>4, <2>5, <2>6 DEF FnLog
<1>5. CASE SendCall \/ SendRevertingCall
  <2>1. /\ Up /\ at' = "wait" /\ CountCall /\ UNCHANGED <<file, mem, ci>>
        /\ Cur' = Cur /\ Cur \in Events
    BY <1>5, CallFacts DEF SendCall, SendRevertingCall, CallStep
  <2>2. Target' = Target
    BY <2>1 DEF Target
  <2>3. \A t \in Contracts : /\ progress[t] \in Nat /\ progress'[t] \in Nat
                             /\ progress'[t] >= progress[t]
                             /\ t = Target => progress'[t] > progress[t]
    BY <1>0, <2>1 DEF CountCall
  <2>4. \A e \in FnEvents, t \in Contracts :
          Len(file.log[e][t]) \in Nat /\ Len(mem.log[e][t]) \in Nat
    BY <1>0, FnEventFacts DEF Targets
  <2>5. \A e \in FnEvents, t \in Contracts :
          /\ Len(file.log[e][t]) <= progress'[t] /\ Len(mem.log[e][t]) <= progress'[t]
          /\ t = Target => Len(file.log[e][t]) < progress'[t]
    BY <2>1, <2>3, <2>4 DEF FnLog
  <2> QED
    BY <2>1, <2>2, <2>5 DEF FnLog
<1>6. CASE ConfirmCall
  <2>1. Up /\ at = "wait" /\ at' = "call" /\ UNCHANGED <<mem, progress>>
    BY <1>6 DEF ConfirmCall
  <2>2. \A e \in FnEvents, t \in Contracts :
          /\ Len(file.log[e][t]) \in Nat /\ progress[t] \in Nat
          /\ e \in Events /\ t \in Targets
    BY <1>0, FnEventFacts DEF Targets
  <2>3. ASSUME NEW e \in FnEvents, NEW t \in Contracts
        PROVE  Len(file'.log[e][t]) <= progress[t]
    <3>1. CASE e = Cur /\ t = Target
      BY <1>6, <2>1, <2>2, <3>1, LogFacts DEF FnLog
    <3>2. CASE ~(e = Cur /\ t = Target)
      BY <1>6, <2>1, <2>2, <3>2, LogFacts DEF FnLog
    <3> QED
      BY <3>1, <3>2
  <2> QED
    BY <2>1, <2>3 DEF FnLog
<1>7. CASE FinishEvent \/ FinishDeployFn
  <2>1. /\ Up /\ file' = mem' /\ progress' = progress /\ Cur \in Events
        /\ mem'.log = [mem.log EXCEPT ![Cur] =
                         IF Kind[Cur] = "outcome" THEN NoLog ELSE file.log[Cur]]
    BY <1>7, FinishFacts
  <2>2. at' # "wait"
    BY <1>7 DEF FinishEvent, FinishDeployFn, Advance
  <2>3. \A e \in FnEvents, t \in Contracts : e \in Events /\ Len(NoLog[t]) <= progress[t]
    BY <1>0, FnEventFacts DEF NoLog, Targets
  <2>4. \A e \in FnEvents, t \in Contracts : Len(mem'.log[e][t]) <= progress[t]
    BY <1>0, <2>1, <2>3 DEF FnLog
  <2> QED
    BY <2>1, <2>2, <2>4 DEF FnLog
<1>8. CASE StartRun
  <2>1. /\ file' = Resolved /\ mem' = Resolved /\ at' = "next"
        /\ progress' = [c \in Contracts |-> 0]
    BY <1>8 DEF StartRun, StoreNewState
  <2>2. \A e \in FnEvents, t \in Contracts : Resolved.log[e][t] = <<>>
    BY FnEventFacts DEF Resolved, NoLog, Targets
  <2> QED
    BY <2>1, <2>2 DEF FnLog
<1>9. CASE Develop
  BY <1>9, DevelopFacts DEF FnLog
<1>10. CASE UNCHANGED vars
  BY <1>10 DEF vars, proc, FnLog, Up, Target, Cur, El, Plan
<1> QED
  BY <1>1, <1>2, <1>3, <1>4, <1>5, <1>6, <1>7, <1>8, <1>9, <1>10, NextCases DEF CallStep

(* Contracts and calls on the chain are there to stay.                     *)
LEMMA ChainGrows ==
  ASSUME TypeOK, [Next]_vars
  PROVE  /\ \A i \in DOMAIN deployed : i \in DOMAIN deployed' /\ deployed'[i] = deployed[i]
         /\ \A a, c : IsAddressOf(a, c) => IsAddressOf(a, c)'
<1>1. \/ UNCHANGED deployed
      \/ \E d : deployed' = Append(deployed, d)
  BY NextCases, QuietFacts, FinishFacts
     DEF SendDeploy, StoreReceipt, RecordAddress, BeginEvent, BeginDeployFn, ReplayCall,
     CallStep, SendCall, SendRevertingCall, ConfirmCall, FinishEvent, FinishDeployFn, StartRun,
     Develop, Edit, Configure, vars, chain
<1>2. deployed \in Seq(Deployed)
  BY DEF TypeOK
<1>3. \A i \in DOMAIN deployed : i \in DOMAIN deployed' /\ deployed'[i] = deployed[i]
  BY <1>1, <1>2
<1> QED
  BY <1>3 DEF IsAddressOf

(* A contract with a deployFn that the process knows has an event of its   *)
(* own, which is running while the contract is.                            *)
LEMMA DeployFnRuns ==
  ASSUME TypeOK, Up, at \in {"call", "wait"}, El \in Contracts
  PROVE  El \in custom /\ Cur \in FnEvents
BY ShapeAssumption DEF TypeOK, Cur, FnEvents, ShapeAssumption

(* What the current element created stays the contract that is looked for. *)
LEMMA InFlightStep ==
  ASSUME TypeOK, Sync, FnLog, InFlight, [Next]_vars
  PROVE  InFlight'
<1>0. /\ deployed \in Seq(Deployed) /\ mem \in State /\ mem.code \in [Contracts -> Nat]
      /\ ci \in Nat \ {0} /\ Len(deployed) \in Nat
  BY DEF TypeOK, State
<1>1. CASE QuietStep \/ RecordAddress \/ FinishEvent \/ StartRun
  <2>1. Up' => at' = "next"
    BY <1>1, QuietFacts DEF RecordAddress, FinishEvent, StartRun, Advance
  <2> QED
    BY <2>1 DEF InFlight, Created
<1>2. CASE SendDeploy
  <2>1. /\ UNCHANGED <<mem, status, pos, custom>> /\ at' = "sent"
        /\ deployed' = Append(deployed, Creation(El)) /\ made' = Len(deployed) + 1
    BY <1>2 DEF SendDeploy, setup
  <2>2. El' = El
    BY <2>1 DEF El, Plan
  <2>3. made' \in DOMAIN deployed' /\ deployed'[made'] = Creation(El)
    BY <1>0, <2>1
  <2>4. MadeHere'
    BY <2>1, <2>2, <2>3 DEF MadeHere, IsAddressOf, Creation
  <2> QED
    BY <2>1, <2>4 DEF InFlight
<1>3. CASE StoreReceipt
  <2>1. /\ UNCHANGED <<made, deployed, status, pos, custom>> /\ at' = "mined"
        /\ mem' = [mem EXCEPT !.rcpt[El] = made] /\ Up /\ at = "sent"
    BY <1>3 DEF StoreReceipt, setup, chain
  <2>2. El' = El /\ mem'.code = mem.code /\ mem'.rcpt[El] = made
    <3>1. El \in Contracts /\ mem.rcpt \in [Contracts -> Nat]
      BY <2>1 DEF TypeOK, State
    <3> QED
      BY <1>0, <2>1, <3>1 DEF El, Plan, State
  <2>3. MadeHere
    BY <2>1 DEF InFlight, Created
  <2> QED
    BY <2>1, <2>2, <2>3 DEF InFlight, MadeHere, IsAddressOf
<1>4. CASE BeginEvent \/ BeginDeployFn
  <2>1. at' = "call" /\ ci' = 1 /\ UNCHANGED <<status, pos>> /\ Up
    BY <1>4 DEF BeginEvent, BeginDeployFn, AtContract, AtEvent, AtElement
  <2>2. ~Created'
    <3>1. TypeOK'
      BY TypeStep
    <3>2. Calls[Cur'] \in Seq(Targets)
      BY <2>1, <3>1, ShapeAssumption DEF TypeOK, Cur, ShapeAssumption, Up
    <3>3. Calls[Cur'] # <<>> => ~(1 > Len(Calls[Cur']))
      BY <3>2
    <3> QED
      BY <2>1, <3>3 DEF Created
  <2> QED
    BY <2>1, <2>2 DEF InFlight
<1>5. CASE ReplayCall
  <2>1. /\ Up /\ at = "call" /\ at' = "call" /\ El' = El /\ Target \in Contracts
        /\ Len(file.log[Cur][Target]) > progress[Target]
    BY <1>5, CallFacts DEF ReplayCall, CallLeft, Replays
  <2>2. Len(file.log[Cur][Target]) \in Nat /\ progress[Target] \in Nat
    <3>1. /\ file.log \in [Events -> [Targets -> Seq(Nat)]]
          /\ progress \in [Contracts -> Nat]
      BY DEF TypeOK, State
    <3>2. Cur \in Events /\ Target \in Targets
      BY <1>5, CallFacts
    <3>3. file.log[Cur][Target] \in Seq(Nat)
      BY <3>1, <3>2
    <3> QED
      BY <2>1, <3>1, <3>3
  <2>3. El \notin Contracts
    BY <2>1, <2>2, DeployFnRuns DEF FnLog
  <2> QED
    BY <2>1, <2>3 DEF InFlight, Created
<1>6. CASE SendCall
  <2>1. /\ Up /\ at' = "wait" /\ UNCHANGED <<mem, status, pos, ci>>
        /\ El' = El /\ Cur' = Cur /\ at = "call"
    BY <1>6, CallFacts DEF SendCall, CallLeft, CallStep
  <2>2. CASE Creates
    <3>1. PICK d : /\ d.contract = El /\ d.code = mem.code[El]
                   /\ deployed' = Append(deployed, d) /\ made' = Len(deployed) + 1
      <4> DEFINE e == [contract |-> El, code |-> mem.code[El], run |-> run, by |-> Cur,
                       args |-> [a \in Contracts |-> 0]]
      <4>1. deployed' = Append(deployed, e) /\ made' = Len(deployed) + 1
        BY <1>6, <2>2 DEF SendCall
      <4>2. e.contract = El /\ e.code = mem.code[El]
        OBVIOUS
      <4> QED
        BY <4>1, <4>2
    <3>2. made' \in DOMAIN deployed' /\ deployed'[made'].contract = El
          /\ deployed'[made'].code = mem.code[El]
      BY <1>0, <3>1
    <3> QED
      BY <2>1, <3>2 DEF InFlight, MadeHere, IsAddressOf
  <2>3. CASE ~Creates
    BY <2>1, <2>3 DEF InFlight, Created, Creates
  <2> QED
    BY <2>2, <2>3
<1>7. CASE SendRevertingCall
  BY <1>7 DEF SendRevertingCall, InFlight, Created
<1>8. CASE ConfirmCall
  <2>1. /\ Up /\ at = "wait" /\ at' = "call" /\ ci' = ci + 1 /\ receipt # 0
        /\ El' = El /\ Cur' = Cur /\ UNCHANGED <<mem, made, deployed>>
        /\ ci \in DOMAIN Calls[Cur] /\ Cur \in Events
    BY <1>8, CallFacts DEF ConfirmCall, CallStep, chain
  <2>2. Created' => Created
    <3>1. Calls[Cur] \in Seq(Targets)
      BY <2>1, ShapeAssumption DEF ShapeAssumption
    <3>2. ci + 1 > Len(Calls[Cur]) => ci = Len(Calls[Cur])
      BY <1>0, <2>1, <3>1
    <3> QED
      BY <2>1, <3>2 DEF Created
  <2> QED
    BY <2>1, <2>2 DEF InFlight, MadeHere, IsAddressOf
<1>9. CASE FinishDeployFn
  <2>1. /\ Up /\ at = "call" /\ Created /\ El' = El /\ at' = "mined"
        /\ El \in Contracts /\ UNCHANGED <<made, deployed, custom>>
    BY <1>9 DEF FinishDeployFn, Created, El, Plan, chain, setup
  <2>2. El \in custom /\ mem'.code = mem.code
    BY <1>9, <2>1, DeployFnRuns, FinishFacts
  <2> QED
    BY <2>1, <2>2 DEF InFlight, MadeHere, IsAddressOf
<1>10. CASE Develop
  BY <1>10, DevelopFacts DEF InFlight
<1>11. CASE UNCHANGED vars
  BY <1>11 DEF vars, proc, chain, setup, input, InFlight, Created, MadeHere, IsAddressOf,
     Up, Cur, El, Plan
<1> QED
  BY <1>1, <1>2, <1>3, <1>4, <1>5, <1>6, <1>7, <1>8, <1>9, <1>10, <1>11, NextCases
     DEF CallStep

(* The bytecode of a run does not change while it runs.                    *)
LEMMA InRun ==
  ASSUME TypeOK, Sync, [Next]_vars, ~StartRun
  PROVE  run' = run /\ mem'.code = mem.code
<1>1. CASE QuietStep
  BY <1>1, QuietFacts
<1>2. CASE SendDeploy \/ BeginEvent \/ BeginDeployFn
  BY <1>2 DEF SendDeploy, BeginEvent, BeginDeployFn, setup
<1>3. CASE StoreReceipt \/ RecordAddress
  BY <1>3, StoreFacts DEF StoreReceipt, RecordAddress, setup
<1>4. CASE ReplayCall \/ CallStep
  BY <1>4, CallFacts
<1>5. CASE FinishEvent \/ FinishDeployFn
  BY <1>5, FinishFacts DEF setup
<1>6. CASE Develop \/ UNCHANGED vars
  BY <1>6, DevelopFacts DEF vars, proc
<1> QED
  BY <1>1, <1>2, <1>3, <1>4, <1>5, <1>6, NextCases

(* The addresses on record, by which RecordedAddressesExist speaks of the  *)
(* file and of the memory.                                                 *)
Right(s, c) == s.addr[c] # 0 => /\ IsAddressOf(s.addr[c], c)
                                /\ deployed[s.addr[c]].code = s.code[c]
                                /\ FnEvent[c] = NoEvent => s.rcpt[c] = s.addr[c]

LEMMA RecordedStep ==
  ASSUME TypeOK, Sync, Place, InFlight, RecordedAddressesExist, [Next]_vars
  PROVE  RecordedAddressesExist'
<1>0. \A c \in Contracts : Right(file, c) /\ Right(mem, c)
  BY DEF RecordedAddressesExist, Right
<1>1. /\ \A i \in DOMAIN deployed : i \in DOMAIN deployed' /\ deployed'[i] = deployed[i]
      /\ \A a, c : IsAddressOf(a, c) => IsAddressOf(a, c)' /\ a \in DOMAIN deployed
  BY ChainGrows DEF IsAddressOf
<1>2. SUFFICES \A c \in Contracts : Right(file, c)' /\ Right(mem, c)'
  BY DEF RecordedAddressesExist, Right
<1>3. ASSUME NEW c \in Contracts,
             file'.addr[c] = file.addr[c], file'.code[c] = file.code[c],
             file'.rcpt[c] = file.rcpt[c],
             mem'.addr[c] = mem.addr[c], mem'.code[c] = mem.code[c],
             mem'.rcpt[c] = mem.rcpt[c]
      PROVE  Right(file, c)' /\ Right(mem, c)'
  BY <1>0, <1>1, <1>3 DEF Right
<1>4. CASE QuietStep
  BY <1>3, <1>4, QuietFacts
<1>5. CASE SendDeploy \/ BeginEvent \/ BeginDeployFn
  BY <1>3, <1>5 DEF SendDeploy, BeginEvent, BeginDeployFn
<1>6. CASE StoreReceipt \/ RecordAddress
  <2>1. /\ El \in Contracts /\ Up /\ mem.addr[El] = 0 /\ at \in {"sent", "mined"}
        /\ file'.code = mem'.code /\ file'.addr = mem'.addr /\ file'.rcpt = mem'.rcpt
        /\ mem'.code = mem.code
    BY <1>6, StoreFacts DEF Place
  <2>2. SUFFICES \A c \in Contracts : Right(mem, c)'
    BY <2>1 DEF Right
  <2>3. /\ mem \in State /\ mem.addr \in [Contracts -> Nat] /\ mem.rcpt \in [Contracts -> Nat]
    BY DEF TypeOK, State
  <2>4. CASE StoreReceipt
    <3>1. mem'.addr = mem.addr /\ mem'.rcpt = [mem.rcpt EXCEPT ![El] = made]
      BY <2>3, <2>4 DEF StoreReceipt, State
    <3> QED
      BY <1>0, <1>1, <2>1, <2>3, <3>1 DEF Right
  <2>5. CASE RecordAddress
    <3>1. mem'.rcpt = mem.rcpt /\ mem'.addr = [mem.addr EXCEPT ![El] = made]
      BY <2>3, <2>5 DEF RecordAddress, State
    <3>2. at = "mined" /\ MadeHere /\ (El \notin custom => mem.rcpt[El] = made)
      BY <2>5 DEF RecordAddress, InFlight, Created
    <3>3. FnEvent[El] = NoEvent => El \notin custom
      BY DEF TypeOK
    <3>4. ASSUME NEW c \in Contracts, c = El PROVE Right(mem, c)'
      BY <1>1, <2>1, <2>3, <3>1, <3>2, <3>3, <3>4 DEF Right, MadeHere
    <3>5. ASSUME NEW c \in Contracts, c # El PROVE Right(mem, c)'
      BY <1>0, <1>1, <2>1, <2>3, <3>1, <3>5 DEF Right
    <3> QED
      BY <3>4, <3>5
  <2> QED
    BY <1>6, <2>4, <2>5
<1>7. CASE ReplayCall \/ ConfirmCall
  BY <1>3, <1>7, LogFacts, CallFacts DEF CallStep
<1>8. CASE SendCall \/ SendRevertingCall
  BY <1>3, <1>8 DEF SendCall, SendRevertingCall
<1>9. CASE FinishEvent \/ FinishDeployFn
  <2>1. /\ Up /\ file' = mem'
        /\ mem'.code = mem.code /\ mem'.addr = mem.addr /\ mem'.rcpt = mem.rcpt
    BY <1>9, FinishFacts
  <2> QED
    BY <1>3, <2>1 DEF Sync
<1>10. CASE StartRun
  <2>1. mem' = Resolved /\ file' = Resolved /\ UNCHANGED deployed
    BY <1>10 DEF StartRun, StoreNewState, chain
  <2>2. ASSUME NEW c \in Contracts, Resolved.addr[c] # 0
        PROVE  /\ Resolved.addr[c] = file.addr[c] /\ Resolved.code[c] = file.code[c]
               /\ Resolved.rcpt[c] = file.rcpt[c]
    BY <2>2 DEF Resolved, Kept, Fresh
  <2> QED
    BY <1>0, <1>1, <2>1, <2>2 DEF Right
<1>11. CASE Develop \/ UNCHANGED vars
  BY <1>3, <1>11, DevelopFacts DEF vars, proc
<1> QED
  BY <1>4, <1>5, <1>6, <1>7, <1>8, <1>9, <1>10, <1>11, NextCases DEF CallStep

(* The three ways the list of creations changes.                           *)
LEMMA Creations ==
  ASSUME TypeOK, [Next]_vars
  PROVE  \/ UNCHANGED deployed
         \/ SendDeploy /\ deployed' = Append(deployed, Creation(El))
         \/ SendCall /\ \E d : /\ deployed' = Append(deployed, d)
                               /\ d.by = Cur /\ d.run = run
<1>1. CASE SendCall
  <2> DEFINE d == [contract |-> El, code |-> mem.code[El], run |-> run, by |-> Cur,
                   args |-> [a \in Contracts |-> 0]]
  <2>1. UNCHANGED deployed \/ deployed' = Append(deployed, d)
    BY <1>1 DEF SendCall
  <2>2. d.by = Cur /\ d.run = run
    OBVIOUS
  <2> QED
    BY <1>1, <2>1, <2>2
<1>2. CASE SendDeploy
  BY <1>2 DEF SendDeploy
<1>3. CASE ~SendCall /\ ~SendDeploy
  BY <1>3, NextCases, QuietFacts, FinishFacts
     DEF StoreReceipt, RecordAddress, BeginEvent, BeginDeployFn, ReplayCall,
     CallStep, SendRevertingCall, ConfirmCall, FinishEvent, FinishDeployFn, StartRun,
     Develop, Edit, Configure, vars, chain
<1> QED
  BY <1>1, <1>2, <1>3

LEMMA HistoryStep ==
  ASSUME TypeOK, Sync, History, [Next]_vars
  PROVE  History'
<1>1. deployed \in Seq(Deployed) /\ run \in Nat
  BY DEF TypeOK
<1>2. run' \in Nat /\ run' >= run
  <2>1. CASE StartRun
    BY <1>1, <2>1 DEF StartRun
  <2>2. CASE ~StartRun
    BY <1>1, <2>2, InRun
  <2> QED
    BY <2>1, <2>2
<1>3. \A i \in DOMAIN deployed' : i \notin DOMAIN deployed =>
        deployed'[i].run = run
  BY <1>1, Creations DEF Creation
<1>4. \A i \in DOMAIN deployed : deployed'[i] = deployed[i] /\ deployed[i].run \in Nat
  <2>1. \A i \in DOMAIN deployed : deployed'[i] = deployed[i]
    BY ChainGrows
  <2>2. \A i \in DOMAIN deployed : deployed[i] \in Deployed
    BY <1>1
  <2> QED
    BY <2>1, <2>2 DEF Deployed
<1> QED
  BY <1>1, <1>2, <1>3, <1>4 DEF History

(* The two halves of WiredCorrectly: creations and calls.                  *)
WiredAt(i) ==
  LET d == deployed[i] IN
  d.by = NoEvent =>
    \A a \in Args[d.contract] \cup Libs[d.contract] :
      /\ IsAddressOf(d.args[a], a) /\ d.args[a] < i
      /\ d.run = run => deployed[d.args[a]].code = mem.code[a]
CalledRight(call) ==
  LET t == Calls[call.event][call.index] IN t \in Contracts => IsAddressOf(call.to, t)

LEMMA CreationsWired ==
  ASSUME TypeOK, Sync, History, RecordedAddressesExist, WiredCorrectly, [Next]_vars
  PROVE  \A i \in DOMAIN deployed' : WiredAt(i)'
<1>1. /\ deployed \in Seq(Deployed) /\ run \in Nat /\ mem.code \in [Contracts -> Nat]
      /\ mem.addr \in [Contracts -> Nat]
  BY DEF TypeOK, State
<1>2. /\ \A i \in DOMAIN deployed : i \in DOMAIN deployed' /\ deployed'[i] = deployed[i]
      /\ \A a, c : IsAddressOf(a, c) => IsAddressOf(a, c)' /\ a \in DOMAIN deployed
  BY ChainGrows DEF IsAddressOf
<1>3. \A i \in DOMAIN deployed : WiredAt(i)
  BY DEF WiredCorrectly, WiredAt
<1>4. \A i \in DOMAIN deployed : deployed[i].run \in Nat /\ deployed[i].run <= run
  <2>1. \A i \in DOMAIN deployed : deployed[i] \in Deployed
    BY <1>1
  <2> QED
    BY <2>1 DEF History, Deployed
<1>5. \/ run' = run /\ mem'.code = mem.code
      \/ run' = run + 1
  BY InRun DEF StartRun
<1>6. ASSUME NEW i \in DOMAIN deployed PROVE WiredAt(i)'
  <2>1. deployed'[i] = deployed[i] /\ WiredAt(i)
    BY <1>2, <1>3
  <2>2. CASE run' = run + 1
    <3>1. deployed[i].run # run'
      BY <1>1, <1>4, <2>2
    <3> QED
      BY <1>2, <2>1, <3>1 DEF WiredAt
  <2>3. CASE run' = run /\ mem'.code = mem.code
    BY <1>2, <2>1, <2>3 DEF WiredAt
  <2> QED
    BY <1>5, <2>2, <2>3
<1>7. ASSUME NEW i \in DOMAIN deployed', i \notin DOMAIN deployed PROVE WiredAt(i)'
  <2>1. CASE SendDeploy /\ deployed' = Append(deployed, Creation(El))
    <3>1. i = Len(deployed) + 1 /\ deployed'[i] = Creation(El)
      BY <1>1, <1>7, <2>1
    <3>2. Linkable(El) /\ El \in Contracts /\ mem' = mem
      BY <2>1 DEF SendDeploy, AtContract
    <3>3. Args[El] \subseteq Contracts /\ Libs[El] \subseteq Contracts
      BY <3>2, ShapeAssumption DEF ShapeAssumption
    <3>4. ASSUME NEW a \in Args[El] \cup Libs[El]
          PROVE  /\ deployed'[i].args[a] = mem.addr[a]
                 /\ IsAddressOf(mem.addr[a], a) /\ deployed[mem.addr[a]].code = mem.code[a]
                 /\ mem.addr[a] < i
      <4>1. a \in Contracts /\ mem.addr[a] # 0
        BY <3>2, <3>3 DEF Linkable
      <4>2. IsAddressOf(mem.addr[a], a) /\ deployed[mem.addr[a]].code = mem.code[a]
        BY <4>1 DEF RecordedAddressesExist
      <4>3. mem.addr[a] < i
        BY <1>1, <3>1, <4>2 DEF IsAddressOf
      <4> QED
        BY <3>1, <4>1, <4>2, <4>3 DEF Creation
    <3>5. deployed'[i].contract = El
      BY <3>1 DEF Creation
    <3> QED
      BY <1>2, <3>2, <3>4, <3>5 DEF WiredAt
  <2>2. CASE SendCall /\ \E d : deployed' = Append(deployed, d) /\ d.by = Cur /\ d.run = run
    <3>1. deployed'[i].by = Cur
      BY <1>1, <1>7, <2>2
    <3>2. Cur \in Events /\ NoEvent \notin Events
      BY <2>2, CallFacts, ShapeAssumption DEF CallStep, ShapeAssumption
    <3> QED
      BY <3>1, <3>2 DEF WiredAt
  <2> QED
    BY <1>7, <2>1, <2>2, Creations
<1> QED
  BY <1>6, <1>7

LEMMA CallsWired ==
  ASSUME TypeOK, RecordedAddressesExist, WiredCorrectly, [Next]_vars
  PROVE  \A j \in DOMAIN calls' : CalledRight(calls[j])'
<1>1. calls \in Seq(Called)
  BY DEF TypeOK
<1>2. \A a, c : IsAddressOf(a, c) => IsAddressOf(a, c)'
  BY ChainGrows
<1>3. \A j \in DOMAIN calls : CalledRight(calls[j])
  BY DEF WiredCorrectly, CalledRight
<1>4. CASE SendCall
  <2> DEFINE k == [event |-> Cur, index |-> ci, run |-> run,
                   to |-> IF Target \in Contracts THEN mem.addr[Target] ELSE 0]
  <2>1. calls' = Append(calls, k)
    BY <1>4 DEF SendCall
  <2>2. Target \in Contracts => IsAddressOf(mem.addr[Target], Target)
    BY <1>4 DEF SendCall, Callable, RecordedAddressesExist
  <2>3. CalledRight(k)
    BY <2>2 DEF CalledRight, Target
  <2>4. \A j \in DOMAIN calls' : CalledRight(calls'[j])
    <3> HIDE DEF k
    <3> QED
      BY <1>1, <1>3, <2>1, <2>3
  <2> QED
    BY <1>2, <2>4 DEF CalledRight
<1>5. CASE ~SendCall
  <2>1. UNCHANGED calls
    BY <1>5, NextCases, QuietFacts, FinishFacts
       DEF SendDeploy, StoreReceipt, RecordAddress, BeginEvent, BeginDeployFn, ReplayCall,
       CallStep, SendRevertingCall, ConfirmCall, StartRun, Develop, Edit, Configure, vars, chain
  <2> QED
    BY <1>2, <1>3, <2>1 DEF CalledRight
<1> QED
  BY <1>4, <1>5

LEMMA WiredStep ==
  ASSUME TypeOK, Sync, History, RecordedAddressesExist, WiredCorrectly, [Next]_vars
  PROVE  WiredCorrectly'
BY CreationsWired, CallsWired DEF WiredCorrectly, WiredAt, CalledRight

(* What lies before the current element stays done.                        *)
Behind(i) == IF Order[i] \in Contracts THEN mem.addr[Order[i]] # 0 \/ Order[i] \in skip
                                       ELSE Order[i] \in mem.done

LEMMA ProgressStep ==
  ASSUME TypeOK, Sync, InFlight, Progress, [Next]_vars
  PROVE  Progress'
<1>0. /\ pos \in Nat \ {0} /\ Order \in Seq(Elements)
      /\ mem \in State /\ mem.addr \in [Contracts -> Nat]
      /\ \A i \in DOMAIN Order : i \in Nat /\ Order[i] \in Contracts \cup Events
  BY ShapeAssumption DEF TypeOK, State, ShapeAssumption, Elements
<1>1. SUFFICES ASSUME status' = "running", NEW i \in DOMAIN Order, i < pos'
               PROVE  Behind(i)'
  BY DEF Progress, Behind
<1>2. status = "running" => /\ (i < pos => Behind(i))
                            /\ El = Order[pos]
  BY DEF Progress, Behind, El, Plan
<1>3. CASE UNCHANGED <<mem, skip, status, pos>>
  BY <1>1, <1>2, <1>3 DEF Behind
<1>4. CASE pos' = pos + 1 /\ mem' = mem /\ skip' = skip /\ (SkipContract \/ SkipEvent)
  <2>1. status = "running" /\ Behind(pos)
    BY <1>0, <1>1, <1>2, <1>4, ShapeAssumption
       DEF SkipContract, SkipEvent, AtContract, AtEvent, Behind, ShapeAssumption
  <2>2. i < pos \/ i = pos
    BY <1>0, <1>1, <1>4
  <2> QED
    BY <1>2, <1>4, <2>1, <2>2 DEF Behind
<1>5. CASE QuietStep
  <2>1. SkipContract \/ SkipEvent
    BY <1>1, <1>5
       DEF QuietStep, EndRun, NotLinkable, DeployFails, WaitFails, DepsMissing, NotCallable,
           CallWaitFails, FunctionThrows, DeployFnSentNothing, RejectCall, Crash, Throw
  <2> QED
    BY <1>1, <1>4, <1>5, <2>1, QuietFacts
<1>6. CASE SendDeploy \/ BeginEvent \/ BeginDeployFn
  BY <1>3, <1>6 DEF SendDeploy, BeginEvent, BeginDeployFn, setup, input
<1>7. CASE CallStep \/ ReplayCall
  BY <1>3, <1>7, CallFacts
<1>8. CASE StoreReceipt
  <2>1. mem'.addr = mem.addr /\ mem'.done = mem.done /\ UNCHANGED <<skip, status, pos>>
    BY <1>0, <1>8 DEF StoreReceipt, State, setup, input
  <2> QED
    BY <1>1, <1>2, <2>1 DEF Behind
<1>9. CASE RecordAddress
  <2>1. /\ El \in Contracts /\ Up /\ at = "mined" /\ status = "running" /\ pos' = pos + 1
        /\ UNCHANGED skip
    BY <1>1, <1>9 DEF RecordAddress, TypeOK, Advance, setup, input
  <2>2. made # 0 /\ made \in Nat
    <3>1. MadeHere /\ deployed \in Seq(Deployed)
      BY <2>1 DEF InFlight, Created, TypeOK
    <3> QED
      BY <3>1 DEF MadeHere, IsAddressOf
  <2>3. mem'.addr = [mem.addr EXCEPT ![El] = made] /\ mem'.done = mem.done
    BY <1>0, <1>9 DEF RecordAddress, State
  <2>4. i < pos \/ i = pos
    BY <1>0, <1>1, <2>1
  <2> QED
    BY <1>0, <1>2, <2>1, <2>2, <2>3, <2>4 DEF Behind
<1>10. CASE FinishEvent
  <2>1. /\ status = "running" /\ pos' = pos + 1 /\ UNCHANGED skip /\ Cur = El /\ El \in Events
    BY <1>1, <1>10 DEF FinishEvent, Advance, setup, input, Cur
  <2>2. mem'.addr = mem.addr /\ mem'.done = mem.done \cup {El}
    BY <1>10, <2>1, FinishFacts
  <2>3. i < pos \/ i = pos
    BY <1>0, <1>1, <2>1
  <2> QED
    BY <1>0, <1>2, <2>1, <2>2, <2>3, ShapeAssumption DEF Behind, ShapeAssumption
<1>11. CASE FinishDeployFn
  <2>1. /\ UNCHANGED <<skip, status, pos>>
        /\ mem'.addr = mem.addr /\ mem'.done = mem.done \cup {Cur}
    BY <1>11, FinishFacts DEF FinishDeployFn, setup, input
  <2> QED
    BY <1>1, <1>2, <2>1 DEF Behind
<1>12. CASE StartRun
  BY <1>0, <1>1, <1>12 DEF StartRun
<1>13. CASE Develop
  BY <1>1, <1>13, DevelopFacts
<1>14. CASE UNCHANGED vars
  BY <1>3, <1>14 DEF vars, proc, input
<1> QED
  BY <1>5, <1>6, <1>7, <1>8, <1>9, <1>10, <1>11, <1>12, <1>13, <1>14, NextCases

(* An error comes from an element that is not done.                        *)
LEMMA ThrowsUnfinished ==
  ASSUME TypeOK, Place, QuietStep, status = "running", status' = "failing"
  PROVE  /\ pos \in DOMAIN Order /\ El = Order[pos]
         /\ IF El \in Contracts THEN mem.addr[El] = 0 ELSE El \notin mem.done
<1>1. El = Order[pos] /\ Plan = Order /\ Up /\ pos \in Nat \ {0} /\ Order \in Seq(Elements)
  BY ShapeAssumption DEF El, Plan, Up, TypeOK, ShapeAssumption
<1>2. CASE NotLinkable \/ DeployFails
  BY <1>1, <1>2 DEF NotLinkable, DeployFails, AtContract, AtElement, ToDeploy
<1>3. CASE DepsMissing
  BY <1>1, <1>3, ShapeAssumption DEF DepsMissing, AtEvent, AtElement, ShapeAssumption
<1>4. CASE WaitFails \/ NotCallable \/ CallWaitFails \/ FunctionThrows
           \/ DeployFnSentNothing \/ RejectCall
  <2>1. at # "next"
    BY <1>4 DEF WaitFails, NotCallable, CallWaitFails, FunctionThrows, DeployFnSentNothing,
       RejectCall, CallLeft
  <2> QED
    BY <1>1, <2>1 DEF TypeOK, Place
<1>5. ~EndRun /\ ~SkipContract /\ ~SkipEvent /\ ~Crash
  BY DEF EndRun, SkipContract, SkipEvent, Crash
<1> QED
  BY <1>2, <1>3, <1>4, <1>5 DEF QuietStep

LEMMA FailedStep ==
  ASSUME TypeOK, Sync, Place, FailedAtSomething, [Next]_vars
  PROVE  FailedAtSomething'
<1>1. SUFFICES ASSUME status' = "failing" PROVE Unfinished(mem)'
  BY DEF FailedAtSomething
<1>2. CASE mem' = mem /\ status = "failing"
  BY <1>2 DEF FailedAtSomething, Unfinished
<1>3. CASE QuietStep
  <2>1. mem' = mem
    BY <1>3, QuietFacts
  <2>2. CASE status = "running"
    <3>1. El \in Members(Order)
          /\ IF El \in Contracts THEN mem.addr[El] = 0 ELSE El \notin mem.done
      BY <1>1, <1>3, <2>2, ThrowsUnfinished DEF Members
    <3>2. El \in Contracts \/ El \in Events
      BY <3>1, ShapeAssumption DEF Members, ShapeAssumption, Elements
    <3>3. Unfinished(mem)
      BY <3>1, <3>2 DEF Unfinished
    <3> QED
      BY <2>1, <3>3 DEF Unfinished
  <2>3. status \in {"running", "failing"}
    BY <1>3, QuietFacts DEF Up
  <2> QED
    BY <1>2, <2>1, <2>2, <2>3
<1>4. CASE SendDeploy \/ BeginEvent \/ BeginDeployFn
  BY <1>1, <1>2, <1>4 DEF SendDeploy, BeginEvent, BeginDeployFn
<1>5. CASE CallStep \/ ReplayCall
  BY <1>1, <1>2, <1>5, CallFacts
<1>6. CASE StoreReceipt \/ RecordAddress \/ FinishDeployFn
  <2>1. /\ Up /\ at # "next" /\ El \in Contracts /\ status = "failing"
    BY <1>1, <1>6 DEF StoreReceipt, RecordAddress, FinishDeployFn, Advance, TypeOK
  <2>2. El \in Events
    BY <2>1, PlanElements DEF TypeOK
  <2> QED
    BY <2>1, <2>2, ShapeAssumption DEF ShapeAssumption
<1>7. CASE FinishEvent
  <2>1. Up /\ at = "call" /\ status = "failing" /\ Cur = El
    BY <1>1, <1>7 DEF FinishEvent, Cur
  <2>2. El \in Members(OnFail)
    BY <2>1 DEF TypeOK, El, Plan, Members
  <2>3. El \notin Members(Order)
    BY <2>2, ShapeAssumption DEF ShapeAssumption
  <2>4. mem'.addr = mem.addr /\ mem'.done = mem.done \cup {El}
    BY <1>7, <2>1, FinishFacts
  <2> QED
    BY <2>1, <2>3, <2>4 DEF FailedAtSomething, Unfinished
<1>8. CASE StartRun \/ Develop
  BY <1>1, <1>8, DevelopFacts DEF StartRun
<1>9. CASE UNCHANGED vars
  BY <1>1, <1>2, <1>9 DEF vars, proc
<1> QED
  BY <1>3, <1>4, <1>5, <1>6, <1>7, <1>8, <1>9, NextCases

LEMMA InductiveInit == Init => Inductive
<1> SUFFICES ASSUME Init PROVE Inductive
  OBVIOUS
<1>1. TypeOK
  BY InitType
<1>2. status = "idle" /\ ~Up /\ deployed = <<>> /\ calls = <<>>
      /\ file = EmptyState /\ mem = EmptyState
  BY DEF Init, Up
<1>3. \A c \in Contracts : file.addr[c] = 0 /\ mem.addr[c] = 0
  BY <1>2 DEF EmptyState
<1> QED
  BY <1>1, <1>2, <1>3 DEF Inductive, Sync, Place, FnLog, InFlight, History, Progress,
     FailedAtSomething, RecordedAddressesExist, WiredCorrectly

LEMMA InductiveStep == Inductive /\ [Next]_vars => Inductive'
BY TypeStep, SyncStep, PlaceStep, FnLogStep, InFlightStep, HistoryStep, ProgressStep,
   FailedStep, RecordedStep, WiredStep DEF Inductive

(* Everything Inductive says holds in every state: of the types, of file   *)
(* and memory in the middle of a run, of what is in flight, of addresses.  *)
THEOREM InductiveInvariant == Spec => []Inductive
BY InductiveInit, InductiveStep, PTL DEF Spec

(* Between two elements the state file is the memory of the process.       *)
THEOREM StaysInSync == Spec => []FileInSync
<1>1. Inductive => FileInSync
  <2> SUFFICES ASSUME Inductive, status = "running", at = "next" PROVE file = mem
    BY DEF FileInSync
  <2>1. file \in State /\ mem \in State /\ Up
    BY DEF Inductive, TypeOK, Up
  <2>2. /\ file.code = mem.code /\ file.addr = mem.addr /\ file.rcpt = mem.rcpt
        /\ file.done = mem.done /\ \A e \in Events : file.log[e] = mem.log[e]
    BY <2>1 DEF Inductive, Sync
  <2>3. /\ file.log \in [Events -> [Targets -> Seq(Nat)]]
        /\ mem.log \in [Events -> [Targets -> Seq(Nat)]]
    BY <2>1 DEF State
  <2>4. file.log = mem.log
    BY <2>2, <2>3
  <2>5. \A s \in State : s = [code |-> s.code, addr |-> s.addr, rcpt |-> s.rcpt,
                             done |-> s.done, log |-> s.log]
    BY DEF State
  <2> QED
    BY <2>1, <2>2, <2>4, <2>5
<1> QED
  BY <1>1, InductiveInvariant, PTL

(* Addresses on record are those of instances of the right contract and    *)
(* bytecode.                                                               *)
THEOREM AddressesExist == Spec => []RecordedAddressesExist
<1>1. Inductive => RecordedAddressesExist
  BY DEF Inductive
<1> QED
  BY <1>1, InductiveInvariant, PTL

(* Contracts are created and called with the addresses of instances of the *)
(* contracts they name.                                                    *)
THEOREM Wired == Spec => []WiredCorrectly
<1>1. Inductive => WiredCorrectly
  BY DEF Inductive
<1> QED
  BY <1>1, InductiveInvariant, PTL

(* How a step of a run changes the addresses and the executed hooks on     *)
(* file.                                                                   *)
LEMMA FileSteps ==
  ASSUME Inductive, [Next]_vars
  PROVE  \/ UNCHANGED file
         \/ (ReplayCall \/ ConfirmCall) /\ file'.addr = file.addr /\ file'.done = file.done
         \/ /\ StoreReceipt \/ RecordAddress
            /\ Up /\ El \in Contracts /\ file.addr[El] = 0 /\ file'.done = file.done
            /\ \A c \in Contracts : c # El => file'.addr[c] = file.addr[c]
         \/ /\ FinishEvent \/ FinishDeployFn
            /\ file'.addr = file.addr /\ file.done \subseteq file'.done
         \/ StartRun
<1>0. TypeOK /\ Sync /\ Place /\ mem \in State /\ mem.addr \in [Contracts -> Nat]
  BY DEF Inductive, TypeOK, State
<1>1. CASE QuietStep \/ Develop
  BY <1>1, QuietFacts, DevelopFacts
<1>2. CASE SendDeploy \/ BeginEvent \/ BeginDeployFn \/ SendCall \/ SendRevertingCall
  BY <1>2 DEF SendDeploy, BeginEvent, BeginDeployFn, SendCall, SendRevertingCall
<1>3. CASE ReplayCall \/ ConfirmCall
  BY <1>0, <1>3, LogFacts
<1>4. CASE StoreReceipt \/ RecordAddress
  <2>1. /\ Up /\ El \in Contracts /\ at \in {"sent", "mined"}
        /\ file'.addr = mem'.addr /\ file'.done = file.done
    BY <1>0, <1>4, StoreFacts
  <2>2. file.addr = mem.addr /\ mem.addr[El] = 0
    BY <1>0, <2>1 DEF Sync, Place
  <2>3. mem'.addr = mem.addr \/ mem'.addr = [mem.addr EXCEPT ![El] = made]
    BY <1>0, <1>4 DEF StoreReceipt, RecordAddress, State
  <2> QED
    BY <1>0, <1>4, <2>1, <2>2, <2>3
<1>5. CASE FinishEvent \/ FinishDeployFn
  <2>1. /\ Up /\ file' = mem' /\ mem'.addr = mem.addr /\ mem'.done = mem.done \cup {Cur}
    BY <1>0, <1>5, FinishFacts
  <2>2. file.addr = mem.addr /\ file.done = mem.done
    BY <1>0, <2>1 DEF Sync
  <2> QED
    BY <1>5, <2>1, <2>2
<1>6. CASE UNCHANGED vars
  BY <1>6 DEF vars
<1> QED
  BY <1>1, <1>2, <1>3, <1>4, <1>5, <1>6, NextCases DEF CallStep

(* No write of a run loses an address or an executed hook.                 *)
THEOREM NeverForgets == Spec => RunNeverForgets
<1>1. ASSUME Inductive, [Next]_vars, run' = run
      PROVE  /\ \A c \in Contracts : file.addr[c] # 0 => file'.addr[c] = file.addr[c]
             /\ file.done \subseteq file'.done
  <2>1. ~StartRun
    BY <1>1 DEF StartRun, Inductive, TypeOK
  <2> QED
    BY <1>1, <2>1, FileSteps
<1>2. Inductive /\ [Next]_vars =>
        [run' = run => /\ \A c \in Contracts : file.addr[c] # 0 => file'.addr[c] = file.addr[c]
                       /\ file.done \subseteq file'.done]_vars
  BY <1>1
<1> QED
  BY <1>2, InductiveInvariant, PTL DEF Spec, RunNeverForgets

(* A run that reports success left nothing undone.                         *)
THEOREM SuccessIsComplete == Spec => DoneMeansDeployed
<1>1. ASSUME Inductive, [Next]_vars, status # "done", status' = "done"
      PROVE  /\ \A c \in Contracts \ skip : file.addr[c] # 0
             /\ Members(Order) \cap Events \subseteq file.done
  <2>1. EndRun
    <3>1. QuietStep
      BY <1>1, NextCases, DevelopFacts, CallFacts, FinishFacts, StoreFacts
         DEF SendDeploy, BeginEvent, BeginDeployFn, StoreReceipt, RecordAddress,
             StartRun, vars, proc, Inductive
    <3> QED
      BY <1>1, <3>1
         DEF QuietStep, SkipContract, NotLinkable, DeployFails, WaitFails, SkipEvent,
             DepsMissing, NotCallable, CallWaitFails, FunctionThrows, DeployFnSentNothing,
             RejectCall, Crash, Throw
  <2>2. status = "running" /\ pos > Len(Order) /\ Order \in Seq(Elements) /\ pos \in Nat
    BY <1>1, <2>1, ShapeAssumption DEF EndRun, Plan, ShapeAssumption, Inductive, TypeOK, Up
  <2>3. \A i \in DOMAIN Order : IF Order[i] \in Contracts
                                THEN mem.addr[Order[i]] # 0 \/ Order[i] \in skip
                                ELSE Order[i] \in mem.done
    <3>1. \A i \in DOMAIN Order : i < pos
      BY <2>2
    <3> QED
      BY <1>1, <2>2, <3>1 DEF Inductive, Progress
  <2>4. file.addr = mem.addr /\ file.done = mem.done
    BY <1>1, <2>2 DEF Inductive, Sync, Up
  <2> QED
    BY <2>3, <2>4, ShapeAssumption DEF Members, ShapeAssumption
<1>2. Inductive /\ [Next]_vars =>
        [status # "done" /\ status' = "done" =>
           /\ \A c \in Contracts \ skip : file.addr[c] # 0
           /\ Members(Order) \cap Events \subseteq file.done]_vars
  BY <1>1
<1> QED
  BY <1>2, InductiveInvariant, PTL DEF Spec, DoneMeansDeployed

(* Resolving a complete state file changes no address and no hook.         *)
LEMMA CompleteResolved ==
  ASSUME Complete
  PROVE  Resolved.code = code /\ (\A c \in Contracts : Resolved.addr[c] = file.addr[c])
         /\ Members(Order) \cap Events \subseteq Resolved.done
<1>1. Fresh = {} /\ Kept = Contracts
  BY DEF Complete, Fresh, Kept
<1>2. ArgsForgotten({})
  BY <1>1 DEF ArgsForgotten
<1>3. Invalidated = {}
  BY <1>2 DEF Invalidated
<1>4. ResetEvents = {}
  BY <1>1, <1>3 DEF ResetEvents, Redone
<1> QED
  BY <1>1, <1>3, <1>4 DEF Resolved, Complete

(* Deploying again what is deployed creates no contract, sends nothing for *)
(* one and loses nothing: the code does not even run the hooks of the      *)
(* module again (<2>5), which the property leaves open.                    *)
THEOREM RerunIsSilent == Spec => RerunSendsNothing
<1>1. ASSUME Inductive, Complete, [Next]_vars
      PROVE  /\ deployed' = deployed
             /\ \A j \in DOMAIN calls' \ DOMAIN calls : ModuleHook(calls'[j].event)
             /\ code' = code => Complete'
  <2>1. status # "failing"
    BY <1>1 DEF Inductive, FailedAtSomething, Unfinished, Complete, Sync, Up
  <2>2. ASSUME Up, El \in Contracts \cup Events, pos \in DOMAIN Plan
        PROVE  IF El \in Contracts THEN mem.addr[El] # 0 ELSE El \in mem.done
    <3>1. El \in Members(Order)
      BY <2>1, <2>2 DEF El, Plan, Members
    <3>2. file.addr = mem.addr /\ file.done = mem.done
      BY <1>1, <2>2 DEF Inductive, Sync
    <3> QED
      BY <1>1, <2>2, <3>1, <3>2 DEF Complete
  <2>3. Up => at = "next"
    <3> SUFFICES ASSUME Up, at # "next" PROVE FALSE
      OBVIOUS
    <3>1. pos \in DOMAIN Plan /\ El \in Contracts \cup Events
      BY <1>1, PlanElements DEF Inductive, TypeOK, Elements
    <3> QED
      BY <1>1, <2>2, <3>1 DEF Inductive, Place
  <2>4. /\ ~SendDeploy /\ ~StoreReceipt /\ ~RecordAddress /\ ~ReplayCall /\ ~CallStep
        /\ ~FinishEvent /\ ~FinishDeployFn
    <3>1. ~SendDeploy
      <4> SUFFICES ASSUME SendDeploy PROVE FALSE
        OBVIOUS
      <4>1. Up /\ El \in Contracts /\ mem.addr[El] = 0 /\ pos <= Len(Plan)
        BY DEF SendDeploy, AtContract, AtElement, ToDeploy
      <4>2. pos \in DOMAIN Plan
        BY <1>1, <4>1, ShapeAssumption DEF Inductive, TypeOK, Plan, ShapeAssumption
      <4> QED
        BY <2>2, <4>1, <4>2
    <3> QED
      BY <2>3, <3>1 DEF StoreReceipt, RecordAddress, ReplayCall, CallStep, SendCall,
         SendRevertingCall, ConfirmCall, CallLeft, FinishEvent, FinishDeployFn
  <2>5. UNCHANGED chain
    BY <1>1, <2>4, NextCases, QuietFacts, DevelopFacts
       DEF BeginEvent, BeginDeployFn, StartRun, Develop, Edit, Configure, vars
  <2>6. ASSUME code' = code PROVE Complete'
    <3>1. CASE StartRun
      <4>1. file' = Resolved
        BY <3>1 DEF StartRun, StoreNewState
      <4> QED
        BY <1>1, <2>6, <4>1, CompleteResolved DEF Complete
    <3>2. CASE ~StartRun
      <4>1. UNCHANGED file
        BY <1>1, <2>4, <3>2, FileSteps DEF CallStep
      <4> QED
        BY <1>1, <2>6, <4>1 DEF Complete
    <3> QED
      BY <3>1, <3>2
  <2> QED
    BY <2>5, <2>6 DEF chain
<1>2. Inductive /\ [Next]_vars =>
        [Complete =>
           /\ deployed' = deployed
           /\ \A j \in DOMAIN calls' \ DOMAIN calls : ModuleHook(calls'[j].event)
           /\ code' = code => Complete']_vars
  BY <1>1
<1> QED
  BY <1>2, InductiveInvariant, PTL DEF Spec, RerunSendsNothing
=============================================================================
