------------------------------ MODULE ViewProofs ------------------------------
(***************************************************************************)
(* What DeploymentView shows is true, for every module and any number of   *)
(* deployments: proofs of StatusTruthful and CauseShown, of ProgressExact, *)
(* SummaryFailsAfterLoss and SummaryExact.                                 *)
(***************************************************************************)
EXTENDS DeploymentView, TLAPS, FiniteSetTheorems, WellFoundedInduction

Things == {Elements[i] : i \in DOMAIN Elements}
Statuses == {"empty", "in progress", "successfully"}
InContract == {"binding", "sending", "sent"}
InHook == {"hook", "calling", "called"}
Working == {"next"} \cup InContract \cup InHook

IsView(v) ==
  v = [context |-> v.context, shown |-> v.shown, status |-> v.status, count |-> v.count,
       total |-> v.total, tx |-> v.tx, message |-> v.message, summary |-> v.summary,
       threw |-> v.threw]
IsRun(r) ==
  r = [at |-> r.at, pos |-> r.pos, made |-> r.made, skip |-> r.skip, left |-> r.left,
       error |-> r.error, first |-> r.first, n |-> r.n]
IsFile(f) == f = [address |-> f.address, executed |-> f.executed, log |-> f.log]

(* A logger that was told of this module and has nothing to complain of.   *)
Shows(v) ==
  /\ IsView(v) /\ v.shown /\ v.context = "this" /\ v.threw = FALSE /\ v.message = None
  /\ v.status \in [Things -> Statuses]

(* What the logger is like in the course of a deployment.                  *)
LoggerKnows ==
  /\ IsView(view) /\ view.shown \in BOOLEAN /\ view.threw = FALSE
  /\ In(Working) \/ view.shown => Shows(view)
  /\ At("resolving") => ~view.shown

(* Where the deployment is.                                                *)
Placed ==
  /\ IsRun(run) /\ run.pos \in Nat \ {0}
  /\ In(InContract) => run.pos <= Len(Elements) /\ Elem \in Contracts
  /\ In(InHook) => run.pos <= Len(Elements) /\ Elem \in Hooks

(* What the ticks and spinners stand for.                                  *)
Ticked == view.shown => \A x \in Things : view.status[x] = "successfully" => IsDone(x)
Spinning ==
  /\ view.shown => \A x \in Things : view.status[x] = "in progress" => x = Elem /\ ~At("next")
  /\ In(InContract \cup InHook) => view.status[Elem] = "in progress"

(* Where an error comes from.                                              *)
Blamed ==
  /\ run.first # "logger"
  /\ view.message # None => view.message = run.error /\ At("idle")
  /\ \/ run.error = run.first \/ run.error = "failHook"
     \/ run.error = "logger" /\ run.first = "store" /\ FailHooks # <<>>
  /\ At("failing") /\ run.first # "store" => view.context = "this"
  /\ run.left \in Seq(STRING \ Hooks) /\ (run.left # <<>> => FailHooks # <<>>)

(* What the process knows is what is on file, once it was stored.          *)
Synced ==
  /\ IsFile(mem)
  /\ In(Working) \/ view.shown => mem.address = file.address /\ mem.executed = file.executed

ViewInv == IsFile(file) /\ Synced /\ LoggerKnows /\ Placed /\ Ticked /\ Spinning /\ Blamed

(***************************************************************************)
(* The methods of the logger.                                              *)
(***************************************************************************)
(* A line of the log leaves the elements as they are.                      *)
LEMMA Lines ==
  ASSUME NEW v, Shows(v)
  PROVE  /\ LogLine(v) = v
         /\ Shows(SendingTx(v)) /\ SendingTx(v).status = v.status
         /\ Shows(SentTx(v)) /\ SentTx(v).status = v.status
         /\ Shows(WaitTransactionConfirmation(v))
         /\ WaitTransactionConfirmation(v).status = v.status
         /\ Shows(TransactionConfirmation(v)) /\ TransactionConfirmation(v).status = v.status
<1>1. LogLine(v) = v
  BY DEF Shows, LogLine, Log, None
<1>2. Shows(SendingTx(v)) /\ SendingTx(v).status = v.status
  BY DEF Shows, IsView, Log, Draw, SendingTx, None
<1>3. Shows(SentTx(v)) /\ SentTx(v).status = v.status
  BY DEF Shows, IsView, Log, Draw, SentTx, None
<1>4. /\ Shows(WaitTransactionConfirmation(v))
      /\ WaitTransactionConfirmation(v).status = v.status
  BY DEF Shows, IsView, Log, Draw, WaitTransactionConfirmation, None
<1>5. Shows(TransactionConfirmation(v)) /\ TransactionConfirmation(v).status = v.status
  BY DEF Shows, IsView, Log, Draw, TransactionConfirmation, None
<1>6. QED
  BY <1>1, <1>2, <1>3, <1>4, <1>5

(* The methods for an element change its status and no other.              *)
LEMMA Marks ==
  ASSUME NEW v, Shows(v), NEW x \in Things
  PROVE  /\ Shows(AlreadyDeployed(v, x))
         /\ AlreadyDeployed(v, x).status = [v.status EXCEPT ![x] = "successfully"]
         /\ Shows(BindingExecution(v, x))
         /\ BindingExecution(v, x).status = [v.status EXCEPT ![x] = "in progress"]
         /\ Shows(EventExecution(v, x))
         /\ EventExecution(v, x).status = [v.status EXCEPT ![x] = "in progress"]
         /\ Shows(FinishedBindingExecution(v, x))
         /\ FinishedBindingExecution(v, x).status = [v.status EXCEPT ![x] = "successfully"]
         /\ x \in Hooks => Shows(FinishedEventExecution(v, x))
         /\ x \in Hooks => FinishedEventExecution(v, x).status
                             = [v.status EXCEPT ![x] = "successfully"]
<1>1. x \in DOMAIN v.status
  BY DEF Shows
<1>2. Known(v, x)
  BY <1>1 DEF Known
<1>3. \A s \in Statuses : [v.status EXCEPT ![x] = s] \in [Things -> Statuses]
  BY DEF Shows
<1>4. /\ Shows(AlreadyDeployed(v, x))
      /\ AlreadyDeployed(v, x).status = [v.status EXCEPT ![x] = "successfully"]
  BY <1>2, <1>3 DEF Shows, IsView, Log, Draw, AlreadyDeployed, None, Statuses
<1>5. /\ Shows(BindingExecution(v, x))
      /\ BindingExecution(v, x).status = [v.status EXCEPT ![x] = "in progress"]
  BY <1>2, <1>3 DEF Shows, IsView, Log, Draw, BindingExecution, None, Statuses
<1>6. /\ Shows(EventExecution(v, x))
      /\ EventExecution(v, x).status = [v.status EXCEPT ![x] = "in progress"]
  BY <1>2, <1>3 DEF Shows, IsView, Log, Draw, EventExecution, None, Statuses
<1>7. /\ Shows(FinishedBindingExecution(v, x))
      /\ FinishedBindingExecution(v, x).status = [v.status EXCEPT ![x] = "successfully"]
  BY <1>2, <1>3 DEF Shows, IsView, Log, Draw, FinishedBindingExecution, None, Statuses
<1>8. x \in Hooks => /\ Shows(FinishedEventExecution(v, x))
                     /\ FinishedEventExecution(v, x).status
                          = [v.status EXCEPT ![x] = "successfully"]
  BY <1>2, <1>3 DEF Shows, IsView, Log, Draw, FinishedEventExecution, None, Statuses
<1>9. QED
  BY <1>4, <1>5, <1>6, <1>7, <1>8

(***************************************************************************)
(* The invariant.                                                          *)
(***************************************************************************)
(* The current element is one of the module.                               *)
LEMMA ElemIsThing ==
  ASSUME ViewAssumption, run.pos \in Nat \ {0}, run.pos <= Len(Elements)
  PROVE  Elem \in Things
BY DEF ViewAssumption, Elem, Things

(* A step that goes on after the logger spoke, with nothing to complain of. *)
LEMMA GoesOn ==
  ASSUME NEW v, NEW r, Shows(v), Proceed(v, r)
  PROVE  view' = v /\ run' = r
<1>1. v.threw = FALSE /\ IsView(v)
  BY DEF Shows
<1>2. QED
  BY <1>1 DEF Proceed, IsView

LEMMA InitInv ==
  ASSUME ViewAssumption, Init
  PROVE  ViewInv
<1>1. IsFile(file) /\ Synced /\ IsView(view) /\ IsRun(run)
  <2>1. file = [address |-> {}, executed |-> {}, log |-> [h \in Hooks |-> Unsent]] /\ mem = file
    BY DEF Init
  <2>2. IsFile(file)
    BY <2>1 DEF IsFile
  <2> QED
    BY <2>1, <2>2 DEF Init, Synced, IsView, IsRun, NewView
<1>2. LoggerKnows
  <2>1. run.at = "idle" /\ view.shown = FALSE /\ view.threw = FALSE
    BY DEF Init, NewView
  <2>2. QED
    BY <1>1, <2>1 DEF LoggerKnows, In, At, Working, InContract, InHook
<1>3. Placed
  BY <1>1 DEF Init, Placed, In, InContract, InHook
<1>4. Ticked /\ Spinning
  BY DEF Init, Ticked, Spinning, NewView, In, InContract, InHook
<1>5. Blamed
  <2>1. /\ view.message = None /\ run.error = None /\ run.first = None /\ run.left = <<>>
        /\ run.at = "idle"
    BY DEF Init, NewView
  <2>2. <<>> \in Seq(STRING \ Hooks)
    OBVIOUS
  <2>3. QED
    BY <2>1, <2>2 DEF Blamed, At, None
<1>6. QED
  BY <1>1, <1>2, <1>3, <1>4, <1>5 DEF ViewInv

(* What a step leaves of the state file and of the errors.                 *)
Grows == /\ IsFile(file') /\ file.address \subseteq file'.address
         /\ file.executed \subseteq file'.executed
         /\ IsFile(mem') /\ mem'.address = file'.address /\ mem'.executed = file'.executed
SameBlame == run'.error = run.error /\ run'.first = run.first /\ run'.left = run.left

(* A step within an element whose spinner turns.                           *)
LEMMA Within ==
  ASSUME ViewAssumption, ViewInv, In(Working), run.pos <= Len(Elements),
         Shows(view'), view'.status = [view.status EXCEPT ![Elem] = "in progress"],
         IsRun(run'), run'.pos = run.pos, SameBlame, Grows,
         \/ run'.at \in InContract /\ Elem \in Contracts
         \/ run'.at \in InHook /\ Elem \in Hooks
  PROVE  ViewInv'
<1>1. Shows(view) /\ view.shown /\ run.pos \in Nat \ {0}
  BY DEF ViewInv, LoggerKnows, Placed, Shows
<1>2. Elem \in Things /\ Elem' = Elem /\ Things' = Things
  BY <1>1, ElemIsThing DEF Elem, Things
<1>3. view.status \in [Things -> Statuses]
  BY <1>1 DEF Shows
<1>4. LoggerKnows'
  BY DEF LoggerKnows, Shows, In, At, InContract, InHook
<1>5. Placed'
  BY <1>1, <1>2 DEF ViewInv, ViewAssumption, Placed, In, InContract, InHook
<1>6. Ticked'
  BY <1>1, <1>2, <1>3 DEF ViewInv, Ticked, Grows, IsDone
<1>7. Spinning'
  BY <1>1, <1>2, <1>3 DEF ViewInv, Spinning, At, InContract, InHook
<1>8. Blamed'
  BY DEF ViewInv, Blamed, SameBlame, Shows, At, InContract, InHook
<1>9. QED
  BY <1>4, <1>5, <1>6, <1>7, <1>8 DEF ViewInv, Synced, Grows

(* A step that is done with an element.                                    *)
LEMMA Passes ==
  ASSUME ViewAssumption, ViewInv, In(Working), run.pos <= Len(Elements), Shows(view'),
         \/ /\ view'.status = [view.status EXCEPT ![Elem] = "successfully"]
            /\ Elem \in file'.address \cup file'.executed
         \/ view'.status = view.status /\ At("next"),
         IsRun(run'), run'.pos = run.pos + 1, run'.at = "next", SameBlame, Grows
  PROVE  ViewInv'
<1>1. Shows(view) /\ view.shown /\ run.pos \in Nat \ {0}
  BY DEF ViewInv, LoggerKnows, Placed, Shows
<1>2. Elem \in Things /\ Things' = Things
  BY <1>1, ElemIsThing DEF Things
<1>3. view.status \in [Things -> Statuses]
  BY <1>1 DEF Shows
<1>4. LoggerKnows'
  BY DEF LoggerKnows, Shows, In, At
<1>5. Placed'
  BY <1>1, <1>2 DEF Placed, In, InContract, InHook
<1>6. Ticked'
  BY <1>1, <1>2, <1>3 DEF ViewInv, Ticked, Grows, IsDone
<1>7. Spinning'
  BY <1>1, <1>2, <1>3 DEF ViewInv, Spinning, At, In, InContract, InHook
<1>8. Blamed'
  BY DEF ViewInv, Blamed, SameBlame, Shows, At
<1>9. QED
  BY <1>4, <1>5, <1>6, <1>7, <1>8 DEF ViewInv, Synced, Grows

(* A step that raises an error of the deployment.                          *)
LEMMA Raises ==
  ASSUME ViewAssumption, ViewInv, In(Working), run.pos <= Len(Elements),
         IsView(view'), Shows(view'),
         \/ view'.status = [view.status EXCEPT ![Elem] = "in progress"]
         \/ view'.status = view.status /\ ~At("next"),
         NEW e, e # "logger", run' = Raised(run, e), UNCHANGED <<file, mem>>
  PROVE  ViewInv'
<1>1. Shows(view) /\ view.shown /\ run.pos \in Nat \ {0} /\ IsRun(run)
  BY DEF ViewInv, LoggerKnows, Placed, Shows
<1>2. /\ IsRun(run') /\ run'.pos = run.pos /\ run'.at = "failing" /\ run'.left = FailHooks
      /\ run'.error = e /\ run'.first = e
  BY <1>1 DEF IsRun, Raised
<1>3. Elem \in Things /\ Elem' = Elem /\ Things' = Things
  BY <1>1, <1>2, ElemIsThing DEF Elem, Things
<1>4. view.status \in [Things -> Statuses]
  BY <1>1 DEF Shows
<1>5. LoggerKnows'
  BY <1>2 DEF LoggerKnows, Shows, In, At
<1>6. Placed'
  BY <1>1, <1>2 DEF Placed, In, InContract, InHook
<1>7. Ticked'
  BY <1>1, <1>3, <1>4 DEF ViewInv, Ticked, IsDone
<1>8. Spinning'
  BY <1>1, <1>2, <1>3, <1>4 DEF ViewInv, Spinning, At, In, InContract, InHook
<1>9. Blamed'
  <2>1. FailHooks \in Seq(STRING \ Hooks)
    BY DEF ViewAssumption
  <2>2. QED
    BY <1>2, <2>1 DEF Blamed, Shows, At
<1>10. Synced'
  BY DEF ViewInv, Synced
<1>11. QED
  BY <1>5, <1>6, <1>7, <1>8, <1>9, <1>10 DEF ViewInv

(* A step after which nothing is being deployed or executed.               *)
LEMMA Rests ==
  ASSUME ViewAssumption, ViewInv, IsRun(run'), run'.pos = run.pos, IsFile(file'),
         file'.address = file.address, file'.executed = file.executed, mem' = mem,
         view' = view, ~At("next") \/ view.shown = FALSE,
         run'.at \in {"failing", "raised"}, Blamed'
  PROVE  ViewInv'
<1>1. Things' = Things /\ Elem' = Elem
  BY DEF Things, Elem
<1>2. LoggerKnows'
  BY DEF ViewInv, LoggerKnows, In, At, Working, InContract, InHook, Shows
<1>3. Placed'
  BY DEF ViewInv, Placed, In, InContract, InHook
<1>4. Ticked'
  BY <1>1 DEF ViewInv, Ticked, IsDone
<1>5. Spinning'
  BY <1>1 DEF ViewInv, Spinning, At, In, InContract, InHook
<1>6. Synced'
  BY DEF ViewInv, Synced, In, Working, InContract, InHook
<1>7. QED
  BY <1>2, <1>3, <1>4, <1>5, <1>6 DEF ViewInv

(* A step after which the elements are not shown.                          *)
LEMMA Hidden ==
  ASSUME ViewInv, IsRun(run'), run'.pos \in Nat \ {0}, IsFile(file'), IsFile(mem'),
         IsView(view'), view'.shown = FALSE, view'.threw = FALSE,
         run'.at \in {"failing", "raised", "idle", "resolving"}, Blamed'
  PROVE  ViewInv'
<1>1. LoggerKnows'
  BY DEF LoggerKnows, In, At, Working, InContract, InHook
<1>2. Placed'
  BY DEF Placed, In, InContract, InHook
<1>3. Ticked' /\ Spinning'
  BY DEF Ticked, Spinning, At, In, InContract, InHook
<1>4. Synced'
  BY DEF Synced, In, Working, InContract, InHook
<1>5. QED
  BY <1>1, <1>2, <1>3, <1>4 DEF ViewInv

(***************************************************************************)
(* The steps.                                                              *)
(***************************************************************************)
(* What is known of a deployment at work.                                  *)
LEMMA AtWork ==
  ASSUME ViewAssumption, ViewInv, In(Working), run.pos <= Len(Elements)
  PROVE  /\ Shows(view) /\ IsRun(run) /\ IsFile(file) /\ Elem \in Things
         /\ IsFile(mem) /\ mem.address = file.address /\ mem.executed = file.executed
BY ElemIsThing DEF ViewInv, Synced, LoggerKnows, Placed

(* The spinner of an element that is being deployed or executed turns.     *)
LEMMA Turns ==
  ASSUME ViewAssumption, ViewInv, In(InContract \cup InHook)
  PROVE  /\ In(Working) /\ run.pos <= Len(Elements) /\ ~At("next")
         /\ In(InContract) => Elem \in Contracts
         /\ In(InHook) => Elem \in Hooks
         /\ view.status = [view.status EXCEPT ![Elem] = "in progress"]
<1>1. In(Working) /\ run.pos <= Len(Elements) /\ ~At("next")
  BY DEF ViewInv, Placed, In, At, Working, InContract, InHook
<1>2. view.status \in [Things -> Statuses] /\ view.status[Elem] = "in progress"
  BY <1>1, AtWork DEF ViewInv, Spinning, Shows
<1>3. QED
  BY <1>1, <1>2 DEF ViewInv, Placed

(* The steps that begin with an element and pass another.                  *)
LEMMA NextElement ==
  ASSUME ViewAssumption, ViewInv,
         \/ SkipContract \/ LeaveOut \/ ExecuteSingleBinding
         \/ SkipHook \/ DepsMissing \/ ExecuteHook
  PROVE  ViewInv'
<1>1. At("next") /\ run.pos <= Len(Elements)
  BY DEF SkipContract, LeaveOut, ExecuteSingleBinding, SkipHook, DepsMissing, ExecuteHook,
         AtContract, AtHook
<1>2. /\ In(Working) /\ Shows(view) /\ IsRun(run) /\ IsFile(file) /\ Elem \in Things
      /\ IsFile(mem) /\ mem.address = file.address /\ mem.executed = file.executed
      /\ view.status \in [Things -> Statuses]
  BY <1>1, AtWork DEF At, In, Working, Shows
<1>3. run' = Advance =>
        IsRun(run') /\ run'.pos = run.pos + 1 /\ run'.at = "next" /\ SameBlame
  BY <1>2 DEF IsRun, Advance, SameBlame
<1>4. CASE SkipContract
  <2> DEFINE v == AlreadyDeployed(view, Elem)
             w == FinishedBindingExecution(v, Elem)
  <2>1. Shows(v) /\ Shows(w) /\ w.status = [view.status EXCEPT ![Elem] = "successfully"]
    <3>1. Shows(v) /\ v.status = [view.status EXCEPT ![Elem] = "successfully"]
      BY <1>2, Marks
    <3>2. Shows(w) /\ w.status = [v.status EXCEPT ![Elem] = "successfully"]
      BY <1>2, <3>1, Marks
    <3>3. QED
      BY <1>2, <3>1, <3>2
  <2> HIDE DEF v, w
  <2>2. view' = w /\ run' = Advance
    BY <1>4, <2>1, GoesOn DEF SkipContract, v, w
  <2>3. Elem \in file.address /\ UNCHANGED <<file, mem>>
    BY <1>4 DEF SkipContract, Unfiled
  <2>4. QED
    BY <1>1, <1>2, <1>3, <2>1, <2>2, <2>3, Passes DEF SameBlame, Grows
<1>5. CASE LeaveOut
  <2>1. view' = view /\ run' = Advance /\ UNCHANGED <<file, mem>>
    BY <1>5 DEF LeaveOut, Unfiled
  <2>2. Shows(view') /\ IsRun(run') /\ SameBlame /\ Grows
    BY <1>2, <1>3, <2>1 DEF SameBlame, Grows
  <2>3. QED
    BY <1>1, <1>2, <1>3, <2>1, <2>2, Passes
<1>6. CASE ExecuteSingleBinding
  <2> DEFINE v == BindingExecution(view, Elem)
  <2>1. Shows(v) /\ v.status = [view.status EXCEPT ![Elem] = "in progress"]
    BY <1>2, Marks
  <2> HIDE DEF v
  <2>2. view' = v /\ run' = [run EXCEPT !.at = "binding"] /\ UNCHANGED <<file, mem>>
    BY <1>6, <2>1, GoesOn DEF ExecuteSingleBinding, Unfiled, v
  <2>3. IsRun(run') /\ run'.pos = run.pos /\ run'.at = "binding" /\ SameBlame
    BY <1>2, <2>2 DEF IsRun, SameBlame
  <2>4. Elem \in Contracts
    BY <1>6 DEF ExecuteSingleBinding, AtContract
  <2>5. QED
    BY <1>1, <1>2, <2>1, <2>2, <2>3, <2>4, Within DEF Grows, InContract
<1>7. CASE SkipHook
  <2> DEFINE u == EventExecution(view, Elem)
             v == AlreadyDeployed(u, Elem)
             w == FinishedEventExecution(v, Elem)
  <2>1. Elem \in Hooks /\ Elem \in file.executed /\ UNCHANGED <<file, mem>>
    BY <1>7 DEF SkipHook, AtHook, Unfiled
  <2>2. Shows(w) /\ w.status = [view.status EXCEPT ![Elem] = "successfully"]
    <3>1. Shows(u) /\ u.status = [view.status EXCEPT ![Elem] = "in progress"]
      BY <1>2, Marks
    <3>2. Shows(v) /\ v.status = [u.status EXCEPT ![Elem] = "successfully"]
      BY <1>2, <3>1, Marks
    <3>3. Shows(w) /\ w.status = [v.status EXCEPT ![Elem] = "successfully"]
      BY <1>2, <2>1, <3>2, Marks
    <3>4. QED
      BY <1>2, <3>1, <3>2, <3>3
  <2> HIDE DEF u, v, w
  <2>3. view' = w /\ run' = Advance
    BY <1>7, <2>2, GoesOn DEF SkipHook, u, v, w
  <2>4. QED
    BY <1>1, <1>2, <1>3, <2>1, <2>2, <2>3, Passes DEF SameBlame, Grows
<1>8. CASE DepsMissing
  <2>1. Shows(view') /\ view'.status = [view.status EXCEPT ![Elem] = "in progress"]
    BY <1>2, <1>8, Marks DEF DepsMissing
  <2>2. QED
    BY <1>1, <1>2, <1>8, <2>1, Raises DEF DepsMissing, Unfiled, Shows
<1>9. CASE ExecuteHook
  <2> DEFINE v == EventExecution(view, Elem)
  <2>1. Shows(v) /\ v.status = [view.status EXCEPT ![Elem] = "in progress"]
    BY <1>2, Marks
  <2> HIDE DEF v
  <2>2. view' = v /\ run' = [run EXCEPT !.at = "hook", !.made = 0] /\ UNCHANGED <<file, mem>>
    BY <1>9, <2>1, GoesOn DEF ExecuteHook, Unfiled, v
  <2>3. IsRun(run') /\ run'.pos = run.pos /\ run'.at = "hook" /\ SameBlame
    BY <1>2, <2>2 DEF IsRun, SameBlame
  <2>4. Elem \in Hooks
    BY <1>9 DEF ExecuteHook, AtHook
  <2>5. QED
    BY <1>1, <1>2, <2>1, <2>2, <2>3, <2>4, Within DEF Grows, InHook
<1>10. QED
  BY <1>4, <1>5, <1>6, <1>7, <1>8, <1>9

(* The steps within a contract and a hook that come to a line of the log.  *)
LEMMA SameElement ==
  ASSUME ViewAssumption, ViewInv, NEW S \in {InContract, InHook}, In(S), NEW a \in S, NEW v,
         Shows(v), v.status = view.status, Proceed(v, [run EXCEPT !.at = a]), Grows
  PROVE  ViewInv'
<1>1. view' = v /\ run' = [run EXCEPT !.at = a]
  BY GoesOn
<1>2. In(InContract \cup InHook)
  BY DEF In
<1>3. IsRun(run') /\ run'.pos = run.pos /\ run'.at = a /\ SameBlame
  BY <1>1, <1>2, Turns, AtWork DEF IsRun, SameBlame
<1>4. CASE S = InContract
  BY <1>1, <1>2, <1>3, <1>4, Turns, Within
<1>5. CASE S = InHook
  BY <1>1, <1>2, <1>3, <1>5, Turns, Within
<1>6. QED
  BY <1>4, <1>5

LEMMA ContractStep ==
  ASSUME ViewAssumption, ViewInv,
         SendContract \/ ContractSent \/ ContractMined \/ ContractFails
  PROVE  ViewInv'
<1>1. In(InContract) /\ In(InContract \cup InHook)
  BY DEF SendContract, ContractSent, ContractMined, ContractFails, At, In, InContract
<1>2. /\ Shows(view) /\ IsRun(run) /\ IsFile(file) /\ Elem \in Things /\ Elem \in Contracts
      /\ IsFile(mem) /\ mem.address = file.address /\ mem.executed = file.executed
  BY <1>1, Turns, AtWork
<1>3. CASE SendContract
  <2>1. Grows /\ "sending" \in InContract
    BY <1>2, <1>3 DEF SendContract, Unfiled, Grows, InContract
  <2>2. LogLine(view) = view /\ Shows(SendingTx(view)) /\ SendingTx(view).status = view.status
    BY <1>2, Lines
  <2>3. Proceed(SendingTx(view), [run EXCEPT !.at = "sending"])
    BY <1>3, <2>2 DEF SendContract
  <2>4. QED
    BY <1>1, <2>1, <2>2, <2>3, SameElement
<1>4. CASE ContractSent
  <2> DEFINE v == TransactionConfirmation(WaitTransactionConfirmation(SentTx(view)))
  <2>1. Grows /\ "sent" \in InContract
    BY <1>2, <1>4 DEF ContractSent, Unfiled, Grows, InContract
  <2>2. Shows(v) /\ v.status = view.status
    BY <1>2, Lines
  <2>3. Proceed(v, [run EXCEPT !.at = "sent"])
    BY <1>4 DEF ContractSent
  <2>4. QED
    BY <1>1, <2>1, <2>2, <2>3, SameElement
<1>5. CASE ContractMined
  <2> DEFINE v == TransactionConfirmation(view)
             w == FinishedBindingExecution(v, Elem)
  <2>1. Shows(w) /\ w.status = [view.status EXCEPT ![Elem] = "successfully"]
    <3>1. Shows(v) /\ v.status = view.status
      BY <1>2, Lines
    <3> HIDE DEF v
    <3>2. Shows(w) /\ w.status = [v.status EXCEPT ![Elem] = "successfully"]
      BY <1>2, <3>1, Marks
    <3> HIDE DEF w
    <3>3. QED
      BY <3>1, <3>2
  <2> HIDE DEF v, w
  <2>2. view' = w /\ run' = Advance
    BY <1>5, <2>1, GoesOn DEF ContractMined, v, w
  <2>3. IsRun(run') /\ run'.pos = run.pos + 1 /\ run'.at = "next" /\ SameBlame
    BY <1>2, <2>2 DEF IsRun, Advance, SameBlame
  <2>4. /\ file' = [file EXCEPT !.address = @ \cup {Elem}]
        /\ mem' = [mem EXCEPT !.address = @ \cup {Elem}]
    BY <1>5 DEF ContractMined
  <2>5. Grows /\ Elem \in file'.address
    BY <1>2, <2>4 DEF Grows, IsFile
  <2>6. QED
    BY <1>1, <2>1, <2>2, <2>3, <2>5, Turns, Passes
<1>6. CASE ContractFails
  <2>1. Shows(view') /\ view'.status = view.status
    BY <1>2, <1>6, Lines DEF ContractFails
  <2>2. IsView(view') /\ run' = Raised(run, "contract") /\ UNCHANGED <<file, mem>>
    BY <1>6, <2>1 DEF ContractFails, Unfiled, Shows
  <2>3. QED
    BY <1>1, <2>1, <2>2, Turns, Raises
<1>7. QED
  BY <1>3, <1>4, <1>5, <1>6

LEMMA HookStep ==
  ASSUME ViewAssumption, ViewInv,
         ReplayCall \/ SendCall \/ CallSent \/ CallMined \/ HookFails \/ FinishHook
  PROVE  ViewInv'
<1>1. In(InHook) /\ In(InContract \cup InHook)
  BY DEF ReplayCall, SendCall, CallSent, CallMined, HookFails, FinishHook, At, In, InHook
<1>2. /\ Shows(view) /\ IsRun(run) /\ IsFile(file) /\ Elem \in Things /\ Elem \in Hooks
      /\ IsFile(mem) /\ mem.address = file.address /\ mem.executed = file.executed
  BY <1>1, Turns, AtWork
<1>3. CASE ReplayCall \/ CallMined
  <2>1. Grows
    <3>1. CASE ReplayCall
      BY <1>2, <3>1 DEF ReplayCall, Kept, IsFile, Grows
    <3>2. CASE CallMined
      BY <1>2, <3>2 DEF CallMined, IsFile, Grows
    <3>3. QED
      BY <1>3, <3>1, <3>2
  <2>2. view' = view
    BY <1>3 DEF ReplayCall, CallMined
  <2>3. IsRun(run') /\ run'.pos = run.pos /\ run'.at = "hook" /\ SameBlame
    <3>1. CASE ReplayCall
      <4>1. run' = [run EXCEPT !.made = @ + 1] /\ run.at = "hook"
        BY <3>1 DEF ReplayCall, At
      <4>2. QED
        BY <1>2, <4>1 DEF IsRun, SameBlame
    <3>2. CASE CallMined
      <4>1. run' = [run EXCEPT !.at = "hook", !.made = @ + 1]
        BY <3>2 DEF CallMined
      <4>2. QED
        BY <1>2, <4>1 DEF IsRun, SameBlame
    <3>3. QED
      BY <1>3, <3>1, <3>2
  <2>4. QED
    BY <1>1, <1>2, <2>1, <2>2, <2>3, Turns, Within DEF InHook
<1>4. CASE SendCall
  <2>1. Grows /\ "calling" \in InHook
    BY <1>2, <1>4 DEF SendCall, Unfiled, Grows, InHook
  <2>2. LogLine(view) = view /\ Shows(SendingTx(view)) /\ SendingTx(view).status = view.status
    BY <1>2, Lines
  <2>3. Proceed(SendingTx(view), [run EXCEPT !.at = "calling"])
    BY <1>4, <2>2 DEF SendCall
  <2>4. QED
    BY <1>1, <2>1, <2>2, <2>3, SameElement
<1>5. CASE CallSent
  <2> DEFINE w == IF Kind = "call" THEN WaitTransactionConfirmation(SentTx(view)) ELSE SentTx(view)
  <2>1. Grows
    <3>1. /\ file' = IF Kind = "call" THEN [file EXCEPT !.log[Elem].in = @ + 1] ELSE file
          /\ mem' = mem
      BY <1>5 DEF CallSent
    <3>2. QED
      BY <1>2, <3>1 DEF IsFile, Grows
  <2>2. Shows(w) /\ w.status = view.status
    BY <1>2, Lines
  <2>3. LogLine(w) = w
    BY <2>2, Lines
  <2>4. Proceed(w, [run EXCEPT !.at = "called"])
    BY <1>5, <2>3 DEF CallSent
  <2> HIDE DEF w
  <2>5. QED
    BY <1>1, <2>1, <2>2, <2>4, SameElement DEF InHook
<1>6. CASE HookFails
  BY <1>1, <1>2, <1>6, Turns, Raises DEF HookFails, Unfiled, Shows
<1>7. CASE FinishHook
  <2> DEFINE w == FinishedEventExecution(view, Elem)
  <2>1. Shows(w) /\ w.status = [view.status EXCEPT ![Elem] = "successfully"]
    BY <1>2, Marks
  <2> HIDE DEF w
  <2>2. view' = w /\ run' = Advance
    BY <1>7, <2>1, GoesOn DEF FinishHook, w
  <2>3. IsRun(run') /\ run'.pos = run.pos + 1 /\ run'.at = "next" /\ SameBlame
    BY <1>2, <2>2 DEF IsRun, Advance, SameBlame
  <2>4. file' = mem' /\ IsFile(mem') /\ mem'.address = mem.address
        /\ mem'.executed = mem.executed \cup {Elem}
    <3> DEFINE l == IF Elem \in EndHooks THEN Unsent ELSE file.log[Elem]
    <3>1. file' = mem' /\ mem' = [mem EXCEPT !.executed = @ \cup {Elem}, !.log[Elem] = l]
      BY <1>7 DEF FinishHook
    <3> HIDE DEF l
    <3> QED
      BY <1>2, <3>1 DEF IsFile
  <2>5. Grows /\ Elem \in file'.executed
    BY <1>2, <2>4 DEF Grows, IsFile
  <2>6. QED
    BY <1>1, <2>1, <2>2, <2>3, <2>5, Turns, Passes
<1>8. QED
  BY <1>3, <1>4, <1>5, <1>6, <1>7

LEMMA Begins ==
  ASSUME ViewAssumption, ViewInv, Deploy \/ ResolveFails \/ StoreFails \/ Execute
  PROVE  ViewInv'
<1>1. CASE Deploy
  <2>1. /\ run'.at = "resolving" /\ run'.pos = 1 /\ run'.left = <<>>
        /\ run'.error = None /\ run'.first = None /\ IsRun(run')
    BY <1>1 DEF Deploy, IsRun
  <2>2. view'.shown = FALSE /\ view'.threw = FALSE /\ view'.message = None /\ IsView(view')
    <3>1. CASE view' = NewView
      BY <3>1 DEF NewView, IsView
    <3>2. CASE view' = AfterOther
      BY <3>2 DEF NewView, AfterOther, IsView
    <3>3. QED
      BY <1>1, <3>1, <3>2 DEF Deploy
  <2>3. IsFile(file') /\ IsFile(mem')
    <3>1. file' = file /\ mem' = Resolved
      BY <1>1 DEF Deploy
    <3>2. IsFile(Resolved)
      BY DEF Resolved, IsFile
    <3> QED
      BY <3>1, <3>2 DEF ViewInv, IsFile
  <2>4. Blamed'
    <3>1. <<>> \in Seq(STRING \ Hooks)
      OBVIOUS
    <3>2. QED
      BY <2>1, <2>2, <3>1 DEF Blamed, At, None
  <2>5. run'.pos \in Nat \ {0} /\ run'.at \in {"failing", "raised", "idle", "resolving"}
    BY <2>1
  <2>6. QED
    BY <2>1, <2>2, <2>3, <2>4, <2>5, Hidden
<1>2. CASE ResolveFails \/ StoreFails
  <2>1. At("resolving") /\ view' = view /\ UNCHANGED <<file, mem>>
    BY <1>2 DEF ResolveFails, StoreFails, Unfiled
  <2>2. /\ view.shown = FALSE /\ view.threw = FALSE /\ IsView(view) /\ view.message = None
        /\ IsFile(file) /\ IsFile(mem) /\ IsRun(run) /\ run.pos \in Nat \ {0}
    BY <2>1 DEF ViewInv, Synced, LoggerKnows, Blamed, Placed, At
  <2>3. /\ IsRun(run') /\ run'.pos = run.pos /\ run'.at \in {"failing", "raised"}
        /\ run'.error = run'.first /\ run'.first # "logger"
        /\ run'.at = "failing" => run'.first = "store"
        /\ run'.left \in {run.left, FailHooks}
    <3>1. CASE ResolveFails
      <4>1. run' = [run EXCEPT !.at = "raised", !.error = "module", !.first = "module"]
        BY <3>1 DEF ResolveFails
      <4>2. QED
        BY <2>2, <4>1 DEF IsRun
    <3>2. CASE StoreFails
      <4>1. run' = Raised(run, "store")
        BY <3>2 DEF StoreFails
      <4>2. QED
        BY <2>2, <4>1 DEF IsRun, Raised
    <3>3. QED
      BY <1>2, <3>1, <3>2
  <2>4. Blamed'
    <3>1. FailHooks \in Seq(STRING \ Hooks)
      BY DEF ViewAssumption
    <3>2. QED
      BY <2>1, <2>2, <2>3, <3>1 DEF ViewInv, Blamed, At
  <2>5. IsFile(file') /\ IsFile(mem')
    BY <2>1, <2>2 DEF IsFile
  <2>6. QED
    BY <2>1, <2>2, <2>3, <2>4, <2>5, Hidden
<1>3. CASE Execute
  <2>1. At("resolving") /\ IsView(view) /\ view.threw = FALSE /\ view.message = None
        /\ IsRun(run) /\ run.pos \in Nat \ {0} /\ IsFile(mem)
    BY <1>3 DEF Execute, ViewInv, Synced, LoggerKnows, Blamed, Placed, At
  <2> DEFINE v == StartModuleDeploy(view)
  <2>2. Shows(v) /\ \A x \in Things : v.status[x] = "empty"
    <3>1. \A x \in Things : [y \in Things |-> "empty"][x] = "empty"
      OBVIOUS
    <3>2. [y \in Things |-> "empty"] \in [Things -> Statuses]
      BY DEF Statuses
    <3>3. /\ v.status = [y \in Things |-> "empty"] /\ v.shown = TRUE /\ v.context = "this"
          /\ v.threw = FALSE /\ v.message = None /\ IsView(v)
      <4>1. v.shown = TRUE /\ v.context = "this" /\ v.threw = FALSE /\ v.message = None
        BY <2>1 DEF StartModuleDeploy, IsView, None
      <4>2. v.status = [y \in Things |-> "empty"]
        BY <2>1 DEF StartModuleDeploy, IsView, Things
      <4>3. IsView(v)
        <5> DEFINE s == [x \in {Elements[i] : i \in DOMAIN Elements} |-> "empty"]
        <5>1. v = [view EXCEPT !.context = "this", !.shown = TRUE, !.count = 0,
                    !.total = Len(Elements), !.status = s, !.tx = "", !.message = None,
                    !.summary = <<>>]
          BY DEF StartModuleDeploy
        <5> HIDE DEF s, v
        <5>2. QED
          BY <2>1, <5>1 DEF IsView
      <4>4. QED
        BY <4>1, <4>2, <4>3
    <3> HIDE DEF v
    <3>4. QED
      BY <3>1, <3>2, <3>3 DEF Shows
  <2> HIDE DEF v
  <2>3. view' = v /\ run' = [run EXCEPT !.at = "next"] /\ file' = mem /\ mem' = mem
    BY <1>3, <2>2, GoesOn DEF Execute, v
  <2>4. IsRun(run') /\ run'.pos = run.pos /\ run'.at = "next" /\ SameBlame
    BY <2>1, <2>3 DEF IsRun, SameBlame
  <2>5. LoggerKnows'
    BY <2>2, <2>3, <2>4 DEF LoggerKnows, Shows, At
  <2>6. Placed'
    BY <2>1, <2>4 DEF Placed, In, InContract, InHook
  <2>7. Things' = Things
    BY DEF Things
  <2>8. Ticked' /\ Spinning'
    BY <2>2, <2>3, <2>4, <2>7 DEF Ticked, Spinning, In, InContract, InHook
  <2>9. Blamed'
    BY <2>2, <2>3, <2>4 DEF ViewInv, Blamed, SameBlame, Shows, At
  <2>10. IsFile(file') /\ Synced'
    BY <2>1, <2>3 DEF Synced, IsFile
  <2>11. QED
    BY <2>5, <2>6, <2>8, <2>9, <2>10 DEF ViewInv
<1>4. QED
  BY <1>1, <1>2, <1>3

LEMMA Ends ==
  ASSUME ViewAssumption, ViewInv,
         \/ FailHook \/ FailHookThrows \/ FailHooksDone
         \/ ReportError \/ ShowSummary \/ SummaryThrows \/ Crash
  PROVE  ViewInv'
<1>1. /\ IsRun(run) /\ IsFile(file) /\ IsFile(mem) /\ IsView(view) /\ view.threw = FALSE
      /\ run.pos \in Nat \ {0} /\ view.shown \in BOOLEAN
      /\ view.shown => mem.address = file.address /\ mem.executed = file.executed
  BY DEF ViewInv, Synced, LoggerKnows, Placed
<1>2. CASE FailHook
  <2>1. /\ At("failing") /\ run.left # <<>> /\ run.left \in Seq(STRING \ Hooks)
        /\ view.message = None /\ FailHooks # <<>>
    BY <1>2 DEF FailHook, ViewInv, Blamed, At
  <2>2. Head(run.left) \notin Hooks /\ Tail(run.left) \in Seq(STRING \ Hooks)
    BY <2>1
  <2> DEFINE v == FinishedEventExecution(view, Head(run.left))
  <2>3. v = IF view.context = None THEN [view EXCEPT !.threw = TRUE] ELSE view
    BY <1>1, <2>2 DEF FinishedEventExecution, LogLine, Log
  <2>4. /\ [v EXCEPT !.threw = FALSE] = view
        /\ v.threw => view.context = None
    BY <1>1, <2>3 DEF IsView
  <2> HIDE DEF v
  <2>5. /\ view' = view /\ file' = mem /\ mem' = mem
        /\ run' = IF v.threw THEN [run EXCEPT !.at = "raised", !.error = "logger"]
                  ELSE [run EXCEPT !.left = Tail(@)]
    BY <1>2, <2>4 DEF FailHook, Kept, v
  <2>6. CASE v.threw
    <3>1. run.first = "store"
      BY <2>1, <2>4, <2>6 DEF ViewInv, Blamed, None
    <3>2. /\ IsRun(run') /\ run'.pos = run.pos /\ run'.at = "raised" /\ run'.error = "logger"
          /\ run'.first = run.first /\ run'.left = run.left
      BY <1>1, <2>5, <2>6 DEF IsRun
    <3>3. Blamed'
      BY <2>1, <2>5, <3>1, <3>2 DEF Blamed, At
    <3>4. IsFile(file') /\ IsFile(mem')
      BY <1>1, <2>5 DEF IsFile
    <3>5. CASE view.shown
      BY <1>1, <2>1, <2>5, <3>2, <3>3, <3>4, <3>5, Rests DEF At
    <3>6. CASE view.shown = FALSE
      BY <1>1, <2>5, <3>2, <3>3, <3>4, <3>6, Hidden DEF IsView
    <3>7. QED
      BY <1>1, <3>5, <3>6
  <2>7. CASE ~v.threw
    <3>1. /\ IsRun(run') /\ run'.pos = run.pos /\ run'.at = "failing" /\ run'.error = run.error
          /\ run'.first = run.first /\ run'.left = Tail(run.left)
      BY <1>1, <2>1, <2>5, <2>7 DEF IsRun, At
    <3>2. Blamed'
      BY <2>1, <2>2, <2>5, <3>1 DEF ViewInv, Blamed, At
    <3>3. IsFile(file') /\ IsFile(mem')
      BY <1>1, <2>5 DEF IsFile
    <3>4. CASE view.shown
      BY <1>1, <2>1, <2>5, <3>1, <3>2, <3>3, <3>4, Rests DEF At
    <3>5. CASE view.shown = FALSE
      BY <1>1, <2>5, <3>1, <3>2, <3>3, <3>5, Hidden DEF IsView
    <3>6. QED
      BY <1>1, <3>4, <3>5
  <2>8. QED
    BY <2>6, <2>7
<1>3. CASE FailHookThrows \/ FailHooksDone
  <2>1. At("failing") /\ view' = view /\ UNCHANGED <<file, mem>> /\ view.message = None
    BY <1>3 DEF FailHookThrows, FailHooksDone, Unfiled, ViewInv, Blamed, At
  <2>2. /\ IsRun(run') /\ run'.pos = run.pos /\ run'.at = "raised" /\ run'.first = run.first
        /\ run'.left = run.left /\ run'.error \in {run.error, "failHook"}
    <3>1. CASE FailHookThrows
      <4>1. run' = [run EXCEPT !.at = "raised", !.error = "failHook"]
        BY <3>1 DEF FailHookThrows
      <4>2. QED
        BY <1>1, <4>1 DEF IsRun
    <3>2. CASE FailHooksDone
      <4>1. run' = [run EXCEPT !.at = "raised"]
        BY <3>2 DEF FailHooksDone
      <4>2. QED
        BY <1>1, <4>1 DEF IsRun
    <3>3. QED
      BY <1>3, <3>1, <3>2
  <2>3. Blamed'
    BY <2>1, <2>2 DEF ViewInv, Blamed, At
  <2>4. QED
    BY <1>1, <2>1, <2>2, <2>3, Rests DEF At
<1>4. CASE ReportError
  <2>1. /\ run' = [run EXCEPT !.at = "idle"] /\ view' = LogError(view, run.error)
        /\ UNCHANGED <<file, mem>> /\ IsFile(file') /\ IsFile(mem')
    BY <1>1, <1>4 DEF ReportError, Unfiled, IsFile
  <2>2. IsRun(run') /\ run'.pos = run.pos /\ run'.at = "idle" /\ SameBlame
    BY <1>1, <2>1 DEF IsRun, SameBlame
  <2>3. IsView(view') /\ view'.shown = FALSE /\ view'.threw = FALSE /\ view'.message = run.error
    BY <1>1, <2>1 DEF IsView, LogError, Draw
  <2>4. Blamed'
    BY <2>2, <2>3 DEF ViewInv, Blamed, SameBlame, At
  <2>5. QED
    BY <1>1, <2>1, <2>2, <2>3, <2>4, Hidden
<1>5. CASE ShowSummary
  <2>1. At("next") /\ Shows(view) /\ UNCHANGED <<file, mem>>
    BY <1>5 DEF ShowSummary, Complete, Unfiled, ViewInv, LoggerKnows, In, At, Working
  <2> DEFINE v == FinishModuleDeploy(view, Transactions)
  <2>2. Shows(v) /\ v.status = view.status
    BY <2>1 DEF Shows, IsView, FinishModuleDeploy, Log, Draw, None
  <2>3. Proceed(v, [run EXCEPT !.at = "idle"])
    BY <1>5 DEF ShowSummary
  <2> HIDE DEF v
  <2>4. view' = v /\ run' = [run EXCEPT !.at = "idle"]
    BY <2>2, <2>3, GoesOn
  <2>5. IsRun(run') /\ run'.pos = run.pos /\ run'.at = "idle" /\ SameBlame
    BY <1>1, <2>4 DEF IsRun, SameBlame
  <2>6. LoggerKnows'
    BY <2>2, <2>4, <2>5 DEF LoggerKnows, Shows, At
  <2>7. Placed'
    BY <1>1, <2>5 DEF Placed, In, InContract, InHook
  <2>8. Things' = Things /\ view.shown
    BY <2>1 DEF Things, Shows
  <2>9. Ticked' /\ Spinning'
    BY <2>1, <2>2, <2>4, <2>5, <2>8 DEF ViewInv, Ticked, Spinning, In, At, IsDone, InContract, InHook
  <2>10. Blamed'
    BY <2>2, <2>4, <2>5 DEF ViewInv, Blamed, SameBlame, Shows, At
  <2>11. IsFile(file') /\ Synced'
    BY <1>1, <2>1, <2>8 DEF Synced, IsFile
  <2>12. QED
    BY <2>6, <2>7, <2>9, <2>10, <2>11 DEF ViewInv
<1>6. CASE SummaryThrows
  <2>1. /\ At("next") /\ Shows(view) /\ view' = view /\ UNCHANGED <<file, mem>>
        /\ run' = [run EXCEPT !.at = "raised", !.error = "summary", !.first = "summary"]
    BY <1>6 DEF SummaryThrows, Complete, Unfiled, ViewInv, LoggerKnows, In, At, Working
  <2>2. /\ IsRun(run') /\ run'.pos = run.pos /\ run'.at = "raised" /\ run'.left = run.left
        /\ run'.error = "summary" /\ run'.first = "summary"
    BY <1>1, <2>1 DEF IsRun
  <2>3. LoggerKnows'
    BY <2>1, <2>2 DEF LoggerKnows, Shows, At
  <2>4. Placed'
    BY <1>1, <2>2 DEF Placed, In, InContract, InHook
  <2>5. Things' = Things /\ view.shown
    BY <2>1 DEF Things, Shows
  <2>6. Ticked' /\ Spinning'
    BY <2>1, <2>2, <2>5 DEF ViewInv, Ticked, Spinning, In, At, IsDone, InContract, InHook
  <2>7. Blamed'
    BY <2>1, <2>2 DEF ViewInv, Blamed, Shows, At
  <2>8. IsFile(file') /\ Synced'
    BY <1>1, <2>1, <2>5 DEF Synced, IsFile
  <2>9. QED
    BY <2>3, <2>4, <2>6, <2>7, <2>8 DEF ViewInv
<1>7. CASE Crash
  <2>1. /\ run' = [run EXCEPT !.at = "idle"] /\ view' = NewView
        /\ IsFile(file') /\ IsFile(mem')
    BY <1>1, <1>7 DEF Crash, Unfiled, IsFile
  <2>2. IsRun(run') /\ run'.pos = run.pos /\ run'.at = "idle" /\ SameBlame
    BY <1>1, <2>1 DEF IsRun, SameBlame
  <2>3. IsView(view') /\ view'.shown = FALSE /\ view'.threw = FALSE /\ view'.message = None
    BY <2>1 DEF IsView, NewView
  <2>4. Blamed'
    BY <2>2, <2>3 DEF ViewInv, Blamed, SameBlame, At
  <2>5. QED
    BY <1>1, <2>1, <2>2, <2>3, <2>4, Hidden
<1>8. QED
  BY <1>2, <1>3, <1>4, <1>5, <1>6, <1>7

LEMMA StepInv ==
  ASSUME ViewAssumption, ViewInv, [Next]_vars
  PROVE  ViewInv'
<1>1. CASE UNCHANGED vars
  BY <1>1 DEF vars, ViewInv, IsFile, Synced, LoggerKnows, Placed, Ticked, Spinning, Blamed, Things,
              In, At, Elem, IsDone
<1>2. CASE Next
  BY <1>2, Begins, NextElement, ContractStep, HookStep, Ends DEF Next, Step
<1>3. QED
  BY <1>1, <1>2

LEMMA ViewInvariant == ASSUME ViewAssumption PROVE Spec => []ViewInv
<1>1. Init => ViewInv
  BY InitInv
<1>2. ViewInv /\ [Next]_vars => ViewInv'
  BY StepInv
<1>3. QED
  BY <1>1, <1>2, PTL DEF Spec

(***************************************************************************)
(* The theorems.                                                           *)
(***************************************************************************)
(* A tick stands for what is in the state file, and the only spinner is    *)
(* that of the element the deployment is at.                               *)
THEOREM Truthful == ASSUME ViewAssumption PROVE Spec => []StatusTruthful
<1>1. ViewInv => StatusTruthful
  <2> SUFFICES ASSUME ViewInv PROVE StatusTruthful
    OBVIOUS
  <2>1. view.shown => DOMAIN view.status = Things
    BY DEF ViewInv, LoggerKnows, Shows
  <2>2. \A x \in ModuleElements(view, "successfully") : IsDone(x)
    BY <2>1 DEF ViewInv, Ticked, ModuleElements
  <2>3. \A x \in ModuleElements(view, "in progress") : x = Elem
    BY <2>1 DEF ViewInv, Spinning, ModuleElements
  <2>4. ASSUME In({"binding", "sending", "sent", "hook", "calling", "called"})
        PROVE  ModuleElements(view, "in progress") = {Elem}
    <3>1. In(InContract \cup InHook)
      BY <2>4 DEF In, InContract, InHook
    <3>2. Shows(view) /\ Elem \in Things
      BY <3>1, Turns, AtWork
    <3>3. view.shown /\ view.status[Elem] = "in progress"
      BY <3>1, <3>2 DEF ViewInv, Spinning, Shows
    <3>4. Elem \in ModuleElements(view, "in progress")
      BY <2>1, <3>2, <3>3 DEF ModuleElements
    <3>5. QED
      BY <2>3, <3>4
  <2>5. QED
    BY <2>2, <2>3, <2>4 DEF StatusTruthful
<1>2. QED
  BY <1>1, ViewInvariant, PTL

(* The error that is shown is of the category of the one that ended the    *)
(* run, but for two: an error of an onFail hook takes its place, and the   *)
(* logger's own may take that of a state that could not be stored before   *)
(* the module was started.                                                 *)
THEOREM Caused == ASSUME ViewAssumption PROVE Spec => []CauseShown
<1>1. ViewInv => CauseShown
  BY DEF ViewInv, Blamed, CauseShown, None
<1>2. QED
  BY <1>1, ViewInvariant, PTL

(***************************************************************************)
(* The summary fails only after a receipt was lost.                        *)
(***************************************************************************)
Logs == [Hooks -> [in : Nat, out : Nat, paid : Nat]]
Covered(l) == l.in <= l.out + l.paid
CoveredButOne(l) == l.in <= l.out + l.paid + 1

(* What is on record are contracts and hooks.                              *)
Named == /\ file.address \subseteq Contracts /\ file.executed \subseteq Hooks
         /\ mem.address \subseteq Contracts /\ mem.executed \subseteq Hooks

(* Every input on record has its receipt, but for the call that is waited  *)
(* for; unless a receipt was lost before.                                  *)
Answered ==
  /\ mem.log \in Logs /\ file.log \in Logs /\ lost \in BOOLEAN
  /\ ~lost => \A h \in Hooks :
       /\ Covered(mem.log[h])
       /\ IF Unanswered /\ h = Elem THEN CoveredButOne(file.log[h]) ELSE Covered(file.log[h])
  /\ run.first = "summary" => lost

(* A step that touches no log.                                             *)
LEMMA LogsRest ==
  ASSUME Answered, file'.log = file.log, mem'.log = mem.log, lost' = lost, ~At("called"),
         run'.at # "called",
         run'.first = run.first \/ run'.first # "summary"
  PROVE  Answered'
<1>1. ~Unanswered /\ ~Unanswered'
  BY DEF Unanswered, At
<1> QED
  BY <1>1 DEF Answered

(* A log in which one number grew.                                         *)
InMore(f, h) == [f EXCEPT ![h].in = @ + 1]
OutMore(f, h) == [f EXCEPT ![h].out = @ + 1]
PaidMore(f, h) == [f EXCEPT ![h].paid = @ + 1]

LEMMA InputLogged ==
  ASSUME NEW f \in Logs, NEW h \in Hooks
  PROVE  /\ InMore(f, h) \in Logs
         /\ \A x \in Hooks \ {h} : InMore(f, h)[x] = f[x]
         /\ Covered(f[h]) => CoveredButOne(InMore(f, h)[h])
<1> DEFINE R == [in : Nat, out : Nat, paid : Nat]
           r == [f[h] EXCEPT !.in = @ + 1]
           g == [f EXCEPT ![h] = r]
<1>1. f \in [Hooks -> R]
  BY DEF Logs
<1>2. f[h] \in R
  BY <1>1
<1>3. r \in R /\ r.in = f[h].in + 1 /\ r.out = f[h].out /\ r.paid = f[h].paid
  BY <1>2
<1>4. f[h].in \in Nat /\ f[h].out \in Nat /\ f[h].paid \in Nat
  BY <1>2
<1>5. Covered(f[h]) => CoveredButOne(r)
  BY <1>3, <1>4 DEF Covered, CoveredButOne
<1>6. InMore(f, h) = g
  BY DEF InMore
<1> HIDE DEF r, R
<1>7. g \in [Hooks -> R] /\ g[h] = r /\ \A x \in Hooks \ {h} : g[x] = f[x]
  BY <1>1, <1>3
<1>8. g \in Logs
  BY <1>7 DEF Logs, R
<1> HIDE DEF g
<1> QED
  BY <1>5, <1>6, <1>7, <1>8

LEMMA OutputLogged ==
  ASSUME NEW f \in Logs, NEW h \in Hooks
  PROVE  /\ OutMore(f, h) \in Logs
         /\ \A x \in Hooks \ {h} : OutMore(f, h)[x] = f[x]
         /\ (Covered(f[h]) => Covered(OutMore(f, h)[h])) /\ (CoveredButOne(f[h]) => Covered(OutMore(f, h)[h]))
<1> DEFINE R == [in : Nat, out : Nat, paid : Nat]
           r == [f[h] EXCEPT !.out = @ + 1]
           g == [f EXCEPT ![h] = r]
<1>1. f \in [Hooks -> R]
  BY DEF Logs
<1>2. f[h] \in R
  BY <1>1
<1>3. r \in R /\ r.out = f[h].out + 1 /\ r.in = f[h].in /\ r.paid = f[h].paid
  BY <1>2
<1>4. f[h].in \in Nat /\ f[h].out \in Nat /\ f[h].paid \in Nat
  BY <1>2
<1>5. (Covered(f[h]) => Covered(r)) /\ (CoveredButOne(f[h]) => Covered(r))
  BY <1>3, <1>4 DEF Covered, CoveredButOne
<1>6. OutMore(f, h) = g
  BY DEF OutMore
<1> HIDE DEF r, R
<1>7. g \in [Hooks -> R] /\ g[h] = r /\ \A x \in Hooks \ {h} : g[x] = f[x]
  BY <1>1, <1>3
<1>8. g \in Logs
  BY <1>7 DEF Logs, R
<1> HIDE DEF g
<1> QED
  BY <1>5, <1>6, <1>7, <1>8

LEMMA TransferLogged ==
  ASSUME NEW f \in Logs, NEW h \in Hooks
  PROVE  /\ PaidMore(f, h) \in Logs
         /\ \A x \in Hooks \ {h} : PaidMore(f, h)[x] = f[x]
         /\ Covered(f[h]) => Covered(PaidMore(f, h)[h])
<1> DEFINE R == [in : Nat, out : Nat, paid : Nat]
           r == [f[h] EXCEPT !.paid = @ + 1]
           g == [f EXCEPT ![h] = r]
<1>1. f \in [Hooks -> R]
  BY DEF Logs
<1>2. f[h] \in R
  BY <1>1
<1>3. r \in R /\ r.paid = f[h].paid + 1 /\ r.in = f[h].in /\ r.out = f[h].out
  BY <1>2
<1>4. f[h].in \in Nat /\ f[h].out \in Nat /\ f[h].paid \in Nat
  BY <1>2
<1>5. Covered(f[h]) => Covered(r)
  BY <1>3, <1>4 DEF Covered, CoveredButOne
<1>6. PaidMore(f, h) = g
  BY DEF PaidMore
<1> HIDE DEF r, R
<1>7. g \in [Hooks -> R] /\ g[h] = r /\ \A x \in Hooks \ {h} : g[x] = f[x]
  BY <1>1, <1>3
<1>8. g \in Logs
  BY <1>7 DEF Logs, R
<1> HIDE DEF g
<1> QED
  BY <1>5, <1>6, <1>7, <1>8

LEMMA InitAnswered ==
  ASSUME Init
  PROVE  Answered
<1>1. /\ mem.log = [h \in Hooks |-> Unsent] /\ file.log = mem.log
      /\ ~At("called") /\ lost = FALSE /\ run.first = None
  BY DEF Init, At
<1>2. Unsent \in [in : Nat, out : Nat, paid : Nat] /\ Covered(Unsent)
  BY DEF Unsent, Covered
<1>3. mem.log \in Logs /\ \A h \in Hooks : Covered(mem.log[h])
  BY <1>1, <1>2 DEF Logs
<1> QED
  BY <1>1, <1>3 DEF Answered, Unanswered, None

(* The steps of a contract and those that begin and end a deployment.      *)
LEMMA AnsweredQuiet ==
  ASSUME ViewAssumption, ViewInv, Answered,
         \/ ResolveFails \/ StoreFails
         \/ SkipContract \/ LeaveOut \/ ExecuteSingleBinding \/ SendContract \/ ContractSent
         \/ ContractMined \/ ContractFails \/ SkipHook \/ DepsMissing \/ ExecuteHook \/ SendCall
         \/ FailHookThrows \/ FailHooksDone \/ ReportError \/ ShowSummary
  PROVE  Answered'
<1>1. IsFile(file) /\ IsFile(mem) /\ IsRun(run)
  BY DEF ViewInv, Synced, Placed
<1>2. file'.log = file.log /\ mem'.log = mem.log /\ lost' = lost
  <2>1. CASE ContractMined
    BY <1>1, <2>1 DEF ContractMined, IsFile
  <2>2. CASE ~ContractMined
    BY <2>2 DEF ResolveFails, StoreFails, SkipContract, LeaveOut, ExecuteSingleBinding,
          SendContract, ContractSent, ContractFails, SkipHook, DepsMissing, ExecuteHook,
          SendCall, FailHookThrows, FailHooksDone, ReportError, ShowSummary, Unfiled, Kept
  <2> QED
    BY <2>1, <2>2
<1>3. ~At("called")
  BY DEF ResolveFails, StoreFails, SkipContract, LeaveOut, ExecuteSingleBinding,
         SendContract, ContractSent, ContractMined, ContractFails, SkipHook, DepsMissing,
         ExecuteHook, SendCall, FailHookThrows, FailHooksDone, ReportError, ShowSummary,
         Complete, AtContract, AtHook, At, In
<1>4. /\ run'.at # "called"
      /\ run'.first = run.first \/ run'.first # "summary"
  <2>1. CASE \/ ResolveFails \/ StoreFails \/ LeaveOut \/ ContractFails \/ DepsMissing
             \/ FailHookThrows \/ FailHooksDone \/ ReportError
    BY <1>1, <1>3, <2>1 DEF ResolveFails, StoreFails, LeaveOut, ContractFails, DepsMissing,
       FailHookThrows, FailHooksDone, ReportError, IsRun, Raised, Advance, At
  <2>2. CASE \/ SkipContract \/ ExecuteSingleBinding \/ SendContract
             \/ ContractSent \/ ContractMined \/ SkipHook \/ ExecuteHook \/ SendCall \/ ShowSummary
    <3>1. \/ run' = Raised(run, "logger") \/ run' = Advance
          \/ \E a \in {"binding", "sending", "sent", "calling", "idle"} :
               run' = [run EXCEPT !.at = a]
          \/ run' = [run EXCEPT !.at = "hook", !.made = 0]
      BY <2>2 DEF SkipContract, ExecuteSingleBinding, SendContract, ContractSent,
         ContractMined, SkipHook, ExecuteHook, SendCall, ShowSummary, Proceed
    <3> QED
      BY <1>1, <3>1 DEF IsRun, Raised, Advance
  <2> QED
    BY <2>1, <2>2
<1> QED
  BY <1>2, <1>3, <1>4, LogsRest

(* The steps of a hook, and those that write the logs.                     *)
LEMMA AnsweredLogs ==
  ASSUME ViewAssumption, ViewInv, Named, Answered,
         \/ Deploy \/ Execute \/ ReplayCall \/ CallSent \/ CallMined \/ HookFails \/ FinishHook
         \/ FailHook \/ SummaryThrows \/ Crash
  PROVE  Answered'
<1>1. /\ IsFile(file) /\ IsFile(mem) /\ IsRun(run)
      /\ mem.log \in Logs /\ file.log \in Logs /\ lost \in BOOLEAN
      /\ \A h \in Hooks : /\ mem.log[h].in \in Nat /\ mem.log[h].out \in Nat
                          /\ mem.log[h].paid \in Nat
                          /\ file.log[h].in \in Nat /\ file.log[h].out \in Nat
                          /\ file.log[h].paid \in Nat
  BY DEF ViewInv, Synced, Placed, Answered, Logs
<1>11. file.log \in Logs
  BY <1>1
<1>2. CASE Deploy
  <2>1. ~At("called") /\ file' = file /\ mem' = Resolved /\ lost' = lost
        /\ run'.at # "called" /\ run'.first # "summary"
    BY <1>2 DEF Deploy, At, None
  <2>2. ~Unanswered /\ ~Unanswered'
    BY <2>1 DEF Unanswered, At
  <2>3. Unsent \in [in : Nat, out : Nat, paid : Nat] /\ Covered(Unsent)
    BY DEF Unsent, Covered
  <2>4. /\ mem'.log \in Logs
        /\ \A h \in Hooks : mem'.log[h] = Unsent \/ mem'.log[h] = file.log[h]
    <3>1. mem'.log = [h \in Hooks |-> IF h \in Undone THEN Unsent ELSE file.log[h]]
      BY <2>1 DEF Resolved
    <3> QED
      BY <1>1, <2>3, <3>1 DEF Logs
  <2> QED
    BY <2>1, <2>2, <2>3, <2>4 DEF Answered
<1>10. CASE Execute
  <2>1. ~At("called") /\ file' = mem /\ mem' = mem /\ lost' = lost
    BY <1>10 DEF Execute, At, Kept
  <2>2. run'.at # "called" /\ (run'.first = run.first \/ run'.first # "summary")
    <3>1. run' = Raised(run, "logger") \/ run' = [run EXCEPT !.at = "next"]
      BY <1>10 DEF Execute, Proceed
    <3> QED
      BY <1>1, <3>1 DEF IsRun, Raised
  <2>3. ~Unanswered /\ ~Unanswered'
    BY <2>1, <2>2 DEF Unanswered, At
  <2> QED
    BY <2>1, <2>2, <2>3 DEF Answered
<1>3. CASE ReplayCall
  <2>1. In(InContract \cup InHook) /\ In(InHook)
    BY <1>3 DEF ReplayCall, At, In, InHook
  <2>2. Elem \in Hooks
    BY <2>1, Turns
  <2>3. /\ ~Unanswered /\ ~Unanswered' /\ run'.first = run.first /\ mem' = mem /\ lost' = lost
        /\ file' = [file EXCEPT !.log[Elem].out = @ + 1]
    BY <1>1, <1>3 DEF ReplayCall, Unanswered, At, IsRun, Kept
  <2>4. file'.log = OutMore(file.log, Elem)
    BY <1>1, <2>3 DEF IsFile, OutMore
  <2>5. /\ file'.log \in Logs /\ (Covered(file.log[Elem]) => Covered(file'.log[Elem]))
        /\ \A h \in Hooks \ {Elem} : file'.log[h] = file.log[h]
    <3> DEFINE f == file.log
    <3>1. /\ OutMore(f, Elem) \in Logs /\ (Covered(f[Elem]) => Covered(OutMore(f, Elem)[Elem]))
          /\ \A h \in Hooks \ {Elem} : OutMore(f, Elem)[h] = f[h]
      <4>1. f \in Logs
        BY <1>11
      <4> HIDE DEF f
      <4> QED
        BY <2>2, <4>1, OutputLogged
    <3> QED
      BY <2>4, <3>1
  <2> QED
    BY <1>1, <2>3, <2>5 DEF Answered
<1>4. CASE CallSent
  <2>1. In(InContract \cup InHook) /\ In(InHook) /\ At("calling")
    BY <1>4 DEF CallSent, At, In, InHook
  <2>2. Elem \in Hooks /\ Shows(view)
    BY <2>1, Turns, AtWork
  <2>3. ~Unanswered /\ mem' = mem /\ lost' = lost
        /\ file' = IF Kind = "call" THEN [file EXCEPT !.log[Elem].in = @ + 1] ELSE file
    BY <1>4, <2>1 DEF CallSent, Unanswered, At, Kept
  <2>4. run' = [run EXCEPT !.at = "called"]
    <3> DEFINE w == IF Kind = "call" THEN WaitTransactionConfirmation(SentTx(view)) ELSE SentTx(view)
    <3>1. Shows(w)
      BY <2>2, Lines
    <3>2. LogLine(w) = w
      BY <3>1, Lines
    <3>3. Proceed(w, [run EXCEPT !.at = "called"])
      BY <1>4, <3>2 DEF CallSent
    <3> HIDE DEF w
    <3> QED
      BY <3>1, <3>3, GoesOn
  <2>5. /\ run'.at = "called" /\ run'.first = run.first /\ run'.pos = run.pos
        /\ run'.made = run.made
    BY <1>1, <2>4 DEF IsRun
  <2>6. Elem' = Elem /\ Kind' = Kind /\ Unanswered' = (Kind = "call")
    BY <2>5 DEF Elem, Kind, Unanswered, At
  <2>7. CASE Kind = "call"
    <3>1. file'.log = InMore(file.log, Elem)
      BY <1>1, <2>3, <2>7 DEF IsFile, InMore
    <3>2. /\ file'.log \in Logs /\ (Covered(file.log[Elem]) => CoveredButOne(file'.log[Elem]))
          /\ \A h \in Hooks \ {Elem} : file'.log[h] = file.log[h]
      <4> DEFINE f == file.log
      <4>1. /\ InMore(f, Elem) \in Logs /\ (Covered(f[Elem]) => CoveredButOne(InMore(f, Elem)[Elem]))
            /\ \A h \in Hooks \ {Elem} : InMore(f, Elem)[h] = f[h]
        <5>1. f \in Logs
          BY <1>11
        <5> HIDE DEF f
        <5> QED
          BY <2>2, <5>1, InputLogged
      <4> QED
        BY <3>1, <4>1
    <3> QED
      BY <1>1, <2>2, <2>3, <2>5, <2>6, <2>7, <3>2 DEF Answered
  <2>8. CASE Kind # "call"
    BY <2>3, <2>5, <2>6, <2>8 DEF Answered
  <2> QED
    BY <2>7, <2>8
<1>5. CASE CallMined
  <2>1. In(InContract \cup InHook) /\ In(InHook) /\ At("called")
    BY <1>5 DEF CallMined, At, In, InHook
  <2>2. Elem \in Hooks
    BY <2>1, Turns
  <2>3. /\ mem' = mem /\ lost' = lost /\ ~Unanswered' /\ run'.first = run.first
        /\ Unanswered = (Kind = "call")
        /\ file' = IF Kind = "call" THEN [file EXCEPT !.log[Elem].out = @ + 1]
                   ELSE [file EXCEPT !.log[Elem].paid = @ + 1]
    BY <1>1, <1>5, <2>1 DEF CallMined, Unanswered, At, IsRun
  <2>4. CASE Unanswered
    <3>1. file'.log = OutMore(file.log, Elem)
      BY <1>1, <2>3, <2>4 DEF IsFile, OutMore
    <3>2. /\ file'.log \in Logs /\ (CoveredButOne(file.log[Elem]) => Covered(file'.log[Elem]))
          /\ \A h \in Hooks \ {Elem} : file'.log[h] = file.log[h]
      <4> DEFINE f == file.log
      <4>1. /\ OutMore(f, Elem) \in Logs /\ (CoveredButOne(f[Elem]) => Covered(OutMore(f, Elem)[Elem]))
            /\ \A h \in Hooks \ {Elem} : OutMore(f, Elem)[h] = f[h]
        <5>1. f \in Logs
          BY <1>11
        <5> HIDE DEF f
        <5> QED
          BY <2>2, <5>1, OutputLogged
      <4> QED
        BY <3>1, <4>1
    <3> QED
      BY <1>1, <2>2, <2>3, <2>4, <3>2 DEF Answered
  <2>5. CASE ~Unanswered
    <3>1. file'.log = PaidMore(file.log, Elem)
      BY <1>1, <2>3, <2>5 DEF IsFile, PaidMore
    <3>2. /\ file'.log \in Logs /\ (Covered(file.log[Elem]) => Covered(file'.log[Elem]))
          /\ \A h \in Hooks \ {Elem} : file'.log[h] = file.log[h]
      BY <1>11, <2>2, <3>1, TransferLogged
    <3> QED
      BY <1>1, <2>2, <2>3, <2>5, <3>2 DEF Answered
  <2> QED
    BY <2>4, <2>5
<1>6. CASE HookFails \/ Crash
  <2>1. /\ file' = file /\ mem' = mem /\ lost' = (lost \/ Unanswered) /\ ~Unanswered'
        /\ run'.first = run.first \/ run'.first # "summary"
    BY <1>1, <1>6 DEF HookFails, Crash, Unfiled, Unanswered, At, Raised, IsRun
  <2>2. lost' \in BOOLEAN /\ (~lost' => ~lost /\ ~Unanswered) /\ (lost => lost')
    BY <1>1, <2>1
  <2> QED
    BY <1>1, <2>1, <2>2 DEF Answered
<1>7. CASE FinishHook
  <2>1. In(InContract \cup InHook) /\ In(InHook) /\ At("hook")
    BY <1>7 DEF FinishHook, At, In, InHook
  <2>2. Elem \in Hooks /\ ~Unanswered
    BY <2>1, Turns DEF Unanswered, At
  <2> DEFINE l == IF Elem \in EndHooks THEN Unsent ELSE file.log[Elem]
  <2>3. /\ mem' = [mem EXCEPT !.executed = @ \cup {Elem}, !.log[Elem] = l] /\ lost' = lost
        /\ file' = mem' /\ Proceed(FinishedEventExecution(view, Elem), Advance)
    BY <1>7 DEF FinishHook
  <2>4. l \in [in : Nat, out : Nat, paid : Nat] /\ (~lost => Covered(l))
    <3>1. Unsent \in [in : Nat, out : Nat, paid : Nat] /\ Covered(Unsent)
      BY DEF Unsent, Covered
    <3> QED
      BY <1>1, <2>2, <3>1 DEF Answered, Logs
  <2> HIDE DEF l
  <2>5. mem'.log \in Logs /\ \A h \in Hooks : mem'.log[h] = IF h = Elem THEN l ELSE mem.log[h]
    <3> DEFINE R == [in : Nat, out : Nat, paid : Nat]
    <3>1. mem.log \in [Hooks -> R] /\ l \in R
      BY <1>1, <2>4 DEF Logs
    <3>2. mem'.log = [mem.log EXCEPT ![Elem] = l]
      BY <1>1, <2>3 DEF IsFile
    <3> HIDE DEF R
    <3>3. /\ mem'.log \in [Hooks -> R]
          /\ \A h \in Hooks : mem'.log[h] = IF h = Elem THEN l ELSE mem.log[h]
      BY <2>2, <3>1, <3>2
    <3> QED
      BY <3>3 DEF Logs, R
  <2>6. file'.log = mem'.log
    BY <2>3
  <2>7. ~Unanswered' /\ (run'.first = run.first \/ run'.first # "summary")
    BY <1>1, <2>3 DEF Proceed, Advance, Raised, IsRun, Unanswered, At
  <2> QED
    BY <1>1, <2>3, <2>4, <2>5, <2>6, <2>7 DEF Answered
<1>8. CASE FailHook
  <2>1. file' = mem /\ mem' = mem /\ lost' = lost
        /\ run'.first = run.first /\ run'.at # "called"
    BY <1>1, <1>8 DEF FailHook, Kept, IsRun, At
  <2>2. file'.log = mem'.log /\ ~Unanswered'
    BY <1>1, <2>1 DEF Unanswered, At
  <2> QED
    BY <1>1, <2>1, <2>2 DEF Answered
<1>9. CASE SummaryThrows
  <2>1. /\ file' = file /\ mem' = mem /\ lost' = lost /\ ~Unanswered /\ ~Unanswered'
    BY <1>1, <1>9 DEF SummaryThrows, Complete, Unfiled, Kept, Unanswered, At, IsRun
  <2>2. lost
    <3>0. file.executed \subseteq Hooks
      BY DEF Named
    <3>1. PICK h \in NewHooks : ~(file.log[h].in <= Receipts(h))
      BY <1>9 DEF SummaryThrows, Countable
    <3>2. h \in Hooks
      BY <3>0, <3>1 DEF NewHooks
    <3> QED
      BY <2>1, <3>1, <3>2 DEF Answered, Covered, Receipts
  <2> QED
    BY <2>1, <2>2 DEF Answered
<1> QED
  BY <1>2, <1>3, <1>4, <1>5, <1>6, <1>7, <1>8, <1>9, <1>10

LEMMA AnsweredStep ==
  ASSUME ViewAssumption, ViewInv, Named, Answered, [Next]_vars
  PROVE  Answered'
<1>1. CASE UNCHANGED vars
  BY <1>1 DEF vars, Answered, Unanswered, At, Kind, Elem
<1>2. CASE Next
  BY <1>2, AnsweredQuiet, AnsweredLogs DEF Next, Step
<1> QED
  BY <1>1, <1>2

(***************************************************************************)
(* The count.                                                              *)
(***************************************************************************)
(* What the logger counts: finished elements, and nothing else.            *)
SameCount(v, w) == w.count = v.count /\ w.total = v.total /\ w.summary \in {<<>>, v.summary}
OneMore(v, w) == w.count = v.count + 1 /\ w.total = v.total /\ w.summary = <<>>

LEMMA LinesCount ==
  ASSUME NEW v, Shows(v)
  PROVE  /\ SameCount(v, SendingTx(v)) /\ SameCount(v, SentTx(v))
         /\ SameCount(v, WaitTransactionConfirmation(v))
         /\ SameCount(v, TransactionConfirmation(v))
<1>1. SameCount(v, SendingTx(v)) /\ SameCount(v, SentTx(v))
  BY DEF Shows, IsView, Log, Draw, SendingTx, SentTx, None, SameCount
<1>2. SameCount(v, WaitTransactionConfirmation(v)) /\ SameCount(v, TransactionConfirmation(v))
  BY DEF Shows, IsView, Log, Draw, WaitTransactionConfirmation, TransactionConfirmation, None,
         SameCount
<1> QED
  BY <1>1, <1>2

LEMMA MarksCount ==
  ASSUME NEW v, Shows(v), NEW x \in Things
  PROVE  /\ SameCount(v, AlreadyDeployed(v, x)) /\ SameCount(v, BindingExecution(v, x))
         /\ SameCount(v, EventExecution(v, x)) /\ OneMore(v, FinishedBindingExecution(v, x))
         /\ x \in Hooks => OneMore(v, FinishedEventExecution(v, x))
<1>1. Known(v, x)
  BY DEF Shows, Known
<1>2. SameCount(v, AlreadyDeployed(v, x))
  BY <1>1 DEF Shows, IsView, Log, Draw, AlreadyDeployed, None, SameCount
<1>3. SameCount(v, BindingExecution(v, x))
  BY <1>1 DEF Shows, IsView, Log, Draw, BindingExecution, None, SameCount
<1>4. SameCount(v, EventExecution(v, x))
  BY <1>1 DEF Shows, IsView, Log, Draw, EventExecution, None, SameCount
<1>5. OneMore(v, FinishedBindingExecution(v, x))
  BY <1>1 DEF Shows, IsView, Log, Draw, FinishedBindingExecution, None, OneMore
<1>6. x \in Hooks => OneMore(v, FinishedEventExecution(v, x))
  BY <1>1 DEF Shows, IsView, Log, Draw, FinishedEventExecution, None, OneMore
<1> QED
  BY <1>2, <1>3, <1>4, <1>5, <1>6

(* The count is that of the elements passed that are on record; who was    *)
(* passed and is not was to be left out; and the summary comes at the end. *)
DonePassed == {x \in Passed : IsDone(x)}
Tally ==
  /\ run.pos <= Len(Elements) + 1
  /\ view.shown => /\ view.count = Cardinality(DonePassed) /\ view.total = Len(Elements)
                   /\ \A x \in Passed : IsDone(x) \/ x \in run.skip
                   /\ view.summary # <<>> => At("idle") /\ run.pos = Len(Elements) + 1

SameRecord == file'.address = file.address /\ file'.executed = file.executed

(* A step that passes no element.                                          *)
LEMMA TallyRests ==
  ASSUME Tally, run'.pos = run.pos, run'.skip = run.skip, SameRecord,
         view'.shown => view.shown /\ SameCount(view, view'),
         ~At("idle"), view'.shown => view'.summary = <<>> \/ view'.summary = view.summary
  PROVE  Tally'
<1>1. Passed' = Passed /\ DonePassed' = DonePassed
  BY DEF Passed, DonePassed, IsDone, SameRecord
<1>2. \A x : IsDone(x)' <=> IsDone(x)
  BY DEF IsDone, SameRecord
<1> QED
  BY <1>1, <1>2 DEF Tally, SameCount

(* No element is passed twice.                                             *)
LEMMA PassedCount ==
  ASSUME ViewAssumption, run.pos \in Nat \ {0}, run.pos <= Len(Elements) + 1
  PROVE  IsFiniteSet(Passed) /\ Cardinality(Passed) = run.pos - 1
<1> DEFINE S == 1 .. run.pos - 1
           f == [i \in S |-> Elements[i]]
<1>1. Len(Elements) \in Nat /\ DOMAIN Elements = 1 .. Len(Elements)
  BY DEF ViewAssumption
<1>2. \A i, j \in DOMAIN Elements : i # j => Elements[i] # Elements[j]
  BY DEF ViewAssumption
<1>3. S \subseteq DOMAIN Elements
  BY <1>1
<1>4. IsFiniteSet(S) /\ Cardinality(S) = run.pos - 1
  <2> DEFINE n == run.pos - 1
  <2>1. n \in Nat
    OBVIOUS
  <2> HIDE DEF n
  <2>2. 1 \in Int /\ n \in Int
    BY <2>1
  <2>3. /\ IsFiniteSet(1 .. n)
        /\ Cardinality(1 .. n) = IF 1 > n THEN 0 ELSE n - 1 + 1
    BY <2>2, FS_Interval
  <2>4. Cardinality(1 .. n) = n
    BY <2>1, <2>3
  <2> QED
    BY <2>3, <2>4 DEF n
<1>5. f \in [S -> Passed] /\ \A y \in Passed : \E i \in S : f[i] = y
  BY DEF Passed
<1>6. f \in Surjection(S, Passed)
  BY <1>5 DEF Surjection
<1>7. \A i, j \in S : f[i] = f[j] => i = j
  <2>1. \A i \in S : f[i] = Elements[i] /\ i \in DOMAIN Elements
    BY <1>3
  <2> QED
    BY <1>2, <2>1, Zenon
<1>8. f \in Injection(S, Passed)
  BY <1>5, <1>7 DEF Injection, IsInjective
<1> HIDE DEF f, S
<1> QED
  BY <1>4, <1>6, <1>8, FS_Surjection

(* A step that passes one.                                                 *)
LEMMA PassedGrows ==
  ASSUME ViewAssumption, run.pos \in Nat \ {0}, run.pos <= Len(Elements), run'.pos = run.pos + 1
  PROVE  /\ Passed' = Passed \cup {Elem} /\ Elem \notin Passed /\ IsFiniteSet(Passed)
         /\ run'.pos <= Len(Elements) + 1
<1>1. Len(Elements) \in Nat /\ DOMAIN Elements = 1 .. Len(Elements)
  BY DEF ViewAssumption
<1>2. 1 .. run'.pos - 1 = (1 .. run.pos - 1) \cup {run.pos} /\ run'.pos <= Len(Elements) + 1
  BY <1>1
<1>3. Passed' = {Elements[i] : i \in 1 .. run'.pos - 1}
  BY DEF Passed
<1>4. Passed' = Passed \cup {Elem}
  BY <1>2, <1>3 DEF Passed, Elem
<1>5. Elem \notin Passed
  <2>1. \A i \in 1 .. run.pos - 1 : i \in DOMAIN Elements /\ i # run.pos /\ run.pos \in DOMAIN Elements
    BY <1>1
  <2>2. \A i, j \in DOMAIN Elements : i # j => Elements[i] # Elements[j]
    BY DEF ViewAssumption
  <2>3. \A i \in 1 .. run.pos - 1 : Elements[i] # Elements[run.pos]
    BY <2>1, <2>2, Zenon
  <2> QED
    BY <2>3 DEF Passed, Elem
<1>6. IsFiniteSet(Passed)
  BY <1>1, PassedCount
<1> QED
  BY <1>2, <1>4, <1>5, <1>6

LEMMA TallyGrows ==
  ASSUME ViewAssumption, Tally, Shows(view), run.pos \in Nat \ {0}, run.pos <= Len(Elements),
         run'.pos = run.pos + 1, run'.skip = run.skip, ~At("idle"),
         \/ /\ OneMore(view, view')
            /\ file'.address \cup file'.executed = file.address \cup file.executed \cup {Elem}
         \/ /\ SameCount(view, view') /\ SameRecord /\ ~IsDone(Elem) /\ Elem \in run.skip
  PROVE  Tally'
<1>1. /\ Passed' = Passed \cup {Elem} /\ Elem \notin Passed /\ IsFiniteSet(Passed)
      /\ run'.pos <= Len(Elements) + 1
  BY PassedGrows
<1>2. /\ view.count = Cardinality(DonePassed) /\ view.total = Len(Elements)
      /\ \A x \in Passed : IsDone(x) \/ x \in run.skip
      /\ view.summary = <<>>
  BY DEF Tally, Shows
<1>3. IsFiniteSet(DonePassed) /\ Elem \notin DonePassed
  BY <1>1, FS_Subset DEF DonePassed
<1>4. CASE /\ OneMore(view, view')
           /\ file'.address \cup file'.executed = file.address \cup file.executed \cup {Elem}
  <2>1. \A x \in Passed : IsDone(x)' <=> IsDone(x)
    BY <1>1, <1>4 DEF IsDone
  <2>2. DonePassed' = DonePassed \cup {Elem}
    <3>1. DonePassed' = {x \in Passed' : x \in file'.address \cup file'.executed}
      BY DEF DonePassed, IsDone
    <3>2. DonePassed = {x \in Passed : x \in file.address \cup file.executed}
      BY DEF DonePassed, IsDone
    <3> QED
      BY <1>1, <1>4, <3>1, <3>2
  <2>3. Cardinality(DonePassed \cup {Elem}) = Cardinality(DonePassed) + 1
    BY <1>3, FS_AddElement
  <2>4. \A x \in Passed' : IsDone(x)' \/ x \in run'.skip
    <3>1. Elem \in file'.address \cup file'.executed
      BY <1>4
    <3> QED
      BY <1>1, <1>2, <2>1, <3>1 DEF IsDone
  <2> QED
    BY <1>1, <1>2, <1>4, <2>2, <2>3, <2>4 DEF Tally, OneMore
<1>5. CASE SameCount(view, view') /\ SameRecord /\ ~IsDone(Elem) /\ Elem \in run.skip
  <2>1. \A x : IsDone(x)' <=> IsDone(x)
    BY <1>5 DEF IsDone, SameRecord
  <2>2. DonePassed' = DonePassed
    BY <1>1, <1>5, <2>1 DEF DonePassed
  <2>3. \A x \in Passed' : IsDone(x)' \/ x \in run'.skip
    BY <1>1, <1>2, <1>5, <2>1
  <2> QED
    BY <1>1, <1>2, <1>5, <2>2, <2>3 DEF Tally, SameCount
<1> QED
  BY <1>4, <1>5

(* The steps that pass an element, and whether they count it.              *)
LEMMA PassesOne ==
  ASSUME ViewAssumption, ViewInv, Named,
         SkipContract \/ LeaveOut \/ SkipHook \/ ContractMined \/ FinishHook
  PROVE  /\ run.pos <= Len(Elements) /\ ~At("idle") /\ Shows(view)
         /\ run.pos \in Nat \ {0} /\ IsRun(run) /\ IsFile(file) /\ run' = Advance
         /\ \/ /\ OneMore(view, view')
               /\ file'.address \cup file'.executed = file.address \cup file.executed \cup {Elem}
            \/ /\ SameCount(view, view') /\ SameRecord /\ ~IsDone(Elem) /\ Elem \in run.skip
<1>1. /\ In(Working) /\ run.pos <= Len(Elements) /\ ~At("idle")
      /\ Shows(view) /\ IsRun(run) /\ IsFile(file) /\ Elem \in Things /\ run.pos \in Nat \ {0}
  <2>1. CASE SkipContract \/ LeaveOut \/ SkipHook
    <3>1. At("next") /\ run.pos <= Len(Elements) /\ In(Working) /\ ~At("idle")
      BY <2>1 DEF SkipContract, LeaveOut, SkipHook, AtContract, AtHook, At, In, Working
    <3> QED
      BY <3>1, AtWork DEF ViewInv, Placed
  <2>2. CASE ContractMined \/ FinishHook
    <3>1. In(InContract \cup InHook) /\ ~At("idle")
      BY <2>2 DEF ContractMined, FinishHook, At, In, InContract, InHook
    <3> QED
      BY <3>1, Turns, AtWork DEF ViewInv, Placed
  <2> QED
    BY <2>1, <2>2
<1>2. CASE SkipContract
  <2> DEFINE v == AlreadyDeployed(view, Elem)
             w == FinishedBindingExecution(v, Elem)
  <2>1. Shows(v) /\ SameCount(view, v)
    BY <1>1, Marks, MarksCount
  <2> HIDE DEF v
  <2>2. Shows(w) /\ OneMore(v, w)
    BY <1>1, <2>1, Marks, MarksCount
  <2> HIDE DEF w
  <2>3. OneMore(view, w)
    BY <2>1, <2>2 DEF SameCount, OneMore
  <2>4. view' = w /\ run' = Advance
    BY <1>2, <2>2, GoesOn DEF SkipContract, v, w
  <2>5. file'.address \cup file'.executed = file.address \cup file.executed \cup {Elem}
    BY <1>2 DEF SkipContract, Unfiled
  <2> QED
    BY <1>1, <2>3, <2>4, <2>5
<1>3. CASE LeaveOut
  <2>1. view' = view /\ run' = Advance /\ SameRecord /\ Elem \in run.skip
    BY <1>3 DEF LeaveOut, Unfiled, SameRecord
  <2>2. ~IsDone(Elem)
    <3>1. Elem \in Contracts /\ Elem \notin file.address
      BY <1>3 DEF LeaveOut, AtContract
    <3>2. Elem \notin Hooks
      BY <3>1 DEF ViewAssumption
    <3> QED
      BY <3>1, <3>2 DEF IsDone, Named
  <2> QED
    BY <1>1, <2>1, <2>2 DEF SameCount
<1>4. CASE SkipHook
  <2> DEFINE u == EventExecution(view, Elem)
             v == AlreadyDeployed(u, Elem)
             w == FinishedEventExecution(v, Elem)
  <2>0. Elem \in Hooks
    BY <1>4 DEF SkipHook, AtHook
  <2>1. Shows(u) /\ SameCount(view, u)
    BY <1>1, Marks, MarksCount
  <2> HIDE DEF u
  <2>2. Shows(v) /\ SameCount(u, v)
    BY <1>1, <2>1, Marks, MarksCount
  <2> HIDE DEF v
  <2>3. Shows(w) /\ OneMore(v, w)
    BY <1>1, <2>0, <2>2, Marks, MarksCount
  <2> HIDE DEF w
  <2>4. OneMore(view, w)
    BY <2>1, <2>2, <2>3 DEF SameCount, OneMore
  <2>5. view' = w /\ run' = Advance
    BY <1>4, <2>3, GoesOn DEF SkipHook, u, v, w
  <2>6. file'.address \cup file'.executed = file.address \cup file.executed \cup {Elem}
    BY <1>4 DEF SkipHook, Unfiled
  <2> QED
    BY <1>1, <2>4, <2>5, <2>6
<1>5. CASE ContractMined
  <2> DEFINE v == TransactionConfirmation(view)
             w == FinishedBindingExecution(v, Elem)
  <2>1. Shows(v) /\ SameCount(view, v)
    BY <1>1, Lines, LinesCount
  <2> HIDE DEF v
  <2>2. Shows(w) /\ OneMore(v, w)
    BY <1>1, <2>1, Marks, MarksCount
  <2> HIDE DEF w
  <2>3. OneMore(view, w)
    BY <2>1, <2>2 DEF SameCount, OneMore
  <2>4. view' = w /\ run' = Advance
    BY <1>5, <2>2, GoesOn DEF ContractMined, v, w
  <2>5. file' = [file EXCEPT !.address = @ \cup {Elem}]
    BY <1>5 DEF ContractMined
  <2>6. file'.address \cup file'.executed = file.address \cup file.executed \cup {Elem}
    BY <1>1, <2>5 DEF IsFile
  <2> QED
    BY <1>1, <2>3, <2>4, <2>6
<1>6. CASE FinishHook
  <2> DEFINE w == FinishedEventExecution(view, Elem)
  <2>0. In(InContract \cup InHook) /\ In(InHook)
    BY <1>6 DEF FinishHook, At, In, InHook
  <2>1. Elem \in Hooks
    BY <2>0, Turns
  <2>2. Shows(w) /\ OneMore(view, w)
    BY <1>1, <2>1, Marks, MarksCount
  <2> HIDE DEF w
  <2>3. view' = w /\ run' = Advance
    BY <1>6, <2>2, GoesOn DEF FinishHook, w
  <2> DEFINE l == IF Elem \in EndHooks THEN Unsent ELSE file.log[Elem]
  <2>4. file' = mem' /\ mem' = [mem EXCEPT !.executed = @ \cup {Elem}, !.log[Elem] = l]
    BY <1>6 DEF FinishHook
  <2> HIDE DEF l
  <2>5. file'.address \cup file'.executed = file.address \cup file.executed \cup {Elem}
    BY <1>1, <2>4, AtWork DEF IsFile
  <2> QED
    BY <1>1, <2>2, <2>3, <2>5
<1> QED
  BY <1>2, <1>3, <1>4, <1>5, <1>6

(* The other steps of an element.                                          *)
LEMMA Works ==
  ASSUME ViewAssumption, ViewInv,
         \/ ExecuteSingleBinding \/ SendContract \/ ContractSent \/ ContractFails
         \/ DepsMissing \/ ExecuteHook \/ ReplayCall \/ SendCall \/ CallSent \/ CallMined \/ HookFails
  PROVE  /\ ~At("idle") /\ view.shown /\ IsRun(run) /\ SameRecord /\ SameCount(view, view')
         /\ run'.pos = run.pos /\ run'.skip = run.skip
<1>1. /\ ~At("idle") /\ Shows(view) /\ IsRun(run) /\ IsFile(file) /\ Elem \in Things
  <2>1. CASE ExecuteSingleBinding \/ DepsMissing \/ ExecuteHook
    <3>1. At("next") /\ run.pos <= Len(Elements) /\ In(Working) /\ ~At("idle")
      BY <2>1 DEF ExecuteSingleBinding, DepsMissing, ExecuteHook, AtContract, AtHook, At, In, Working
    <3> QED
      BY <3>1, AtWork
  <2>2. CASE ~(ExecuteSingleBinding \/ DepsMissing \/ ExecuteHook)
    <3>1. In(InContract \cup InHook) /\ ~At("idle")
      BY <2>2 DEF SendContract, ContractSent, ContractFails, ReplayCall, SendCall, CallSent,
         CallMined, HookFails, At, In, InContract, InHook
    <3> QED
      BY <3>1, Turns, AtWork
  <2> QED
    BY <2>1, <2>2
<1>2. SameRecord
  BY <1>1 DEF ExecuteSingleBinding, SendContract, ContractSent, ContractFails, DepsMissing,
     ExecuteHook, ReplayCall, SendCall, CallSent, CallMined, HookFails, Unfiled, IsFile, SameRecord
<1>3. SameCount(view, view')
  <2>1. CASE ExecuteSingleBinding
    <3>1. Shows(BindingExecution(view, Elem)) /\ SameCount(view, BindingExecution(view, Elem))
      BY <1>1, Marks, MarksCount
    <3> QED
      BY <2>1, <3>1, GoesOn DEF ExecuteSingleBinding
  <2>2. CASE SendContract \/ SendCall
    <3>1. LogLine(view) = view /\ Shows(SendingTx(view)) /\ SameCount(view, SendingTx(view))
      BY <1>1, Lines, LinesCount
    <3> QED
      BY <2>2, <3>1, GoesOn DEF SendContract, SendCall
  <2>3. CASE ContractSent
    <3> DEFINE u == SentTx(view)
               v == WaitTransactionConfirmation(u)
               w == TransactionConfirmation(v)
    <3>1. Shows(u) /\ SameCount(view, u)
      BY <1>1, Lines, LinesCount
    <3> HIDE DEF u
    <3>2. Shows(v) /\ SameCount(u, v)
      BY <3>1, Lines, LinesCount
    <3> HIDE DEF v
    <3>3. Shows(w) /\ SameCount(v, w)
      BY <3>2, Lines, LinesCount
    <3> HIDE DEF w
    <3>4. view' = w
      BY <2>3, <3>3, GoesOn DEF ContractSent, u, v, w
    <3> QED
      BY <3>1, <3>2, <3>3, <3>4 DEF SameCount
  <2>4. CASE ContractFails
    BY <1>1, <2>4, LinesCount DEF ContractFails, SameCount
  <2>5. CASE DepsMissing
    BY <1>1, <2>5, MarksCount DEF DepsMissing
  <2>6. CASE ExecuteHook
    <3>1. Shows(EventExecution(view, Elem)) /\ SameCount(view, EventExecution(view, Elem))
      BY <1>1, Marks, MarksCount
    <3> QED
      BY <2>6, <3>1, GoesOn DEF ExecuteHook
  <2>7. CASE ReplayCall \/ CallMined \/ HookFails
    BY <2>7 DEF ReplayCall, CallMined, HookFails, Kept, SameCount
  <2>8. CASE CallSent
    <3> DEFINE u == SentTx(view)
               v == WaitTransactionConfirmation(u)
               w == IF Kind = "call" THEN v ELSE u
    <3>1. Shows(u) /\ SameCount(view, u)
      BY <1>1, Lines, LinesCount
    <3>2. Shows(v) /\ SameCount(view, v)
      <4> HIDE DEF u
      <4>1. Shows(v) /\ SameCount(u, v)
        BY <3>1, Lines, LinesCount
      <4> QED
        BY <3>1, <4>1 DEF SameCount
    <3>3. Shows(w) /\ SameCount(view, w)
      BY <3>1, <3>2
    <3>4. LogLine(w) = w
      BY <3>3, Lines
    <3>5. Proceed(w, [run EXCEPT !.at = "called"])
      BY <2>8, <3>4 DEF CallSent
    <3> HIDE DEF w
    <3> QED
      BY <3>3, <3>5, GoesOn
  <2> QED
    BY <2>1, <2>2, <2>3, <2>4, <2>5, <2>6, <2>7, <2>8
<1>4. run'.pos = run.pos /\ run'.skip = run.skip
  <2>1. \/ \E a \in {"binding", "sending", "sent", "calling", "called"} : run' = [run EXCEPT !.at = a]
        \/ run' = [run EXCEPT !.at = "hook", !.made = 0]
        \/ run' = [run EXCEPT !.made = @ + 1]
        \/ run' = [run EXCEPT !.at = "hook", !.made = @ + 1]
        \/ \E e : run' = Raised(run, e)
    BY DEF ExecuteSingleBinding, SendContract, ContractSent, ContractFails, DepsMissing,
       ExecuteHook, ReplayCall, SendCall, CallSent, CallMined, HookFails, Proceed
  <2> QED
    BY <1>1, <2>1 DEF IsRun, Raised
<1> QED
  BY <1>1, <1>2, <1>3, <1>4 DEF Shows

LEMMA TallyElement ==
  ASSUME ViewAssumption, ViewInv, Named, Tally,
         \/ SkipContract \/ LeaveOut \/ SkipHook \/ ContractMined \/ FinishHook
         \/ ExecuteSingleBinding \/ SendContract \/ ContractSent \/ ContractFails
         \/ DepsMissing \/ ExecuteHook \/ ReplayCall \/ SendCall \/ CallSent \/ CallMined \/ HookFails
  PROVE  Tally'
<1>1. CASE SkipContract \/ LeaveOut \/ SkipHook \/ ContractMined \/ FinishHook
  <2>1. run' = Advance /\ IsRun(run)
    BY <1>1, PassesOne
  <2>2. run'.pos = run.pos + 1 /\ run'.skip = run.skip
    BY <2>1 DEF Advance, IsRun
  <2> QED
    BY <1>1, <2>2, PassesOne, TallyGrows
<1>2. CASE ~(SkipContract \/ LeaveOut \/ SkipHook \/ ContractMined \/ FinishHook)
  BY <1>2, Works, TallyRests DEF SameCount
<1> QED
  BY <1>1, <1>2

(* A deployment starts with the first element.                             *)
Starts == At("resolving") => run.pos = 1
LEMMA StartsStep ==
  ASSUME ViewInv, Starts, [Next]_vars
  PROVE  Starts'
<1>1. IsRun(run)
  BY DEF ViewInv, Placed
<1>2. CASE Deploy
  BY <1>2 DEF Deploy, Starts
<1>3. CASE Step
  <2>1. CASE \/ Execute \/ SkipContract \/ ExecuteSingleBinding \/ SendContract \/ ContractSent
             \/ ContractMined \/ SkipHook \/ ExecuteHook \/ SendCall \/ CallSent \/ FinishHook
             \/ ShowSummary
    <3>1. \/ \E a \in {"next", "binding", "sending", "sent", "calling", "called", "idle"} :
               run' = [run EXCEPT !.at = a]
          \/ run' = [run EXCEPT !.at = "hook", !.made = 0]
          \/ run' = Advance \/ run' = Raised(run, "logger")
      <4>1. CASE Execute \/ SkipContract \/ ExecuteSingleBinding \/ SendContract \/ ContractSent
        BY <4>1 DEF Execute, SkipContract, ExecuteSingleBinding, SendContract, ContractSent, Proceed
      <4>2. CASE ContractMined \/ SkipHook \/ ExecuteHook \/ SendCall \/ CallSent \/ FinishHook
        BY <4>2 DEF ContractMined, SkipHook, ExecuteHook, SendCall, CallSent, FinishHook, Proceed
      <4>3. CASE ShowSummary
        BY <4>3 DEF ShowSummary, Proceed
      <4> QED
        BY <2>1, <4>1, <4>2, <4>3
    <3> QED
      BY <1>1, <3>1 DEF IsRun, Advance, Raised, Starts, At
  <2>2. CASE StoreFails \/ ContractFails \/ DepsMissing \/ HookFails
    <3>1. \E e : run' = Raised(run, e)
      BY <2>2 DEF StoreFails, ContractFails, DepsMissing, HookFails
    <3> QED
      BY <1>1, <3>1 DEF IsRun, Raised, Starts, At
  <2>3. CASE ResolveFails \/ LeaveOut \/ ReplayCall \/ CallMined
    BY <1>1, <2>3 DEF ResolveFails, LeaveOut, ReplayCall, CallMined, Advance, IsRun, Starts, At
  <2>4. CASE FailHook
    BY <1>1, <2>4 DEF FailHook, IsRun, Starts, At
  <2>5. CASE FailHookThrows \/ FailHooksDone \/ ReportError \/ SummaryThrows
    BY <1>1, <2>5 DEF FailHookThrows, FailHooksDone, ReportError, SummaryThrows, IsRun, Starts, At
  <2> QED
    BY <1>3, <2>1, <2>2, <2>3, <2>4, <2>5 DEF Step
<1>4. CASE Crash
  BY <1>1, <1>4 DEF Crash, Starts, At, IsRun
<1>5. CASE UNCHANGED vars
  BY <1>5 DEF vars, Starts, At
<1> QED
  BY <1>2, <1>3, <1>4, <1>5 DEF Next

LEMMA NamedStep ==
  ASSUME ViewAssumption, ViewInv, Named, [Next]_vars
  PROVE  Named'
<1>1. IsFile(file) /\ IsFile(mem)
  BY DEF ViewInv, Synced
<1>2. CASE ContractMined
  <2>1. In(InContract \cup InHook) /\ In(InContract)
    BY <1>2 DEF ContractMined, At, In, InContract
  <2>2. Elem \in Contracts
    BY <2>1, Turns
  <2>3. /\ file'.address = file.address \cup {Elem} /\ file'.executed = file.executed
        /\ mem'.address = mem.address \cup {Elem} /\ mem'.executed = mem.executed
    BY <1>1, <1>2 DEF ContractMined, IsFile
  <2> QED
    BY <2>2, <2>3 DEF Named
<1>3. CASE FinishHook
  <2>1. In(InContract \cup InHook) /\ In(InHook)
    BY <1>3 DEF FinishHook, At, In, InHook
  <2>2. Elem \in Hooks
    BY <2>1, Turns
  <2> DEFINE l == IF Elem \in EndHooks THEN Unsent ELSE file.log[Elem]
  <2>3. file' = mem' /\ mem' = [mem EXCEPT !.executed = @ \cup {Elem}, !.log[Elem] = l]
    BY <1>3 DEF FinishHook
  <2> HIDE DEF l
  <2>4. mem'.address = mem.address /\ mem'.executed = mem.executed \cup {Elem}
    BY <1>1, <2>3 DEF IsFile
  <2> QED
    BY <2>2, <2>3, <2>4 DEF Named
<1>4. CASE Deploy
  <2>1. file' = file /\ mem' = Resolved
    BY <1>4 DEF Deploy
  <2>2. Resolved.address \subseteq file.address /\ Resolved.executed \subseteq file.executed
    BY DEF Resolved
  <2> QED
    BY <2>1, <2>2 DEF Named
<1>5. CASE Execute \/ FailHook
  <2>1. file' = mem /\ mem' = mem
    BY <1>5 DEF Execute, FailHook
  <2> QED
    BY <2>1 DEF Named
<1>6. CASE ~ContractMined /\ ~FinishHook /\ ~Deploy /\ ~Execute /\ ~FailHook
  <2>1. /\ mem' = mem
        /\ \/ file' = file
           \/ file' = [file EXCEPT !.log[Elem].out = @ + 1]
           \/ file' = [file EXCEPT !.log[Elem].in = @ + 1]
           \/ file' = [file EXCEPT !.log[Elem].paid = @ + 1]
    <3>1. CASE ReplayCall \/ CallSent \/ CallMined \/ Crash
      BY <3>1 DEF ReplayCall, CallSent, CallMined, Crash, Unfiled
    <3>2. CASE ~(ReplayCall \/ CallSent \/ CallMined \/ Crash)
      BY <1>6, <3>2 DEF Next, Step, vars, ResolveFails, StoreFails, SkipContract,
         LeaveOut, ExecuteSingleBinding, SendContract, ContractSent, ContractFails, SkipHook,
         DepsMissing, ExecuteHook, SendCall, HookFails, FailHookThrows, FailHooksDone,
         ReportError, ShowSummary, SummaryThrows, Unfiled
    <3> QED
      BY <3>1, <3>2
  <2>2. file'.address = file.address /\ file'.executed = file.executed
    BY <1>1, <2>1 DEF IsFile
  <2> QED
    BY <2>1, <2>2 DEF Named
<1> QED
  BY <1>2, <1>3, <1>4, <1>5, <1>6

(* Nothing is shown, and so nothing is counted.                            *)
LEMMA TallyHidden ==
  ASSUME view'.shown = FALSE, run'.pos <= Len(Elements) + 1
  PROVE  Tally'
BY DEF Tally

(* The steps that begin and end a deployment.                              *)
LEMMA TallyEnds ==
  ASSUME ViewAssumption, ViewInv, Starts, Tally,
         \/ Deploy \/ ResolveFails \/ StoreFails \/ Execute
         \/ FailHook \/ FailHookThrows \/ FailHooksDone
         \/ ReportError \/ ShowSummary \/ SummaryThrows \/ Crash
  PROVE  Tally'
<1>1. /\ IsRun(run) /\ IsFile(file) /\ IsView(view) /\ view.threw = FALSE
      /\ run.pos \in Nat \ {0} /\ run.pos <= Len(Elements) + 1 /\ Len(Elements) \in Nat
  BY DEF ViewInv, LoggerKnows, Placed, Tally, ViewAssumption
<1>2. CASE Deploy \/ ReportError \/ Crash
  <2>1. view'.shown = FALSE
    <3>1. CASE Deploy \/ Crash
      <4>1. CASE view' = NewView
        BY <4>1 DEF NewView
      <4>2. CASE view' = AfterOther
        BY <4>2 DEF NewView, AfterOther
      <4> QED
        BY <3>1, <4>1, <4>2 DEF Deploy, Crash
    <3>2. CASE ReportError
      BY <1>1, <3>2 DEF ReportError, LogError, Draw, IsView
    <3> QED
      BY <1>2, <3>1, <3>2
  <2>2. run'.pos <= Len(Elements) + 1
    <3>1. CASE Deploy
      <4>1. run'.pos = 1
        BY <3>1 DEF Deploy
      <4> QED
        BY <1>1, <4>1
    <3>2. CASE ReportError \/ Crash
      <4>1. run' = [run EXCEPT !.at = "idle"]
        BY <3>2 DEF ReportError, Crash
      <4> QED
        BY <1>1, <4>1 DEF IsRun
    <3> QED
      BY <1>2, <3>1, <3>2
  <2> QED
    BY <2>1, <2>2, TallyHidden
<1>3. CASE ResolveFails \/ StoreFails
  <2>1. view'.shown = FALSE \/ ~view'.shown
    BY <1>3 DEF ResolveFails, StoreFails, ViewInv, LoggerKnows
  <2>2. run'.pos <= Len(Elements) + 1
    BY <1>1, <1>3 DEF ResolveFails, StoreFails, IsRun, Raised
  <2> QED
    BY <2>1, <2>2 DEF Tally
<1>4. CASE Execute
  <2> DEFINE v == StartModuleDeploy(view)
  <2>1. v.threw = FALSE /\ v.count = 0 /\ v.total = Len(Elements) /\ v.summary = <<>> /\ IsView(v)
    <3> DEFINE s == [x \in {Elements[i] : i \in DOMAIN Elements} |-> "empty"]
    <3>1. v = [view EXCEPT !.context = "this", !.shown = TRUE, !.count = 0,
                !.total = Len(Elements), !.status = s, !.tx = "", !.message = None,
                !.summary = <<>>]
      BY DEF StartModuleDeploy
    <3> HIDE DEF s, v
    <3> QED
      BY <1>1, <3>1 DEF IsView
  <2> HIDE DEF v
  <2>2. view' = v /\ run' = [run EXCEPT !.at = "next"]
    BY <1>4, <2>1 DEF Execute, Proceed, IsView, v
  <2>3. run'.pos = 1
    BY <1>1, <1>4, <2>2 DEF Execute, Starts, IsRun
  <2>4. Passed' = {} /\ DonePassed' = {}
    BY <2>3 DEF Passed, DonePassed
  <2> QED
    BY <1>1, <2>1, <2>2, <2>3, <2>4, FS_EmptySet DEF Tally
<1>5. CASE FailHook \/ FailHookThrows \/ FailHooksDone \/ SummaryThrows
  <2>1. ~At("idle") /\ (view.shown => SameRecord)
    <3>1. ~At("idle") /\ (file' = file \/ file' = mem)
      BY <1>5 DEF FailHook, FailHookThrows, FailHooksDone, SummaryThrows, Complete, At, Unfiled
    <3> QED
      BY <3>1 DEF ViewInv, Synced, SameRecord
  <2>2. run'.pos = run.pos /\ run'.skip = run.skip
    BY <1>1, <1>5 DEF FailHook, FailHookThrows, FailHooksDone, SummaryThrows, IsRun
  <2>3. view'.shown = view.shown /\ SameCount(view, view')
    <3>1. CASE FailHook
      <4> DEFINE v == FinishedEventExecution(view, Head(run.left))
      <4>1. run.left # <<>> /\ run.left \in Seq(STRING \ Hooks)
        BY <3>1 DEF FailHook, ViewInv, Blamed
      <4>2. Head(run.left) \notin Hooks
        BY <4>1
      <4>3. v = view \/ v = [view EXCEPT !.threw = TRUE]
        BY <4>2 DEF FinishedEventExecution, LogLine, Log
      <4>4. view' = [v EXCEPT !.threw = FALSE]
        BY <3>1 DEF FailHook
      <4> HIDE DEF v
      <4>5. view' = view
        BY <1>1, <4>3, <4>4 DEF IsView
      <4> QED
        BY <4>5 DEF SameCount
    <3>2. CASE ~FailHook
      BY <1>5, <3>2 DEF FailHookThrows, FailHooksDone, SummaryThrows, SameCount
    <3> QED
      BY <3>1, <3>2
  <2>4. CASE view.shown
    BY <2>1, <2>2, <2>3, <2>4, TallyRests DEF SameCount
  <2>5. CASE ~view.shown
    BY <1>1, <2>2, <2>3, <2>5 DEF Tally
  <2> QED
    BY <2>4, <2>5
<1>6. CASE ShowSummary
  <2>1. At("next") /\ run.pos = Len(Elements) + 1 /\ Shows(view) /\ SameRecord
    BY <1>1, <1>6 DEF ShowSummary, Complete, Unfiled, SameRecord, ViewInv, LoggerKnows, In, At,
       Working
  <2> DEFINE v == FinishModuleDeploy(view, Transactions)
  <2>2. Shows(v) /\ v.count = view.count /\ v.total = view.total
    BY <2>1 DEF Shows, IsView, FinishModuleDeploy, Log, Draw, None
  <2>3. Proceed(v, [run EXCEPT !.at = "idle"])
    BY <1>6 DEF ShowSummary
  <2> HIDE DEF v
  <2>4. view' = v /\ run' = [run EXCEPT !.at = "idle"]
    BY <2>2, <2>3, GoesOn
  <2>5. run'.pos = run.pos /\ run'.skip = run.skip /\ run'.at = "idle"
    BY <1>1, <2>4 DEF IsRun
  <2>6. Passed' = Passed /\ DonePassed' = DonePassed /\ \A x : IsDone(x)' <=> IsDone(x)
    BY <2>1, <2>5 DEF Passed, DonePassed, IsDone, SameRecord
  <2>7. view.shown
    BY <2>1 DEF Shows
  <2> QED
    BY <1>1, <2>1, <2>2, <2>4, <2>5, <2>6, <2>7 DEF Tally, At
<1> QED
  BY <1>2, <1>3, <1>4, <1>5, <1>6

LEMMA TallyStep ==
  ASSUME ViewAssumption, ViewInv, Named, Starts, Tally, [Next]_vars
  PROVE  Tally'
<1>1. CASE UNCHANGED vars
  BY <1>1 DEF vars, Tally, Passed, DonePassed, IsDone, At
<1>2. CASE Next
  BY <1>2, TallyElement, TallyEnds DEF Next, Step
<1> QED
  BY <1>1, <1>2

LEMMA InitTally ==
  ASSUME ViewAssumption, Init
  PROVE  Named /\ Starts /\ Tally
<1>0. Len(Elements) \in Nat
  BY DEF ViewAssumption
<1>1. view.shown = FALSE /\ run.at = "idle" /\ run.pos = 1
  BY DEF Init, NewView
<1>2. file.address = {} /\ file.executed = {} /\ mem = file
  BY DEF Init
<1> QED
  BY <1>0, <1>1, <1>2 DEF Named, Starts, Tally, At

LEMMA Hundred == ASSUME NEW t \in Nat \ {0} PROVE (t * 200 + t) \div (2 * t) = 100
<1>1. t * 200 + t = (2 * t) * 100 + t
  OBVIOUS
<1>2. 2 * t \in Nat /\ 2 * t > t /\ t >= 0
  OBVIOUS
<1> QED
  BY <1>1, <1>2

(* The number of elements on record is the number of ticks counted, and    *)
(* a deployment that leaves nothing out ends with 100%; of a module with   *)
(* no elements there is no percentage.                                     *)
THEOREM CountExact ==
  ASSUME ViewAssumption, Elements # <<>>
  PROVE  Spec => []ProgressExact
<1> DEFINE Inv == Named /\ Starts /\ Tally
<1>1. ViewInv /\ Inv => ProgressExact
  <2> SUFFICES ASSUME ViewInv, Inv, view.shown PROVE
                 /\ view.count = Cardinality({x \in Passed : IsDone(x)})
                 /\ view.summary # <<>> /\ run.skip \subseteq file.address => Percentage(view) = 100
    BY DEF ProgressExact
  <2>1. view.count = Cardinality({x \in Passed : IsDone(x)})
    BY DEF Tally, DonePassed
  <2>2. ASSUME view.summary # <<>>, run.skip \subseteq file.address
        PROVE  Percentage(view) = 100
    <3>1. /\ run.pos = Len(Elements) + 1 /\ view.total = Len(Elements)
          /\ \A x \in Passed : IsDone(x) \/ x \in run.skip
      BY <2>2 DEF Tally
    <3>2. {x \in Passed : IsDone(x)} = Passed
      BY <2>2, <3>1 DEF IsDone
    <3>3. Len(Elements) \in Nat \ {0}
      BY DEF ViewAssumption
    <3>4. Cardinality(Passed) = run.pos - 1
      BY <3>1, <3>3, PassedCount
    <3>5. view.count = Len(Elements)
      <4>1. view.count = Cardinality(Passed)
        BY <2>1, <3>2, Zenon
      <4>2. run.pos - 1 = Len(Elements)
        BY <3>1, <3>3
      <4> QED
        BY <3>4, <4>1, <4>2
    <3>6. (Len(Elements) * 200 + Len(Elements)) \div (2 * Len(Elements)) = 100
      BY <3>3, Hundred
    <3> QED
      BY <3>1, <3>5, <3>6 DEF Percentage
  <2> QED
    BY <2>1, <2>2
<1>2. Init => Inv
  BY InitTally
<1>3. ViewInv /\ Inv /\ [Next]_vars => Inv'
  BY NamedStep, StartsStep, TallyStep
<1> QED
  BY <1>1, <1>2, <1>3, ViewInvariant, PTL DEF Spec

(* A complete deployment is reported as failed only if a receipt was lost. *)
THEOREM FailsAfterLoss == ASSUME ViewAssumption PROVE Spec => []SummaryFailsAfterLoss
<1>1. Init => Named /\ Answered
  BY InitTally, InitAnswered
<1>2. ViewInv /\ Named /\ Answered /\ [Next]_vars => (Named /\ Answered)'
  BY NamedStep, AnsweredStep
<1>3. Answered => SummaryFailsAfterLoss
  BY DEF Answered, SummaryFailsAfterLoss
<1> QED
  BY <1>1, <1>2, <1>3, ViewInvariant, PTL DEF Spec
(***************************************************************************)
(* The sum the summary computes.  What is true of every number is shown    *)
(* with the least one of which it is not.                                  *)
(***************************************************************************)
LEMMA Least ==
  ASSUME NEW T, T \subseteq Nat, T # {}
  PROVE  \E m \in T : \A k \in T : m <= k
<1> DEFINE R == OpToRel(<, Nat)
<1>1. IsWellFoundedOn(R, Nat)
  BY NatLessThanWellFounded, Zenon
<1>2. \A a, b \in Nat : a < b => <<a, b>> \in R
  BY Zenon DEF OpToRel
<1> HIDE DEF R
<1>3. PICK m \in T : \A k \in T : ~(<<k, m>> \in R)
  BY <1>1, WFMin, Zenon
<1>4. ASSUME NEW k \in T PROVE m <= k
  <2>1. ~(<<k, m>> \in R) /\ k \in Nat /\ m \in Nat
    BY <1>3
  <2>2. ~(k < m)
    BY <1>2, <2>1, Zenon
  <2> QED
    BY <2>1, <2>2
<1> QED
  BY <1>4

Adds(f, S, i) == IF Elements[i] \in S THEN f[Elements[i]] ELSE 0
SumFcn(s, f, S, n) == s = [k \in 0 .. n |-> IF k = 0 THEN 0 ELSE s[k - 1] + Adds(f, S, k)]

(* There is such a function.                                               *)
LEMMA SumExists ==
  ASSUME NEW f, NEW S, NEW n \in Nat
  PROVE  \E s : SumFcn(s, f, S, n)
<1> DEFINE T == {m \in Nat : ~\E s : SumFcn(s, f, S, m)}
<1> SUFFICES ASSUME T # {} PROVE FALSE
  OBVIOUS
<1>1. PICK m \in T : \A k \in T : m <= k
  BY Least
<1>2. m # 0
  <2>1. SumFcn([k \in 0 .. 0 |-> 0], f, S, 0)
    BY DEF SumFcn
  <2> QED
    BY <1>1, <2>1
<1>3. m - 1 \in Nat /\ m - 1 \notin T
  BY <1>1, <1>2
<1>4. PICK r : SumFcn(r, f, S, m - 1)
  BY <1>3
<1> DEFINE s == [k \in 0 .. m |-> IF k < m THEN r[k] ELSE r[m - 1] + Adds(f, S, m)]
<1>5. \A k \in 0 .. m - 1 : r[k] = IF k = 0 THEN 0 ELSE r[k - 1] + Adds(f, S, k)
  BY <1>4 DEF SumFcn
<1>6. \A k \in 0 .. m : s[k] = IF k = 0 THEN 0 ELSE s[k - 1] + Adds(f, S, k)
  <2> SUFFICES ASSUME NEW k \in 0 .. m PROVE s[k] = IF k = 0 THEN 0 ELSE s[k - 1] + Adds(f, S, k)
    OBVIOUS
  <2> HIDE DEF T
  <2>1. m \in Nat
    BY <1>1 DEF T
  <2>2. CASE k = 0
    BY <1>2, <1>5, <2>1, <2>2
  <2>3. CASE k # 0 /\ k < m
    <3>1. k \in 0 .. m - 1 /\ k - 1 \in 0 .. m /\ k - 1 < m
      BY <2>1, <2>3
    <3>2. s[k] = r[k] /\ s[k - 1] = r[k - 1]
      BY <2>3, <3>1
    <3> QED
      BY <1>5, <2>3, <3>1, <3>2
  <2>4. CASE k = m
    <3>1. m - 1 \in 0 .. m /\ m - 1 < m
      BY <1>2, <2>1
    <3>2. s[m - 1] = r[m - 1] /\ s[m] = r[m - 1] + Adds(f, S, m)
      BY <2>1, <3>1
    <3> QED
      BY <1>2, <2>4, <3>2
  <2> QED
    BY <2>1, <2>2, <2>3, <2>4
<1>7. SumFcn(s, f, S, m)
  <2>1. s = [k \in 0 .. m |-> s[k]]
    OBVIOUS
  <2> HIDE DEF s
  <2> QED
    BY <1>6, <2>1 DEF SumFcn
<1> HIDE DEF s
<1> QED
  BY <1>1, <1>7

LEMMA SumsAre ==
  ASSUME ViewAssumption, NEW f, NEW S
  PROVE  /\ Sums(f, S)[0] = 0 /\ Sum(f, S) = Sums(f, S)[Len(Elements)]
         /\ \A k \in 1 .. Len(Elements) : Sums(f, S)[k] = Sums(f, S)[k - 1] + Adds(f, S, k)
<1> DEFINE n == Len(Elements)
<1>1. n \in Nat
  BY DEF ViewAssumption
<1>2. Sums(f, S) = CHOOSE s : SumFcn(s, f, S, n)
  BY DEF Sums, SumFcn, Adds
<1> HIDE DEF n
<1>3. SumFcn(Sums(f, S), f, S, n)
  BY <1>1, <1>2, SumExists
<1>4. \A k \in 0 .. n : Sums(f, S)[k] = IF k = 0 THEN 0 ELSE Sums(f, S)[k - 1] + Adds(f, S, k)
  BY <1>3 DEF SumFcn
<1>5. \A k \in 1 .. n : k \in 0 .. n /\ k # 0
  BY <1>1
<1> QED
  BY <1>1, <1>4, <1>5 DEF Sum, n

(* Sums of numbers are numbers.                                            *)
LEMMA SumsNat ==
  ASSUME ViewAssumption, NEW f, NEW S, \A i \in 1 .. Len(Elements) : Adds(f, S, i) \in Nat
  PROVE  \A k \in 0 .. Len(Elements) : Sums(f, S)[k] \in Nat
<1> DEFINE n == Len(Elements)
           s == Sums(f, S)
           B == {k \in 0 .. n : s[k] \notin Nat}
<1>1. n \in Nat /\ B \subseteq Nat
  BY DEF ViewAssumption
<1>2. s[0] = 0 /\ \A k \in 1 .. n : s[k] = s[k - 1] + Adds(f, S, k)
  BY SumsAre
<1> HIDE DEF n, s
<1>3. ASSUME NEW k \in 1 .. n, s[k - 1] \in Nat PROVE s[k] \in Nat
  BY <1>2, <1>3 DEF n
<1>4. CASE B # {}
  <2>1. PICK m \in B : \A k \in B : m <= k
    BY <1>1, <1>4, Least
  <2>2. m \in 1 .. n /\ m - 1 \in 0 .. n /\ ~(m <= m - 1)
    BY <1>1, <1>2
  <2> QED
    BY <1>3, <2>1, <2>2
<1> QED
  BY <1>4 DEF n, s

(* Sums of the same numbers are the same.                                  *)
LEMMA SumsAgree ==
  ASSUME ViewAssumption, NEW f, NEW S, NEW T, NEW n \in 0 .. Len(Elements),
         \A i \in 1 .. n : Adds(f, S, i) = Adds(f, T, i)
  PROVE  Sums(f, S)[n] = Sums(f, T)[n]
<1> DEFINE s == Sums(f, S)
           t == Sums(f, T)
           B == {k \in 0 .. n : s[k] # t[k]}
<1>1. Len(Elements) \in Nat /\ n \in Nat /\ B \subseteq Nat /\ n <= Len(Elements)
  BY DEF ViewAssumption
<1>2. /\ s[0] = 0 /\ \A k \in 1 .. n : s[k] = s[k - 1] + Adds(f, S, k)
      /\ t[0] = 0 /\ \A k \in 1 .. n : t[k] = t[k - 1] + Adds(f, T, k)
  <2>1. \A k \in 1 .. n : k \in 1 .. Len(Elements)
    BY <1>1
  <2> QED
    BY <2>1, SumsAre
<1> HIDE DEF s, t
<1>3. CASE B # {}
  <2>1. PICK m \in B : \A k \in B : m <= k
    BY <1>1, <1>3, Least
  <2>2. m \in 1 .. n /\ m - 1 \in 0 .. n /\ ~(m <= m - 1) /\ s[m] # t[m]
    BY <1>1, <1>2
  <2>3. s[m - 1] = t[m - 1]
    BY <2>1, <2>2
  <2>4. Adds(f, S, m) = Adds(f, T, m)
    BY <2>2
  <2> QED
    BY <1>2, <2>2, <2>3, <2>4
<1>4. CASE B = {}
  BY <1>1, <1>4 DEF s, t
<1> QED
  BY <1>3, <1>4

(* Sums are added element by element.                                      *)
Splits(f, S, g, T, U) ==
  \A i \in 1 .. Len(Elements) :
    /\ Adds(f, S, i) \in Nat /\ Adds(g, T, i) \in Nat
    /\ Adds(f, S, i) + Adds(g, T, i) = Adds(g, U, i)
LEMMA SumsAdd ==
  ASSUME ViewAssumption, NEW f, NEW S, NEW g, NEW T, NEW U, Splits(f, S, g, T, U)
  PROVE  /\ Sum(f, S) \in Nat /\ Sum(g, T) \in Nat
         /\ Sum(f, S) + Sum(g, T) = Sum(g, U)
<1> DEFINE n == Len(Elements)
           P(k) == /\ Sums(f, S)[k] \in Nat /\ Sums(g, T)[k] \in Nat
                   /\ Sums(f, S)[k] + Sums(g, T)[k] = Sums(g, U)[k]
           B == {k \in 0 .. n : ~P(k)}
<1>1. n \in Nat /\ B \subseteq Nat
  BY DEF ViewAssumption
<1>2. P(0)
  BY SumsAre
<1>3. ASSUME NEW k \in 1 .. n, P(k - 1) PROVE P(k)
  <2>1. /\ Sums(f, S)[k] = Sums(f, S)[k - 1] + Adds(f, S, k)
        /\ Sums(g, T)[k] = Sums(g, T)[k - 1] + Adds(g, T, k)
        /\ Sums(g, U)[k] = Sums(g, U)[k - 1] + Adds(g, U, k)
    BY SumsAre
  <2>2. /\ Adds(f, S, k) \in Nat /\ Adds(g, T, k) \in Nat
        /\ Adds(f, S, k) + Adds(g, T, k) = Adds(g, U, k)
    BY DEF Splits
  <2> DEFINE a == Sums(f, S)[k - 1]
             b == Sums(g, T)[k - 1]
             c == Sums(g, U)[k - 1]
             d == Adds(f, S, k)
             e == Adds(g, T, k)
  <2>3. a \in Nat /\ b \in Nat /\ c = a + b
    BY <1>3
  <2>4. d \in Nat /\ e \in Nat /\ Adds(g, U, k) = d + e
    BY <2>2
  <2>5. /\ Sums(f, S)[k] = a + d /\ Sums(g, T)[k] = b + e
        /\ Sums(g, U)[k] = c + Adds(g, U, k)
    BY <2>1
  <2> HIDE DEF a, b, c, d, e
  <2> QED
    BY <2>3, <2>4, <2>5
<1>4. B = {}
  <2> SUFFICES ASSUME B # {} PROVE FALSE
    OBVIOUS
  <2>1. PICK m \in B : \A k \in B : m <= k
    BY <1>1, Least
  <2>2. m \in 0 .. n /\ ~P(m)
    OBVIOUS
  <2> HIDE DEF P
  <2>3. m # 0
    BY <1>2, <2>2
  <2>4. m \in 1 .. n /\ m - 1 \in 0 .. n /\ ~(m <= m - 1)
    BY <1>1, <2>2, <2>3
  <2>5. P(m - 1)
    BY <2>1, <2>4
  <2> QED
    BY <1>3, <2>2, <2>4, <2>5
<1>5. P(n)
  <2> HIDE DEF P
  <2>1. n \in 0 .. n
    BY <1>1
  <2> QED
    BY <1>4, <2>1
<1> QED
  BY <1>5, SumsAre

(***************************************************************************)
(* The summary counts the transactions of this deployment.                 *)
(***************************************************************************)
CallCount == [h \in Hooks |-> Len(Calls[h])]
Spent(l) == l.out + l.paid

(* Before the first element.                                               *)
Begun ==
  /\ done = {} /\ sent = 0 /\ mem.log = old.log
  /\ mem.executed = old.executed /\ mem.address \subseteq old.address

(* A hook with an empty log replays nothing: each call made is on file.    *)
NothingReplayed ==
  /\ run.made \in 0 .. Len(Calls[Elem]) /\ (~At("hook") => More)
  /\ Spent(file.log[Elem]) = run.made /\ file.log[Elem].out = Progress

(* What was sent before the current element.                               *)
SentBefore == Cardinality(done \cap Contracts) + Sums(CallCount, DoneHooks)[run.pos - 1]
Anew == StartedAnew /\ (In(InHook) => old.log[Elem] = Unsent)

(* In the course of a deployment.                                          *)
OnRecord ==
  /\ done \subseteq Passed
  /\ file.executed = old.executed \cup DoneHooks /\ old.executed \cap done = {}
  /\ file.address \subseteq old.address \cup done /\ done \cap Contracts \subseteq file.address
  /\ In(InHook) => Elem \notin file.executed
LogsOfThis ==
  \A h \in Hooks :
    \/ In(InHook) /\ h = Elem
    \/ /\ mem.log[h] = file.log[h]
       /\ h \in done \/ file.log[h] = old.log[h]
SentByThis ==
  Anew => /\ \A h \in DoneHooks :
               Spent(file.log[h]) = IF h \in EndHooks THEN 0 ELSE Len(Calls[h])
          /\ sent = SentBefore + (IF In(InHook) THEN run.made ELSE 0)
          /\ In(InHook) => NothingReplayed
ThisWorks == OnRecord /\ LogsOfThis /\ SentByThis

(* What the summary says.                                                  *)
Told == view.summary # <<>> => At("idle") /\ SummaryExact
Accounted == (At("resolving") => Begun) /\ (In(Working) => ThisWorks) /\ Told

(* The calls of the hooks that were executed, with the present element.    *)
LEMMA CallsGrow ==
  ASSUME ViewAssumption, run.pos \in Nat \ {0}, run.pos <= Len(Elements),
         NEW D, D \subseteq Passed
  PROVE  /\ Elem \notin D
         /\ Sums(CallCount, D \cap Hooks)[run.pos - 1] \in Nat
         /\ Sums(CallCount, D \cap Hooks)[run.pos] = Sums(CallCount, D \cap Hooks)[run.pos - 1]
         /\ Elem \in Hooks =>
              Sums(CallCount, (D \cup {Elem}) \cap Hooks)[run.pos]
                = Sums(CallCount, D \cap Hooks)[run.pos - 1] + Len(Calls[Elem])
<1> DEFINE S == D \cap Hooks
           T == (D \cup {Elem}) \cap Hooks
           p == run.pos
<1>1. Len(Elements) \in Nat /\ p \in 1 .. Len(Elements) /\ p - 1 \in 0 .. Len(Elements)
  BY DEF ViewAssumption
<1>2. \A i \in 1 .. p - 1 : Elements[i] # Elem
  <2>1. \A i \in 1 .. p - 1 : i \in DOMAIN Elements /\ i # p /\ p \in DOMAIN Elements
    BY <1>1 DEF ViewAssumption
  <2>2. \A i, j \in DOMAIN Elements : i # j => Elements[i] # Elements[j]
    BY DEF ViewAssumption
  <2> QED
    BY <2>1, <2>2, Zenon DEF Elem
<1>3. Elem \notin D
  BY <1>2 DEF Passed
<1>4. \A h \in Hooks : CallCount[h] = Len(Calls[h]) /\ Len(Calls[h]) \in Nat
  BY DEF ViewAssumption, CallCount
<1>5. \A i \in 1 .. Len(Elements) : Adds(CallCount, S, i) \in Nat
  BY <1>4 DEF Adds
<1>6. Elem = Elements[p]
  BY DEF Elem
<1>7. Adds(CallCount, S, p) = 0 /\ (Elem \in Hooks => Adds(CallCount, T, p) = Len(Calls[Elem]))
  BY <1>3, <1>4, <1>6 DEF Adds
<1>8. \A i \in 1 .. p - 1 : Adds(CallCount, S, i) = Adds(CallCount, T, i)
  BY <1>2 DEF Adds
<1> HIDE DEF S, T
<1>9. Sums(CallCount, S)[p - 1] \in Nat
  BY <1>1, <1>5, SumsNat
<1>10. Sums(CallCount, S)[p] = Sums(CallCount, S)[p - 1] + Adds(CallCount, S, p)
  BY <1>1, SumsAre
<1>11. Sums(CallCount, T)[p] = Sums(CallCount, T)[p - 1] + Adds(CallCount, T, p)
  BY <1>1, SumsAre
<1>12. Sums(CallCount, S)[p - 1] = Sums(CallCount, T)[p - 1]
  <2> DEFINE q == p - 1
  <2>1. q \in 0 .. Len(Elements) /\ \A i \in 1 .. q : Adds(CallCount, S, i) = Adds(CallCount, T, i)
    BY <1>1, <1>8
  <2> HIDE DEF q
  <2>2. Sums(CallCount, S)[q] = Sums(CallCount, T)[q]
    BY <2>1, SumsAgree
  <2> QED
    BY <2>2 DEF q
<1> QED
  BY <1>3, <1>7, <1>9, <1>10, <1>11, <1>12 DEF S, T

(* The contracts deployed are finitely many.                               *)
LEMMA DoneFinite ==
  ASSUME ViewAssumption, ViewInv, run.pos <= Len(Elements) + 1, done \subseteq Passed
  PROVE  IsFiniteSet(done \cap Contracts) /\ Cardinality(done \cap Contracts) \in Nat
<1>1. IsFiniteSet(Passed)
  BY PassedCount DEF ViewInv, Placed
<1>2. done \cap Contracts \subseteq Passed
  OBVIOUS
<1> QED
  BY <1>1, <1>2, FS_Subset, FS_CardinalityType

(* The steps of a contract that pass nothing.                              *)
LEMMA ThisContract ==
  ASSUME ThisWorks, run'.pos = run.pos, ~In(InHook), ~In(InHook)',
         UNCHANGED <<file, mem, old, done, sent>>
  PROVE  ThisWorks'
<1>1. Passed' = Passed /\ DoneHooks' = DoneHooks /\ SentBefore' = SentBefore
  BY DEF Passed, DoneHooks, SentBefore
<1>2. (Anew' <=> StartedAnew) /\ (Anew <=> StartedAnew)
  BY <1>1 DEF Anew, StartedAnew
<1>3. OnRecord'
  BY <1>1 DEF ThisWorks, OnRecord
<1>4. LogsOfThis'
  BY <1>1 DEF ThisWorks, LogsOfThis
<1>5. SentByThis'
  BY <1>1, <1>2 DEF ThisWorks, SentByThis
<1> QED
  BY <1>3, <1>4, <1>5 DEF ThisWorks

(* What the numbers of a log become.                                       *)
LEMMA LogNumbers ==
  ASSUME NEW f \in Logs, NEW h \in Hooks
  PROVE  /\ InMore(f, h)[h].out = f[h].out /\ InMore(f, h)[h].paid = f[h].paid
         /\ OutMore(f, h)[h].out = f[h].out + 1 /\ OutMore(f, h)[h].paid = f[h].paid
         /\ PaidMore(f, h)[h].out = f[h].out /\ PaidMore(f, h)[h].paid = f[h].paid + 1
<1> DEFINE R == [in : Nat, out : Nat, paid : Nat]
           r == [f[h] EXCEPT !.in = @ + 1]
           s == [f[h] EXCEPT !.out = @ + 1]
           t == [f[h] EXCEPT !.paid = @ + 1]
<1>1. f \in [Hooks -> R] /\ f[h] \in R
  BY DEF Logs
<1>2. /\ r.out = f[h].out /\ r.paid = f[h].paid
      /\ s.out = f[h].out + 1 /\ s.paid = f[h].paid
      /\ t.out = f[h].out /\ t.paid = f[h].paid + 1
  BY <1>1
<1>3. /\ InMore(f, h) = [f EXCEPT ![h] = r] /\ OutMore(f, h) = [f EXCEPT ![h] = s]
      /\ PaidMore(f, h) = [f EXCEPT ![h] = t]
  BY DEF InMore, OutMore, PaidMore
<1> HIDE DEF r, s, t, R
<1>4. InMore(f, h)[h] = r /\ OutMore(f, h)[h] = s /\ PaidMore(f, h)[h] = t
  BY <1>1, <1>3
<1> QED
  BY <1>2, <1>4

(* One more call was made.                                                 *)
LEMMA ProgressGrows ==
  ASSUME run.made \in Nat, run'.made = run.made + 1, run'.pos = run.pos
  PROVE  /\ Progress \in Nat
         /\ Progress' = Progress + (IF Kind = "call" THEN 1 ELSE 0)
<1> DEFINE m == run.made
           P == {i \in 1 .. m : Calls[Elem][i] = "call"}
           Q == {i \in 1 .. m + 1 : Calls[Elem][i] = "call"}
<1>1. IsFiniteSet(P) /\ Cardinality(P) \in Nat
  <2>1. m \in Int /\ 1 \in Int
    OBVIOUS
  <2> HIDE DEF m
  <2>2. IsFiniteSet(1 .. m)
    BY <2>1, FS_Interval
  <2>3. P \subseteq 1 .. m
    OBVIOUS
  <2> HIDE DEF P
  <2> QED
    BY <2>2, <2>3, FS_Subset, FS_CardinalityType
<1>2. Progress = Cardinality(P)
  BY DEF Progress
<1>3. Progress' = Cardinality(Q)
  BY DEF Progress, Elem
<1>4. Q = (IF Kind = "call" THEN P \cup {m + 1} ELSE P) /\ m + 1 \notin P
  BY DEF Kind
<1> HIDE DEF P, Q, m
<1>5. Cardinality(P \cup {m + 1}) = Cardinality(P) + 1
  BY <1>1, <1>4, FS_AddElement
<1> QED
  BY <1>1, <1>2, <1>3, <1>4, <1>5

(* The steps that pass an element.                                         *)
LEMMA ThisPasses ==
  ASSUME ViewAssumption, ViewInv, Named, Answered, ThisWorks,
         SkipContract \/ LeaveOut \/ SkipHook \/ ContractMined \/ FinishHook
  PROVE  ThisWorks'
<1>1. /\ run.pos \in Nat \ {0} /\ run.pos <= Len(Elements) /\ IsRun(run) /\ IsFile(file)
      /\ IsFile(mem) /\ run' = Advance
  BY PassesOne DEF ViewInv, Synced
<1>2. run'.pos = run.pos + 1 /\ run'.at = "next" /\ run'.pos - 1 = run.pos
  BY <1>1 DEF Advance, IsRun
<1>3. Passed' = Passed \cup {Elem} /\ Elem \notin Passed /\ done \subseteq Passed
  BY <1>1, <1>2, PassedGrows DEF ThisWorks, OnRecord
<1>4. ~In(InHook)' /\ (Anew' <=> StartedAnew')
  BY <1>2 DEF In, InHook, Anew
<1> DEFINE a == Sums(CallCount, DoneHooks)[run.pos - 1]
           b == Sums(CallCount, DoneHooks)[run.pos]
           c == Cardinality(done \cap Contracts)
<1>5. /\ a \in Nat /\ b = a /\ Elem \notin done
      /\ Elem \in Hooks => Sums(CallCount, (done \cup {Elem}) \cap Hooks)[run.pos]
                             = a + Len(Calls[Elem])
  BY <1>1, <1>3, CallsGrow DEF DoneHooks
<1>6. IsFiniteSet(done \cap Contracts) /\ c \in Nat
  <2>1. run.pos <= Len(Elements) + 1
    BY <1>1 DEF ViewAssumption
  <2> QED
    BY <1>3, <2>1, DoneFinite
<1>7. Anew => sent = c + a + (IF In(InHook) THEN run.made ELSE 0)
  BY DEF ThisWorks, SentByThis, SentBefore
<1>8. SentBefore' = Cardinality(done' \cap Contracts) + Sums(CallCount, DoneHooks')[run.pos]
  BY <1>2 DEF SentBefore
<1>9. \A h \in Hooks : Len(Calls[h]) \in Nat
  BY DEF ViewAssumption
<1> HIDE DEF a, b, c
<1>10. CASE SkipContract \/ LeaveOut \/ SkipHook
  <2>1. ~In(InHook) /\ UNCHANGED <<file, mem, old, done, sent>>
    BY <1>10 DEF SkipContract, LeaveOut, SkipHook, AtContract, AtHook, Unfiled, Kept, At, In, InHook
  <2>2. DoneHooks' = DoneHooks /\ (Anew' <=> StartedAnew) /\ (Anew <=> StartedAnew)
    BY <1>4, <2>1 DEF DoneHooks, StartedAnew, Anew
  <2>3. OnRecord'
    BY <1>3, <1>4, <2>1, <2>2 DEF ThisWorks, OnRecord
  <2>4. LogsOfThis'
    BY <1>4, <2>1 DEF ThisWorks, LogsOfThis
  <2>5. SentBefore' = c + b
    BY <1>8, <2>1, <2>2 DEF b, c
  <2>6. Anew => sent' = SentBefore' + 0
    BY <1>5, <1>6, <1>7, <2>1, <2>5
  <2>7. SentByThis'
    BY <1>4, <2>1, <2>2, <2>6 DEF ThisWorks, SentByThis
  <2> QED
    BY <2>3, <2>4, <2>7 DEF ThisWorks
<1>11. CASE ContractMined
  <2>1. ~In(InHook) /\ In(InContract)
    BY <1>11 DEF ContractMined, At, In, InContract, InHook
  <2>2. Elem \in Contracts /\ Elem \notin Hooks
    BY <2>1 DEF ViewInv, Placed, ViewAssumption
  <2>3. /\ file'.address = file.address \cup {Elem} /\ file'.executed = file.executed
        /\ file'.log = file.log /\ mem'.log = mem.log /\ old' = old /\ sent' = sent + 1
        /\ done' = done \cup {Elem}
    BY <1>1, <1>11 DEF ContractMined, IsFile
  <2>4. DoneHooks' = DoneHooks
    BY <2>2, <2>3 DEF DoneHooks
  <2>5. Anew' => Anew
    BY <1>4, <2>1, <2>3, <2>4 DEF StartedAnew, Anew
  <2>6. Cardinality(done' \cap Contracts) = c + 1
    <3> DEFINE A == done \cap Contracts
               B == done' \cap Contracts
    <3>1. IsFiniteSet(A) /\ Elem \notin A /\ B = A \cup {Elem}
      BY <1>5, <1>6, <2>2, <2>3
    <3> HIDE DEF A, B
    <3>2. Cardinality(B) = Cardinality(A) + 1
      BY <3>1, FS_AddElement
    <3> QED
      BY <3>2 DEF A, B, c
  <2>7. SentBefore' = c + 1 + b
    BY <1>8, <2>4, <2>6 DEF b
  <2>8. Anew => sent' = SentBefore' + 0
    BY <1>5, <1>6, <1>7, <2>1, <2>3, <2>7
  <2>9. OnRecord'
    <3>1. Elem \notin old.executed
      BY <2>2 DEF ThisWorks, OnRecord, Named
    <3> QED
      BY <1>3, <1>4, <2>2, <2>3, <2>4, <3>1 DEF ThisWorks, OnRecord
  <2>10. LogsOfThis'
    BY <1>4, <2>1, <2>3 DEF ThisWorks, LogsOfThis
  <2>11. SentByThis'
    BY <1>4, <2>3, <2>4, <2>5, <2>8 DEF ThisWorks, SentByThis
  <2> QED
    BY <2>9, <2>10, <2>11 DEF ThisWorks
<1>12. CASE FinishHook
  <2>1. In(InHook) /\ ~More /\ At("hook")
    BY <1>12 DEF FinishHook, At, In, InHook
  <2>2. Elem \in Hooks /\ Elem \notin Contracts /\ Elem \notin file.executed
    BY <2>1 DEF ViewInv, Placed, ViewAssumption, ThisWorks, OnRecord
  <2> DEFINE l == IF Elem \in EndHooks THEN Unsent ELSE file.log[Elem]
  <2>3. /\ file'.address = mem.address /\ file'.executed = mem.executed \cup {Elem}
        /\ mem'.log = [mem.log EXCEPT ![Elem] = l] /\ file'.log = mem'.log /\ old' = old
        /\ sent' = sent /\ done' = done \cup {Elem}
    BY <1>1, <1>12 DEF FinishHook, IsFile
  <2>4. mem.address = file.address /\ mem.executed = file.executed
    BY <2>1 DEF ViewInv, Synced, In, Working, InHook
  <2>5. DoneHooks' = DoneHooks \cup {Elem} /\ DoneHooks' = (done \cup {Elem}) \cap Hooks
    BY <2>2, <2>3 DEF DoneHooks
  <2>6. Anew' => Anew
    BY <1>4, <2>1, <2>3, <2>5 DEF StartedAnew, Anew
  <2>7. Anew => run.made = Len(Calls[Elem]) /\ Spent(file.log[Elem]) = run.made
    BY <1>9, <2>1, <2>2 DEF ThisWorks, SentByThis, NothingReplayed, More
  <2>8. Anew => Spent(l) = IF Elem \in EndHooks THEN 0 ELSE Len(Calls[Elem])
    <3>1. CASE Elem \in EndHooks
      BY <3>1 DEF Spent, Unsent
    <3>2. CASE Elem \notin EndHooks
      BY <2>7, <3>2
    <3> QED
      BY <3>1, <3>2
  <2> HIDE DEF l
  <2>9. mem'.log[Elem] = l /\ \A h \in Hooks \ {Elem} : mem'.log[h] = mem.log[h]
    BY <2>2, <2>3 DEF Answered, Logs
  <2>10. \A h \in Hooks \ {Elem} : file'.log[h] = file.log[h]
    BY <2>3, <2>9 DEF ThisWorks, LogsOfThis
  <2>11. Cardinality(done' \cap Contracts) = c
    <3>1. done' \cap Contracts = done \cap Contracts
      BY <2>2, <2>3
    <3> QED
      BY <3>1 DEF c
  <2>12. SentBefore' = c + (a + Len(Calls[Elem]))
    BY <1>5, <1>8, <2>2, <2>5, <2>11
  <2>13. Anew => sent' = SentBefore' + 0
    <3> DEFINE n == Len(Calls[Elem])
    <3>1. n \in Nat /\ SentBefore' = c + (a + n) /\ sent' = sent
      BY <1>9, <2>2, <2>3, <2>12
    <3>2. Anew => sent = c + a + n
      BY <1>7, <2>1, <2>7
    <3> HIDE DEF n
    <3>3. c + a + n = c + (a + n) + 0
      BY <1>5, <1>6, <3>1
    <3> QED
      BY <3>1, <3>2, <3>3
  <2>14. OnRecord'
    BY <1>3, <1>4, <2>2, <2>3, <2>4, <2>5 DEF ThisWorks, OnRecord
  <2>15. LogsOfThis'
    BY <1>4, <2>3, <2>10 DEF ThisWorks, LogsOfThis
  <2>16. SentByThis'
    <3>1. ASSUME Anew, NEW h \in DoneHooks'
          PROVE  Spent(file'.log[h]) = IF h \in EndHooks THEN 0 ELSE Len(Calls[h])
      <4>1. CASE h = Elem
        BY <2>3, <2>8, <2>9, <3>1, <4>1
      <4>2. CASE h # Elem
        <5>1. h \in DoneHooks /\ file'.log[h] = file.log[h]
          BY <2>5, <2>10, <3>1, <4>2 DEF DoneHooks
        <5> QED
          BY <3>1, <5>1 DEF ThisWorks, SentByThis
      <4> QED
        BY <4>1, <4>2
    <3> QED
      BY <1>4, <2>6, <2>13, <3>1 DEF SentByThis
  <2> QED
    BY <2>14, <2>15, <2>16 DEF ThisWorks
<1> QED
  BY <1>10, <1>11, <1>12

(* The steps of a hook.                                                    *)
LEMMA ThisHook ==
  ASSUME ViewAssumption, ViewInv, Named, Answered, ThisWorks, In(Working)',
         ExecuteHook \/ ReplayCall \/ SendCall \/ CallSent \/ CallMined
  PROVE  ThisWorks'
<1>1. IsRun(run) /\ IsFile(file) /\ file.log \in Logs
  BY DEF ViewInv, Placed, Answered
<1>2. run'.pos = run.pos /\ Elem' = Elem /\ Passed' = Passed
  <2>1. run'.pos = run.pos
    BY Works
  <2> QED
    BY <2>1 DEF Elem, Passed
<1>3. Elem \in Hooks /\ Len(Calls[Elem]) \in Nat /\ run.pos \in Nat \ {0} /\ run.pos <= Len(Elements)
  <2>1. Elem \in Hooks /\ run.pos \in Nat \ {0} /\ run.pos <= Len(Elements)
    BY DEF ExecuteHook, AtHook, ReplayCall, SendCall, CallSent, CallMined, ViewInv, Placed, At, In,
       InHook
  <2> QED
    BY <2>1 DEF ViewAssumption
<1>4. file.log[Elem].out \in Nat /\ file.log[Elem].paid \in Nat
  BY <1>1, <1>3 DEF Logs
<1>5. SameRecord
  BY Works
<1>6. SentBefore \in Nat /\ Elem \notin done
  <2>1. done \subseteq Passed /\ run.pos <= Len(Elements) + 1
    BY <1>3 DEF ThisWorks, OnRecord, ViewAssumption
  <2>2. Cardinality(done \cap Contracts) \in Nat
    BY <2>1, DoneFinite
  <2>3. Sums(CallCount, done \cap Hooks)[run.pos - 1] \in Nat /\ Elem \notin done
    BY <1>3, <2>1, CallsGrow
  <2> QED
    BY <2>2, <2>3 DEF SentBefore, DoneHooks
(* What is left to show of each.                                           *)
<1>7. ASSUME In(InHook)', Elem \notin file.executed, old' = old, mem' = mem, done' = done,
             \A h \in Hooks \ {Elem} : file'.log[h] = file.log[h],
             \A h \in Hooks \ {Elem} : ~(In(InHook) /\ h = Elem),
             Anew' => NothingReplayed' /\ sent' = SentBefore + run'.made
      PROVE  ThisWorks'
  <2>1. DoneHooks' = DoneHooks /\ SentBefore' = SentBefore
    BY <1>2, <1>7 DEF DoneHooks, SentBefore
  <2>2. OnRecord'
    BY <1>2, <1>5, <1>7, <2>1 DEF ThisWorks, OnRecord, SameRecord
  <2>3. LogsOfThis'
    BY <1>2, <1>7 DEF ThisWorks, LogsOfThis
  <2>4. Anew' => StartedAnew
    BY <1>7, <2>1 DEF Anew, StartedAnew
  <2>5. ASSUME Anew', NEW h \in DoneHooks
        PROVE  Spent(file'.log[h]) = IF h \in EndHooks THEN 0 ELSE Len(Calls[h])
    <3>1. h # Elem /\ h \in Hooks
      BY <1>6 DEF DoneHooks
    <3>2. Anew
      BY <1>2, <1>7, <2>4, <2>5 DEF Anew
    <3> QED
      BY <1>7, <2>5, <3>1, <3>2 DEF ThisWorks, SentByThis
  <2>6. SentByThis'
    BY <1>7, <2>1, <2>5 DEF SentByThis
  <2> QED
    BY <2>2, <2>3, <2>6 DEF ThisWorks
<1>8. CASE ExecuteHook
  <2>1. run' = [run EXCEPT !.at = "hook", !.made = 0]
    <3>1. run' = Raised(run, "logger") \/ run' = [run EXCEPT !.at = "hook", !.made = 0]
      BY <1>8 DEF ExecuteHook, Proceed
    <3> QED
      BY <1>1, <3>1 DEF Raised, IsRun, In, Working, InContract, InHook
  <2>2. run'.at = "hook" /\ run'.made = 0
    BY <1>1, <2>1 DEF IsRun
  <2>3. /\ ~In(InHook) /\ Elem \notin file.executed
        /\ UNCHANGED <<file, mem, old, done, sent>>
    BY <1>8 DEF ExecuteHook, AtHook, At, In, InHook, Unfiled, Kept
  <2>4. In(InHook)' /\ At("hook")'
    BY <2>2 DEF In, InHook, At
  <2>5. Progress' = 0
    <3>1. {i \in 1 .. run'.made : Calls[Elem'][i] = "call"} = {}
      BY <2>2
    <3> QED
      BY <3>1, FS_EmptySet DEF Progress
  <2>6. ASSUME Anew' PROVE NothingReplayed' /\ sent' = SentBefore + run'.made
    <3>1. old.log[Elem] = Unsent /\ Anew
      BY <1>2, <2>3, <2>4, <2>6 DEF Anew, StartedAnew, DoneHooks
    <3>2. file.log[Elem] = Unsent
      BY <1>3, <1>6, <2>3, <3>1 DEF ThisWorks, LogsOfThis
    <3>3. file'.log[Elem'].out = 0 /\ Spent(file'.log[Elem']) = 0
      BY <1>2, <2>3, <3>2 DEF Spent, Unsent
    <3>4. NothingReplayed'
      BY <1>2, <1>3, <2>2, <2>4, <2>5, <3>3 DEF NothingReplayed
    <3>5. sent = SentBefore + 0
      BY <2>3, <3>1 DEF ThisWorks, SentByThis
    <3> QED
      BY <2>2, <2>3, <3>4, <3>5
  <2> QED
    BY <1>7, <2>3, <2>4, <2>6
<1>9. CASE ReplayCall \/ SendCall \/ CallSent \/ CallMined
  <2>1. In(InHook) /\ Elem \notin file.executed
    BY <1>9 DEF ReplayCall, SendCall, CallSent, CallMined, At, In, InHook, ThisWorks, OnRecord
  <2>2. Anew => /\ run.made \in 0 .. Len(Calls[Elem]) /\ (~At("hook") => More)
                /\ Spent(file.log[Elem]) = run.made /\ file.log[Elem].out = Progress
                /\ sent = SentBefore + run.made
    BY <2>1 DEF ThisWorks, SentByThis, NothingReplayed
  <2>3. ASSUME In(InHook)', old' = old, done' = done PROVE Anew' => Anew
    BY <1>2, <2>1, <2>3 DEF Anew, StartedAnew, DoneHooks
  <2>4. CASE ReplayCall
    <3>1. /\ file' = [file EXCEPT !.log[Elem].out = @ + 1]
          /\ run' = [run EXCEPT !.made = @ + 1] /\ Replays /\ At("hook")
          /\ UNCHANGED <<old, done, sent, mem>>
      BY <2>4 DEF ReplayCall, Kept
    <3>2. file'.log = OutMore(file.log, Elem)
      BY <1>1, <3>1 DEF IsFile, OutMore
    <3>3. \A h \in Hooks \ {Elem} : file'.log[h] = file.log[h]
      BY <1>1, <1>3, <3>2, OutputLogged
    <3>4. In(InHook)'
      BY <1>1, <3>1 DEF IsRun, In, At, InHook
    <3>5. ~Anew'
      <4> SUFFICES ASSUME Anew' PROVE FALSE
        OBVIOUS
      <4>1. file.log[Elem].out = Progress /\ Progress \in Nat
        BY <1>4, <2>2, <2>3, <3>1, <3>4
      <4> QED
        BY <3>1, <4>1 DEF Replays
    <3> QED
      BY <1>7, <2>1, <3>1, <3>3, <3>4, <3>5
  <2>5. CASE SendCall \/ CallSent
    <3>1. \E x \in {"calling", "called"} : run' = [run EXCEPT !.at = x]
      <4>1. run' = Raised(run, "logger") \/ \E x \in {"calling", "called"} : run' = [run EXCEPT !.at = x]
        BY <2>5 DEF SendCall, CallSent, Proceed
      <4> QED
        BY <1>1, <4>1 DEF Raised, IsRun, In, Working, InContract, InHook
    <3>2. run'.at \in {"calling", "called"} /\ run'.made = run.made
      BY <1>1, <3>1 DEF IsRun
    <3>3. Anew => More /\ More' /\ Progress' = Progress
      <4>1. Anew => More
        BY <2>2, <2>5 DEF SendCall, CallSent, At
      <4> QED
        BY <1>2, <3>2, <4>1 DEF More, Progress
    <3>4. /\ old' = old /\ mem' = mem /\ sent' = sent /\ done' = done
          /\ file'.log[Elem].out = file.log[Elem].out /\ file'.log[Elem].paid = file.log[Elem].paid
          /\ \A h \in Hooks \ {Elem} : file'.log[h] = file.log[h]
      <4>1. CASE file' = file
        BY <2>5, <4>1 DEF SendCall, CallSent, Unfiled, Kept
      <4>2. CASE CallSent /\ file' # file
        <5>1. file' = [file EXCEPT !.log[Elem].in = @ + 1] /\ UNCHANGED <<old, mem, sent, done>>
          BY <4>2 DEF CallSent, Kept
        <5>2. file'.log = InMore(file.log, Elem)
          BY <1>1, <5>1 DEF IsFile, InMore
        <5> QED
          BY <1>1, <1>3, <5>1, <5>2, InputLogged, LogNumbers
      <4> QED
        BY <2>5, <4>1, <4>2 DEF SendCall, Unfiled
    <3>5. In(InHook)'
      BY <3>2 DEF In, InHook
    <3>6. Anew' => NothingReplayed'
      BY <1>2, <2>2, <2>3, <3>2, <3>3, <3>4, <3>5 DEF NothingReplayed, Spent
    <3>7. Anew' => sent' = SentBefore + run'.made
      BY <2>2, <2>3, <3>2, <3>4, <3>5
    <3> QED
      BY <1>7, <2>1, <3>4, <3>5, <3>6, <3>7
  <2>6. CASE CallMined
    <3>1. /\ run' = [run EXCEPT !.at = "hook", !.made = @ + 1] /\ sent' = sent + 1
          /\ mem' = mem /\ old' = old /\ done' = done /\ ~At("hook")
          /\ file' = IF Kind = "call" THEN [file EXCEPT !.log[Elem].out = @ + 1]
                     ELSE [file EXCEPT !.log[Elem].paid = @ + 1]
      BY <2>6 DEF CallMined, At
    <3>2. run'.at = "hook" /\ run'.made = run.made + 1
      BY <1>1, <3>1 DEF IsRun
    <3>3. In(InHook)' /\ At("hook")'
      BY <3>2 DEF In, InHook, At
    <3>4. /\ file'.log[Elem].out = file.log[Elem].out + (IF Kind = "call" THEN 1 ELSE 0)
          /\ file'.log[Elem].out + file'.log[Elem].paid
               = file.log[Elem].out + file.log[Elem].paid + 1
          /\ \A h \in Hooks \ {Elem} : file'.log[h] = file.log[h]
      <4>1. CASE Kind = "call"
        <5>1. file'.log = OutMore(file.log, Elem)
          BY <1>1, <3>1, <4>1 DEF IsFile, OutMore
        <5>2. /\ file'.log[Elem].out = file.log[Elem].out + 1
              /\ file'.log[Elem].paid = file.log[Elem].paid
              /\ \A h \in Hooks \ {Elem} : file'.log[h] = file.log[h]
          BY <1>1, <1>3, <5>1, OutputLogged, LogNumbers
        <5> DEFINE o == file.log[Elem].out
                   p == file.log[Elem].paid
        <5>3. o \in Nat /\ p \in Nat
          BY <1>4
        <5> HIDE DEF o, p
        <5>4. o + 1 + p = o + p + 1
          BY <5>3
        <5> QED
          BY <4>1, <5>2, <5>4 DEF o, p
      <4>2. CASE Kind # "call"
        <5>1. file'.log = PaidMore(file.log, Elem)
          BY <1>1, <3>1, <4>2 DEF IsFile, PaidMore
        <5>2. /\ file'.log[Elem].out = file.log[Elem].out
              /\ file'.log[Elem].paid = file.log[Elem].paid + 1
              /\ \A h \in Hooks \ {Elem} : file'.log[h] = file.log[h]
          BY <1>1, <1>3, <5>1, TransferLogged, LogNumbers
        <5> DEFINE o == file.log[Elem].out
                   p == file.log[Elem].paid
        <5>3. o \in Nat /\ p \in Nat
          BY <1>4
        <5> HIDE DEF o, p
        <5>4. o + 0 = o /\ o + (p + 1) = o + p + 1
          BY <5>3
        <5> QED
          BY <4>2, <5>2, <5>4 DEF o, p
      <4> QED
        BY <4>1, <4>2
    <3>5. ASSUME Anew' PROVE NothingReplayed' /\ sent' = SentBefore + run'.made
      <4>1. /\ run.made \in 0 .. Len(Calls[Elem]) /\ More
            /\ Spent(file.log[Elem]) = run.made /\ file.log[Elem].out = Progress
            /\ sent = SentBefore + run.made
        BY <2>2, <2>3, <3>1, <3>3, <3>5
      <4>2. Progress' = Progress + (IF Kind = "call" THEN 1 ELSE 0)
        <5>1. run.made \in Nat
          BY <4>1
        <5> QED
          BY <1>2, <3>2, <5>1, ProgressGrows
      <4>3. run'.made \in 0 .. Len(Calls[Elem])
        BY <1>3, <3>2, <4>1 DEF More
      <4>4. Spent(file'.log[Elem]) = run'.made /\ file'.log[Elem].out = Progress'
        BY <3>2, <3>4, <4>1, <4>2 DEF Spent
      <4>5. NothingReplayed'
        BY <1>2, <3>3, <4>3, <4>4 DEF NothingReplayed
      <4>6. sent' = SentBefore + run'.made
        BY <1>3, <1>6, <3>1, <3>2, <4>1
      <4> QED
        BY <4>5, <4>6
    <3> QED
      BY <1>7, <2>1, <3>1, <3>3, <3>4, <3>5
  <2> QED
    BY <1>9, <2>4, <2>5, <2>6
<1> QED
  BY <1>8, <1>9

(* At the end all elements are passed.                                     *)
LEMMA ThisSummary ==
  ASSUME ViewAssumption, ViewInv, Named, ThisWorks, Tally, Answered, Complete, StartedAnew
  PROVE  sent = Transactions + Sum([h \in Hooks |-> Len(Calls[h])], DoneHooks \cap EndHooks)
<1> DEFINE n == Len(Elements)
<1>1. n \in Nat /\ run.pos - 1 = n /\ run.pos <= n + 1 /\ ~In(InHook)
  BY DEF ViewAssumption, ViewInv, Placed, Tally, Complete, At, In, InHook
<1>2. NewContracts = done \cap Contracts /\ NewHooks = DoneHooks
  BY DEF ThisWorks, OnRecord, StartedAnew, NewContracts, NewHooks, DoneHooks, Named
<1>3. /\ sent = Cardinality(done \cap Contracts) + Sums(CallCount, DoneHooks)[n] + 0
      /\ \A h \in DoneHooks : Spent(file.log[h]) = IF h \in EndHooks THEN 0 ELSE Len(Calls[h])
  BY <1>1 DEF ThisWorks, SentByThis, SentBefore, Anew
<1> DEFINE R == [h \in Hooks |-> Receipts(h)]
           E == DoneHooks \cap EndHooks
<1>4. \A i \in 1 .. n :
        /\ Adds(R, DoneHooks, i) \in Nat /\ Adds(CallCount, E, i) \in Nat
        /\ Adds(R, DoneHooks, i) + Adds(CallCount, E, i) = Adds(CallCount, DoneHooks, i)
  <2> SUFFICES ASSUME NEW i \in 1 .. n
               PROVE  /\ Adds(R, DoneHooks, i) \in Nat /\ Adds(CallCount, E, i) \in Nat
                      /\ Adds(R, DoneHooks, i) + Adds(CallCount, E, i)
                           = Adds(CallCount, DoneHooks, i)
    OBVIOUS
  <2> DEFINE x == Elements[i]
  <2>1. CASE x \notin DoneHooks
    BY <2>1 DEF Adds
  <2>2. CASE x \in DoneHooks
    <3> DEFINE c == Len(Calls[x])
    <3>1. x \in Hooks /\ c \in Nat /\ CallCount[x] = c
      BY <2>2 DEF ViewAssumption, CallCount, DoneHooks
    <3>2. R[x] = IF x \in EndHooks THEN 0 ELSE c
      BY <1>3, <2>2, <3>1 DEF Spent, Receipts
    <3> HIDE DEF c, R
    <3>3. /\ Adds(R, DoneHooks, i) = (IF x \in EndHooks THEN 0 ELSE c)
          /\ Adds(CallCount, E, i) = (IF x \in EndHooks THEN c ELSE 0)
          /\ Adds(CallCount, DoneHooks, i) = c
      BY <2>2, <3>1, <3>2 DEF Adds
    <3> QED
      BY <3>1, <3>3
  <2> QED
    BY <2>1, <2>2
<1> HIDE DEF R, E
<1>5. Sum(R, DoneHooks) \in Nat /\ Sum(CallCount, E) \in Nat
      /\ Sum(R, DoneHooks) + Sum(CallCount, E) = Sum(CallCount, DoneHooks)
  <2>1. Splits(R, DoneHooks, CallCount, E, DoneHooks)
    BY <1>4 DEF Splits
  <2> QED
    BY <2>1, SumsAdd
<1>6. Cardinality(done \cap Contracts) \in Nat
  BY <1>1, DoneFinite DEF ThisWorks, OnRecord
<1>7. Sum(CallCount, DoneHooks) = Sums(CallCount, DoneHooks)[n]
  BY SumsAre
<1>8. Transactions = Cardinality(done \cap Contracts) + Sum(R, DoneHooks)
  BY <1>2 DEF Transactions, R
<1>9. Sum([h \in Hooks |-> Len(Calls[h])], DoneHooks \cap EndHooks) = Sum(CallCount, E)
  BY DEF CallCount, E
<1> DEFINE a == Cardinality(done \cap Contracts)
           b == Sum(R, DoneHooks)
           c == Sum(CallCount, E)
<1>10. a \in Nat /\ b \in Nat /\ c \in Nat /\ sent = a + (b + c) + 0 /\ Transactions = a + b
  BY <1>3, <1>5, <1>6, <1>7, <1>8
<1> HIDE DEF a, b, c, n
<1>11. sent = Transactions + c
  BY <1>10
<1> QED
  BY <1>9, <1>11 DEF c

(* Only the last step of a deployment shows a summary.                     *)
LEMMA NoSummary ==
  ASSUME ViewAssumption, ViewInv, Named, Told, Next, ~ShowSummary
  PROVE  view'.summary = <<>>
<1>1. IsRun(run) /\ IsView(view) /\ view.threw = FALSE
  BY DEF ViewInv, LoggerKnows, Placed
<1>2. CASE SkipContract \/ LeaveOut \/ SkipHook \/ ContractMined \/ FinishHook
  <2>1. ~At("idle") /\ view'.summary \in {<<>>, view.summary}
    BY <1>2, PassesOne DEF OneMore, SameCount
  <2> QED
    BY <2>1 DEF Told
<1>3. CASE \/ ExecuteSingleBinding \/ SendContract \/ ContractSent \/ ContractFails
           \/ DepsMissing \/ ExecuteHook \/ ReplayCall \/ SendCall \/ CallSent \/ CallMined \/ HookFails
  <2>1. ~At("idle") /\ view'.summary \in {<<>>, view.summary}
    BY <1>3, Works DEF SameCount
  <2> QED
    BY <2>1 DEF Told
<1>4. CASE Deploy
  <2>1. CASE view' = NewView
    BY <2>1 DEF NewView
  <2>2. CASE view' = AfterOther
    BY <2>2 DEF NewView, AfterOther
  <2> QED
    BY <1>4, <2>1, <2>2 DEF Deploy
<1>5. CASE ReportError
  BY <1>1, <1>5 DEF ReportError, LogError, Draw, IsView
<1>6. CASE Crash
  BY <1>6 DEF Crash, NewView
<1>7. CASE ResolveFails \/ StoreFails \/ FailHookThrows \/ FailHooksDone \/ SummaryThrows
  BY <1>7 DEF ResolveFails, StoreFails, FailHookThrows, FailHooksDone, SummaryThrows, Complete, At,
     Told
<1>8. CASE FailHook
  <2> DEFINE v == FinishedEventExecution(view, Head(run.left))
  <2>1. run.left # <<>> /\ run.left \in Seq(STRING \ Hooks) /\ view.summary = <<>>
    BY <1>8 DEF FailHook, ViewInv, Blamed, At, Told
  <2>2. Head(run.left) \notin Hooks
    BY <2>1
  <2>3. v = view \/ v = [view EXCEPT !.threw = TRUE]
    BY <2>2 DEF FinishedEventExecution, LogLine, Log
  <2>4. view' = [v EXCEPT !.threw = FALSE]
    BY <1>8 DEF FailHook
  <2> HIDE DEF v
  <2> QED
    BY <1>1, <2>1, <2>3, <2>4 DEF IsView
<1>9. CASE Execute
  <2> DEFINE v == StartModuleDeploy(view)
  <2>1. v.summary = <<>> /\ IsView(v)
    <3> DEFINE s == [x \in {Elements[i] : i \in DOMAIN Elements} |-> "empty"]
    <3>1. v = [view EXCEPT !.context = "this", !.shown = TRUE, !.count = 0,
                !.total = Len(Elements), !.status = s, !.tx = "", !.message = None,
                !.summary = <<>>]
      BY DEF StartModuleDeploy
    <3> HIDE DEF s, v
    <3> QED
      BY <1>1, <3>1 DEF IsView
  <2> HIDE DEF v
  <2>2. view' = [v EXCEPT !.threw = FALSE]
    BY <1>9 DEF Execute, Proceed, v
  <2> QED
    BY <2>1, <2>2 DEF IsView
<1> QED
  BY <1>2, <1>3, <1>4, <1>5, <1>6, <1>7, <1>8, <1>9 DEF Next, Step

(* Only Deploy begins a deployment.                                        *)
LEMMA NoneBegins ==
  ASSUME ViewInv, Step \/ Crash
  PROVE  ~At("resolving")'
<1>1. IsRun(run)
  BY DEF ViewInv, Placed
<1>2. CASE \/ Execute \/ SkipContract \/ ExecuteSingleBinding \/ SendContract \/ ContractSent
           \/ ContractMined \/ SkipHook \/ ExecuteHook \/ SendCall \/ CallSent \/ FinishHook
  <2>1. \/ \E a \in {"next", "binding", "sending", "sent", "calling", "called"} :
             run' = [run EXCEPT !.at = a]
        \/ run' = [run EXCEPT !.at = "hook", !.made = 0]
        \/ run' = Advance \/ run' = Raised(run, "logger")
    <3>1. CASE Execute \/ SkipContract \/ ExecuteSingleBinding \/ SendContract \/ ContractSent
      BY <3>1 DEF Execute, SkipContract, ExecuteSingleBinding, SendContract, ContractSent, Proceed
    <3>2. CASE ContractMined \/ SkipHook \/ ExecuteHook \/ SendCall \/ CallSent \/ FinishHook
      BY <3>2 DEF ContractMined, SkipHook, ExecuteHook, SendCall, CallSent, FinishHook, Proceed
    <3> QED
      BY <1>2, <3>1, <3>2
  <2> QED
    BY <1>1, <2>1 DEF IsRun, Advance, Raised, At
<1>3. CASE StoreFails \/ ContractFails \/ DepsMissing \/ HookFails
  <2>1. \E e : run' = Raised(run, e)
    BY <1>3 DEF StoreFails, ContractFails, DepsMissing, HookFails
  <2> QED
    BY <1>1, <2>1 DEF IsRun, Raised, At
<1>4. CASE LeaveOut \/ ReplayCall \/ CallMined
  BY <1>1, <1>4 DEF LeaveOut, AtContract, ReplayCall, CallMined, Advance, IsRun, At
<1>5. CASE FailHook
  BY <1>1, <1>5 DEF FailHook, IsRun, At
<1>6. CASE ResolveFails \/ FailHookThrows \/ FailHooksDone \/ SummaryThrows
  BY <1>1, <1>6 DEF ResolveFails, FailHookThrows, FailHooksDone, SummaryThrows, Complete, IsRun, At
<1>7. CASE ReportError \/ ShowSummary \/ Crash
  <2>1. run' = [run EXCEPT !.at = "idle"] \/ run' = Raised(run, "logger")
    BY <1>7 DEF ReportError, ShowSummary, Crash, Proceed
  <2> QED
    BY <1>1, <2>1 DEF IsRun, Raised, At
<1> QED
  BY <1>2, <1>3, <1>4, <1>5, <1>6, <1>7 DEF Step

(* The first step of a deployment that works.                              *)
LEMMA ThisBegins ==
  ASSUME ViewAssumption, ViewInv, Starts, Answered, Accounted, Execute, In(Working)'
  PROVE  ThisWorks'
<1>1. IsRun(run) /\ mem.log \in Logs
  BY DEF ViewInv, Placed, Answered
<1>2. Begun /\ run.pos = 1 /\ file' = mem /\ UNCHANGED <<mem, old, done, sent>>
  BY DEF Execute, Accounted, Starts, Kept
<1>3. run'.at = "next" /\ run'.pos = 1
  <2>1. run' = Raised(run, "logger") \/ run' = [run EXCEPT !.at = "next"]
    BY DEF Execute, Proceed
  <2> QED
    BY <1>1, <1>2, <2>1 DEF Raised, IsRun, In, Working, InContract, InHook
<1>4. ~In(InHook)' /\ DoneHooks' = {} /\ done' = {} /\ sent' = 0
  BY <1>2, <1>3 DEF In, InHook, DoneHooks, Begun
<1>5. SentBefore' = 0
  <2>1. Cardinality(done' \cap Contracts) = 0
    BY <1>4, FS_EmptySet
  <2>2. run'.pos - 1 = 0 /\ Sums(CallCount, {})[0] = 0
    BY <1>3, SumsAre
  <2> QED
    BY <1>4, <2>1, <2>2 DEF SentBefore
<1>6. OnRecord'
  BY <1>2, <1>4 DEF OnRecord, Begun
<1>7. LogsOfThis'
  BY <1>2, <1>4 DEF LogsOfThis, Begun
<1>8. SentByThis'
  BY <1>4, <1>5 DEF SentByThis
<1> QED
  BY <1>6, <1>7, <1>8 DEF ThisWorks

(* The steps of a deployment that work on.                                 *)
LEMMA ThisStep ==
  ASSUME ViewAssumption, ViewInv, Named, Starts, Answered, Accounted, In(Working)', Step
  PROVE  ThisWorks'
<1>1. IsRun(run)
  BY DEF ViewInv, Placed
<1>2. CASE Execute
  BY <1>2, ThisBegins
<1>3. In(Working) => ThisWorks
  BY DEF Accounted
<1>4. CASE SkipContract \/ LeaveOut \/ SkipHook \/ ContractMined \/ FinishHook
  <2>1. In(Working)
    BY <1>4 DEF SkipContract, LeaveOut, SkipHook, AtContract, AtHook, ContractMined, FinishHook,
       At, In, Working, InContract, InHook
  <2> QED
    BY <1>3, <1>4, <2>1, ThisPasses
<1>5. CASE ExecuteHook \/ ReplayCall \/ SendCall \/ CallSent \/ CallMined
  <2>1. In(Working)
    BY <1>5 DEF ExecuteHook, AtHook, ReplayCall, SendCall, CallSent, CallMined,
       At, In, Working, InContract, InHook
  <2> QED
    BY <1>3, <1>5, <2>1, ThisHook
<1>6. CASE ExecuteSingleBinding \/ SendContract \/ ContractSent
  <2>1. In(Working) /\ ~In(InHook) /\ UNCHANGED <<file, mem, old, done, sent>>
    BY <1>6 DEF ExecuteSingleBinding, AtContract, SendContract, ContractSent, Unfiled, Kept,
       At, In, Working, InContract, InHook
  <2>2. \E a \in InContract : run' = [run EXCEPT !.at = a]
    <3>1. run' = Raised(run, "logger") \/ \E a \in InContract : run' = [run EXCEPT !.at = a]
      BY <1>6 DEF ExecuteSingleBinding, SendContract, ContractSent, Proceed, InContract
    <3> QED
      BY <1>1, <3>1 DEF Raised, IsRun, In, Working, InContract, InHook
  <2>3. run'.pos = run.pos /\ ~In(InHook)'
    BY <1>1, <2>2 DEF IsRun, In, InContract, InHook
  <2> QED
    BY <1>3, <2>1, <2>3, ThisContract
<1>7. CASE ShowSummary
  <2>1. run'.at \in {"idle", "failing"}
    BY <1>1, <1>7 DEF ShowSummary, Proceed, Raised, IsRun
  <2> QED
    BY <2>1 DEF In, Working, InContract, InHook
<1>8. CASE StoreFails \/ ContractFails \/ DepsMissing \/ HookFails
  <2>1. \E e : run' = Raised(run, e)
    BY <1>8 DEF StoreFails, ContractFails, DepsMissing, HookFails
  <2> QED
    BY <1>1, <2>1 DEF Raised, IsRun, In, Working, InContract, InHook
<1>9. CASE ResolveFails \/ FailHookThrows \/ FailHooksDone \/ ReportError \/ SummaryThrows
  BY <1>1, <1>9 DEF ResolveFails, FailHookThrows, FailHooksDone, ReportError, SummaryThrows,
     IsRun, In, Working, InContract, InHook
<1>10. CASE FailHook
  <2>1. run'.at \in {"failing", "raised"}
    BY <1>1, <1>10 DEF FailHook, IsRun, At
  <2> QED
    BY <2>1 DEF In, Working, InContract, InHook
<1> QED
  BY <1>2, <1>4, <1>5, <1>6, <1>7, <1>8, <1>9, <1>10 DEF Step

(* What is told at the end.                                                *)
LEMMA ToldStep ==
  ASSUME ViewAssumption, ViewInv, Named, Answered, Tally, Accounted, Next
  PROVE  Told'
<1>1. CASE ~ShowSummary
  <2>1. view'.summary = <<>>
    BY <1>1, NoSummary DEF Accounted
  <2> QED
    BY <2>1 DEF Told
<1>2. CASE ShowSummary
  <2>1. In(Working) /\ Complete /\ Shows(view) /\ UNCHANGED <<old, done, sent>>
    BY <1>2 DEF ShowSummary, Complete, Kept, ViewInv, LoggerKnows, In, At, Working
  <2>2. StartedAnew => sent = Transactions + Sum([h \in Hooks |-> Len(Calls[h])], DoneHooks \cap EndHooks)
    BY <2>1, ThisSummary DEF Accounted
  <2> DEFINE t == Transactions
             v == FinishModuleDeploy(view, t)
  <2>3. Proceed(v, [run EXCEPT !.at = "idle"])
    BY <1>2 DEF ShowSummary
  <2> HIDE DEF t
  <2>4. Shows(v) /\ v.summary = <<t>>
    BY <2>1 DEF Shows, IsView, FinishModuleDeploy, Log, Draw, None
  <2> HIDE DEF v
  <2>5. view' = v /\ run' = [run EXCEPT !.at = "idle"]
    BY <2>3, <2>4, GoesOn
  <2>6. view'.summary[1] = t /\ At("idle")'
    BY <2>4, <2>5 DEF ViewInv, Placed, IsRun, At
  <2>7. DoneHooks' = DoneHooks /\ (StartedAnew' <=> StartedAnew)
    BY <2>1 DEF DoneHooks, StartedAnew
  <2>8. SummaryExact'
    BY <2>1, <2>2, <2>6, <2>7 DEF SummaryExact, t
  <2> QED
    BY <2>6, <2>8 DEF Told
<1> QED
  BY <1>1, <1>2

LEMMA AccountedStep ==
  ASSUME ViewAssumption, ViewInv, Named, Starts, Tally, Answered, Accounted, [Next]_vars
  PROVE  Accounted'
<1>1. CASE UNCHANGED vars
  <2>1. Passed' = Passed /\ Elem' = Elem /\ DoneHooks' = DoneHooks
    BY <1>1 DEF vars, Passed, Elem, DoneHooks
  <2>2. (NothingReplayed' <=> NothingReplayed) /\ SentBefore' = SentBefore
        /\ (StartedAnew' <=> StartedAnew)
    BY <1>1, <2>1 DEF vars, NothingReplayed, In, At, More, Progress, SentBefore, StartedAnew
  <2>3. (OnRecord' <=> OnRecord) /\ (LogsOfThis' <=> LogsOfThis)
    BY <1>1, <2>1 DEF vars, OnRecord, LogsOfThis, In
  <2>4. Anew' <=> Anew
    BY <1>1, <2>1, <2>2 DEF vars, Anew, In
  <2>5. SentByThis' <=> SentByThis
    BY <1>1, <2>1, <2>2, <2>4 DEF vars, SentByThis, In
  <2>6. (Begun' <=> Begun) /\ (Told' <=> Told)
    BY <1>1, <2>1, <2>2 DEF vars, Begun, Told, SummaryExact, At
  <2> QED
    BY <1>1, <2>3, <2>5, <2>6 DEF vars, Accounted, ThisWorks, In, At
<1>2. CASE Next
  <2>1. Told'
    BY <1>2, ToldStep
  <2>2. CASE Deploy
    <3>1. run'.at = "resolving" /\ mem' = Resolved /\ done' = {} /\ sent' = 0
          /\ old' = [Resolved EXCEPT !.address = file.address]
      BY <2>2 DEF Deploy
    <3>2. /\ mem'.log = Resolved.log /\ old'.log = Resolved.log
          /\ mem'.executed = Resolved.executed /\ old'.executed = Resolved.executed
          /\ mem'.address = file.address \ Forgotten /\ old'.address = file.address
      BY <3>1 DEF Resolved
    <3>3. Begun'
      BY <3>1, <3>2 DEF Begun
    <3> QED
      BY <2>1, <3>1, <3>3 DEF Accounted, In, Working, InContract, InHook
  <2>3. CASE Step
    BY <2>1, <2>3, NoneBegins, ThisStep DEF Accounted
  <2>4. CASE Crash
    <3>1. run'.at = "idle"
      BY <2>4 DEF Crash, ViewInv, Placed, IsRun
    <3> QED
      BY <2>1, <3>1 DEF Accounted, At, In, Working, InContract, InHook
  <2> QED
    BY <1>2, <2>2, <2>3, <2>4 DEF Next
<1> QED
  BY <1>1, <1>2

(* The summary of a deployment that redid no contract for its being an     *)
(* argument, and began no hook over that had transactions on file, counts  *)
(* each transaction it sent, and none of an earlier one; but for those of  *)
(* the onSuccess and onCompletion hooks, which it leaves out.              *)
THEOREM Summed == ASSUME ViewAssumption PROVE Spec => []SummaryExact
<1> DEFINE Inv == Named /\ Starts /\ Tally /\ Answered /\ Accounted
<1>1. Init => Inv
  <2> SUFFICES ASSUME Init PROVE Inv
    OBVIOUS
  <2>1. view.summary = <<>> /\ run.at = "idle"
    BY DEF Init, NewView
  <2>2. Accounted
    BY <2>1 DEF Accounted, Told, At, In, Working, InContract, InHook
  <2> QED
    BY <2>2, InitTally, InitAnswered
<1>2. ViewInv /\ Inv /\ [Next]_vars => Inv'
  <2> SUFFICES ASSUME ViewInv, Inv, [Next]_vars PROVE Inv'
    OBVIOUS
  <2>1. Named' /\ Starts' /\ Tally'
    BY NamedStep, StartsStep, TallyStep
  <2>2. Answered' /\ Accounted'
    BY AnsweredStep, AccountedStep
  <2> QED
    BY <2>1, <2>2
<1>3. Accounted => SummaryExact
  BY DEF Accounted, Told, SummaryExact
<1> QED
  BY <1>1, <1>2, <1>3, ViewInvariant, PTL DEF Spec

=============================================================================
