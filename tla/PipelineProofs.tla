--------------------------- MODULE PipelineProofs ---------------------------
(***************************************************************************)
(* Every step of Pipeline keeps TypeOK, for any number of runs, rows, tasks *)
(* and prepare coroutines: one lemma for each group of actions, the        *)
(* coroutines' steps, the scheduler's, the handlers', the requests'.  And  *)
(* what follows from the types alone: 'sent' is final, 'sent' always has   *)
(* evidence behind it, and a dry run never sends.  Each has a lemma that   *)
(* says what any step may do to the state it is about (Effect, ModeEffect), *)
(* so that the invariant needs no case split of its own.                   *)
(***************************************************************************)
EXTENDS Pipeline, FiniteSetTheorems, TLAPS


\* An empty database and an idle manager are well typed.
LEMMA TypeInit == Init => TypeOK
BY StoreAssumption, TaskAssumption, PipelineAssumption
   DEF Init, TypeOK, StoreInit, StoreTypeOK, ManagerInit, ManagerTypeOK, WorkerInit,
       WorkerTypeOK, StageInit, StageTypeOK, ApiInit, ApiTypeOK, RunStatus, ItemState,
       TaskPc, Caller, NoRun

\* However a coroutine ends, with whatever run status, the types hold.
LEMMA EndWithTypes ==
  ASSUME TypeOK, NEW t \in Task, NEW from, NEW s \in RunStatus, EndWith(t, from, s),
         UNCHANGED <<stageVars, apiVars, serverVars>>
  PROVE  TypeOK'
<1> USE DEF TypeOK, EndWith, Step, Goto, SetStatus, KeepTask,
            runVars, itemVars, appVars, slotVars, historyVars
<1>1. StoreTypeOK'
  BY DEF StoreTypeOK, RunStatus, ItemState
<1>2. ManagerTypeOK'
  BY DEF ManagerTypeOK, TaskPc
<1>3. WorkerTypeOK'
  BY DEF WorkerTypeOK, RunStatus
<1>4. StageTypeOK' /\ ApiTypeOK' /\ server' \in {"down", "booting", "up"} /\ crashes' \in 0 .. MaxCrashes
  BY DEF StageTypeOK, ApiTypeOK, stageVars, apiVars, handlerVars, serverVars
<1> QED
  BY <1>1, <1>2, <1>3, <1>4

\* The steps of run_prepare.  CoroutineEnds counts down `live`, which stays a
\* natural number because an idle coroutine exists (Idle).
LEMMA PrepareTypes ==
  ASSUME TypeOK, NEW t \in Task, PrepareStep(t), UNCHANGED <<stageVars, apiVars, serverVars>>
  PROVE  TypeOK'
<1>1. CASE PrepareError(t)
  <2>1. PICK from \in {"begin", "discover", "loop"} : EndWith(t, from, "error")
    BY <1>1 DEF PrepareError
  <2> QED
    BY <2>1, EndWithTypes DEF RunStatus
<1>2. CASE DiscoverCancelled(t)
  BY <1>2, EndWithTypes DEF DiscoverCancelled, RunStatus
<1>3. CASE PrepareCancelled(t)
  BY <1>3, EndWithTypes DEF PrepareCancelled, RunStatus
<1> USE StoreAssumption, TaskAssumption, ConcurrencyAssumption
      DEF TypeOK, StoreTypeOK, ManagerTypeOK, WorkerTypeOK, StageTypeOK, ApiTypeOK,
          RunStatus, ItemState, TaskPc, Caller, NoRun
<1> USE DEF runVars, itemVars, appVars, slotVars,
          progressVars, historyVars, stageVars, apiVars, handlerVars, serverVars,
          KeepTask, Step, Goto
<1>4. CASE PrepareBegin(t)
  BY <1>4 DEF PrepareBegin
<1>5. CASE Discover(t)
  BY <1>5 DEF Discover, Candidates
<1>6. CASE LinkedInSkipped(t)
  BY <1>6 DEF LinkedInSkipped
<1>7. CASE Add(t)
  BY <1>7 DEF Add, AddItems, Insertable
<1>8. CASE CoroutineEnds(t)
  <2>1. Cardinality(hold[t]) \in Nat
    BY FS_Subset, FS_CardinalityType
  <2>2. (live[t] - 1) \in Nat
    BY <1>8, <2>1 DEF CoroutineEnds, Idle
  <2> QED
    BY <1>8, <2>2 DEF CoroutineEnds
<1>9. CASE NextPhase(t)
  BY <1>9 DEF NextPhase
<1>10. CASE PrepareCounts(t)
  BY <1>10 DEF PrepareCounts, Outcome
<1>11. ASSUME NEW i \in Item, Claim(t, i) PROVE TypeOK'
  BY <1>11 DEF Claim, TransitionItem, TransitionItems
<1>12. ASSUME NEW i \in Item, NEW to \in ItemState, Prepared(t, i, to) PROVE TypeOK'
  BY <1>12 DEF Prepared, TransitionItem, TransitionItems
<1> QED
  BY <1>1, <1>2, <1>3, <1>4, <1>5, <1>6, <1>7, <1>8, <1>9, <1>10, <1>11, <1>12 DEF PrepareStep

\* The steps of run_send.
LEMMA SendTypes ==
  ASSUME TypeOK, NEW t \in Task, SendStep(t), UNCHANGED <<stageVars, apiVars, serverVars>>
  PROVE  TypeOK'
<1>1. CASE SendError(t)
  BY <1>1, EndWithTypes DEF SendError, RunStatus
<1> USE StoreAssumption, TaskAssumption
      DEF TypeOK, StoreTypeOK, ManagerTypeOK, WorkerTypeOK, StageTypeOK, ApiTypeOK,
          RunStatus, ItemState, TaskPc, Caller, NoRun
<1> USE DEF runVars, itemVars, appVars, slotVars,
          progressVars, historyVars, stageVars, apiVars, handlerVars, serverVars,
          KeepTask, Step, Goto, TransitionItem, TransitionItems
<1>2. CASE SendBegin(t)
  <2>1. StoreTypeOK'
    BY <1>2 DEF SendBegin, SetStatus
  <2>2. ManagerTypeOK' /\ WorkerTypeOK'
    BY <1>2 DEF SendBegin, SetStatus
  <2>3. StageTypeOK' /\ ApiTypeOK' /\ UNCHANGED serverVars
    OBVIOUS
  <2> QED
    BY <2>1, <2>2, <2>3
<1>3. CASE SendCounts(t)
  BY <1>3 DEF SendCounts, Outcome
<1>4. CASE Pause(t)
  BY <1>4 DEF Pause
<1>5. ASSUME NEW i \in Item, SendRefused(t, i) PROVE TypeOK'
  BY <1>5 DEF SendRefused
<1>6. ASSUME NEW i \in Item, PickUp(t, i) PROVE TypeOK'
  BY <1>6 DEF PickUp
<1>7. ASSUME NEW i \in Item, NEW to \in ItemState, SendAnswer(t, i, to) PROVE TypeOK'
  BY <1>7 DEF SendAnswer
<1>8. ASSUME NEW i \in Item, FillFails(t, i) PROVE TypeOK'
  BY <1>7, <1>8 DEF FillFails
<1>9. ASSUME NEW i \in Item, Click(t, i) PROVE TypeOK'
  BY <1>9 DEF Click
<1>10. ASSUME NEW i \in Item, NotVerified(t, i) PROVE TypeOK'
  BY <1>7, <1>10 DEF NotVerified
<1>11. ASSUME NEW i \in Item, Verified(t, i) PROVE TypeOK'
  BY <1>11 DEF Verified
<1>12. ASSUME NEW i \in Item, Record(t, i) PROVE TypeOK'
  BY <1>12 DEF Record, RecordApplication
<1> QED
  BY <1>1, <1>2, <1>3, <1>4, <1>5, <1>6, <1>8, <1>9, <1>10, <1>11, <1>12 DEF SendStep

\* Every step of a coroutine, its end included.
LEMMA WorkTypes ==
  ASSUME TypeOK, NEW t \in Task, Work(t)
  PROVE  TypeOK'
<1>1. CASE PrepareStep(t)
  BY <1>1, PrepareTypes DEF Work
<1>2. CASE SendStep(t)
  BY <1>2, SendTypes DEF Work
<1>3. CASE Close(t)
  BY <1>3, EndWithTypes DEF Work, Close, TypeOK, WorkerTypeOK
<1> USE DEF Work, TypeOK, StoreTypeOK, ManagerTypeOK, WorkerTypeOK, StageTypeOK, ApiTypeOK,
            RunStatus, ItemState, TaskPc, Caller, NoRun,
            runVars, itemVars, appVars, slotVars, progressVars, historyVars, stageVars,
            apiVars, handlerVars, serverVars, KeepTask, Step, Goto
<1>4. CASE TakeOver(t)
  BY <1>4 DEF TakeOver
<1>5. CASE Exit(t)
  BY <1>5 DEF Exit, Release
<1> QED
  BY <1>1, <1>2, <1>3, <1>4, <1>5 DEF TaskStep

\* The steps of stage_now, on either of its threads.
LEMMA StageTypes ==
  ASSUME TypeOK, NEW c \in Caller,
         (\E r \in Run : StageCreate(c, r)) \/ StageContinues(c),
         UNCHANGED <<apiVars, serverVars>>
  PROVE  TypeOK'
<1> USE StoreAssumption, TaskAssumption
      DEF TypeOK, StoreTypeOK, ManagerTypeOK, WorkerTypeOK, StageTypeOK, ApiTypeOK,
          RunStatus, ItemState, TaskPc, NoRun
<1> USE DEF runVars, itemVars, appVars, taskVars, slotVars, progressVars, workerVars,
          historyVars, apiVars, handlerVars, serverVars, Goto, StageGoto, SetStatus
<1>1. ASSUME NEW r \in Run, StageCreate(c, r) PROVE TypeOK'
  BY <1>1 DEF StageCreate, CreateRunAtomic
<1>2. CASE StageRefused(c)
  <2>1. StoreTypeOK'
    BY <1>2 DEF StageRefused
  <2>2. StageTypeOK'
    BY <1>2 DEF StageRefused
  <2>3. UNCHANGED <<itemVars, appVars, taskVars, slotVars, progressVars, historyVars, apiVars, serverVars>>
    BY <1>2 DEF StageRefused
  <2> QED
    BY <2>1, <2>2, <2>3
<1>3. CASE StageSubmit(c)
  <2>1. ManagerTypeOK'
    BY <1>3 DEF StageSubmit, Submit
  <2>2. StageTypeOK'
    BY <1>3 DEF StageSubmit
  <2>3. UNCHANGED <<runVars, itemVars, appVars, progressVars, historyVars, apiVars, serverVars>>
    BY <1>3 DEF StageSubmit
  <2> QED
    BY <2>1, <2>2, <2>3
<1>4. ASSUME NEW t \in Task, StageStart(c, t) PROVE TypeOK'
  BY <1>4 DEF StageStart, Reserve
<1> QED
  BY <1>1, <1>2, <1>3, <1>4 DEF StageContinues

\* What a handler does after its first call of the run manager.
LEMMA HandlerTypes ==
  ASSUME TypeOK, HandlerContinues, UNCHANGED <<stageVars, serverVars>>
  PROVE  TypeOK'
<1> USE StoreAssumption, TaskAssumption
      DEF TypeOK, StoreTypeOK, ManagerTypeOK, WorkerTypeOK, StageTypeOK, ApiTypeOK,
          RunStatus, ItemState, TaskPc, NoRun
<1> USE DEF runVars, itemVars, appVars, taskVars, slotVars, progressVars, workerVars,
          historyVars, stageVars, serverVars, Goto, ApiGoto, ApiDone
<1>1. CASE StartRefused
  BY <1>1 DEF StartRefused, HandlerContinues
<1>2. CASE HandlerSubmit
  BY <1>2 DEF HandlerSubmit, Submit, HandlerContinues
<1>3. CASE EnsureReturns
  BY <1>3 DEF EnsureReturns, HandlerContinues
<1>4. ASSUME NEW t \in Task, StartPrepare(t) PROVE TypeOK'
  BY <1>4 DEF StartPrepare, Reserve, HandlerContinues
<1>5. ASSUME NEW t \in Task, EnsureStart(t) PROVE TypeOK'
  BY <1>5 DEF EnsureStart, Reserve, HandlerContinues
<1> QED
  BY <1>1, <1>2, <1>3, <1>4, <1>5 DEF HandlerContinues

\* The requests a human or a page can make.
LEMMA RequestTypes ==
  ASSUME TypeOK, Request, UNCHANGED <<stageVars, serverVars>>
  PROVE  TypeOK'
<1> USE StoreAssumption, TaskAssumption
      DEF TypeOK, StoreTypeOK, ManagerTypeOK, WorkerTypeOK, StageTypeOK, ApiTypeOK,
          RunStatus, ItemState, TaskPc, NoRun
<1> USE DEF runVars, itemVars, appVars, taskVars, slotVars, progressVars, workerVars,
          historyVars, stageVars, serverVars, handlerVars, Goto, ApiGoto, ApiDone,
          SetStatus, Confirm, TransitionItem, TransitionItems, CreateRunAtomic
<1>0. assistPc' = assistPc
  BY DEF Request
<1>1. ASSUME NEW r \in Run, NEW mode \in {"dry", "live"}, CreateRun(r, mode) PROVE TypeOK'
  BY <1>0, <1>1 DEF CreateRun
<1>2. ASSUME NEW r \in Run, CancelRun(r) PROVE TypeOK'
  BY <1>0, <1>2 DEF CancelRun, RequestCancel
<1>3. ASSUME NEW r \in Run, ConfirmAll(r) PROVE TypeOK'
  BY <1>0, <1>3 DEF ConfirmAll, RowsOf
<1>4. ASSUME NEW r \in Run, NEW i \in Item, ConfirmItem(r, i) PROVE TypeOK'
  BY <1>0, <1>4 DEF ConfirmItem
<1>5. ASSUME NEW r \in Run, NEW S \in SUBSET Item, SendReady(r, S) PROVE TypeOK'
  BY <1>0, <1>5 DEF SendReady
<1>6. ASSUME NEW t \in Task, Takeover(t) PROVE TypeOK'
  BY <1>0, <1>6 DEF Takeover, Reserve
<1>7. ASSUME NEW i \in Item, MarkSent(i) PROVE TypeOK'
  BY <1>0, <1>7 DEF MarkSent, RecordApplication
<1>8. ASSUME NEW i \in Item, MarkUnavailable(i) PROVE TypeOK'
  BY <1>0, <1>8 DEF MarkUnavailable
<1>9. ASSUME NEW i \in Item, SkipItem(i) PROVE TypeOK'
  BY <1>0, <1>9 DEF SkipItem
<1>10. ASSUME NEW S \in SUBSET Item, Requeue(S) PROVE TypeOK'
  BY <1>0, <1>10 DEF Requeue
<1> QED
  BY <1>1, <1>2, <1>3, <1>4, <1>5, <1>6, <1>7, <1>8, <1>9, <1>10 DEF Request

\* TypeOK is inductive.
LEMMA TypeStep == TypeOK /\ [Next]_vars => TypeOK'
<1> SUFFICES ASSUME TypeOK, [Next]_vars PROVE TypeOK'
  OBVIOUS
<1>1. ASSUME NEW t \in Task, Work(t) PROVE TypeOK'
  BY <1>1, WorkTypes
<1>2. ASSUME NEW r \in Run, Tick(r) \/ RunNow(r) PROVE TypeOK'
  BY <1>2, StageTypes DEF Tick, RunNow, Caller
<1>3. ASSUME NEW c \in Caller, Staging(c) PROVE TypeOK'
  BY <1>3, StageTypes DEF Staging
<1>4. CASE Handle
  BY <1>4, HandlerTypes DEF Handle
<1>5. CASE Ask
  BY <1>5, RequestTypes DEF Ask
<1> USE StoreAssumption, TaskAssumption, PipelineAssumption
      DEF TypeOK, StoreTypeOK, ManagerTypeOK, WorkerTypeOK, StageTypeOK, ApiTypeOK,
          RunStatus, ItemState, TaskPc, NoRun
<1> USE DEF storeVars, runVars, itemVars, appVars, taskVars, slotVars, progressVars,
          workerVars, historyVars, stageVars, apiVars, handlerVars, serverVars
<1>6. CASE Assist
  <2>1. CASE AssistCheck
    BY <1>6, <2>1 DEF Assist, AssistStep, AssistCheck
  <2>2. CASE AssistSweep
    BY <1>6, <2>2 DEF Assist, AssistStep, AssistSweep, SweepStuckItems, TransitionItems
  <2> QED
    BY <1>6, <2>1, <2>2 DEF Assist, AssistStep
<1>7. ASSUME NEW i \in Item, ItemStalls(i) PROVE TypeOK'
  BY <1>7 DEF ItemStalls
<1>8. CASE NewDay
  BY <1>8 DEF NewDay
<1>9. ASSUME NEW dead \in SUBSET Run, SweepStaleRuns(dead), SweepFrame,
             server' \in {"down", "booting", "up"}
      PROVE  TypeOK'
  BY <1>9 DEF SweepStaleRuns, SweepFrame
<1>10. CASE OtherProcessSweeps
  BY <1>9, <1>10 DEF OtherProcessSweeps
<1>11. CASE Crash
  BY <1>11 DEF Crash, ApiDone, ApiGoto
<1>12. CASE Boot
  BY <1>12 DEF Boot
<1>13. CASE Startup
  <2>1. CASE StartupSweep
    BY <1>9, <2>1 DEF StartupSweep
  <2>2. CASE StartupSweepSkipped
    BY <2>2 DEF StartupSweepSkipped
  <2> QED
    BY <1>13, <2>1, <2>2 DEF Startup
<1>14. CASE UNCHANGED vars
  BY <1>14 DEF vars
<1> QED
  BY <1>1, <1>2, <1>3, <1>4, <1>5, <1>6, <1>7, <1>8, <1>10, <1>11, <1>12, <1>13, <1>14 DEF Next

\* The tables, the slot, the coroutines and the handlers only ever hold values
\* the code can write there: every status is one of the CHECK constraints'.
THEOREM TypesCorrect == Spec => []TypeOK
BY TypeInit, TypeStep, PTL DEF Spec

----------------------------------------------------------------------------

\* A row's state and its evidence move together: 'sent' is entered by the human,
\* or by the sender that has just seen its submit confirmed, and never left.
RowMove(i) ==
  \/ itemState'[i] = itemState[i] /\ evidence'[i] = evidence[i]
  \/ itemState[i] # "sent" /\ itemState'[i] # "sent" /\ evidence'[i] = evidence[i]
  \/ itemState[i] # "sent" /\ itemState'[i] = "sent" /\ evidence'[i] = "user"
  \/ itemState[i] # "sent" /\ itemState'[i] = "sent" /\ evidence'[i] = "adapter"
     /\ \E t \in Task : pc[t] = "clicked" /\ hold[t] = {i} /\ pc'[t] = "record" /\ hold'[t] = {i}

\* A task waiting for the answer has submitted what it holds; one that has to
\* record an application keeps at it until it has, or the process dies.
TaskMove(t) ==
  /\ pc'[t] = "clicked" =>
       \/ pc[t] = "clicked" /\ hold'[t] = hold[t]
       \/ hold'[t] \subseteq clicked'
  /\ pc[t] = "record" =>
       \/ pc'[t] = "record" /\ hold'[t] = hold[t]
       \/ \A i \in Item : hold[t] = {i} => KeyOf[i] \in apps'
       \/ crashes' # 0

\* What any step may do to the rows and to the senders.
Effect ==
  /\ clicked \subseteq clicked' /\ apps \subseteq apps'
  /\ crashes' >= crashes
  /\ \A i \in Item : RowMove(i)
  /\ \A t \in Task : TaskMove(t)

\* A coroutine's step has that effect.
LEMMA WorkEffect ==
  ASSUME TypeOK, NEW u \in Task, Work(u)
  PROVE  Effect
<1> USE DEF Effect, RowMove, TaskMove, TypeOK, StoreTypeOK, ManagerTypeOK, WorkerTypeOK,
            runVars, itemVars, appVars, slotVars, progressVars, historyVars, serverVars,
            KeepTask, Step, Goto, TransitionItem, TransitionItems
<1>0. crashes' = crashes /\ crashes \in Nat
  BY PipelineAssumption DEF Work
<1>1. ASSUME NEW from, NEW s, EndWith(u, from, s), from \notin {"clicked", "record"}
      PROVE  Effect
  BY <1>0, <1>1 DEF EndWith
<1>2. CASE PrepareStep(u)
  <2>1. CASE PrepareError(u) \/ DiscoverCancelled(u) \/ PrepareCancelled(u)
    BY <1>1, <2>1 DEF PrepareError, DiscoverCancelled, PrepareCancelled
  <2>2. CASE PrepareBegin(u) \/ LinkedInSkipped(u)
    BY <1>0, <2>2 DEF PrepareBegin, LinkedInSkipped
  <2>3. CASE Discover(u)
    BY <1>0, <2>3 DEF Discover
  <2>4. CASE Add(u)
    BY <1>0, <2>4 DEF Add, AddItems, Insertable
  <2>5. CASE CoroutineEnds(u)
    BY <1>0, <2>5 DEF CoroutineEnds
  <2>6. CASE NextPhase(u) \/ PrepareCounts(u)
    BY <1>0, <2>6 DEF NextPhase, PrepareCounts, LoopOver
  <2>7. ASSUME NEW i \in Item, Claim(u, i) PROVE Effect
    BY <1>0, <2>7 DEF Claim, Idle
  <2>8. ASSUME NEW i \in Item, NEW to \in ItemState, Prepared(u, i, to) PROVE Effect
    BY <1>0, <2>8 DEF Prepared, PrepareVerdicts
  <2> QED
    BY <1>2, <2>1, <2>2, <2>3, <2>4, <2>5, <2>6, <2>7, <2>8 DEF PrepareStep
<1>3. CASE SendStep(u)
  <2>1. CASE SendBegin(u)
    BY <1>0, <2>1 DEF SendBegin
  <2>2. CASE SendCounts(u)
    BY <1>0, <2>2 DEF SendCounts
  <2>3. CASE SendError(u)
    BY <1>1, <2>3 DEF SendError
  <2>4. CASE Pause(u)
    BY <1>0, <2>4 DEF Pause
  <2>5. ASSUME NEW i \in Item, SendRefused(u, i) PROVE Effect
    BY <1>0, <2>5 DEF SendRefused
  <2>6. ASSUME NEW i \in Item, PickUp(u, i) PROVE Effect
    BY <1>0, <2>6 DEF PickUp, Draining
  <2>7. ASSUME NEW i \in Item, FillFails(u, i) \/ NotVerified(u, i) PROVE Effect
    <3>1. PICK to \in {"failed", "needs_input", "sent_unverified"} : SendAnswer(u, i, to)
      BY <2>7 DEF FillFails, NotVerified
    <3>2. pc[u] \in {"filling", "clicked"}
      BY <2>7 DEF FillFails, NotVerified
    <3> QED
      BY <1>0, <3>1, <3>2 DEF SendAnswer
  <2>8. ASSUME NEW i \in Item, Click(u, i) PROVE Effect
    BY <1>0, <2>8 DEF Click
  <2>9. ASSUME NEW i \in Item, Verified(u, i) PROVE Effect
    BY <1>0, <2>9 DEF Verified
  <2>10. ASSUME NEW i \in Item, Record(u, i) PROVE Effect
    <3>1. \A j \in Item : RowMove(j)
      BY <2>10 DEF Record
    <3>2. TaskMove(u)
      BY <2>10 DEF Record, RecordApplication
    <3>3. \A t \in Task \ {u} : TaskMove(t)
      BY <2>10 DEF Record
    <3>4. clicked \subseteq clicked' /\ apps \subseteq apps'
      BY <2>10 DEF Record, RecordApplication
    <3> HIDE DEF RowMove, TaskMove
    <3> QED
      BY <1>0, <3>1, <3>2, <3>3, <3>4
  <2> QED
    BY <1>3, <2>1, <2>2, <2>3, <2>4, <2>5, <2>6, <2>7, <2>8, <2>9, <2>10 DEF SendStep
<1>4. CASE Close(u)
  BY <1>0, <1>4 DEF Close, EndWith
<1>5. CASE TakeOver(u)
  BY <1>0, <1>5 DEF TakeOver
<1>6. CASE Exit(u)
  BY <1>0, <1>6 DEF Exit, Release
<1> QED
  BY <1>2, <1>3, <1>4, <1>5, <1>6 DEF Work, TaskStep

\* So has a step of stage_now: it inserts runs and reserves tasks.
LEMMA StageEffect ==
  ASSUME TypeOK, NEW c \in Caller,
         (\E r \in Run : StageCreate(c, r)) \/ StageContinues(c), UNCHANGED serverVars
  PROVE  Effect
<1> USE DEF Effect, RowMove, TaskMove, TypeOK, ManagerTypeOK,
            runVars, itemVars, appVars, taskVars, workerVars, progressVars, historyVars, serverVars, Goto
<1>0. crashes' = crashes /\ crashes \in Nat
  BY PipelineAssumption
<1>1. ASSUME NEW r \in Run, StageCreate(c, r) PROVE Effect
  BY <1>0, <1>1 DEF StageCreate
<1>2. CASE StageRefused(c)
  BY <1>0, <1>2 DEF StageRefused
<1>3. CASE StageSubmit(c)
  BY <1>0, <1>3 DEF StageSubmit, Submit
<1>4. ASSUME NEW t \in Task, StageStart(c, t) PROVE Effect
  BY <1>0, <1>4 DEF StageStart, Reserve
<1> QED
  BY <1>1, <1>2, <1>3, <1>4 DEF StageContinues

\* So has the rest of a handler: it reserves and submits tasks.
LEMMA HandlerEffect ==
  ASSUME TypeOK, HandlerContinues, UNCHANGED serverVars
  PROVE  Effect
<1> USE DEF Effect, RowMove, TaskMove, TypeOK, ManagerTypeOK,
            runVars, itemVars, appVars, taskVars, workerVars, progressVars, historyVars, serverVars, Goto
<1>0. crashes' = crashes /\ crashes \in Nat
  BY PipelineAssumption
<1>1. CASE StartRefused \/ EnsureReturns
  BY <1>0, <1>1 DEF StartRefused, EnsureReturns
<1>2. CASE HandlerSubmit
  BY <1>0, <1>2 DEF HandlerSubmit, Submit
<1>3. ASSUME NEW t \in Task, StartPrepare(t) \/ EnsureStart(t) PROVE Effect
  BY <1>0, <1>3 DEF StartPrepare, EnsureStart, Reserve
<1> QED
  BY <1>1, <1>2, <1>3 DEF HandlerContinues

\* So has a request; only MarkSent makes a row 'sent', on the human's word.
LEMMA RequestEffect ==
  ASSUME TypeOK, Request, UNCHANGED serverVars
  PROVE  Effect
<1> USE DEF Effect, RowMove, TaskMove, TypeOK, StoreTypeOK, ManagerTypeOK,
            runVars, itemVars, appVars, taskVars, workerVars, progressVars, historyVars,
            serverVars, Goto, Confirm, TransitionItem, TransitionItems
<1>0. crashes' = crashes /\ crashes \in Nat
  BY PipelineAssumption
<1>1. ASSUME NEW r \in Run, CancelRun(r) \/ \E mode \in {"dry", "live"} : CreateRun(r, mode)
      PROVE  Effect
  BY <1>0, <1>1 DEF CancelRun, CreateRun
<1>2. ASSUME NEW r \in Run, ConfirmAll(r) PROVE Effect
  BY <1>0, <1>2 DEF ConfirmAll
<1>3. ASSUME NEW r \in Run, NEW i \in Item, ConfirmItem(r, i) PROVE Effect
  BY <1>0, <1>3 DEF ConfirmItem
<1>4. ASSUME NEW r \in Run, NEW S \in SUBSET Item, SendReady(r, S) PROVE Effect
  BY <1>0, <1>4 DEF SendReady
<1>5. ASSUME NEW t \in Task, Takeover(t) PROVE Effect
  BY <1>0, <1>5 DEF Takeover, Reserve
<1>6. ASSUME NEW i \in Item, MarkSent(i) PROVE Effect
  BY <1>0, <1>6 DEF MarkSent, RecordApplication, Resolvable, Waiting
<1>7. ASSUME NEW i \in Item, MarkUnavailable(i) PROVE Effect
  BY <1>0, <1>7 DEF MarkUnavailable, Resolvable, Waiting
<1>8. ASSUME NEW i \in Item, SkipItem(i) PROVE Effect
  BY <1>0, <1>8 DEF SkipItem, Waiting
<1>9. ASSUME NEW S \in SUBSET Item, Requeue(S) PROVE Effect
  BY <1>0, <1>9 DEF Requeue
<1> QED
  BY <1>1, <1>2, <1>3, <1>4, <1>5, <1>6, <1>7, <1>8, <1>9 DEF Request

\* So has every step of the system.
LEMMA StepEffect ==
  ASSUME TypeOK, [Next]_vars
  PROVE  Effect
<1>1. ASSUME NEW t \in Task, Work(t) PROVE Effect
  BY <1>1, WorkEffect
<1>2. ASSUME NEW r \in Run, Tick(r) \/ RunNow(r) PROVE Effect
  BY <1>2, StageEffect DEF Tick, RunNow, Caller
<1>3. ASSUME NEW c \in Caller, Staging(c) PROVE Effect
  BY <1>3, StageEffect DEF Staging
<1>4. CASE Handle
  BY <1>4, HandlerEffect DEF Handle
<1>5. CASE Ask
  BY <1>5, RequestEffect DEF Ask
<1> USE DEF Effect, RowMove, TaskMove, TypeOK, ManagerTypeOK,
            storeVars, runVars, itemVars, appVars, taskVars, workerVars, progressVars, historyVars,
            serverVars
<1>0. crashes \in Nat
  BY PipelineAssumption
<1>6. CASE Assist
  <2>1. CASE AssistCheck
    BY <1>0, <1>6, <2>1 DEF Assist, AssistStep, AssistCheck
  <2>2. CASE AssistSweep
    BY <1>0, <1>6, <2>2 DEF Assist, AssistStep, AssistSweep, SweepStuckItems, TransitionItems
  <2> QED
    BY <1>6, <2>1, <2>2 DEF Assist, AssistStep
<1>7. ASSUME NEW i \in Item, ItemStalls(i) PROVE Effect
  BY <1>0, <1>7 DEF ItemStalls
<1>8. CASE NewDay
  BY <1>0, <1>8 DEF NewDay
<1>9. ASSUME NEW dead \in SUBSET Run, SweepStaleRuns(dead), SweepFrame PROVE Effect
  BY <1>0, <1>9 DEF SweepStaleRuns, SweepFrame
<1>10. CASE OtherProcessSweeps
  BY <1>9, <1>10 DEF OtherProcessSweeps, StoreTypeOK
<1>11. CASE Crash
  BY <1>0, <1>11 DEF Crash
<1>12. CASE Boot
  BY <1>0, <1>12 DEF Boot
<1>13. CASE Startup
  <2>1. CASE StartupSweep
    BY <1>9, <2>1 DEF StartupSweep, StoreTypeOK
  <2>2. CASE StartupSweepSkipped
    BY <1>0, <2>2 DEF StartupSweepSkipped
  <2> QED
    BY <1>13, <2>1, <2>2 DEF Startup
<1>14. CASE UNCHANGED vars
  BY <1>0, <1>14 DEF vars
<1> QED
  BY <1>1, <1>2, <1>3, <1>4, <1>5, <1>6, <1>7, <1>8, <1>10, <1>11, <1>12, <1>13, <1>14 DEF Next

----------------------------------------------------------------------------

\* A row that shows 'sent' shows 'sent' for ever, under sweeps, crashes, late
\* results, another process and any request (the guarded transition_item).
THEOREM SentStaysSent == Spec => SentIsFinal
<1>1. TypeOK /\ [Next]_vars => \A i \in Item : itemState[i] = "sent" => itemState'[i] = "sent"
  BY StepEffect DEF Effect, RowMove
<1> QED
  BY <1>1, TypesCorrect, PTL DEF Spec, SentIsFinal

\* The strengthening: nobody waits for the answer to a form not submitted.
ClickedIsSubmitted ==
  \A t \in Task : pc[t] = "clicked" => hold[t] \subseteq clicked

\* The inductive invariant behind the evidence theorem.
EvidenceInv == TypeOK /\ EvidenceForSent /\ ClickedIsSubmitted /\ VerifiedIsRecorded

\* It holds at the start: there are no rows.
LEMMA EvidenceInit == Init => EvidenceInv
<1> SUFFICES ASSUME Init PROVE EvidenceForSent /\ ClickedIsSubmitted /\ VerifiedIsRecorded
  BY TypeInit DEF EvidenceInv
<1> QED
  BY DEF Init, StoreInit, ManagerInit, EvidenceForSent, ClickedIsSubmitted, VerifiedIsRecorded

\* It is kept by every step, from what Effect says of the step.
LEMMA EvidenceStep == EvidenceInv /\ [Next]_vars => EvidenceInv'
<1> SUFFICES ASSUME EvidenceInv, [Next]_vars PROVE EvidenceInv'
  OBVIOUS
<1>1. TypeOK' /\ Effect
  BY TypeStep, StepEffect DEF EvidenceInv
<1>2. ClickedIsSubmitted'
  BY <1>1 DEF EvidenceInv, ClickedIsSubmitted, Effect, TaskMove
<1>3. EvidenceForSent'
  BY <1>1 DEF EvidenceInv, EvidenceForSent, ClickedIsSubmitted, Effect, RowMove
<1>4. VerifiedIsRecorded'
  <2> SUFFICES ASSUME crashes' = 0, NEW i \in Item, evidence'[i] = "adapter"
               PROVE  \/ KeyOf[i] \in apps'
                      \/ \E t \in Task : pc'[t] = "record" /\ hold'[t] = {i}
    BY DEF VerifiedIsRecorded
  <2>1. crashes = 0
    BY <1>1 DEF Effect, EvidenceInv, TypeOK
  <2>2. CASE evidence[i] = "adapter"
    BY <1>1, <2>1, <2>2 DEF EvidenceInv, VerifiedIsRecorded, Effect, TaskMove
  <2>3. CASE evidence[i] # "adapter"
    BY <1>1, <2>3 DEF Effect, RowMove
  <2> QED
    BY <2>2, <2>3
<1> QED
  BY <1>1, <1>2, <1>3, <1>4 DEF EvidenceInv

\* A 'sent' row has somebody vouching for it, the adapter only after a submit.
THEOREM EvidenceHolds == Spec => []EvidenceForSent
<1>1. EvidenceInv => EvidenceForSent
  BY DEF EvidenceInv
<1> QED
  BY <1>1, EvidenceInit, EvidenceStep, PTL DEF Spec

\* The status is written before the application (worker.py:522): until a crash comes
\* between the two, a row that was verified is in `applications` or in the hand of
\* the coroutine that is about to record it.
THEOREM VerifiedIsNotLost == Spec => []VerifiedIsRecorded
<1>1. EvidenceInv => VerifiedIsRecorded
  BY DEF EvidenceInv
<1> QED
  BY <1>1, EvidenceInit, EvidenceStep, PTL DEF Spec

----------------------------------------------------------------------------

\* A task that is about to write its closing status has computed it, so no run
\* id is handed out twice.
VerdictIsSet == \A t \in Task : pc[t] = "closing" => verdict[t] # "none"

\* A run that exists and may send.
LiveRun(r) == r \in Run /\ runStatus[r] # "none" /\ runMode[r] = "live"

\* Senders, and the handler about to start one, work for live runs.
SendersAreLive ==
  /\ \A t \in Task : kind[t] = "send" => LiveRun(taskRun[t])
  /\ apiPc = "ensure" => LiveRun(apiRun)

\* The inductive invariant behind the dry-run theorem.
ModeInv == TypeOK /\ VerdictIsSet /\ SendersAreLive

\* A run that exists keeps existing, in the mode it was created with.
RunsKeepMode ==
  \A r \in Run : runStatus[r] # "none" => runStatus'[r] # "none" /\ runMode'[r] = runMode[r]

\* A sender keeps its run, and a new one gets its run from the handler.
SendersKeepRun ==
  \A t \in Task : kind'[t] = "send" =>
    \/ kind[t] = "send" /\ taskRun'[t] = taskRun[t]
    \/ apiPc = "ensure" /\ taskRun'[t] = apiRun

\* The handler that starts senders got its run from a live one.
EnsureKeepsRun ==
  apiPc' = "ensure" =>
    \/ apiPc = "ensure" /\ apiRun' = apiRun
    \/ LiveRun(apiRun)'

\* A closing task keeps its verdict, and a new one has a verdict.
VerdictsStay ==
  \A t \in Task : pc'[t] = "closing" =>
    \/ pc[t] = "closing" /\ verdict'[t] = verdict[t]
    \/ verdict'[t] # "none"

\* What any step may do to runs, senders and the confirm handlers.
ModeEffect == RunsKeepMode /\ SendersKeepRun /\ EnsureKeepsRun /\ VerdictsStay

\* A coroutine's step has that effect.
LEMMA WorkKeepsMode ==
  ASSUME TypeOK, VerdictIsSet, NEW u \in Task, Work(u)
  PROVE  ModeEffect
<1> USE DEF ModeEffect, RunsKeepMode, SendersKeepRun, EnsureKeepsRun, VerdictsStay, LiveRun,
            TypeOK, StoreTypeOK, ManagerTypeOK, WorkerTypeOK,
            runVars, slotVars, progressVars, apiVars, handlerVars, KeepTask, Step, Goto
<1>0. UNCHANGED <<apiPc, apiRun>>
  BY DEF Work
<1>1. ASSUME NEW from, NEW s, s # "none", EndWith(u, from, s) PROVE ModeEffect
  BY <1>0, <1>1 DEF EndWith, SetStatus
<1>2. CASE PrepareStep(u)
  <2>1. CASE PrepareError(u) \/ DiscoverCancelled(u) \/ PrepareCancelled(u)
    BY <1>1, <2>1 DEF PrepareError, DiscoverCancelled, PrepareCancelled
  <2>2. CASE PrepareBegin(u) \/ Discover(u) \/ LinkedInSkipped(u)
    BY <1>0, <2>2 DEF PrepareBegin, Discover, LinkedInSkipped
  <2>3. CASE Add(u) \/ CoroutineEnds(u) \/ NextPhase(u)
    BY <1>0, <2>3 DEF Add, CoroutineEnds, NextPhase
  <2>4. CASE PrepareCounts(u)
    BY <1>0, <2>4 DEF PrepareCounts, Outcome
  <2>5. ASSUME NEW i \in Item, Claim(u, i) PROVE ModeEffect
    BY <1>0, <2>5 DEF Claim
  <2>6. ASSUME NEW i \in Item, NEW to \in ItemState, Prepared(u, i, to) PROVE ModeEffect
    BY <1>0, <2>6 DEF Prepared
  <2> QED
    BY <1>2, <2>1, <2>2, <2>3, <2>4, <2>5, <2>6 DEF PrepareStep
<1>3. CASE SendStep(u)
  <2>1. CASE SendBegin(u)
    BY <1>0, <2>1 DEF SendBegin, SetStatus
  <2>2. CASE SendCounts(u)
    BY <1>0, <2>2 DEF SendCounts, Outcome
  <2>3. CASE SendError(u)
    BY <1>1, <2>3 DEF SendError
  <2>4. CASE Pause(u)
    BY <1>0, <2>4 DEF Pause
  <2>5. ASSUME NEW i \in Item, SendRefused(u, i) \/ PickUp(u, i) \/ Click(u, i) \/ Record(u, i)
        PROVE  ModeEffect
    BY <1>0, <2>5 DEF SendRefused, PickUp, Click, Record
  <2>6. ASSUME NEW i \in Item, FillFails(u, i) \/ NotVerified(u, i) PROVE ModeEffect
    BY <1>0, <2>6 DEF FillFails, NotVerified, SendAnswer
  <2>7. ASSUME NEW i \in Item, Verified(u, i) PROVE ModeEffect
    BY <1>0, <2>7 DEF Verified
  <2> QED
    BY <1>3, <2>1, <2>2, <2>3, <2>4, <2>5, <2>6, <2>7 DEF SendStep
<1>4. CASE Close(u)
  BY <1>0, <1>4 DEF Close, EndWith, SetStatus, VerdictIsSet
<1>5. CASE TakeOver(u) \/ Exit(u)
  BY <1>0, <1>5 DEF TakeOver, Exit, Release
<1> QED
  BY <1>2, <1>3, <1>4, <1>5 DEF Work, TaskStep

\* So has a step of stage_now, which starts dry scans only.
LEMMA StageKeepsMode ==
  ASSUME TypeOK, NEW c \in Caller,
         (\E r \in Run : StageCreate(c, r)) \/ StageContinues(c), UNCHANGED apiVars
  PROVE  ModeEffect
<1> USE DEF ModeEffect, RunsKeepMode, SendersKeepRun, EnsureKeepsRun, VerdictsStay, LiveRun,
            TypeOK, StoreTypeOK, ManagerTypeOK, runVars, taskVars, workerVars, progressVars,
            apiVars, handlerVars, Goto, SetStatus
<1>1. ASSUME NEW r \in Run, StageCreate(c, r) PROVE ModeEffect
  BY <1>1 DEF StageCreate, CreateRunAtomic, IsNextRun
<1>2. CASE StageRefused(c)
  BY <1>2 DEF StageRefused
<1>3. CASE StageSubmit(c)
  BY <1>3 DEF StageSubmit, Submit
<1>4. ASSUME NEW t \in Task, StageStart(c, t) PROVE ModeEffect
  BY <1>4 DEF StageStart, Reserve
<1> QED
  BY <1>1, <1>2, <1>3, <1>4 DEF StageContinues

\* So have the handlers; the confirms check runs.mode themselves.
LEMMA ApiKeepsMode ==
  ASSUME TypeOK, HandlerContinues \/ Request
  PROVE  ModeEffect
<1> USE DEF ModeEffect, RunsKeepMode, SendersKeepRun, EnsureKeepsRun, VerdictsStay, LiveRun,
            TypeOK, StoreTypeOK, ManagerTypeOK, ApiTypeOK, runVars, taskVars, workerVars,
            progressVars, handlerVars, Goto, ApiGoto, ApiDone, SetStatus
<1>1. CASE StartRefused \/ EnsureReturns
  BY <1>1 DEF StartRefused, EnsureReturns
<1>2. CASE HandlerSubmit
  BY <1>2 DEF HandlerSubmit, Submit
<1>3. ASSUME NEW t \in Task, StartPrepare(t) \/ EnsureStart(t) \/ Takeover(t) PROVE ModeEffect
  BY <1>3 DEF StartPrepare, EnsureStart, Takeover, Reserve
<1>4. ASSUME NEW r \in Run, NEW mode \in {"dry", "live"}, CreateRun(r, mode) PROVE ModeEffect
  BY <1>4 DEF CreateRun, CreateRunAtomic, IsNextRun
<1>5. ASSUME NEW r \in Run, CancelRun(r) PROVE ModeEffect
  BY <1>5 DEF CancelRun
<1>6. ASSUME NEW r \in Run, ConfirmAll(r) \/ \E i \in Item : ConfirmItem(r, i) PROVE ModeEffect
  BY <1>6 DEF ConfirmAll, ConfirmItem, Confirm
<1>7. ASSUME NEW r \in Run, NEW S \in SUBSET Item, SendReady(r, S) PROVE ModeEffect
  BY <1>7 DEF SendReady, Confirm, CreateRunAtomic, IsNextRun
<1>8. ASSUME NEW i \in Item, MarkSent(i) \/ MarkUnavailable(i) \/ SkipItem(i) PROVE ModeEffect
  BY <1>8 DEF MarkSent, MarkUnavailable, SkipItem
<1>9. ASSUME NEW S \in SUBSET Item, Requeue(S) PROVE ModeEffect
  BY <1>9 DEF Requeue
<1> QED
  BY <1>1, <1>2, <1>3, <1>4, <1>5, <1>6, <1>7, <1>8, <1>9 DEF HandlerContinues, Request

\* So has every step, crashes and sweeps included.
LEMMA StepKeepsMode ==
  ASSUME ModeInv, [Next]_vars
  PROVE  ModeEffect
<1> USE DEF ModeInv
<1>1. ASSUME NEW t \in Task, Work(t) PROVE ModeEffect
  BY <1>1, WorkKeepsMode
<1>2. ASSUME NEW r \in Run, Tick(r) \/ RunNow(r) PROVE ModeEffect
  BY <1>2, StageKeepsMode DEF Tick, RunNow, Caller
<1>3. ASSUME NEW c \in Caller, Staging(c) PROVE ModeEffect
  BY <1>3, StageKeepsMode DEF Staging
<1>4. CASE Handle \/ Ask
  BY <1>4, ApiKeepsMode DEF Handle, Ask
<1> USE DEF ModeEffect, RunsKeepMode, SendersKeepRun, EnsureKeepsRun, VerdictsStay, LiveRun,
            TypeOK, StoreTypeOK, storeVars, runVars, taskVars, workerVars, progressVars,
            apiVars, handlerVars
<1>5. CASE Assist
  BY <1>5 DEF Assist, AssistStep, AssistCheck, AssistSweep
<1>6. CASE NewDay \/ Boot \/ \E i \in Item : ItemStalls(i)
  BY <1>6 DEF NewDay, Boot, ItemStalls
<1>7. ASSUME NEW dead \in SUBSET Run, SweepStaleRuns(dead), SweepFrame PROVE ModeEffect
  BY <1>7 DEF SweepStaleRuns, SweepFrame
<1>8. CASE OtherProcessSweeps
  BY <1>7, <1>8 DEF OtherProcessSweeps
<1>9. CASE Crash
  BY <1>9 DEF Crash, ApiDone, ApiGoto
<1>10. CASE Startup
  <2>1. CASE StartupSweep
    BY <1>7, <2>1 DEF StartupSweep
  <2>2. CASE StartupSweepSkipped
    BY <2>2 DEF StartupSweepSkipped
  <2> QED
    BY <1>10, <2>1, <2>2 DEF Startup
<1>11. CASE UNCHANGED vars
  BY <1>11 DEF vars
<1> QED
  BY <1>1, <1>2, <1>3, <1>4, <1>5, <1>6, <1>8, <1>9, <1>10, <1>11 DEF Next

\* Nothing sends at the start.
LEMMA ModeInit == Init => ModeInv
<1> SUFFICES ASSUME Init PROVE VerdictIsSet /\ SendersAreLive
  BY TypeInit DEF ModeInv
<1> QED
  BY DEF Init, ManagerInit, ApiInit, VerdictIsSet, SendersAreLive

\* ModeInv is inductive.
LEMMA ModeStep == ModeInv /\ [Next]_vars => ModeInv'
<1> SUFFICES ASSUME ModeInv, [Next]_vars PROVE ModeInv'
  OBVIOUS
<1>1. TypeOK' /\ ModeEffect
  BY TypeStep, StepKeepsMode DEF ModeInv
<1>2. VerdictIsSet'
  BY <1>1 DEF ModeInv, VerdictIsSet, ModeEffect, VerdictsStay
<1>3. ASSUME NEW r, LiveRun(r) PROVE LiveRun(r)'
  BY <1>1, <1>3 DEF ModeEffect, RunsKeepMode, LiveRun
<1>4. ASSUME NEW t \in Task, kind'[t] = "send" PROVE LiveRun(taskRun[t])'
  BY <1>1, <1>3, <1>4 DEF ModeInv, SendersAreLive, ModeEffect, SendersKeepRun, RunsKeepMode, LiveRun
<1>5. ASSUME apiPc' = "ensure" PROVE LiveRun(apiRun)'
  BY <1>1, <1>5 DEF ModeInv, SendersAreLive, ModeEffect, EnsureKeepsRun, RunsKeepMode, LiveRun
<1> QED
  BY <1>1, <1>2, <1>4, <1>5 DEF ModeInv, SendersAreLive

\* Whatever runs, races, crashes or is re-tried, a coroutine that submits forms
\* works for a run that was created live.
THEOREM DryRunsNeverSend == Spec => []DryNeverSends
<1>1. ModeInv => DryNeverSends
  BY DEF ModeInv, SendersAreLive, LiveRun, DryNeverSends
<1> QED
  BY <1>1, ModeInit, ModeStep, PTL DEF Spec
=============================================================================
