----------------------------- MODULE SlotProofs ------------------------------
(***************************************************************************)
(* The slot of the run manager, when the scheduler is off: for any number  *)
(* of coroutines, at most one is on the loop, and a cancel of its run      *)
(* reaches it.  _start is not atomic; what saves it is that the handlers   *)
(* that call it exclude one another on the server's event loop.            *)
(***************************************************************************)
EXTENDS PipelineProofs

\* The coroutine of t is on the loop: submitted and not yet done.
OnLoop(t) == pc[t] \notin {"free", "reserved"}

\* A starter that has reserved t and is about to submit it.
Submitting(t) ==
  \/ apiPc = "submit" /\ apiTask = t
  \/ stagePc["run-now"] = "submit" /\ stageTask["run-now"] = t

\* Starters exclude one another.
OneStarter ==
  /\ stagePc["tick"] = "idle"
  /\ apiPc = "idle" \/ stagePc["run-now"] = "idle"

\* The future is done unless it is that of a coroutine on the loop.
FutureIsOnLoop ==
  /\ \A t \in Task : OnLoop(t) => future = t
  /\ future # NoTask => OnLoop(future)

\* Between the two critical sections the slot is still free for the starter.
ReservedIsSubmitting ==
  /\ \A t \in Task : pc[t] = "reserved" => Submitting(t)
  /\ \A t \in Task \cup {NoTask} : Submitting(t) => t \in Task /\ pc[t] = "reserved"
  /\ \A t \in Task : Submitting(t) => future = NoTask

SlotInv ==
  /\ TypeOK /\ OneStarter /\ FutureIsOnLoop /\ ReservedIsSubmitting /\ CancelReachesWorker

\* What a coroutine does before it ends leaves the slot and the others alone.
Runs(t) ==
  /\ UNCHANGED <<slotVars, taskRun>>
  /\ OnLoop(t) /\ OnLoop(t)'
  /\ \A u \in Task \ {t} : pc'[u] = pc[u]

\* Every step of a coroutine but its end is such a step.
LEMMA WorkRuns ==
  ASSUME TypeOK, NEW t \in Task, Work(t), ~Exit(t)
  PROVE  Runs(t)
<1> USE DEF Runs, OnLoop, TypeOK, ManagerTypeOK, slotVars, KeepTask, Step, Goto
<1>1. ASSUME NEW from \in {"begin", "discover", "loop", "closing", "drain"}, NEW s, EndWith(t, from, s)
      PROVE  Runs(t)
  BY <1>1 DEF EndWith
<1>2. CASE PrepareStep(t)
  <2>1. CASE PrepareError(t) \/ DiscoverCancelled(t) \/ PrepareCancelled(t)
    BY <1>1, <2>1 DEF PrepareError, DiscoverCancelled, PrepareCancelled
  <2>2. CASE PrepareBegin(t) \/ Discover(t) \/ LinkedInSkipped(t)
    BY <2>2 DEF PrepareBegin, Discover, LinkedInSkipped
  <2>3. CASE Add(t) \/ NextPhase(t) \/ PrepareCounts(t)
    BY <2>3 DEF Add, NextPhase, PrepareCounts, LoopOver
  <2>4. CASE CoroutineEnds(t)
    BY <2>4 DEF CoroutineEnds, Idle
  <2>5. ASSUME NEW i \in Item, Claim(t, i) \/ \E to \in ItemState : Prepared(t, i, to) PROVE Runs(t)
    BY <2>5 DEF Claim, Prepared, Idle
  <2> QED
    BY <1>2, <2>1, <2>2, <2>3, <2>4, <2>5 DEF PrepareStep
<1>3. CASE SendStep(t)
  <2>1. CASE SendBegin(t) \/ SendCounts(t) \/ Pause(t)
    BY <2>1 DEF SendBegin, SendCounts, Pause
  <2>2. CASE SendError(t)
    BY <1>1, <2>2 DEF SendError
  <2>3. ASSUME NEW i \in Item, SendRefused(t, i) \/ PickUp(t, i) \/ Click(t, i) \/ Record(t, i)
        PROVE  Runs(t)
    BY <2>3 DEF SendRefused, PickUp, Click, Record, Draining
  <2>4. ASSUME NEW i \in Item, FillFails(t, i) \/ NotVerified(t, i) \/ Verified(t, i) PROVE Runs(t)
    BY <2>4 DEF FillFails, NotVerified, Verified, SendAnswer
  <2> QED
    BY <1>3, <2>1, <2>2, <2>3, <2>4 DEF SendStep
<1>4. CASE Close(t)
  BY <1>1, <1>4 DEF Close
<1>5. CASE TakeOver(t)
  BY <1>5 DEF TakeOver
<1> QED
  BY <1>2, <1>3, <1>4, <1>5 DEF Work, TaskStep

\* So a coroutine keeps the invariant, and so does its end: it was alone.
LEMMA WorkKeepsSlot ==
  ASSUME SlotInv, TypeOK', NEW t \in Task, Work(t)
  PROVE  SlotInv'
<1> USE DEF SlotInv, OneStarter, FutureIsOnLoop, ReservedIsSubmitting, CancelReachesWorker, Submitting
<1>0. UNCHANGED <<apiPc, apiTask, stagePc, stageTask>>
  BY DEF Work, stageVars, apiVars, handlerVars
<1>1. CASE Exit(t)
  BY <1>0, <1>1 DEF Exit, Release, Goto, OnLoop, TypeOK, ManagerTypeOK
<1>2. CASE ~Exit(t)
  <2>1. Runs(t)
    BY <1>2, WorkRuns
  <2> QED
    BY <1>0, <2>1 DEF Runs, OnLoop, slotVars
<1> QED
  BY <1>1, <1>2

\* A step that leaves the slot and the coroutines alone keeps it, if starters
\* still exclude one another and none begins or ceases to submit.
LEMMA QuietKeepsSlot ==
  ASSUME SlotInv, TypeOK', UNCHANGED <<pc, taskRun, slotVars>>, OneStarter',
         \A u \in Task \cup {NoTask} : Submitting(u)' <=> Submitting(u)
  PROVE  SlotInv'
BY DEF SlotInv, FutureIsOnLoop, ReservedIsSubmitting, CancelReachesWorker, OnLoop, slotVars

\* Reserving a task while nothing is on the loop and nobody else is starting.
LEMMA ReserveKeepsSlot ==
  ASSUME SlotInv, TypeOK', NEW t \in Task, NEW what, NEW r \in Run \cup {NoRun}, Reserve(t, what, r),
         \A u \in Task : ~Submitting(u),
         OneStarter', \A u \in Task \cup {NoTask} : Submitting(u)' <=> u = t
  PROVE  SlotInv'
<1> USE DEF SlotInv, Reserve, Busy, Goto, TypeOK, ManagerTypeOK
<1>1. \A u \in Task : pc[u] = "free"
  BY TaskAssumption DEF FutureIsOnLoop, ReservedIsSubmitting, OnLoop
<1>2. FutureIsOnLoop'
  BY <1>1 DEF FutureIsOnLoop, OnLoop
<1>3. ReservedIsSubmitting'
  BY <1>1 DEF ReservedIsSubmitting
<1>4. CancelReachesWorker'
  BY <1>1 DEF CancelReachesWorker
<1> QED
  BY <1>2, <1>3, <1>4

\* Submitting the reserved task: it is the one now on the loop.
LEMMA SubmitKeepsSlot ==
  ASSUME SlotInv, TypeOK', NEW t \in Task, Submit(t), Submitting(t),
         OneStarter', \A u \in Task \cup {NoTask} : ~Submitting(u)'
  PROVE  SlotInv'
<1> USE DEF SlotInv, Submit, Goto, TypeOK, ManagerTypeOK
<1>1. \A u \in Task \ {t} : pc[u] = "free"
  BY DEF CancelReachesWorker
<1>2. FutureIsOnLoop'
  BY <1>1, TaskAssumption DEF FutureIsOnLoop, OnLoop
<1>3. ReservedIsSubmitting'
  BY <1>1 DEF ReservedIsSubmitting
<1>4. CancelReachesWorker'
  BY <1>1 DEF CancelReachesWorker
<1> QED
  BY <1>2, <1>3, <1>4

\* The steps of stage_now in the handler of /api/run-now.
LEMMA RunNowKeepsSlot ==
  ASSUME SlotInv, TypeOK', UNCHANGED apiVars,
         \/ LoopFree /\ \E r \in Run : StageCreate("run-now", r)
         \/ StageContinues("run-now")
  PROVE  SlotInv'
<1> USE DEF StageGoto, apiVars, handlerVars, taskVars, workerVars, slotVars, Caller
<1>0. TypeOK /\ OneStarter /\ StageTypeOK
  BY DEF SlotInv, TypeOK
<1>1. ASSUME NEW r \in Run, LoopFree, StageCreate("run-now", r) PROVE SlotInv'
  <2>1. OneStarter' /\ \A u \in Task \cup {NoTask} : Submitting(u)' <=> Submitting(u)
    BY <1>0, <1>1 DEF LoopFree, StageCreate, OneStarter, Submitting, StageTypeOK
  <2> QED
    BY <1>1, <2>1, QuietKeepsSlot DEF StageCreate
<1>2. CASE StageRefused("run-now")
  <2>1. OneStarter' /\ \A u \in Task \cup {NoTask} : Submitting(u)' <=> Submitting(u)
    BY <1>0, <1>2 DEF StageRefused, OneStarter, Submitting, StageTypeOK
  <2> QED
    BY <1>2, <2>1, QuietKeepsSlot DEF StageRefused
<1>3. CASE StageSubmit("run-now")
  <2>1. OneStarter' /\ \A u \in Task \cup {NoTask} : ~Submitting(u)'
    BY <1>0, <1>3 DEF StageSubmit, OneStarter, Submitting, StageTypeOK
  <2>2. Submitting(stageTask["run-now"])
    BY <1>3 DEF StageSubmit, Submitting
  <2>3. stageTask["run-now"] \in Task
    BY <1>0, <2>2 DEF SlotInv, ReservedIsSubmitting, StageTypeOK
  <2> QED
    BY <1>3, <2>1, <2>2, <2>3, SubmitKeepsSlot DEF StageSubmit
<1>4. ASSUME NEW t \in Task, StageStart("run-now", t) PROVE SlotInv'
  <2>1. OneStarter' /\ \A u \in Task \cup {NoTask} : Submitting(u)' <=> u = t
    BY <1>0, <1>4 DEF StageStart, OneStarter, Submitting, StageTypeOK
  <2>2. \A u \in Task : ~Submitting(u)
    BY <1>0, <1>4 DEF StageStart, OneStarter, Submitting
  <2> QED
    BY <1>0, <1>4, <2>1, <2>2, ReserveKeepsSlot DEF StageStart, StageTypeOK
<1> QED
  BY <1>1, <1>2, <1>3, <1>4 DEF StageContinues

\* What a handler does after its first call of the run manager.
LEMMA HandlerKeepsSlot ==
  ASSUME SlotInv, TypeOK', HandlerContinues, UNCHANGED stageVars
  PROVE  SlotInv'
<1> USE DEF ApiGoto, ApiDone, stageVars, taskVars, workerVars, slotVars
<1>0. TypeOK /\ OneStarter /\ ApiTypeOK
  BY DEF SlotInv, TypeOK
<1>1. CASE StartRefused \/ EnsureReturns
  <2>1. OneStarter' /\ \A u \in Task \cup {NoTask} : Submitting(u)' <=> Submitting(u)
    BY <1>0, <1>1 DEF StartRefused, EnsureReturns, OneStarter, Submitting
  <2> QED
    BY <1>1, <2>1, QuietKeepsSlot DEF StartRefused, EnsureReturns
<1>2. CASE HandlerSubmit
  <2>1. OneStarter' /\ \A u \in Task \cup {NoTask} : ~Submitting(u)'
    BY <1>0, <1>2 DEF HandlerSubmit, OneStarter, Submitting
  <2>2. Submitting(apiTask)
    BY <1>2 DEF HandlerSubmit, Submitting
  <2>3. apiTask \in Task
    BY <1>0, <2>2 DEF SlotInv, ReservedIsSubmitting, ApiTypeOK
  <2> QED
    BY <1>2, <2>1, <2>2, <2>3, SubmitKeepsSlot DEF HandlerSubmit
<1>3. ASSUME NEW t \in Task, StartPrepare(t) \/ EnsureStart(t) PROVE SlotInv'
  <2>1. OneStarter' /\ \A u \in Task \cup {NoTask} : Submitting(u)' <=> u = t
    BY <1>0, <1>3 DEF StartPrepare, EnsureStart, OneStarter, Submitting
  <2>2. \A u \in Task : ~Submitting(u)
    BY <1>0, <1>3 DEF StartPrepare, EnsureStart, OneStarter, Submitting
  <2> QED
    BY <1>0, <1>3, <2>1, <2>2, ReserveKeepsSlot DEF StartPrepare, EnsureStart, ApiTypeOK
<1> QED
  BY <1>1, <1>2, <1>3 DEF HandlerContinues

\* The requests: only a take-over takes the slot itself.
LEMMA RequestKeepsSlot ==
  ASSUME SlotInv, TypeOK', Request, UNCHANGED stageVars
  PROVE  SlotInv'
<1> USE DEF ApiGoto, ApiDone, LoopFree, stageVars
<1>0. TypeOK /\ OneStarter /\ ApiTypeOK
  BY DEF SlotInv, TypeOK
<1>1. ASSUME NEW t \in Task, Takeover(t) PROVE SlotInv'
  <2>1. OneStarter' /\ \A u \in Task \cup {NoTask} : Submitting(u)' <=> u = t
    BY <1>0, <1>1 DEF Takeover, OneStarter, Submitting
  <2>2. \A u \in Task : ~Submitting(u)
    BY <1>0, <1>1 DEF Takeover, OneStarter, Submitting
  <2> QED
    BY <1>1, <2>1, <2>2, ReserveKeepsSlot DEF Takeover
<1>2. ASSUME LoopFree, UNCHANGED <<pc, taskRun, slotVars>>,
             apiPc' \in {"idle", "start", "ensure"}
      PROVE  SlotInv'
  <2>1. OneStarter' /\ \A u \in Task \cup {NoTask} : Submitting(u)' <=> Submitting(u)
    BY <1>0, <1>2 DEF OneStarter, Submitting
  <2> QED
    BY <1>2, <2>1, QuietKeepsSlot
<1> USE DEF taskVars, workerVars, handlerVars, slotVars
<1>3. ASSUME NEW r \in Run, CancelRun(r) \/ \E mode \in {"dry", "live"} : CreateRun(r, mode)
      PROVE  SlotInv'
  BY <1>2, <1>3 DEF CreateRun, CancelRun
<1>4. ASSUME NEW r \in Run, NEW S, ConfirmAll(r) \/ SendReady(r, S) \/ \E i \in Item : ConfirmItem(r, i)
      PROVE  SlotInv'
  BY <1>2, <1>4 DEF ConfirmAll, SendReady, ConfirmItem, Confirm
<1>5. ASSUME NEW i \in Item, MarkSent(i) \/ MarkUnavailable(i) \/ SkipItem(i) PROVE SlotInv'
  BY <1>2, <1>5 DEF MarkSent, MarkUnavailable, SkipItem
<1>6. ASSUME NEW S \in SUBSET Item, Requeue(S) PROVE SlotInv'
  BY <1>2, <1>6 DEF Requeue
<1> QED
  BY <1>1, <1>3, <1>4, <1>5, <1>6 DEF Request

\* Without the scheduler thread, every step keeps the invariant.
LEMMA SlotStep ==
  ASSUME ~SchedulerOn, SlotInv, [Next]_vars
  PROVE  SlotInv'
<1>1. TypeOK'
  BY TypeStep DEF SlotInv
<1>2. ASSUME NEW t \in Task, Work(t) PROVE SlotInv'
  BY <1>1, <1>2, WorkKeepsSlot
<1>3. ASSUME NEW r \in Run, Tick(r) \/ RunNow(r) PROVE SlotInv'
  BY <1>1, <1>3, RunNowKeepsSlot DEF Tick, RunNow
<1>4. ASSUME NEW c \in Caller, Staging(c) PROVE SlotInv'
  <2>1. c = "run-now"
    BY <1>4 DEF Staging, StageContinues, StageStart, StageRefused, StageSubmit, Caller,
           SlotInv, OneStarter
  <2> QED
    BY <1>1, <1>4, <2>1, RunNowKeepsSlot DEF Staging
<1>5. CASE Handle
  BY <1>1, <1>5, HandlerKeepsSlot DEF Handle
<1>6. CASE Ask
  BY <1>1, <1>6, RequestKeepsSlot DEF Ask
<1>7. CASE Crash
  BY <1>1, <1>7, TaskAssumption
     DEF Crash, ApiDone, ApiGoto, SlotInv, OneStarter, FutureIsOnLoop, OnLoop,
         ReservedIsSubmitting, Submitting, CancelReachesWorker, Caller
<1>8. ASSUME UNCHANGED <<pc, taskRun, slotVars, stagePc, stageTask, apiPc, apiTask>>
      PROVE  SlotInv'
  <2>1. OneStarter' /\ \A u \in Task \cup {NoTask} : Submitting(u)' <=> Submitting(u)
    BY <1>8 DEF SlotInv, OneStarter, Submitting
  <2> QED
    BY <1>1, <1>8, <2>1, QuietKeepsSlot
<1> USE DEF taskVars, workerVars, stageVars, apiVars, handlerVars, slotVars
<1>9. CASE Assist
  BY <1>8, <1>9 DEF Assist, AssistStep, AssistCheck, AssistSweep
<1>10. CASE NewDay \/ \E i \in Item : ItemStalls(i)
  BY <1>8, <1>10 DEF NewDay, ItemStalls
<1>11. CASE OtherProcessSweeps \/ Boot \/ Startup
  BY <1>8, <1>11 DEF OtherProcessSweeps, SweepFrame, Boot, Startup, StartupSweep, StartupSweepSkipped
<1>12. CASE UNCHANGED vars
  BY <1>8, <1>12 DEF vars
<1> QED
  BY <1>2, <1>3, <1>4, <1>5, <1>6, <1>7, <1>9, <1>10, <1>11, <1>12 DEF Next

LEMMA SlotInit == Init => SlotInv
<1> SUFFICES ASSUME Init PROVE SlotInv
  OBVIOUS
<1> QED
  BY TypeInit, TaskAssumption
     DEF Init, ManagerInit, StageInit, ApiInit, SlotInv, OneStarter, FutureIsOnLoop, OnLoop,
         ReservedIsSubmitting, Submitting, CancelReachesWorker, Caller

\* With the scheduler off, whatever else goes on -- cancels, take-overs, run-now,
\* another process, crashes -- one coroutine at a time is on the loop and the
\* slot names it (worker.py:182, scheduler.py:14).  RacedStart shows that the
\* hypothesis is needed.
THEOREM SlotIsRight == ~SchedulerOn => (Spec => []OneCoroutine)
<1> SUFFICES ASSUME ~SchedulerOn PROVE Spec => []OneCoroutine
  OBVIOUS
<1>1. SlotInv /\ [Next]_vars => SlotInv'
  BY SlotStep
<1>2. SlotInv => OneCoroutine
  BY DEF SlotInv, FutureIsOnLoop, OnLoop, OneCoroutine
<1> QED
  BY SlotInit, <1>1, <1>2, PTL DEF Spec

\* Under the same hypothesis the token a cancel sets is that of the coroutine that
\* works for the run (run_manager.py:92), however starts, ends and cancels interleave.
THEOREM CancelFindsItsRun == ~SchedulerOn => (Spec => []CancelReachesWorker)
<1> SUFFICES ASSUME ~SchedulerOn PROVE Spec => []CancelReachesWorker
  OBVIOUS
<1>1. SlotInv /\ [Next]_vars => SlotInv'
  BY SlotStep
<1>2. SlotInv => CancelReachesWorker
  BY DEF SlotInv
<1> QED
  BY SlotInit, <1>1, <1>2, PTL DEF Spec
=============================================================================
