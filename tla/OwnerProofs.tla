---------------------------- MODULE OwnerProofs -----------------------------
(***************************************************************************)
(* Whose a row is, when the server alone starts coroutines and its         *)
(* start-up sweep runs: a row is filled by one coroutine and by none that  *)
(* has died, a sender has its own run's rows in hand, and each submit uses *)
(* up a confirm.  And the cap, which one sender at a time respects.  All   *)
(* of it rests on the slot being right.                                    *)
(***************************************************************************)
EXTENDS PipelineProofs, SlotProofs, FiniteSetTheorems

\* The settings of the theorems: nothing but the server starts a coroutine or
\* sweeps, and the sweep at start-up is not skipped.
ServerAlone == ~SchedulerOn /\ ~RunnerOn /\ ~DbMayLock

Filling == {"discover", "add", "loop"}
Sending == {"drain", "filling", "clicked", "record", "pause"}

\* While the server is not up, nothing is under way.
DownIsQuiet ==
  server # "up" => /\ \A t \in Task : pc[t] = "free"
                   /\ apiPc = "idle" /\ stagePc["run-now"] = "idle"

\* A coroutine is in its own code, and has a row in hand only at some places.
KindFits ==
  \A t \in Task :
    /\ pc[t] \in Filling => kind[t] = "prepare"
    /\ pc[t] \in Sending => kind[t] = "send"
    /\ hold[t] # {} => pc[t] \in {"add", "loop", "filling", "clicked", "record"}

\* The run of a coroutine exists, and shows what the coroutine does: only then
\* does the sweep after a crash take it.
WorkingRuns ==
  \A t \in Task :
    /\ taskRun[t] \in Run => runStatus[taskRun[t]] # "none"
    /\ kind[t] = "prepare" /\ pc[t] \notin {"free", "exit"} =>
         taskRun[t] \in Run /\ runStatus[taskRun[t]] = "running"
    /\ pc[t] \in Sending => taskRun[t] \in Run /\ runStatus[taskRun[t]] = "sending"

\* A run nobody works on yet.
Fresh(r) == r \in Run /\ runStatus[r] = "running" /\ \A t \in Task : taskRun[t] # r

\* The run a starter is about to start is such a run.
StartingFresh ==
  /\ apiPc = "start" => Fresh(apiRun)
  /\ stagePc["run-now"] = "start" => Fresh(stageRun["run-now"])

\* What a coroutine knows of the rows it has in hand.
HeldRows ==
  \A t \in Task : \A i \in hold[t] :
    /\ pc[t] = "loop" => itemRun[i] = taskRun[t] /\ itemState[i] = "preparing"
    /\ kind[t] = "send" => itemRun[i] = taskRun[t] /\ itemState[i] # "ready"
    /\ pc[t] = "filling" => i \in confirmed

\* The start-up sweep is going to take the row's run.
Recoverable(i) == server # "up" /\ itemRun[i] \in orphan /\ Active(itemRun[i])

\* A row that shows 'preparing' is in somebody's hand or will be requeued.
PreparingIsHeld ==
  \A i \in Item : itemState[i] = "preparing" =>
    \/ server = "up" /\ \E t \in Task : pc[t] = "loop" /\ i \in hold[t]
    \/ Recoverable(i)

\* A row that shows 'sending' has a confirm to use up, or has just used it up and
\* waits for the answer, or will be handed back.
SendingIsConfirmed ==
  \A i \in Item : itemState[i] = "sending" =>
    \/ i \in confirmed
    \/ server = "up" /\ \E t \in Task : pc[t] = "clicked" /\ i \in hold[t]
    \/ Recoverable(i)

\* The inductive invariant.
OwnerInv ==
  /\ SlotInv /\ ModeInv
  /\ DownIsQuiet /\ KindFits /\ WorkingRuns /\ StartingFresh
  /\ HeldRows /\ PreparingIsHeld /\ SendingIsConfirmed

\* The part of it about runs and places, and the part about rows.
Places == DownIsQuiet /\ KindFits /\ WorkingRuns /\ StartingFresh
Rows   == HeldRows /\ PreparingIsHeld /\ SendingIsConfirmed

\* A coroutine, or a starter's reservation, is the only one.
LEMMA Alone ==
  ASSUME OwnerInv, NEW t \in Task, pc[t] # "free"
  PROVE  /\ server = "up"
         /\ \A u \in Task \ {t} : pc[u] = "free" /\ hold[u] = {}
BY DEF OwnerInv, SlotInv, CancelReachesWorker, DownIsQuiet, KindFits

\* A coroutine that ends by writing a status has nothing in hand.
LEMMA EndKeepsOwner ==
  ASSUME OwnerInv, NEW t \in Task, NEW from \in {"begin", "discover", "loop", "closing", "drain"},
         NEW s \in RunStatus \ {"none"}, EndWith(t, from, s), hold[t] = {},
         UNCHANGED <<stageVars, apiVars, serverVars>>
  PROVE  Places' /\ Rows'
<1> USE DEF OwnerInv, ModeInv, TypeOK, StoreTypeOK, ManagerTypeOK, WorkerTypeOK, StageTypeOK, ApiTypeOK,
            EndWith, Step, Goto, SetStatus, KeepTask, stageVars, apiVars, handlerVars, serverVars, slotVars,
            itemVars, appVars, historyVars
<1>0. server = "up" /\ \A u \in Task \ {t} : pc[u] = "free" /\ hold[u] = {}
  BY Alone
<1>1. DownIsQuiet' /\ KindFits'
  BY <1>0 DEF DownIsQuiet, KindFits, Filling, Sending
<1>2. WorkingRuns'
  BY <1>0 DEF WorkingRuns, Filling, Sending
<1>3. StartingFresh'
  BY <1>0 DEF StartingFresh, Fresh
<1>4. Rows'
  BY <1>0 DEF Rows, HeldRows, PreparingIsHeld, SendingIsConfirmed, Recoverable, Active, KindFits
<1> QED
  BY <1>1, <1>2, <1>3, <1>4 DEF Places

\* A step of a prepare coroutine.
LEMMA PrepareKeepsOwner ==
  ASSUME OwnerInv, NEW t \in Task, PrepareStep(t), UNCHANGED <<stageVars, apiVars, serverVars>>
  PROVE  Places' /\ Rows'
<1> USE DEF OwnerInv, ModeInv, TypeOK, StoreTypeOK, ManagerTypeOK, WorkerTypeOK, StageTypeOK, ApiTypeOK,
            Step, Goto, KeepTask, stageVars, apiVars, handlerVars, serverVars, slotVars,
            runVars, itemVars, appVars, historyVars, progressVars
<1>1. ASSUME pc[t] # "free", UNCHANGED <<kind, taskRun, runVars, confirmed>>,
             pc' \in [Task -> TaskPc], \A u \in Task \ {t} : pc'[u] = pc[u],
             pc'[t] \in Filling \cup {"closing"}, kind[t] = "prepare",
             pc[t] \notin {"free", "exit"}, hold'[t] # {} => pc'[t] \in {"add", "loop"},
             \A u \in Task \ {t} : hold'[u] = hold[u]
      PROVE  Places'
  <2>0. server = "up" /\ \A u \in Task \ {t} : pc[u] = "free" /\ hold[u] = {}
    BY <1>1, Alone
  <2>1. DownIsQuiet' /\ KindFits'
    BY <1>1, <2>0 DEF DownIsQuiet, KindFits, Filling, Sending
  <2>2. WorkingRuns' /\ StartingFresh'
    BY <1>1, <2>0 DEF WorkingRuns, StartingFresh, Fresh, Filling, Sending
  <2> QED
    BY <2>1, <2>2 DEF Places
<1>2. CASE PrepareError(t) \/ DiscoverCancelled(t) \/ PrepareCancelled(t)
  <2>1. hold[t] = {}
    BY <1>2 DEF PrepareError, DiscoverCancelled, PrepareCancelled, LoopOver, EndWith, KindFits
  <2> QED
    BY <1>2, <2>1, EndKeepsOwner DEF PrepareError, DiscoverCancelled, PrepareCancelled, RunStatus
<1>3. CASE PrepareBegin(t) \/ LinkedInSkipped(t) \/ Discover(t)
  <2>0. pc[t] \notin {"free", "exit"} /\ kind[t] = "prepare" /\ hold[t] = {}
    BY <1>3 DEF PrepareBegin, LinkedInSkipped, Discover, KindFits
  <2>1. Places'
    BY <1>1, <1>3, <2>0 DEF PrepareBegin, LinkedInSkipped, Discover, Filling, TaskPc
  <2>2. server = "up" /\ \A u \in Task \ {t} : pc[u] = "free" /\ hold[u] = {}
    BY <2>0, Alone
  <2>3. UNCHANGED <<runStatus, itemVars, confirmed>> /\ hold[t] = {} /\ pc[t] # "clicked"
    BY <1>3, <2>0 DEF PrepareBegin, LinkedInSkipped, Discover
  <2>4. HeldRows'
    BY <1>3, <2>0, <2>2, <2>3 DEF PrepareBegin, LinkedInSkipped, Discover, HeldRows
  <2>5. PreparingIsHeld'
    BY <1>3, <2>0, <2>2, <2>3
       DEF PrepareBegin, LinkedInSkipped, Discover, PreparingIsHeld, Recoverable
  <2>6. SendingIsConfirmed'
    BY <1>3, <2>0, <2>2, <2>3
       DEF PrepareBegin, LinkedInSkipped, Discover, SendingIsConfirmed, Recoverable
  <2> QED
    BY <2>1, <2>4, <2>5, <2>6 DEF Rows
<1>4. CASE Add(t)
  <2>0. pc[t] = "add" /\ kind[t] = "prepare"
    BY <1>4 DEF Add, KindFits, Filling
  <2>1. Places'
    BY <1>1, <1>4, <2>0 DEF Add, Filling, TaskPc
  <2>2. server = "up" /\ \A u \in Task \ {t} : pc[u] = "free" /\ hold[u] = {}
    BY <2>0, Alone
  <2>3. HeldRows'
    BY <1>4, <2>0, <2>2 DEF Add, HeldRows
  <2>4. PreparingIsHeld' /\ SendingIsConfirmed'
    BY <1>4, <2>0, <2>2
       DEF Add, AddItems, Insertable, PreparingIsHeld, SendingIsConfirmed, Recoverable
  <2> QED
    BY <2>1, <2>3, <2>4 DEF Rows
<1>5. CASE CoroutineEnds(t) \/ NextPhase(t) \/ PrepareCounts(t)
  <2>0. pc[t] = "loop" /\ kind[t] = "prepare"
    BY <1>5 DEF CoroutineEnds, NextPhase, PrepareCounts, Idle, LoopOver, KindFits, Filling
  <2>1. Places'
    BY <1>1, <1>5, <2>0 DEF CoroutineEnds, NextPhase, PrepareCounts, LoopOver, Filling, TaskPc
  <2>2. server = "up" /\ \A u \in Task \ {t} : pc[u] = "free" /\ hold[u] = {}
    BY <2>0, Alone
  <2>3. CASE CoroutineEnds(t)
    BY <2>0, <2>1, <2>2, <2>3
       DEF CoroutineEnds, Rows, HeldRows, PreparingIsHeld, SendingIsConfirmed, Recoverable, Active
  <2>4. CASE NextPhase(t) \/ PrepareCounts(t)
    <3>1. hold[t] = {}
      BY <2>4 DEF NextPhase, PrepareCounts, LoopOver
    <3> QED
      BY <2>0, <2>1, <2>2, <2>4, <3>1
         DEF NextPhase, PrepareCounts, Rows, HeldRows, PreparingIsHeld, SendingIsConfirmed, Recoverable
  <2> QED
    BY <1>5, <2>3, <2>4
<1>6. ASSUME NEW i \in Item, Claim(t, i) PROVE Places' /\ Rows'
  <2>0. pc[t] = "loop" /\ kind[t] = "prepare"
    BY <1>6 DEF Claim, Idle, KindFits, Filling
  <2>1. Places'
    BY <1>1, <1>6, <2>0 DEF Claim, Filling, TaskPc
  <2>2. server = "up" /\ \A u \in Task \ {t} : pc[u] = "free" /\ hold[u] = {}
    BY <2>0, Alone
  <2>3. HeldRows'
    BY <1>6, <2>0, <2>2 DEF Claim, HeldRows, RowsOf, TransitionItem, TransitionItems
  <2>4. PreparingIsHeld'
    BY <1>6, <2>0, <2>2
       DEF Claim, RowsOf, TransitionItem, TransitionItems, PreparingIsHeld, Recoverable
  <2>5. SendingIsConfirmed'
    BY <1>6, <2>0, <2>2
       DEF Claim, RowsOf, TransitionItem, TransitionItems, SendingIsConfirmed, Recoverable
  <2> QED
    BY <2>1, <2>3, <2>4, <2>5 DEF Rows
<1>7. ASSUME NEW i \in Item, NEW to \in ItemState, Prepared(t, i, to) PROVE Places' /\ Rows'
  <2>0. pc[t] = "loop" /\ kind[t] = "prepare" /\ to \notin {"preparing", "sending"}
    BY <1>7 DEF Prepared, PrepareVerdicts, KindFits, Filling
  <2>1. Places'
    BY <1>1, <1>7, <2>0 DEF Prepared, Filling, TaskPc
  <2>2. server = "up" /\ \A u \in Task \ {t} : pc[u] = "free" /\ hold[u] = {}
    BY <2>0, Alone
  <2>3. HeldRows'
    BY <1>7, <2>0, <2>2 DEF Prepared, HeldRows, TransitionItem, TransitionItems
  <2>4. PreparingIsHeld'
    BY <1>7, <2>0, <2>2 DEF Prepared, TransitionItem, TransitionItems, PreparingIsHeld, Recoverable
  <2>5. SendingIsConfirmed'
    BY <1>7, <2>0, <2>2 DEF Prepared, TransitionItem, TransitionItems, SendingIsConfirmed, Recoverable
  <2> QED
    BY <2>1, <2>3, <2>4, <2>5 DEF Rows
<1> QED
  BY <1>2, <1>3, <1>4, <1>5, <1>6, <1>7 DEF PrepareStep

\* A step of a sender.
LEMMA SendKeepsOwner ==
  ASSUME OwnerInv, NEW t \in Task, SendStep(t), UNCHANGED <<stageVars, apiVars, serverVars>>
  PROVE  Places' /\ Rows'
<1> USE DEF OwnerInv, ModeInv, TypeOK, StoreTypeOK, ManagerTypeOK, WorkerTypeOK, StageTypeOK, ApiTypeOK,
            Step, Goto, KeepTask, stageVars, apiVars, handlerVars, serverVars, slotVars,
            runVars, itemVars, appVars, historyVars, progressVars
<1>1. ASSUME pc[t] \in Sending, UNCHANGED <<kind, taskRun, runVars>>,
             pc' \in [Task -> TaskPc], \A u \in Task \ {t} : pc'[u] = pc[u],
             pc'[t] \in Sending \cup {"closing"},
             hold'[t] # {} => pc'[t] \in {"filling", "clicked", "record"},
             \A u \in Task \ {t} : hold'[u] = hold[u]
      PROVE  Places'
  <2>0. server = "up" /\ \A u \in Task \ {t} : pc[u] = "free" /\ hold[u] = {}
    BY <1>1, Alone DEF Sending
  <2>1. DownIsQuiet' /\ KindFits'
    BY <1>1, <2>0 DEF DownIsQuiet, KindFits, Filling, Sending
  <2>2. WorkingRuns' /\ StartingFresh'
    BY <1>1, <2>0 DEF WorkingRuns, StartingFresh, Fresh, Filling, Sending, KindFits
  <2> QED
    BY <2>1, <2>2 DEF Places
<1>2. CASE SendBegin(t)
  <2>0. pc[t] = "begin" /\ kind[t] = "send" /\ hold[t] = {} /\ LiveRun(taskRun[t])
    BY <1>2 DEF SendBegin, KindFits, SendersAreLive
  <2>1. server = "up" /\ \A u \in Task \ {t} : pc[u] = "free" /\ hold[u] = {}
    BY <2>0, Alone
  <2>2. DownIsQuiet' /\ KindFits'
    BY <1>2, <2>0, <2>1 DEF SendBegin, DownIsQuiet, KindFits, Filling, Sending
  <2>3. WorkingRuns' /\ StartingFresh'
    BY <1>2, <2>0, <2>1
       DEF SendBegin, SetStatus, LiveRun, WorkingRuns, StartingFresh, Fresh, Filling, Sending
  <2>4. Rows'
    BY <1>2, <2>0, <2>1
       DEF SendBegin, Rows, HeldRows, PreparingIsHeld, SendingIsConfirmed, Recoverable
  <2> QED
    BY <2>2, <2>3, <2>4 DEF Places
<1>3. CASE SendCounts(t) \/ Pause(t)
  <2>0. pc[t] \in {"drain", "pause"} /\ kind[t] = "send" /\ hold[t] = {}
    BY <1>3 DEF SendCounts, Pause, KindFits, Sending
  <2>1. server = "up" /\ \A u \in Task \ {t} : pc[u] = "free" /\ hold[u] = {}
    BY <2>0, Alone
  <2>2. Places'
    BY <1>1, <1>3, <2>0 DEF SendCounts, Pause, Sending, TaskPc
  <2>3. Rows'
    BY <1>3, <2>0, <2>1
       DEF SendCounts, Pause, Rows, HeldRows, PreparingIsHeld, SendingIsConfirmed, Recoverable
  <2> QED
    BY <2>2, <2>3
<1>4. CASE SendError(t)
  <2>1. hold[t] = {}
    BY <1>4 DEF SendError, EndWith, KindFits
  <2> QED
    BY <1>4, <2>1, EndKeepsOwner DEF SendError, RunStatus
<1>5. ASSUME NEW i \in Item, SendRefused(t, i) PROVE Places' /\ Rows'
  <2>0. pc[t] = "drain" /\ kind[t] = "send" /\ hold[t] = {}
    BY <1>5 DEF SendRefused, Draining, KindFits, Sending
  <2>1. server = "up" /\ \A u \in Task \ {t} : pc[u] = "free" /\ hold[u] = {}
    BY <2>0, Alone
  <2>2. Places'
    BY <1>1, <1>5, <2>0 DEF SendRefused, Sending, TaskPc
  <2>3. Rows'
    BY <1>5, <2>0, <2>1
       DEF SendRefused, TransitionItem, TransitionItems, Rows, HeldRows, PreparingIsHeld,
           SendingIsConfirmed, Recoverable
  <2> QED
    BY <2>2, <2>3
<1>6. ASSUME NEW i \in Item, PickUp(t, i) PROVE Places' /\ Rows'
  <2>0. pc[t] = "drain" /\ kind[t] = "send" /\ hold[t] = {}
    BY <1>6 DEF PickUp, Draining, KindFits, Sending
  <2>1. server = "up" /\ \A u \in Task \ {t} : pc[u] = "free" /\ hold[u] = {}
    BY <2>0, Alone
  <2>2. Places'
    BY <1>1, <1>6, <2>0 DEF PickUp, Sending, TaskPc
  <2>3. i \in confirmed /\ itemState[i] = "sending" /\ itemRun[i] = taskRun[t]
    BY <1>6, <2>0, <2>1 DEF PickUp, Draining, RowsOf, SendingIsConfirmed, Recoverable
  <2>4. Rows'
    BY <1>6, <2>0, <2>1, <2>3
       DEF PickUp, Rows, HeldRows, PreparingIsHeld, SendingIsConfirmed, Recoverable
  <2> QED
    BY <2>2, <2>4
<1>7. ASSUME NEW i \in Item, FillFails(t, i) \/ NotVerified(t, i) PROVE Places' /\ Rows'
  <2>0. pc[t] \in {"filling", "clicked"} /\ kind[t] = "send"
    BY <1>7 DEF FillFails, NotVerified, KindFits, Sending
  <2>1. server = "up" /\ \A u \in Task \ {t} : pc[u] = "free" /\ hold[u] = {}
    BY <2>0, Alone
  <2>2. PICK to \in {"failed", "needs_input", "sent_unverified"} : SendAnswer(t, i, to)
    BY <1>7 DEF FillFails, NotVerified
  <2>3. Places'
    BY <1>1, <2>0, <2>2 DEF SendAnswer, Sending, TaskPc
  <2>4. HeldRows' /\ PreparingIsHeld'
    BY <2>0, <2>1, <2>2
       DEF SendAnswer, TransitionItem, TransitionItems, HeldRows, PreparingIsHeld, Recoverable
  <2>5. SendingIsConfirmed'
    BY <2>0, <2>1, <2>2
       DEF SendAnswer, TransitionItem, TransitionItems, SendingIsConfirmed, Recoverable
  <2> QED
    BY <2>3, <2>4, <2>5 DEF Rows
<1>8. ASSUME NEW i \in Item, Click(t, i) PROVE Places' /\ Rows'
  <2>0. pc[t] = "filling" /\ kind[t] = "send" /\ hold[t] = {i}
    BY <1>8 DEF Click, KindFits, Sending
  <2>1. server = "up" /\ \A u \in Task \ {t} : pc[u] = "free" /\ hold[u] = {}
    BY <2>0, Alone
  <2>2. Places'
    BY <1>1, <1>8, <2>0 DEF Click, Sending, TaskPc
  <2>3. Rows'
    BY <1>8, <2>0, <2>1
       DEF Click, Rows, HeldRows, PreparingIsHeld, SendingIsConfirmed, Recoverable
  <2> QED
    BY <2>2, <2>3
<1>9. ASSUME NEW i \in Item, Verified(t, i) PROVE Places' /\ Rows'
  <2>0. pc[t] = "clicked" /\ kind[t] = "send" /\ hold[t] = {i}
    BY <1>9 DEF Verified, KindFits, Sending
  <2>1. server = "up" /\ \A u \in Task \ {t} : pc[u] = "free" /\ hold[u] = {}
    BY <2>0, Alone
  <2>2. Places'
    BY <1>1, <1>9, <2>0 DEF Verified, Sending, TaskPc
  <2>3. HeldRows' /\ PreparingIsHeld'
    BY <1>9, <2>0, <2>1
       DEF Verified, TransitionItem, TransitionItems, HeldRows, PreparingIsHeld, Recoverable
  <2>4. SendingIsConfirmed'
    BY <1>9, <2>0, <2>1
       DEF Verified, TransitionItem, TransitionItems, SendingIsConfirmed, Recoverable
  <2> QED
    BY <2>2, <2>3, <2>4 DEF Rows
<1>10. ASSUME NEW i \in Item, Record(t, i) PROVE Places' /\ Rows'
  <2>0. pc[t] = "record" /\ kind[t] = "send"
    BY <1>10 DEF Record, KindFits, Sending
  <2>1. server = "up" /\ \A u \in Task \ {t} : pc[u] = "free" /\ hold[u] = {}
    BY <2>0, Alone
  <2>2. Places'
    BY <1>1, <1>10, <2>0 DEF Record, Sending, TaskPc
  <2>3. Rows'
    BY <1>10, <2>0, <2>1
       DEF Record, Rows, HeldRows, PreparingIsHeld, SendingIsConfirmed, Recoverable
  <2> QED
    BY <2>2, <2>3
<1> QED
  BY <1>2, <1>3, <1>4, <1>5, <1>6, <1>7, <1>8, <1>9, <1>10 DEF SendStep

\* A step of any coroutine, its end included.
LEMMA WorkKeepsOwner ==
  ASSUME OwnerInv, NEW t \in Task, Work(t)
  PROVE  Places' /\ Rows'
<1>0. UNCHANGED <<stageVars, apiVars, serverVars>>
  BY DEF Work
<1> USE DEF OwnerInv, ModeInv, TypeOK, StoreTypeOK, ManagerTypeOK, WorkerTypeOK,
            stageVars, apiVars, handlerVars, serverVars, runVars, itemVars, appVars,
            historyVars, progressVars
<1>1. CASE PrepareStep(t) \/ SendStep(t)
  BY <1>0, <1>1, PrepareKeepsOwner, SendKeepsOwner
<1>2. CASE Close(t)
  <2>1. hold[t] = {} /\ verdict[t] \in RunStatus \ {"none"}
    BY <1>2 DEF Close, EndWith, Step, KindFits, VerdictIsSet
  <2> QED
    BY <1>0, <1>2, <2>1, EndKeepsOwner DEF Close
<1>3. CASE TakeOver(t) \/ Exit(t)
  <2>0. pc[t] \in {"begin", "exit"} /\ hold[t] = {}
    BY <1>3 DEF TakeOver, Exit, Release, Step, KindFits
  <2>1. server = "up" /\ \A u \in Task \ {t} : pc[u] = "free" /\ hold[u] = {}
    BY <2>0, Alone
  <2>2. DownIsQuiet' /\ KindFits'
    BY <1>0, <1>3, <2>0, <2>1
       DEF TakeOver, Exit, Release, Step, Goto, KeepTask, DownIsQuiet, KindFits, Filling, Sending
  <2>3. WorkingRuns' /\ StartingFresh'
    BY <1>0, <1>3, <2>0, <2>1, StoreAssumption
       DEF TakeOver, Exit, Release, Step, Goto, KeepTask, WorkingRuns, StartingFresh, Fresh,
           Filling, Sending, NoRun
  <2>4. Rows'
    BY <1>0, <1>3, <2>0, <2>1
       DEF TakeOver, Exit, Release, Step, Goto, KeepTask, Rows, HeldRows, PreparingIsHeld,
           SendingIsConfirmed, Recoverable
  <2> QED
    BY <2>2, <2>3, <2>4 DEF Places
<1> QED
  BY <1>1, <1>2, <1>3 DEF Work, TaskStep

\* What anybody but a coroutine may do to a row while the server is up: a ready
\* row is confirmed, perhaps for another run; the human or the poll moves others.
OutsideMove(i) ==
  /\ \/ itemState'[i] = itemState[i]
     \/ itemState[i] # "preparing" /\ itemState'[i] \notin {"ready", "preparing", "sending"}
     \/ itemState[i] = "ready" /\ itemState'[i] = "sending" /\ i \in confirmed'
  /\ itemRun'[i] = itemRun[i] \/ itemState[i] = "ready"

\* Such moves keep what is known of the rows.
LEMMA OutsideKeepsRows ==
  ASSUME OwnerInv, server = "up", server' = "up", hold' = hold, confirmed \subseteq confirmed',
         \A u \in Task : hold[u] # {} =>
            pc'[u] = pc[u] /\ kind'[u] = kind[u] /\ taskRun'[u] = taskRun[u],
         \A i \in Item : OutsideMove(i)
  PROVE  Rows'
<1> USE DEF OwnerInv, ModeInv, TypeOK, WorkerTypeOK
<1>1. HeldRows'
  <2> SUFFICES ASSUME NEW t \in Task, NEW i \in hold[t]
               PROVE  /\ pc'[t] = "loop" => itemRun'[i] = taskRun'[t] /\ itemState'[i] = "preparing"
                      /\ kind'[t] = "send" => itemRun'[i] = taskRun'[t] /\ itemState'[i] # "ready"
                      /\ pc'[t] = "filling" => i \in confirmed'
    BY DEF HeldRows
  <2>1. i \in Item /\ pc'[t] = pc[t] /\ kind'[t] = kind[t] /\ taskRun'[t] = taskRun[t]
    OBVIOUS
  <2> QED
    BY <2>1 DEF HeldRows, OutsideMove
<1>2. PreparingIsHeld'
  BY DEF PreparingIsHeld, Recoverable, OutsideMove
<1>3. SendingIsConfirmed'
  BY DEF SendingIsConfirmed, Recoverable, OutsideMove
<1> QED
  BY <1>1, <1>2, <1>3 DEF Rows

\* Reserving the slot: the task was free, and the run exists and is right for it.
LEMMA ReserveKeepsOwner ==
  ASSUME OwnerInv, server = "up", NEW t \in Task, NEW what, NEW r \in Run \cup {NoRun},
         Reserve(t, what, r),
         what = "prepare" => Fresh(r),
         r \in Run => runStatus[r] # "none",
         UNCHANGED <<runVars, itemVars, progressVars, historyVars, serverVars>>,
         apiPc' # "start", stagePc'["run-now"] # "start"
  PROVE  Places' /\ Rows'
<1> USE DEF OwnerInv, ModeInv, TypeOK, StoreTypeOK, ManagerTypeOK, WorkerTypeOK, Reserve, Goto,
            runVars, itemVars, progressVars, historyVars, serverVars
<1>1. hold[t] = {}
  BY DEF KindFits
<1>2. Rows'
  BY <1>1, OutsideKeepsRows DEF OutsideMove
<1>3. DownIsQuiet' /\ KindFits' /\ StartingFresh'
  BY <1>1 DEF DownIsQuiet, KindFits, StartingFresh, Filling, Sending
<1>4. WorkingRuns'
  BY StoreAssumption DEF WorkingRuns, Fresh, Filling, Sending, NoRun
<1> QED
  BY <1>2, <1>3, <1>4 DEF Places

\* Submitting the reserved task.
LEMMA SubmitKeepsOwner ==
  ASSUME OwnerInv, server = "up", NEW t \in Task, Submit(t),
         UNCHANGED <<runVars, itemVars, progressVars, historyVars, serverVars>>,
         apiPc' # "start", stagePc'["run-now"] # "start"
  PROVE  Places' /\ Rows'
<1> USE DEF OwnerInv, ModeInv, TypeOK, StoreTypeOK, ManagerTypeOK, WorkerTypeOK, Submit, Goto,
            runVars, itemVars, progressVars, historyVars, serverVars
<1>1. hold[t] = {}
  BY DEF KindFits
<1>2. Rows'
  BY <1>1, OutsideKeepsRows DEF OutsideMove
<1>3. DownIsQuiet' /\ KindFits' /\ StartingFresh'
  BY <1>1 DEF DownIsQuiet, KindFits, StartingFresh, Filling, Sending
<1>4. WorkingRuns'
  BY DEF WorkingRuns, Filling, Sending
<1> QED
  BY <1>2, <1>3, <1>4 DEF Places

\* A step that leaves the coroutines alone, while the server is up, if it leaves
\* the status of the runs that are worked on alone as well.
LEMMA QuietKeepsPlaces ==
  ASSUME OwnerInv, server = "up", UNCHANGED <<pc, kind, taskRun, hold, server>>,
         \A r \in Run : \/ runStatus'[r] = runStatus[r]
                        \/ runStatus'[r] # "none" /\ \/ ~Active(r)
                                                     \/ \A t \in Task : taskRun[t] # r,
         StartingFresh'
  PROVE  Places'
<1>1. DownIsQuiet' /\ KindFits'
  BY DEF OwnerInv, DownIsQuiet, KindFits
<1>2. WorkingRuns'
  BY DEF OwnerInv, WorkingRuns, Active
<1> QED
  BY <1>1, <1>2 DEF Places

\* The steps of stage_now in the handler of /api/run-now.
LEMMA StageKeepsOwner ==
  ASSUME OwnerInv, server = "up", UNCHANGED <<apiVars, serverVars>>,
         \/ LoopFree /\ \E r \in Run : StageCreate("run-now", r)
         \/ StageContinues("run-now")
  PROVE  Places' /\ Rows'
<1> USE DEF StageGoto, apiVars, handlerVars, serverVars, taskVars, workerVars, slotVars, Caller
<1>0. /\ TypeOK /\ StageTypeOK /\ StoreTypeOK /\ OneStarter
      /\ StartingFresh /\ ReservedIsSubmitting /\ ApiTypeOK /\ WorkingRuns
  BY DEF OwnerInv, SlotInv, TypeOK
<1>1. ASSUME NEW r \in Run, LoopFree, StageCreate("run-now", r) PROVE Places' /\ Rows'
  <2>1. \A t \in Task : taskRun[t] # r
    BY <1>0, <1>1 DEF StageCreate, CreateRunAtomic, IsNextRun, WorkingRuns
  <2>2. StartingFresh'
    BY <1>0, <1>1, <2>1
       DEF LoopFree, StageCreate, CreateRunAtomic, SetStatus, StartingFresh, Fresh, StageTypeOK, StoreTypeOK
  <2>3. Places'
    BY <1>0, <1>1, <2>1, <2>2, QuietKeepsPlaces
       DEF StageCreate, CreateRunAtomic, SetStatus, StoreTypeOK, progressVars
  <2>4. Rows'
    BY <1>1, OutsideKeepsRows DEF StageCreate, OutsideMove, itemVars, progressVars, historyVars
  <2> QED
    BY <2>3, <2>4
<1>2. CASE StageRefused("run-now")
  <2>1. Fresh(stageRun["run-now"]) /\ apiPc # "start"
    BY <1>0, <1>2 DEF StageRefused, StartingFresh, OneStarter
  <2>2. StartingFresh'
    BY <1>0, <1>2, <2>1 DEF StageRefused, StartingFresh, StageTypeOK
  <2>3. Places'
    BY <1>0, <1>2, <2>1, <2>2, QuietKeepsPlaces
       DEF StageRefused, SetStatus, Fresh, StoreTypeOK, progressVars
  <2>4. Rows'
    BY <1>2, OutsideKeepsRows DEF StageRefused, OutsideMove, itemVars, progressVars, historyVars
  <2> QED
    BY <2>3, <2>4
<1>3. CASE StageSubmit("run-now")
  <2>1. stageTask["run-now"] \in Task /\ apiPc = "idle" /\ stagePc'["run-now"] = "idle"
    BY <1>0, <1>3 DEF StageSubmit, ReservedIsSubmitting, Submitting, OneStarter, StageTypeOK
  <2> QED
    BY <1>3, <2>1, SubmitKeepsOwner DEF StageSubmit
<1>4. ASSUME NEW t \in Task, StageStart("run-now", t) PROVE Places' /\ Rows'
  <2>1. Fresh(stageRun["run-now"]) /\ apiPc = "idle" /\ stagePc'["run-now"] = "submit"
    BY <1>0, <1>4 DEF StageStart, StartingFresh, OneStarter, StageTypeOK
  <2> QED
    BY <1>4, <2>1, ReserveKeepsOwner DEF StageStart, Fresh
<1> QED
  BY <1>1, <1>2, <1>3, <1>4 DEF StageContinues

\* What a handler does after its first call of the run manager.
LEMMA HandlerKeepsOwner ==
  ASSUME OwnerInv, HandlerContinues, UNCHANGED <<stageVars, serverVars>>
  PROVE  Places' /\ Rows'
<1> USE DEF ApiGoto, ApiDone, stageVars, serverVars, taskVars, workerVars, slotVars
<1>0. /\ TypeOK /\ ApiTypeOK /\ OneStarter /\ StartingFresh /\ ReservedIsSubmitting
      /\ SendersAreLive
  BY DEF OwnerInv, SlotInv, TypeOK, ModeInv
<1>1. server = "up" /\ stagePc'["run-now"] # "start"
  BY <1>0 DEF OwnerInv, DownIsQuiet, OneStarter, HandlerContinues, StartRefused, HandlerSubmit,
              EnsureReturns, StartPrepare, EnsureStart
<1>2. CASE StartRefused \/ EnsureReturns
  <2>1. StartingFresh'
    BY <1>1, <1>2 DEF StartRefused, EnsureReturns, StartingFresh
  <2>2. Places'
    BY <1>1, <1>2, <2>1, QuietKeepsPlaces DEF StartRefused, EnsureReturns, runVars, progressVars
  <2>3. Rows'
    BY <1>1, <1>2, OutsideKeepsRows
       DEF StartRefused, EnsureReturns, OutsideMove, itemVars, progressVars, historyVars
  <2> QED
    BY <2>2, <2>3
<1>3. CASE HandlerSubmit
  <2>1. apiTask \in Task
    BY <1>0, <1>3 DEF HandlerSubmit, ReservedIsSubmitting, Submitting, ApiTypeOK
  <2> QED
    BY <1>1, <1>3, <2>1, SubmitKeepsOwner DEF HandlerSubmit
<1>4. ASSUME NEW t \in Task, StartPrepare(t) PROVE Places' /\ Rows'
  BY <1>0, <1>1, <1>4, ReserveKeepsOwner DEF StartPrepare, StartingFresh, Fresh
<1>5. ASSUME NEW t \in Task, EnsureStart(t) PROVE Places' /\ Rows'
  BY <1>0, <1>1, <1>5, ReserveKeepsOwner DEF EnsureStart, SendersAreLive, LiveRun
<1> QED
  BY <1>2, <1>3, <1>4, <1>5 DEF HandlerContinues

\* A request: it creates a run, takes the slot for a take-over, or moves rows.
LEMMA RequestKeepsOwner ==
  ASSUME OwnerInv, server = "up", Request, UNCHANGED <<stageVars, serverVars>>
  PROVE  Places' /\ Rows'
<1> USE DEF ApiGoto, ApiDone, LoopFree, stageVars, serverVars, taskVars, workerVars, slotVars,
            handlerVars, progressVars
<1>0. TypeOK /\ ApiTypeOK /\ StoreTypeOK /\ WorkerTypeOK /\ StartingFresh /\ WorkingRuns
  BY DEF OwnerInv, SlotInv, TypeOK
<1>1. ASSUME LoopFree, apiPc' # "start", UNCHANGED <<pc, kind, taskRun, hold>>,
             \A r \in Run : runStatus'[r] = runStatus[r] \/ (~Active(r) /\ runStatus'[r] # "none")
      PROVE  Places'
  BY <1>1, QuietKeepsPlaces DEF StartingFresh
<1>2. ASSUME NEW t \in Task, Takeover(t) PROVE Places' /\ Rows'
  BY <1>0, <1>2, ReserveKeepsOwner, StoreAssumption DEF Takeover, NoRun
<1>3. ASSUME NEW r \in Run, NEW mode \in {"dry", "live"}, CreateRun(r, mode) PROVE Places' /\ Rows'
  <2>1. \A t \in Task : taskRun[t] # r
    BY <1>0, <1>3 DEF CreateRun, CreateRunAtomic, IsNextRun, WorkingRuns
  <2>2. StartingFresh'
    BY <1>0, <1>3, <2>1 DEF CreateRun, CreateRunAtomic, SetStatus, StartingFresh, Fresh, StoreTypeOK
  <2>3. Places'
    BY <1>0, <1>3, <2>1, <2>2, QuietKeepsPlaces DEF CreateRun, CreateRunAtomic, SetStatus, StoreTypeOK
  <2>4. Rows'
    BY <1>3, OutsideKeepsRows DEF CreateRun, OutsideMove, itemVars, historyVars
  <2> QED
    BY <2>3, <2>4
<1>4. ASSUME NEW r \in Run, CancelRun(r) PROVE Places' /\ Rows'
  <2>1. Places'
    BY <1>0, <1>1, <1>4 DEF CancelRun, SetStatus, StoreTypeOK, Active
  <2>2. Rows'
    BY <1>4, OutsideKeepsRows DEF CancelRun, OutsideMove, itemVars, historyVars
  <2> QED
    BY <2>1, <2>2
<1>5. ASSUME NEW r \in Run, NEW i \in Item, ConfirmItem(r, i) PROVE Places' /\ Rows'
  <2>1. Places'
    BY <1>1, <1>5 DEF ConfirmItem, Confirm, runVars
  <2>2. Rows'
    BY <1>5, OutsideKeepsRows DEF ConfirmItem, Confirm, TransitionItems, OutsideMove
  <2> QED
    BY <2>1, <2>2
<1>6. ASSUME NEW r \in Run, ConfirmAll(r) PROVE Places' /\ Rows'
  <2>1. Places'
    BY <1>1, <1>6 DEF ConfirmAll, Confirm, runVars
  <2>2. Rows'
    BY <1>6, OutsideKeepsRows DEF ConfirmAll, Confirm, TransitionItems, OutsideMove
  <2> QED
    BY <2>1, <2>2
<1>7. ASSUME NEW r \in Run, NEW S \in SUBSET Item, SendReady(r, S) PROVE Places' /\ Rows'
  <2>1. Places'
    BY <1>0, <1>1, <1>7
       DEF SendReady, Confirm, CreateRunAtomic, IsNextRun, SetStatus, StoreTypeOK, Active
  <2>2. Rows'
    BY <1>7, OutsideKeepsRows DEF SendReady, Confirm, TransitionItems, OutsideMove
  <2> QED
    BY <2>1, <2>2
<1>8. ASSUME NEW i \in Item, MarkSent(i) \/ MarkUnavailable(i) \/ SkipItem(i) PROVE Places' /\ Rows'
  <2>1. Places'
    BY <1>1, <1>8 DEF MarkSent, MarkUnavailable, SkipItem, runVars
  <2>2. Rows'
    BY <1>8, OutsideKeepsRows
       DEF MarkSent, MarkUnavailable, SkipItem, TransitionItem, TransitionItems, OutsideMove,
           Resolvable, Waiting, historyVars
  <2> QED
    BY <2>1, <2>2
<1>9. ASSUME NEW S \in SUBSET Item, Requeue(S) PROVE Places' /\ Rows'
  <2>1. Places'
    BY <1>1, <1>9 DEF Requeue, runVars
  <2>2. Rows'
    BY <1>9, OutsideKeepsRows DEF Requeue, TransitionItems, OutsideMove, historyVars
  <2> QED
    BY <2>1, <2>2
<1> QED
  BY <1>2, <1>3, <1>4, <1>5, <1>6, <1>7, <1>8, <1>9 DEF Request

\* A crash: everything in hand belongs to a run that the next start-up takes.
LEMMA CrashKeepsOwner ==
  ASSUME OwnerInv, Crash
  PROVE  Places' /\ Rows'
<1> USE DEF Crash, ApiDone, ApiGoto, itemVars, historyVars
<1>0. StoreTypeOK
  BY DEF OwnerInv, ModeInv, TypeOK
<1>1. Places'
  BY StoreAssumption
     DEF Places, DownIsQuiet, KindFits, WorkingRuns, StartingFresh, Filling, Sending, NoRun, Caller
<1>2. HeldRows'
  BY DEF HeldRows
<1>3. ASSUME NEW i \in Item, \/ Recoverable(i)
                             \/ \E t \in Task : pc[t] \in {"loop", "clicked"} /\ i \in hold[t]
      PROVE  Recoverable(i)'
  <2>1. CASE Recoverable(i)
    BY <1>0, <2>1 DEF Recoverable, Active, StoreTypeOK
  <2>2. ASSUME NEW t \in Task, pc[t] \in {"loop", "clicked"}, i \in hold[t] PROVE Recoverable(i)'
    <3>1. itemRun[i] = taskRun[t]
      BY <2>2 DEF OwnerInv, HeldRows, KindFits, Sending
    <3>2. taskRun[t] \in Run /\ Active(taskRun[t])
      BY <2>2 DEF OwnerInv, WorkingRuns, KindFits, Filling, Sending, Active
    <3> QED
      BY <3>1, <3>2 DEF Recoverable, Active
  <2> QED
    BY <1>3, <2>1, <2>2
<1>4. PreparingIsHeld' /\ SendingIsConfirmed'
  BY <1>3 DEF OwnerInv, PreparingIsHeld, SendingIsConfirmed
<1> QED
  BY <1>1, <1>2, <1>4 DEF Rows

\* The start-up sweep: what could be recovered is.
LEMMA StartupKeepsOwner ==
  ASSUME OwnerInv, StartupSweep
  PROVE  Places' /\ Rows'
<1> USE DEF StartupSweep, SweepStaleRuns, SweepFrame, workerVars, taskVars, slotVars, progressVars,
            historyVars, stageVars, apiVars, handlerVars
<1>0. TypeOK /\ StoreTypeOK /\ \A t \in Task : pc[t] = "free" /\ hold[t] = {}
  BY DEF OwnerInv, ModeInv, TypeOK, DownIsQuiet, KindFits
<1>1. apiPc = "idle" /\ stagePc["run-now"] = "idle"
  BY DEF OwnerInv, DownIsQuiet
<1>2. Places'
  BY <1>0, <1>1 DEF OwnerInv, Places, DownIsQuiet, KindFits, WorkingRuns, StartingFresh, Filling,
                    Sending, StoreTypeOK, TypeOK, ManagerTypeOK
<1>3. HeldRows'
  BY <1>0 DEF HeldRows
<1>4. \A i \in Item : Recoverable(i) => itemRun[i] \in StaleRuns(orphan)
  BY <1>0 DEF Recoverable, StaleRuns, StoreTypeOK
<1>5. PreparingIsHeld' /\ SendingIsConfirmed'
  BY <1>0, <1>4 DEF OwnerInv, PreparingIsHeld, SendingIsConfirmed
<1> QED
  BY <1>2, <1>3, <1>5 DEF Rows

\* Every step, when the server is alone.
LEMMA OwnerStep ==
  ASSUME ServerAlone, OwnerInv, [Next]_vars
  PROVE  OwnerInv'
<1>1. SlotInv' /\ ModeInv'
  BY SlotStep, ModeStep DEF OwnerInv, ServerAlone
<1>2. SUFFICES Places' /\ Rows'
  BY <1>1 DEF OwnerInv, Places, Rows
<1>3. ASSUME NEW t \in Task, Work(t) PROVE Places' /\ Rows'
  BY <1>3, WorkKeepsOwner
<1>4. ASSUME NEW r \in Run, Tick(r) \/ RunNow(r) PROVE Places' /\ Rows'
  BY <1>4, StageKeepsOwner DEF Tick, RunNow, ServerAlone
<1>5. ASSUME NEW c \in Caller, Staging(c) PROVE Places' /\ Rows'
  <2>1. c = "run-now" /\ stagePc[c] # "idle"
    BY <1>5 DEF Staging, StageContinues, StageStart, StageRefused, StageSubmit, Caller,
                OwnerInv, SlotInv, OneStarter
  <2>2. server = "up"
    BY <2>1 DEF OwnerInv, DownIsQuiet
  <2> QED
    BY <1>5, <2>1, <2>2, StageKeepsOwner DEF Staging
<1>6. CASE Handle
  BY <1>6, HandlerKeepsOwner DEF Handle
<1>7. CASE Ask
  BY <1>7, RequestKeepsOwner DEF Ask
<1>8. CASE Crash
  BY <1>8, CrashKeepsOwner
<1>9. CASE Startup \/ OtherProcessSweeps
  BY <1>9, StartupKeepsOwner DEF Startup, StartupSweepSkipped, OtherProcessSweeps, ServerAlone
<1> USE DEF OwnerInv, Places, Rows, DownIsQuiet, KindFits, WorkingRuns, StartingFresh, Fresh,
            HeldRows, PreparingIsHeld, SendingIsConfirmed, Recoverable, Active,
            storeVars, runVars, itemVars, workerVars, taskVars, slotVars, progressVars, historyVars,
            stageVars, apiVars, handlerVars, serverVars
<1>10. CASE Assist
  <2>1. CASE AssistCheck
    BY <1>10, <2>1 DEF Assist, AssistStep, AssistCheck
  <2>2. CASE AssistSweep
    <3>1. Rows'
      BY <1>10, <2>2, OutsideKeepsRows
         DEF Assist, AssistStep, AssistSweep, SweepStuckItems, TransitionItems, OutsideMove
    <3> QED
      BY <1>10, <2>2, <3>1 DEF Assist, AssistStep, AssistSweep
  <2> QED
    BY <1>10, <2>1, <2>2 DEF Assist, AssistStep
<1>11. CASE NewDay \/ \E i \in Item : ItemStalls(i)
  BY <1>11 DEF NewDay, ItemStalls
<1>12. CASE Boot
  BY <1>12 DEF Boot
<1>13. CASE UNCHANGED vars
  BY <1>13 DEF vars
<1> QED
  BY <1>3, <1>4, <1>5, <1>6, <1>7, <1>8, <1>9, <1>10, <1>11, <1>12, <1>13 DEF Next

\* Nothing is in anybody's hand at the start.
LEMMA OwnerInit == Init => OwnerInv
<1> SUFFICES ASSUME Init PROVE OwnerInv
  OBVIOUS
<1>1. SlotInv
  BY TypeInit, TaskAssumption
     DEF Init, ManagerInit, StageInit, ApiInit, SlotInv, OneStarter, FutureIsOnLoop, OnLoop,
         ReservedIsSubmitting, Submitting, CancelReachesWorker, Caller
<1>2. ModeInv
  BY ModeInit
<1> QED
  BY <1>1, <1>2, StoreAssumption
     DEF Init, StoreInit, ManagerInit, WorkerInit, StageInit, ApiInit, Caller, NoRun, OwnerInv,
         DownIsQuiet, KindFits, WorkingRuns, StartingFresh, HeldRows, PreparingIsHeld,
         SendingIsConfirmed, Filling, Sending

\* A sender has rows of its own run in hand (worker.py:429), however tasks end and
\* restart and whatever the sweeps and the human write meanwhile.
THEOREM RowsAreOwned == ServerAlone => (Spec => []SenderOwnsRow)
<1> SUFFICES ASSUME ServerAlone PROVE Spec => []SenderOwnsRow
  OBVIOUS
<1>1. OwnerInv => SenderOwnsRow
  BY DEF OwnerInv, HeldRows, SenderOwnsRow
<1>2. OwnerInv /\ [Next]_vars => OwnerInv'
  BY OwnerStep
<1> QED
  BY <1>1, <1>2, OwnerInit, PTL DEF Spec

\* While the server is up, 'preparing' says of a row that one coroutine fills it
\* (worker.py:195): a task that ended or a process that died has left none behind.
THEOREM PreparingIsWork == ServerAlone => (Spec => []PreparingIffHeld)
<1> SUFFICES ASSUME ServerAlone PROVE Spec => []PreparingIffHeld
  OBVIOUS
<1>1. OwnerInv => PreparingIffHeld
  BY DEF OwnerInv, HeldRows, PreparingIsHeld, Recoverable, PreparingIffHeld
<1>2. OwnerInv /\ [Next]_vars => OwnerInv'
  BY OwnerStep
<1> QED
  BY <1>1, <1>2, OwnerInit, PTL DEF Spec

\* Each submit to an employer uses up a confirm: what is in the hand of a sender
\* that fills its form was confirmed, and was not submitted since.
THEOREM OneSubmitPerConfirm == ServerAlone => (Spec => ConfirmPerSubmit)
<1> SUFFICES ASSUME ServerAlone PROVE Spec => ConfirmPerSubmit
  OBVIOUS
<1>1. OwnerInv => \A t \in Task, i \in Item :
                    pc[t] = "filling" /\ pc'[t] = "clicked" /\ hold[t] = {i} => i \in confirmed
  BY DEF OwnerInv, HeldRows
<1>2. OwnerInv /\ [Next]_vars => OwnerInv'
  BY OwnerStep
<1> QED
  BY <1>1, <1>2, OwnerInit, PTL DEF Spec, ConfirmPerSubmit

----------------------------------------------------------------------------

\* A sender between the check of the cap and the record of the application.
PastCheck(t) == pc[t] \in {"filling", "clicked", "record"}

\* The applications the cap is about.
Automatic ==
  {p \in sentToday \cap LinkedIn : \E i \in Item : KeyOf[i] = p /\ evidence[i] = "adapter"}

\* An application is counted as today's only when it is recorded the first time.
TodayGrows ==
  \/ sentToday' \subseteq sentToday
  \/ \E k \in Posting : k \notin apps /\ sentToday' \subseteq sentToday \cup {k}

\* A sender keeps its row in flight, and has passed the check when it takes one.
StaysChecked(t) ==
  \/ PastCheck(t) /\ hold'[t] = hold[t]
  \/ /\ UNCHANGED <<sentToday, evidence>>
     /\ \E i \in Item : hold'[t] = {i} /\ ~CapReached(i)

\* What any step may do to what is counted.
CapEffect == TodayGrows /\ \A t \in Task : PastCheck(t)' => StaysChecked(t)

\* A coroutine's step has that effect.
LEMMA WorkCounts ==
  ASSUME TypeOK, NEW u \in Task, Work(u)
  PROVE  CapEffect
<1> USE DEF CapEffect, TodayGrows, StaysChecked, PastCheck, TypeOK, ManagerTypeOK, WorkerTypeOK,
            runVars, itemVars, appVars, slotVars, progressVars, historyVars, KeepTask, Step, Goto
<1>1. ASSUME NEW from, NEW s, EndWith(u, from, s) PROVE CapEffect
  BY <1>1 DEF EndWith
<1>2. CASE PrepareStep(u)
  <2>1. CASE PrepareError(u) \/ DiscoverCancelled(u) \/ PrepareCancelled(u)
    BY <1>1, <2>1 DEF PrepareError, DiscoverCancelled, PrepareCancelled
  <2>2. CASE PrepareBegin(u) \/ LinkedInSkipped(u) \/ Discover(u)
    BY <2>2 DEF PrepareBegin, LinkedInSkipped, Discover
  <2>3. CASE Add(u) \/ CoroutineEnds(u) \/ NextPhase(u) \/ PrepareCounts(u)
    BY <2>3 DEF Add, CoroutineEnds, NextPhase, PrepareCounts, LoopOver, Idle
  <2>4. ASSUME NEW i \in Item, Claim(u, i) \/ \E to \in ItemState : Prepared(u, i, to)
        PROVE  CapEffect
    BY <2>4 DEF Claim, Idle, Prepared
  <2> QED
    BY <1>2, <2>1, <2>2, <2>3, <2>4 DEF PrepareStep
<1>3. CASE SendStep(u)
  <2>1. CASE SendBegin(u) \/ SendCounts(u) \/ Pause(u)
    BY <2>1 DEF SendBegin, SendCounts, Pause
  <2>2. CASE SendError(u)
    BY <1>1, <2>2 DEF SendError
  <2>3. ASSUME NEW i \in Item, SendRefused(u, i) \/ PickUp(u, i) \/ Click(u, i) PROVE CapEffect
    BY <2>3 DEF SendRefused, PickUp, Draining, Click
  <2>4. ASSUME NEW i \in Item, FillFails(u, i) \/ NotVerified(u, i) PROVE CapEffect
    BY <2>4 DEF FillFails, NotVerified, SendAnswer
  <2>5. ASSUME NEW i \in Item, Verified(u, i) PROVE CapEffect
    BY <2>5 DEF Verified
  <2>6. ASSUME NEW i \in Item, Record(u, i) PROVE CapEffect
    BY <2>6, StoreAssumption DEF Record, RecordApplication
  <2> QED
    BY <1>3, <2>1, <2>2, <2>3, <2>4, <2>5, <2>6 DEF SendStep
<1>4. CASE Close(u)
  BY <1>1, <1>4 DEF Close
<1>5. CASE TakeOver(u) \/ Exit(u)
  BY <1>5 DEF TakeOver, Exit, Release
<1> QED
  BY <1>2, <1>3, <1>4, <1>5 DEF Work, TaskStep

\* So has a request; MarkSent may count one application more.
LEMMA RequestCounts ==
  ASSUME TypeOK, Request
  PROVE  CapEffect
<1> USE DEF CapEffect, TodayGrows, StaysChecked, PastCheck, TypeOK, ManagerTypeOK, WorkerTypeOK,
            runVars, itemVars, appVars, taskVars, workerVars, progressVars, historyVars, Goto, Confirm
<1>1. ASSUME NEW r \in Run, CancelRun(r) \/ ConfirmAll(r) PROVE CapEffect
  BY <1>1 DEF CancelRun, ConfirmAll
<1>2. ASSUME NEW r \in Run, NEW mode \in {"dry", "live"}, CreateRun(r, mode) PROVE CapEffect
  BY <1>2 DEF CreateRun
<1>3. ASSUME NEW r \in Run, NEW i \in Item, ConfirmItem(r, i) PROVE CapEffect
  BY <1>3 DEF ConfirmItem
<1>4. ASSUME NEW r \in Run, NEW S \in SUBSET Item, SendReady(r, S) PROVE CapEffect
  BY <1>4 DEF SendReady
<1>5. ASSUME NEW t \in Task, Takeover(t) PROVE CapEffect
  BY <1>5 DEF Takeover, Reserve
<1>6. ASSUME NEW i \in Item, MarkSent(i) PROVE CapEffect
  BY <1>6, StoreAssumption DEF MarkSent, RecordApplication
<1>7. ASSUME NEW i \in Item, MarkUnavailable(i) \/ SkipItem(i) PROVE CapEffect
  BY <1>7 DEF MarkUnavailable, SkipItem
<1>8. ASSUME NEW S \in SUBSET Item, Requeue(S) PROVE CapEffect
  BY <1>8 DEF Requeue
<1> QED
  BY <1>1, <1>2, <1>3, <1>4, <1>5, <1>6, <1>7, <1>8 DEF Request

\* So has every step.
LEMMA StepCounts ==
  ASSUME TypeOK, [Next]_vars
  PROVE  CapEffect
<1>1. ASSUME NEW t \in Task, Work(t) PROVE CapEffect
  BY <1>1, WorkCounts
<1>2. CASE Ask
  BY <1>2, RequestCounts DEF Ask
<1> USE DEF CapEffect, TodayGrows, StaysChecked, PastCheck, TypeOK, ManagerTypeOK, WorkerTypeOK,
            storeVars, runVars, itemVars, appVars, taskVars, workerVars, progressVars, historyVars, Goto
<1>3. ASSUME NEW r \in Run, Tick(r) \/ RunNow(r) PROVE CapEffect
  BY <1>3 DEF Tick, RunNow, StageCreate
<1>4. ASSUME NEW c \in Caller, Staging(c) PROVE CapEffect
  BY <1>4 DEF Staging, StageContinues, StageRefused, StageSubmit, StageStart, Submit, Reserve
<1>5. CASE Handle
  BY <1>5 DEF Handle, HandlerContinues, StartRefused, HandlerSubmit, EnsureReturns, StartPrepare,
              EnsureStart, Submit, Reserve
<1>6. CASE Assist
  BY <1>6 DEF Assist, AssistStep, AssistCheck, AssistSweep
<1>7. CASE NewDay \/ Boot \/ \E i \in Item : ItemStalls(i)
  BY <1>7 DEF NewDay, Boot, ItemStalls
<1>8. CASE Crash
  BY <1>8 DEF Crash
<1>9. CASE OtherProcessSweeps \/ Startup
  BY <1>9 DEF OtherProcessSweeps, Startup, StartupSweep, StartupSweepSkipped, SweepFrame
<1>10. CASE UNCHANGED vars
  BY <1>10 DEF vars
<1> QED
  BY <1>1, <1>2, <1>3, <1>4, <1>5, <1>6, <1>7, <1>8, <1>9, <1>10 DEF Next

\* Whatever is in flight still has room under the cap, its own posting aside.
RoomLeft ==
  \A t \in Task, i \in Item :
    PastCheck(t) /\ hold[t] = {i} /\ KeyOf[i] \in LinkedIn =>
      Cardinality(Automatic \ {KeyOf[i]}) < DailyCap

\* The inductive invariant behind the cap.
CapInv ==
  /\ SlotInv /\ EvidenceInv
  /\ IsFiniteSet(sentToday)
  /\ crashes = 0 => Cardinality(Automatic) <= DailyCap /\ RoomLeft

\* With no crash, what comes to be counted is what was in flight.
LEMMA OnlyCheckedCounts ==
  ASSUME CapInv, CapEffect, Effect, crashes = 0, NEW p \in Automatic', p \notin Automatic
  PROVE  \E t \in Task, i \in Item : PastCheck(t) /\ hold[t] = {i} /\ KeyOf[i] = p
<1>1. PICK i \in Item : KeyOf[i] = p /\ evidence'[i] = "adapter" /\ p \in LinkedIn
  BY DEF Automatic
<1>2. CASE evidence[i] # "adapter"
  BY <1>1, <1>2 DEF Effect, RowMove, PastCheck
<1>3. CASE evidence[i] = "adapter"
  <2>1. p \notin sentToday /\ p \in sentToday'
    BY <1>1, <1>3 DEF Automatic
  <2>2. p \notin apps
    BY <2>1 DEF CapEffect, TodayGrows
  <2> QED
    BY <1>1, <1>3, <2>2 DEF CapInv, EvidenceInv, VerifiedIsRecorded, PastCheck
<1> QED
  BY <1>2, <1>3

\* CapInv is inductive while the scheduler is off.
LEMMA CapStep ==
  ASSUME ~SchedulerOn, CapInv, [Next]_vars
  PROVE  CapInv'
<1>1. SlotInv' /\ EvidenceInv'
  BY SlotStep, EvidenceStep DEF CapInv
<1>2. TypeOK /\ TypeOK' /\ Effect /\ CapEffect
  BY <1>1, StepEffect, StepCounts DEF CapInv, EvidenceInv
<1>3. IsFiniteSet(sentToday')
  <2>1. CASE sentToday' \subseteq sentToday
    BY <2>1, FS_Subset DEF CapInv
  <2>2. ASSUME NEW k, sentToday' \subseteq sentToday \cup {k} PROVE IsFiniteSet(sentToday')
    <3>1. IsFiniteSet(sentToday \cup {k})
      BY FS_AddElement DEF CapInv
    <3> QED
      BY <2>2, <3>1, FS_Subset
  <2> QED
    BY <1>2, <2>1, <2>2 DEF CapEffect, TodayGrows
<1>4. IsFiniteSet(Automatic) /\ IsFiniteSet(Automatic')
  BY <1>3, FS_Subset DEF CapInv, Automatic
<1>5. ASSUME NEW t \in Task, NEW u \in Task, PastCheck(t), PastCheck(u) PROVE t = u
  BY <1>5 DEF CapInv, SlotInv, FutureIsOnLoop, OnLoop, PastCheck
<1>6. ASSUME NEW S, NEW T, IsFiniteSet(T), S \subseteq T
      PROVE  Cardinality(S) \in Nat /\ Cardinality(T) \in Nat /\ Cardinality(S) <= Cardinality(T)
  BY <1>6, FS_Subset, FS_CardinalityType
<1>7. SUFFICES ASSUME crashes' = 0 PROVE Cardinality(Automatic') <= DailyCap /\ RoomLeft'
  BY <1>1, <1>3 DEF CapInv
<1>8. crashes = 0 /\ DailyCap \in Nat
  BY <1>2, <1>7, StoreAssumption DEF Effect, TypeOK
<1>9. Cardinality(Automatic') <= DailyCap
  <2>1. CASE Automatic' \subseteq Automatic
    BY <1>4, <1>6, <1>8, <2>1 DEF CapInv
  <2>2. ASSUME NEW p \in Automatic', p \notin Automatic PROVE Cardinality(Automatic') <= DailyCap
    <3>1. PICK t \in Task, i \in Item : PastCheck(t) /\ hold[t] = {i} /\ KeyOf[i] = p
      BY <1>2, <1>8, <2>2, OnlyCheckedCounts
    <3>2. Automatic' \subseteq Automatic \cup {p}
      <4>1. ASSUME NEW q \in Automatic', q \notin Automatic PROVE q = p
        <5>1. PICK u \in Task, j \in Item : PastCheck(u) /\ hold[u] = {j} /\ KeyOf[j] = q
          BY <1>2, <1>8, <4>1, OnlyCheckedCounts
        <5> QED
          BY <1>5, <3>1, <5>1
      <4> QED
        BY <4>1
    <3>3. Cardinality(Automatic \ {p}) < DailyCap
      BY <1>8, <2>2, <3>1 DEF CapInv, RoomLeft, Automatic
    <3>4. Automatic \ {p} = Automatic
      BY <2>2
    <3>5. IsFiniteSet(Automatic \cup {p}) /\ Cardinality(Automatic \cup {p}) = Cardinality(Automatic) + 1
      BY <1>4, <2>2, FS_AddElement
    <3>6. Cardinality(Automatic') <= Cardinality(Automatic) + 1 /\ Cardinality(Automatic) < DailyCap
      BY <1>6, <3>2, <3>3, <3>4, <3>5
    <3>7. Cardinality(Automatic') \in Nat /\ Cardinality(Automatic) \in Nat
      BY <1>4, FS_CardinalityType
    <3> QED
      BY <1>8, <3>6, <3>7
  <2> QED
    BY <2>1, <2>2
<1>10. RoomLeft'
  <2> SUFFICES ASSUME NEW t \in Task, NEW i \in Item, PastCheck(t)', hold'[t] = {i}, KeyOf[i] \in LinkedIn
               PROVE  Cardinality(Automatic' \ {KeyOf[i]}) < DailyCap
    BY DEF RoomLeft
  <2>1. CASE PastCheck(t) /\ hold'[t] = hold[t]
    <3>1. Automatic' \ {KeyOf[i]} \subseteq Automatic \ {KeyOf[i]}
      <4>1. ASSUME NEW q \in Automatic', q \notin Automatic PROVE q = KeyOf[i]
        <5>1. PICK u \in Task, j \in Item : PastCheck(u) /\ hold[u] = {j} /\ KeyOf[j] = q
          BY <1>2, <1>8, <4>1, OnlyCheckedCounts
        <5> QED
          BY <1>5, <2>1, <5>1
      <4> QED
        BY <4>1
    <3>2. Cardinality(Automatic \ {KeyOf[i]}) < DailyCap
      BY <1>8, <2>1 DEF CapInv, RoomLeft
    <3>3. IsFiniteSet(Automatic \ {KeyOf[i]})
      BY <1>4, FS_RemoveElement
    <3> QED
      BY <1>6, <1>8, <3>1, <3>2, <3>3
  <2>2. ASSUME UNCHANGED <<sentToday, evidence>>, NEW j \in Item, hold'[t] = {j}, ~CapReached(j)
        PROVE  Cardinality(Automatic' \ {KeyOf[i]}) < DailyCap
    <3>1. Automatic' \ {KeyOf[i]} \subseteq sentToday \cap LinkedIn
      BY <2>2 DEF Automatic
    <3>2. Cardinality(sentToday \cap LinkedIn) < DailyCap
      BY <2>2 DEF CapReached, LinkedInCapLeft
    <3>3. IsFiniteSet(sentToday \cap LinkedIn)
      BY FS_Subset DEF CapInv
    <3> QED
      BY <1>6, <1>8, <3>1, <3>2, <3>3
  <2> QED
    BY <1>2, <2>1, <2>2 DEF CapEffect, StaysChecked
<1> QED
  BY <1>9, <1>10

\* Until a crash, the applications the program itself verified on LinkedIn since
\* midnight stay within the cap (worker.py:447), although it is checked before a
\* send and counted after it, whatever the human reports meanwhile.
THEOREM CapHolds == ~SchedulerOn => (Spec => [](crashes = 0 => AutomaticSendsWithinCap))
<1> SUFFICES ASSUME ~SchedulerOn PROVE Spec => [](crashes = 0 => AutomaticSendsWithinCap)
  OBVIOUS
<1>1. Init => CapInv
  <2> SUFFICES ASSUME Init PROVE CapInv
    OBVIOUS
  <2>1. sentToday = {} /\ Automatic = {} /\ \A t \in Task : ~PastCheck(t)
    BY DEF Init, StoreInit, ManagerInit, Automatic, PastCheck
  <2> QED
    BY <2>1, OwnerInit, EvidenceInit, FS_EmptySet, StoreAssumption
       DEF OwnerInv, CapInv, RoomLeft
<1>2. CapInv /\ [Next]_vars => CapInv'
  BY CapStep
<1>3. CapInv => (crashes = 0 => AutomaticSendsWithinCap)
  BY DEF CapInv, Automatic, AutomaticSendsWithinCap
<1> QED
  BY <1>1, <1>2, <1>3, PTL DEF Spec
=============================================================================
