------------------------------ MODULE Pipeline ------------------------------
(***************************************************************************)
(* The whole of CV Sender v2's core: one database, one run manager, the    *)
(* coroutines on its loop, the scheduler and the handlers of the server,   *)
(* put together with what happens to the process as a whole -- a crash and *)
(* the start-up that follows, midnight, and the second process of          *)
(* cvsender/runner.py that sweeps the same database when it starts.        *)
(***************************************************************************)
EXTENDS Api

CONSTANTS
  SchedulerOn,  \* the setting scheduler.enabled
  RunnerOn,     \* cvsender/runner.py may be started beside the server
  DbMayLock,    \* the database may be busy during start-up
  MaxCrashes    \* bound: crashes in one behaviour

ASSUME PipelineAssumption ==
  /\ SchedulerOn \in BOOLEAN /\ RunnerOn \in BOOLEAN /\ DbMayLock \in BOOLEAN
  /\ MaxCrashes \in Nat

VARIABLES
  server,     \* the server process
  crashes     \* history: how often it has died

serverVars == <<server, crashes>>
storeVars  == <<runVars, itemVars, appVars>>
vars == <<storeVars, workerVars, historyVars, stageVars, apiVars, serverVars>>

TypeOK ==
  /\ StoreTypeOK /\ ManagerTypeOK /\ WorkerTypeOK /\ StageTypeOK /\ ApiTypeOK
  /\ server \in {"down", "booting", "up"}
  /\ crashes \in 0 .. MaxCrashes

Init ==
  /\ StoreInit /\ ManagerInit /\ WorkerInit /\ StageInit /\ ApiInit
  /\ server = "booting"
  /\ crashes = 0

----------------------------------------------------------------------------
(* the threads of the running server *)

Work(t) == TaskStep(t) /\ UNCHANGED <<stageVars, apiVars, serverVars>>

\* The scheduler thread is started before the start-up sweep.
Tick(r) ==
  /\ SchedulerOn /\ server # "down"
  /\ StageCreate("tick", r)
  /\ UNCHANGED <<apiVars, serverVars>>

RunNow(r) ==
  /\ server = "up" /\ LoopFree
  /\ StageCreate("run-now", r)
  /\ UNCHANGED <<apiVars, serverVars>>

Staging(c) == StageContinues(c) /\ UNCHANGED <<apiVars, serverVars>>

Handle == HandlerContinues /\ UNCHANGED <<stageVars, serverVars>>

Ask == server = "up" /\ Request /\ UNCHANGED <<stageVars, serverVars>>

Assist == server = "up" /\ AssistStep /\ UNCHANGED <<stageVars, serverVars>>

----------------------------------------------------------------------------
(* the environment *)

\* A row has been 'sending' for STUCK_ITEM_S; nothing refreshes updated_at
\* while a sender has it in hand.
ItemStalls(i) ==
  /\ itemState[i] = "sending" /\ i \notin stalled
  /\ stalled' = stalled \cup {i}
  /\ UNCHANGED <<itemState, itemRun, evidence, runVars, appVars>>
  /\ UNCHANGED <<workerVars, historyVars, stageVars, apiVars, serverVars>>

NewDay ==
  /\ sentToday # {}
  /\ sentToday' = {}
  /\ UNCHANGED <<apps, dismissed, runVars, itemVars>>
  /\ UNCHANGED <<workerVars, historyVars, stageVars, apiVars, serverVars>>

SweepFrame ==
  /\ UNCHANGED <<runMode, orphan, itemRun, evidence, appVars>>
  /\ UNCHANGED <<historyVars, workerVars, stageVars, apiVars, crashes>>

\* runner.run starts.  Besides the runs of dead processes it takes any run
\* whose heartbeat is STALE_RUN_S old: it is renewed between rows only, and a
\* row may take longer.
OtherProcessSweeps ==
  /\ RunnerOn
  /\ \E quiet \in SUBSET Run : SweepStaleRuns(orphan \cup quiet)
  /\ SweepFrame
  /\ UNCHANGED server

\* Everything that is not in the database is lost, and no later process has
\* the pid that runs.worker_pid remembers.
Crash ==
  /\ server # "down" /\ crashes < MaxCrashes
  /\ server' = "down"
  /\ crashes' = crashes + 1
  /\ orphan' = {r \in Run : runStatus[r] # "none"}
  /\ pc' = [t \in Task |-> "free"]
  /\ kind' = [t \in Task |-> "none"]
  /\ taskRun' = [t \in Task |-> NoRun]
  /\ cancelled' = {}
  /\ future' = NoTask /\ slotTask' = NoTask /\ slotRun' = NoRun
  /\ phase' = [t \in Task |-> "linkedin"]
  /\ hold' = [t \in Task |-> {}]
  /\ live' = [t \in Task |-> 0]
  /\ raised' = {}
  /\ verdict' = [t \in Task |-> "none"]
  /\ stagePc' = [c \in Caller |-> "idle"]
  /\ stageRun' = [c \in Caller |-> NoRun]
  /\ stageTask' = [c \in Caller |-> NoTask]
  /\ ApiDone
  /\ assistPc' = "idle"
  /\ UNCHANGED <<runStatus, runMode, itemVars, appVars, historyVars>>

\* launchd starts the process again.
Boot ==
  /\ server = "down"
  /\ server' = "booting"
  /\ UNCHANGED <<storeVars, workerVars, historyVars, stageVars, apiVars, crashes>>

\* _startup: both sweeps, then the server takes requests.
StartupSweep ==
  /\ server = "booting"
  /\ SweepStaleRuns(orphan)
  /\ server' = "up"
  /\ SweepFrame

\* "database is locked": the sweep is skipped until the next start.
StartupSweepSkipped ==
  /\ DbMayLock
  /\ server = "booting"
  /\ server' = "up"
  /\ UNCHANGED <<storeVars, workerVars, historyVars, stageVars, apiVars, crashes>>

Startup == StartupSweep \/ StartupSweepSkipped

Next ==
  \/ \E t \in Task : Work(t)
  \/ \E r \in Run : Tick(r) \/ RunNow(r)
  \/ \E c \in Caller : Staging(c)
  \/ Handle \/ Ask \/ Assist
  \/ \E i \in Item : ItemStalls(i)
  \/ NewDay \/ OtherProcessSweeps \/ Crash \/ Boot \/ Startup

Spec == Init /\ [][Next]_vars

\* Every await of a coroutine ends (hard timeouts on every browser step), the
\* threads run, and launchd keeps the process alive.  No human or page is
\* obliged to ask for anything, and no environment step has to happen.
Fairness ==
  /\ \A t \in Task : WF_vars(Work(t))
  /\ \A c \in Caller : WF_vars(Staging(c))
  /\ WF_vars(Handle) /\ WF_vars(Boot) /\ WF_vars(Startup)

FairSpec == Spec /\ Fairness

----------------------------------------------------------------------------
(* Safety.  What holds whatever the settings are. *)

\* A row shown as sent was vouched for: by the form's answer, and then the form
\* really was submitted, or by the human (README "never a fabricated sent").
EvidenceForSent ==
  \A i \in Item :
    /\ itemState[i] = "sent" => evidence[i] # "none"
    /\ evidence[i] = "adapter" => i \in clicked

\* 'sent' is final: no sweep, cancel, crash, late result or request moves the
\* row again, whatever was in flight when it got there.
SentIsFinal ==
  [][\A i \in Item : itemState[i] = "sent" => itemState'[i] = "sent"]_vars

\* A dry run never sends: whatever is started to send, or is about to be, works
\* for a live run, though a confirm on a live run may name a row of a dry one
\* (main.py:421).
DryNeverSends ==
  /\ \A t \in Task : kind[t] = "send" => taskRun[t] \in Run /\ runMode[taskRun[t]] = "live"
  /\ apiPc = "ensure" => runMode[apiRun] = "live"

\* With no crash, an application the form confirmed is in the table that dedupe
\* and the cap read, or its sender is just about to write it there.
VerifiedIsRecorded ==
  crashes = 0 =>
    \A i \in Item :
      evidence[i] = "adapter" =>
        \/ KeyOf[i] \in apps
        \/ \E t \in Task : pc[t] = "record" /\ hold[t] = {i}

----------------------------------------------------------------------------
(* Safety that needs one starter of coroutines and a start-up sweep that runs:
   without SchedulerOn, RunnerOn and DbMayLock. *)

\* At most one coroutine is on the loop, so forms reach employers one at a time
\* (worker.py:182) and nothing shares the browser (scheduler.py:14).
OneCoroutine ==
  \A t, u \in Task :
    pc[t] \notin {"free", "reserved"} /\ pc[u] \notin {"free", "reserved"} => t = u

\* The slot names the coroutine that runs, so a cancel reaches it.
CancelReachesWorker ==
  \A t \in Task :
    pc[t] # "free" => slotTask = t /\ slotRun = taskRun[t]

\* The row a sender has in hand is one of its own run until its answer is
\* written: with DryNeverSends, nothing of a dry run is submitted.
SenderOwnsRow ==
  \A t \in Task : kind[t] = "send" => \A i \in hold[t] : itemRun[i] = taskRun[t]

\* A row shows 'preparing' exactly while one prepare coroutine fills its form:
\* no row is filled twice at a time and none is left behind, however a task ends
\* (a start-up that is not over yet has the rows of the dead process to requeue).
PreparingIffHeld ==
  server = "up" =>
    \A i \in Item :
      itemState[i] = "preparing" <=>
        \E t \in Task : pc[t] = "loop" /\ i \in hold[t] /\ itemRun[i] = taskRun[t]

\* The LinkedIn applications the program itself verified since midnight stay
\* within the cap, whatever the human reports at the same time.
AutomaticSendsWithinCap ==
  Cardinality({p \in sentToday \cap LinkedIn :
                 \E i \in Item : KeyOf[i] = p /\ evidence[i] = "adapter"}) <= DailyCap

\* The program keeps the promise of Lifecycle.
Life == INSTANCE Lifecycle WITH
          state <- itemState, voucher <- evidence,
          consent <- confirmed, submitted <- clicked

KeepsPromise == Life!LifeSpec

\* Every submit to an employer uses up a confirm of its own, through stalls,
\* sweeps, cancels, crashes and restarts.
ConfirmPerSubmit ==
  [][\A t \in Task, i \in Item :
       pc[t] = "filling" /\ pc'[t] = "clicked" /\ hold[t] = {i} => i \in confirmed]_vars

----------------------------------------------------------------------------
(* Liveness *)

\* A worker that has been told to stop stops: no form, retry or re-queued row
\* keeps it going.
CancelStopsWorker == \A t \in Task : t \in cancelled ~> pc[t] = "free"

\* A run whose process died does not stay active with nobody at work on it: it is
\* released, or taken up by a sender of the new process, as a confirm may do again
\* and again.
LostRunIsReleased ==
  \A r \in Run : (r \in orphan /\ Active(r)) ~>
    (~Active(r) \/ \E t \in Task : pc[t] # "free" /\ taskRun[t] = r)

----------------------------------------------------------------------------
(* What the documentation says and the code does not do. *)

\* worker.py:418 "late confirms are picked up in the same drain": a sender that
\* was not cancelled and met no error leaves no confirmed row of its run behind.
LateConfirmIsSent ==
  \A t \in Task :
    /\ kind[t] = "send" /\ pc[t] = "exit"
    /\ t \notin cancelled /\ runStatus[taskRun[t]] # "error"
    /\ apiPc = "idle"
    => RowsOf(taskRun[t], "sending") = {}

\* store.py:86 "The run currently working": an active run has a coroutine, or a
\* handler or the scheduler about to start one.
ActiveRunIsWorkedOn ==
  server = "up" =>
    \A r \in Run :
      Active(r) => r \in {taskRun[t] : t \in Task} \cup {stageRun[c] : c \in Caller} \cup {apiRun}
=============================================================================
