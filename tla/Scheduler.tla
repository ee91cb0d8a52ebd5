------------------------------ MODULE Scheduler ------------------------------
(***************************************************************************)
(* cvsender/scheduler.py: stage_now starts one dry scan.  It runs on the   *)
(* scheduler's own thread (tick) and inside the handler of POST            *)
(* /api/run-now, so two copies of it can be under way.                     *)
(***************************************************************************)
EXTENDS Worker

VARIABLES
  stagePc,    \* where each caller of stage_now is
  stageRun,   \* the run it created
  stageTask   \* the task it has reserved for it

stageVars == <<stagePc, stageRun, stageTask>>

Caller == {"tick", "run-now"}

StageTypeOK ==
  /\ stagePc \in [Caller -> {"idle", "start", "submit"}]
  /\ stageRun \in [Caller -> Run \cup {NoRun}]
  /\ stageTask \in [Caller -> Task \cup {NoTask}]

StageInit ==
  /\ stagePc = [c \in Caller |-> "idle"]
  /\ stageRun = [c \in Caller |-> NoRun]
  /\ stageTask = [c \in Caller |-> NoTask]

StageGoto(c, where, r, t) ==
  /\ stagePc' = [stagePc EXCEPT ![c] = where]
  /\ stageRun' = [stageRun EXCEPT ![c] = r]
  /\ stageTask' = [stageTask EXCEPT ![c] = t]

\* Not busy, no active run: create the run.  create_run_atomic checks the
\* second half again, and a task that gets in before StageStart has the effect
\* of one that gets in between the check and the insert.
StageCreate(c, r) ==
  /\ stagePc[c] = "idle"
  /\ ~Busy
  /\ CreateRunAtomic(r, "dry")
  /\ StageGoto(c, "start", r, NoTask)
  /\ UNCHANGED orphan
  /\ UNCHANGED <<itemVars, appVars, workerVars, historyVars>>

StageStart(c, t) ==
  /\ stagePc[c] = "start"
  /\ Reserve(t, "prepare", stageRun[c])
  /\ StageGoto(c, "submit", stageRun[c], t)
  /\ UNCHANGED <<runVars, itemVars, appVars, progressVars, historyVars>>

\* start_prepare said no: the run that was just created ends in 'error'.
StageRefused(c) ==
  /\ stagePc[c] = "start"
  /\ Busy
  /\ SetStatus(stageRun[c], "error")
  /\ StageGoto(c, "idle", NoRun, NoTask)
  /\ UNCHANGED <<runMode, orphan>>
  /\ UNCHANGED <<itemVars, appVars, workerVars, historyVars>>

StageSubmit(c) ==
  /\ stagePc[c] = "submit"
  /\ Submit(stageTask[c])
  /\ StageGoto(c, "idle", NoRun, NoTask)
  /\ UNCHANGED <<runVars, itemVars, appVars, progressVars, historyVars>>

\* What follows once a run is created; it needs nobody's request.
StageContinues(c) ==
  \/ StageRefused(c) \/ StageSubmit(c) \/ \E t \in Task : StageStart(c, t)
=============================================================================
