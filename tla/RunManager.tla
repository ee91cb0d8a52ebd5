----------------------------- MODULE RunManager -----------------------------
(***************************************************************************)
(* cvsender/core/run_manager.py: the one long-lived event loop and the     *)
(* slot that says which coroutine is using it.  `_start` takes its lock    *)
(* twice: once to check the slot and install the cancel token (Reserve),   *)
(* once to publish the future (Submit); other threads run in between.      *)
(***************************************************************************)
EXTENDS Store

CONSTANTS
  Task,       \* coroutines that can be alive at once (a bound of the model)
  NoTask      \* None

ASSUME TaskAssumption == NoTask \notin Task

VARIABLES
  pc,         \* where each task's coroutine is; "free" when there is none
  kind,       \* which coroutine it is: run_prepare, run_send or run_takeover
  taskRun,    \* the run it was started for, NoRun for a take-over
  cancelled,  \* tasks whose CancelToken is set
  future,     \* manager._future while it is not done, else NoTask
  slotTask,   \* the task whose token is manager._cancel
  slotRun     \* manager._run_id

slotVars == <<future, slotTask, slotRun>>

TaskPc == {"free", "reserved", "begin", "discover", "add", "loop", "drain",
           "filling", "clicked", "record", "pause", "closing", "exit"}

ManagerTypeOK ==
  /\ pc \in [Task -> TaskPc]
  /\ kind \in [Task -> {"none", "prepare", "send", "takeover"}]
  /\ taskRun \in [Task -> Run \cup {NoRun}]
  /\ cancelled \subseteq Task
  /\ future \in Task \cup {NoTask}
  /\ slotTask \in Task \cup {NoTask}
  /\ slotRun \in Run \cup {NoRun}

ManagerInit ==
  /\ pc = [t \in Task |-> "free"]
  /\ kind = [t \in Task |-> "none"]
  /\ taskRun = [t \in Task |-> NoRun]
  /\ cancelled = {}
  /\ future = NoTask
  /\ slotTask = NoTask
  /\ slotRun = NoRun

Busy == future # NoTask

Goto(t, where) == pc' = [pc EXCEPT ![t] = where]

\* Mutant of Reserve: the slot is not looked at.
ReserveAnyway(t, what, r) ==
  /\ pc[t] = "free"
  /\ Goto(t, "reserved")
  /\ kind' = [kind EXCEPT ![t] = what]
  /\ taskRun' = [taskRun EXCEPT ![t] = r]
  /\ slotTask' = t
  /\ slotRun' = r
  /\ UNCHANGED <<cancelled, future>>

\* Mutant of Reserve: the token is installed, the run id is not.
ReserveNoRunId(t, what, r) ==
  /\ ~Busy
  /\ pc[t] = "free"
  /\ Goto(t, "reserved")
  /\ kind' = [kind EXCEPT ![t] = what]
  /\ taskRun' = [taskRun EXCEPT ![t] = r]
  /\ slotTask' = t
  /\ UNCHANGED <<cancelled, future, slotRun>>

\* The first critical section of _start: nothing is running, so take the slot.
Reserve(t, what, r) ==
  /\ ~Busy
  /\ pc[t] = "free"
  /\ Goto(t, "reserved")
  /\ kind' = [kind EXCEPT ![t] = what]
  /\ taskRun' = [taskRun EXCEPT ![t] = r]
  /\ slotTask' = t
  /\ slotRun' = r
  /\ UNCHANGED <<cancelled, future>>

\* The second one: the coroutine is on the loop and _future points at it.
Submit(t) ==
  /\ pc[t] = "reserved"
  /\ Goto(t, "begin")
  /\ future' = t
  /\ UNCHANGED <<kind, taskRun, cancelled, slotTask, slotRun>>

\* The finally block of _guarded, after which the future is done.  It clears
\* the slot whoever owns it by now.
Release(t) ==
  /\ pc[t] = "exit"
  /\ Goto(t, "free")
  /\ kind' = [kind EXCEPT ![t] = "none"]
  /\ taskRun' = [taskRun EXCEPT ![t] = NoRun]
  /\ cancelled' = cancelled \ {t}
  /\ future' = IF future = t THEN NoTask ELSE future
  /\ slotTask' = NoTask
  /\ slotRun' = NoRun

\* request_cancel sets the token of the slot's task, if the slot is run r's.
RequestCancel(r) ==
  cancelled' = IF slotTask # NoTask /\ slotRun = r
                 THEN cancelled \cup {slotTask} ELSE cancelled
=============================================================================
