-------------------------------- MODULE Api --------------------------------
(***************************************************************************)
(* The handlers of cvsender/main.py that start work or move rows.  The     *)
(* `async def` handlers run one after the other on the server's event      *)
(* loop, none of them awaits once it has its input, and _ensure_send_worker*)
(* even sleeps on that loop; the coroutines, the scheduler and the polled  *)
(* `def` handler of /api/assist run on other threads.  A handler is one    *)
(* step up to its first call of the run manager.                           *)
(***************************************************************************)
EXTENDS Scheduler

VARIABLES
  apiPc,      \* where the current async handler is
  apiRun,     \* the run it works for
  apiTask,    \* the task it has reserved
  assistPc    \* where the handler of /api/assist is

handlerVars == <<apiPc, apiRun, apiTask>>
apiVars     == <<handlerVars, assistPc>>

ApiTypeOK ==
  /\ apiPc \in {"idle", "start", "ensure", "submit"}
  /\ apiRun \in Run \cup {NoRun}
  /\ apiTask \in Task \cup {NoTask}
  /\ assistPc \in {"idle", "sweep"}

ApiInit ==
  /\ apiPc = "idle"
  /\ apiRun = NoRun
  /\ apiTask = NoTask
  /\ assistPc = "idle"

LoopFree == apiPc = "idle" /\ stagePc["run-now"] = "idle"

ApiGoto(where, r, t) == apiPc' = where /\ apiRun' = r /\ apiTask' = t

ApiDone == ApiGoto("idle", NoRun, NoTask)

Exists(i) == itemState[i] # "none"

----------------------------------------------------------------------------
(* starting a run *)

CreateRun(r, mode) ==
  /\ LoopFree
  /\ CreateRunAtomic(r, mode)
  /\ ApiGoto("start", r, NoTask)
  /\ UNCHANGED orphan
  /\ UNCHANGED <<itemVars, appVars, workerVars, historyVars>>

StartPrepare(t) ==
  /\ apiPc = "start"
  /\ Reserve(t, "prepare", apiRun)
  /\ ApiGoto("submit", apiRun, t)
  /\ UNCHANGED <<runVars, itemVars, appVars, progressVars, historyVars>>

\* start_prepare said no and nobody looks: the run stays 'running'.
StartRefused ==
  /\ apiPc = "start"
  /\ Busy
  /\ ApiDone
  /\ UNCHANGED <<runVars, itemVars, appVars, workerVars, historyVars>>

HandlerSubmit ==
  /\ apiPc = "submit"
  /\ Submit(apiTask)
  /\ ApiDone
  /\ UNCHANGED <<runVars, itemVars, appVars, progressVars, historyVars>>

Takeover(t) ==
  /\ LoopFree
  /\ \E i \in Item : Exists(i)
  /\ Reserve(t, "takeover", NoRun)
  /\ ApiGoto("submit", NoRun, t)
  /\ UNCHANGED <<runVars, itemVars, appVars, progressVars, historyVars>>

\* request_cancel, and a parked run nobody works on is closed here.
CancelRun(r) ==
  /\ LoopFree
  /\ runStatus[r] # "none"
  /\ RequestCancel(r)
  /\ IF runStatus[r] = "awaiting_confirm" /\ ~Busy
       THEN SetStatus(r, "cancelled") ELSE UNCHANGED runStatus
  /\ UNCHANGED <<runMode, orphan, pc, kind, taskRun>>
  /\ UNCHANGED <<itemVars, appVars, slotVars, progressVars, historyVars>>
  /\ UNCHANGED handlerVars

----------------------------------------------------------------------------
(* confirming: the human's word that a row may be sent *)

\* Rows S move from 'ready' to 'sending' on behalf of run r; _ensure_send_worker
\* returns at once if r itself has no row to send.
Confirm(r, S) ==
  /\ TransitionItems(S, {"ready"}, "sending")
  /\ confirmed' = confirmed \cup S
  /\ UNCHANGED <<evidence, clicked, appVars>> /\ UNCHANGED workerVars

SomethingToSend(r, S) ==
  \E i \in Item : itemRun[i] = r /\ (itemState[i] = "sending" \/ i \in S)

\* Run r must be live.  The row need not be one of r's.
ConfirmItem(r, i) ==
  /\ LoopFree
  /\ runStatus[r] # "none" /\ runMode[r] = "live"
  /\ itemState[i] = "ready"
  /\ Confirm(r, {i})
  /\ IF SomethingToSend(r, {i}) THEN ApiGoto("ensure", r, NoTask) ELSE ApiDone
  /\ UNCHANGED <<runVars, itemRun>>

\* Mutant of ConfirmAll: the run's mode is not looked at.
ConfirmAllAnyMode(r) ==
  /\ LoopFree
  /\ RowsOf(r, "ready") # {}
  /\ Confirm(r, RowsOf(r, "ready"))
  /\ ApiGoto("ensure", r, NoTask)
  /\ UNCHANGED <<runVars, itemRun>>

ConfirmAll(r) ==
  /\ LoopFree
  /\ runStatus[r] # "none" /\ runMode[r] = "live"
  /\ RowsOf(r, "ready") # {}
  /\ Confirm(r, RowsOf(r, "ready"))
  /\ ApiGoto("ensure", r, NoTask)
  /\ UNCHANGED <<runVars, itemRun>>

\* A fresh live run takes the chosen ready rows, whatever run staged them.
SendReady(r, S) ==
  /\ LoopFree
  /\ S # {} /\ OnePerPosting(S)
  /\ S \subseteq {i \in AssistQueue : itemState[i] = "ready"}
  /\ CreateRunAtomic(r, "live")
  /\ itemRun' = [i \in Item |-> IF i \in S THEN r ELSE itemRun[i]]
  /\ Confirm(r, S)
  /\ ApiGoto("ensure", r, NoTask)
  /\ UNCHANGED orphan

EnsureStart(t) ==
  /\ apiPc = "ensure"
  /\ Reserve(t, "send", apiRun)
  /\ ApiGoto("submit", apiRun, t)
  /\ UNCHANGED <<runVars, itemVars, appVars, progressVars, historyVars>>

\* The worker is taken.  Some run is 'sending', so its sender is trusted with
\* the rows; or two seconds of retries go by and the handler gives up.
EnsureReturns ==
  /\ apiPc = "ensure"
  /\ Busy
  /\ ApiDone
  /\ UNCHANGED <<runVars, itemVars, appVars, workerVars, historyVars>>

----------------------------------------------------------------------------
(* what a human says about one row *)

Resolvable == Waiting \cup {"sending", "sent_unverified"}

\* The application is recorded even when the row was in no state to move.
MarkSent(i) ==
  LET moved == itemState[i] \in Resolvable
  IN  /\ LoopFree
      /\ Exists(i) /\ itemState[i] # "sent"
      /\ TransitionItem(i, Resolvable, "sent")
      /\ evidence' = IF moved THEN [evidence EXCEPT ![i] = "user"] ELSE evidence
      /\ RecordApplication(KeyOf[i])
      /\ UNCHANGED <<itemRun, dismissed>>
      /\ UNCHANGED <<runVars, workerVars, historyVars, handlerVars>>

MarkUnavailable(i) ==
  /\ LoopFree
  /\ Exists(i)
  /\ dismissed' = dismissed \cup {KeyOf[i]}
  /\ TransitionItem(i, Resolvable, "skipped")
  /\ UNCHANGED <<itemRun, evidence, apps, sentToday>>
  /\ UNCHANGED <<runVars, workerVars, historyVars, handlerVars>>

SkipItem(i) ==
  /\ LoopFree
  /\ itemState[i] \in Waiting
  /\ TransitionItem(i, Waiting, "skipped")
  /\ UNCHANGED <<itemRun, evidence, appVars>>
  /\ UNCHANGED <<runVars, workerVars, historyVars, handlerVars>>

\* Answers were saved: what they blocked goes back to the queue of its own run.
Requeue(S) ==
  /\ LoopFree
  /\ S # {} /\ \A i \in S : itemState[i] \in {"needs_input", "failed"}
  /\ TransitionItems(S, {"needs_input", "failed"}, "queued")
  /\ UNCHANGED <<itemRun, evidence, appVars>>
  /\ UNCHANGED <<runVars, workerVars, historyVars, handlerVars>>

----------------------------------------------------------------------------
(* the poll of /api/assist, on a thread of its own *)

AssistCheck ==
  /\ assistPc = "idle"
  /\ ~Busy
  /\ stalled # {}
  /\ assistPc' = "sweep"
  /\ UNCHANGED <<runVars, itemVars, appVars, workerVars, historyVars>>

AssistSweep ==
  /\ assistPc = "sweep"
  /\ assistPc' = "idle"
  /\ SweepStuckItems
  /\ UNCHANGED <<itemRun, evidence, appVars>>
  /\ UNCHANGED <<runVars, workerVars, historyVars>>

AssistStep == (AssistCheck \/ AssistSweep) /\ UNCHANGED handlerVars

\* The steps of a handler that is under way, and the requests that start one.
HandlerContinues ==
  /\ \/ StartRefused \/ HandlerSubmit \/ EnsureReturns
     \/ \E t \in Task : StartPrepare(t) \/ EnsureStart(t)
  /\ UNCHANGED assistPc

Request ==
  /\ \/ \E r \in Run : \/ \E mode \in {"dry", "live"} : CreateRun(r, mode)
                       \/ CancelRun(r) \/ ConfirmAll(r)
                       \/ \E i \in Item : ConfirmItem(r, i)
                       \/ \E S \in SUBSET Item : SendReady(r, S)
     \/ \E t \in Task : Takeover(t)
     \/ \E i \in Item : MarkSent(i) \/ MarkUnavailable(i) \/ SkipItem(i)
     \/ \E S \in SUBSET Item : Requeue(S)
  /\ UNCHANGED assistPc
=============================================================================
