------------------------------- MODULE Worker -------------------------------
(***************************************************************************)
(* cvsender/engine/worker.py: the coroutines on the loop.  run_prepare     *)
(* discovers postings, stages rows and fills their forms, several at a     *)
(* time; run_send drains the rows a human confirmed, one submit at a time; *)
(* run_takeover opens a window for the human.  A coroutine's code between  *)
(* two awaits is one step unless another thread can tell it apart.         *)
(* Every adapter turns an exception inside prepare or send, Cancelled      *)
(* included, into a FAILED result, so the worker's own handlers for        *)
(* Cancelled around those two calls are never reached.                     *)
(***************************************************************************)
EXTENDS RunManager

CONSTANT
  Concurrency  \* prepare coroutines of an ATS phase (LinkedIn runs one)

ASSUME ConcurrencyAssumption == Concurrency \in Nat \ {0}

VARIABLES
  phase,      \* the phase of a prepare task: LinkedIn first, then the boards
  hold,       \* rows a task has in hand: selected, being filled or being sent
  live,       \* prepare coroutines of a task that have not returned
  raised,     \* tasks one of whose coroutines ended with Cancelled
  verdict,    \* the run status a task computed and has yet to write
  confirmed,  \* history: rows a human confirmed and nothing has submitted since
  clicked     \* history: rows whose form was submitted to the employer

progressVars == <<phase, hold, live, raised, verdict>>
historyVars  == <<confirmed, clicked>>
taskVars     == <<pc, kind, taskRun, cancelled>>
workerVars   == <<taskVars, slotVars, progressVars>>

WorkerTypeOK ==
  /\ phase \in [Task -> {"linkedin", "ats"}]
  /\ hold \in [Task -> SUBSET Item]
  /\ live \in [Task -> Nat]
  /\ raised \subseteq Task
  /\ verdict \in [Task -> RunStatus]
  /\ confirmed \subseteq Item
  /\ clicked \subseteq Item

WorkerInit ==
  /\ phase = [t \in Task |-> "linkedin"]
  /\ hold = [t \in Task |-> {}]
  /\ live = [t \in Task |-> 0]
  /\ raised = {}
  /\ verdict = [t \in Task |-> "none"]
  /\ confirmed = {}
  /\ clicked = {}

Step(t, from, to) == pc[t] = from /\ Goto(t, to)

KeepTask == UNCHANGED <<kind, taskRun, cancelled>> /\ UNCHANGED slotVars

\* The run's outcome by what is still waiting for the human.
Outcome(r) ==
  IF \E i \in Item : itemRun[i] = r /\ itemState[i] \in {"ready", "needs_input"}
    THEN "awaiting_confirm" ELSE "done"

\* The coroutine ends by writing status s; _guarded's finally follows.
EndWith(t, from, s) ==
  /\ Step(t, from, "exit")
  /\ SetStatus(taskRun[t], s)
  /\ hold' = [hold EXCEPT ![t] = {}]
  /\ live' = [live EXCEPT ![t] = 0]
  /\ raised' = raised \ {t}
  /\ verdict' = [verdict EXCEPT ![t] = "none"]
  /\ phase' = [phase EXCEPT ![t] = "linkedin"]
  /\ KeepTask
  /\ UNCHANGED <<runMode, orphan>> /\ UNCHANGED <<itemVars, appVars, historyVars>>

----------------------------------------------------------------------------
(* PREPARE *)

\* No profile, or an exception outside the per-item handlers (a browser that
\* does not start, for the boards once their rows are there): the run ends in
\* 'error'.
PrepareError(t) ==
  /\ kind[t] = "prepare"
  /\ \E from \in {"begin", "discover", "loop"} :
       /\ from = "loop" => phase[t] = "ats" /\ hold[t] = {} /\ live[t] = Concurrency
       /\ EndWith(t, from, "error")

PrepareBegin(t) ==
  /\ kind[t] = "prepare"
  /\ Step(t, "begin", "discover")
  /\ KeepTask
  /\ UNCHANGED <<runVars, itemVars, appVars, progressVars, historyVars>>

OfPhase(i, p) == (KeyOf[i] \in LinkedIn) <=> (p = "linkedin")

\* What discovery and scoring find for the phase and dedupe lets through.
Candidates(p) ==
  {i \in Item : /\ itemState[i] = "none"
                /\ OfPhase(i, p)
                /\ ~AlreadyHandled(KeyOf[i])
                /\ ~WaitingInQueue(KeyOf[i])}

\* Any selection of them: what is found today, scored well and fits the cap.
Discover(t) ==
  /\ kind[t] = "prepare"
  /\ ~(phase[t] = "ats" /\ t \in cancelled)
  /\ Step(t, "discover", "add")
  /\ \E S \in SUBSET Candidates(phase[t]) :
       /\ OnePerPosting(S)
       /\ hold' = [hold EXCEPT ![t] = S]
  /\ KeepTask
  /\ UNCHANGED <<phase, live, raised, verdict>>
  /\ UNCHANGED <<runVars, itemVars, appVars, historyVars>>

\* cancel.check() between two boards.
DiscoverCancelled(t) ==
  /\ kind[t] = "prepare"
  /\ phase[t] = "ats" /\ t \in cancelled
  /\ EndWith(t, "discover", "cancelled")

\* The LinkedIn phase is not part of the run, or nobody is logged in to it.
LinkedInSkipped(t) ==
  /\ kind[t] = "prepare"
  /\ phase[t] = "linkedin"
  /\ Step(t, "discover", "loop")
  /\ KeepTask
  /\ UNCHANGED <<runVars, itemVars, appVars, progressVars, historyVars>>

\* _add_items, then the loop: LinkedIn with one coroutine, the boards with
\* Concurrency of them and only if a row was added.
Add(t) ==
  LET new == Insertable(taskRun[t], {i \in hold[t] : itemState[i] = "none"})
      loops == phase[t] = "linkedin" \/ new # {}
  IN  /\ pc[t] = "add"
      /\ AddItems(taskRun[t], new)
      /\ hold' = [hold EXCEPT ![t] = {}]
      /\ Goto(t, "loop")
      /\ live' = [live EXCEPT ![t] = IF ~loops THEN 0
                                     ELSE IF phase[t] = "linkedin" THEN 1 ELSE Concurrency]
      /\ KeepTask
      /\ UNCHANGED <<phase, raised, verdict, evidence, stalled>>
      /\ UNCHANGED <<runVars, appVars, historyVars>>

\* Mutant of Idle: a coroutine leaves its row.
IdleOrNot(t) == pc[t] = "loop"

\* A coroutine of the loop with nothing in hand.
Idle(t) == pc[t] = "loop" /\ Cardinality(hold[t]) < live[t]

\* next_queued and the queued -> preparing claim: no await between them, so no
\* other coroutine of the loop claims the same row.
Claim(t, i) ==
  /\ Idle(t)
  /\ t \notin cancelled
  /\ i \in RowsOf(taskRun[t], "queued")
  /\ TransitionItem(i, {"queued"}, "preparing")
  /\ hold' = [hold EXCEPT ![t] = @ \cup {i}]
  /\ KeepTask
  /\ UNCHANGED <<pc, phase, live, raised, verdict, itemRun, evidence>>
  /\ UNCHANGED <<runVars, appVars, historyVars>>

\* What the adapter can answer.  A row of the other phase's channel (re-queued by
\* an answer while this phase runs) has no adapter here and fails.
PrepareVerdicts(t, i) ==
  IF OfPhase(i, phase[t]) THEN {"ready", "needs_input", "failed"} ELSE {"failed"}

\* adapter.prepare returned: _apply_prepare_result.
Prepared(t, i, to) ==
  /\ pc[t] = "loop"
  /\ i \in hold[t]
  /\ to \in PrepareVerdicts(t, i)
  /\ TransitionItem(i, {"preparing"}, to)
  /\ hold' = [hold EXCEPT ![t] = @ \ {i}]
  /\ KeepTask
  /\ UNCHANGED <<pc, phase, live, raised, verdict, itemRun, evidence>>
  /\ UNCHANGED <<runVars, appVars, historyVars>>

\* An idle coroutine returns: cancelled, or nothing is queued any more.
CoroutineEnds(t) ==
  /\ Idle(t)
  /\ t \in cancelled \/ RowsOf(taskRun[t], "queued") = {}
  /\ live' = [live EXCEPT ![t] = @ - 1]
  /\ raised' = IF t \in cancelled THEN raised \cup {t} ELSE raised
  /\ KeepTask
  /\ UNCHANGED <<pc, phase, hold, verdict>>
  /\ UNCHANGED <<runVars, itemVars, appVars, historyVars>>

LoopOver(t) == pc[t] = "loop" /\ live[t] = 0 /\ hold[t] = {}

\* gather re-raises Cancelled, and _guarded writes 'cancelled'.
PrepareCancelled(t) ==
  /\ LoopOver(t) /\ t \in raised
  /\ EndWith(t, "loop", "cancelled")

\* LinkedIn left room under the cap: the boards are next.
NextPhase(t) ==
  /\ LoopOver(t) /\ t \notin raised
  /\ phase[t] = "linkedin"
  /\ Goto(t, "discover")
  /\ phase' = [phase EXCEPT ![t] = "ats"]
  /\ KeepTask
  /\ UNCHANGED <<hold, live, raised, verdict>>
  /\ UNCHANGED <<runVars, itemVars, appVars, historyVars>>

\* item_counts, from which the closing status follows.
PrepareCounts(t) ==
  /\ LoopOver(t) /\ t \notin raised
  /\ Goto(t, "closing")
  /\ verdict' = [verdict EXCEPT ![t] = Outcome(taskRun[t])]
  /\ KeepTask
  /\ UNCHANGED <<phase, hold, live, raised>>
  /\ UNCHANGED <<runVars, itemVars, appVars, historyVars>>

\* The last update_run of run_prepare and of run_send, whatever the row says now.
Close(t) == EndWith(t, "closing", verdict[t])

----------------------------------------------------------------------------
(* SEND *)

\* update_run(status='sending'), unconditional.
SendBegin(t) ==
  /\ kind[t] = "send"
  /\ Step(t, "begin", "drain")
  /\ SetStatus(taskRun[t], "sending")
  /\ KeepTask
  /\ UNCHANGED <<runMode, orphan>>
  /\ UNCHANGED <<itemVars, appVars, progressVars, historyVars>>

\* Mutant of SendCounts: a cancel does not leave the loop.
SendCountsWhenEmpty(t) ==
  /\ pc[t] = "drain"
  /\ RowsOf(taskRun[t], "sending") = {}
  /\ Goto(t, "closing")
  /\ verdict' = [verdict EXCEPT ![t] = Outcome(taskRun[t])]
  /\ KeepTask
  /\ UNCHANGED <<phase, hold, live, raised>>
  /\ UNCHANGED <<runVars, itemVars, appVars, historyVars>>

\* Cancelled, or next_in_state finds nothing: out of the loop.
SendCounts(t) ==
  /\ pc[t] = "drain"
  /\ t \in cancelled \/ RowsOf(taskRun[t], "sending") = {}
  /\ Goto(t, "closing")
  /\ verdict' = [verdict EXCEPT ![t] = Outcome(taskRun[t])]
  /\ KeepTask
  /\ UNCHANGED <<phase, hold, live, raised>>
  /\ UNCHANGED <<runVars, itemVars, appVars, historyVars>>

\* The next row to send, of those a human confirmed in this run.
Draining(t, i) ==
  /\ pc[t] = "drain"
  /\ t \notin cancelled
  /\ i \in RowsOf(taskRun[t], "sending")

CapReached(i) == KeyOf[i] \in LinkedIn /\ ~LinkedInCapLeft

\* Over the cap a row goes back to 'ready'; a row whose CV file is missing or
\* has changed since the review goes back to the human.
SendRefused(t, i) ==
  /\ Draining(t, i)
  /\ TransitionItem(i, {"sending"}, IF CapReached(i) THEN "ready" ELSE "needs_input")
  /\ KeepTask
  /\ UNCHANGED <<pc, progressVars, itemRun, evidence>>
  /\ UNCHANGED <<runVars, appVars, historyVars>>

\* adapter.send opens the form.  The row is not written: it stays 'sending'.
PickUp(t, i) ==
  /\ Draining(t, i)
  /\ ~CapReached(i)
  /\ Goto(t, "filling")
  /\ hold' = [hold EXCEPT ![t] = {i}]
  /\ KeepTask
  /\ UNCHANGED <<phase, live, raised, verdict>>
  /\ UNCHANGED <<runVars, itemVars, appVars, historyVars>>

\* The browser context does not come up: the exception leaves run_send and
\* _guarded writes 'error'; the row stays 'sending'.
SendError(t) ==
  /\ \E i \in Item : Draining(t, i) /\ ~CapReached(i)
  /\ EndWith(t, "drain", "error")

\* _apply_send_result for everything but SENT.
SendAnswer(t, i, to) ==
  /\ hold[t] = {i}
  /\ TransitionItem(i, {"sending"}, to)
  /\ Goto(t, "pause")
  /\ hold' = [hold EXCEPT ![t] = {}]
  /\ KeepTask
  /\ UNCHANGED <<phase, live, raised, verdict, itemRun, evidence>>
  /\ UNCHANGED <<runVars, appVars, historyVars>>

\* The adapter gave up before submitting: a cancel, a missing button, a crash,
\* a LinkedIn checkpoint.
FillFails(t, i) ==
  /\ pc[t] = "filling"
  /\ \E to \in {"failed", "needs_input"} : SendAnswer(t, i, to)

\* The one irreversible step.
Click(t, i) ==
  /\ hold[t] = {i}
  /\ Step(t, "filling", "clicked")
  /\ clicked' = clicked \cup {i}
  /\ confirmed' = confirmed \ {i}
  /\ KeepTask
  /\ UNCHANGED <<progressVars, runVars, itemVars, appVars>>

\* Mutants of NotVerified: no signal is taken for sent; or nothing is written.
NotVerifiedIsSent(t, i) == pc[t] = "clicked" /\ SendAnswer(t, i, "sent")

NotVerifiedKeepsRow(t, i) == pc[t] = "clicked" /\ SendAnswer(t, i, "sending")

\* No positive signal: the boards answer sent_unverified, needs_input (a form
\* that refused, an emailed code) or failed (a cancel, a crash); LinkedIn never
\* answers sent_unverified.
NotVerified(t, i) ==
  /\ pc[t] = "clicked"
  /\ \E to \in {"failed", "needs_input"}
            \cup (IF KeyOf[i] \in LinkedIn THEN {} ELSE {"sent_unverified"}) :
       SendAnswer(t, i, to)

\* Mutant of Verified: the application is never recorded.
VerifiedOnly(t, i) ==
  LET moved == itemState[i] = "sending"
  IN  /\ hold[t] = {i}
      /\ Step(t, "clicked", "pause")
      /\ TransitionItem(i, {"sending"}, "sent")
      /\ evidence' = IF moved THEN [evidence EXCEPT ![i] = "adapter"] ELSE evidence
      /\ hold' = [hold EXCEPT ![t] = {}]
      /\ KeepTask
      /\ UNCHANGED <<phase, live, raised, verdict, itemRun>>
      /\ UNCHANGED <<runVars, appVars, historyVars>>

\* SENT with evidence.  Only a row that really moved is recorded afterwards.
Verified(t, i) ==
  LET moved == itemState[i] = "sending"
  IN  /\ hold[t] = {i}
      /\ Step(t, "clicked", IF moved THEN "record" ELSE "pause")
      /\ TransitionItem(i, {"sending"}, "sent")
      /\ evidence' = IF moved THEN [evidence EXCEPT ![i] = "adapter"] ELSE evidence
      /\ hold' = [hold EXCEPT ![t] = IF moved THEN @ ELSE {}]
      /\ KeepTask
      /\ UNCHANGED <<phase, live, raised, verdict, itemRun>>
      /\ UNCHANGED <<runVars, appVars, historyVars>>

\* record_application, a transaction of its own.
Record(t, i) ==
  /\ hold[t] = {i}
  /\ Step(t, "record", "pause")
  /\ RecordApplication(KeyOf[i])
  /\ hold' = [hold EXCEPT ![t] = {}]
  /\ KeepTask
  /\ UNCHANGED <<phase, live, raised, verdict, dismissed>>
  /\ UNCHANGED <<runVars, itemVars, historyVars>>

\* cancel.sleep between two sends; a cancel ends it early and the next turn of
\* the loop sees it.
Pause(t) ==
  /\ Step(t, "pause", "drain")
  /\ KeepTask
  /\ UNCHANGED <<progressVars, runVars, itemVars, appVars, historyVars>>

----------------------------------------------------------------------------
(* TAKE-OVER, and the end of every coroutine *)

\* The window is filled and left open; the database is not written.
TakeOver(t) ==
  /\ kind[t] = "takeover"
  /\ Step(t, "begin", "exit")
  /\ KeepTask
  /\ UNCHANGED <<progressVars, runVars, itemVars, appVars, historyVars>>

Exit(t) ==
  /\ Release(t)
  /\ UNCHANGED <<progressVars, runVars, itemVars, appVars, historyVars>>

PrepareStep(t) ==
  \/ PrepareError(t) \/ PrepareBegin(t) \/ Discover(t) \/ DiscoverCancelled(t)
  \/ LinkedInSkipped(t) \/ Add(t) \/ CoroutineEnds(t) \/ PrepareCancelled(t) \/ NextPhase(t)
  \/ PrepareCounts(t)
  \/ \E i \in Item : Claim(t, i) \/ \E to \in ItemState : Prepared(t, i, to)

SendStep(t) ==
  \/ SendBegin(t) \/ SendCounts(t) \/ SendError(t) \/ Pause(t)
  \/ \E i \in Item : \/ SendRefused(t, i) \/ PickUp(t, i) \/ FillFails(t, i)
                     \/ Click(t, i) \/ NotVerified(t, i) \/ Verified(t, i)
                     \/ Record(t, i)

TaskStep(t) == PrepareStep(t) \/ SendStep(t) \/ Close(t) \/ TakeOver(t) \/ Exit(t)
=============================================================================
