------------------------------- MODULE Store -------------------------------
(***************************************************************************)
(* The local database of CV Sender (cvsender/db/store.py, SQLite): the     *)
(* tables runs, run_items, applications and dismissed, and the guarded     *)
(* statements every other part of the program goes through.  One store     *)
(* call is one transaction, so each operator below is one indivisible      *)
(* change.  runs.cancel_requested is left out: it is written, and nothing  *)
(* reads it.                                                               *)
(***************************************************************************)
EXTENDS Naturals, FiniteSets

CONSTANTS
  Run,        \* run ids, in the order SQLite hands them out
  Item,       \* row ids of run_items, each a row that may be inserted once
  Posting,    \* job postings; stands for dedupe_key, content_hash and identity
  KeyOf,      \* [Item -> Posting], the posting a row is about
  LinkedIn,   \* the postings whose channel is LinkedIn (the rest are ATS boards)
  DailyCap    \* LinkedIn applications allowed since local midnight

ASSUME StoreAssumption ==
  /\ Run \subseteq Nat \ {0}
  /\ IsFiniteSet(Item)
  /\ KeyOf \in [Item -> Posting]
  /\ LinkedIn \subseteq Posting
  /\ DailyCap \in Nat

VARIABLES
  runStatus,  \* runs.status, "none" before the row exists
  runMode,    \* runs.mode: a "dry" run rehearses, a "live" run may send
  orphan,     \* runs whose runs.worker_pid is a process that has died
  itemState,  \* run_items.state, "none" before the row exists
  itemRun,    \* run_items.run_id
  evidence,   \* run_items.confirmation_evidence: who vouched for the send
  stalled,    \* 'sending' rows whose updated_at is older than STUCK_ITEM_S
  apps,       \* postings with a row in applications
  sentToday,  \* those of them with sent_at since local midnight
  dismissed   \* postings with a row in dismissed

runVars  == <<runStatus, runMode, orphan>>
itemVars == <<itemState, itemRun, evidence, stalled>>
appVars  == <<apps, sentToday, dismissed>>

NoRun == 0

RunStatus == {"none", "running", "sending", "awaiting_confirm", "done",
              "cancelled", "error", "interrupted"}

ItemState == {"none", "queued", "preparing", "ready", "needs_input", "failed",
              "skipped", "sending", "sent", "sent_unverified"}

\* The states assist_queue and waiting_in_queue call waiting for a human.
Waiting == {"needs_input", "ready", "failed"}

StoreTypeOK ==
  /\ runStatus \in [Run -> RunStatus]
  /\ runMode \in [Run -> {"dry", "live"}]
  /\ orphan \subseteq Run
  /\ itemState \in [Item -> ItemState]
  /\ itemRun \in [Item -> Run \cup {NoRun}]
  /\ evidence \in [Item -> {"none", "adapter", "user"}]
  /\ stalled \subseteq Item
  /\ apps \subseteq Posting
  /\ sentToday \subseteq Posting
  /\ dismissed \subseteq Posting

StoreInit ==
  /\ runStatus = [r \in Run |-> "none"]
  /\ runMode = [r \in Run |-> "dry"]
  /\ orphan = {}
  /\ itemState = [i \in Item |-> "none"]
  /\ itemRun = [i \in Item |-> NoRun]
  /\ evidence = [i \in Item |-> "none"]
  /\ stalled = {}
  /\ apps = {}
  /\ sentToday = {}
  /\ dismissed = {}

----------------------------------------------------------------------------
(* runs *)

Active(r) == runStatus[r] \in {"running", "sending"}

SetStatus(r, status) == runStatus' = [runStatus EXCEPT ![r] = status]

\* AUTOINCREMENT: the next id nobody has used.
IsNextRun(r) ==
  /\ runStatus[r] = "none"
  /\ \A q \in Run : q < r => runStatus[q] # "none"

\* INSERT ... WHERE NOT EXISTS an active run.
CreateRunAtomic(r, mode) ==
  /\ \A q \in Run : ~Active(q)
  /\ IsNextRun(r)
  /\ SetStatus(r, "running")
  /\ runMode' = [runMode EXCEPT ![r] = mode]

----------------------------------------------------------------------------
(* run_items *)

\* Mutant of RowsOf: a query forgets `WHERE run_id=?`.
RowsOfAnyRun(r, state) == {i \in Item : itemState[i] = state}

RowsOf(r, state) == {i \in Item : itemRun[i] = r /\ itemState[i] = state}

\* Mutant of TransitionItems: the update forgets `AND state IN (...)`.
TransitionUnguarded(S, from, to) ==
  /\ itemState' = [i \in Item |-> IF i \in S THEN to ELSE itemState[i]]
  /\ stalled' = stalled \ S

\* The guarded update: the rows of S that are in one of the states `from`.
TransitionItems(S, from, to) ==
  LET moved == {i \in S : itemState[i] \in from}
  IN  /\ itemState' = [i \in Item |-> IF i \in moved THEN to ELSE itemState[i]]
      /\ stalled' = stalled \ moved

TransitionItem(i, from, to) == TransitionItems({i}, from, to)

\* INSERT OR IGNORE on UNIQUE(run_id, dedupe_key).
Insertable(r, S) ==
  {i \in S : \A j \in Item :
      itemState[j] # "none" /\ itemRun[j] = r => KeyOf[j] # KeyOf[i]}

AddItems(r, S) ==
  /\ itemState' = [i \in Item |-> IF i \in S THEN "queued" ELSE itemState[i]]
  /\ itemRun' = [i \in Item |-> IF i \in S THEN r ELSE itemRun[i]]

\* Postings discovery leaves alone: applied to, dismissed, or waiting already.
AlreadyHandled(p) == p \in apps \cup dismissed

WaitingInQueue(p) == \E j \in Item : KeyOf[j] = p /\ itemState[j] \in Waiting

\* assist_queue: what a human could finish or send now.  Its GROUP BY keeps one
\* row of each posting, whichever SQLite picks.
AssistQueue ==
  {i \in Item : itemState[i] \in Waiting /\ ~AlreadyHandled(KeyOf[i])}

OnePerPosting(S) == \A i, j \in S : KeyOf[i] = KeyOf[j] => i = j

----------------------------------------------------------------------------
(* applications *)

\* record_application: ON CONFLICT(dedupe_key) DO NOTHING.
RecordApplication(p) ==
  /\ apps' = apps \cup {p}
  /\ sentToday' = IF p \in apps THEN sentToday ELSE sentToday \cup {p}

\* Mutant of LinkedInCapLeft: off by one.
CapLeftAtCap == Cardinality(sentToday \cap LinkedIn) <= DailyCap

LinkedInCapLeft == Cardinality(sentToday \cap LinkedIn) < DailyCap

----------------------------------------------------------------------------
(* recovery *)

InFlight(r) == \E i \in Item : itemRun[i] = r /\ itemState[i] \in {"preparing", "sending"}

\* Mutant of StaleRuns: the sweep selects the runs in 'running' only.
StaleRunningRuns(dead) == {r \in dead : runStatus[r] = "running"}

\* Runs sweep_stale_runs takes when the runs in `dead` have a dead or silent worker.
StaleRuns(dead) ==
  {r \in dead : Active(r) \/ (runStatus[r] = "awaiting_confirm" /\ InFlight(r))}

\* Mutant of SweepStaleRuns: rows in 'preparing' are forgotten.
SweepSendingOnly(dead) ==
  LET swept == StaleRuns(dead)
      rescued(i) == itemState[i] = "sending" /\ (itemRun[i] \in swept \/ i \in stalled)
  IN  /\ runStatus' = [r \in Run |-> IF r \in swept THEN "interrupted" ELSE runStatus[r]]
      /\ itemState' = [i \in Item |-> IF rescued(i) THEN "needs_input" ELSE itemState[i]]
      /\ stalled' = {i \in stalled : ~rescued(i)}

\* sweep_stale_runs then sweep_stuck_items, as both start-up paths call them.
SweepStaleRuns(dead) ==
  LET swept == StaleRuns(dead)
      rescued(i) == itemState[i] = "sending" /\ (itemRun[i] \in swept \/ i \in stalled)
      requeued(i) == itemState[i] = "preparing" /\ itemRun[i] \in swept
  IN  /\ runStatus' = [r \in Run |-> IF r \in swept THEN "interrupted" ELSE runStatus[r]]
      /\ itemState' = [i \in Item |-> IF rescued(i) THEN "needs_input"
                                      ELSE IF requeued(i) THEN "queued" ELSE itemState[i]]
      /\ stalled' = {i \in stalled : ~rescued(i)}

\* Mutant of SweepStuckItems: a stalled send is retried.
SweepToQueue == TransitionItems(stalled, {"sending"}, "queued")

SweepStuckItems == TransitionItems(stalled, {"sending"}, "needs_input")
=============================================================================
