# Verification of CV Sender

CV Sender (`cvsender/`, "v2") finds job postings, fills the application forms in
a browser, and submits a form only after a human has confirmed it. This
directory holds TLA+ models of it, the TLC configurations that check them on
small instances, and machine-checked proofs of the facts that matter most.

The program is a single server process with several threads over one SQLite
file, restarted by launchd, sometimes next to a second process. What makes it
hard is exactly what a unit test does not reach: a confirm that arrives while a
worker is on its way out, a sweep that meets a live send, a crash between a
submit and its record.

## The system

| part | source | state it keeps | operations |
|---|---|---|---|
| Store | `db/store.py`, `db/migrations.py`, `db/connection.py` | `runs`, `run_items`, `applications`, `dismissed`, profile, answers, settings, sessions, tracker | guarded transitions, atomic run creation, dedupe, two recovery sweeps |
| Run manager | `core/run_manager.py`, `core/cancel.py` | one event loop, one future, one cancel token, one run id | start prepare / send / take-over, request cancel |
| Worker | `engine/worker.py` | coroutines on the loop | prepare (discover, stage, fill), send (drain, submit, verify), take-over |
| Channels | `channels/*.py` | none between calls | discover, prepare and send for Greenhouse, Lever, Ashby, Comeet, Workable, SmartRecruiters, LinkedIn |
| Browser session | `engine/session.py`, `engine/browser.py` | two contexts, an async lock | lend a context, recycle on a change of visibility, close |
| Server | `main.py` | start-up sweep, request handlers | create and cancel runs, confirm, send ready, mark sent / unavailable / skipped, answers, take-over, the polled assist queue |
| Scheduler | `scheduler.py` | last scan, a thread | tick, stage one dry scan |
| Second process | `runner.py` | its own run manager | sweep, then stage until the queue is deep enough |
| Freshness | `freshness.py` | liveness of a row | probe postings, close the dead ones |
| Cloud sync | `cloud.py` | owner secret, remote profile, settings, answers, CV | push, pull, restore, sync at start |
| Authentication | `auth.py` | failures per client, sessions | lock out, create, slide, destroy |
| Event stream | `core/sse.py`, `main.py` | last event id | replay, then follow |
| Funnel, answer bank, CV choice | `funnel/`, `engine/answerbank.py`, `cv_tailor.py`, `home.py` | learned answers | pure matching and scoring |
| Reports, pages, scripts, v1 | `today.py`, `console.py`, `health.py`, `doctor.py`, `web/`, `scripts/`, `app/` | none the core reads | presentation, one-off tools, the superseded program |

How they interact:

- Handlers and the scheduler call the **run manager** from their own threads; it
  runs the **worker's** coroutines on its loop. `_start` takes its lock twice,
  and other threads run in between.
- Everything shared lives in the **store**; each call is one transaction, and
  nothing spans two. A row moves only by `UPDATE ... WHERE state IN (...)`.
- A cancel goes handler -> run manager -> token -> the worker's next check.
- `async def` handlers share the server's event loop and do not await once they
  have their input, so they exclude one another, but not the polled `def` handler
  of `/api/assist`, the scheduler's thread or the worker's loop.
- launchd restarts the process when it dies; the new one migrates, starts the
  scheduler, sweeps, and only then serves.

What makes each part correct:

- *Store*: 'sent' is final and always vouched for; no sweep claims a send or
  causes one; a row is filled by one coroutine at a time.
- *Run manager*: one coroutine at a time, and a cancel reaches it.
- *Worker*: one submit for each confirm; only rows of its own run; a verified send
  is recorded; the LinkedIn cap holds; a cancelled worker stops.
- *Server, scheduler*: a dry run never sends; an active run is being worked on; a
  run whose process died is released or taken up again.
- *Channels, session*: nothing is submitted before it was reviewed and asked for;
  no text that was reviewed is replaced by another; 'sent' rests on a signal of the
  site (which may mislead, see below); a page left to a human is in a window
  that can be seen; no form is worked on for ever.
- *Dedupe, freshness*: what was settled is not offered again, what was not settled
  is not lost; only what is gone is dropped.
- *Cloud*: neither side is lost. *Auth*: a session that was ended stays ended, guesses
  are bounded. *Event stream*: each event once and in order. *Scan clock*: the
  prediction shown is the scan that is due, and scans go on unless a run never ends. *Funnel*: what speaks for a
  posting never costs it its place.

`PROJECT.json` lists every place where the code is exposed to interleaving,
crashes, late answers and limits, each at its line, with the properties that
would catch it going wrong.

## The modules

The pipeline (what runs, rows and coroutines go through) is one composed model,
each module extending the one before it, from the database up. What happens on
a page, to postings, and in the cloud are models of their own: they meet the
pipeline at one step each (a form is filled, a row is added, a save is pushed), and
in the pipeline that step may have any outcome. `Service` puts together the four
small parts that share no state with the rest.

| module | models | lines that matter |
|---|---|---|
| `Store` | the four tables and every guarded statement; both sweeps | `db/store.py` |
| `RunManager` | `future`, `slotTask`, `slotRun`; `Reserve` and `Submit` are the two critical sections of `_start`, `Release` the `finally` of `_guarded` | `core/run_manager.py` |
| `Worker` | the coroutines, one action for each stretch of code between two points another thread can tell apart | `engine/worker.py`, the verdicts of `channels/` |
| `Scheduler` | `stage_now`, on the scheduler's thread and in `/api/run-now` | `scheduler.py` |
| `Api` | every handler that starts work or moves a row | `main.py` |
| `Pipeline` | all of them together, with crash, boot, start-up sweep, midnight, stalls and the second process; the properties | `main.py:45-70`, `runner.py:70-72` |
| `Lifecycle` | the abstract specification of one application | README of the program, docstrings of `store.py` |
| `Forms` | a page, from opening it to its verdict, in prepare, send and take-over, for three kinds of adapter; the two browser contexts; the answer bank | `channels/greenhouse.py`, `channels/atsform.py`, `channels/linkedin.py`, `engine/session.py` |
| `Postings` | discovery's dedupe, dismissals, the liveness sweep, the queue of cards, over days | `channels/base.py`, `engine/worker.py`, `db/store.py`, `freshness.py`, `main.py` |
| `Cloud` | pushes, pulls, restore, back-up and the start-up sync, request by request | `cloud.py`, `main.py` |
| `Access` | passphrase, lockout, sessions and cookies | `auth.py`, `main.py`, `db/store.py` |
| `Stream` | the event stream of a run and the page that reads it | `main.py`, `db/store.py`, `web/app.js` |
| `Timetable` | when a scan is due, is started, and is announced | `scheduler.py` |
| `Discovery` | which boards are asked, how a posting is scored, which are picked | `channels/*.py`, `funnel/scoring.py`, `engine/worker.py` |
| `Service` | `Access`, `Stream`, `Timetable` and `Discovery` side by side | |
| `MCPipeline`, `MCForms`, `MCPostings`, `MCCloud`, `MCService` | the instances TLC checks | |
| `PipelineProofs`, `SlotProofs`, `OwnerProofs`, `PromiseProofs` | the theorems about the pipeline | |
| `FormsProofs`, `PostingsProofs`, `CloudProofs`, `ServiceProofs` | the theorems about pages, postings, the cloud, and the four parts of `Service` | |

Definitions called `...Anyway`, `...Raw` and the like, marked "Mutant of", are not
part of any specification: each is a plausible bug of the definition after it, and
`PROJECT.json` names the property that notices it.

### State and code: the pipeline

- `runStatus`, `runMode`, `itemState`, `itemRun`, `apps`, `dismissed` are columns
  or tables. `orphan` says which runs carry the pid of a dead process,
  `stalled` which 'sending' rows have an old `updated_at`, and `sentToday` which
  applications are since midnight: they replace the three clocks the code reads.
- `evidence` is `confirmation_evidence` reduced to who vouched.
- `Posting` stands for the key, the text hash and the identity of a posting at
  once. A row (`Item`) is about one posting, `KeyOf`. `Postings` tells them apart.
- A task is a coroutine that may be alive. `pc[t]` is where it is: `reserved`
  between the two critical sections of `_start`, `begin`, then for prepare
  `discover`, `add`, `loop`, for send `drain`, `filling`, `clicked`, `record`,
  `pause`, then `closing` (the status is computed and not yet written) and `exit`
  (the coroutine has returned, the future is not done). `hold[t]` is what it has in
  hand; in `loop`, where several prepare coroutines share a task, `live[t]` counts
  those that have not returned.
- `confirmed` and `clicked` are history: rows with a confirm nobody has used, and
  rows that reached the employer.

Left out here: which row is picked first (any one is), the score (any selection is
staged), wording, screenshots and events, SQLite errors other than at start-up,
heartbeats of the own process, pid reuse. `runs.cancel_requested` is written and never
read, so it has no variable. A handler's several transactions before its first call of
the run manager are one step. If another process's sweep requeues a row that a
coroutine has in hand and a second coroutine of the same loop claims it, the model
holds it once.

### State and code: pages (`Forms`)

- A value is a version: `profile` and `cv` are edited, `bank` learns answers; a
  field that was not filled is 0. Fields are of five kinds, which the adapters treat
  differently: a name, a link, a choice, an essay and a secret.
- `page` is the local state of the running job: the profile it read (`who`; a prepare
  reads it once per run), which step of the form it is on, what is filled in, the CV
  attached, whether it broke, what the site answered. Every await
  of an adapter is a place where the human may edit, the job may be cancelled or the
  page may die.
- `handle` is `result_json.handle` (the durable `SendHandle`); `ctx` the two contexts
  of `session.py`, absent, headless or visible; `left` the pages a take-over left
  open; `received` what each employer got; `reviewed` the history of what was judged.
- A `Reply` is what a click leads to, in three independent parts: whether the employer
  `accepted` the form, whether the host's first POST or PUT was answered without an error
  (`ok`), and what the page `shows`. `Positive` is what the code makes of the last two.
  `Frank` rows are those whose site ties them to the first.
- `swapped` (history) marks a page on which the CV was replaced where no guard looks:
  between the comparison and the attaching of a send, or the attaching and the hashing
  of a prepare.
- One job runs at a time, which is `OneCoroutine`. Coroutines of one prepare share only
  the context, so one page stands for all. Selectors, labels and their matching are
  abstracted to the kind of the field.

### State and code: postings (`Postings`)

- A posting has what the program recognises it by: key (`board`, `id`), text (`role`,
  `desc`), address (`site`, with or without `tracking`), position (`role`, `city`).
  `CanonicalUrl`, `ContentHash`, `Identity` and `DedupeKey` are the four functions
  of the code.
- `scan` is the discovery loop, an advertisement at a time, so that a human may dismiss
  or restore between two of them. `sweep` keeps the snapshot it works on and, for the
  row in hand, the verdict of the probe: probing and writing are separate steps, as
  they are in `freshness.py`. Days stand for the three windows.
- Filling and sending a row is one step, `parked` stands for needs_input and failed.

### State and code: the cloud (`Cloud`)

- Each background thread (and the event loop, for `Restore` and `Back up now`) has a
  list of steps to do. A push is `take` (read the database) and `post` (the request),
  which other threads come between; any request may fail, and a restart drops them all.
- `alone` and `before` are history: no edit and no other thread since the sync began,
  and what both sides held then. One setting and one answer stand for all.

### State and code: the parts of `Service`

- `Access`: a token is a number, its row an expiry; the gate and the handler behind it
  are two steps, and `/api/auth/status` reads and slides in two, because it runs on
  a thread of the pool. `failures` is the in-memory record of a client, `guessed` (history) every wrong passphrase
  since its record was last cleared.
- `Stream`: `log` is `run_events` (all runs; `After` is the query, its `WHERE` a set of ids,
  its `ORDER BY id` the operator `InOrder`), `server` the generator with its cursor and
  page, `wire` what was sent and not yet received; a lost connection drops the wire, and
  the page asks again after the last id it has.
- `Timetable`: `since` is the age of `scan.last_at` in hours; naps of the machine, restarts,
  new settings and other runs come between. A run may last any time, and may survive a crash
  in the database when the start-up sweep is skipped. Every day has the same length.
- `Discovery`: a posting is what its texts contain. Feeds and searches fail one by one;
  a record without an id is counted and left out (`skipped`), a Comeet token without a
  colon is passed over (`Malformed`); `SkillPoints`, the gates and the bands are the arithmetic of `score_job`.

In each behaviour of `Service` one of the four moves, chosen at the start. They share no
variable, and every property is about one of them, so interleaving them would only
multiply the states.

### The abstract specification

`Lifecycle` has no runs, workers, threads or crashes: a row is staged, filled,
confirmed, submitted at most once per confirm, and ends as sent (with a voucher),
not sent, or dropped; the only automatic way out of an interrupted send is back
to the human. `Pipeline` maps `itemState`, `evidence`, `confirmed` and `clicked` to
it, and `KeepsPromise` says that every step of the program is a step of it or a
stutter. It is checked by `Recovery` and proved by `PromiseIsKept`. `submitted` is a
set, so that a *second* submit of the same row without a new confirm is left to
`ConfirmPerSubmit`, which counts each one.

## The runs

Deadlock is not checked because the system may stop: nobody is obliged to ask for
anything, and run ids, edits, days and tokens are bounded. Names that are
interchangeable (coroutines, rows with a posting of their own, background threads) are
declared symmetric, in runs without a liveness property.

| run | question | bounds, and why they suffice |
|---|---|---|
| `Recovery` | Is the server alone right, through requests in any order and a crash at any point? | two runs and two coroutines so that one can end while the next starts; one row, filled by up to two coroutines (`Concurrency` 2); one crash |
| `Volume` | Does the LinkedIn cap hold and is every send recorded? | two LinkedIn rows under a cap of one; one coroutine, the scheduler's scans, human reports and midnight in between |
| `Liveness` | Do cancelled workers stop and lost runs get released? | one row, one run, two crashes, the second process sweeping at any time |
| `Forms` | Is a form sent only when asked, is reviewed text kept, and does 'sent' mean something? | six forms: Greenhouse (a frank site), a hosted one, one of a borderline title, one behind a captcha, one that asks for a secret, LinkedIn with two steps; two jobs of any kind (prepare then send, a take-over then a job that wants the same context), one edit, one failure; two turns of LinkedIn's walk instead of eight, one more than it needs to get stuck on a step |
| `Mirror` | What does a synchronisation leave on both sides? | two background threads and the loop, so that any two overlap; two edits (one lost, one in flight); one restart, wipe, restore or back-up |
| `Postings` | Is what was settled left out, and nothing else? | five ads that differ in exactly one way from the first (text, id, board and tracking, title), over two histories, one with two rows of one key and different titles; three days with windows of one day; two scans that add one row each, one sweep, three human decisions |
| `Service` | Signing in, the event stream, the clock, the scoring | two devices, two tokens, a limit of two failures and windows of two seconds; pages of two events, four events, two lost connections; a day of six hours with four settings, one of them with a window that ends before it begins, two naps, crashes or changes; three boards, one that cannot be asked and one that has stopped us before, at most one skipped record, and postings that span every gate and band of the score |
| `WedgedRun`, `LateConfirm`, `SkippedSweep`, `RacedStart`, `UnmirroredCv` | Does the code do what a comment, docstring or document says? It does not; see below | the smallest instance with the behaviour |

What they check, beside one type invariant per model:

- *Pipeline, safety*: `EvidenceForSent` (nobody fabricates a 'sent'), `SentIsFinal`,
  `VerifiedIsRecorded`, `DryNeverSends`, `SenderOwnsRow`, `PreparingIffHeld` (no row
  filled twice or left behind), `OneCoroutine`, `CancelReachesWorker`,
  `ConfirmPerSubmit`, `AutomaticSendsWithinCap`, `KeepsPromise`.
- *Pipeline, liveness*: `CancelStopsWorker`, `LostRunIsReleased`.
- *Forms*: `ReadyIsComplete` (what is offered can be sent), `PrepareNeverSubmits`,
  `SentAsReviewed` (no other text, and another CV only through the two gaps),
  `OutcomeIsHonest` ('sent' exactly on a positive signal), `TakeoverIsVisible`; `JobEnds`.
- *Postings*: `ScanRespectsHistory`, `RepostReturns`, `ClosedWasGone`, `OneCard` (no
  position has two cards, and nothing that waits is without one), `DroppedIsExplained` (what a scan
  drops has a reason among what was settled or waits).
- *Mirror*: `SyncMirrors`, `WipeRecovers`, `RestoreTakesCloud`, `ExistingNotClobbered`.
- *Service*: `SignedOutStaysOut`, `GuessesAreBounded`, `StreamIsExact`,
  `NextScanIsFirstDue`, `ScansAreStarted`, `NothingLost`, `VerdictIsMonotone`.

Some of them need reading with care.

- `AutomaticSendsWithinCap` counts what the program *verified*; a submit with no
  positive answer does not count against the cap, in the code as in the model. After a
  crash a verified send may be unrecorded, so it speaks of the time before. Two
  senders, which `RacedStart` makes possible, could each see room for one: with one
  coroutine `Volume` does not show that, and the theorem assumes the scheduler off.
- `OneCoroutine`, `CancelReachesWorker`, `SenderOwnsRow`, `PreparingIffHeld` and
  `ConfirmPerSubmit` are checked with `SchedulerOn`, `RunnerOn` and `DbMayLock` false:
  `RacedStart` and `SkippedSweep` show what the first and the last cost. The second
  process, when it sweeps (`runner.py:71`), hands back a send that is in flight, because
  the heartbeat is renewed between rows only; `tests/test_reliability.py:48` says a
  live run is left alone. No run is spent on it.
- `OutcomeIsHonest` says two things of a job board. For every site: 'sent' if and only if
  the code had its positive signal. For `Frank` sites, whose signals mean what the code
  takes them for: 'sent' only what was accepted, and nothing accepted reported as not
  sent. For the others the second is false: the first POST or PUT that the host answers
  with 2xx or 3xx makes the send 'sent', before the form's complaints or a request for a
  code are read (`atsform.py:512-537`, `greenhouse.py:375-406`), so that an endpoint which
  answers 200 to a form it refuses, or another request of the same host, gives a 'sent'
  of a form nobody accepted. A cancelled
  job is excepted: a cancel between the click and the answer ends as 'failed' although the
  employer has the form; so is a page that died.
- `SentAsReviewed` is about the hosted forms: Greenhouse re-fills the standard fields
  from today's profile, and LinkedIn keeps of the profile the phone, the e-mail and the
  place. A field that fails when it is filled again may be left empty. The CV is the
  one reviewed unless it was replaced in one of the two gaps (`swapped`), any other edit
  at any time allowed. The gaps are real: the guard compares the CV before the page is
  opened (`worker.py:458`), the file is read again when it is attached (`atsform.py:424`),
  and the hash compared with was computed after the form was filled (`worker.py:377`).
  Without the exception TLC finds at once: a CV uploaded between the comparison and
  the attaching is sent in place of the one reviewed.
- `ReadyIsComplete` excepts a page that died while it was judged: a dead page shows no open
  question. Fields that fail on their own are included.
- What `Mirror` says of a sync is said of an *undisturbed* one. With an edit in between,
  two of the start-up's steps can undo it, and two pushes can arrive out of order.
- `GuessesAreBounded` bounds any span shorter than a lockout by *twice* the limit
  less one, not by the limit: a window is forgotten when it has run out, however
  recent its last failure. It speaks of every wrong guess since the client's record was
  last cleared, by index: guess `i` and guess `i + 2 * MaxFailures - 1` are at least a
  lockout apart.
- `LostRunIsReleased` lets a lost run stay active while a sender of the new process works
  on it: a human who goes on confirming rows of the run may keep it so.
- `OneCard` has to allow for rows of one key with different titles ("a scraped vs. an API
  title", `store.py:749`). The query shows one row of a key, and SQL does not say which;
  then cards of one position are merged. So a position may have no card of its own while
  a row of the same key, under the other title, has one, and the property says exactly
  that. `DroppedIsExplained` allows for the same: what accounts for a posting that a scan
  leaves out may do so through a waiting row of its position.
- `NothingLost` does not say that a record counts what was kept: records without an id are
  counted and left out (`greenhouse.py:85-99`), so the count is an upper bound. A Comeet
  token without a colon leaves no record. `boards.json` may name a board twice; the second
  answer overwrites the record, so of such a board only its presence is claimed. Workable
  and SmartRecruiters, which count in their own ways, are outside `ATS_CHANNELS`
  (`worker.py:29`) and no run asks them.
- `ScansAreStarted` is conditional: scans go on unless they are switched off or one run
  stays active for ever. `WedgedRun` is such a run, and then `stage_now`
  (`scheduler.py:128`) starts none.
- `NextScanIsFirstDue` is for days of equal length. On the night clocks go forward
  `scheduler.py:115` adds 86400 seconds to an hour past 23:00 and lands a day late.

### Fairness

`FairSpec` asks for weak fairness of each coroutine's next step (every await in
the worker ends: browser steps have hard timeouts, sleeps are finite), of a
`stage_now` and of a handler that is under way (their threads run), of the boot
(launchd's `KeepAlive`) and of the start-up. No request, poll, tick, crash, stall,
midnight or second process has to happen, so no liveness result rests on one.

`FormsFairSpec` asks that a job on a page goes on: every step of an adapter is under a
time limit and fails when it runs out. `ServiceSpec` asks that the scheduler's thread
goes on (it ticks every minute and records what it started; an exception does not end it)
and that hours pass. It does not ask that a run ends, because nothing bounds one, nor that
anybody switches the scheduler on: `ScansGoOn` names both. Naps, crashes and runs that
people start are bounded in number (`MaxUpsets`), so that it speaks of what happens once
nobody interferes.

### What the violation runs show

1. `WedgedRun` (`main.py:373`): `create_run` ignores a refusal of `start_prepare`
   (a take-over or an ending worker holds the slot). The run stays 'running' with
   nothing working on it, blocks every new run, and cannot be closed by a cancel.
2. `LateConfirm` (`main.py:438`): a confirm that meets a sender which has left its
   loop trusts it with the row; nobody sends it.
3. `SkippedSweep` (`main.py:69`): skipping the start-up sweep is not free; a row
   submitted just before the crash is submitted again with another row's confirm.
4. `RacedStart` (`run_manager.py:65`): check and publication are two critical
   sections, so the scheduler and a handler can both start.
5. `UnmirroredCv` (`cloud.py:347`): the start-up sync pushes the local row, CV hash
   included, before it compares the cloud's hash with the local one. They are equal, and
   a CV whose upload was cut short is never uploaded.

Noticed while modelling, kept in the models as the code has it, and without a run:

- Forms: text questions of a board are never filled from learned answers
  (`atsform.py:38-60`; only choices are, `:210`, `:268`), although the program's README:58-59
  speaks of answers in general. A take-over of a board's form gets the live context,
  which may be headless (`session.py:56-63`); the next headless LinkedIn job closes the
  window a take-over left (`session.py:76`). The Greenhouse submit re-fills the standard
  fields only (`greenhouse.py:183-190`). A LinkedIn submit that is not seen to succeed
  becomes needs_input. `cv_attached` is reported even when the upload failed silently.
- Postings: a batch is not compared with itself (`worker.py:95-118`); a send does not ask
  `already_sent` again (README:310 says it does); dismissing twice keeps the first
  text and address; restoring one key leaves another key's dismissal of the same posting
  (`main.py:618`); rows that are 'sending' or 'sent_unverified' do not count in dedupe.
- Cloud: an edit during the start-up sync can be overwritten (`cloud.py:305-308`); a
  failed read on a fresh device pushes an empty row; settings edited offline are not
  pushed; a restore blocks the event loop.
- Service: a cookie's `max_age` is not extended when its session slides; changing the
  passphrase is two transactions (`auth.py:51-53`); one malformed record of a board
  ends the scan (`lever.py:50`, `worker.py:82-92`); a "wall" of the score is 35 points;
  the 'end' frame may come before the run's last event; a crash between the start of a
  scan and the record of its time scans again.

## The proofs

The theorems hold for every value of the constants. About the pipeline: any number
of runs, rows, postings, coroutines and crashes, any cap; with and without the
scheduler, the second process and a busy database unless said otherwise. They assume
what the modules' `ASSUME`s say: run ids are positive naturals, the rows are a finite
set, every row has a posting, `NoTask` is no task, `Concurrency` is positive, the
switches are Booleans.

- `TypesCorrect`: `TypeOK` always holds. It is inductive as it stands, but for the
  count of live prepare coroutines, which stays a natural because the one that
  returns was idle.
- `SentStaysSent`: `SentIsFinal`. Every statement that writes `run_items.state` is
  guarded by a set of states without 'sent'.
- `EvidenceHolds` (`EvidenceForSent`) and `VerifiedIsNotLost` (`VerifiedIsRecorded`). Neither is inductive:
  a sender that waits for the answer must have submitted the row it holds
  (`ClickedIsSubmitted`), and together they are (`EvidenceInv`). The lemma
  `StepEffect` says what any step may do to a row and to a sender (`RowMove`,
  `TaskMove`), so that the invariant's own proof has no case per action.
- `DryRunsNeverSend`: `DryNeverSends`. The invariant (`ModeInv`) adds that a run, once
  it exists, keeps existing in its mode, for which a closing task must have computed
  a real status (`VerdictIsSet`), and that the handler about to start a sender works
  for a live run.
- `SlotIsRight` (`OneCoroutine`) and `CancelFindsItsRun` (`CancelReachesWorker`), if the
  scheduler is off.
  `_start` checks the slot and publishes the future in two critical sections, so the
  invariant (`SlotInv`) says who may be between them: at most one of the handlers and
  run-now (`OneStarter`), with the slot still free and its task reserved
  (`ReservedIsSubmitting`); and that the future is done unless its coroutine is on the
  loop (`FutureIsOnLoop`). Each action reserves (`ReserveKeepsSlot`), submits
  (`SubmitKeepsSlot`), works or leaves all of it alone (`QuietKeepsSlot`). With the
  scheduler on the theorem is false: `RacedStart`.
- `RowsAreOwned` (`SenderOwnsRow`), `PreparingIsWork` (`PreparingIffHeld`) and
  `OneSubmitPerConfirm` (`ConfirmPerSubmit`), if the server is alone (`ServerAlone`: the three switches off).
  `OwnerInv` is `SlotInv` and `ModeInv` with what ties a row to the coroutine that has it:
  while the server is down nothing is under way (`DownIsQuiet`); a coroutine is in its own
  code (`KindFits`) and its run shows it (`WorkingRuns`), so that the sweep after a crash
  takes exactly the runs that died; a run about to get a coroutine has none
  (`StartingFresh`); a row in hand belongs to that run and is in the state that goes with
  the place (`HeldRows`); and, the other way, a row that shows 'preparing' is in a hand or
  will be swept (`PreparingIsHeld`), one that shows 'sending' has an unused confirm, was
  just submitted, or will be swept (`SendingIsConfirmed`). The last is what makes a second
  submit impossible: after the crash the row is no sender's any more.
- `CapHolds`: `AutomaticSendsWithinCap`, if the scheduler is off. Nothing bounds a
  cardinality but the check, so `CapInv` says that past the check there is room: the
  single sender holds at most one LinkedIn row, and while it does, the count is below the
  cap (`RoomLeft`). `CapEffect` lists what a step can do to the counted set: the human's
  reports only ever add evidence that is not counted, and what comes to be counted was
  past the check.
- `PromiseIsKept`: `KeepsPromise`, if the server is alone. Step by step, from
  `OwnerInv` and `EvidenceInv`: that a row is confirmed when it is submitted, and
  submitted when it becomes sent, are the invariants' words for Lifecycle's guards.

About pages (`FormsProofs`), for any forms with any steps and fields, any numbers of jobs,
edits and failures:

- `LeftPagesAreVisible`, `OfferedIsComplete`, `NothingIsSentEarly`, `WhatWasReviewedIsSent`,
  `OutcomesAreHonest`: the five safety properties of `Forms` that the code has. None
  assumes that a site is frank, that edits wait for a page to end, or that fields do
  not fail; where one of these matters the property itself says so. `FormsInv` relates the page
  to its row (`PageFits`: a send has its row in 'sending', what it filled is what the
  handle says, a take-over's window can be seen) and every row offered or being sent to
  what was judged (`OfferedIsSound`).
- `FormsTypes`: `FormsTypeOK`. That versions stay in their range is not inductive without
  `Counted`: every value is at most one more than the edits made.

About postings (`PostingsProofs`), for any postings, boards, windows and numbers of
everything. `PostingsInv` has a part for each table (`RowsShape`, `DismissedShape`,
`RestShape`) and these:

- `ScanShape`, for `HandledIsNotOffered` (`ScanRespectsHistory`): what was settled when the scan
  began is settled still, since only the human removes anything from what counts as
  settled, and that is what the exception is.
- `SweepShape`, for `DismissedWasGone` (`ClosedWasGone`): what the sweep is about to drop was listed
  nowhere when it was probed, however long ago that was.
- `DatesShape`, for `RepostsReturn` (`RepostReturns`): no dismissal of a text blocks it longer than
  the window counted from the *last* dismissal of that text, under whichever key.
- `CardsAreUnique` (`OneCard`) needs no step: it holds of any rows. That the query has an answer
  at all is the lemma `SomeQueue`, which chooses one row of each key, then one of those of
  each position, a ready one where there is one; `CardsAre` says when the number of
  cards is 1.
- `DropsExplained` (`DroppedIsExplained`): the three ways to leave a posting out, each with
  what accounts for it. A row that holds the position and is neither closed nor offered
  has been applied to or dismissed (`WaitingIsAccounted`).
- `PostingsTypes`: `PostingsTypeOK`, with one application per key.

About the cloud (`CloudProofs`), for any number of threads, edits, restarts and requests:

- `CloudTypes`: `CloudTypeOK`. A thread's list of steps is typed because it is the rest of one
  of the six programs (`ProgramsFit`), which the code's calls spell out.
- `UndisturbedSyncMirrors` (`SyncMirrors`), `WipeIsRecovered` (`WipeRecovers`), `RestoreWins`
  (`RestoreTakesCloud`), `ExistingIsKept` (`ExistingNotClobbered`). All four follow from
  `AloneInv`: as long as nobody edits, no other thread works and no request fails, device
  and cloud are determined by what they were when the sync began and by the step it has
  come to (`Restored`, `Mirrored`), and so is what the thread has read (`Knows`). `CvInv`
  rules out the histories in which that would not be so: a hash without a file to upload
  (`CvKnown`), and a file without its hash that is not the cloud's (`HalfOf`; a restart
  between the download and the row leaves such a file). The proof of `AloneInv` also shows
  that such a sync never reaches the upload of the CV (`Last` is the twelfth of sixteen
  steps), which is what `UnmirroredCv` is about.

About the parts of `Service` (`ServiceProofs`); `ServiceNext` moves one part and leaves the
others, so each is proved about its own steps and then carried over:

- `SignedOutForGood` (`SignedOutStaysOut`): a slide of an expiry writes only to a row that is
  there (`TouchAddsNothing`), and new tokens are new.
- `GuessesTakeTime` (`GuessesAreBounded`), for any limit and lockout. `GuessInv` says where the
  client's record points in the log of its guesses: the open window is the last `n` of
  them, starts at its first, and the guesses a whole limit before it are a lockout older.
  A window is given up only when a lockout has passed since its first failure, full
  (`locked_out`) or not (`note_failure`), which is the step to the next window.
- `StreamsAreExact` (`StreamIsExact`), for any page size, any events of any runs, and any losses.
  What is on its way is a chain (`Chain`): what the page has, what is on the wire, the rows
  of the generator, each going on where the one before it ends, with no event of the run
  between two neighbours; an `end` closes the wire and only after all that was promised
  (`AllPromised`). `Places` and `InOrderIs` say what `ORDER BY id LIMIT` returns, by
  counting (the k-th id has k - 1 smaller ones) instead of by recursion.
- `PredictionIsFirstDue` (`NextScanIsFirstDue`): `FirstDue` shows it of any well-typed clock, for any
  length of the day; `ClockHand` is the arithmetic of the hour that wraps around.
- `ScansLoseNothing` (`NothingLost`): `ScanInv` ties the boards that have a record to those no
  longer on the list, but for the malformed (`AskedAreBefore`), each record of a board
  named once to the postings kept of it (`CountsFit`), and the choice to what was left
  (`PickedBest`).
- `BetterIsNeverDropped` (`VerdictIsMonotone`), for every posting there can be: it is compared
  term by term (`NoWorseScores`), gate by gate (`NoWorseKept`).
- `ServiceTypes`: the type invariants of the four parts together. The bound
  `MaxChanges` is at least one, because a server may start with a passphrase set; a list of
  boards is a sequence of boards, and each board lists postings.

Only model-checked:

- all liveness, because fairness is beyond the prover: `CancelStopsWorker`,
  `LostRunIsReleased`, `JobEnds`, `ScansAreStarted`;
- the cap with the scheduler on and one coroutine (`Volume`).

Where the scheduler is on, or the second process, or the database may be busy, the theorems
that assume otherwise say nothing, and `RacedStart` and `SkippedSweep` show that two of the
three assumptions cannot be dropped.

Every other invariant and action property of the passing runs is proved in the setting its
run checks, so that TLC's bounds matter for these two alone; what TLC adds for the others is that the model does
things (each action fires) and that each property notices a bug (the mutants).

## Not modelled

- *Tracker, statistics, reports*: notes, follow-ups and summaries; nothing of the core reads
  them back. *Web pages*, but for the `EventSource` of the run page: their requests are
  those of the handlers.
- *Migrations*: each runs once, before anything else; a single line decides whether a
  crash inside one can be repaired (it cannot, `migrations.py:250`).
- *`runner.py`'s staging*: its sweep is in `Pipeline`; its loop creates runs as `stage_now`
  does, in another process, and cancels by a flag nothing reads.
- *`setpass.py`* (the passphrase from the command line), *`close_if_idle`* (nothing else reads
  the clock it uses), *encryption* of what goes to the cloud.
- *Matching of labels, keywords and variants* (`answerbank.py`, `cv_tailor.py`, `home.py`):
  pure functions of texts, abstracted to kinds of fields and to what a posting has.
- *Version 1* (`app/`), which `cvsender` neither imports nor shares data with, and
  `scripts/`, which edit a LinkedIn profile once.

## Plan

In order of what an error would cost:

1. The ownership theorems and the refinement with the second process: say what its sweep may
   take (a send in flight, never a confirm) and prove the rest without `~RunnerOn`.
2. The cap with the scheduler on: `CapInv` for any number of senders, if the number of
   coroutines is one.
3. `runner.py:48-104` as a module next to `Scheduler`.
4. The tracker's handlers, and the migrations as a small crash model.
