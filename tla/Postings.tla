------------------------------ MODULE Postings ------------------------------
(***************************************************************************)
(* Which postings are offered: what discovery keeps (engine/worker.py), the *)
(* dedupe by key, text, address and position (channels/base.py,            *)
(* db/store.py), dismissals that expire or are restored, and the sweep that *)
(* probes old postings over the network (freshness.py), while days pass and *)
(* boards list, edit, repost and close their postings.                     *)
(*                                                                         *)
(* How a row is filled and sent is the subject of Pipeline; here it is one *)
(* step each.  'parked' stands for needs_input and failed.                 *)
(***************************************************************************)
EXTENDS Naturals, Sequences, FiniteSets, FiniteSetsExt

CONSTANTS
  Ad,                                  \* what boards may list, see AdShape
  Boards,                              \* what all boards list, day by day: see the assumption
  QueueDays, RecheckDays, BlockDays,   \* the three windows, in days
  Cap,                                 \* rows one scan may add
  MaxRows, MaxScans, MaxSweeps, MaxDay, MaxActs  \* bounds

AdShape == {"board", "id", "role", "desc", "city", "site", "tracking"}

ASSUME PostingsAssumption ==
  /\ \A a \in Ad : DOMAIN a = AdShape
  /\ Boards \subseteq [0 .. MaxDay -> Seq(Ad)]
  /\ {QueueDays, RecheckDays, BlockDays, Cap} \subseteq Nat \ {0}
  /\ {MaxRows, MaxScans, MaxSweeps, MaxDay, MaxActs} \subseteq Nat

VARIABLES
  today, boards,
  rows,        \* run_items: a sequence of records, see RowType
  applied,     \* applications: an ad per key
  dismissed,   \* dismissed: [ad, kind, until] per key
  scan,        \* the discovery loop: phase, ads to look at, ads kept
  sweep,       \* the sweep: rows of its snapshot, and the row and verdict in hand
  scans, sweeps, acts,  \* counted: scans, sweeps, human decisions
  barred,      \* history: ads handled since before the scan began
  gone,        \* history: keys probed while no board listed them
  blocked      \* history: the day a text was last dismissed

clockVars    == <<today, boards>>
boundVars    == <<scans, sweeps, acts>>
historyVars  == <<barred, gone, blocked>>
postingsVars == <<clockVars, rows, applied, dismissed, scan, sweep, boundVars, historyVars>>

----------------------------------------------------------------------------
(* what a posting is recognised by *)

\* The key of a posting, of which the board gives the id.
DedupeKey(a)   == <<a.board, a.id>>
\* The employer, the title and the start of the description.
ContentHash(a) == <<a.role, a.desc>>
\* The employer, the title and the city: one real position.
Identity(a)    == <<a.role, a.city>>

\* Mutant of CanonicalUrl: tracking parameters stay.
CanonicalUrlRaw(a) == <<a.site, a.tracking>>

\* Tracking parameters, fragments and case are dropped.
CanonicalUrl(a) == <<a.site>>

Key  == {DedupeKey(a) : a \in Ad}
Text == {ContentHash(a) : a \in Ad}
Row  == DOMAIN rows

RowStates == {"queued", "ready", "parked", "sending", "sent", "unverified", "skipped"}
Waiting   == {"ready", "parked"}
Liveness  == {"active", "closed", "unknown"}
Never     == MaxDay + BlockDays + 1    \* later than any day

RowType == [ad : Ad, state : RowStates, liveness : Liveness, run : 1 .. MaxScans,
            updated : 0 .. MaxDay, seen : 0 .. MaxDay, checked : BOOLEAN]
listed == boards[today]

NotDismissed == [kind |-> "none"]
Dismissal == [ad : Ad, kind : {"unavailable", "closed"}, until : 0 .. Never]

NoScan  == [phase |-> "off", todo |-> <<>>, kept |-> {}]
NoSweep == [todo |-> {}, at |-> "idle", row |-> 0, verdict |-> "unknown"]

PostingsTypeOK ==
  /\ today \in 0 .. MaxDay /\ boards \in Boards
  /\ Len(rows) <= MaxRows /\ \A i \in Row : rows[i] \in RowType
  /\ applied \subseteq Ad
  /\ \A a, b \in applied : DedupeKey(a) = DedupeKey(b) => a = b
  /\ DOMAIN dismissed = Key
  /\ \A k \in Key : dismissed[k] = NotDismissed \/ dismissed[k] \in Dismissal
  /\ scan.phase \in {"off", "judge", "add"} /\ scan.todo \in Seq(Ad) /\ scan.kept \subseteq Ad
  /\ sweep.at \in {"idle", "probe", "record", "dismiss", "skip"}
  /\ sweep.todo \subseteq Row /\ sweep.verdict \in Liveness /\ sweep.row \in Row \cup {0}
  /\ scans \in 0 .. MaxScans /\ sweeps \in 0 .. MaxSweeps /\ acts \in 0 .. MaxActs
  /\ barred \subseteq Ad /\ gone \subseteq Key
  /\ blocked \in [Text -> 0 .. Never]

PostingsInit ==
  /\ today = 0 /\ boards \in Boards
  /\ rows = <<>> /\ applied = {}
  /\ dismissed = [k \in Key |-> NotDismissed]
  /\ scan = NoScan /\ sweep = NoSweep
  /\ scans = 0 /\ sweeps = 0 /\ acts = 0
  /\ barred = {} /\ gone = {} /\ blocked = [x \in Text |-> Never]

----------------------------------------------------------------------------
(* the queries *)

\* An application with this key, or with this text.
AlreadySent(a) ==
  \E b \in applied : DedupeKey(a) = DedupeKey(b) \/ ContentHash(a) = ContentHash(b)

Dismissals == {dismissed[k] : k \in {j \in Key : dismissed[j] # NotDismissed}}

\* Mutant of IsDismissed: a text blocks for ever.
IsDismissedForever(a) ==
  \E d \in Dismissals :
    \/ DedupeKey(d.ad) = DedupeKey(a)
    \/ CanonicalUrl(d.ad) = CanonicalUrl(a)
    \/ ContentHash(d.ad) = ContentHash(a)

\* The key or the address, for ever; the text, until it expires.
IsDismissed(a) ==
  \E d \in Dismissals :
    \/ DedupeKey(d.ad) = DedupeKey(a)
    \/ CanonicalUrl(d.ad) = CanonicalUrl(a)
    \/ ContentHash(d.ad) = ContentHash(a) /\ d.until > today

AlreadyHandled(a) == AlreadySent(a) \/ IsDismissed(a)

Recent(r) == r.updated + QueueDays >= today

WaitingInQueue(a) ==
  \E i \in Row : /\ DedupeKey(rows[i].ad) = DedupeKey(a)
                 /\ rows[i].state \in Waiting /\ Recent(rows[i])

\* Mutant of IdentityInQueue: a closed row holds its position.
IdentityInQueueAny(a) ==
  \E i \in Row : /\ Identity(rows[i].ad) = Identity(a)
                 /\ rows[i].state \in Waiting /\ Recent(rows[i])

\* Unlike the key, a position is not held by a row whose posting is closed.
IdentityInQueue(a) ==
  \E i \in Row : /\ Identity(rows[i].ad) = Identity(a)
                 /\ rows[i].state \in Waiting /\ Recent(rows[i])
                 /\ rows[i].liveness # "closed"

\* The rows a human can finish: not applied to, not dismissed, not closed.
Finishable ==
  {i \in Row : LET r == rows[i] IN
     /\ r.state \in Waiting /\ r.liveness # "closed"
     /\ \A a \in applied : DedupeKey(a) # DedupeKey(r.ad)
     /\ dismissed[DedupeKey(r.ad)] = NotDismissed}

\* GROUP BY dedupe_key: one row of each key, whichever the database takes.
PerKey ==
  {p \in SUBSET Finishable :
     \A i \in Finishable : Quantify(p, LAMBDA j : DedupeKey(rows[j].ad) = DedupeKey(rows[i].ad)) = 1}

CardsFor(i, q) == Quantify(q, LAMBDA j : Identity(rows[j].ad) = Identity(rows[i].ad))

\* Mutant of AssistQueues: positions are not collapsed.
AssistQueuesByKey == PerKey

\* What the query may answer: of those rows the first of each position, ready
\* ones first; the scores decide among equals and are left open.
AssistQueues ==
  {q \in SUBSET Finishable : \E p \in PerKey :
     /\ q \subseteq p
     /\ \A i \in p : CardsFor(i, q) = 1
     /\ \A i \in p : rows[i].state = "ready" =>
          \E j \in q : Identity(rows[i].ad) = Identity(rows[j].ad) /\ rows[j].state = "ready"}

----------------------------------------------------------------------------
(* discovery *)

\* What a human or an earlier run has settled about an ad, whatever the code asks.
Settled(a, apps, dis) ==
  \/ \E b \in apps : DedupeKey(a) = DedupeKey(b) \/ ContentHash(a) = ContentHash(b)
  \/ \E k \in Key : dis[k] # NotDismissed /\ (k = DedupeKey(a) \/ dis[k].ad.site = a.site)

StartScan ==
  /\ scans < MaxScans /\ scans' = scans + 1
  /\ scan.phase = "off"
  /\ scan' = [NoScan EXCEPT !.phase = "judge", !.todo = listed]
  /\ barred' = {a \in Ad : Settled(a, applied, dismissed)}
  /\ UNCHANGED <<clockVars, rows, applied, dismissed, sweep, sweeps, acts, gone, blocked>>

\* Still listed: every row of this key is live, whatever a probe said.
TouchSeen(a) ==
  [i \in Row |-> IF DedupeKey(rows[i].ad) = DedupeKey(a)
                   THEN [rows[i] EXCEPT !.seen = today, !.liveness = "active"] ELSE rows[i]]

\* One ad of the batch; what other ads of the batch were kept is not looked at.
Judge(a) ==
  LET waits == ~AlreadyHandled(a) /\ WaitingInQueue(a)
      keep  == ~AlreadyHandled(a) /\ ~WaitingInQueue(a) /\ ~IdentityInQueue(a)
  IN  /\ scan.phase = "judge" /\ scan.todo # <<>> /\ a = Head(scan.todo)
      /\ scan' = [scan EXCEPT !.todo = Tail(@), !.kept = IF keep THEN @ \cup {a} ELSE @]
      /\ rows' = IF waits THEN TouchSeen(a) ELSE rows
      /\ UNCHANGED <<clockVars, applied, dismissed, sweep, boundVars, historyVars>>

\* The best `Cap` of them; which are the best is left open.
Select ==
  /\ scan.phase = "judge" /\ scan.todo = <<>>
  /\ \E s \in kSubset(Min({Cap, Cardinality(scan.kept)}), scan.kept) :
       scan' = IF s = {} THEN NoScan ELSE [NoScan EXCEPT !.phase = "add", !.kept = s]
  /\ UNCHANGED <<clockVars, rows, applied, dismissed, sweep, boundVars, historyVars>>

NewRow(a) == [ad |-> a, state |-> "queued", liveness |-> "active", run |-> scans,
              updated |-> today, seen |-> today, checked |-> FALSE]

\* INSERT OR IGNORE: one row per run and key.
AddItem(a) ==
  /\ scan.phase = "add" /\ a \in scan.kept
  /\ scan' = IF scan.kept = {a} THEN NoScan ELSE [scan EXCEPT !.kept = @ \ {a}]
  /\ IF \E i \in Row : rows[i].run = scans /\ DedupeKey(rows[i].ad) = DedupeKey(a)
       THEN UNCHANGED rows
       ELSE Len(rows) < MaxRows /\ rows' = Append(rows, NewRow(a))
  /\ UNCHANGED <<clockVars, applied, dismissed, sweep, boundVars, historyVars>>

----------------------------------------------------------------------------
(* the sweep *)

\* Old, not known to be closed, and not probed within a day (`checked`).
NeedsCheck(r) ==
  /\ r.liveness # "closed" /\ ~r.checked
  /\ r.seen + RecheckDays < today

\* On the scheduler's thread, while the run manager has nothing to do.
StartSweep ==
  /\ sweeps < MaxSweeps /\ sweeps' = sweeps + 1
  /\ sweep.at = "idle" /\ scan.phase = "off"
  /\ \E q \in AssistQueues :
       LET old == {i \in q : NeedsCheck(rows[i])}
       IN old # {} /\ sweep' = [NoSweep EXCEPT !.at = "probe", !.todo = old]
  /\ UNCHANGED <<clockVars, rows, applied, dismissed, scan, scans, acts, historyVars>>

\* Mutant of Classify: an error of the board is an answer about the posting.
ClassifyAny(r) ==
  IF r.status # 200 \/ r.goneText THEN "closed"
  ELSE IF r.place = "elsewhere" THEN "unknown" ELSE "active"

\* Gone by its status, by what the page says, or by a redirect to the board's root.
Classify(r) ==
  IF r.status \in {404, 410} THEN "closed"
  ELSE IF r.status \in {0, 403, 429, 500} THEN "unknown"
  ELSE IF r.goneText \/ r.place = "root" THEN "closed"
  ELSE IF r.place = "elsewhere" \/ r.status # 200 THEN "unknown"
  ELSE "active"

Answer == [status : {0, 200, 301, 403, 404, 410, 429, 500}, goneText : BOOLEAN,
           place : {"posting", "root", "elsewhere"}]
IsListed(a) == \E n \in DOMAIN listed : DedupeKey(listed[n]) = DedupeKey(a)

\* What a board answers: only a posting that is gone is said to be, but a board
\* that is unwell, or that asks for a login, may answer anything else.
AnswersFor(a) ==
  IF IsListed(a)
    THEN {r \in Answer : r.status \notin {404, 410} /\ ~r.goneText /\ r.place # "root"}
    ELSE Answer

\* The rows of the snapshot, which may have changed since, one after the other.
Probe(i) ==
  /\ sweep.at = "probe" /\ i \in sweep.todo
  /\ \E v \in {Classify(r) : r \in AnswersFor(rows[i].ad)} :
       sweep' = [todo |-> sweep.todo \ {i}, at |-> "record", row |-> i, verdict |-> v]
  /\ gone' = IF IsListed(rows[i].ad) THEN gone ELSE gone \cup {DedupeKey(rows[i].ad)}
  /\ UNCHANGED <<clockVars, rows, applied, dismissed, scan, boundVars, barred, blocked>>

NextProbe == IF sweep.todo = {} THEN NoSweep
             ELSE [sweep EXCEPT !.at = "probe", !.row = 0, !.verdict = "unknown"]

SetLiveness ==
  /\ sweep.at = "record"
  /\ rows' = [rows EXCEPT ![sweep.row].liveness = sweep.verdict, ![sweep.row].checked = TRUE]
  /\ sweep' = IF sweep.verdict = "closed" THEN [sweep EXCEPT !.at = "dismiss"] ELSE NextProbe
  /\ UNCHANGED <<clockVars, applied, dismissed, scan, boundVars, historyVars>>

\* A row per key: a second dismissal renews the kind and the date, and keeps the
\* text and the address of the first.
Dismiss(a, kind) ==
  LET d == dismissed[DedupeKey(a)]
      first == IF d = NotDismissed THEN a ELSE d.ad
  IN  /\ dismissed' = [dismissed EXCEPT ![DedupeKey(a)] =
                         [ad |-> first, kind |-> kind, until |-> today + BlockDays]]
      /\ blocked' = [blocked EXCEPT ![ContentHash(first)] = today]

DismissClosed ==
  /\ sweep.at = "dismiss"
  /\ Dismiss(rows[sweep.row].ad, "closed")
  /\ sweep' = [sweep EXCEPT !.at = "skip"]
  /\ UNCHANGED <<clockVars, rows, applied, scan, boundVars, barred, gone>>

SkipClosed ==
  /\ sweep.at = "skip"
  /\ rows' = IF rows[sweep.row].state \in Waiting
               THEN [rows EXCEPT ![sweep.row].state = "skipped", ![sweep.row].updated = today]
               ELSE rows
  /\ sweep' = NextProbe
  /\ UNCHANGED <<clockVars, applied, dismissed, scan, boundVars, historyVars>>

----------------------------------------------------------------------------
(* the life of a row, and the human *)

Act == acts < MaxActs /\ acts' = acts + 1

Becomes(i, s) == rows' = [rows EXCEPT ![i].state = s, ![i].updated = today]

Prepare(i) ==
  /\ rows[i].state = "queued"
  /\ \E s \in {"ready", "parked"} : Becomes(i, s)
  /\ UNCHANGED <<clockVars, applied, dismissed, scan, sweep, boundVars, historyVars>>

\* One row, or every ready row of its run, one after the other.
Confirm(i) ==
  /\ Act
  /\ rows[i].state = "ready" /\ Becomes(i, "sending")
  /\ UNCHANGED <<clockVars, applied, dismissed, scan, sweep, scans, sweeps, historyVars>>

\* Mutant of RecordApplication: a second row for a key.
RecordApplicationAgain(a) == applied' = applied \cup {a}

\* ON CONFLICT(dedupe_key) DO NOTHING.
RecordApplication(a) ==
  applied' = IF \E b \in applied : DedupeKey(b) = DedupeKey(a) THEN applied ELSE applied \cup {a}

\* The form is submitted and the submit is seen.
SendVerified(i) ==
  /\ rows[i].state = "sending" /\ Becomes(i, "sent")
  /\ RecordApplication(rows[i].ad)
  /\ UNCHANGED <<clockVars, dismissed, scan, sweep, boundVars, historyVars>>

\* It is submitted unseen, or it is not submitted.
SendOther(i) ==
  /\ rows[i].state = "sending"
  /\ \E s \in {"unverified", "parked"} : Becomes(i, s)
  /\ UNCHANGED <<clockVars, applied, dismissed, scan, sweep, boundVars, historyVars>>

\* Recorded even if the row is in no state the update accepts.
MarkSent(i) ==
  /\ Act
  /\ rows[i].state # "sent"
  /\ IF rows[i].state \in Waiting \cup {"sending", "unverified"} THEN Becomes(i, "sent")
     ELSE UNCHANGED rows
  /\ RecordApplication(rows[i].ad)
  /\ UNCHANGED <<clockVars, dismissed, scan, sweep, scans, sweeps, historyVars>>

MarkUnavailable(i) ==
  /\ Act
  /\ Dismiss(rows[i].ad, "unavailable")
  /\ IF rows[i].state \in Waiting \cup {"sending", "unverified"} THEN Becomes(i, "skipped")
     ELSE UNCHANGED rows
  /\ UNCHANGED <<clockVars, applied, scan, sweep, scans, sweeps, barred, gone>>

SkipItem(i) ==
  /\ Act
  /\ rows[i].state \in Waiting /\ Becomes(i, "skipped")
  /\ UNCHANGED <<clockVars, applied, dismissed, scan, sweep, scans, sweeps, historyVars>>

\* The row of this key is deleted; a row of another key with the same text or
\* address goes on blocking.
RestoreDismissed(k) ==
  /\ Act
  /\ dismissed[k] # NotDismissed
  /\ dismissed' = [dismissed EXCEPT ![k] = NotDismissed]
  /\ barred' = {a \in barred : Settled(a, applied, dismissed')}
  /\ UNCHANGED <<clockVars, rows, applied, scan, sweep, scans, sweeps, gone, blocked>>

\* A day passes, and the boards list what they list.  A probe counts for a day.
NextDay ==
  /\ today < MaxDay /\ today' = today + 1
  /\ rows' = [i \in Row |-> [rows[i] EXCEPT !.checked = FALSE]]
  /\ UNCHANGED <<boards, applied, dismissed, scan, sweep, boundVars, historyVars>>

\* The process starts again between two writes of a scan or of a sweep.
RestartServer ==
  /\ scan.phase = "add" \/ sweep # NoSweep
  /\ scan' = NoScan /\ sweep' = NoSweep
  /\ UNCHANGED <<clockVars, rows, applied, dismissed, boundVars, historyVars>>

SweepStep == (\E i \in Row : Probe(i)) \/ SetLiveness \/ DismissClosed \/ SkipClosed
ScanStep  == (\E a \in Ad : Judge(a) \/ AddItem(a)) \/ Select

HumanStep(i) ==
  \/ Confirm(i) \/ MarkSent(i) \/ MarkUnavailable(i) \/ SkipItem(i)

PostingsNext ==
  \/ StartScan \/ ScanStep \/ StartSweep \/ SweepStep
  \/ \E i \in Row : Prepare(i) \/ SendVerified(i) \/ SendOther(i) \/ HumanStep(i)
  \/ \E k \in Key : RestoreDismissed(k)
  \/ NextDay \/ RestartServer

PostingsSpec == PostingsInit /\ [][PostingsNext]_postingsVars

----------------------------------------------------------------------------
(* What deduplication, dismissal and the sweep are for. *)

\* "will now be skipped forever" (tests/test_dismiss.py:30), "only a verified
\* send is terminal" (README.md:47): a posting that was applied to, by key or by
\* text, or dismissed, by key or by address, when a scan began is never kept by
\* that scan, unless the human restores it meanwhile.
ScanRespectsHistory == scan.kept \cap barred = {}

\* "so a genuine repost under a new id resurfaces" (store.py:293): once the window
\* since the last dismissal of its text is over, a posting with another key and
\* address that was never applied to is not handled any more.
RepostReturns ==
  \A a \in Ad : /\ ~Settled(a, applied, dismissed)
                /\ blocked[ContentHash(a)] = Never \/ blocked[ContentHash(a)] + BlockDays <= today
                => ~AlreadyHandled(a)

\* "A 500 or a rate limit must never dismiss a job" (tests/test_freshness.py:133):
\* what the sweep dismissed was listed by no board when it was probed.
ClosedWasGone ==
  \A k \in Key : dismissed[k] # NotDismissed /\ dismissed[k].kind = "closed" => k \in gone

\* "One real position, one card", of rows of one key "with slightly different titles"
\* too (store.py:748): the query has an answer; whichever it is, no position has two
\* cards, and no posting that waits is without one, its own or that of a row of its key.
OneCard ==
  /\ AssistQueues # {}
  /\ \A q \in AssistQueues : \A i \in Finishable :
       /\ CardsFor(i, q) <= 1
       /\ \E j \in Finishable : DedupeKey(rows[j].ad) = DedupeKey(rows[i].ad) /\ CardsFor(j, q) = 1

Like(a, b) == \/ DedupeKey(a) = DedupeKey(b) \/ ContentHash(a) = ContentHash(b)
              \/ CanonicalUrl(a) = CanonicalUrl(b) \/ Identity(a) = Identity(b)

\* Something like it was applied to or dismissed, or waits, and so has a card.
Accounted(a) == \/ \E b \in applied : Like(a, b)
                \/ \E d \in Dismissals : Like(a, d.ad)
                \/ \E i \in Finishable : Like(a, rows[i].ad)

\* Why a scan may leave a posting out: it, or a waiting row of its position, is accounted for.
Explained(a) ==
  \/ Accounted(a)
  \/ \E i \in Row : /\ rows[i].state \in Waiting /\ Identity(rows[i].ad) = Identity(a)
                   /\ Accounted(rows[i].ad)

\* A posting that discovery drops is accounted for: it, its text, its address or
\* its position was applied to or dismissed, or is shown to the human.
DroppedIsExplained ==
  [][\A a \in Ad : Judge(a) /\ a \notin scan.kept' => Explained(a)']_postingsVars
=============================================================================
