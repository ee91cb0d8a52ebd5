--------------------------- MODULE PostingsProofs ---------------------------
(***************************************************************************)
(* What discovery, the sweep and the queue of cards promise, for any       *)
(* postings, any days on which boards list them, any windows and any       *)
(* number of scans, sweeps and decisions.                                  *)
(*                                                                         *)
(* The inductive invariant has a part for each table, one for what the     *)
(* sweep has in hand, and one for what was settled when a scan began.      *)
(***************************************************************************)
EXTENDS Postings, FiniteSetTheorems, TLAPS

ScanRecord  == [phase : {"off", "judge", "add"}, todo : Seq(Ad), kept : SUBSET Ad]
SweepRecord == [todo : SUBSET Nat, at : {"idle", "probe", "record", "dismiss", "skip"},
                row : Nat, verdict : Liveness]

RowsShape ==
  /\ today \in 0 .. MaxDay
  /\ rows \in Seq(RowType) /\ Len(rows) <= MaxRows

\* What the sweep has in hand is a row, and what it is about to drop was not listed
\* when it was probed.
SweepShape ==
  /\ sweep \in SweepRecord /\ sweep.todo \subseteq Row
  /\ sweep.row \in Row \cup {0}
  /\ sweep.at \in {"record", "dismiss", "skip"} => sweep.row \in Row
  /\ \/ sweep.at = "record" /\ sweep.verdict = "closed"
     \/ sweep.at \in {"dismiss", "skip"}
     => DedupeKey(rows[sweep.row].ad) \in gone

\* A dismissal is filed under the key of its posting; one that says closed is of a
\* posting that was gone.
DismissedShape ==
  /\ DOMAIN dismissed = Key
  /\ \A k \in Key : \/ dismissed[k] = NotDismissed
                    \/ /\ dismissed[k].ad \in Ad /\ DedupeKey(dismissed[k].ad) = k
                       /\ dismissed[k].kind = "closed" => k \in gone

\* The day a text was last dismissed is past, and no dismissal of that text blocks it
\* for longer than the window from that day.
DatesShape ==
  /\ blocked \in [Text -> 0 .. Never]
  /\ \A x \in Text : blocked[x] # Never => blocked[x] <= today
  /\ \A k \in Key : dismissed[k] # NotDismissed =>
       LET d == dismissed[k] IN
       /\ d \in Dismissal /\ blocked[ContentHash(d.ad)] # Never
       /\ d.until <= blocked[ContentHash(d.ad)] + BlockDays

\* One application per key, and what is only counted or looked at.
RestShape ==
  /\ \A a, b \in applied : DedupeKey(a) = DedupeKey(b) => a = b
  /\ boards \in Boards /\ gone \subseteq Key
  /\ sweeps \in 0 .. MaxSweeps /\ acts \in 0 .. MaxActs

\* A scan is one of those that were counted.
ScanTyped ==
  /\ scan \in ScanRecord /\ scans \in 0 .. MaxScans
  /\ scan.phase # "off" => scans # 0

\* While a scan judges, what was settled when it began is settled still, unless the
\* human restored it.
ScanShape ==
  /\ applied \subseteq Ad /\ barred \subseteq Ad
  /\ scan.phase = "judge" => \A a \in barred : Settled(a, applied, dismissed)
  /\ ScanRespectsHistory

PostingsInv ==
  /\ RowsShape /\ SweepShape /\ DismissedShape /\ DatesShape /\ RestShape
  /\ ScanTyped /\ ScanShape

\* Rows are added at the end, and keep their posting.
RowsKept ==
  /\ rows' \in Seq(RowType) /\ Len(rows') >= Len(rows) /\ Len(rows') <= MaxRows
  /\ \A i \in Row : rows'[i].ad = rows[i].ad

----------------------------------------------------------------------------
(* the rows *)

LEMMA SameRows ==
  ASSUME RowsShape, UNCHANGED rows
  PROVE  RowsKept
BY DEF RowsKept, RowsShape, Row

LEMMA BecomesKeepsRows ==
  ASSUME RowsShape, NEW i \in Row, NEW s \in RowStates, Becomes(i, s)
  PROVE  RowsKept
<1> USE DEF Row
<1> DEFINE r == [rows[i] EXCEPT !.state = s, !.updated = today]
<1>1. /\ rows \in Seq(RowType) /\ Len(rows) <= MaxRows
      /\ rows[i] \in RowType /\ today \in 0 .. MaxDay
  BY DEF RowsShape
<1>2. r \in RowType /\ r.ad = rows[i].ad
  BY <1>1 DEF RowType
<1>3. rows' = [rows EXCEPT ![i] = r]
  BY DEF Becomes
<1> HIDE DEF r
<1>4. rows' \in Seq(RowType) /\ Len(rows') = Len(rows)
  BY <1>1, <1>2, <1>3
<1>5. \A j \in Row : rows'[j].ad = rows[j].ad
  BY <1>1, <1>2, <1>3
<1> QED
  BY <1>1, <1>4, <1>5 DEF RowsKept

LEMMA ScanKeepsRows ==
  ASSUME RowsShape, ScanTyped, NEW a \in Ad, Judge(a) \/ AddItem(a)
  PROVE  RowsKept
<1> USE DEF Row
<1>1. /\ rows \in Seq(RowType) /\ Len(rows) <= MaxRows
      /\ today \in 0 .. MaxDay /\ scans \in 0 .. MaxScans /\ {MaxDay, MaxScans, MaxRows} \subseteq Nat
  BY PostingsAssumption DEF RowsShape, ScanTyped
<1>2. CASE rows' = TouchSeen(a)
  <2> DEFINE f(i) == IF DedupeKey(rows[i].ad) = DedupeKey(a)
                       THEN [rows[i] EXCEPT !.seen = today, !.liveness = "active"] ELSE rows[i]
  <2>1. ASSUME NEW i \in Row PROVE f(i) \in RowType /\ f(i).ad = rows[i].ad
    <3>1. rows[i] \in RowType
      BY <1>1
    <3> DEFINE seen == [rows[i] EXCEPT !.seen = today, !.liveness = "active"]
    <3>2. seen \in RowType /\ seen.ad = rows[i].ad
      BY <1>1, <3>1 DEF RowType, Liveness
    <3> HIDE DEF seen
    <3>3. f(i) \in {seen, rows[i]}
      BY DEF seen
    <3> HIDE DEF f
    <3> QED
      BY <3>1, <3>2, <3>3
  <2>2. rows' = [i \in Row |-> f(i)]
    BY <1>2, Zenon DEF TouchSeen
  <2>3. Row = 1 .. Len(rows)
    BY <1>1
  <2> HIDE DEF f
  <2> QED
    BY <1>1, <2>1, <2>2, <2>3 DEF RowsKept
<1>3. CASE rows' = Append(rows, NewRow(a)) /\ scan.phase = "add" /\ Len(rows) < MaxRows
  <2>1. scans \in 1 .. MaxScans
    BY <1>1, <1>3 DEF ScanTyped
  <2>2. NewRow(a) \in RowType
    BY <1>1, <2>1 DEF NewRow, RowType, RowStates, Liveness
  <2> QED
    BY <1>1, <1>3, <2>2 DEF RowsKept
<1> QED
  BY <1>2, <1>3, SameRows DEF Judge, AddItem

LEMMA SweepKeepsRows ==
  ASSUME RowsShape, SweepShape, SetLiveness \/ SkipClosed
  PROVE  RowsKept
<1> USE DEF Row
<1> DEFINE s == sweep.row
<1>1. /\ rows \in Seq(RowType) /\ Len(rows) <= MaxRows /\ rows[s] \in RowType
      /\ today \in 0 .. MaxDay /\ s \in Row /\ sweep.verdict \in Liveness
  BY DEF RowsShape, SweepShape, SweepRecord, SetLiveness, SkipClosed
<1> DEFINE r1 == [rows[s] EXCEPT !.liveness = sweep.verdict, !.checked = TRUE]
           r2 == [rows[s] EXCEPT !.state = "skipped", !.updated = today]
<1>2. r1 \in RowType /\ r1.ad = rows[s].ad
  BY <1>1 DEF RowType
<1>3. r2 \in RowType /\ r2.ad = rows[s].ad
  BY <1>1 DEF RowType, RowStates
<1>4. rows' = [rows EXCEPT ![s] = r1] \/ rows' = [rows EXCEPT ![s] = r2] \/ rows' = rows
  BY DEF SetLiveness, SkipClosed
<1> HIDE DEF s, r1, r2
<1> QED
  BY <1>1, <1>2, <1>3, <1>4 DEF RowsKept

LEMMA DayKeepsRows ==
  ASSUME RowsShape, NextDay
  PROVE  RowsKept
<1> USE DEF Row
<1>1. rows \in Seq(RowType) /\ Len(rows) <= MaxRows
  BY DEF RowsShape
<1> DEFINE f(i) == [rows[i] EXCEPT !.checked = FALSE]
<1>2. ASSUME NEW i \in Row PROVE f(i) \in RowType /\ f(i).ad = rows[i].ad
  <2>1. rows[i] \in RowType
    BY <1>1
  <2> QED
    BY <2>1 DEF RowType
<1>3. rows' = [i \in Row |-> f(i)] /\ Row = 1 .. Len(rows)
  BY <1>1 DEF NextDay
<1> HIDE DEF f
<1> QED
  BY <1>1, <1>2, <1>3 DEF RowsKept

\* Every step keeps the rows there are.
LEMMA StepKeepsRows ==
  ASSUME RowsShape, SweepShape, ScanTyped, PostingsNext
  PROVE  RowsKept /\ RowsShape'
<1>1. CASE StartScan \/ Select \/ StartSweep \/ DismissClosed \/ RestartServer
  <2>1. UNCHANGED <<rows, today>>
    BY <1>1 DEF StartScan, Select, StartSweep, DismissClosed, RestartServer, clockVars, boundVars
  <2> QED
    BY <2>1, SameRows DEF RowsKept, RowsShape
<1>2. ASSUME NEW a \in Ad, Judge(a) \/ AddItem(a) PROVE RowsKept /\ RowsShape'
  BY <1>2, ScanKeepsRows DEF Judge, AddItem, RowsKept, RowsShape, clockVars, boundVars
<1>3. ASSUME NEW i \in Row, Probe(i) PROVE RowsKept /\ RowsShape'
  BY <1>3, SameRows DEF Probe, RowsKept, RowsShape, clockVars, boundVars
<1>4. CASE SetLiveness \/ SkipClosed
  BY <1>4, SweepKeepsRows DEF SetLiveness, SkipClosed, RowsKept, RowsShape, clockVars, boundVars
<1>5. ASSUME NEW i \in Row, Prepare(i) \/ SendVerified(i) \/ SendOther(i) PROVE RowsKept /\ RowsShape'
  <2>1. RowsKept
    BY <1>5, BecomesKeepsRows DEF Prepare, SendVerified, SendOther, RowStates
  <2> QED
    BY <1>5, <2>1 DEF Prepare, SendVerified, SendOther, RowsKept, RowsShape, clockVars, boundVars
<1>6. ASSUME NEW i \in Row, HumanStep(i) PROVE RowsKept /\ RowsShape'
  <2>1. RowsKept
    BY <1>6, BecomesKeepsRows, SameRows
       DEF HumanStep, Confirm, MarkSent, MarkUnavailable, SkipItem, RowStates
  <2> QED
    BY <1>6, <2>1 DEF HumanStep, Confirm, MarkSent, MarkUnavailable, SkipItem, RowsKept,
                      RowsShape, clockVars
<1>7. ASSUME NEW k \in Key, RestoreDismissed(k) PROVE RowsKept /\ RowsShape'
  BY <1>7, SameRows DEF RestoreDismissed, RowsKept, RowsShape, clockVars
<1>8. CASE NextDay
  <2>1. today \in 0 .. MaxDay /\ today < MaxDay /\ today' = today + 1
    BY <1>8 DEF NextDay, RowsShape
  <2>2. today' \in 0 .. MaxDay
    BY <2>1, PostingsAssumption
  <2> QED
    BY <1>8, <2>2, DayKeepsRows DEF RowsKept, RowsShape
<1> QED
  BY <1>1, <1>2, <1>3, <1>4, <1>5, <1>6, <1>7, <1>8 DEF PostingsNext, ScanStep, SweepStep

----------------------------------------------------------------------------
(* the sweep *)

\* A board that lists a posting gives no answer that closes it.
LEMMA ListedIsNotClosed ==
  ASSUME NEW a, NEW r \in AnswersFor(a), Classify(r) = "closed"
  PROVE  ~IsListed(a)
BY DEF AnswersFor, Classify, Answer

LEMMA SweepStepKeeps ==
  ASSUME RowsShape, SweepShape, RowsKept, SweepStep
  PROVE  SweepShape'
<1> USE DEF SweepShape, Row
<1>1. /\ Row \subseteq Nat /\ Row \subseteq Row'
      /\ \A i \in Row : rows'[i].ad = rows[i].ad
  BY DEF RowsShape, RowsKept
<1>2. NoSweep \in SweepRecord /\ NoSweep.at = "idle"
      /\ NoSweep.todo = {} /\ NoSweep.row = 0
  BY DEF NoSweep, SweepRecord, Liveness
<1>3. ASSUME sweep' = NextProbe PROVE SweepShape'
  <2>1. CASE sweep.todo = {}
    BY <1>2, <1>3, <2>1 DEF NextProbe
  <2>2. CASE sweep.todo # {}
    <3>1. sweep' = [sweep EXCEPT !.at = "probe", !.row = 0, !.verdict = "unknown"]
      BY <1>3, <2>2 DEF NextProbe
    <3>2. /\ sweep' \in SweepRecord /\ sweep'.at = "probe"
          /\ sweep'.todo = sweep.todo /\ sweep'.row = 0
      BY <3>1 DEF SweepRecord, Liveness
    <3> QED
      BY <1>1, <3>2
  <2> QED
    BY <2>1, <2>2
<1>4. ASSUME NEW i \in Row, Probe(i) PROVE SweepShape'
  <2>1. PICK v \in {Classify(r) : r \in AnswersFor(rows[i].ad)} :
          sweep' = [todo |-> sweep.todo \ {i}, at |-> "record", row |-> i, verdict |-> v]
    BY <1>4 DEF Probe
  <2>2. v \in Liveness /\ (v = "closed" => ~IsListed(rows[i].ad))
    BY <2>1, ListedIsNotClosed DEF Classify, Liveness
  <2>3. v = "closed" => DedupeKey(rows[i].ad) \in gone'
    BY <1>4, <2>2 DEF Probe
  <2>4. sweep' \in SweepRecord
    BY <1>1, <2>1, <2>2 DEF SweepRecord
  <2> QED
    BY <1>1, <2>1, <2>3, <2>4 DEF DedupeKey
<1>5. CASE SetLiveness
  <2>1. gone' = gone /\ sweep.at = "record"
    BY <1>5 DEF SetLiveness, historyVars
  <2>2. CASE sweep.verdict = "closed"
    <3>1. sweep' = [sweep EXCEPT !.at = "dismiss"]
      BY <1>5, <2>2 DEF SetLiveness
    <3>2. sweep' \in SweepRecord /\ sweep'.row = sweep.row /\ sweep'.todo = sweep.todo
      BY <3>1 DEF SweepRecord
    <3> QED
      BY <1>1, <2>1, <2>2, <3>2
  <2>3. CASE sweep.verdict # "closed"
    BY <1>3, <1>5, <2>3 DEF SetLiveness
  <2> QED
    BY <2>2, <2>3
<1>6. CASE DismissClosed
  <2>1. gone' = gone /\ sweep.at = "dismiss" /\ sweep' = [sweep EXCEPT !.at = "skip"]
    BY <1>6 DEF DismissClosed
  <2>2. sweep' \in SweepRecord /\ sweep'.row = sweep.row /\ sweep'.todo = sweep.todo
    BY <2>1 DEF SweepRecord
  <2> QED
    BY <1>1, <2>1, <2>2
<1>7. CASE SkipClosed
  BY <1>3, <1>7 DEF SkipClosed
<1> QED
  BY <1>4, <1>5, <1>6, <1>7 DEF SweepStep

\* Whatever else goes on, the sweep's rows are there, and a posting that was gone
\* when it was probed remains one that was.
LEMMA StepKeepsSweep ==
  ASSUME RowsShape, SweepShape, RowsKept, PostingsNext
  PROVE  SweepShape'
<1> USE DEF SweepShape
<1>1. /\ Row \subseteq Nat /\ Row \subseteq Row'
      /\ \A i \in Row : rows'[i].ad = rows[i].ad
  BY DEF RowsShape, RowsKept, Row
<1>2. ASSUME UNCHANGED <<sweep, gone>> PROVE SweepShape'
  BY <1>1, <1>2 DEF DedupeKey
<1>3. CASE StartScan \/ ScanStep \/ NextDay
  BY <1>2, <1>3 DEF StartScan, ScanStep, Judge, AddItem, Select, NextDay, historyVars
<1>4. CASE StartSweep
  <2>1. PICK q \in AssistQueues : sweep' = [NoSweep EXCEPT !.at = "probe", !.todo = {i \in q : NeedsCheck(rows[i])}]
    BY <1>4 DEF StartSweep
  <2>2. q \subseteq Row
    BY DEF AssistQueues, Finishable
  <2>3. /\ sweep'.at = "probe" /\ sweep'.todo \subseteq q /\ sweep'.row = 0
        /\ sweep' \in SweepRecord
    BY <1>1, <2>1, <2>2 DEF NoSweep, SweepRecord, Liveness
  <2> QED
    BY <1>1, <2>2, <2>3
<1>5. CASE SweepStep
  BY <1>5, SweepStepKeeps
<1>6. CASE \E i \in Row : Prepare(i) \/ SendVerified(i) \/ SendOther(i) \/ HumanStep(i)
  BY <1>2, <1>6 DEF Prepare, SendVerified, SendOther, HumanStep, Confirm, MarkSent,
                    MarkUnavailable, SkipItem, historyVars
<1>7. CASE \E k \in Key : RestoreDismissed(k)
  BY <1>2, <1>7 DEF RestoreDismissed
<1>8. CASE RestartServer
  <2>1. sweep' = NoSweep
    BY <1>8 DEF RestartServer
  <2> QED
    BY <2>1 DEF NoSweep, SweepRecord, Liveness
<1> QED
  BY <1>3, <1>4, <1>5, <1>6, <1>7, <1>8 DEF PostingsNext

----------------------------------------------------------------------------
(* dismissals *)

\* A dismissal, under the key of a row's posting, of what was gone if it says so.
LEMMA DismissKeeps ==
  ASSUME DismissedShape, NEW a \in Ad, NEW kind, Dismiss(a, kind), UNCHANGED gone,
         kind = "closed" => DedupeKey(a) \in gone
  PROVE  DismissedShape'
<1> DEFINE k == DedupeKey(a)
           first == IF dismissed[k] = NotDismissed THEN a ELSE dismissed[k].ad
           new == [ad |-> first, kind |-> kind, until |-> today + BlockDays]
<1>1. k \in Key
  BY DEF Key
<1>2. first \in Ad /\ DedupeKey(first) = k
  BY <1>1 DEF DismissedShape
<1>3. dismissed' = [dismissed EXCEPT ![k] = new]
  BY DEF Dismiss
<1>4. new.ad = first /\ new.kind = kind
  OBVIOUS
<1> HIDE DEF k, first, new
<1>5. \A j \in Key : dismissed'[j] = IF j = k THEN new ELSE dismissed[j]
  BY <1>1, <1>3 DEF DismissedShape
<1> QED
  BY <1>1, <1>2, <1>3, <1>4, <1>5 DEF DismissedShape, k

LEMMA StepKeepsDismissed ==
  ASSUME RowsShape, SweepShape, DismissedShape, PostingsNext
  PROVE  DismissedShape'
<1>1. ASSUME NEW i \in Row PROVE rows[i].ad \in Ad
  <2>1. rows[i] \in RowType
    BY DEF RowsShape, Row
  <2> QED
    BY <2>1 DEF RowType
<1>2. ASSUME UNCHANGED dismissed, gone \subseteq gone' PROVE DismissedShape'
  BY <1>2 DEF DismissedShape
<1>3. CASE StartScan \/ ScanStep \/ StartSweep \/ NextDay \/ RestartServer
  BY <1>2, <1>3 DEF StartScan, ScanStep, Judge, AddItem, Select, StartSweep, NextDay,
                    RestartServer, historyVars
<1>4. CASE (\E i \in Row : Probe(i)) \/ SetLiveness \/ SkipClosed
  BY <1>2, <1>4 DEF Probe, SetLiveness, SkipClosed, historyVars
<1>5. CASE DismissClosed
  BY <1>1, <1>5, DismissKeeps DEF DismissClosed, SweepShape
<1>6. CASE \E i \in Row : Prepare(i) \/ SendVerified(i) \/ SendOther(i)
  BY <1>2, <1>6 DEF Prepare, SendVerified, SendOther, historyVars
<1>7. ASSUME NEW i \in Row, Confirm(i) \/ MarkSent(i) \/ SkipItem(i) PROVE DismissedShape'
  BY <1>2, <1>7 DEF Confirm, MarkSent, SkipItem, historyVars
<1>8. ASSUME NEW i \in Row, MarkUnavailable(i) PROVE DismissedShape'
  BY <1>1, <1>8, DismissKeeps DEF MarkUnavailable
<1>9. ASSUME NEW k \in Key, RestoreDismissed(k) PROVE DismissedShape'
  BY <1>9 DEF RestoreDismissed, DismissedShape
<1> QED
  BY <1>3, <1>4, <1>5, <1>6, <1>7, <1>8, <1>9 DEF PostingsNext, SweepStep, HumanStep

\* What is dismissed today blocks its text until the window from today is over.
LEMMA DismissDates ==
  ASSUME RowsShape, DismissedShape, DatesShape, UNCHANGED today,
         NEW a \in Ad, NEW kind \in {"unavailable", "closed"}, Dismiss(a, kind)
  PROVE  DatesShape'
<1> DEFINE k == DedupeKey(a)
           first == IF dismissed[k] = NotDismissed THEN a ELSE dismissed[k].ad
           new == [ad |-> first, kind |-> kind, until |-> today + BlockDays]
           x == ContentHash(first)
<1>1. /\ today \in 0 .. MaxDay /\ MaxDay \in Nat /\ BlockDays \in Nat \ {0}
      /\ Never = MaxDay + BlockDays + 1
  BY PostingsAssumption DEF RowsShape, Never
<1>2. k \in Key /\ DOMAIN dismissed = Key
  BY DEF Key, DismissedShape
<1>3. first \in Ad /\ x \in Text
  BY <1>2 DEF DismissedShape, Text
<1>4. /\ dismissed' = [dismissed EXCEPT ![k] = new] /\ blocked' = [blocked EXCEPT ![x] = today]
  BY DEF Dismiss
<1>5. new \in Dismissal /\ new.ad = first /\ new.until = today + BlockDays
  BY <1>1, <1>3 DEF Dismissal
<1>6. x = ContentHash(first)
  OBVIOUS
<1> HIDE DEF k, first, new, x
<1>7. \A j \in Key : dismissed'[j] = IF j = k THEN new ELSE dismissed[j]
  BY <1>2, <1>4
<1>8. /\ blocked \in [Text -> 0 .. Never] /\ blocked' \in [Text -> 0 .. Never]
      /\ \A y \in Text : blocked'[y] = IF y = x THEN today ELSE blocked[y]
  BY <1>1, <1>3, <1>4 DEF DatesShape
<1>9. \A y \in Text : blocked'[y] # Never => blocked'[y] <= today'
  BY <1>1, <1>8 DEF DatesShape
<1>10. ASSUME NEW j \in Key, dismissed'[j] # NotDismissed
       PROVE  LET d == dismissed'[j] IN
              /\ d \in Dismissal /\ blocked'[ContentHash(d.ad)] # Never
              /\ d.until <= blocked'[ContentHash(d.ad)] + BlockDays
  <2>1. CASE j = k
    <3>1. dismissed'[j] = new /\ ContentHash(new.ad) = x /\ blocked'[x] = today
      BY <1>3, <1>5, <1>6, <1>7, <1>8, <2>1
    <3> QED
      BY <1>1, <1>5, <3>1
  <2>2. CASE j # k
    <3> DEFINE d == dismissed[j]
               y == ContentHash(d.ad)
    <3>1. dismissed'[j] = d /\ d # NotDismissed
      BY <1>7, <1>10, <2>2
    <3>2. d \in Dismissal /\ blocked[y] # Never /\ d.until <= blocked[y] + BlockDays
      BY <3>1 DEF DatesShape
    <3>3. y \in Text /\ d.until \in Nat
      BY <1>1, <3>2 DEF Dismissal, Text
    <3>4. blocked[y] \in Nat /\ blocked[y] <= today /\ blocked'[y] \in {today, blocked[y]}
      BY <1>8, <3>2, <3>3 DEF DatesShape
    <3>5. ContentHash(dismissed'[j].ad) = y
      BY <3>1
    <3> HIDE DEF d, y
    <3> QED
      BY <1>1, <3>1, <3>2, <3>3, <3>4, <3>5
  <2> QED
    BY <2>1, <2>2
<1> QED
  BY <1>8, <1>9, <1>10 DEF DatesShape, Never

LEMMA StepKeepsDates ==
  ASSUME RowsShape, SweepShape, DismissedShape, DatesShape, PostingsNext
  PROVE  DatesShape'
<1>1. ASSUME NEW i \in Row PROVE rows[i].ad \in Ad
  <2>1. rows[i] \in RowType
    BY DEF RowsShape, Row
  <2> QED
    BY <2>1 DEF RowType
<1>2. ASSUME UNCHANGED <<today, dismissed, blocked>> PROVE DatesShape'
  BY <1>2 DEF DatesShape, Never, ContentHash
<1>3. CASE StartScan \/ ScanStep \/ StartSweep \/ RestartServer
  BY <1>2, <1>3 DEF StartScan, ScanStep, Judge, AddItem, Select, StartSweep,
                    RestartServer, clockVars, historyVars
<1>4. CASE (\E i \in Row : Probe(i)) \/ SetLiveness \/ SkipClosed
  BY <1>2, <1>4 DEF Probe, SetLiveness, SkipClosed, clockVars, historyVars
<1>5. CASE DismissClosed
  BY <1>1, <1>5, DismissDates DEF DismissClosed, SweepShape, clockVars
<1>6. CASE \E i \in Row : Prepare(i) \/ SendVerified(i) \/ SendOther(i)
  BY <1>2, <1>6 DEF Prepare, SendVerified, SendOther, clockVars, historyVars
<1>7. ASSUME NEW i \in Row, Confirm(i) \/ MarkSent(i) \/ SkipItem(i) PROVE DatesShape'
  BY <1>2, <1>7 DEF Confirm, MarkSent, SkipItem, clockVars, historyVars
<1>8. ASSUME NEW i \in Row, MarkUnavailable(i) PROVE DatesShape'
  BY <1>1, <1>8, DismissDates DEF MarkUnavailable, clockVars
<1>9. ASSUME NEW k \in Key, RestoreDismissed(k) PROVE DatesShape'
  <2>1. UNCHANGED <<today, blocked>> /\ dismissed' = [dismissed EXCEPT ![k] = NotDismissed]
    BY <1>9 DEF RestoreDismissed, clockVars
  <2>2. \A j \in Key : dismissed'[j] # NotDismissed => dismissed'[j] = dismissed[j]
    BY <2>1 DEF DismissedShape
  <2> QED
    BY <2>1, <2>2 DEF DatesShape, Never, ContentHash
<1>10. CASE NextDay
  <2>1. today \in Nat /\ today' = today + 1 /\ UNCHANGED <<dismissed, blocked>>
    BY <1>10, PostingsAssumption DEF NextDay, historyVars, RowsShape
  <2>2. \A x \in Text : blocked'[x] # Never => blocked'[x] <= today'
    BY <2>1, PostingsAssumption DEF DatesShape, Never
  <2> QED
    BY <2>1, <2>2 DEF DatesShape, Never, ContentHash
<1> QED
  BY <1>3, <1>4, <1>5, <1>6, <1>7, <1>8, <1>9, <1>10 DEF PostingsNext, SweepStep, HumanStep

----------------------------------------------------------------------------
(* discovery *)

\* What is settled by key, text or address is what the queries find.
LEMMA SettledIsHandled ==
  ASSUME DismissedShape, NEW a \in Ad, Settled(a, applied, dismissed)
  PROVE  AlreadyHandled(a)
<1>1. CASE \E b \in applied : DedupeKey(a) = DedupeKey(b) \/ ContentHash(a) = ContentHash(b)
  BY <1>1 DEF AlreadyHandled, AlreadySent
<1>2. CASE \E k \in Key : dismissed[k] # NotDismissed /\ (k = DedupeKey(a) \/ dismissed[k].ad.site = a.site)
  <2>1. PICK k \in Key : dismissed[k] # NotDismissed /\ (k = DedupeKey(a) \/ dismissed[k].ad.site = a.site)
    BY <1>2
  <2>2. dismissed[k] \in Dismissals
    BY <2>1 DEF Dismissals
  <2>3. DedupeKey(dismissed[k].ad) = k
    BY <2>1 DEF DismissedShape
  <2>4. DedupeKey(dismissed[k].ad) = DedupeKey(a) \/ CanonicalUrl(dismissed[k].ad) = CanonicalUrl(a)
    BY <2>1, <2>3 DEF CanonicalUrl
  <2> QED
    BY <2>2, <2>4 DEF AlreadyHandled, IsDismissed
<1> QED
  BY <1>1, <1>2 DEF Settled

\* Only the human's restoring unsettles anything.
LEMMA SettledStays ==
  ASSUME DismissedShape, NEW a \in Ad, Settled(a, applied, dismissed),
         applied \subseteq applied',
         \/ UNCHANGED dismissed
         \/ \E b \in Ad : \E kind \in {"unavailable", "closed"} : Dismiss(b, kind)
  PROVE  Settled(a, applied', dismissed')
<1>1. CASE UNCHANGED dismissed
  BY <1>1 DEF Settled
<1>2. ASSUME NEW b \in Ad, NEW kind \in {"unavailable", "closed"}, Dismiss(b, kind)
      PROVE  Settled(a, applied', dismissed')
  <2> DEFINE k == DedupeKey(b)
             first == IF dismissed[k] = NotDismissed THEN b ELSE dismissed[k].ad
             new == [ad |-> first, kind |-> kind, until |-> today + BlockDays]
  <2>1. k \in Key /\ DOMAIN dismissed = Key
    BY DEF Key, DismissedShape
  <2>2. dismissed' = [dismissed EXCEPT ![k] = new]
    BY <1>2 DEF Dismiss
  <2>3. new # NotDismissed /\ new.ad = first
    BY DEF NotDismissed
  <2>4. dismissed[k] # NotDismissed => first = dismissed[k].ad
    OBVIOUS
  <2> HIDE DEF k, first, new
  <2>5. \A j \in Key : dismissed'[j] = IF j = k THEN new ELSE dismissed[j]
    BY <2>1, <2>2
  <2>6. \A j \in Key : dismissed[j] # NotDismissed =>
          dismissed'[j] # NotDismissed /\ dismissed'[j].ad = dismissed[j].ad
    BY <2>3, <2>4, <2>5
  <2> QED
    BY <2>6 DEF Settled
<1> QED
  BY <1>1, <1>2

\* RecordApplication adds, but no second application of a key.
LEMMA RecordAddsOne ==
  ASSUME NEW a \in Ad, RecordApplication(a),
         \A b, c \in applied : DedupeKey(b) = DedupeKey(c) => b = c
  PROVE  \A b, c \in applied' : DedupeKey(b) = DedupeKey(c) => b = c
BY DEF RecordApplication

LEMMA StepKeepsRest ==
  ASSUME RowsShape, RestShape, PostingsNext
  PROVE  RestShape'
<1> USE DEF RestShape
<1>1. ASSUME NEW i \in Row PROVE rows[i].ad \in Ad
  <2>1. rows[i] \in RowType
    BY DEF RowsShape, Row
  <2> QED
    BY <2>1 DEF RowType
<1>2. ASSUME Act PROVE acts' \in 0 .. MaxActs
  BY <1>2, PostingsAssumption DEF Act
<1>3. CASE StartScan \/ ScanStep \/ NextDay \/ RestartServer
  BY <1>3 DEF StartScan, ScanStep, Judge, AddItem, Select, NextDay, RestartServer,
              clockVars, boundVars, historyVars
<1>4. CASE StartSweep
  <2>1. sweeps' \in 0 .. MaxSweeps
    BY <1>4, PostingsAssumption DEF StartSweep
  <2> QED
    BY <1>4, <2>1 DEF StartSweep, clockVars, historyVars
<1>5. ASSUME NEW i \in Row, Probe(i) PROVE RestShape'
  <2>1. DedupeKey(rows[i].ad) \in Key
    BY <1>1 DEF Key
  <2> QED
    BY <1>5, <2>1 DEF Probe, clockVars, boundVars
<1>6. CASE SetLiveness \/ DismissClosed \/ SkipClosed
  BY <1>6 DEF SetLiveness, DismissClosed, SkipClosed, clockVars, boundVars, historyVars
<1>7. ASSUME NEW i \in Row, Prepare(i) \/ SendOther(i) PROVE RestShape'
  BY <1>7 DEF Prepare, SendOther, clockVars, boundVars, historyVars
<1>8. ASSUME NEW i \in Row, SendVerified(i) PROVE RestShape'
  BY <1>1, <1>8, RecordAddsOne DEF SendVerified, clockVars, boundVars, historyVars
<1>9. ASSUME NEW i \in Row, MarkSent(i) PROVE RestShape'
  BY <1>1, <1>2, <1>9, RecordAddsOne DEF MarkSent, clockVars, historyVars
<1>10. ASSUME NEW i \in Row, Confirm(i) \/ MarkUnavailable(i) \/ SkipItem(i) PROVE RestShape'
  BY <1>2, <1>10 DEF Confirm, MarkUnavailable, SkipItem, clockVars, historyVars
<1>11. ASSUME NEW k \in Key, RestoreDismissed(k) PROVE RestShape'
  BY <1>2, <1>11 DEF RestoreDismissed, clockVars
<1> QED
  BY <1>3, <1>4, <1>5, <1>6, <1>7, <1>8, <1>9, <1>10, <1>11
     DEF PostingsNext, SweepStep, HumanStep

LEMMA RecordAdds ==
  ASSUME NEW a \in Ad, RecordApplication(a), applied \subseteq Ad
  PROVE  applied \subseteq applied' /\ applied' \subseteq Ad
BY DEF RecordApplication

LEMMA StepKeepsScanTyped ==
  ASSUME RowsShape, ScanTyped, boards \in Boards, PostingsNext
  PROVE  ScanTyped'
<1> USE DEF ScanTyped
<1>1. NoScan \in ScanRecord /\ NoScan.phase = "off"
  BY DEF NoScan, ScanRecord
<1>2. ASSUME UNCHANGED <<scan, scans>> PROVE ScanTyped'
  BY <1>2
<1>3. CASE StartScan
  <2>1. scans' \in 1 .. MaxScans
    BY <1>3, PostingsAssumption DEF StartScan
  <2>2. listed \in Seq(Ad)
    BY PostingsAssumption DEF listed, RowsShape
  <2>3. scan' \in ScanRecord
    BY <1>3, <2>2 DEF StartScan, NoScan, ScanRecord
  <2> QED
    BY <2>1, <2>3
<1>4. ASSUME NEW a \in Ad, Judge(a) PROVE ScanTyped'
  <2>1. scan.todo \in Seq(Ad) /\ Tail(scan.todo) \in Seq(Ad)
    BY <1>4 DEF Judge, ScanRecord
  <2>2. scan' \in ScanRecord /\ scan'.phase = scan.phase
    BY <1>4, <2>1 DEF Judge, ScanRecord
  <2> QED
    BY <1>4, <2>2 DEF Judge, boundVars
<1>5. CASE Select
  <2>1. PICK s \in kSubset(Min({Cap, Cardinality(scan.kept)}), scan.kept) :
          scan' = IF s = {} THEN NoScan ELSE [NoScan EXCEPT !.phase = "add", !.kept = s]
    BY <1>5 DEF Select
  <2>2. s \subseteq scan.kept
    BY DEF kSubset
  <2>3. scan' \in ScanRecord /\ scan.phase # "off"
    BY <1>5, <2>1, <2>2 DEF Select, NoScan, ScanRecord
  <2> QED
    BY <1>5, <2>3 DEF Select, boundVars
<1>6. ASSUME NEW a \in Ad, AddItem(a) PROVE ScanTyped'
  <2>1. scan' \in ScanRecord /\ scan.phase # "off"
    BY <1>1, <1>6 DEF AddItem, ScanRecord
  <2> QED
    BY <1>6, <2>1 DEF AddItem, boundVars
<1>7. CASE RestartServer
  BY <1>1, <1>7 DEF RestartServer, boundVars
<1>8. CASE StartSweep \/ SweepStep \/ NextDay
  BY <1>2, <1>8 DEF StartSweep, SweepStep, Probe, SetLiveness, DismissClosed, SkipClosed,
                    NextDay, boundVars
<1>9. CASE \E i \in Row : Prepare(i) \/ SendVerified(i) \/ SendOther(i) \/ HumanStep(i)
  BY <1>2, <1>9 DEF Prepare, SendVerified, SendOther, HumanStep, Confirm, MarkSent,
                    MarkUnavailable, SkipItem, boundVars
<1>10. CASE \E k \in Key : RestoreDismissed(k)
  BY <1>2, <1>10 DEF RestoreDismissed
<1> QED
  BY <1>3, <1>4, <1>5, <1>6, <1>7, <1>8, <1>9, <1>10 DEF PostingsNext, ScanStep

LEMMA StepKeepsScan ==
  ASSUME RowsShape, SweepShape, DismissedShape, ScanTyped, ScanShape, PostingsNext
  PROVE  ScanShape'
<1> USE DEF ScanShape, ScanRespectsHistory
<1>1. ASSUME NEW i \in Row PROVE rows[i].ad \in Ad
  <2>1. rows[i] \in RowType
    BY DEF RowsShape, Row
  <2> QED
    BY <2>1 DEF RowType
<1>2. ASSUME UNCHANGED <<scan, barred>>, applied \subseteq applied', applied' \subseteq Ad,
             \/ UNCHANGED dismissed
             \/ \E b \in Ad : \E kind \in {"unavailable", "closed"} : Dismiss(b, kind)
      PROVE  ScanShape'
  BY <1>2, SettledStays
<1>3. CASE StartScan
  <2>1. /\ scan'.kept = {} /\ barred' = {a \in Ad : Settled(a, applied, dismissed)}
        /\ UNCHANGED <<applied, dismissed>>
    BY <1>3 DEF StartScan, NoScan
  <2> QED
    BY <2>1
<1>4. ASSUME NEW a \in Ad, Judge(a) PROVE ScanShape'
  <2>1. /\ scan.phase = "judge" /\ UNCHANGED <<applied, dismissed, barred>>
        /\ scan'.kept \subseteq scan.kept \cup {a}
        /\ a \in scan'.kept => a \in scan.kept \/ ~AlreadyHandled(a)
    BY <1>4 DEF Judge, historyVars, ScanTyped, ScanRecord
  <2>2. a \in barred => AlreadyHandled(a)
    BY <2>1, SettledIsHandled
  <2> QED
    BY <2>1, <2>2
<1>5. ASSUME Select \/ \E a \in Ad : AddItem(a) PROVE ScanShape'
  <2>1. UNCHANGED <<applied, dismissed, barred>>
    BY <1>5 DEF Select, AddItem, historyVars
  <2>2. CASE Select
    <3>1. PICK s \in kSubset(Min({Cap, Cardinality(scan.kept)}), scan.kept) :
            scan' = IF s = {} THEN NoScan ELSE [NoScan EXCEPT !.phase = "add", !.kept = s]
      BY <2>2 DEF Select
    <3>2. s \subseteq scan.kept
      BY DEF kSubset
    <3>3. scan'.kept \subseteq scan.kept /\ scan'.phase # "judge"
      BY <3>1, <3>2 DEF NoScan
    <3> QED
      BY <2>1, <3>3
  <2>3. ASSUME NEW a \in Ad, AddItem(a) PROVE ScanShape'
    <3>1. scan.phase = "add" /\ (scan' = NoScan \/ scan' = [scan EXCEPT !.kept = @ \ {a}])
      BY <2>3 DEF AddItem
    <3>2. scan'.kept \subseteq scan.kept /\ scan'.phase # "judge"
      BY <3>1 DEF NoScan, ScanTyped, ScanRecord
    <3> QED
      BY <2>1, <3>2
  <2> QED
    BY <1>5, <2>2, <2>3
<1>6. CASE StartSweep \/ NextDay
  BY <1>2, <1>6 DEF StartSweep, NextDay, historyVars
<1>7. CASE (\E i \in Row : Probe(i)) \/ SetLiveness \/ SkipClosed
  BY <1>2, <1>7 DEF Probe, SetLiveness, SkipClosed, historyVars
<1>8. CASE DismissClosed
  BY <1>1, <1>2, <1>8 DEF DismissClosed, SweepShape
<1>9. ASSUME NEW i \in Row, Prepare(i) \/ SendOther(i) \/ Confirm(i) \/ SkipItem(i) PROVE ScanShape'
  BY <1>2, <1>9 DEF Prepare, SendOther, Confirm, SkipItem, historyVars
<1>10. ASSUME NEW i \in Row, SendVerified(i) \/ MarkSent(i) PROVE ScanShape'
  BY <1>1, <1>2, <1>10, RecordAdds DEF SendVerified, MarkSent, historyVars
<1>11. ASSUME NEW i \in Row, MarkUnavailable(i) PROVE ScanShape'
  BY <1>1, <1>2, <1>11 DEF MarkUnavailable
<1>12. ASSUME NEW k \in Key, RestoreDismissed(k) PROVE ScanShape'
  BY <1>12 DEF RestoreDismissed
<1>13. CASE RestartServer
  BY <1>13 DEF RestartServer, NoScan, historyVars
<1> QED
  BY <1>3, <1>4, <1>5, <1>6, <1>7, <1>8, <1>9, <1>10, <1>11, <1>12, <1>13
     DEF PostingsNext, ScanStep, SweepStep, HumanStep

----------------------------------------------------------------------------
(* the cards *)

SameKey(i, j)  == DedupeKey(rows[i].ad) = DedupeKey(rows[j].ad)
SameCard(i, j) == Identity(rows[i].ad) = Identity(rows[j].ad)

LEMMA OneMember ==
  ASSUME NEW S, IsFiniteSet(S)
  PROVE  /\ Cardinality(S) = 1 <=> \E x \in S : \A y \in S : y = x
         /\ S = {} => Cardinality(S) = 0
<1>1. Cardinality(S) = 1 <=> \E x : S = {x}
  BY FS_Singleton
<1>2. (\E x : S = {x}) <=> \E x \in S : \A y \in S : y = x
  OBVIOUS
<1> QED
  BY <1>1, <1>2, FS_EmptySet

LEMMA FinishableIsFinite ==
  ASSUME RowsShape, NEW q \in SUBSET Finishable
  PROVE  IsFiniteSet(q)
<1>1. Len(rows) \in Nat /\ Row = 1 .. Len(rows) /\ q \subseteq Row
  BY DEF RowsShape, Row, Finishable
<1>2. IsFiniteSet(1 .. Len(rows))
  BY <1>1, FS_Interval
<1> QED
  BY <1>1, <1>2, FS_Subset

\* Counting cards is asking whether one row alone shows the position.
LEMMA CardsAre ==
  ASSUME RowsShape, NEW i, NEW q \in SUBSET Finishable
  PROVE  /\ (CardsFor(i, q) = 1) <=>
               \E x \in q : SameCard(x, i) /\ \A y \in q : SameCard(y, i) => y = x
         /\ (\A x \in q : ~SameCard(x, i)) => CardsFor(i, q) = 0
<1> DEFINE S == {j \in q : SameCard(j, i)}
<1>1. CardsFor(i, q) = Cardinality(S)
  BY DEF CardsFor, Quantify, SameCard
<1>2. IsFiniteSet(S)
  BY FinishableIsFinite
<1>3. /\ Cardinality(S) = 1 <=> \E x \in S : \A y \in S : y = x
      /\ S = {} => Cardinality(S) = 0
  BY <1>2, OneMember
<1> QED
  BY <1>1, <1>3

LEMMA PerKeyIs ==
  ASSUME RowsShape, NEW p \in SUBSET Finishable
  PROVE  p \in PerKey <=>
           \A i \in Finishable :
             \E x \in p : SameKey(x, i) /\ \A y \in p : SameKey(y, i) => y = x
<1> DEFINE S(i) == {j \in p : SameKey(j, i)}
<1>1. p \in PerKey <=> \A i \in Finishable : Cardinality(S(i)) = 1
  BY DEF PerKey, Quantify, SameKey
<1>2. ASSUME NEW i \in Finishable
      PROVE  Cardinality(S(i)) = 1 <=>
               \E x \in p : SameKey(x, i) /\ \A y \in p : SameKey(y, i) => y = x
  <2>1. IsFiniteSet(S(i))
    BY FinishableIsFinite
  <2>2. Cardinality(S(i)) = 1 <=> \E x \in S(i) : \A y \in S(i) : y = x
    BY <2>1, OneMember
  <2> QED
    BY <2>2
<1> QED
  BY <1>1, <1>2

\* One row can be taken of each key.
LEMMA SomePerKey ==
  ASSUME RowsShape
  PROVE  PerKey # {}
<1> DEFINE K(k) == CHOOSE j \in Finishable : DedupeKey(rows[j].ad) = k
           p == {K(DedupeKey(rows[i].ad)) : i \in Finishable}
<1>1. ASSUME NEW i \in Finishable
      PROVE  /\ K(DedupeKey(rows[i].ad)) \in Finishable
             /\ DedupeKey(rows[K(DedupeKey(rows[i].ad))].ad) = DedupeKey(rows[i].ad)
  OBVIOUS
<1> HIDE DEF K
<1>2. p \in SUBSET Finishable
  BY <1>1
<1>3. ASSUME NEW i \in Finishable
      PROVE  \E x \in p : SameKey(x, i) /\ \A y \in p : SameKey(y, i) => y = x
  <2> WITNESS K(DedupeKey(rows[i].ad)) \in p
  <2>1. ASSUME NEW y \in p, SameKey(y, i) PROVE y = K(DedupeKey(rows[i].ad))
    <3>1. PICK l \in Finishable : y = K(DedupeKey(rows[l].ad))
      OBVIOUS
    <3>2. DedupeKey(rows[l].ad) = DedupeKey(rows[i].ad)
      BY <1>1, <2>1, <3>1 DEF SameKey
    <3> QED
      BY <3>1, <3>2
  <2> QED
    BY <1>1, <2>1 DEF SameKey
<1> QED
  BY <1>2, <1>3, PerKeyIs

\* Of one row per key, one can be taken of each position, a ready one if there is one.
LEMMA SomeQueue ==
  ASSUME RowsShape
  PROVE  AssistQueues # {}
<1>1. PICK p \in PerKey : p \in SUBSET Finishable
  BY SomePerKey DEF PerKey
<1> DEFINE At(x, j)  == Identity(rows[j].ad) = x
           C(x) == IF \E j \in p : At(x, j) /\ rows[j].state = "ready"
                     THEN CHOOSE j \in p : At(x, j) /\ rows[j].state = "ready"
                     ELSE CHOOSE j \in p : At(x, j)
           Of(i) == C(Identity(rows[i].ad))
           q == {Of(i) : i \in p}
<1>2. ASSUME NEW i \in p
      PROVE  /\ Of(i) \in p /\ SameCard(Of(i), i)
             /\ rows[i].state = "ready" => rows[Of(i)].state = "ready"
  BY DEF SameCard
<1>3. ASSUME NEW i \in p, NEW l \in p, SameCard(i, l) PROVE Of(i) = Of(l)
  BY <1>3 DEF SameCard
<1> HIDE DEF Of
<1>4. q \subseteq p /\ q \in SUBSET Finishable
  BY <1>1, <1>2
<1>5. ASSUME NEW i \in p PROVE CardsFor(i, q) = 1
  <2>1. Of(i) \in q /\ SameCard(Of(i), i)
    BY <1>2
  <2>2. ASSUME NEW y \in q, SameCard(y, i) PROVE y = Of(i)
    <3>1. PICK l \in p : y = Of(l)
      OBVIOUS
    <3>2. SameCard(l, i)
      BY <1>2, <2>2, <3>1 DEF SameCard
    <3> QED
      BY <1>3, <3>1, <3>2
  <2> QED
    BY <1>4, <2>1, <2>2, CardsAre
<1>6. ASSUME NEW i \in p, rows[i].state = "ready"
      PROVE  \E j \in q : Identity(rows[i].ad) = Identity(rows[j].ad) /\ rows[j].state = "ready"
  <2> WITNESS Of(i) \in q
  <2> QED
    BY <1>2, <1>6 DEF SameCard
<1>7. q \in AssistQueues
  BY <1>4, <1>5, <1>6 DEF AssistQueues
<1> QED
  BY <1>7

----------------------------------------------------------------------------
(* what is dropped *)

\* A row that waits is shown, unless its posting is applied to or dismissed.
LEMMA WaitingIsAccounted ==
  ASSUME DismissedShape, NEW i \in Row, rows[i].ad \in Ad,
         rows[i].state \in Waiting, rows[i].liveness # "closed"
  PROVE  Accounted(rows[i].ad)
<1> DEFINE b == rows[i].ad
<1>1. CASE \E c \in applied : DedupeKey(c) = DedupeKey(b)
  BY <1>1 DEF Accounted, Like
<1>2. CASE dismissed[DedupeKey(b)] # NotDismissed
  <2>1. DedupeKey(b) \in Key
    BY DEF Key
  <2>2. dismissed[DedupeKey(b)] \in Dismissals /\ DedupeKey(dismissed[DedupeKey(b)].ad) = DedupeKey(b)
    BY <1>2, <2>1 DEF Dismissals, DismissedShape
  <2> QED
    BY <2>2 DEF Accounted, Like
<1>3. CASE /\ \A c \in applied : DedupeKey(c) # DedupeKey(b)
           /\ dismissed[DedupeKey(b)] = NotDismissed
  <2>1. i \in Finishable
    BY <1>3 DEF Finishable
  <2> QED
    BY <2>1 DEF Accounted, Like
<1> QED
  BY <1>1, <1>2, <1>3

LEMMA HandledIsAccounted ==
  ASSUME NEW a \in Ad, AlreadyHandled(a)
  PROVE  Accounted(a)
<1>1. CASE AlreadySent(a)
  BY <1>1 DEF AlreadySent, Accounted, Like
<1>2. CASE IsDismissed(a)
  <2>1. PICK d \in Dismissals : \/ DedupeKey(d.ad) = DedupeKey(a)
                                \/ CanonicalUrl(d.ad) = CanonicalUrl(a)
                                \/ ContentHash(d.ad) = ContentHash(a)
    BY <1>2 DEF IsDismissed
  <2>2. Like(a, d.ad)
    BY <2>1 DEF Like
  <2> QED
    BY <2>2 DEF Accounted
<1> QED
  BY <1>1, <1>2 DEF AlreadyHandled

\* A row that is seen again is open again.
LEMMA TouchedWaits ==
  ASSUME RowsShape, NEW a \in Ad, NEW i \in Row, DedupeKey(rows[i].ad) = DedupeKey(a),
         rows[i].state \in Waiting, rows' = TouchSeen(a)
  PROVE  /\ Row' = Row /\ rows'[i].ad = rows[i].ad
         /\ rows'[i].state \in Waiting /\ rows'[i].liveness # "closed"
<1>1. rows \in Seq(RowType) /\ rows[i] \in RowType
  BY DEF RowsShape, Row
<1>2. Row' = Row
  BY DEF TouchSeen, Row
<1>3. rows'[i] = [rows[i] EXCEPT !.seen = today, !.liveness = "active"]
  BY DEF TouchSeen
<1>4. rows'[i].ad = rows[i].ad /\ rows'[i].state = rows[i].state /\ rows'[i].liveness = "active"
  BY <1>1, <1>3 DEF RowType
<1> QED
  BY <1>2, <1>4

LEMMA DropsAreExplained ==
  ASSUME PostingsInv, PostingsInv', NEW a \in Ad, Judge(a), a \notin scan.kept'
  PROVE  Explained(a)'
<1> USE DEF PostingsInv
<1>1. UNCHANGED <<today, applied, dismissed>>
  BY DEF Judge, clockVars
<1>2. AlreadyHandled(a) \/ WaitingInQueue(a) \/ IdentityInQueue(a)
  <2>1. scan \in ScanRecord
    BY DEF ScanTyped
  <2> SUFFICES ASSUME ~AlreadyHandled(a), ~WaitingInQueue(a), ~IdentityInQueue(a) PROVE FALSE
    OBVIOUS
  <2>2. scan' = [scan EXCEPT !.todo = Tail(@), !.kept = @ \cup {a}]
    BY DEF Judge
  <2> QED
    BY <2>1, <2>2 DEF ScanRecord
<1>3. CASE AlreadyHandled(a)
  <2>1. rows' = rows
    BY <1>3 DEF Judge
  <2>2. Accounted(a)
    BY <1>3, HandledIsAccounted
  <2>3. Accounted(a)'
    BY <1>1, <2>1, <2>2 DEF Accounted, Dismissals, Finishable, Row, Like
  <2> QED
    BY <2>3 DEF Explained
<1>4. CASE ~AlreadyHandled(a) /\ WaitingInQueue(a)
  <2>1. rows' = TouchSeen(a)
    BY <1>4 DEF Judge
  <2>2. PICK i \in Row : DedupeKey(rows[i].ad) = DedupeKey(a) /\ rows[i].state \in Waiting
    BY <1>4 DEF WaitingInQueue
  <2>3. /\ i \in Row' /\ rows'[i].ad = rows[i].ad
        /\ rows'[i].state \in Waiting /\ rows'[i].liveness # "closed"
    BY <2>1, <2>2, TouchedWaits
  <2>4. \A b \in applied' : DedupeKey(b) # DedupeKey(a)
    BY <1>1, <1>4 DEF AlreadyHandled, AlreadySent
  <2>5. dismissed'[DedupeKey(a)] = NotDismissed
    <3>1. DedupeKey(a) \in Key
      BY DEF Key
    <3> SUFFICES ASSUME dismissed[DedupeKey(a)] # NotDismissed PROVE FALSE
      BY <1>1
    <3>2. /\ dismissed[DedupeKey(a)] \in Dismissals
          /\ DedupeKey(dismissed[DedupeKey(a)].ad) = DedupeKey(a)
      BY <3>1 DEF Dismissals, DismissedShape
    <3> QED
      BY <1>4, <3>2 DEF AlreadyHandled, IsDismissed
  <2>6. DedupeKey(rows'[i].ad) = DedupeKey(a)
    BY <2>2, <2>3
  <2>7. i \in Finishable'
    BY <2>3, <2>4, <2>5, <2>6 DEF Finishable
  <2>8. Accounted(a)'
    BY <2>6, <2>7 DEF Accounted, Like
  <2> QED
    BY <2>8 DEF Explained
<1>5. CASE ~AlreadyHandled(a) /\ ~WaitingInQueue(a) /\ IdentityInQueue(a)
  <2>1. rows' = rows
    BY <1>5 DEF Judge
  <2>2. PICK i \in Row : /\ Identity(rows[i].ad) = Identity(a)
                         /\ rows[i].state \in Waiting /\ rows[i].liveness # "closed"
    BY <1>5 DEF IdentityInQueue
  <2>3. rows[i].ad \in Ad
    <3>1. rows[i] \in RowType
      BY DEF RowsShape, Row
    <3> QED
      BY <3>1 DEF RowType
  <2>4. Accounted(rows[i].ad)
    BY <2>2, <2>3, WaitingIsAccounted
  <2>5. Explained(a)
    BY <2>2, <2>4 DEF Explained
  <2> QED
    BY <1>1, <2>1, <2>5 DEF Explained, Accounted, Dismissals, Finishable, Row, Like
<1> QED
  BY <1>2, <1>3, <1>4, <1>5

----------------------------------------------------------------------------
(* the theorems *)

LEMMA PostingsInvInit == PostingsInit => PostingsInv
<1> SUFFICES ASSUME PostingsInit PROVE PostingsInv
  OBVIOUS
<1> USE DEF PostingsInit
<1>1. RowsShape
  BY PostingsAssumption DEF RowsShape
<1>5. ScanTyped
  BY PostingsAssumption DEF ScanTyped, NoScan, ScanRecord
<1>2. SweepShape
  BY DEF SweepShape, NoSweep, SweepRecord, Liveness
<1>3. DismissedShape
  BY DEF DismissedShape
<1>6. DatesShape
  <2>1. MaxDay \in Nat /\ BlockDays \in Nat
    BY PostingsAssumption
  <2>2. Never \in 0 .. Never
    BY <2>1 DEF Never
  <2> QED
    BY <2>2 DEF DatesShape
<1>7. RestShape
  BY PostingsAssumption DEF RestShape
<1>4. ScanShape
  BY DEF ScanShape, NoScan, ScanRespectsHistory
<1> QED
  BY <1>1, <1>2, <1>3, <1>4, <1>5, <1>6, <1>7 DEF PostingsInv

LEMMA PostingsInvStep == PostingsInv /\ [PostingsNext]_postingsVars => PostingsInv'
<1> SUFFICES ASSUME PostingsInv, [PostingsNext]_postingsVars PROVE PostingsInv'
  OBVIOUS
<1>1. CASE PostingsNext
  <2>1. RowsKept /\ RowsShape'
    BY <1>1, StepKeepsRows DEF PostingsInv
  <2>2. SweepShape'
    BY <1>1, <2>1, StepKeepsSweep DEF PostingsInv
  <2>3. DismissedShape' /\ DatesShape'
    BY <1>1, StepKeepsDismissed, StepKeepsDates DEF PostingsInv
  <2>4. RestShape' /\ ScanTyped'
    BY <1>1, StepKeepsRest, StepKeepsScanTyped DEF PostingsInv, RestShape
  <2>5. ScanShape'
    BY <1>1, StepKeepsScan DEF PostingsInv
  <2> QED
    BY <2>1, <2>2, <2>3, <2>4, <2>5 DEF PostingsInv
<1>2. CASE UNCHANGED postingsVars
  BY <1>2 DEF postingsVars, clockVars, boundVars, historyVars, PostingsInv, RowsShape, SweepShape,
              DismissedShape, DatesShape, Never, ContentHash, RestShape,
              ScanTyped, ScanShape, ScanRespectsHistory, Row, Settled
<1> QED
  BY <1>1, <1>2

\* "will now be skipped forever" (tests/test_dismiss.py:30): no scan keeps a posting
\* that was applied to or dismissed before it began and was not restored meanwhile,
\* whatever humans, sends and the sweep write while it judges.
THEOREM HandledIsNotOffered == PostingsSpec => []ScanRespectsHistory
<1>1. PostingsInv => ScanRespectsHistory
  BY DEF PostingsInv, ScanShape
<1> QED
  BY <1>1, PostingsInvInit, PostingsInvStep, PTL DEF PostingsSpec

\* "A 500 or a rate limit must never dismiss a job" (tests/test_freshness.py:133):
\* what is dismissed as closed was listed by no board when it was probed, whatever a
\* board that is unwell answers and whatever happens between the probe and the writes.
THEOREM DismissedWasGone == PostingsSpec => []ClosedWasGone
<1>1. PostingsInv => ClosedWasGone
  BY DEF PostingsInv, DismissedShape, ClosedWasGone
<1> QED
  BY <1>1, PostingsInvInit, PostingsInvStep, PTL DEF PostingsSpec

\* "so a genuine repost under a new id resurfaces" (store.py:293): a text blocks until
\* the window from its last dismissal is over and not a day longer, however often and
\* under whichever keys it was dismissed and restored.
THEOREM RepostsReturn == PostingsSpec => []RepostReturns
<1>1. PostingsInv => RepostReturns
  <2> SUFFICES ASSUME PostingsInv, NEW a \in Ad, ~Settled(a, applied, dismissed),
                      \/ blocked[ContentHash(a)] = Never
                      \/ blocked[ContentHash(a)] + BlockDays <= today,
                      AlreadyHandled(a)
               PROVE  FALSE
    BY DEF RepostReturns
  <2>1. ~AlreadySent(a)
    BY DEF Settled, AlreadySent
  <2>2. PICK d \in Dismissals : \/ DedupeKey(d.ad) = DedupeKey(a)
                                \/ CanonicalUrl(d.ad) = CanonicalUrl(a)
                                \/ ContentHash(d.ad) = ContentHash(a) /\ d.until > today
    BY <2>1 DEF AlreadyHandled, IsDismissed
  <2>3. PICK k \in Key : d = dismissed[k] /\ dismissed[k] # NotDismissed
    BY DEF Dismissals
  <2>4. DedupeKey(d.ad) = k
    BY <2>3 DEF PostingsInv, DismissedShape
  <2>5. DedupeKey(d.ad) # DedupeKey(a) /\ CanonicalUrl(d.ad) # CanonicalUrl(a)
    BY <2>3, <2>4 DEF Settled, CanonicalUrl
  <2> DEFINE x == ContentHash(a)
  <2>6. x = ContentHash(d.ad) /\ x \in Text
    BY <2>2, <2>5 DEF Text
  <2>7. /\ d \in Dismissal /\ blocked[x] # Never /\ d.until <= blocked[x] + BlockDays
        /\ blocked[x] \in 0 .. Never
    BY <2>3, <2>6 DEF PostingsInv, DatesShape
  <2>8. d.until \in Nat /\ d.until > today /\ today \in Nat /\ BlockDays \in Nat
    BY <2>2, <2>5, <2>7, PostingsAssumption DEF Dismissal, PostingsInv, RowsShape
  <2> HIDE DEF x
  <2>9. blocked[x] + BlockDays <= today
    BY <2>7 DEF x
  <2> QED
    BY <2>7, <2>8, <2>9
<1> QED
  BY <1>1, PostingsInvInit, PostingsInvStep, PTL DEF PostingsSpec

\* Every variable stays in its type: a key has one application, what the sweep holds is
\* a row, and no scan adds a row beyond its bounds.
THEOREM PostingsTypes == PostingsSpec => []PostingsTypeOK
<1>1. PostingsInv => PostingsTypeOK
  <2> SUFFICES ASSUME PostingsInv PROVE PostingsTypeOK
    OBVIOUS
  <2> USE DEF PostingsInv
  <2>1. /\ today \in 0 .. MaxDay /\ Len(rows) <= MaxRows
        /\ \A i \in Row : rows[i] \in RowType
    BY DEF RowsShape, Row
  <2>2. /\ boards \in Boards /\ applied \subseteq Ad /\ barred \subseteq Ad /\ gone \subseteq Key
        /\ sweeps \in 0 .. MaxSweeps /\ acts \in 0 .. MaxActs
        /\ \A a, b \in applied : DedupeKey(a) = DedupeKey(b) => a = b
    BY DEF RestShape, ScanShape
  <2>3. /\ DOMAIN dismissed = Key /\ blocked \in [Text -> 0 .. Never]
        /\ \A k \in Key : dismissed[k] = NotDismissed \/ dismissed[k] \in Dismissal
    BY DEF DismissedShape, DatesShape
  <2>4. /\ scan.phase \in {"off", "judge", "add"} /\ scan.todo \in Seq(Ad)
        /\ scan.kept \subseteq Ad /\ scans \in 0 .. MaxScans
    BY DEF ScanTyped, ScanRecord
  <2>5. /\ sweep.at \in {"idle", "probe", "record", "dismiss", "skip"}
        /\ sweep.todo \subseteq Row /\ sweep.verdict \in Liveness /\ sweep.row \in Row \cup {0}
    BY DEF SweepShape, SweepRecord
  <2> QED
    BY <2>1, <2>2, <2>3, <2>4, <2>5 DEF PostingsTypeOK
<1> QED
  BY <1>1, PostingsInvInit, PostingsInvStep, PTL DEF PostingsSpec

\* "One real position, one card" (store.py:748), of any rows: the query has an answer,
\* none shows a position twice, and no posting that waits is without a card, its own or
\* that of a row of its key.
THEOREM CardsAreUnique == PostingsSpec => []OneCard
<1>1. PostingsInv => OneCard
  <2> SUFFICES ASSUME PostingsInv PROVE OneCard
    OBVIOUS
  <2>1. RowsShape
    BY DEF PostingsInv
  <2>2. ASSUME NEW q \in AssistQueues, NEW i \in Finishable
        PROVE  /\ CardsFor(i, q) <= 1
               /\ \E j \in Finishable : DedupeKey(rows[j].ad) = DedupeKey(rows[i].ad) /\ CardsFor(j, q) = 1
    <3>1. PICK p \in PerKey : q \subseteq p /\ \A l \in p : CardsFor(l, q) = 1
      BY DEF AssistQueues
    <3>2. p \in SUBSET Finishable /\ q \in SUBSET Finishable
      BY <3>1 DEF PerKey
    <3>3. CardsFor(i, q) <= 1
      <4>1. CASE \A x \in q : ~SameCard(x, i)
        BY <2>1, <3>2, <4>1, CardsAre
      <4>2. ASSUME NEW x \in q, SameCard(x, i) PROVE CardsFor(i, q) <= 1
        <5>1. CardsFor(x, q) = 1
          BY <3>1
        <5>2. CardsFor(i, q) = CardsFor(x, q)
          BY <4>2 DEF CardsFor, SameCard
        <5> QED
          BY <5>1, <5>2
      <4> QED
        BY <4>1, <4>2
    <3>4. PICK j \in p : SameKey(j, i)
      BY <2>1, <3>2, PerKeyIs
    <3> QED
      BY <3>1, <3>2, <3>3, <3>4 DEF SameKey
  <2> QED
    BY <2>1, <2>2, SomeQueue DEF OneCard
<1> QED
  BY <1>1, PostingsInvInit, PostingsInvStep, PTL DEF PostingsSpec

\* What discovery leaves out is accounted for (channels/base.py dedupe): the posting, or a
\* waiting row of its position, is applied to, dismissed or shown, whatever else goes on.
THEOREM DropsExplained == PostingsSpec => DroppedIsExplained
<1>1. PostingsInv /\ PostingsInv' =>
        [\A a \in Ad : Judge(a) /\ a \notin scan.kept' => Explained(a)']_postingsVars
  BY DropsAreExplained
<1> QED
  BY <1>1, PostingsInvInit, PostingsInvStep, PTL DEF PostingsSpec, DroppedIsExplained
=============================================================================
