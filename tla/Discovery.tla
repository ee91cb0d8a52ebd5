----------------------------- MODULE Discovery ------------------------------
(***************************************************************************)
(* Where a scan's postings come from: the LinkedIn search, the feeds of    *)
(* the boards asked one after the other (channels/*.py), the score that    *)
(* says which are worth preparing (funnel/scoring.py) and the pick of the  *)
(* best (engine/worker.py).  What was seen before is left out by Postings. *)
(*                                                                         *)
(* A posting is what its texts contain: whether the title has a word of    *)
(* each list, how many skills match, which years are asked for and where.  *)
(***************************************************************************)
EXTENDS Integers, Sequences, FiniteSets, FiniteSetsExt

CONSTANTS
  Boards,         \* tokens, in the order they are asked
  Malformed,      \* tokens of a board that cannot be asked: comeet's without a colon
  Blocked,        \* companies whose forms have stopped us before
  Listing,        \* per board: the postings it may list, one of them or none
  MaxSkipped,     \* bound: records of a board that are no posting, having no id
  Cards,          \* the postings the LinkedIn search may show
  Queries, Pages, \* searches, and result pages of each
  Mode, Strictness, Cap

\* Points out of 100.
Threshold == [loose |-> 35, balanced |-> 45, strict |-> 75]
Modes == {"israel_only", "israel_remote", "anywhere"}

Board == {Boards[n] : n \in DOMAIN Boards}

Posting == [strong : BOOLEAN, weak : BOOLEAN, notSoftware : BOOLEAN, borderline : BOOLEAN,
            junior : BOOLEAN, senior : BOOLEAN, levelOne : BOOLEAN, student : BOOLEAN,
            skills : {0, 3, 4, 5}, years : {"none", "few", "some", "many"}, required : BOOLEAN,
            place : {"israel", "remote", "remote region", "remote abroad", "abroad", "unknown"}]

ASSUME DiscoveryAssumption ==
  /\ Boards \in Seq(Board) /\ Listing \in [Board -> SUBSET Posting]
  /\ Malformed \subseteq Board /\ Blocked \subseteq Board /\ MaxSkipped \in Nat
  /\ Queries \in Nat /\ Pages \in Nat \ {0} /\ Cap \in Nat \ {0}
  /\ Mode \in Modes /\ Strictness \in DOMAIN Threshold

----------------------------------------------------------------------------
(* score_job *)

\* "Remote (US)" is not remote; a region that has Israel in it is.
Reachable(p, mode) ==
  CASE mode = "israel_only"   -> p.place = "israel"
    [] mode = "israel_remote" -> p.place \in {"israel", "remote", "remote region", "unknown"}
    [] mode = "anywhere"      -> TRUE

Software(p) == p.strong \/ (p.weak /\ ~p.notSoftware)

\* Held for a human to look at.
Review(p) == p.borderline \/ p.notSoftware \/ ~p.strong

If(condition, points) == IF condition THEN points ELSE 0

\* Mutant of SkillPoints: many skills count as the few that are left over.
SkillPointsRest(n) == IF n > 4 THEN 4 ELSE 8 * n

\* Eight each for four of them, four for the others together.
SkillPoints(n) == 8 * Min({n, 4}) + If(n > 4, 4)

YearsPoints(p) ==
  CASE p.years = "none" -> 0
    [] p.years = "few"  -> 15
    [] p.years = "some" -> IF p.required THEN -12 ELSE -4
    [] p.years = "many" -> IF p.required THEN -35 ELSE -8

PlacePoints(p) ==
  IF p.place = "israel" THEN 8 ELSE If(p.place \in {"remote", "remote region"}, 4)

Score(p) ==
  LET sum == 50 + If(p.strong, 5) + If(p.junior, 20) + If(p.levelOne /\ ~p.senior, 5)
                + If(p.student, 12) + SkillPoints(p.skills) + YearsPoints(p)
                + PlacePoints(p) + If(Review(p), -12)
  IN  Max({0, Min({100, sum})})

\* The stage at which a posting is dropped, or "kept".
Verdict(p, mode, strictness) ==
  IF ~Software(p) THEN "role"
  ELSE IF ~Reachable(p, mode) THEN "geography"
  ELSE IF p.senior /\ ~p.junior THEN "seniority"
  ELSE IF Score(p) < Threshold[strictness] THEN "score" ELSE "kept"

----------------------------------------------------------------------------
VARIABLES
  phase,     \* of the discovery
  search,    \* LinkedIn: the query and the page it is at, and the cards seen
  todo,      \* boards left to ask
  health,    \* per board asked: its status and how many records it lists
  jobs,      \* the postings fetched, each with its board
  chosen     \* the postings that will be prepared

discoveryVars == <<phase, search, todo, health, jobs, chosen>>

DiscoveryTypeOK ==
  /\ phase \in {"search", "ask", "judge", "picked", "error", "cancelled"}
  /\ search.query \in 1 .. Queries + 1 /\ search.page \in 1 .. Pages
  /\ search.seen \subseteq Cards
  /\ todo \in Seq(Board) /\ Len(todo) <= Len(Boards)
  /\ DOMAIN health \subseteq Board
  /\ \A b \in DOMAIN health : health[b].status \in {"ok", "failed"} /\ health[b].jobs \in Nat
  /\ \A j \in jobs : j.company \in Board /\ j.ad \in Posting
  /\ chosen \subseteq jobs

FirstQuery == [query |-> 1, page |-> 1, seen |-> {}]

DiscoveryInit ==
  /\ phase = "search"
  /\ search = FirstQuery
  /\ todo = Boards /\ health = <<>>
  /\ jobs = {} /\ chosen = {}

----------------------------------------------------------------------------
(* the LinkedIn search *)

NextQuery(seen) == [query |-> search.query + 1, page |-> 1, seen |-> seen]

\* Cards are read off the result pane, after it was scrolled; a page that is not
\* full, or shows nothing new, is the last of its query.
SearchPage(rows, full) ==
  /\ phase = "search" /\ search.query <= Queries
  /\ search' = IF full /\ rows \ search.seen # {} /\ search.page < Pages
                 THEN [search EXCEPT !.page = @ + 1, !.seen = @ \cup rows]
                 ELSE NextQuery(search.seen \cup rows)
  /\ UNCHANGED <<phase, todo, health, jobs, chosen>>

\* The page cannot be opened: the next query.
SearchFails ==
  /\ phase = "search" /\ search.query <= Queries
  /\ search' = NextQuery(search.seen)
  /\ UNCHANGED <<phase, todo, health, jobs, chosen>>

\* LinkedIn asks who is there, or the queries are done: what was seen is prepared
\* as Postings and Forms say, before the boards are asked.
SearchEnds ==
  /\ phase = "search" /\ phase' = "ask"
  /\ search' = FirstQuery
  /\ UNCHANGED <<todo, health, jobs, chosen>>

----------------------------------------------------------------------------
(* the boards *)

\* Mutant of AfterFailure: one dead board ends the asking.
AfterFailureNone(boards) == <<>>

AfterFailure(boards) == boards

\* A record is counted also when it is left out of the postings.
Answered(b, status, listed, skipped, rest) ==
  /\ todo' = rest
  /\ LET record == [status |-> status, jobs |-> Cardinality(listed) + skipped]
     IN  health' = [c \in DOMAIN health \cup {b} |-> IF c = b THEN record ELSE health[c]]
  /\ jobs' = jobs \cup {[company |-> b, ad |-> p] : p \in listed}
  /\ UNCHANGED <<phase, search, chosen>>

Asking == phase = "ask" /\ todo # <<>>
Calling == Asking /\ Head(todo) \notin Malformed

\* Passed over, with no record of it.
Skip ==
  /\ Asking /\ Head(todo) \in Malformed
  /\ todo' = Tail(todo)
  /\ UNCHANGED <<phase, search, health, jobs, chosen>>

Ask(listed, skipped) == Calling /\ Answered(Head(todo), "ok", listed, skipped, Tail(todo))

\* Another status than 200, no connection, or no JSON.
AskFails == Calling /\ Answered(Head(todo), "failed", {}, 0, AfterFailure(Tail(todo)))

\* A record of another shape than expected raises, and nothing catches it before
\* the run does.
AskRaises ==
  /\ Calling /\ phase' = "error" /\ jobs' = {}
  /\ UNCHANGED <<search, todo, health, chosen>>

\* Before each board.
CancelScan ==
  /\ Asking /\ phase' = "cancelled" /\ jobs' = {}
  /\ UNCHANGED <<search, todo, health, chosen>>

AskedAll ==
  /\ phase = "ask" /\ todo = <<>> /\ phase' = "judge"
  /\ UNCHANGED <<search, todo, health, jobs, chosen>>

Relevant == {j \in jobs : Verdict(j.ad, Mode, Strictness) = "kept"}

\* Companies that have not stopped us first, then by score; ties either way.
GoesBefore(j, k) ==
  \/ j.company \notin Blocked /\ k.company \in Blocked
  \/ (j.company \in Blocked) = (k.company \in Blocked) /\ Score(j.ad) >= Score(k.ad)

Pick ==
  /\ phase = "judge" /\ phase' = "picked"
  /\ \E s \in kSubset(Min({Cap, Cardinality(Relevant)}), Relevant) :
       /\ \A j \in s : \A k \in Relevant \ s : GoesBefore(j, k)
       /\ chosen' = s
  /\ UNCHANGED <<search, todo, health, jobs>>

DiscoveryNext ==
  \/ \E rows \in SUBSET Cards, full \in BOOLEAN : SearchPage(rows, full)
  \/ SearchFails \/ SearchEnds
  \/ \E n \in 0 .. MaxSkipped :
       Ask({}, n) \/ (Calling /\ \E p \in Listing[Head(todo)] : Ask({p}, n))
  \/ Skip \/ AskFails \/ AskRaises \/ CancelScan \/ AskedAll \/ Pick

----------------------------------------------------------------------------
(* What a scan that is not cut short promises. *)

\* A board's token, and only it, once in a list that anyone may edit.
NamedOnce(b) == \A m, n \in DOMAIN Boards : Boards[m] = b /\ Boards[n] = b => m = n
From(b) == {j \in jobs : j.company = b}

\* "test_a_dead_board_is_recorded_not_raised" (tests/test_new_channels.py:63), and
\* it costs nothing else: in any order of dead, empty, doubled and malformed boards,
\* each that can be asked has its record, a failed one has put nothing in and no
\* record counts less than the postings kept of it; and room for one more is never
\* left while a relevant posting of any board goes unprepared, nor is it given to a
\* company that has stopped us while another still has one.
NothingLost ==
  phase = "picked" =>
    /\ DOMAIN health = Board \ Malformed
    /\ \A b \in DOMAIN health : NamedOnce(b) =>
         /\ Cardinality(From(b)) <= health[b].jobs
         /\ health[b].status = "failed" => From(b) = {}
    /\ chosen \subseteq Relevant
    /\ \A k \in Relevant \ chosen :
         /\ Cardinality(chosen) = Cap
         /\ \A j \in chosen : j.company \in Blocked => k.company \in Blocked

\* Postings that are p but for one thing in its favour.
Better(p) ==
  {[p EXCEPT !.strong = TRUE], [p EXCEPT !.notSoftware = FALSE], [p EXCEPT !.borderline = FALSE],
   [p EXCEPT !.junior = TRUE], [p EXCEPT !.senior = FALSE], [p EXCEPT !.levelOne = TRUE],
   [p EXCEPT !.student = TRUE], [p EXCEPT !.years = "few"], [p EXCEPT !.required = FALSE],
   [p EXCEPT !.place = "israel"]} \cup {[p EXCEPT !.skills = n] : n \in {4, 5} \cap p.skills .. 5}

\* "a hard requirement is a wall, a preference is not" (scoring.py:221), "a long
\* keyword list can never outweigh seniority" (scoring.py:212): what speaks for a
\* posting never costs it its place, nor does a looser setting.
VerdictIsMonotone ==
  phase = "judge" =>
    \A j \in jobs, mode \in Modes, s \in DOMAIN Threshold :
      Verdict(j.ad, mode, s) = "kept" =>
        /\ \A p \in Better(j.ad) : Verdict(p, mode, s) = "kept"
        /\ \A r \in DOMAIN Threshold :
             Threshold[r] <= Threshold[s] => Verdict(j.ad, mode, r) = "kept"
        /\ Verdict(j.ad, "anywhere", s) = "kept"
=============================================================================
