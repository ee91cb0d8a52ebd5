------------------------------- MODULE Stream -------------------------------
(***************************************************************************)
(* The event stream of one run, GET /api/runs/{id}/events (main.py), read  *)
(* by the page with an EventSource (web/app.js) that reconnects by itself. *)
(* Events of all runs share one table and one sequence of ids.             *)
(***************************************************************************)
EXTENDS Naturals, Sequences, FiniteSets, SequencesExt

CONSTANTS
  PageSize,               \* the limit of events_after
  MaxEvents, MaxDrops     \* bounds: rows of the table; connections lost

ASSUME StreamAssumption ==
  PageSize \in Nat \ {0} /\ {MaxEvents, MaxDrops} \subseteq Nat

VARIABLES
  log,       \* run_events: which run each id belongs to, "mine" or "other"
  final,     \* the status of the run is done, cancelled or error
  server,    \* the generator: where it is, its cursor, the rows in hand, the status it read
  wire,      \* frames sent and not yet received: an id, or End
  got,       \* ids the page has handled, in order
  over,      \* it was told that the run has ended
  drops,
  promised   \* history: how many rows there were when the run became final

streamVars == <<log, final, server, wire, got, over, drops, promised>>

End == 0
Off == [at |-> "off", cursor |-> 0, rows |-> <<>>, final |-> FALSE]

StreamTypeOK ==
  /\ log \in Seq({"mine", "other"}) /\ Len(log) <= MaxEvents
  /\ final \in BOOLEAN /\ over \in BOOLEAN
  /\ server.at \in {"off", "fetch", "yield", "status", "conclude"}
  /\ server.cursor \in 0 .. Len(log) /\ server.final \in BOOLEAN
  /\ server.rows \in Seq(1 .. Len(log)) /\ Len(server.rows) <= PageSize
  /\ wire \in Seq(0 .. Len(log)) /\ got \in Seq(1 .. Len(log))
  /\ drops \in 0 .. MaxDrops /\ promised \in 0 .. MaxEvents

StreamInit ==
  /\ log = <<>> /\ final = FALSE /\ promised = 0
  /\ server = Off /\ wire = <<>> /\ got = <<>> /\ over = FALSE /\ drops = 0

\* ORDER BY id: the k-th id is the one that k - 1 others are smaller than.
Place(i, ids) == Cardinality({j \in ids : j < i}) + 1
InOrder(ids) == [k \in 1 .. Cardinality(ids) |-> CHOOSE i \in ids : Place(i, ids) = k]

\* The ids of this run's rows after a cursor, in order.
Mine == {i \in 1 .. Len(log) : log[i] = "mine"}
After(cursor) == InOrder({i \in Mine : i > cursor})

\* add_event, in a transaction; the run's last one comes after its status.
Emit(run) ==
  /\ Len(log) < MaxEvents /\ log' = Append(log, run)
  /\ UNCHANGED <<final, server, wire, got, over, drops, promised>>

Finish ==
  /\ ~final /\ final' = TRUE /\ promised' = Len(log)
  /\ UNCHANGED <<log, server, wire, got, over, drops>>

\* Last-Event-ID, the last one that arrived; without it the query's cursor, 0.
Resume == IF got = <<>> THEN 0 ELSE Last(got)

Connect ==
  /\ server.at = "off"
  /\ server' = [Off EXCEPT !.at = "fetch", !.cursor = Resume]
  /\ wire' = <<>>
  /\ UNCHANGED <<log, final, got, over, drops, promised>>

\* Mutant of FirstPage: no limit.
AllPages(rows) == rows

FirstPage(rows) == SubSeq(rows, 1, IF Len(rows) < PageSize THEN Len(rows) ELSE PageSize)

Fetch ==
  LET rows == After(server.cursor)
  IN  /\ server.at = "fetch"
      /\ server' = [server EXCEPT !.at = "yield", !.rows = FirstPage(rows)]
      /\ UNCHANGED <<log, final, wire, got, over, drops, promised>>

Yield ==
  /\ server.at = "yield"
  /\ IF server.rows = <<>>
       THEN server' = [server EXCEPT !.at = "status"] /\ UNCHANGED wire
       ELSE /\ server' = [server EXCEPT !.cursor = Head(server.rows), !.rows = Tail(@)]
            /\ wire' = Append(wire, Head(server.rows))
  /\ UNCHANGED <<log, final, got, over, drops, promised>>

ReadStatus ==
  /\ server.at = "status"
  /\ server' = [server EXCEPT !.at = "conclude", !.final = final]
  /\ UNCHANGED <<log, final, wire, got, over, drops, promised>>

\* Mutant of NoMore: the status alone ends the stream.
NoMoreUnasked == TRUE

NoMore == After(server.cursor) = <<>>

\* 'end' and the end of the response, or half a second's sleep.
Conclude ==
  /\ server.at = "conclude"
  /\ IF server.final /\ NoMore
       THEN server' = Off /\ wire' = Append(wire, End)
       ELSE server' = [server EXCEPT !.at = "fetch", !.final = FALSE] /\ UNCHANGED wire
  /\ UNCHANGED <<log, final, got, over, drops, promised>>

Receive ==
  /\ wire # <<>> /\ wire' = Tail(wire)
  /\ IF Head(wire) = End THEN over' = TRUE /\ UNCHANGED got
     ELSE got' = Append(got, Head(wire)) /\ UNCHANGED over
  /\ UNCHANGED <<log, final, server, drops, promised>>

\* The connection is lost, or the server starts again: what is on the wire is gone.
Lose ==
  /\ server.at # "off" \/ wire # <<>>
  /\ drops < MaxDrops /\ drops' = drops + 1
  /\ server' = Off /\ wire' = <<>>
  /\ UNCHANGED <<log, final, got, over, promised>>

\* The page reconnects when the response is over and all of it has arrived.
Reconnect == wire = <<>> /\ Connect

StreamServer == Fetch \/ Yield \/ ReadStatus \/ Conclude
StreamNext ==
  \/ \E run \in {"mine", "other"} : Emit(run)
  \/ Finish \/ Reconnect \/ StreamServer \/ Receive \/ Lose

----------------------------------------------------------------------------
Exact == IsPrefix(got, After(0))

EndIsComplete == over => \A i \in Mine : i <= promised => Contains(got, i)

\* "Events themselves are durable" (core/sse.py:2), "EventSource auto-reconnects
\* with Last-Event-ID" (web/app.js:83): across connections the page gets each event
\* of its run once and in order; and when it is told that the run has ended it has
\* all that was logged before the run's status said so.
StreamIsExact == Exact /\ EndIsComplete
=============================================================================
