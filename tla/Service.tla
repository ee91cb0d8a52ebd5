------------------------------ MODULE Service -------------------------------
(***************************************************************************)
(* The parts of the server that stand beside the pipeline: who may use it, *)
(* what a page is told of a run, when scans start, and what they find.     *)
(* They share no variable, so what a property of one says is settled by    *)
(* the steps of that one: in each behaviour one part moves.                *)
(***************************************************************************)
EXTENDS Access, Stream, Timetable, Discovery

VARIABLE part

serviceVars == <<part, accessVars, streamVars, timetableVars, discoveryVars>>

ServiceTypeOK ==
  AccessTypeOK /\ StreamTypeOK /\ TimetableTypeOK /\ DiscoveryTypeOK

ServiceInit ==
  /\ part \in {"access", "stream", "timetable", "discovery"}
  /\ AccessInit /\ StreamInit /\ TimetableInit /\ DiscoveryInit
  /\ part # "access" => passphrase = 0
  /\ part # "timetable" => settings = CHOOSE s \in Settings : TRUE

Moves(p, step, others) == part = p /\ step /\ UNCHANGED <<part, others>>

ServiceNext ==
  \/ Moves("access", AccessNext, <<streamVars, timetableVars, discoveryVars>>)
  \/ Moves("stream", StreamNext, <<accessVars, timetableVars, discoveryVars>>)
  \/ Moves("timetable", TimetableNext, <<accessVars, streamVars, discoveryVars>>)
  \/ Moves("discovery", DiscoveryNext, <<accessVars, streamVars, timetableVars>>)

\* The scheduler's thread ticks and finishes what it started, and time passes.
\* Nothing says that a run ends, or that people do anything.
Clockwork(step) == Moves("timetable", step, <<accessVars, streamVars, discoveryVars>>)

ServiceFairness ==
  WF_serviceVars(Clockwork(Tick \/ Record)) /\ WF_serviceVars(Clockwork(HourPasses))

ServiceSpec == ServiceInit /\ [][ServiceNext]_serviceVars /\ ServiceFairness

\* Timetable's ScansGoOn, of the behaviours in which time passes.
ScansAreStarted == part = "timetable" => ScansGoOn
=============================================================================
