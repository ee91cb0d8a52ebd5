----------------------------- MODULE Timetable ------------------------------
(***************************************************************************)
(* When scheduler.py starts a scan by itself: the tick, the window of the  *)
(* day, the interval since the last scan, the prediction the dashboard     *)
(* shows, and 'Run now', while the machine sleeps, the server restarts and *)
(* the settings change.  What a scan does is the subject of Pipeline.      *)
(*                                                                         *)
(* The day has Hours hours, however long, and each day as many: the night  *)
(* on which clocks go forward, when scheduler.py:115 adds 86400 seconds to *)
(* an hour past 23:00 and so skips a morning, is left out.  `since` counts *)
(* the hours from the last recorded scan and stops at Long.                *)
(***************************************************************************)
EXTENDS Naturals, FiniteSets, FiniteSetsExt

CONSTANTS
  Hours,         \* of a day
  Settings,      \* values of scan.every_min, scan.from_hour and scan.to_hour, in hours
  Long,          \* a while ago, or never: no interval is longer
  MaxUpsets      \* bound: naps, crashes, changed settings, other runs

ASSUME TimetableAssumption ==
  /\ Hours \in Nat \ {0} /\ Long \in Nat /\ MaxUpsets \in Nat
  /\ \A s \in Settings : /\ DOMAIN s = {"every", "lo", "hi"}
                         /\ s.every \in 1 .. Long /\ s.lo \in 0 .. Hours - 1 /\ s.hi \in 0 .. Hours

VARIABLES
  hour, since,
  settings, on,    \* app_settings; `on` is scheduler.enabled
  run,             \* the active run: none, one of stage_now, or another
  staged,          \* stage_now has started its run and not yet recorded it
  beat,            \* the scheduler ticked in this hour
  upsets

timetableVars == <<hour, since, settings, on, run, staged, beat, upsets>>

TimetableTypeOK ==
  /\ hour \in 0 .. Hours - 1 /\ since \in 0 .. Long
  /\ settings \in Settings /\ on \in BOOLEAN
  /\ run \in {"none", "scan", "other"}
  /\ staged \in BOOLEAN /\ beat \in BOOLEAN /\ upsets \in 0 .. MaxUpsets

\* A server that has never scanned.
TimetableInit ==
  /\ hour = 0 /\ since = Long
  /\ settings \in Settings /\ on = TRUE
  /\ run = "none" /\ staged = FALSE /\ beat = FALSE /\ upsets = 0

----------------------------------------------------------------------------
\* Mutant of WindowEnd: the two settings are taken as they are.
WindowEndAsSet == settings.hi

\* A window that ends before it begins is one hour long.
WindowEnd == Max({settings.lo + 1, settings.hi})
InWindow(h) == settings.lo <= h /\ h < WindowEnd

\* due_now, so many hours from now.
DueIn(n) == InWindow((hour + n) % Hours) /\ since + n >= settings.every

\* Mutant of RollBy: the end of the window still belongs to it.
RollByLate(h) == IF h < settings.lo THEN settings.lo - h
                 ELSE IF h > WindowEnd THEN Hours - h + settings.lo ELSE 0

\* To this morning, or to the next one.
RollBy(h) == IF h < settings.lo THEN settings.lo - h
             ELSE IF h >= WindowEnd THEN Hours - h + settings.lo ELSE 0

\* next_scan_at, in hours from now.
NextScanIn ==
  LET n == IF since >= settings.every THEN 0 ELSE settings.every - since
  IN  n + RollBy((hour + n) % Hours)

----------------------------------------------------------------------------
\* stage_now creates and starts a run unless one is active.
Stage == run = "none" /\ run' = "scan" /\ staged' = TRUE

Tick ==
  /\ ~staged /\ ~beat /\ beat' = TRUE
  /\ IF on /\ DueIn(0) /\ run = "none" THEN Stage ELSE UNCHANGED <<run, staged>>
  /\ UNCHANGED <<hour, since, settings, on, upsets>>

\* scan.last_at is written after the run has started.
Record ==
  /\ staged /\ staged' = FALSE
  /\ since' = 0
  /\ UNCHANGED <<hour, settings, on, run, beat, upsets>>

RunEnds ==
  /\ run # "none" /\ ~staged /\ run' = "none"
  /\ UNCHANGED <<hour, since, settings, on, staged, beat, upsets>>

Pass(n) ==
  /\ hour' = (hour + n) % Hours /\ since' = Min({Long, since + n})
  /\ beat' = FALSE

\* An awake server ticks every minute, so in every hour.  Nothing bounds a run.
HourPasses ==
  /\ beat /\ ~staged /\ Pass(1)
  /\ UNCHANGED <<settings, on, run, staged, upsets>>

Upset == upsets < MaxUpsets /\ upsets' = upsets + 1

Nap ==
  /\ Upset /\ ~staged
  /\ \E n \in 1 .. Hours : Pass(n)
  /\ UNCHANGED <<settings, on, run, staged>>

\* Neither the window nor the interval nor the switch is asked.
RunNow ==
  /\ Upset /\ ~staged /\ Stage
  /\ UNCHANGED <<hour, since, settings, on, beat>>

OtherRun ==
  /\ Upset /\ run = "none" /\ run' = "other"
  /\ UNCHANGED <<hour, since, settings, on, staged, beat>>

ScanToggle ==
  /\ Upset /\ on' = ~on
  /\ UNCHANGED <<hour, since, settings, run, staged, beat>>

PutSettings ==
  /\ Upset /\ settings' \in Settings \ {settings}
  /\ UNCHANGED <<hour, since, on, run, staged, beat>>

\* The run is lost, and the scan too if it was not recorded; but the run stays
\* active in the database when the start-up sweep finds that busy (main.py:69).
Crash ==
  /\ Upset /\ run' \in {"none", run} /\ staged' = FALSE /\ beat' = FALSE
  /\ UNCHANGED <<hour, since, settings, on>>

TimetableNext ==
  \/ Tick \/ Record \/ RunEnds \/ HourPasses
  \/ Nap \/ RunNow \/ OtherRun \/ ScanToggle \/ PutSettings \/ Crash

----------------------------------------------------------------------------
\* "When the next scan will start, for the dashboard" (scheduler.py:108): it is
\* the first hour at which a tick will find a scan due, with the settings of now.
NextScanIsFirstDue ==
  /\ DueIn(NextScanIn)
  /\ \A n \in 0 .. NextScanIn : DueIn(n) => n = NextScanIn

\* "keeps the queue stocked without anyone starting it" (scheduler.py:1): whatever
\* the settings, naps, crashes and other runs, scans go on being started, unless
\* they are switched off or one run stays active for ever.  That does happen: see
\* WedgedRun, whose run nobody ends and stage_now (scheduler.py:128) waits for.
ScansGoOn == <>[]on => []<>staged \/ <>[](run # "none")
=============================================================================
