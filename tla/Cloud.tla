------------------------------- MODULE Cloud --------------------------------
(***************************************************************************)
(* cvsender/cloud.py: the CV, the profile, the run settings and the        *)
(* learned answers of a device, mirrored to one row, one blob and two      *)
(* tables elsewhere.  Every save is pushed by a thread of its own, the     *)
(* start-up synchronises on another, and 'Restore' and 'Back up now' run   *)
(* inside their `async def` handlers, on the server's event loop.          *)
(*                                                                         *)
(* A value is a version, one per edit, 0 when there is none.  A push reads *)
(* the database in one step and posts in another; a pull and the write     *)
(* that depends on its answer are one step.  A request may fail, and then  *)
(* has no effect.                                                          *)
(***************************************************************************)
EXTENDS Naturals, Sequences

CONSTANTS
  Bg,                            \* daemon threads that can be alive (a bound)
  Loop,                          \* the server's event loop, while a handler syncs on it
  MaxEdits, MaxSyncs             \* bounds: edits; restarts, restores and back-ups

ASSUME CloudAssumption ==
  /\ Loop \notin Bg
  /\ MaxEdits \in Nat /\ MaxSyncs \in Nat

VARIABLES
  device,    \* what the database and the CV directory hold
  cloud,     \* what the service holds for the owner
  thread,    \* per thread: the steps to take, and its variables, see Fresh
  over,      \* threads that run restore(overwrite=True)
  edits, syncs,
  alone,     \* history: since the start-up sync began it was not disturbed
  before     \* history: cloud and device when it began, kept while it is alone

countVars  == <<edits, syncs>>
histVars   == <<alone, before>>
cloudVars  == <<device, cloud, thread, over, histVars, countVars>>

Thread == Bg \cup {Loop}
None == 0

Version == 0 .. MaxEdits
\* One setting and one answer stand for all of them.
Device == [profile : Version, sha : Version, file : Version, setting : Version,
           answer : Version]
Remote == [row : BOOLEAN, profile : Version, sha : Version, blob : Version,
           setting : Version, answer : Version]

Empty   == [profile |-> None, sha |-> None, file |-> None, setting |-> None, answer |-> None]
Nothing == [row |-> FALSE, profile |-> None, sha |-> None, blob |-> None,
            setting |-> None, answer |-> None]

\* The order of the requests in restore, sync_on_start and the four mirrors.
PushProfile == <<"takeProfile", "postProfile">>
PushAnswers == <<"takeAnswer", "postAnswer">>
PushSetting == <<"postSetting">>
PushCv      == <<"takeCv", "postCv">>
Restore     == <<"read", "pullProfile", "download", "saveCv", "pullSetting", "pullAnswer">>
SyncOnStart == Restore \o <<"read">> \o PushProfile \o PushAnswers
                       \o <<"compare">> \o PushCv \o PushProfile
MirrorCv    == PushCv \o PushProfile

\* What it read of the device, what it is about to send, and the hash of the CV in
\* the row it pulled.
Fresh == [todo |-> <<>>, seen |-> Empty, payload |-> Empty, sha |-> None]

\* The given fields of a device.
Part(d, fields) == [f \in DOMAIN d |-> IF f \in fields THEN d[f] ELSE None]

Unknown   == [device |-> Empty, cloud |-> Nothing]
Disturbed == alone' = FALSE /\ before' = Unknown

Idle(t)  == thread[t] = Fresh
At(t, s) == ~Idle(t) /\ Head(thread[t].todo) = s

\* Thread t, with its variables as in `mine`, goes on n steps further, or ends.
Goes(t, mine, n) ==
  thread' = [thread EXCEPT ![t] = IF n < Len(@.todo)
                                    THEN [mine EXCEPT !.todo = SubSeq(@, n + 1, Len(@))]
                                    ELSE Fresh]
Skip(t, n) == Goes(t, thread[t], n)
Ends(t)    == thread' = [thread EXCEPT ![t] = Fresh]

\* A new process, of which thread t synchronises.
Starts(t) == [u \in Thread |-> IF u = t THEN [Fresh EXCEPT !.todo = SyncOnStart] ELSE Fresh]

CloudTypeOK ==
  /\ device \in Device /\ cloud \in Remote
  /\ DOMAIN thread = Thread
  /\ \A t \in Thread : /\ Len(thread[t].todo) <= Len(SyncOnStart)
                        /\ thread[t].seen \in Device /\ thread[t].payload \in Device
                        /\ thread[t].sha \in Version
  /\ over \subseteq Thread
  /\ edits \in 0 .. MaxEdits /\ syncs \in 0 .. MaxSyncs
  /\ alone \in BOOLEAN
  /\ before \in [device : Device, cloud : Remote]

\* A new process on a device with some data, or none, or a copied owner secret.
CloudInit ==
  /\ device = Empty /\ cloud = Nothing
  /\ \E t \in Bg : thread = Starts(t)
  /\ over = {}
  /\ edits = 0 /\ syncs = 0
  /\ alone = TRUE
  /\ before = Unknown

----------------------------------------------------------------------------
(* the requests that read the cloud *)

\* local = get_profile() or {}
Read(t) ==
  /\ At(t, "read")
  /\ Goes(t, [thread[t] EXCEPT !.seen = Part(device, {"profile", "sha"})], 1)
  /\ UNCHANGED <<device, cloud, over, histVars, countVars>>

\* pull_profile, and the profile saved if it is wanted.  Whether this device has
\* a profile is what it had before the request.  Without a CV to fetch, the two
\* steps of the CV are left out.
PullProfile(t) ==
  LET wanted == cloud.row /\ (t \in over \/ thread[t].seen.profile = None)
      haveCv == thread[t].seen.sha # None /\ device.file # None
      wantCv == cloud.row /\ cloud.sha # None /\ (t \in over \/ ~haveCv)
  IN  /\ At(t, "pullProfile")
      /\ device' = IF wanted THEN [device EXCEPT !.profile = cloud.profile] ELSE device
      /\ Goes(t, [thread[t] EXCEPT !.sha = cloud.sha], IF wantCv THEN 1 ELSE 3)
      /\ UNCHANGED <<cloud, over, histVars, countVars>>

\* The request failed: no row, so nothing of the profile is restored.
PullProfileFails(t) ==
  /\ At(t, "pullProfile")
  /\ Skip(t, 3)
  /\ Disturbed
  /\ UNCHANGED <<device, cloud, over, countVars>>

Download(t) ==
  /\ At(t, "download")
  /\ IF cloud.blob = None
       THEN Skip(t, 2) /\ UNCHANGED device
       ELSE Skip(t, 1) /\ device' = [device EXCEPT !.file = cloud.blob]
  /\ UNCHANGED <<cloud, over, histVars, countVars>>

DownloadFails(t) ==
  /\ At(t, "download")
  /\ Skip(t, 2)
  /\ Disturbed
  /\ UNCHANGED <<device, cloud, over, countVars>>

\* The CV's hash is the one of the row pulled before the download.
SaveCv(t) ==
  /\ At(t, "saveCv")
  /\ device' = [device EXCEPT !.sha = thread[t].sha]
  /\ Skip(t, 1)
  /\ UNCHANGED <<cloud, over, histVars, countVars>>

\* Mutants of Take: what is here is not looked at; it always wins; and the cloud
\* is taken only on demand.
TakeAlways(t, mine, theirs)   == IF theirs # None THEN theirs ELSE mine
TakeNever(t, mine, theirs)    == IF mine = None THEN theirs ELSE mine
TakeOnDemand(t, mine, theirs) == IF theirs # None /\ t \in over THEN theirs ELSE mine

\* What the cloud has is taken if nothing is here, or if the cloud is to win.
Take(t, mine, theirs) ==
  IF theirs # None /\ (t \in over \/ mine = None) THEN theirs ELSE mine

PullSetting(t) ==
  /\ At(t, "pullSetting")
  /\ device' = [device EXCEPT !.setting = Take(t, @, cloud.setting)]
  /\ Skip(t, 1)
  /\ UNCHANGED <<cloud, over, histVars, countVars>>

PullAnswer(t) ==
  /\ At(t, "pullAnswer")
  /\ device' = [device EXCEPT !.answer = Take(t, @, cloud.answer)]
  /\ Skip(t, 1)
  /\ UNCHANGED <<cloud, over, histVars, countVars>>

\* {} or [] is returned.
PullFails(t) ==
  /\ At(t, "pullSetting") \/ At(t, "pullAnswer")
  /\ Skip(t, 1)
  /\ Disturbed
  /\ UNCHANGED <<device, cloud, over, countVars>>

\* The CV is uploaded only if the row differs -- the row this very thread has
\* just pushed.
Compare(t) ==
  LET stale == cloud.sha # thread[t].seen.sha
  IN  /\ At(t, "compare")
      /\ IF thread[t].seen.sha # None /\ device.file # None /\ stale THEN Skip(t, 1) ELSE Ends(t)
      /\ UNCHANGED <<device, cloud, over, histVars, countVars>>

\* No answer is an empty row: everything differs.
CompareFails(t) ==
  /\ At(t, "compare")
  /\ IF thread[t].seen.sha # None /\ device.file # None THEN Skip(t, 1) ELSE Ends(t)
  /\ Disturbed
  /\ UNCHANGED <<device, cloud, over, countVars>>

----------------------------------------------------------------------------
(* the requests that write it *)

Sent(t) == IF At(t, "takeProfile") THEN {"profile", "sha"}
           ELSE IF At(t, "takeAnswer") THEN {"answer"} ELSE {"file"}

\* A push reads what it sends first.  A CV that is not on the disk is not sent.
TakePayload(t) ==
  /\ \E s \in {"takeProfile", "takeAnswer", "takeCv"} : At(t, s)
  /\ Goes(t, [thread[t] EXCEPT !.payload = Part(device, Sent(t))],
          IF At(t, "takeCv") /\ device.file = None THEN 2 ELSE 1)
  /\ UNCHANGED <<device, cloud, over, histVars, countVars>>

\* Mutant of Post: the row is sent without the profile's fields.
PostCvOnly(t) ==
  IF At(t, "postProfile") THEN [cloud EXCEPT !.row = TRUE, !.sha = thread[t].payload.sha]
  ELSE IF At(t, "postCv") THEN [cloud EXCEPT !.blob = thread[t].payload.file]
  ELSE IF At(t, "postSetting") THEN [cloud EXCEPT !.setting = thread[t].payload.setting]
  ELSE [cloud EXCEPT !.answer = IF thread[t].payload.answer = None THEN @ ELSE thread[t].payload.answer]

\* The row with all its columns, empty ones included; the blob; a pair; or the
\* answers, of which there may be none to send.
Post(t) ==
  IF At(t, "postProfile")
    THEN [cloud EXCEPT !.row = TRUE, !.profile = thread[t].payload.profile, !.sha = thread[t].payload.sha]
  ELSE IF At(t, "postCv") THEN [cloud EXCEPT !.blob = thread[t].payload.file]
  ELSE IF At(t, "postSetting") THEN [cloud EXCEPT !.setting = thread[t].payload.setting]
  ELSE [cloud EXCEPT !.answer = IF thread[t].payload.answer = None THEN @ ELSE thread[t].payload.answer]

Posting(t) == \E s \in {"postProfile", "postCv", "postSetting", "postAnswer"} : At(t, s)

Sends(t) ==
  /\ Posting(t)
  /\ cloud' = Post(t)
  /\ Goes(t, [thread[t] EXCEPT !.payload = Empty], 1)
  /\ UNCHANGED <<device, over, histVars, countVars>>

SendFails(t) ==
  /\ Posting(t)
  /\ Goes(t, [thread[t] EXCEPT !.payload = Empty], 1)
  /\ Disturbed
  /\ UNCHANGED <<device, cloud, over, countVars>>

----------------------------------------------------------------------------
(* what starts a thread *)

\* Mutant of Spare: the push waits behind what a thread is doing.
AnyThread == Bg

\* _cloud_bg: a new thread for every push.
Spare == {t \in Bg : Idle(t)}

\* A handler changed the device; it runs only when the event loop is free, and
\* its push gets a thread of its own.
Edit(new, mirror) ==
  /\ edits < MaxEdits /\ edits' = edits + 1
  /\ Idle(Loop)
  /\ device' = new
  /\ Disturbed
  /\ \E t \in Spare :
       thread' = [thread EXCEPT ![t].todo = @ \o mirror, ![t].payload = Part(new, {"setting"})]
  /\ UNCHANGED <<cloud, over, syncs>>

New == edits + 1

PutProfile  == Edit([device EXCEPT !.profile = New], PushProfile)
UploadCv    == Edit([device EXCEPT !.file = New, !.sha = New], MirrorCv)
PutSettings == Edit([device EXCEPT !.setting = New], PushSetting)
SaveAnswers == Edit([device EXCEPT !.answer = New], PushAnswers)

\* 'Restore from cloud' and 'Back up now': on the event loop, from start to end.
OnTheLoop(program, overwrite) ==
  /\ syncs < MaxSyncs /\ syncs' = syncs + 1
  /\ Idle(Loop)
  /\ thread' = [thread EXCEPT ![Loop].todo = program]
  /\ over' = IF overwrite THEN {Loop} ELSE {}
  /\ alone' = \A t \in Bg : Idle(t)
  /\ before' = IF alone' THEN [device |-> device, cloud |-> cloud] ELSE Unknown
  /\ UNCHANGED <<device, cloud, edits>>

CloudRestore == OnTheLoop(Restore, TRUE)
CloudPush    == OnTheLoop(SyncOnStart, FALSE)

\* The process starts again, on the same data, on an empty directory with the
\* owner secret copied there, or on one whose CV file has gone: daemon threads
\* are gone, and the start-up synchronises.
Restart ==
  /\ syncs < MaxSyncs /\ syncs' = syncs + 1
  /\ \E d \in {device, Empty, [device EXCEPT !.file = None]} :
       /\ device' = d
       /\ before' = [device |-> d, cloud |-> cloud]
  /\ \E t \in Bg : thread' = Starts(t)
  /\ over' = {}
  /\ alone' = TRUE
  /\ UNCHANGED <<cloud, edits>>

CloudStep(t) ==
  \/ Read(t) \/ PullProfile(t) \/ PullProfileFails(t) \/ Download(t) \/ DownloadFails(t)
  \/ SaveCv(t) \/ PullSetting(t) \/ PullAnswer(t) \/ PullFails(t) \/ Compare(t)
  \/ CompareFails(t) \/ TakePayload(t) \/ Sends(t) \/ SendFails(t)

CloudNext ==
  \/ \E t \in Thread : CloudStep(t)
  \/ PutProfile \/ UploadCv \/ PutSettings \/ SaveAnswers
  \/ CloudRestore \/ CloudPush \/ Restart

CloudSpec == CloudInit /\ [][CloudNext]_cloudVars

----------------------------------------------------------------------------
(* What the cloud is for.  `Undisturbed` is the state after the last sync or
   restore has ended, if nothing else ran and every request was answered. *)

Undisturbed == alone /\ \A t \in Thread : Idle(t)

\* "then push whatever is local so the cloud is never behind" (cloud.py:342): an
\* undisturbed sync leaves the row and the answers equal on both sides,
\* whichever of the two was empty before.
SyncMirrors ==
  Undisturbed /\ over = {} =>
    /\ cloud.row /\ cloud.profile = device.profile /\ cloud.sha = device.sha
    /\ device.answer = cloud.answer

\* "so they survive a wipe" (README.md:233): a device that was wiped gets all of
\* it back from an undisturbed sync, and the cloud loses nothing by it.
WipeRecovers ==
  Undisturbed /\ over = {} /\ before.device = Empty /\ before.cloud.row =>
    LET had == before.cloud
    IN  /\ device.profile = had.profile
        /\ device.setting = had.setting /\ device.answer = had.answer
        /\ had.sha # None /\ had.blob # None => device.file = had.blob /\ device.sha = had.sha
        /\ cloud.profile = had.profile /\ cloud.blob = had.blob
        /\ cloud.setting = had.setting /\ cloud.answer = had.answer

\* "With overwrite=True the cloud wins" (cloud.py:302), and is only read.
RestoreTakesCloud ==
  Undisturbed /\ over # {} =>
    /\ cloud = before.cloud
    /\ cloud.row => device.profile = cloud.profile
    /\ cloud.setting # None => device.setting = cloud.setting
    /\ cloud.answer # None => device.answer = cloud.answer
    /\ cloud.row /\ cloud.sha # None /\ cloud.blob # None =>
         device.file = cloud.blob /\ device.sha = cloud.sha

\* "an existing one is never clobbered" (cloud.py:301), as long as nobody edits
\* while the start-up synchronises: nothing the device has is changed by it.
ExistingNotClobbered ==
  [][\A t \in Thread \ over :
       CloudStep(t) /\ alone =>
         \A f \in {"profile", "setting", "answer", "file"} :
           before.device[f] # None => device'[f] = device[f]]_cloudVars

\* "Upload the CV only if the cloud copy differs, is missing, ..." (cloud.py:348):
\* an undisturbed sync of a device that has its CV leaves that CV in the cloud.
CvIsMirrored ==
  Undisturbed /\ over = {} /\ device.file # None => cloud.blob = device.file
=============================================================================
