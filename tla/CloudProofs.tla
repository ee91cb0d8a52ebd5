---------------------------- MODULE CloudProofs -----------------------------
(***************************************************************************)
(* What synchronising promises, for any number of background threads,      *)
(* edits, restarts, restores and back-ups.                                 *)
(*                                                                         *)
(* A thread works through a program.  As long as nothing disturbs the last *)
(* synchronisation, device and cloud are determined by what they were when *)
(* it began and by how far it has come: that is the inductive invariant.   *)
(***************************************************************************)
EXTENDS Cloud, SequenceTheorems, TLAPS

StepName == {"read", "pullProfile", "download", "saveCv", "pullSetting", "pullAnswer",
             "takeProfile", "postProfile", "takeAnswer", "postAnswer", "compare",
             "takeCv", "postCv", "postSetting"}
Programs == {Restore, SyncOnStart, PushProfile, PushAnswers, PushSetting, MirrorCv}

\* What is left of a program from its n-th step on.
Rest(p, n) == SubSeq(p, n, Len(p))

Local == [todo : Seq(StepName), seen : Device, payload : Device, sha : Version]

CloudTyped ==
  /\ device \in Device /\ cloud \in Remote
  /\ thread \in [Thread -> Local]
  /\ over \in {{}, {Loop}}
  /\ edits \in 0 .. MaxEdits /\ syncs \in 0 .. MaxSyncs
  /\ alone \in BOOLEAN
  /\ before \in [device : Device, cloud : Remote]

\* A thread that is not idle is somewhere in one of the programs.
InProgram(t) == \E p \in Programs : \E n \in 1 .. Len(p) : thread[t].todo = Rest(p, n)
ProgramsFit == \A t \in Thread : Idle(t) \/ InProgram(t)

----------------------------------------------------------------------------
(* the programs *)

LEMMA ProgramText ==
  /\ \A p \in Programs : p \in Seq(StepName) /\ Len(p) \in 1 .. 16
  /\ Len(PushSetting) = 1 /\ PushSetting[1] = "postSetting"
  /\ Len(PushProfile) = 2 /\ PushProfile[1] = "takeProfile" /\ PushProfile[2] = "postProfile"
  /\ Len(PushAnswers) = 2 /\ PushAnswers[1] = "takeAnswer" /\ PushAnswers[2] = "postAnswer"
  /\ Len(MirrorCv) = 4 /\ MirrorCv[1] = "takeCv" /\ MirrorCv[2] = "postCv"
  /\ MirrorCv[3] = "takeProfile" /\ MirrorCv[4] = "postProfile"
<1>1. /\ Restore \in Seq(StepName) /\ PushProfile \in Seq(StepName) /\ PushAnswers \in Seq(StepName)
      /\ PushCv \in Seq(StepName) /\ PushSetting \in Seq(StepName)
  BY DEF Restore, PushProfile, PushAnswers, PushCv, PushSetting, StepName
<1>2. SyncOnStart \in Seq(StepName) /\ Len(SyncOnStart) = 16
  BY <1>1 DEF SyncOnStart, Restore, PushProfile, PushAnswers, PushCv, StepName
<1>3. MirrorCv \in Seq(StepName) /\ Len(MirrorCv) = 4 /\ MirrorCv[1] = "takeCv" /\ MirrorCv[2] = "postCv"
      /\ MirrorCv[3] = "takeProfile" /\ MirrorCv[4] = "postProfile"
  BY <1>1 DEF MirrorCv, PushProfile, PushCv
<1>4. Len(Restore) = 6
  BY DEF Restore
<1>5. /\ Len(PushSetting) = 1 /\ PushSetting[1] = "postSetting"
      /\ Len(PushProfile) = 2 /\ PushProfile[1] = "takeProfile" /\ PushProfile[2] = "postProfile"
      /\ Len(PushAnswers) = 2 /\ PushAnswers[1] = "takeAnswer" /\ PushAnswers[2] = "postAnswer"
  BY DEF PushSetting, PushProfile, PushAnswers
<1> QED
  BY <1>1, <1>2, <1>3, <1>4, <1>5 DEF Programs

\* A restore is how a synchronisation begins.
LEMMA RestoreText ==
  /\ Len(Restore) = 6 /\ Len(SyncOnStart) = 16
  /\ \A n \in 1 .. 6 : SyncOnStart[n] = Restore[n]
  /\ Restore[1] = "read" /\ Restore[2] = "pullProfile" /\ Restore[3] = "download"
  /\ Restore[4] = "saveCv" /\ Restore[5] = "pullSetting" /\ Restore[6] = "pullAnswer"
<1>1. PushProfile \in Seq(StepName) /\ PushAnswers \in Seq(StepName) /\ PushCv \in Seq(StepName)
      /\ Restore \in Seq(StepName)
  BY DEF PushProfile, PushAnswers, PushCv, StepName, Restore
<1> QED
  BY <1>1 DEF SyncOnStart, Restore, PushProfile, PushAnswers, PushCv, StepName

LEMMA SyncText ==
  /\ SyncOnStart[7] = "read" /\ SyncOnStart[8] = "takeProfile" /\ SyncOnStart[9] = "postProfile"
  /\ SyncOnStart[10] = "takeAnswer" /\ SyncOnStart[11] = "postAnswer" /\ SyncOnStart[12] = "compare"
  /\ SyncOnStart[13] = "takeCv" /\ SyncOnStart[14] = "postCv"
  /\ SyncOnStart[15] = "takeProfile" /\ SyncOnStart[16] = "postProfile"
<1>1. PushProfile \in Seq(StepName) /\ PushAnswers \in Seq(StepName) /\ PushCv \in Seq(StepName)
      /\ Restore \in Seq(StepName)
  BY DEF PushProfile, PushAnswers, PushCv, StepName, Restore
<1> QED
  BY <1>1 DEF SyncOnStart, Restore, PushProfile, PushAnswers, PushCv, StepName

\* Which steps come before those that touch the CV.
LEMMA CvSteps ==
  ASSUME NEW p \in Programs, NEW n \in 1 .. Len(p)
  PROVE  /\ n + 1 <= Len(p) =>
              /\ p[n + 1] = "takeCv"   => p[n] = "compare"
              /\ p[n + 1] = "postCv"   => p[n] = "takeCv"
              /\ p[n + 1] = "download" => p[n] = "pullProfile"
              /\ p[n + 1] = "saveCv"   => p[n] = "download"
         /\ n + 2 <= Len(p) /\ p[n] \in {"download", "takeCv"} =>
              p[n + 2] \in {"pullSetting", "takeProfile"}
         /\ n + 3 <= Len(p) /\ p[n] = "pullProfile" => p[n + 3] = "pullSetting"
<1>1. CASE p = SyncOnStart \/ p = Restore
  <2>1. n \in 1 .. 16 /\ (p = Restore => n \in 1 .. 6)
    <3>1. CASE p = SyncOnStart
      <4>1. n \in 1 .. 16
        BY <3>1, RestoreText
      <4>2. p # Restore
        BY <3>1, RestoreText
      <4> QED
        BY <4>1, <4>2
    <3>2. CASE p = Restore
      <4>1. n \in 1 .. 6
        BY <3>2, RestoreText
      <4> QED
        BY <4>1
    <3> QED
      BY <1>1, <3>1, <3>2
  <2>2. \A i \in 1 .. 6 : p[i] = Restore[i]
    BY <1>1, RestoreText
  <2>3. CASE p = Restore
    BY <2>1, <2>2, <2>3, RestoreText
  <2>4. CASE p = SyncOnStart
    BY <2>1, <2>2, <2>4, RestoreText, SyncText
  <2> QED
    BY <1>1, <2>3, <2>4
<1>2. CASE p = MirrorCv
  BY <1>2, ProgramText
<1>3. CASE p \in {PushProfile, PushAnswers, PushSetting}
  BY <1>3, ProgramText
<1> QED
  BY <1>1, <1>2, <1>3 DEF Programs

----------------------------------------------------------------------------
(* how a thread goes on *)

LEMMA RestGoesOn ==
  ASSUME NEW p \in Programs, NEW n \in 1 .. Len(p), NEW k \in 1 .. 3
  PROVE  /\ Rest(p, n) \in Seq(StepName) /\ Rest(p, n) # <<>>
         /\ Head(Rest(p, n)) = p[n] /\ Len(Rest(p, n)) = Len(p) - n + 1
         /\ n + k <= Len(p) => SubSeq(Rest(p, n), k + 1, Len(Rest(p, n))) = Rest(p, n + k)
<1>1. p \in Seq(StepName) /\ Len(p) \in 1 .. 16 /\ Len(p) \in Nat
  BY ProgramText
<1>2. Rest(p, n) \in Seq(StepName) /\ Len(Rest(p, n)) = Len(p) - n + 1 /\ Rest(p, n)[1] = p[n]
  BY <1>1, SubSeqProperties DEF Rest
<1>3. Rest(p, n) # <<>> /\ Head(Rest(p, n)) = p[n]
  BY <1>2
<1>4. ASSUME n + k <= Len(p)
      PROVE  SubSeq(Rest(p, n), k + 1, Len(Rest(p, n))) = Rest(p, n + k)
  <2> DEFINE m == Len(Rest(p, n))
  <2>1. m = Len(p) - n + 1
    BY <1>2
  <2>2. SubSeq(SubSeq(p, n, Len(p)), k + 1, m) = SubSeq(p, n + (k + 1) - 1, n + m - 1)
    BY <1>1, <1>4, <2>1, SubSeqOfSubSeq
  <2>3. n + (k + 1) - 1 = n + k /\ n + m - 1 = Len(p)
    BY <1>1, <2>1
  <2> QED
    BY <2>2, <2>3 DEF Rest
<1> QED
  BY <1>2, <1>3, <1>4

\* Thread t is at the n-th step of program p.
Stands(t, p, n) == p \in Programs /\ n \in 1 .. Len(p) /\ thread[t].todo = Rest(p, n) /\ ~Idle(t)

\* Whether a thread is at a step is a matter of the program.
LEMMA StandsAt ==
  ASSUME NEW t, NEW p, NEW n, Stands(t, p, n), NEW s
  PROVE  At(t, s) <=> p[n] = s
<1>1. Head(thread[t].todo) = p[n]
  <2>1. 1 \in 1 .. 3
    OBVIOUS
  <2> QED
    BY <2>1, RestGoesOn DEF Stands
<1> QED
  BY <1>1 DEF At, Stands

LEMMA BusyStands ==
  ASSUME ProgramsFit, NEW t \in Thread, ~Idle(t)
  PROVE  \E p \in Programs : \E n \in 1 .. Len(p) : Stands(t, p, n)
BY DEF ProgramsFit, InProgram, Stands

LEMMA FreshIsLocal == Fresh \in Local
<1>1. Empty \in Device /\ None \in Version
  BY CloudAssumption DEF Empty, Device, None, Version
<1>2. <<>> \in Seq(StepName)
  OBVIOUS
<1> QED
  BY <1>1, <1>2 DEF Fresh, Local

\* A thread that goes on k steps is k steps further in its program, or idle.
LEMMA GoesOn ==
  ASSUME CloudTyped, NEW t \in Thread, NEW p, NEW n, Stands(t, p, n),
         NEW mine \in Local, mine.todo = thread[t].todo, NEW k \in 1 .. 3, Goes(t, mine, k)
  PROVE  /\ thread' \in [Thread -> Local]
         /\ \A u \in Thread \ {t} : thread'[u] = thread[u]
         /\ n + k <= Len(p) => /\ thread'[t] = [mine EXCEPT !.todo = Rest(p, n + k)]
                               /\ Stands(t, p, n + k)'
         /\ n + k > Len(p) => thread'[t] = Fresh
<1>1. /\ p \in Programs /\ n \in 1 .. Len(p) /\ Len(p) \in Nat /\ thread[t].todo = Rest(p, n)
      /\ Len(thread[t].todo) = Len(p) - n + 1
  BY ProgramText, RestGoesOn DEF Stands
<1>2. k < Len(thread[t].todo) <=> n + k <= Len(p)
  BY <1>1
<1>3. thread \in [Thread -> Local]
  BY DEF CloudTyped
<1>4. CASE n + k <= Len(p)
  <2>1. SubSeq(mine.todo, k + 1, Len(mine.todo)) = Rest(p, n + k)
    <3>1. SubSeq(Rest(p, n), k + 1, Len(Rest(p, n))) = Rest(p, n + k)
      BY <1>1, <1>4, RestGoesOn
    <3>2. mine.todo = Rest(p, n)
      BY <1>1
    <3> QED
      BY <3>1, <3>2
  <2>2. thread' = [thread EXCEPT ![t] = [mine EXCEPT !.todo = Rest(p, n + k)]]
    BY <1>2, <1>4, <2>1, <1>3 DEF Goes
  <2>3. n + k \in 1 .. Len(p) /\ Rest(p, n + k) \in Seq(StepName) /\ Rest(p, n + k) # <<>>
    BY <1>1, <1>4, RestGoesOn
  <2>4. [mine EXCEPT !.todo = Rest(p, n + k)] \in Local
    BY <2>3 DEF Local
  <2>5. thread' \in [Thread -> Local] /\ thread'[t] = [mine EXCEPT !.todo = Rest(p, n + k)]
        /\ \A u \in Thread \ {t} : thread'[u] = thread[u]
    BY <2>2, <2>4, <1>3
  <2>6. thread'[t].todo = Rest(p, n + k)
    BY <2>5 DEF Local
  <2>7. thread'[t] # Fresh
    BY <2>6, <2>3 DEF Fresh
  <2> QED
    BY <1>1, <1>4, <2>3, <2>5, <2>6, <2>7 DEF Stands, Idle
<1>5. CASE n + k > Len(p)
  <2>1. thread' = [thread EXCEPT ![t] = Fresh]
    <3>1. ~(k < Len(thread[t].todo))
      BY <1>1, <1>2, <1>5
    <3> QED
      BY <3>1, <1>3 DEF Goes
  <2> QED
    BY <1>1, <1>5, <2>1, <1>3, FreshIsLocal
<1> QED
  BY <1>1, <1>4, <1>5

----------------------------------------------------------------------------
(* types *)

LEMMA EmptyTyped == Empty \in Device /\ Nothing \in Remote /\ None \in Version /\ None = 0
  BY CloudAssumption DEF Empty, Nothing, Device, Remote, None, Version

LEMMA PartTyped ==
  ASSUME NEW d \in Device, NEW fields
  PROVE  /\ Part(d, fields) \in Device
         /\ \A f \in {"profile", "sha", "file", "setting", "answer"} :
              Part(d, fields)[f] = IF f \in fields THEN d[f] ELSE None
<1>1. DOMAIN d = {"profile", "sha", "file", "setting", "answer"}
  BY DEF Device
<1>2. Part(d, fields) = [f \in {"profile", "sha", "file", "setting", "answer"} |->
                           IF f \in fields THEN d[f] ELSE None]
  BY <1>1 DEF Part
<1>3. \A f \in {"profile", "sha", "file", "setting", "answer"} : d[f] \in Version
  BY DEF Device
<1>4. Part(d, fields) = [profile |-> IF "profile" \in fields THEN d.profile ELSE None,
                         sha |-> IF "sha" \in fields THEN d.sha ELSE None,
                         file |-> IF "file" \in fields THEN d.file ELSE None,
                         setting |-> IF "setting" \in fields THEN d.setting ELSE None,
                         answer |-> IF "answer" \in fields THEN d.answer ELSE None]
  BY <1>2
<1> QED
  BY <1>2, <1>3, <1>4, EmptyTyped DEF Device

\* What every step of a thread does: it moves that thread only, and keeps the bounds.
LEMMA StepShape ==
  ASSUME CloudTyped, NEW t \in Thread, CloudStep(t)
  PROVE  /\ ~Idle(t)
         /\ device' \in Device /\ cloud' \in Remote /\ over' = over
         /\ edits' = edits /\ syncs' = syncs
         /\ alone' \in BOOLEAN /\ before' \in [device : Device, cloud : Remote]
         /\ Ends(t) \/ \E mine \in Local : \E k \in 1 .. 3 :
                         mine.todo = thread[t].todo /\ Goes(t, mine, k)
<1> DEFINE GoesIn == \E mine \in Local : \E k \in 1 .. 3 :
                       mine.todo = thread[t].todo /\ Goes(t, mine, k)
<1>0. /\ device \in Device /\ cloud \in Remote /\ thread[t] \in Local
      /\ alone \in BOOLEAN /\ before \in [device : Device, cloud : Remote]
  BY DEF CloudTyped
<1>1. \A k \in 1 .. 3 : Skip(t, k) => GoesIn
  BY <1>0 DEF Skip
<1>2. \A d \in Device : [thread[t] EXCEPT !.seen = d] \in Local
  BY <1>0 DEF Local
<1>3. \A v \in Version : [thread[t] EXCEPT !.sha = v] \in Local
  BY <1>0 DEF Local
<1>4. \A d \in Device : [thread[t] EXCEPT !.payload = d] \in Local
  BY <1>0 DEF Local
<1>5. /\ \A x : [thread[t] EXCEPT !.seen = x].todo = thread[t].todo
      /\ \A x : [thread[t] EXCEPT !.sha = x].todo = thread[t].todo
      /\ \A x : [thread[t] EXCEPT !.payload = x].todo = thread[t].todo
  BY <1>0 DEF Local
<1>6. Disturbed => alone' \in BOOLEAN /\ before' \in [device : Device, cloud : Remote]
  <2>1. Unknown \in [device : Device, cloud : Remote]
    BY EmptyTyped DEF Unknown
  <2> SUFFICES ASSUME Disturbed PROVE alone' \in BOOLEAN /\ before' \in [device : Device, cloud : Remote]
    OBVIOUS
  <2>2. alone' = FALSE /\ before' = Unknown
    BY DEF Disturbed
  <2>3. alone' \in BOOLEAN
    BY <2>2
  <2> QED
    BY <2>1, <2>2, <2>3
<1>7. UNCHANGED histVars => alone' \in BOOLEAN /\ before' \in [device : Device, cloud : Remote]
  BY <1>0 DEF histVars
<1>8. \A v \in Version : /\ [device EXCEPT !.profile = v] \in Device
                         /\ [device EXCEPT !.sha = v] \in Device
                         /\ [device EXCEPT !.file = v] \in Device
                         /\ [device EXCEPT !.setting = v] \in Device
                         /\ [device EXCEPT !.answer = v] \in Device
  BY <1>0 DEF Device
<1>9. \A m, th \in Version : Take(t, m, th) \in Version
  BY DEF Take
<1>a. CASE Read(t)
  <2>1. GoesIn
    <3>1. Part(device, {"profile", "sha"}) \in Device
      BY <1>0, PartTyped
    <3> DEFINE mine == [thread[t] EXCEPT !.seen = Part(device, {"profile", "sha"})]
    <3>2. mine \in Local /\ mine.todo = thread[t].todo /\ Goes(t, mine, 1)
      BY <1>a, <3>1, <1>2, <1>5 DEF Read
    <3> HIDE DEF mine
    <3> QED
      BY <3>2
  <2> QED
    BY <1>a, <2>1, <1>0, <1>7 DEF Read, At, countVars
<1>b. CASE PullProfile(t)
  <2>1. cloud.sha \in Version /\ cloud.profile \in Version
    BY <1>0 DEF Remote
  <2>2. GoesIn
    <3> DEFINE mine == [thread[t] EXCEPT !.sha = cloud.sha]
    <3>1. mine \in Local /\ mine.todo = thread[t].todo
      BY <2>1, <1>3, <1>5
    <3>2. Goes(t, mine, 1) \/ Goes(t, mine, 3)
      BY <1>b DEF PullProfile
    <3> HIDE DEF mine
    <3> QED
      BY <3>1, <3>2
  <2>3. device' \in Device
    BY <1>b, <1>0, <1>8, <2>1 DEF PullProfile
  <2> QED
    BY <1>b, <2>2, <2>3, <1>0, <1>7 DEF PullProfile, At, countVars
<1>c. CASE PullProfileFails(t) \/ PullFails(t) \/ DownloadFails(t)
  <2>1. GoesIn
    <3> HIDE DEF GoesIn
    <3> QED
      BY <1>c, <1>1 DEF PullProfileFails, PullFails, DownloadFails
  <2> QED
    BY <1>c, <2>1, <1>0, <1>6 DEF PullProfileFails, PullFails, DownloadFails, At, countVars
<1>d. CASE Download(t)
  <2>1. GoesIn
    <3> HIDE DEF GoesIn
    <3> QED
      BY <1>d, <1>1 DEF Download
  <2>2. cloud.blob \in Version
    BY <1>0 DEF Remote
  <2>3. device' \in Device
    BY <1>d, <1>0, <1>8, <2>2 DEF Download
  <2> QED
    BY <1>d, <2>1, <2>3, <1>0, <1>7 DEF Download, At, countVars
<1>e. CASE SaveCv(t)
  <2>1. GoesIn
    <3> HIDE DEF GoesIn
    <3> QED
      BY <1>e, <1>1 DEF SaveCv
  <2>2. thread[t].sha \in Version
    BY <1>0 DEF Local
  <2>3. device' \in Device
    BY <1>e, <1>0, <1>8, <2>2 DEF SaveCv
  <2> QED
    BY <1>e, <2>1, <2>3, <1>0, <1>7 DEF SaveCv, At, countVars
<1>f. CASE PullSetting(t) \/ PullAnswer(t)
  <2>1. GoesIn
    <3> HIDE DEF GoesIn
    <3> QED
      BY <1>f, <1>1 DEF PullSetting, PullAnswer
  <2>2. /\ Take(t, device.setting, cloud.setting) \in Version
        /\ Take(t, device.answer, cloud.answer) \in Version
    BY <1>0, <1>9 DEF Remote, Device
  <2>3. device' \in Device
    BY <1>f, <1>0, <1>8, <2>2 DEF PullSetting, PullAnswer
  <2> QED
    BY <1>f, <2>1, <2>3, <1>0, <1>7 DEF PullSetting, PullAnswer, At, countVars
<1>g. CASE Compare(t)
  <2>1. Ends(t) \/ GoesIn
    <3> HIDE DEF GoesIn
    <3> QED
      BY <1>g, <1>1 DEF Compare
  <2> QED
    BY <1>g, <2>1, <1>0, <1>7 DEF Compare, At, countVars
<1>h. CASE CompareFails(t)
  <2>1. Ends(t) \/ GoesIn
    <3> HIDE DEF GoesIn
    <3> QED
      BY <1>h, <1>1 DEF CompareFails
  <2> QED
    BY <1>h, <2>1, <1>0, <1>6 DEF CompareFails, At, countVars
<1>i. CASE TakePayload(t)
  <2>1. GoesIn
    <3>1. Part(device, Sent(t)) \in Device
      BY <1>0, PartTyped
    <3> DEFINE mine == [thread[t] EXCEPT !.payload = Part(device, Sent(t))]
    <3>2. mine \in Local /\ mine.todo = thread[t].todo
      BY <3>1, <1>4, <1>5
    <3>3. Goes(t, mine, 1) \/ Goes(t, mine, 2)
      BY <1>i DEF TakePayload
    <3> HIDE DEF mine
    <3> QED
      BY <3>2, <3>3
  <2> QED
    BY <1>i, <2>1, <1>0, <1>7 DEF TakePayload, At, countVars
<1>j. CASE Sends(t)
  <2>1. GoesIn
    <3> DEFINE mine == [thread[t] EXCEPT !.payload = Empty]
    <3>1. mine \in Local /\ mine.todo = thread[t].todo /\ Goes(t, mine, 1)
      BY <1>j, <1>4, <1>5, EmptyTyped DEF Sends
    <3> HIDE DEF mine
    <3> QED
      BY <3>1
  <2>2. thread[t].payload \in Device
    BY <1>0 DEF Local
  <2>3. Post(t) \in Remote
    BY <1>0, <2>2 DEF Post, Remote, Device
  <2> QED
    BY <1>j, <2>1, <2>3, <1>0, <1>7 DEF Sends, Posting, At, countVars
<1>k. CASE SendFails(t)
  <2>1. GoesIn
    <3> DEFINE mine == [thread[t] EXCEPT !.payload = Empty]
    <3>1. mine \in Local /\ mine.todo = thread[t].todo /\ Goes(t, mine, 1)
      BY <1>k, <1>4, <1>5, EmptyTyped DEF SendFails
    <3> HIDE DEF mine
    <3> QED
      BY <3>1
  <2> QED
    BY <1>k, <2>1, <1>0, <1>6 DEF SendFails, Posting, At, countVars
<1> QED
  BY <1>a, <1>b, <1>c, <1>d, <1>e, <1>f, <1>g, <1>h, <1>i, <1>j, <1>k DEF CloudStep

----------------------------------------------------------------------------
(* the first inductive invariant: types, and every thread inside a program *)

CloudShape == CloudTyped /\ ProgramsFit

\* A program that starts, from its first step.
LEMMA Begins ==
  ASSUME NEW p \in Programs
  PROVE  Rest(p, 1) = p /\ 1 \in 1 .. Len(p) /\ p \in Seq(StepName) /\ p # <<>> /\ <<>> \o p = p
<1>1. p \in Seq(StepName) /\ Len(p) \in 1 .. 16 /\ Len(p) \in Nat
  BY ProgramText
<1>2. SubSeq(p, 1, Len(p)) = p
  BY <1>1
<1>3. p # <<>>
  BY <1>1
<1> QED
  BY <1>1, <1>2, <1>3 DEF Rest

LEMMA StartsShape ==
  ASSUME NEW t \in Thread
  PROVE  /\ Starts(t) \in [Thread -> Local]
         /\ Starts(t)[t] = [Fresh EXCEPT !.todo = SyncOnStart]
         /\ \A u \in Thread \ {t} : Starts(t)[u] = Fresh
<1>1. SyncOnStart \in Seq(StepName)
  BY Begins DEF Programs
<1>2. [Fresh EXCEPT !.todo = SyncOnStart] \in Local
  BY <1>1, FreshIsLocal DEF Local
<1> QED
  BY <1>2, FreshIsLocal DEF Starts

\* A thread put to the start of a program, the others as they were or idle.
LEMMA StartsFit ==
  ASSUME NEW t \in Thread, NEW p \in Programs, thread'[t].todo = p,
         \A u \in Thread \ {t} : Idle(u)' \/ InProgram(u)'
  PROVE  ProgramsFit'
<1>1. InProgram(t)'
  BY Begins DEF InProgram
<1> QED
  BY <1>1 DEF ProgramsFit

LEMMA CloudShapeInit ==
  ASSUME CloudInit
  PROVE  CloudShape
<1>1. PICK t \in Bg : thread = Starts(t)
  BY DEF CloudInit
<1>2. t \in Thread
  BY DEF Thread
<1>3. CloudTyped
  <2>1. before \in [device : Device, cloud : Remote] /\ device \in Device /\ cloud \in Remote
    BY EmptyTyped DEF CloudInit, Unknown
  <2>2. thread \in [Thread -> Local]
    BY <1>1, <1>2, StartsShape
  <2>3. alone \in BOOLEAN
    BY DEF CloudInit
  <2>4. edits \in 0 .. MaxEdits /\ syncs \in 0 .. MaxSyncs
    BY CloudAssumption DEF CloudInit
  <2>5. over \in {{}, {Loop}}
    BY DEF CloudInit
  <2> QED
    BY <2>1, <2>2, <2>3, <2>4, <2>5 DEF CloudTyped
<1>4. ProgramsFit
  <2>1. thread[t].todo = SyncOnStart
    BY <1>1, <1>2, StartsShape, FreshIsLocal DEF Local
  <2>2. InProgram(t)
    BY <2>1, Begins DEF InProgram, Programs
  <2>3. \A u \in Thread \ {t} : Idle(u)
    BY <1>1, <1>2, StartsShape DEF Idle
  <2> QED
    BY <2>2, <2>3 DEF ProgramsFit
<1> QED
  BY <1>3, <1>4 DEF CloudShape

LEMMA CloudShapeThread ==
  ASSUME CloudShape, NEW t \in Thread, CloudStep(t)
  PROVE  CloudShape'
<1> USE DEF CloudShape
<1>1. PICK p \in Programs : \E n \in 1 .. Len(p) : Stands(t, p, n)
  BY StepShape, BusyStands
<1>2. PICK n \in 1 .. Len(p) : Stands(t, p, n)
  BY <1>1
<1>3. Len(p) \in Nat
  BY ProgramText
<1>4. /\ thread' \in [Thread -> Local]
      /\ \A u \in Thread \ {t} : thread'[u] = thread[u]
      /\ Idle(t)' \/ InProgram(t)'
  <2>1. CASE Ends(t)
    BY <2>1, FreshIsLocal DEF Ends, CloudTyped, Idle
  <2>2. CASE \E mine \in Local : \E k \in 1 .. 3 : mine.todo = thread[t].todo /\ Goes(t, mine, k)
    <3>1. PICK mine \in Local : \E k \in 1 .. 3 : mine.todo = thread[t].todo /\ Goes(t, mine, k)
      BY <2>2
    <3>2. PICK k \in 1 .. 3 : mine.todo = thread[t].todo /\ Goes(t, mine, k)
      BY <3>1
    <3>3. /\ thread' \in [Thread -> Local]
          /\ \A u \in Thread \ {t} : thread'[u] = thread[u]
          /\ n + k <= Len(p) => Stands(t, p, n + k)'
          /\ n + k > Len(p) => thread'[t] = Fresh
      BY <1>2, <3>2, GoesOn
    <3>4. Idle(t)' \/ InProgram(t)'
      BY <1>2, <1>3, <3>3 DEF Stands, InProgram, Idle
    <3> QED
      BY <3>3, <3>4
  <2> QED
    BY <2>1, <2>2, StepShape
<1>5. ProgramsFit'
  BY <1>4 DEF ProgramsFit, Idle, InProgram
<1> QED
  BY <1>4, <1>5, StepShape DEF CloudTyped

\* A handler that changed the device put its push on an idle thread.
LEMMA EditShape ==
  ASSUME CloudShape, NEW new, NEW mirror \in Programs, Edit(new, mirror)
  PROVE  /\ Idle(Loop) /\ device' = new /\ Disturbed /\ UNCHANGED <<cloud, over, syncs>>
         /\ edits' \in 0 .. MaxEdits
         /\ \E t \in Spare : /\ \A u \in Thread \ {t} : thread'[u] = thread[u]
                             /\ thread'[t].todo = mirror
                             /\ new \in Device => thread' \in [Thread -> Local]
                             /\ thread'[t].seen = Empty
<1>1. PICK t \in Spare : thread' = [thread EXCEPT ![t].todo = @ \o mirror,
                                                  ![t].payload = Part(new, {"setting"})]
  BY DEF Edit
<1>2. t \in Thread /\ thread[t] = Fresh /\ thread \in [Thread -> Local]
  BY DEF Spare, Idle, Thread, CloudShape, CloudTyped
<1>3. <<>> \o mirror = mirror /\ mirror \in Seq(StepName)
  BY Begins
<1>4. \A u \in Thread \ {t} : thread'[u] = thread[u]
  BY <1>1, <1>2
<1>5. thread'[t] = [Fresh EXCEPT !.todo = mirror, !.payload = Part(new, {"setting"})]
  BY <1>1, <1>2, <1>3 DEF Fresh
<1>6. thread'[t].todo = mirror /\ thread'[t].seen = Empty
  BY <1>5 DEF Fresh
<1>7. ASSUME new \in Device
      PROVE  thread' \in [Thread -> Local]
  <2>1. Part(new, {"setting"}) \in Device
    BY <1>7, PartTyped
  <2>2. thread'[t] \in Local
    BY <1>3, <1>5, <2>1, FreshIsLocal DEF Local
  <2>3. DOMAIN thread' = Thread /\ \A u \in Thread : thread'[u] \in Local
    BY <1>1, <1>2, <1>4, <2>2
  <2>4. thread' = [u \in Thread |-> thread'[u]]
    BY <1>1, <1>2
  <2> QED
    BY <2>3, <2>4
<1>8. edits' \in 0 .. MaxEdits
  BY CloudAssumption DEF Edit, CloudShape, CloudTyped
<1> QED
  BY <1>4, <1>6, <1>7, <1>8 DEF Edit

LEMMA CloudShapeEdit ==
  ASSUME CloudShape, NEW new \in Device, NEW mirror \in Programs, Edit(new, mirror)
  PROVE  CloudShape'
<1>1. PICK t \in Spare : /\ \A u \in Thread \ {t} : thread'[u] = thread[u]
                         /\ thread'[t].todo = mirror
                         /\ thread' \in [Thread -> Local]
  BY EditShape
<1>2. t \in Thread
  BY DEF Spare, Thread
<1>3. ProgramsFit'
  <2>1. \A u \in Thread \ {t} : Idle(u)' \/ InProgram(u)'
    BY <1>1 DEF CloudShape, ProgramsFit, Idle, InProgram
  <2> QED
    BY <1>1, <1>2, <2>1, StartsFit
<1>4. alone' \in BOOLEAN /\ before' \in [device : Device, cloud : Remote]
  <2>1. Unknown \in [device : Device, cloud : Remote]
    BY EmptyTyped DEF Unknown
  <2>2. alone' = FALSE /\ before' = Unknown
    BY EditShape DEF Disturbed
  <2>3. alone' \in BOOLEAN
    BY <2>2
  <2> QED
    BY <2>1, <2>2, <2>3
<1>5. /\ device' \in Device /\ cloud' \in Remote /\ over' \in {{}, {Loop}}
      /\ edits' \in 0 .. MaxEdits /\ syncs' \in 0 .. MaxSyncs
  BY EditShape DEF CloudShape, CloudTyped
<1> QED
  BY <1>1, <1>3, <1>4, <1>5 DEF CloudShape, CloudTyped

LEMMA OnTheLoopShape ==
  ASSUME CloudShape, NEW program \in Programs, NEW overwrite \in BOOLEAN, OnTheLoop(program, overwrite)
  PROVE  /\ CloudShape'
         /\ \A u \in Bg : thread'[u] = thread[u]
         /\ thread'[Loop].todo = program /\ thread'[Loop].seen = Empty /\ ~Idle(Loop)'
<1>1. Loop \in Thread /\ Bg = Thread \ {Loop} /\ thread \in [Thread -> Local] /\ thread[Loop] = Fresh
  BY CloudAssumption DEF Thread, OnTheLoop, CloudShape, CloudTyped, Idle
<1>2. program \in Seq(StepName) /\ program # <<>>
  BY Begins
<1>3. /\ thread'[Loop] = [Fresh EXCEPT !.todo = program]
      /\ \A u \in Bg : thread'[u] = thread[u]
  BY <1>1 DEF OnTheLoop
<1>4. [Fresh EXCEPT !.todo = program] \in Local
  BY <1>2, FreshIsLocal DEF Local
<1>5. thread' \in [Thread -> Local]
  BY <1>1, <1>4 DEF OnTheLoop
<1>6. /\ thread'[Loop].todo = program /\ thread'[Loop].seen = Empty
      /\ thread'[Loop].todo # Fresh.todo
  BY <1>2, <1>3 DEF Fresh
<1>7. ProgramsFit'
  <2>1. \A u \in Thread \ {Loop} : Idle(u)' \/ InProgram(u)'
    BY <1>1, <1>3 DEF CloudShape, ProgramsFit, Idle, InProgram
  <2> QED
    BY <1>1, <1>6, <2>1, StartsFit
<1>8. alone' \in BOOLEAN
  BY DEF OnTheLoop
<1>9. before' \in [device : Device, cloud : Remote]
  BY EmptyTyped DEF OnTheLoop, CloudShape, CloudTyped, Unknown
<1>a. /\ device' \in Device /\ cloud' \in Remote /\ over' \in {{}, {Loop}}
      /\ edits' \in 0 .. MaxEdits /\ syncs' \in 0 .. MaxSyncs
  BY CloudAssumption DEF OnTheLoop, CloudShape, CloudTyped
<1> QED
  BY <1>3, <1>5, <1>6, <1>7, <1>8, <1>9, <1>a DEF CloudShape, CloudTyped, Idle

LEMMA RestartShape ==
  ASSUME CloudShape, Restart
  PROVE  /\ CloudShape'
         /\ \E t \in Bg : /\ \A u \in Thread \ {t} : Idle(u)'
                          /\ thread'[t].todo = SyncOnStart /\ thread'[t].seen = Empty /\ ~Idle(t)'
<1>1. PICK t \in Bg : thread' = Starts(t)
  BY DEF Restart
<1>2. t \in Thread
  BY DEF Thread
<1>3. SyncOnStart \in Programs /\ SyncOnStart # <<>>
  BY Begins DEF Programs
<1>4. /\ thread' \in [Thread -> Local]
      /\ \A u \in Thread \ {t} : Idle(u)'
      /\ thread'[t] = [Fresh EXCEPT !.todo = SyncOnStart]
  BY <1>1, <1>2, StartsShape DEF Idle
<1>5. thread'[t].todo = SyncOnStart /\ thread'[t].seen = Empty /\ thread'[t].todo # Fresh.todo
  BY <1>3, <1>4 DEF Fresh
<1>6. ProgramsFit'
  BY <1>2, <1>3, <1>4, <1>5, StartsFit
<1>7. device' \in Device /\ before' \in [device : Device, cloud : Remote]
  <2>1. PICK d \in {device, Empty, [device EXCEPT !.file = None]} :
               device' = d /\ before' = [device |-> d, cloud |-> cloud]
    BY DEF Restart
  <2>2. d \in Device /\ cloud \in Remote
    BY EmptyTyped DEF CloudShape, CloudTyped, Device
  <2> QED
    BY <2>1, <2>2
<1>8. alone' \in BOOLEAN
  BY DEF Restart
<1>9. /\ cloud' \in Remote /\ over' \in {{}, {Loop}}
      /\ edits' \in 0 .. MaxEdits /\ syncs' \in 0 .. MaxSyncs
  BY CloudAssumption DEF Restart, CloudShape, CloudTyped
<1> QED
  BY <1>4, <1>5, <1>6, <1>7, <1>8, <1>9 DEF CloudShape, CloudTyped, Idle

\* The four edits and what each of them pushes.
LEMMA EditsAre ==
  ASSUME CloudTyped
  PROVE  /\ PutProfile  => \E new \in Device : new = [device EXCEPT !.profile = New] /\ Edit(new, PushProfile)
         /\ UploadCv    => \E new \in Device : new = [device EXCEPT !.file = New, !.sha = New] /\ Edit(new, MirrorCv)
         /\ PutSettings => \E new \in Device : new = [device EXCEPT !.setting = New] /\ Edit(new, PushSetting)
         /\ SaveAnswers => \E new \in Device : new = [device EXCEPT !.answer = New] /\ Edit(new, PushAnswers)
<1>1. device \in Device /\ edits \in 0 .. MaxEdits
  BY DEF CloudTyped
<1>2. ASSUME edits < MaxEdits
      PROVE  /\ New \in Version
             /\ [device EXCEPT !.profile = New] \in Device
             /\ [device EXCEPT !.file = New, !.sha = New] \in Device
             /\ [device EXCEPT !.setting = New] \in Device
             /\ [device EXCEPT !.answer = New] \in Device
  <2>1. New \in Version
    BY <1>1, <1>2, CloudAssumption DEF New, Version
  <2> HIDE DEF New
  <2> QED
    BY <1>1, <2>1 DEF Device
<1>3. \A new, mirror : Edit(new, mirror) => edits < MaxEdits
  BY DEF Edit
<1>4. ASSUME PutProfile
      PROVE  \E new \in Device : new = [device EXCEPT !.profile = New] /\ Edit(new, PushProfile)
  <2>1. [device EXCEPT !.profile = New] \in Device
    BY <1>2, <1>3, <1>4 DEF PutProfile
  <2> QED
    BY <1>4, <2>1 DEF PutProfile
<1>5. ASSUME UploadCv
      PROVE  \E new \in Device : new = [device EXCEPT !.file = New, !.sha = New] /\ Edit(new, MirrorCv)
  <2>1. [device EXCEPT !.file = New, !.sha = New] \in Device
    BY <1>2, <1>3, <1>5 DEF UploadCv
  <2> QED
    BY <1>5, <2>1 DEF UploadCv
<1>6. ASSUME PutSettings
      PROVE  \E new \in Device : new = [device EXCEPT !.setting = New] /\ Edit(new, PushSetting)
  <2>1. [device EXCEPT !.setting = New] \in Device
    BY <1>2, <1>3, <1>6 DEF PutSettings
  <2> QED
    BY <1>6, <2>1 DEF PutSettings
<1>7. ASSUME SaveAnswers
      PROVE  \E new \in Device : new = [device EXCEPT !.answer = New] /\ Edit(new, PushAnswers)
  <2>1. [device EXCEPT !.answer = New] \in Device
    BY <1>2, <1>3, <1>7 DEF SaveAnswers
  <2> QED
    BY <1>7, <2>1 DEF SaveAnswers
<1> QED
  BY <1>4, <1>5, <1>6, <1>7

LEMMA CloudShapeNext ==
  ASSUME CloudShape, [CloudNext]_cloudVars
  PROVE  CloudShape'
<1>1. ASSUME NEW t \in Thread, CloudStep(t)
      PROVE  CloudShape'
  BY <1>1, CloudShapeThread
<1>2. CASE PutProfile \/ UploadCv \/ PutSettings \/ SaveAnswers
  BY <1>2, EditsAre, CloudShapeEdit DEF CloudShape, Programs
<1>3. CASE CloudRestore \/ CloudPush
  BY <1>3, OnTheLoopShape DEF CloudRestore, CloudPush, Programs
<1>4. CASE Restart
  BY <1>4, RestartShape
<1>5. CASE UNCHANGED cloudVars
  BY <1>5 DEF cloudVars, histVars, countVars, CloudShape, CloudTyped, ProgramsFit, Idle, InProgram
<1> QED
  BY <1>1, <1>2, <1>3, <1>4, <1>5 DEF CloudNext

LEMMA CloudShapeAlways == CloudSpec => []CloudShape
<1>1. CloudInit => CloudShape
  BY CloudShapeInit
<1>2. CloudShape /\ [CloudNext]_cloudVars => CloudShape'
  BY CloudShapeNext
<1> QED
  BY <1>1, <1>2, PTL DEF CloudSpec

\* The type invariant of Cloud: the database, the service, every thread's variables
\* and the two records of the last synchronisation are what they are said to be.
THEOREM CloudTypes == CloudSpec => []CloudTypeOK
<1>1. ASSUME CloudShape
      PROVE  CloudTypeOK
  <2>1. \A t \in Thread : thread[t] \in Local
    BY <1>1 DEF CloudShape, CloudTyped
  <2>2. ASSUME NEW t \in Thread
        PROVE  Len(thread[t].todo) <= Len(SyncOnStart)
    <3>0. Len(SyncOnStart) = 16
      BY RestoreText
    <3>1. CASE Idle(t)
      <4>1. thread[t].todo = <<>>
        BY <3>1 DEF Idle, Fresh
      <4> QED
        BY <3>0, <4>1
    <3>2. CASE InProgram(t)
      <4>1. PICK p \in Programs : \E n \in 1 .. Len(p) : thread[t].todo = Rest(p, n)
        BY <3>2 DEF InProgram
      <4>2. PICK n \in 1 .. Len(p) : thread[t].todo = Rest(p, n)
        BY <4>1
      <4>3. Len(thread[t].todo) = Len(p) - n + 1 /\ Len(p) \in 1 .. 16
        BY <4>2, RestGoesOn, ProgramText
      <4> DEFINE m == Len(thread[t].todo)
                 l == Len(p)
      <4>4. m = l - n + 1 /\ l \in 1 .. 16 /\ n \in 1 .. l
        BY <4>3
      <4>5. m <= 16
        <5> HIDE DEF m, l
        <5> QED
          BY <4>4
      <4> QED
        BY <3>0, <4>5
    <3> QED
      BY <1>1, <3>1, <3>2 DEF CloudShape, ProgramsFit
  <2>3. /\ DOMAIN thread = Thread /\ over \subseteq Thread
        /\ device \in Device /\ cloud \in Remote
        /\ edits \in 0 .. MaxEdits /\ syncs \in 0 .. MaxSyncs
        /\ alone \in BOOLEAN /\ before \in [device : Device, cloud : Remote]
    BY <1>1 DEF CloudShape, CloudTyped, Thread
  <2> QED
    BY <2>1, <2>2, <2>3 DEF CloudTypeOK, Local
<1> QED
  BY <1>1, CloudShapeAlways, PTL

----------------------------------------------------------------------------
(* the second inductive invariant: the CV and its hash *)

\* Steps that send a CV, and a thread that saw a hash, are only on a device that has
\* one; a CV is fetched only for a row that has a hash.
CvOf(t) ==
  /\ At(t, "takeCv") \/ At(t, "postCv") \/ thread[t].seen.sha # None => device.sha # None
  /\ At(t, "download") \/ At(t, "saveCv") => thread[t].sha # None
CvKnown == \A t \in Thread : CvOf(t)

\* A file without its hash is one that was fetched, and is still in the cloud.
HalfOf(d, c) == d.sha = None /\ d.file # None => d.file = c.blob

CvInv == CvKnown /\ HalfOf(device, cloud) /\ (alone => HalfOf(before.device, before.cloud))

CloudBase == CloudShape /\ CvInv

\* How a step of a thread ends up: idle, or k steps further.
LEMMA StepMoves ==
  ASSUME CloudShape, NEW t \in Thread, NEW p, NEW n, Stands(t, p, n),
         NEW mine \in Local, mine.todo = thread[t].todo, NEW k \in 1 .. 3, Goes(t, mine, k)
  PROVE  \/ thread'[t] = Fresh /\ Idle(t)'
         \/ /\ n + k <= Len(p) /\ Stands(t, p, n + k)'
            /\ thread'[t].seen = mine.seen /\ thread'[t].sha = mine.sha
            /\ thread'[t].payload = mine.payload
<1>1. n \in 1 .. Len(p) /\ Len(p) \in Nat
  BY ProgramText DEF Stands
<1>2. CASE n + k <= Len(p)
  <2>1. thread'[t] = [mine EXCEPT !.todo = Rest(p, n + k)] /\ Stands(t, p, n + k)'
    BY <1>2, GoesOn DEF CloudShape
  <2> QED
    BY <1>2, <2>1 DEF Local
<1>3. CASE n + k > Len(p)
  <2>1. thread'[t] = Fresh
    BY <1>3, GoesOn DEF CloudShape
  <2> QED
    BY <2>1 DEF Idle
<1> QED
  BY <1>1, <1>2, <1>3

LEMMA OthersStay ==
  ASSUME CloudShape, NEW t \in Thread, CloudStep(t)
  PROVE  \A u \in Thread \ {t} : thread'[u] = thread[u]
<1>1. PICK p \in Programs : \E n \in 1 .. Len(p) : Stands(t, p, n)
  BY StepShape, BusyStands DEF CloudShape
<1>2. PICK n \in 1 .. Len(p) : Stands(t, p, n)
  BY <1>1
<1>3. CASE Ends(t)
  BY <1>3 DEF Ends, CloudShape, CloudTyped
<1>4. CASE \E mine \in Local : \E k \in 1 .. 3 : mine.todo = thread[t].todo /\ Goes(t, mine, k)
  BY <1>2, <1>4, GoesOn DEF CloudShape
<1> QED
  BY <1>3, <1>4, StepShape DEF CloudShape

\* The condition on a thread that goes on: whatever it saw is the device's, and
\* the step it comes to is one the program allows after the one it took.
LEMMA CvGoesOn ==
  ASSUME CloudShape, CvKnown, NEW t \in Thread, NEW s, At(t, s),
         NEW mine \in Local, mine.todo = thread[t].todo, NEW k \in 1 .. 3, Goes(t, mine, k),
         mine.seen.sha # None => device'.sha # None,
         s = "compare" => device'.sha # None,
         s = "takeCv" => device'.sha # None,
         s = "pullProfile" /\ k = 1 => mine.sha # None,
         s = "download" /\ k = 1 => mine.sha # None,
         s \in {"pullProfile", "download", "takeCv"} \/ k = 1,
         s \in {"download", "takeCv"} => k \in {1, 2},
         s = "pullProfile" => k \in {1, 3}
  PROVE  CvOf(t)'
<1>1. PICK p \in Programs : \E n \in 1 .. Len(p) : Stands(t, p, n)
  BY BusyStands DEF CloudShape, At
<1>2. PICK n \in 1 .. Len(p) : Stands(t, p, n)
  BY <1>1
<1>3. p[n] = s
  BY <1>2, StandsAt
<1>4. CASE thread'[t] = Fresh /\ Idle(t)'
  BY <1>4 DEF CvOf, At, Fresh, Empty
<1>5. CASE /\ n + k <= Len(p) /\ Stands(t, p, n + k)'
           /\ thread'[t].seen = mine.seen /\ thread'[t].sha = mine.sha
  <2>1. \A x : At(t, x)' <=> p[n + k] = x
    <3> SUFFICES ASSUME NEW x PROVE At(t, x)' <=> p[n + k] = x
      OBVIOUS
    <3>1. Head(thread'[t].todo) = p[n + k] /\ n + k \in 1 .. Len(p) /\ ~Idle(t)'
      <4>1. thread'[t].todo = Rest(p, n + k) /\ n + k \in 1 .. Len(p) /\ ~Idle(t)'
        BY <1>5 DEF Stands
      <4>2. 1 \in 1 .. 3
        OBVIOUS
      <4> QED
        BY <4>1, <4>2, RestGoesOn
    <3> QED
      BY <3>1 DEF At
  <2>2. At(t, "takeCv")' => s = "compare" /\ k = 1
    BY <1>2, <1>3, <1>5, <2>1, CvSteps
  <2>3. At(t, "postCv")' => s = "takeCv"
    BY <1>2, <1>3, <1>5, <2>1, CvSteps
  <2>4. At(t, "download")' => s = "pullProfile" /\ k = 1
    BY <1>2, <1>3, <1>5, <2>1, CvSteps
  <2>5. At(t, "saveCv")' => s = "download" /\ k = 1
    BY <1>2, <1>3, <1>5, <2>1, CvSteps
  <2> QED
    BY <1>5, <2>2, <2>3, <2>4, <2>5 DEF CvOf
<1> QED
  BY <1>2, <1>4, <1>5, StepMoves

\* The rest of the invariant, from what a step does to the hash, the file and the blob.
LEMMA CvRest ==
  ASSUME CloudBase, NEW t \in Thread, CloudStep(t), CvOf(t)',
         device.sha # None => device'.sha # None,
         HalfOf(device', cloud'),
         UNCHANGED histVars \/ Disturbed
  PROVE  CvInv'
<1>1. \A u \in Thread \ {t} : CvOf(u)'
  <2>1. \A u \in Thread \ {t} : CvOf(u) /\ thread'[u] = thread[u]
    BY OthersStay DEF CloudBase, CvInv, CvKnown
  <2> QED
    BY <2>1 DEF CvOf, At, Idle
<1>2. CvKnown'
  BY <1>1 DEF CvKnown
<1>3. alone' => HalfOf(before'.device, before'.cloud)
  BY DEF CloudBase, CvInv, histVars, Disturbed
<1>4. HalfOf(device, cloud)'
  BY DEF HalfOf
<1>5. alone' => HalfOf(before.device, before.cloud)'
  BY <1>3 DEF HalfOf
<1> QED
  BY <1>2, <1>4, <1>5 DEF CvInv

\* A thread that has ended is at no step.
LEMMA EndsCv ==
  ASSUME CloudShape, NEW t \in Thread, Ends(t)
  PROVE  CvOf(t)'
<1>1. thread'[t] = Fresh
  BY DEF Ends, CloudShape, CloudTyped
<1> QED
  BY <1>1 DEF CvOf, At, Idle, Fresh, Empty

LEMMA CvInvThread ==
  ASSUME CloudBase, NEW t \in Thread, CloudStep(t)
  PROVE  CvInv'
<1>0. /\ CloudShape /\ CvKnown /\ CvOf(t) /\ HalfOf(device, cloud)
      /\ thread[t] \in Local /\ device \in Device /\ cloud \in Remote
  BY DEF CloudBase, CvInv, CvKnown, CloudShape, CloudTyped
<1>1. ASSUME NEW s, At(t, s), NEW k \in 1 .. 3, Skip(t, k),
             device.sha # None => device'.sha # None,
             s = "compare" => device'.sha # None,
             s = "pullProfile" => k = 3, s = "download" => k \in {1, 2},
             s \in {"pullProfile", "download"} \/ k = 1
      PROVE  CvOf(t)'
  <2>1. Goes(t, thread[t], k)
    BY <1>1 DEF Skip
  <2>2. thread[t].seen.sha # None => device'.sha # None
    BY <1>0, <1>1 DEF CvOf
  <2>3. s = "takeCv" => device'.sha # None
    BY <1>0, <1>1 DEF CvOf
  <2>4. s = "download" => thread[t].sha # None
    BY <1>0, <1>1 DEF CvOf
  <2> QED
    BY <1>0, <1>1, <2>1, <2>2, <2>3, <2>4, CvGoesOn
<1>a. CASE Read(t)
  <2> DEFINE mine == [thread[t] EXCEPT !.seen = Part(device, {"profile", "sha"})]
  <2>1. Part(device, {"profile", "sha"}) \in Device /\ Part(device, {"profile", "sha"}).sha = device.sha
    BY <1>0, PartTyped
  <2>2. mine \in Local /\ mine.todo = thread[t].todo /\ mine.seen.sha = device.sha
    BY <1>0, <2>1 DEF Local
  <2>3. At(t, "read") /\ Goes(t, mine, 1) /\ device' = device /\ cloud' = cloud /\ UNCHANGED histVars
    BY <1>a DEF Read
  <2>4. CvOf(t)'
    <3> HIDE DEF mine
    <3> QED
      BY <1>0, <2>2, <2>3, CvGoesOn
  <2> QED
    BY <1>0, <2>3, <2>4, CvRest
<1>b. CASE PullProfile(t)
  <2> DEFINE mine == [thread[t] EXCEPT !.sha = cloud.sha]
             wantCv == /\ cloud.row /\ cloud.sha # None
                       /\ t \in over \/ ~(thread[t].seen.sha # None /\ device.file # None)
  <2>1. mine \in Local /\ mine.todo = thread[t].todo /\ mine.seen = thread[t].seen /\ mine.sha = cloud.sha
    BY <1>0 DEF Local, Remote
  <2>2. /\ At(t, "pullProfile") /\ Goes(t, mine, IF wantCv THEN 1 ELSE 3)
        /\ cloud' = cloud /\ UNCHANGED histVars
        /\ device'.sha = device.sha /\ device'.file = device.file
    BY <1>b, <1>0 DEF PullProfile, Device
  <2>3. CvOf(t)'
    <3>1. mine.seen.sha # None => device'.sha # None
      BY <1>0, <2>1, <2>2 DEF CvOf
    <3>2. CASE wantCv
      <4>1. Goes(t, mine, 1) /\ mine.sha # None
        BY <2>1, <2>2, <3>2
      <4> HIDE DEF mine
      <4> QED
        BY <1>0, <2>1, <2>2, <3>1, <4>1, CvGoesOn
    <3>3. CASE ~wantCv
      <4>1. Goes(t, mine, 3)
        BY <2>2, <3>3
      <4> HIDE DEF mine
      <4> QED
        BY <1>0, <2>1, <2>2, <3>1, <4>1, CvGoesOn
    <3> QED
      BY <3>2, <3>3
  <2>4. HalfOf(device', cloud')
    BY <1>0, <2>2 DEF HalfOf
  <2> QED
    BY <1>0, <2>2, <2>3, <2>4, CvRest
<1>c. CASE PullProfileFails(t) \/ DownloadFails(t) \/ PullFails(t)
  <2>1. CvOf(t)'
    <3>1. CASE PullProfileFails(t)
      BY <3>1, <1>1 DEF PullProfileFails
    <3>2. CASE DownloadFails(t)
      BY <3>2, <1>1 DEF DownloadFails
    <3>3. CASE PullFails(t)
      BY <3>3, <1>1 DEF PullFails
    <3> QED
      BY <1>c, <3>1, <3>2, <3>3
  <2> QED
    BY <1>0, <1>c, <2>1, CvRest DEF PullProfileFails, DownloadFails, PullFails
<1>d. CASE Download(t)
  <2>1. device'.sha = device.sha /\ cloud' = cloud /\ UNCHANGED histVars
    BY <1>d, <1>0 DEF Download, Device
  <2>2. CvOf(t)'
    BY <1>d, <1>1, <2>1 DEF Download
  <2>3. HalfOf(device', cloud')
    BY <1>d, <1>0 DEF Download, Device, HalfOf
  <2> QED
    BY <1>0, <2>1, <2>2, <2>3, CvRest
<1>e. CASE SaveCv(t)
  <2>1. device'.sha # None /\ cloud' = cloud /\ UNCHANGED histVars
    BY <1>e, <1>0 DEF SaveCv, CvOf, Device
  <2>2. CvOf(t)'
    BY <1>e, <1>1, <2>1 DEF SaveCv
  <2>3. HalfOf(device', cloud')
    BY <2>1 DEF HalfOf
  <2> QED
    BY <1>0, <2>1, <2>2, <2>3, CvRest
<1>f. CASE PullSetting(t) \/ PullAnswer(t)
  <2>1. /\ device'.sha = device.sha /\ device'.file = device.file
        /\ cloud' = cloud /\ UNCHANGED histVars
    BY <1>f, <1>0 DEF PullSetting, PullAnswer, Device
  <2>2. CvOf(t)'
    BY <1>f, <1>1, <2>1 DEF PullSetting, PullAnswer
  <2>3. HalfOf(device', cloud')
    BY <1>0, <2>1 DEF HalfOf
  <2> QED
    BY <1>0, <2>1, <2>2, <2>3, CvRest
<1>g. CASE Compare(t) \/ CompareFails(t)
  <2>1. /\ device' = device /\ cloud' = cloud /\ (UNCHANGED histVars \/ Disturbed)
        /\ At(t, "compare")
        /\ Ends(t) \/ (thread[t].seen.sha # None /\ Skip(t, 1))
    BY <1>g DEF Compare, CompareFails
  <2>2. CvOf(t)'
    <3>1. CASE Ends(t)
      BY <1>0, <3>1, EndsCv
    <3>2. CASE thread[t].seen.sha # None /\ Skip(t, 1)
      <4>1. device'.sha # None
        BY <1>0, <2>1, <3>2 DEF CvOf
      <4> QED
        BY <1>1, <2>1, <3>2, <4>1
    <3> QED
      BY <2>1, <3>1, <3>2
  <2> QED
    BY <1>0, <2>1, <2>2, CvRest
<1>h. CASE TakePayload(t)
  <2> DEFINE mine == [thread[t] EXCEPT !.payload = Part(device, Sent(t))]
  <2>1. Part(device, Sent(t)) \in Device
    BY <1>0, PartTyped
  <2>2. mine \in Local /\ mine.todo = thread[t].todo /\ mine.seen = thread[t].seen
    BY <1>0, <2>1 DEF Local
  <2>3. PICK s \in {"takeProfile", "takeAnswer", "takeCv"} : At(t, s)
    BY <1>h DEF TakePayload
  <2>4. /\ Goes(t, mine, 1) \/ (s = "takeCv" /\ Goes(t, mine, 2))
        /\ device' = device /\ cloud' = cloud /\ UNCHANGED histVars
    BY <1>h, <2>3 DEF TakePayload, At
  <2>5. (s = "takeCv" => device'.sha # None) /\ (mine.seen.sha # None => device'.sha # None)
    BY <1>0, <2>2, <2>3, <2>4 DEF CvOf
  <2>6. CvOf(t)'
    <3> HIDE DEF mine
    <3>1. CASE Goes(t, mine, 1)
      BY <1>0, <2>2, <2>3, <2>5, <3>1, CvGoesOn
    <3>2. CASE s = "takeCv" /\ Goes(t, mine, 2)
      BY <1>0, <2>2, <2>3, <2>5, <3>2, CvGoesOn
    <3> QED
      BY <2>4, <3>1, <3>2
  <2> QED
    BY <1>0, <2>4, <2>6, CvRest
<1>i. CASE Sends(t) \/ SendFails(t)
  <2> DEFINE mine == [thread[t] EXCEPT !.payload = Empty]
  <2>1. mine \in Local /\ mine.todo = thread[t].todo /\ mine.seen = thread[t].seen
    BY <1>0, EmptyTyped DEF Local
  <2>2. PICK s \in {"postProfile", "postCv", "postSetting", "postAnswer"} : At(t, s)
    BY <1>i DEF Sends, SendFails, Posting
  <2>3. Goes(t, mine, 1) /\ device' = device /\ (UNCHANGED histVars \/ Disturbed)
    BY <1>i DEF Sends, SendFails
  <2>4. CvOf(t)'
    <3>1. mine.seen.sha # None => device'.sha # None
      BY <1>0, <2>1, <2>3 DEF CvOf
    <3> HIDE DEF mine
    <3> QED
      BY <1>0, <2>1, <2>2, <2>3, <3>1, CvGoesOn
  <2>5. HalfOf(device', cloud')
    <3>1. CASE s = "postCv"
      BY <1>0, <2>2, <2>3, <3>1 DEF CvOf, HalfOf
    <3>2. CASE s # "postCv"
      <4>1. cloud'.blob = cloud.blob
        <5>1. ~At(t, "postCv")
          BY <2>2, <3>2 DEF At
        <5> QED
          BY <1>i, <1>0, <5>1 DEF Sends, SendFails, Post, Remote
      <4> QED
        BY <1>0, <2>3, <4>1 DEF HalfOf
    <3> QED
      BY <3>1, <3>2
  <2> QED
    BY <1>0, <2>3, <2>4, <2>5, CvRest
<1> QED
  BY <1>a, <1>b, <1>c, <1>d, <1>e, <1>f, <1>g, <1>h, <1>i DEF CloudStep

\* A thread at the start of a program other than MirrorCv, or of that one on a device
\* that has a CV.
LEMMA CvStarts ==
  ASSUME NEW t, NEW p \in Programs, thread'[t].todo = p, thread'[t].seen = Empty,
         p = MirrorCv => device'.sha # None
  PROVE  CvOf(t)'
<1>1. Head(p) = p[1]
  BY Begins
<1>2. /\ Restore[1] = "read" /\ SyncOnStart[1] = "read" /\ PushProfile[1] = "takeProfile"
      /\ PushAnswers[1] = "takeAnswer" /\ PushSetting[1] = "postSetting" /\ MirrorCv[1] = "takeCv"
  BY RestoreText, ProgramText
<1>3. \A s : At(t, s)' => p[1] = s
  BY <1>1 DEF At
<1> QED
  BY <1>2, <1>3 DEF CvOf, Programs, Empty

LEMMA CvInvInit ==
  ASSUME CloudInit
  PROVE  CvInv
<1>1. PICK t \in Bg : thread = Starts(t)
  BY DEF CloudInit
<1>2. /\ thread[t].todo = SyncOnStart /\ thread[t].seen = Empty
      /\ \A u \in Thread \ {t} : thread[u] = Fresh
  BY <1>1, StartsShape, FreshIsLocal DEF Thread, Local, Fresh
<1>3. Head(SyncOnStart) = "read"
  BY Begins, RestoreText DEF Programs
<1>4. CvKnown
  BY <1>2, <1>3 DEF CvKnown, CvOf, At, Idle, Fresh, Empty
<1> QED
  BY <1>4 DEF CvInv, CloudInit, HalfOf, Empty, Nothing, Unknown

LEMMA CvInvEdit ==
  ASSUME CloudBase, NEW new \in Device, NEW mirror \in Programs, Edit(new, mirror),
         device.sha # None \/ mirror = MirrorCv => new.sha # None,
         HalfOf(new, cloud)
  PROVE  CvInv'
<1>1. /\ device' = new /\ cloud' = cloud /\ Disturbed
      /\ \E t \in Spare : /\ \A u \in Thread \ {t} : thread'[u] = thread[u]
                          /\ thread'[t].todo = mirror /\ thread'[t].seen = Empty
  BY EditShape DEF CloudBase
<1>2. PICK t \in Spare : /\ \A u \in Thread \ {t} : thread'[u] = thread[u]
                         /\ thread'[t].todo = mirror /\ thread'[t].seen = Empty
  BY <1>1
<1>3. CvOf(t)'
  BY <1>1, <1>2, CvStarts
<1>4. \A u \in Thread \ {t} : CvOf(u)'
  BY <1>1, <1>2 DEF CloudBase, CvInv, CvKnown, CvOf, At, Idle
<1> QED
  BY <1>1, <1>3, <1>4 DEF CvInv, CvKnown, HalfOf, Disturbed

LEMMA CvInvNext ==
  ASSUME CloudBase, [CloudNext]_cloudVars
  PROVE  CvInv'
<1>0. /\ CloudShape /\ CloudTyped /\ CvInv /\ device \in Device /\ cloud \in Remote /\ edits \in Nat
  BY DEF CloudBase, CloudShape, CloudTyped
<1>1. ASSUME NEW t \in Thread, CloudStep(t)
      PROVE  CvInv'
  BY <1>1, CvInvThread
<1>2. CASE PutProfile
  <2>1. PICK new \in Device : new = [device EXCEPT !.profile = New] /\ Edit(new, PushProfile)
    BY <1>0, <1>2, EditsAre
  <2>2. new.sha = device.sha /\ new.file = device.file
    BY <1>0, <2>1 DEF Device
  <2>3. PushProfile # MirrorCv
    BY ProgramText
  <2>4. HalfOf(new, cloud)
    BY <1>0, <2>2 DEF CvInv, HalfOf
  <2> QED
    BY <2>1, <2>2, <2>3, <2>4, CvInvEdit DEF Programs
<1>3. CASE UploadCv
  <2>1. PICK new \in Device : new = [device EXCEPT !.file = New, !.sha = New] /\ Edit(new, MirrorCv)
    BY <1>0, <1>3, EditsAre
  <2>2. new.sha # None
    BY <1>0, <2>1 DEF Device, New, None
  <2>3. HalfOf(new, cloud)
    BY <2>2 DEF HalfOf
  <2> QED
    BY <2>1, <2>2, <2>3, CvInvEdit DEF Programs
<1>4. CASE PutSettings
  <2>1. PICK new \in Device : new = [device EXCEPT !.setting = New] /\ Edit(new, PushSetting)
    BY <1>0, <1>4, EditsAre
  <2>2. new.sha = device.sha /\ new.file = device.file
    BY <1>0, <2>1 DEF Device
  <2>3. PushSetting # MirrorCv
    BY ProgramText
  <2>4. HalfOf(new, cloud)
    BY <1>0, <2>2 DEF CvInv, HalfOf
  <2> QED
    BY <2>1, <2>2, <2>3, <2>4, CvInvEdit DEF Programs
<1>5. CASE SaveAnswers
  <2>1. PICK new \in Device : new = [device EXCEPT !.answer = New] /\ Edit(new, PushAnswers)
    BY <1>0, <1>5, EditsAre
  <2>2. new.sha = device.sha /\ new.file = device.file
    BY <1>0, <2>1 DEF Device
  <2>3. PushAnswers # MirrorCv
    BY ProgramText
  <2>4. HalfOf(new, cloud)
    BY <1>0, <2>2 DEF CvInv, HalfOf
  <2> QED
    BY <2>1, <2>2, <2>3, <2>4, CvInvEdit DEF Programs
<1>6. CASE CloudRestore \/ CloudPush
  <2>1. PICK p \in {Restore, SyncOnStart} : \E overwrite \in BOOLEAN : OnTheLoop(p, overwrite)
    BY <1>6 DEF CloudRestore, CloudPush
  <2>2. PICK overwrite \in BOOLEAN : OnTheLoop(p, overwrite)
    BY <2>1
  <2>3. /\ \A u \in Bg : thread'[u] = thread[u]
        /\ thread'[Loop].todo = p /\ thread'[Loop].seen = Empty
        /\ device' = device /\ cloud' = cloud
    BY <1>0, <2>2, OnTheLoopShape DEF OnTheLoop, Programs
  <2>4. p # MirrorCv
    BY RestoreText, ProgramText
  <2>5. CvOf(Loop)'
    BY <2>3, <2>4, CvStarts DEF Programs
  <2>6. \A u \in Bg : CvOf(u)'
    BY <1>0, <2>3 DEF CvInv, CvKnown, CvOf, At, Idle, Thread
  <2>7. alone' => HalfOf(before'.device, before'.cloud)
    BY <1>0, <2>2 DEF OnTheLoop, CvInv
  <2> QED
    BY <1>0, <2>3, <2>5, <2>6, <2>7 DEF CvInv, CvKnown, HalfOf, Thread
<1>7. CASE Restart
  <2>1. PICK t \in Bg : /\ \A u \in Thread \ {t} : Idle(u)'
                        /\ thread'[t].todo = SyncOnStart /\ thread'[t].seen = Empty
    BY <1>0, <1>7, RestartShape
  <2>2. SyncOnStart # MirrorCv
    BY RestoreText, ProgramText
  <2>3. CvOf(t)'
    BY <2>1, <2>2, CvStarts DEF Programs
  <2>4. \A u \in Thread \ {t} : CvOf(u)'
    BY <2>1 DEF CvOf, At, Idle, Fresh, Empty
  <2>5. PICK d \in {device, Empty, [device EXCEPT !.file = None]} :
               device' = d /\ before' = [device |-> d, cloud |-> cloud]
    BY <1>7 DEF Restart
  <2>6. HalfOf(d, cloud)
    BY <1>0, <2>5 DEF CvInv, HalfOf, Empty, Device
  <2>7. cloud' = cloud
    BY <1>7 DEF Restart
  <2>8. HalfOf(device, cloud)' /\ HalfOf(before.device, before.cloud)'
    BY <2>5, <2>6, <2>7 DEF HalfOf
  <2> QED
    BY <2>3, <2>4, <2>8 DEF CvInv, CvKnown
<1>8. CASE UNCHANGED cloudVars
  BY <1>0, <1>8 DEF cloudVars, histVars, CvInv, CvKnown, CvOf, At, Idle, HalfOf
<1> QED
  BY <1>1, <1>2, <1>3, <1>4, <1>5, <1>6, <1>7, <1>8 DEF CloudNext

LEMMA CloudBaseAlways == CloudSpec => []CloudBase
<1>1. CloudInit => CloudBase
  BY CloudShapeInit, CvInvInit DEF CloudBase
<1>2. CloudBase /\ [CloudNext]_cloudVars => CloudBase'
  BY CloudShapeNext, CvInvNext DEF CloudBase
<1> QED
  BY <1>1, <1>2, PTL DEF CloudSpec

----------------------------------------------------------------------------
(* the third inductive invariant: how far an undisturbed synchronisation has come *)

Had    == before.device
Theirs == before.cloud
Forced == over # {}

\* What the cloud is asked for, of what was there when it began.
Wants(mine, theirs) == theirs # None /\ (Forced \/ mine = None)
WantsProfile == Theirs.row /\ (Forced \/ Had.profile = None)
WantsCv      == Theirs.row /\ Theirs.sha # None /\ (Forced \/ Had.sha = None \/ Had.file = None)
FetchesCv    == WantsCv /\ Theirs.blob # None

\* Past the last step.
Done == 17

\* The device before the n-th step: what it had, and what was restored by then.
Restored(n) ==
  /\ device.profile = IF n > 2 /\ WantsProfile THEN Theirs.profile ELSE Had.profile
  /\ device.file = IF n > 3 /\ FetchesCv THEN Theirs.blob ELSE Had.file
  /\ device.sha = IF n > 4 /\ FetchesCv THEN Theirs.sha ELSE Had.sha
  /\ device.setting = IF n > 5 /\ Wants(Had.setting, Theirs.setting) THEN Theirs.setting ELSE Had.setting
  /\ device.answer = IF n > 6 /\ Wants(Had.answer, Theirs.answer) THEN Theirs.answer ELSE Had.answer

\* The cloud before the n-th step.
Mirrored(n) ==
  IF Forced \/ n < 10
    THEN cloud = Theirs
    ELSE /\ cloud.row /\ cloud.profile = device.profile /\ cloud.sha = device.sha
         /\ cloud.blob = Theirs.blob /\ cloud.setting = Theirs.setting
         /\ cloud.answer = IF n > 11 THEN device.answer ELSE Theirs.answer

\* What the thread knows before the n-th step.
Knows(t, n) ==
  /\ n = 2 => thread[t].seen.profile = Had.profile /\ thread[t].seen.sha = Had.sha
  /\ n \in {3, 4} => WantsCv /\ thread[t].sha = Theirs.sha
  /\ n = 4 => FetchesCv
  /\ n > 7 /\ n # Done => thread[t].seen.sha = device.sha
  /\ n = 9 => thread[t].payload.profile = device.profile /\ thread[t].payload.sha = device.sha
  /\ n = 11 => thread[t].payload.answer = device.answer

Syncing == IF Forced THEN Restore ELSE SyncOnStart
\* The CV is never pushed: its hash was, just before.
Last == IF Forced THEN 6 ELSE 12

Reached(t, n) ==
  /\ \A u \in Thread \ {t} : Idle(u)
  /\ over \in {{}, {t}}
  /\ IF n = Done THEN Idle(t) ELSE n \in 1 .. Last /\ Stands(t, Syncing, n)
  /\ Restored(n) /\ Mirrored(n) /\ Knows(t, n)

AloneInv == alone => \E t \in Thread : \E n \in 1 .. Done : Reached(t, n)

CloudInv == CloudBase /\ AloneInv

LEMMA SyncingText ==
  /\ Syncing \in Programs /\ Len(Syncing) = IF Forced THEN 6 ELSE 16
  /\ Syncing[1] = "read" /\ Syncing[2] = "pullProfile" /\ Syncing[3] = "download"
  /\ Syncing[4] = "saveCv" /\ Syncing[5] = "pullSetting" /\ Syncing[6] = "pullAnswer"
  /\ ~Forced => /\ Syncing[7] = "read" /\ Syncing[8] = "takeProfile"
                /\ Syncing[9] = "postProfile" /\ Syncing[10] = "takeAnswer"
                /\ Syncing[11] = "postAnswer" /\ Syncing[12] = "compare"
<1>1. Syncing \in Programs
  BY DEF Syncing, Programs
<1>2. CASE Forced
  BY <1>1, <1>2, RestoreText DEF Syncing
<1>3. CASE ~Forced
  <2>1. \A i \in 1 .. 6 : Syncing[i] = Restore[i]
    BY <1>3, RestoreText DEF Syncing
  <2>2. Syncing = SyncOnStart
    BY <1>3 DEF Syncing
  <2> QED
    BY <1>1, <1>3, <2>1, <2>2, RestoreText, SyncText
<1> QED
  BY <1>2, <1>3

\* What every undisturbed step starts from: only thread t runs, and it is at the
\* step its position says.
LEMMA Position ==
  ASSUME CloudShape, NEW t \in Thread, NEW n \in 1 .. Done, Reached(t, n), NEW s, At(t, s)
  PROVE  /\ n \in 1 .. Last /\ Stands(t, Syncing, n) /\ Syncing[n] = s
         /\ s = "read" => n \in {1, 7} /\ (n = 7 => ~Forced)
         /\ s = "pullProfile" => n = 2
         /\ s = "download" => n = 3
         /\ s = "saveCv" => n = 4
         /\ s = "pullSetting" => n = 5
         /\ s = "pullAnswer" => n = 6
         /\ s = "takeProfile" => n = 8 /\ ~Forced
         /\ s = "postProfile" => n = 9 /\ ~Forced
         /\ s = "takeAnswer" => n = 10 /\ ~Forced
         /\ s = "postAnswer" => n = 11 /\ ~Forced
         /\ s = "compare" => n = 12 /\ ~Forced
         /\ s \notin {"takeCv", "postCv", "postSetting"}
<1>1. n # Done /\ n \in 1 .. Last /\ Stands(t, Syncing, n)
  BY DEF Reached, At
<1>2. Syncing[n] = s
  BY <1>1, StandsAt
<1> HIDE DEF Syncing
<1>3. CASE Forced
  BY <1>1, <1>2, <1>3, SyncingText DEF Last
<1>4. CASE ~Forced
  BY <1>1, <1>2, <1>4, SyncingText DEF Last
<1> QED
  BY <1>3, <1>4

\* Where thread t is after k steps.
LEMMA Advances ==
  ASSUME CloudShape, NEW t \in Thread, NEW n \in 1 .. 12, Reached(t, n), n \in 1 .. Last,
         Stands(t, Syncing, n), over' = over,
         NEW mine \in Local, mine.todo = thread[t].todo, NEW k \in 1 .. 3, Goes(t, mine, k),
         n + k <= 12
  PROVE  /\ \A u \in Thread \ {t} : Idle(u)'
         /\ (over \in {{}, {t}})'
         /\ IF n + k <= Last
              THEN /\ (n + k \in 1 .. Last)' /\ Stands(t, Syncing, n + k)'
                   /\ thread'[t].seen = mine.seen /\ thread'[t].sha = mine.sha
                   /\ thread'[t].payload = mine.payload
              ELSE Forced /\ Idle(t)'
<1>1. Syncing' = Syncing /\ Last' = Last /\ (Forced' <=> Forced)
  BY DEF Syncing, Last, Forced
<1>2. \A u \in Thread \ {t} : Idle(u)'
  BY GoesOn DEF CloudShape, Reached, Idle
<1>3. PICK q \in Programs : q = Syncing
  BY SyncingText
<1>4. Stands(t, q, n)
  BY <1>3
<1>5. /\ n + k <= Len(q) => thread'[t] = [mine EXCEPT !.todo = Rest(q, n + k)] /\ Stands(t, q, n + k)'
      /\ n + k > Len(q) => thread'[t] = Fresh
  BY <1>4, GoesOn DEF CloudShape
<1>6. CASE n + k <= Last
  <2>1. n + k <= Len(q)
    BY <1>3, <1>6, SyncingText DEF Last
  <2>2. Stands(t, Syncing, n + k)'
    BY <1>1, <1>3, <1>5, <2>1 DEF Stands
  <2>3. thread'[t].seen = mine.seen /\ thread'[t].sha = mine.sha /\ thread'[t].payload = mine.payload
    BY <1>5, <2>1 DEF Local
  <2>4. (n + k \in 1 .. Last)'
    BY <1>1, <1>6 DEF Last
  <2> QED
    BY <1>2, <1>6, <2>2, <2>3, <2>4 DEF Reached
<1>7. CASE ~(n + k <= Last)
  <2>1. Forced /\ n + k > Len(q)
    BY <1>3, <1>7, SyncingText DEF Last
  <2>2. Idle(t)'
    BY <1>5, <2>1 DEF Idle
  <2> QED
    BY <1>2, <1>7, <2>1, <2>2 DEF Reached
<1> QED
  BY <1>6, <1>7

LEMMA Comes ==
  ASSUME CloudShape, NEW t \in Thread, NEW n \in 1 .. 12, Reached(t, n), n \in 1 .. Last,
         Stands(t, Syncing, n), over' = over,
         NEW mine \in Local, mine.todo = thread[t].todo, NEW k \in 1 .. 3, Goes(t, mine, k),
         n + k <= 12,
         Restored(n + k)', Mirrored(n + k)',
         /\ thread'[t].seen = mine.seen /\ thread'[t].sha = mine.sha
         /\ thread'[t].payload = mine.payload
         => Knows(t, n + k)'
  PROVE  \E m \in 1 .. Done : Reached(t, m)'
<1>1. /\ \A u \in Thread \ {t} : Idle(u)'
      /\ (over \in {{}, {t}})'
      /\ IF n + k <= Last
           THEN /\ (n + k \in 1 .. Last)' /\ Stands(t, Syncing, n + k)'
                /\ thread'[t].seen = mine.seen /\ thread'[t].sha = mine.sha
                /\ thread'[t].payload = mine.payload
           ELSE Forced /\ Idle(t)'
  BY Advances
<1>2. CASE n + k <= Last
  <2>1. n + k \in 1 .. Done /\ n + k # Done
    BY DEF Done
  <2>2. Knows(t, n + k)'
    BY <1>1, <1>2
  <2> QED
    BY <1>1, <1>2, <2>1, <2>2 DEF Reached
<1>3. CASE ~(n + k <= Last)
  <2>1. Forced /\ Forced' /\ Last = 6 /\ n + k > 6
    BY <1>1, <1>3 DEF Last, Forced
  <2>2. Restored(Done)'
    BY <2>1 DEF Restored, Done
  <2>3. Mirrored(Done)'
    BY <2>1 DEF Mirrored
  <2>4. Knows(t, Done)'
    BY DEF Knows, Done
  <2> QED
    BY <1>1, <1>3, <2>2, <2>3, <2>4 DEF Reached, Done
<1> QED
  BY <1>2, <1>3

\* What the record of the beginning is, as long as it is kept.
LEMMA Kept ==
  ASSUME UNCHANGED histVars, over' = over
  PROVE  /\ Had' = Had /\ Theirs' = Theirs /\ (Forced' <=> Forced)
         /\ (WantsProfile' <=> WantsProfile) /\ (WantsCv' <=> WantsCv) /\ (FetchesCv' <=> FetchesCv)
         /\ \A x, y : Wants(x, y)' <=> Wants(x, y)
BY DEF histVars, Had, Theirs, Forced, WantsProfile, WantsCv, FetchesCv, Wants

\* A step of the synchronisation that nothing disturbs takes it one step further.
LEMMA AloneThread ==
  ASSUME CloudBase, NEW t \in Thread, NEW n \in 1 .. Done, Reached(t, n), CloudStep(t), ~Disturbed
  PROVE  \E m \in 1 .. Done : Reached(t, m)'
<1>0. /\ CloudShape /\ thread[t] \in Local /\ device \in Device /\ cloud \in Remote /\ over' = over
      /\ Had \in Device /\ Theirs \in Remote /\ (t \in over <=> Forced)
  BY StepShape DEF CloudBase, CloudShape, CloudTyped, Had, Theirs, Reached, Forced
<1>1. Restored(n) /\ Mirrored(n) /\ Knows(t, n)
  BY DEF Reached
<1>a. CASE Read(t)
  <2> DEFINE mine == [thread[t] EXCEPT !.seen = Part(device, {"profile", "sha"})]
  <2>1. /\ Part(device, {"profile", "sha"}) \in Device
        /\ Part(device, {"profile", "sha"}).sha = device.sha
        /\ Part(device, {"profile", "sha"}).profile = device.profile
    BY <1>0, PartTyped
  <2>2. /\ mine \in Local /\ mine.todo = thread[t].todo
        /\ mine.seen.sha = device.sha /\ mine.seen.profile = device.profile
    BY <1>0, <2>1 DEF Local
  <2>3. At(t, "read") /\ Goes(t, mine, 1) /\ device' = device /\ cloud' = cloud /\ UNCHANGED histVars
    BY <1>a DEF Read
  <2>4. n \in 1 .. Last /\ Stands(t, Syncing, n) /\ n \in {1, 7} /\ (n = 7 => ~Forced)
    BY <1>0, <2>3, Position
  <2>5. Restored(n + 1)'
    BY <1>0, <1>1, <2>3, <2>4, Kept DEF Restored
  <2>6. Mirrored(n + 1)'
    BY <1>0, <1>1, <2>3, <2>4, Kept DEF Mirrored
  <2>7. ASSUME thread'[t].seen = mine.seen
        PROVE  Knows(t, n + 1)'
    <3>1. thread'[t].seen.sha = device'.sha /\ thread'[t].seen.profile = device'.profile
      BY <2>2, <2>3, <2>7
    <3>2. n = 1 => device'.sha = Had'.sha /\ device'.profile = Had'.profile
      BY <2>5 DEF Restored
    <3> QED
      BY <2>4, <3>1, <3>2 DEF Knows, Done
  <2> HIDE DEF mine
  <2> QED
    BY <1>0, <2>2, <2>3, <2>4, <2>5, <2>6, <2>7, Comes
<1>b. CASE PullProfile(t)
  <2> DEFINE mine == [thread[t] EXCEPT !.sha = cloud.sha]
  <2>1. /\ mine \in Local /\ mine.todo = thread[t].todo /\ mine.seen = thread[t].seen /\ mine.sha = cloud.sha
    BY <1>0 DEF Local, Remote
  <2>2. At(t, "pullProfile") /\ cloud' = cloud /\ UNCHANGED histVars
    BY <1>b DEF PullProfile
  <2>3. n \in 1 .. Last /\ Stands(t, Syncing, n) /\ n = 2
    BY <1>0, <2>2, Position
  <2>4. cloud = Theirs /\ cloud' = Theirs'
    BY <1>0, <1>1, <2>2, <2>3, Kept DEF Mirrored
  <2>5. /\ thread[t].seen.profile = Had.profile /\ thread[t].seen.sha = Had.sha
        /\ device.file = Had.file
    BY <1>1, <2>3 DEF Knows, Restored
  <2>6. Goes(t, mine, IF WantsCv THEN 1 ELSE 3)
    BY <1>0, <1>b, <2>4, <2>5 DEF PullProfile, WantsCv
  <2>7. device' = IF WantsProfile THEN [device EXCEPT !.profile = Theirs.profile] ELSE device
    BY <1>0, <1>b, <2>4, <2>5 DEF PullProfile, WantsProfile
  <2>8. CASE WantsCv
    <3>1. Goes(t, mine, 1)
      BY <2>6, <2>8
    <3>2. Restored(n + 1)'
      BY <1>0, <1>1, <2>2, <2>3, <2>7, Kept DEF Restored, Device
    <3>3. Mirrored(n + 1)'
      BY <2>3, <2>4 DEF Mirrored
    <3>4. ASSUME thread'[t].sha = mine.sha
          PROVE  Knows(t, n + 1)'
      <4>1. thread'[t].sha = Theirs'.sha /\ WantsCv'
        BY <1>0, <2>1, <2>2, <2>4, <2>8, <3>4, Kept
      <4> QED
        BY <2>3, <4>1 DEF Knows, Done
    <3> HIDE DEF mine
    <3> QED
      BY <1>0, <2>1, <2>3, <3>1, <3>2, <3>3, <3>4, Comes
  <2>9. CASE ~WantsCv
    <3>1. Goes(t, mine, 3)
      BY <2>6, <2>9
    <3>2. Restored(n + 3)'
      BY <1>0, <1>1, <2>2, <2>3, <2>7, <2>9, Kept DEF Restored, Device, FetchesCv
    <3>3. Mirrored(n + 3)'
      BY <2>3, <2>4 DEF Mirrored
    <3>4. Knows(t, n + 3)'
      BY <2>3 DEF Knows, Done
    <3> HIDE DEF mine
    <3> QED
      BY <1>0, <2>1, <2>3, <3>1, <3>2, <3>3, <3>4, Comes
  <2> QED
    BY <2>8, <2>9
<1>c. CASE PullProfileFails(t) \/ DownloadFails(t) \/ PullFails(t) \/ CompareFails(t) \/ SendFails(t)
  BY <1>c DEF PullProfileFails, DownloadFails, PullFails, CompareFails, SendFails
<1>d. CASE Download(t)
  <2>1. At(t, "download") /\ cloud' = cloud /\ UNCHANGED histVars
    BY <1>d DEF Download
  <2>2. n \in 1 .. Last /\ Stands(t, Syncing, n) /\ n = 3
    BY <1>0, <2>1, Position
  <2>3. cloud = Theirs /\ cloud' = Theirs' /\ WantsCv /\ WantsCv' /\ thread[t].sha = Theirs'.sha
    BY <1>0, <1>1, <2>1, <2>2, Kept DEF Mirrored, Knows
  <2>4. CASE Theirs.blob = None
    <3>1. Goes(t, thread[t], 2) /\ device' = device
      BY <1>d, <2>3, <2>4 DEF Download, Skip
    <3>2. Restored(n + 2)'
      BY <1>0, <1>1, <2>1, <2>2, <2>4, <3>1, Kept DEF Restored, FetchesCv
    <3>3. Mirrored(n + 2)'
      BY <2>2, <2>3 DEF Mirrored
    <3>4. Knows(t, n + 2)'
      BY <2>2 DEF Knows, Done
    <3> QED
      BY <1>0, <2>2, <3>1, <3>2, <3>3, <3>4, Comes
  <2>5. CASE Theirs.blob # None
    <3>1. Goes(t, thread[t], 1) /\ device' = [device EXCEPT !.file = Theirs.blob]
      BY <1>d, <2>3, <2>5 DEF Download, Skip
    <3>2. Restored(n + 1)'
      BY <1>0, <1>1, <2>1, <2>2, <2>3, <2>5, <3>1, Kept DEF Restored, FetchesCv, Device
    <3>3. Mirrored(n + 1)'
      BY <2>2, <2>3 DEF Mirrored
    <3>4. ASSUME thread'[t].sha = thread[t].sha
          PROVE  Knows(t, n + 1)'
      <4>1. FetchesCv'
        BY <1>0, <2>1, <2>3, <2>5, Kept DEF FetchesCv
      <4> QED
        BY <2>2, <2>3, <3>4, <4>1 DEF Knows, Done
    <3> QED
      BY <1>0, <2>2, <3>1, <3>2, <3>3, <3>4, Comes
  <2> QED
    BY <2>4, <2>5
<1>e. CASE SaveCv(t)
  <2>1. /\ At(t, "saveCv") /\ cloud' = cloud /\ UNCHANGED histVars
        /\ Goes(t, thread[t], 1) /\ device' = [device EXCEPT !.sha = thread[t].sha]
    BY <1>e DEF SaveCv, Skip
  <2>2. n \in 1 .. Last /\ Stands(t, Syncing, n) /\ n = 4
    BY <1>0, <2>1, Position
  <2>3. FetchesCv /\ thread[t].sha = Theirs.sha
    BY <1>1, <2>2 DEF Knows
  <2>4. Restored(n + 1)'
    BY <1>0, <1>1, <2>1, <2>2, <2>3, Kept DEF Restored, Device
  <2>5. Mirrored(n + 1)'
    BY <1>0, <1>1, <2>1, <2>2, Kept DEF Mirrored
  <2>6. Knows(t, n + 1)'
    BY <2>2 DEF Knows, Done
  <2> QED
    BY <1>0, <2>1, <2>2, <2>4, <2>5, <2>6, Comes
<1>f. CASE PullSetting(t)
  <2>1. /\ At(t, "pullSetting") /\ cloud' = cloud /\ UNCHANGED histVars
        /\ Goes(t, thread[t], 1) /\ device' = [device EXCEPT !.setting = Take(t, @, cloud.setting)]
    BY <1>f DEF PullSetting, Skip
  <2>2. n \in 1 .. Last /\ Stands(t, Syncing, n) /\ n = 5
    BY <1>0, <2>1, Position
  <2>3. cloud = Theirs /\ device.setting = Had.setting
    BY <1>1, <2>2 DEF Mirrored, Restored
  <2>4. device'.setting = IF Wants(Had.setting, Theirs.setting) THEN Theirs.setting ELSE Had.setting
    BY <1>0, <2>1, <2>3 DEF Take, Wants, Device
  <2>5. Restored(n + 1)'
    BY <1>0, <1>1, <2>1, <2>2, <2>4, Kept DEF Restored, Device
  <2>6. Mirrored(n + 1)'
    BY <1>0, <1>1, <2>1, <2>2, Kept DEF Mirrored
  <2>7. Knows(t, n + 1)'
    BY <2>2 DEF Knows, Done
  <2> QED
    BY <1>0, <2>1, <2>2, <2>5, <2>6, <2>7, Comes
<1>g. CASE PullAnswer(t)
  <2>1. /\ At(t, "pullAnswer") /\ cloud' = cloud /\ UNCHANGED histVars
        /\ Goes(t, thread[t], 1) /\ device' = [device EXCEPT !.answer = Take(t, @, cloud.answer)]
    BY <1>g DEF PullAnswer, Skip
  <2>2. n \in 1 .. Last /\ Stands(t, Syncing, n) /\ n = 6
    BY <1>0, <2>1, Position
  <2>3. cloud = Theirs /\ device.answer = Had.answer
    BY <1>1, <2>2 DEF Mirrored, Restored
  <2>4. device'.answer = IF Wants(Had.answer, Theirs.answer) THEN Theirs.answer ELSE Had.answer
    BY <1>0, <2>1, <2>3 DEF Take, Wants, Device
  <2>5. Restored(n + 1)'
    BY <1>0, <1>1, <2>1, <2>2, <2>4, Kept DEF Restored, Device
  <2>6. Mirrored(n + 1)'
    BY <1>0, <1>1, <2>1, <2>2, Kept DEF Mirrored
  <2>7. Knows(t, n + 1)'
    BY <2>2 DEF Knows, Done
  <2> QED
    BY <1>0, <2>1, <2>2, <2>5, <2>6, <2>7, Comes
<1>h. CASE Compare(t)
  <2>1. At(t, "compare") /\ device' = device /\ cloud' = cloud /\ UNCHANGED histVars
    BY <1>h DEF Compare
  <2>2. n = 12 /\ ~Forced
    BY <1>0, <2>1, Position
  <2>3. cloud.sha = device.sha /\ thread[t].seen.sha = device.sha
    BY <1>0, <1>1, <2>2 DEF Mirrored, Knows, Done, Remote
  <2>4. Ends(t)
    BY <1>h, <2>3 DEF Compare
  <2>5. Idle(t)' /\ \A u \in Thread \ {t} : Idle(u)'
    BY <1>0, <2>4 DEF Ends, Idle, Reached, CloudShape, CloudTyped
  <2>6. Restored(Done)'
    BY <1>0, <1>1, <2>1, <2>2, Kept DEF Restored, Done
  <2>7. Mirrored(Done)'
    BY <1>0, <1>1, <2>1, <2>2, Kept DEF Mirrored, Done
  <2>8. Knows(t, Done)'
    BY DEF Knows, Done
  <2> QED
    BY <1>0, <2>5, <2>6, <2>7, <2>8 DEF Reached, Done
<1>i. CASE TakePayload(t)
  <2> DEFINE mine == [thread[t] EXCEPT !.payload = Part(device, Sent(t))]
  <2>1. /\ Part(device, Sent(t)) \in Device
        /\ \A f \in {"profile", "sha", "file", "setting", "answer"} :
             f \in Sent(t) => Part(device, Sent(t))[f] = device[f]
    BY <1>0, PartTyped
  <2>2. /\ mine \in Local /\ mine.todo = thread[t].todo /\ mine.seen = thread[t].seen
        /\ mine.payload = Part(device, Sent(t))
    BY <1>0, <2>1 DEF Local
  <2>3. PICK s \in {"takeProfile", "takeAnswer", "takeCv"} : At(t, s)
    BY <1>i DEF TakePayload
  <2>4. /\ n \in 1 .. Last /\ Stands(t, Syncing, n) /\ ~Forced
        /\ (s = "takeProfile" /\ n = 8) \/ (s = "takeAnswer" /\ n = 10)
    BY <1>0, <2>3, Position
  <2>5. Goes(t, mine, 1) /\ device' = device /\ cloud' = cloud /\ UNCHANGED histVars
    BY <1>i, <2>3, <2>4 DEF TakePayload, At
  <2>6. n = 8 => mine.payload.profile = device.profile /\ mine.payload.sha = device.sha
    BY <2>1, <2>2, <2>3, <2>4 DEF Sent, At
  <2>7. n = 10 => mine.payload.answer = device.answer
    BY <2>1, <2>2, <2>3, <2>4 DEF Sent, At
  <2>8. Restored(n + 1)'
    BY <1>0, <1>1, <2>4, <2>5, Kept DEF Restored
  <2>9. Mirrored(n + 1)'
    BY <1>0, <1>1, <2>4, <2>5, Kept DEF Mirrored
  <2>10. thread[t].seen.sha = device.sha
    BY <1>1, <2>4 DEF Knows, Done
  <2> HIDE DEF mine
  <2>11. ASSUME thread'[t].seen = mine.seen, thread'[t].payload = mine.payload
         PROVE  Knows(t, n + 1)'
    BY <2>2, <2>4, <2>5, <2>6, <2>7, <2>10, <2>11 DEF Knows, Done
  <2> QED
    BY <1>0, <2>2, <2>4, <2>5, <2>8, <2>9, <2>11, Comes
<1>j. CASE Sends(t)
  <2> DEFINE mine == [thread[t] EXCEPT !.payload = Empty]
  <2>1. mine \in Local /\ mine.todo = thread[t].todo /\ mine.seen = thread[t].seen
    BY <1>0, EmptyTyped DEF Local
  <2>2. PICK s \in {"postProfile", "postCv", "postSetting", "postAnswer"} : At(t, s)
    BY <1>j DEF Sends, Posting
  <2>3. /\ n \in 1 .. Last /\ Stands(t, Syncing, n) /\ ~Forced
        /\ (s = "postProfile" /\ n = 9) \/ (s = "postAnswer" /\ n = 11)
    BY <1>0, <2>2, Position
  <2>4. Goes(t, mine, 1) /\ device' = device /\ cloud' = Post(t) /\ UNCHANGED histVars
    BY <1>j DEF Sends
  <2>5. thread[t].seen.sha = device.sha
    BY <1>1, <2>3 DEF Knows, Done
  <2>6. Restored(n + 1)'
    BY <1>0, <1>1, <2>3, <2>4, Kept DEF Restored
  <2>7. Mirrored(n + 1)'
    <3>1. CASE n = 9
      <4>1. /\ cloud = Theirs
            /\ thread[t].payload.profile = device.profile /\ thread[t].payload.sha = device.sha
        BY <1>1, <2>3, <3>1 DEF Mirrored, Knows
      <4>2. cloud' = [Theirs EXCEPT !.row = TRUE, !.profile = device.profile, !.sha = device.sha]
        BY <2>2, <2>3, <2>4, <3>1, <4>1 DEF Post
      <4>3. /\ cloud'.row /\ cloud'.profile = device.profile /\ cloud'.sha = device.sha
            /\ cloud'.blob = Theirs.blob /\ cloud'.setting = Theirs.setting
            /\ cloud'.answer = Theirs.answer
        BY <1>0, <4>2 DEF Remote
      <4> QED
        BY <1>0, <2>3, <2>4, <3>1, <4>3, Kept DEF Mirrored
    <3>2. CASE n = 11
      <4>1. /\ cloud.row /\ cloud.profile = device.profile /\ cloud.sha = device.sha
            /\ cloud.blob = Theirs.blob /\ cloud.setting = Theirs.setting
            /\ cloud.answer = Theirs.answer
        BY <1>1, <2>3, <3>2 DEF Mirrored
      <4>2. thread[t].payload.answer = device.answer
        BY <1>1, <3>2 DEF Knows
      <4>3. cloud' = [cloud EXCEPT !.answer = IF device.answer = None THEN @ ELSE device.answer]
        BY <2>2, <2>3, <2>4, <3>2, <4>2 DEF Post, At
      <4>4. device.answer = None => Theirs.answer = None
        BY <1>1, <3>2 DEF Restored, Wants
      <4>5. /\ cloud'.row /\ cloud'.profile = device.profile /\ cloud'.sha = device.sha
            /\ cloud'.blob = Theirs.blob /\ cloud'.setting = Theirs.setting
            /\ cloud'.answer = device.answer
        BY <1>0, <4>1, <4>3, <4>4 DEF Remote
      <4> QED
        BY <1>0, <2>3, <2>4, <3>2, <4>5, Kept DEF Mirrored
    <3> QED
      BY <2>3, <3>1, <3>2
  <2> HIDE DEF mine
  <2>8. ASSUME thread'[t].seen = mine.seen
        PROVE  Knows(t, n + 1)'
    BY <2>1, <2>3, <2>4, <2>5, <2>8 DEF Knows, Done
  <2> QED
    BY <1>0, <2>1, <2>3, <2>4, <2>6, <2>7, <2>8, Comes
<1> QED
  BY <1>a, <1>b, <1>c, <1>d, <1>e, <1>f, <1>g, <1>h, <1>i, <1>j DEF CloudStep

\* A synchronisation that begins while every other thread is idle, on the record of
\* what it begins with.
LEMMA AloneBegins ==
  ASSUME NEW t \in Thread, \A u \in Thread \ {t} : Idle(u)', ~Idle(t)',
         (over \in {{}, {t}})', (thread[t].todo = Syncing)',
         before' = [device |-> device', cloud |-> cloud']
  PROVE  Reached(t, 1)' /\ 1 \in 1 .. Done
<1>1. PICK q \in Programs : q = Syncing'
  BY DEF Syncing, Programs
<1>2. Rest(q, 1) = q /\ 1 \in 1 .. Len(q)
  BY Begins
<1>3. Stands(t, Syncing, 1)'
  BY <1>1, <1>2 DEF Stands
<1>4. Had' = device' /\ Theirs' = cloud'
  BY DEF Had, Theirs
<1>5. Restored(1)' /\ Mirrored(1)' /\ Knows(t, 1)'
  BY <1>4 DEF Restored, Mirrored, Knows
<1>6. (1 \in 1 .. Last)'
  BY DEF Last
<1> QED
  BY <1>3, <1>5, <1>6 DEF Reached, Done

LEMMA AloneInit ==
  ASSUME CloudInit
  PROVE  AloneInv
<1>1. PICK t \in Bg : thread = Starts(t)
  BY DEF CloudInit
<1>2. t \in Thread
  BY DEF Thread
<1>3. SyncOnStart # <<>> /\ Rest(SyncOnStart, 1) = SyncOnStart /\ 1 \in 1 .. Len(SyncOnStart)
  BY Begins DEF Programs
<1>4. /\ thread[t].todo = SyncOnStart /\ ~Idle(t)
      /\ \A u \in Thread \ {t} : Idle(u)
  BY <1>1, <1>2, <1>3, StartsShape, FreshIsLocal DEF Idle, Local, Fresh
<1>5. Stands(t, Syncing, 1)
  BY <1>3, <1>4 DEF Stands, Syncing, Forced, CloudInit, Programs
<1>6. Restored(1) /\ Mirrored(1) /\ Knows(t, 1)
  BY DEF Restored, Mirrored, Knows, CloudInit, Had, Theirs, Unknown
<1>7. Reached(t, 1)
  BY <1>4, <1>5, <1>6 DEF Reached, Done, CloudInit, Last
<1> QED
  BY <1>2, <1>7 DEF AloneInv, Done

\* Only the thread that synchronises can take a step.
LEMMA OneIsBusy ==
  ASSUME CloudBase, AloneInv, alone, NEW t \in Thread, CloudStep(t)
  PROVE  \E n \in 1 .. Done : Reached(t, n)
<1>1. PICK u \in Thread : \E n \in 1 .. Done : Reached(u, n)
  BY DEF AloneInv
<1>2. ~Idle(t)
  BY StepShape DEF CloudBase, CloudShape
<1>3. u = t
  BY <1>1, <1>2 DEF Reached
<1> QED
  BY <1>1, <1>3

LEMMA AloneNext ==
  ASSUME CloudBase, AloneInv, [CloudNext]_cloudVars
  PROVE  AloneInv'
<1>0. CloudShape /\ CloudTyped
  BY DEF CloudBase, CloudShape
<1>1. ASSUME NEW t \in Thread, CloudStep(t)
      PROVE  AloneInv'
  <2>1. CASE Disturbed
    BY <2>1 DEF Disturbed, AloneInv
  <2>2. CASE ~Disturbed
    <3>1. UNCHANGED histVars
      BY <1>1, <2>2 DEF CloudStep, Read, PullProfile, PullProfileFails, Download, DownloadFails,
           SaveCv, PullSetting, PullAnswer, PullFails, Compare, CompareFails, TakePayload, Sends, SendFails
    <3>2. alone' = alone
      BY <3>1 DEF histVars
    <3>3. CASE alone
      <4>1. PICK n \in 1 .. Done : Reached(t, n)
        BY <1>1, <3>3, OneIsBusy
      <4>2. \E m \in 1 .. Done : Reached(t, m)'
        BY <1>1, <2>2, <4>1, AloneThread
      <4> QED
        BY <4>2 DEF AloneInv, Done
    <3>4. CASE ~alone
      BY <3>2, <3>4 DEF AloneInv
    <3> QED
      BY <3>3, <3>4
  <2> QED
    BY <2>1, <2>2
<1>2. CASE PutProfile \/ UploadCv \/ PutSettings \/ SaveAnswers
  <2>1. Disturbed
    BY <1>2 DEF PutProfile, UploadCv, PutSettings, SaveAnswers, Edit
  <2> QED
    BY <2>1 DEF Disturbed, AloneInv
<1>3. ASSUME NEW p \in {Restore, SyncOnStart}, NEW overwrite \in BOOLEAN, OnTheLoop(p, overwrite),
             p = IF overwrite THEN Restore ELSE SyncOnStart
      PROVE  AloneInv'
  <2> SUFFICES ASSUME alone' PROVE AloneInv'
    BY DEF AloneInv
  <2>1. /\ \A u \in Bg : Idle(u) /\ thread'[u] = thread[u]
        /\ thread'[Loop].todo = p /\ ~Idle(Loop)'
        /\ before' = [device |-> device', cloud |-> cloud']
        /\ over' = IF overwrite THEN {Loop} ELSE {}
    BY <1>0, <1>3, OnTheLoopShape DEF OnTheLoop, Programs
  <2>2. Loop \in Thread /\ \A u \in Thread \ {Loop} : Idle(u)'
    BY <2>1 DEF Thread, Idle
  <2>3. (thread[Loop].todo = Syncing)' /\ (over \in {{}, {Loop}})'
    BY <1>3, <2>1 DEF Syncing, Forced
  <2>4. Reached(Loop, 1)' /\ 1 \in 1 .. Done
    BY <2>1, <2>2, <2>3, AloneBegins
  <2> QED
    BY <2>2, <2>4 DEF AloneInv, Done
<1>4. CASE CloudRestore \/ CloudPush
  BY <1>3, <1>4 DEF CloudRestore, CloudPush
<1>5. CASE Restart
  <2>1. PICK t \in Bg : /\ \A u \in Thread \ {t} : Idle(u)'
                        /\ thread'[t].todo = SyncOnStart /\ ~Idle(t)'
    BY <1>0, <1>5, RestartShape
  <2>2. over' = {} /\ before' = [device |-> device', cloud |-> cloud'] /\ t \in Thread
    BY <1>5 DEF Restart, Thread
  <2>3. (thread[t].todo = Syncing)' /\ (over \in {{}, {t}})'
    BY <2>1, <2>2 DEF Syncing, Forced
  <2>4. Reached(t, 1)' /\ 1 \in 1 .. Done
    BY <2>1, <2>2, <2>3, AloneBegins
  <2> QED
    BY <2>2, <2>4 DEF AloneInv, Done
<1>6. CASE UNCHANGED cloudVars
  BY <1>6 DEF cloudVars, histVars, AloneInv, Reached, Idle, Stands, Syncing, Last, Restored, Mirrored,
              Knows, Had, Theirs, Forced, WantsProfile, WantsCv, FetchesCv, Wants
<1> QED
  BY <1>1, <1>2, <1>4, <1>5, <1>6 DEF CloudNext

LEMMA CloudInvAlways == CloudSpec => []CloudInv
<1>1. CloudInit => CloudInv
  BY CloudShapeInit, CvInvInit, AloneInit DEF CloudInv, CloudBase
<1>2. CloudInv /\ [CloudNext]_cloudVars => CloudInv'
  BY CloudShapeNext, CvInvNext, AloneNext DEF CloudInv, CloudBase
<1> QED
  BY <1>1, <1>2, PTL DEF CloudSpec

----------------------------------------------------------------------------
(* the promises *)

\* When the last synchronisation was not disturbed and everything is idle, it has
\* come to its end.
LEMMA Ended ==
  ASSUME CloudInv, Undisturbed
  PROVE  /\ Restored(Done) /\ Mirrored(Done)
         /\ device \in Device /\ cloud \in Remote /\ Had \in Device /\ Theirs \in Remote
<1>1. PICK t \in Thread : \E n \in 1 .. Done : Reached(t, n)
  BY DEF CloudInv, AloneInv, Undisturbed
<1>2. PICK n \in 1 .. Done : Reached(t, n)
  BY <1>1
<1>3. n = Done
  BY <1>2 DEF Reached, Undisturbed, Stands
<1> QED
  BY <1>2, <1>3 DEF Reached, CloudInv, CloudBase, CloudShape, CloudTyped, Had, Theirs

\* An undisturbed synchronisation leaves the row and the answers equal on both sides.
THEOREM UndisturbedSyncMirrors == CloudSpec => []SyncMirrors
<1>1. ASSUME CloudInv
      PROVE  SyncMirrors
  <2> SUFFICES ASSUME Undisturbed, over = {}
               PROVE  /\ cloud.row /\ cloud.profile = device.profile /\ cloud.sha = device.sha
                      /\ device.answer = cloud.answer
    BY DEF SyncMirrors
  <2>1. Restored(Done) /\ Mirrored(Done) /\ ~Forced
    BY <1>1, Ended DEF Forced
  <2> QED
    BY <2>1 DEF Mirrored, Done
<1> QED
  BY <1>1, CloudInvAlways, PTL

\* A device that was wiped gets everything back from an undisturbed synchronisation,
\* and the cloud loses nothing by it.
THEOREM WipeIsRecovered == CloudSpec => []WipeRecovers
<1>1. ASSUME CloudInv
      PROVE  WipeRecovers
  <2> SUFFICES ASSUME Undisturbed, over = {}, Had = Empty, Theirs.row
               PROVE  /\ device.profile = Theirs.profile
                      /\ device.setting = Theirs.setting /\ device.answer = Theirs.answer
                      /\ Theirs.sha # None /\ Theirs.blob # None =>
                           device.file = Theirs.blob /\ device.sha = Theirs.sha
                      /\ cloud.profile = Theirs.profile /\ cloud.blob = Theirs.blob
                      /\ cloud.setting = Theirs.setting /\ cloud.answer = Theirs.answer
    BY DEF WipeRecovers, Had, Theirs
  <2>1. Restored(Done) /\ Mirrored(Done) /\ ~Forced
    BY <1>1, Ended DEF Forced
  <2>2. /\ device.profile = Theirs.profile
        /\ device.setting = Theirs.setting /\ device.answer = Theirs.answer
        /\ Theirs.sha # None /\ Theirs.blob # None =>
             device.file = Theirs.blob /\ device.sha = Theirs.sha
    BY <2>1 DEF Restored, Done, WantsProfile, FetchesCv, WantsCv, Wants, Empty
  <2> QED
    BY <2>1, <2>2 DEF Mirrored, Done
<1> QED
  BY <1>1, CloudInvAlways, PTL

\* After an undisturbed 'Restore from cloud' the device has what the cloud has, and
\* the cloud was only read.
THEOREM RestoreWins == CloudSpec => []RestoreTakesCloud
<1>1. ASSUME CloudInv
      PROVE  RestoreTakesCloud
  <2> SUFFICES ASSUME Undisturbed, over # {}
               PROVE  /\ cloud = before.cloud
                      /\ cloud.row => device.profile = cloud.profile
                      /\ cloud.setting # None => device.setting = cloud.setting
                      /\ cloud.answer # None => device.answer = cloud.answer
                      /\ cloud.row /\ cloud.sha # None /\ cloud.blob # None =>
                           device.file = cloud.blob /\ device.sha = cloud.sha
    BY DEF RestoreTakesCloud
  <2>1. Restored(Done) /\ Mirrored(Done) /\ Forced
    BY <1>1, Ended DEF Forced
  <2>2. cloud = Theirs
    BY <2>1 DEF Mirrored
  <2> QED
    BY <2>1, <2>2 DEF Restored, Done, WantsProfile, FetchesCv, WantsCv, Wants, Theirs
<1> QED
  BY <1>1, CloudInvAlways, PTL

\* Nothing the device had when an undisturbed synchronisation began is changed by it.
THEOREM ExistingIsKept == CloudSpec => ExistingNotClobbered
<1> DEFINE Keeps == \A t \in Thread \ over :
                      CloudStep(t) /\ alone =>
                        \A f \in {"profile", "setting", "answer", "file"} :
                          before.device[f] # None => device'[f] = device[f]
<1>1. ASSUME CloudInv, CloudNext
      PROVE  Keeps
  <2> SUFFICES ASSUME NEW t \in Thread \ over, CloudStep(t), alone
               PROVE  /\ Had.profile # None => device'.profile = device.profile
                      /\ Had.setting # None => device'.setting = device.setting
                      /\ Had.answer # None => device'.answer = device.answer
                      /\ Had.file # None => device'.file = device.file
    BY DEF Had
  <2>1. PICK n \in 1 .. Done : Reached(t, n)
    BY <1>1, OneIsBusy DEF CloudInv
  <2>2. ~Forced /\ Restored(n) /\ Mirrored(n) /\ Knows(t, n)
    BY <2>1 DEF Reached, Forced
  <2>3. CloudShape /\ device \in Device /\ cloud \in Remote /\ Had \in Device
    BY <1>1 DEF CloudInv, CloudBase, CloudShape, CloudTyped, Had
  <2>4. CASE PullProfile(t)
    <3>1. n = 2
      BY <2>1, <2>3, <2>4, Position DEF PullProfile
    <3> QED
      BY <2>2, <2>3, <2>4, <3>1 DEF PullProfile, Knows, Device
  <2>5. CASE Download(t)
    <3>1. n = 3
      BY <2>1, <2>3, <2>5, Position DEF Download
    <3>2. WantsCv /\ cloud = Theirs /\ device.file = Had.file
      BY <2>2, <3>1 DEF Knows, Mirrored, Restored
    <3>3. HalfOf(Had, Theirs)
      BY <1>1 DEF CloudInv, CloudBase, CvInv, Had, Theirs
    <3>4. Had.file # None => Had.file = cloud.blob
      BY <2>2, <3>2, <3>3 DEF WantsCv, HalfOf
    <3> QED
      BY <2>3, <2>5, <3>2, <3>4 DEF Download, Device
  <2>6. CASE SaveCv(t)
    BY <2>3, <2>6 DEF SaveCv, Device
  <2>7. CASE PullSetting(t)
    <3>1. n = 5
      BY <2>1, <2>3, <2>7, Position DEF PullSetting
    <3>2. device.setting = Had.setting
      BY <2>2, <3>1 DEF Restored
    <3> QED
      BY <2>3, <2>7, <3>2 DEF PullSetting, Take, Device
  <2>8. CASE PullAnswer(t)
    <3>1. n = 6
      BY <2>1, <2>3, <2>8, Position DEF PullAnswer
    <3>2. device.answer = Had.answer
      BY <2>2, <3>1 DEF Restored
    <3> QED
      BY <2>3, <2>8, <3>2 DEF PullAnswer, Take, Device
  <2>9. CASE device' = device
    BY <2>9
  <2> QED
    BY <2>4, <2>5, <2>6, <2>7, <2>8, <2>9 DEF CloudStep, Read, PullProfileFails, DownloadFails,
       PullFails, Compare, CompareFails, TakePayload, Sends, SendFails
<1>2. CloudInv /\ [CloudNext]_cloudVars => [Keeps]_cloudVars
  BY <1>1
<1> QED
  BY <1>2, CloudInvAlways, PTL DEF CloudSpec, ExistingNotClobbered
=============================================================================
