--------------------------- MODULE PromiseProofs ----------------------------
(***************************************************************************)
(* The program implements Lifecycle: every step of Pipeline is a step of   *)
(* one or more applications there, or changes none of them.  What the      *)
(* mapping needs of the states is that a submitting sender still has its   *)
(* confirm (OwnerInv) and that a sender waiting for the answer has         *)
(* submitted (EvidenceInv).                                                *)
(***************************************************************************)
EXTENDS OwnerProofs

\* The state Lifecycle sees is left alone.
LifeStutters == UNCHANGED <<itemState, evidence, confirmed, clicked>>

\* A step of one of them, or a stutter.
LifeMoves == Life!LifeNext \/ LifeStutters

\* A step that does not write run_items, or nothing a human would see there.
LEMMA StutterMoves ==
  ASSUME UNCHANGED <<itemState, evidence>>, UNCHANGED historyVars
  PROVE  LifeMoves
BY DEF LifeMoves, LifeStutters, historyVars

\* A guarded update that finds one row to move, or none.
LEMMA OneRow ==
  ASSUME TypeOK, NEW i \in Item, NEW from, NEW to, TransitionItem(i, from, to)
  PROVE  \/ itemState[i] \in from /\ Life!Set({i}, to)
         \/ itemState[i] \notin from /\ itemState' = itemState
BY DEF TypeOK, StoreTypeOK, TransitionItem, TransitionItems, Life!Set

\* What a prepare coroutine does.
LEMMA PrepareMoves ==
  ASSUME TypeOK, NEW t \in Task, PrepareStep(t)
  PROVE  LifeMoves
<1> USE DEF TypeOK, StoreTypeOK, WorkerTypeOK, itemVars, historyVars, LifeMoves, LifeStutters, Life!LifeNext
<1>1. CASE PrepareError(t) \/ DiscoverCancelled(t) \/ PrepareCancelled(t)
  BY <1>1 DEF PrepareError, DiscoverCancelled, PrepareCancelled, EndWith
<1>2. CASE \/ PrepareBegin(t) \/ Discover(t) \/ LinkedInSkipped(t) \/ CoroutineEnds(t)
           \/ NextPhase(t) \/ PrepareCounts(t)
  BY <1>2 DEF PrepareBegin, Discover, LinkedInSkipped, CoroutineEnds, NextPhase, PrepareCounts
<1>3. CASE Add(t)
  <2> DEFINE new == Insertable(taskRun[t], {i \in hold[t] : itemState[i] = "none"})
  <2>1. new \in SUBSET Item /\ Life!Stage(new)
    BY <1>3 DEF Add, AddItems, Insertable, Life!Stage, Life!Among, Life!Set
  <2> QED
    BY <2>1
<1>4. ASSUME NEW i \in Item, Claim(t, i) PROVE LifeMoves
  <2>1. Life!Fill(i)
    BY <1>4, OneRow DEF Claim, RowsOf, Life!Fill
  <2> QED
    BY <2>1
<1>5. ASSUME NEW i \in Item, NEW to \in ItemState, Prepared(t, i, to) PROVE LifeMoves
  <2>1. to \in Life!Stuck \cup {"ready"}
    BY <1>5 DEF Prepared, PrepareVerdicts, Life!Stuck
  <2>2. Life!Filled(i) \/ LifeStutters
    BY <1>5, <2>1, OneRow DEF Prepared, Life!Filled
  <2> QED
    BY <2>2
<1> QED
  BY <1>1, <1>2, <1>3, <1>4, <1>5 DEF PrepareStep

\* What a sender does.
LEMMA SendMoves ==
  ASSUME OwnerInv, EvidenceInv, NEW t \in Task, SendStep(t)
  PROVE  LifeMoves
<1> USE DEF LifeMoves, LifeStutters, Life!LifeNext, itemVars, historyVars
<1>0. TypeOK
  BY DEF EvidenceInv
<1>1. CASE SendBegin(t) \/ SendCounts(t) \/ SendError(t) \/ Pause(t)
  BY <1>1 DEF SendBegin, SendCounts, SendError, EndWith, Pause
<1>2. ASSUME NEW i \in Item, PickUp(t, i) \/ Record(t, i) PROVE LifeMoves
  BY <1>2 DEF PickUp, Record
<1>3. ASSUME NEW i \in Item, SendRefused(t, i) PROVE LifeMoves
  <2>1. PICK to \in Life!Stuck \cup {"ready"} : TransitionItem(i, {"sending"}, to)
    BY <1>3 DEF SendRefused, Life!Stuck
  <2>2. Life!NotSent(i) \/ LifeStutters
    BY <1>0, <1>3, <2>1, OneRow DEF SendRefused, Life!NotSent
  <2> QED
    BY <2>2
<1>4. ASSUME NEW i \in Item, FillFails(t, i) PROVE LifeMoves
  <2>1. PICK to \in Life!Stuck : SendAnswer(t, i, to)
    BY <1>4 DEF FillFails, Life!Stuck
  <2>2. Life!NotSent(i) \/ LifeStutters
    BY <1>0, <2>1, OneRow DEF SendAnswer, Life!NotSent
  <2> QED
    BY <2>2
<1>5. ASSUME NEW i \in Item, Click(t, i) PROVE LifeMoves
  <2>1. i \in confirmed
    BY <1>5 DEF Click, Step, OwnerInv, HeldRows
  <2>2. Life!Submit(i)
    BY <1>5, <2>1 DEF Click, Life!Submit
  <2> QED
    BY <2>2
<1>6. ASSUME NEW i \in Item, NotVerified(t, i) PROVE LifeMoves
  <2>1. i \in clicked
    BY <1>6 DEF NotVerified, SendAnswer, EvidenceInv, ClickedIsSubmitted
  <2>2. PICK to \in Life!Stuck \cup {"sent_unverified"} : SendAnswer(t, i, to)
    BY <1>6 DEF NotVerified, Life!Stuck
  <2>3. Life!NotSent(i) \/ Life!Unverified(i) \/ LifeStutters
    BY <1>0, <2>1, <2>2, OneRow DEF SendAnswer, Life!NotSent, Life!Unverified
  <2> QED
    BY <2>3
<1>7. ASSUME NEW i \in Item, Verified(t, i) PROVE LifeMoves
  <2>1. i \in clicked
    BY <1>7 DEF Verified, Step, EvidenceInv, ClickedIsSubmitted
  <2>2. Life!Sent(i) \/ LifeStutters
    BY <1>0, <1>7, <2>1, OneRow DEF Verified, Life!Sent
  <2> QED
    BY <2>2
<1> QED
  BY <1>1, <1>2, <1>3, <1>4, <1>5, <1>6, <1>7 DEF SendStep

\* What a human does.
LEMMA RequestMoves ==
  ASSUME TypeOK, Request
  PROVE  LifeMoves
<1> USE DEF LifeMoves, LifeStutters, Life!LifeNext, itemVars, historyVars
<1>1. ASSUME NEW r \in Run, CancelRun(r) \/ \E mode \in {"dry", "live"} : CreateRun(r, mode)
      PROVE  LifeMoves
  BY <1>1 DEF CancelRun, CreateRun
<1>2. ASSUME NEW t \in Task, Takeover(t) PROVE LifeMoves
  BY <1>2 DEF Takeover
<1>3. ASSUME NEW r \in Run, NEW S \in SUBSET Item, Confirm(r, S), \A i \in S : itemState[i] = "ready"
      PROVE  LifeMoves
  <2>1. Life!Confirm(S)
    BY <1>3 DEF Confirm, TransitionItems, Life!Confirm, Life!Among, Life!Set
  <2> QED
    BY <2>1
<1>4. ASSUME NEW r \in Run, NEW i \in Item, ConfirmItem(r, i) PROVE LifeMoves
  BY <1>3, <1>4 DEF ConfirmItem
<1>5. ASSUME NEW r \in Run, ConfirmAll(r) PROVE LifeMoves
  BY <1>3, <1>5 DEF ConfirmAll, RowsOf
<1>6. ASSUME NEW r \in Run, NEW S \in SUBSET Item, SendReady(r, S) PROVE LifeMoves
  BY <1>3, <1>6 DEF SendReady
<1>7. ASSUME NEW i \in Item, MarkSent(i) PROVE LifeMoves
  <2>1. Life!HumanSent(i) \/ LifeStutters
    BY <1>7, OneRow DEF MarkSent, Resolvable, Waiting, Life!HumanSent, Life!Open, Life!Stuck
  <2> QED
    BY <2>1
<1>8. ASSUME NEW i \in Item, MarkUnavailable(i) \/ SkipItem(i) PROVE LifeMoves
  <2>1. Life!HumanDrops(i) \/ LifeStutters
    BY <1>8, OneRow
       DEF MarkUnavailable, SkipItem, Resolvable, Waiting, Life!HumanDrops, Life!Open, Life!Stuck
  <2> QED
    BY <2>1
<1>9. ASSUME NEW S \in SUBSET Item, Requeue(S) PROVE LifeMoves
  <2>1. Life!HumanAnswers(S)
    BY <1>9 DEF Requeue, TransitionItems, Life!HumanAnswers, Life!Among, Life!Set, Life!Stuck
  <2> QED
    BY <2>1
<1> QED
  BY <1>1, <1>2, <1>4, <1>5, <1>6, <1>7, <1>8, <1>9 DEF Request

\* What the sweeps do: rows go back to the human or to the queue.
LEMMA SweepMoves ==
  ASSUME TypeOK, UNCHANGED evidence, UNCHANGED historyVars,
         SweepStuckItems \/ \E dead \in SUBSET Run : SweepStaleRuns(dead)
  PROVE  LifeMoves
<1> USE DEF LifeMoves, Life!LifeNext, historyVars
<1>1. CASE SweepStuckItems
  <2> DEFINE S == {i \in stalled : itemState[i] = "sending"}
  <2>1. S \in SUBSET Item /\ {} \in SUBSET Item /\ Life!Recover(S, {})
    BY <1>1 DEF SweepStuckItems, TransitionItems, Life!Recover, Life!Among, TypeOK, StoreTypeOK
  <2> QED
    BY <2>1
<1>2. ASSUME NEW dead \in SUBSET Run, SweepStaleRuns(dead) PROVE LifeMoves
  <2> DEFINE S == {i \in Item : itemState[i] = "sending" /\ (itemRun[i] \in StaleRuns(dead) \/ i \in stalled)}
             T == {i \in Item : itemState[i] = "preparing" /\ itemRun[i] \in StaleRuns(dead)}
  <2>1. S \in SUBSET Item /\ T \in SUBSET Item /\ Life!Recover(S, T)
    BY <1>2 DEF SweepStaleRuns, Life!Recover, Life!Among
  <2> QED
    BY <2>1
<1> QED
  BY <1>1, <1>2

\* Every step of the program is one of these.
LEMMA StepMoves ==
  ASSUME OwnerInv, EvidenceInv, [Next]_vars
  PROVE  LifeMoves
<1>0. TypeOK
  BY DEF EvidenceInv
<1>1. ASSUME NEW t \in Task, Work(t) PROVE LifeMoves
  <2>1. CASE PrepareStep(t) \/ SendStep(t)
    BY <1>0, <2>1, PrepareMoves, SendMoves
  <2>2. CASE Close(t) \/ TakeOver(t) \/ Exit(t)
    BY <2>2, StutterMoves DEF Close, EndWith, TakeOver, Exit, itemVars
  <2> QED
    BY <1>1, <2>1, <2>2 DEF Work, TaskStep
<1>2. ASSUME NEW r \in Run, Tick(r) \/ RunNow(r) PROVE LifeMoves
  BY <1>2, StutterMoves DEF Tick, RunNow, StageCreate, itemVars
<1>3. ASSUME NEW c \in Caller, Staging(c) PROVE LifeMoves
  BY <1>3, StutterMoves
     DEF Staging, StageContinues, StageRefused, StageSubmit, StageStart, itemVars
<1>4. CASE Handle
  BY <1>4, StutterMoves
     DEF Handle, HandlerContinues, StartRefused, HandlerSubmit, EnsureReturns, StartPrepare,
         EnsureStart, itemVars
<1>5. CASE Ask
  BY <1>0, <1>5, RequestMoves DEF Ask
<1>6. CASE Assist
  BY <1>0, <1>6, StutterMoves, SweepMoves DEF Assist, AssistStep, AssistCheck, AssistSweep, itemVars
<1>7. CASE NewDay \/ Boot \/ Crash \/ \E i \in Item : ItemStalls(i)
  BY <1>7, StutterMoves DEF NewDay, Boot, Crash, ItemStalls, itemVars, storeVars
<1>8. CASE OtherProcessSweeps
  <2>1. PICK quiet \in SUBSET Run : SweepStaleRuns(orphan \cup quiet)
    BY <1>8 DEF OtherProcessSweeps
  <2>2. orphan \cup quiet \in SUBSET Run
    BY <1>0 DEF TypeOK, StoreTypeOK
  <2> QED
    BY <1>0, <1>8, <2>1, <2>2, SweepMoves DEF OtherProcessSweeps, SweepFrame
<1>9. CASE Startup
  <2>1. CASE StartupSweep
    BY <1>0, <2>1, SweepMoves DEF StartupSweep, SweepFrame, TypeOK, StoreTypeOK
  <2>2. CASE StartupSweepSkipped
    BY <2>2, StutterMoves DEF StartupSweepSkipped, storeVars, itemVars
  <2> QED
    BY <1>9, <2>1, <2>2 DEF Startup
<1>10. CASE UNCHANGED vars
  BY <1>10, StutterMoves DEF vars, storeVars, itemVars
<1> QED
  BY <1>1, <1>2, <1>3, <1>4, <1>5, <1>6, <1>7, <1>8, <1>9, <1>10 DEF Next

\* The program keeps the promise of Lifecycle, for any number of rows, runs,
\* coroutines and crashes, with every interleaving of requests and sweeps.
THEOREM PromiseIsKept == ServerAlone => (Spec => KeepsPromise)
<1> SUFFICES ASSUME ServerAlone PROVE Spec => KeepsPromise
  OBVIOUS
<1>1. Init => Life!LifeInit
  BY DEF Init, StoreInit, WorkerInit, Life!LifeInit
<1>2. OwnerInv /\ EvidenceInv /\ [Next]_vars => [Life!LifeNext]_(Life!lifeVars)
  BY StepMoves DEF LifeMoves, LifeStutters, Life!lifeVars
<1>3. OwnerInv /\ [Next]_vars => OwnerInv'
  BY OwnerStep
<1> QED
  BY <1>1, <1>2, <1>3, OwnerInit, EvidenceInit, EvidenceStep, PTL
     DEF Spec, KeepsPromise, Life!LifeSpec
=============================================================================
