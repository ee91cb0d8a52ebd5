---------------------------- MODULE FormsProofs -----------------------------
(***************************************************************************)
(* What the pages may and may not do, for any set of applications, any     *)
(* forms, any number of turns, jobs, edits and failures.                   *)
(*                                                                         *)
(* The inductive invariant has four parts: what the values look like, what *)
(* a page is about at each step of its job, which window a take-over is    *)
(* in, and what a form that is offered, or sent again, has in it.          *)
(***************************************************************************)
EXTENDS Forms, TLAPS

PageRecord ==
  [kind : {"none", "prepare", "send", "takeover"}, row : Row \cup {"none"},
   pc : {"idle", "goto", "fill", "attach", "verdict", "submit", "walk", "poll", "look"},
   turn : 0 .. (MaxTurns - 1), step : Nat, who : Version, filled : Filling, cv : Version,
   broken : BOOLEAN, swapped : BOOLEAN, reply : Reply]

\* FormsTypeOK with the domains.
Shape ==
  /\ profile \in Version \ {0} /\ cv \in Version \ {0} /\ bank \in [Question -> Version]
  /\ row \in [Row -> RowState]
  /\ handle \in [Row -> [filled : Filling, cv : Version, questions : SUBSET Field]]
  /\ received \in [Row -> Seq([filled : Filling, cv : Version])]
  /\ reviewed \in [Row -> [cv : Version, alive : BOOLEAN, swapped : BOOLEAN]]
  /\ ctx \in [Window -> {"none", "headless", "visible"}]
  /\ left \subseteq Row
  /\ page \in PageRecord

\* A page belongs to a row, and each step of its coroutine to an adapter and a job;
\* only a click is answered, by a frank site frankly, and a success on a page that
\* lives is not looked past.
Place(p) ==
  /\ p.pc # "idle" /\ p.kind # "none" /\ p.row \in Row
  /\ p.step \in 1 .. Len(StepsOf[p.row])
  /\ p.pc = "walk" => SiteOf[p.row] = "linkedin" /\ p.kind # "takeover"
  /\ p.pc \in {"fill", "attach", "verdict", "submit", "look"} => SiteOf[p.row] \in Ats
  /\ p.pc = "verdict" => p.kind = "prepare"
  /\ p.pc \in {"submit", "poll", "look"} => p.kind = "send"
  /\ p.pc \notin {"poll", "look"} => p.reply = NoReply
  /\ p.pc = "look" /\ (p.reply.ok \/ p.reply.shows = "success") => p.broken
  /\ p.row \in Frank => /\ p.reply.ok \/ p.reply.shows = "success" => p.reply.accepted
                        /\ p.reply.shows = "asks" => ~p.reply.accepted

ProfileField == {"name", "link"}

\* What is on the form: the steps that were passed are complete; a prepare fills
\* nothing of a form with a secret; and what a send to a hosted form clicks is what
\* was reviewed, where it was compared.
Content(p) ==
  /\ p.pc \in {"goto", "fill"} => p.filled = Blank
  /\ p.pc \in {"goto", "fill", "attach"} => p.cv = 0
  /\ p.pc = "goto" => p.step = 1
  /\ \A n \in 1 .. Len(StepsOf[p.row]) : n < p.step =>
       \A f \in StepsOf[p.row][n] \cap Required : p.filled[f] # 0
  /\ p.pc = "verdict" /\ ~p.swapped => p.cv \in {0, cv}
  /\ p.kind = "prepare" /\ p.pc \in {"attach", "verdict"} /\ "secret" \in StepsOf[p.row][1] =>
       p.filled = Blank
  /\ p.kind = "send" /\ SiteOf[p.row] = "hosted" =>
       /\ p.pc \in {"goto", "fill", "attach"} => p.swapped \/ cv = handle[p.row].cv
       /\ p.pc = "submit" => p.swapped \/ p.cv = handle[p.row].cv
       /\ p.pc \in {"attach", "submit"} =>
            \A f \in ProfileField : handle[p.row].filled[f] # 0 =>
              p.filled[f] \in {0, handle[p.row].filled[f]}

\* A send holds its row in "sending", and a take-over its window in sight.
PageFits ==
  page # NoPage =>
    /\ Place(page) /\ Content(page)
    /\ page.kind = "send" => row[page.row] = "sending"
    /\ page.kind = "takeover" /\ Site = "linkedin" /\ ~page.broken => ctx["linkedin"] = "visible"

\* What a form has in it when it is offered, unless its page died.
Sound(r, filled, seen) ==
  /\ \A n \in 1 .. Len(StepsOf[r]) :
       \A f \in (StepsOf[r][n] \cap Required) \ {"secret"} : filled[f] # 0
  /\ SiteOf[r] \in Ats => seen # 0 /\ r \notin Captcha /\ "secret" \notin StepsOf[r][1]

\* Its CV, for the guard, is the one attached unless it was replaced in between.
OfferedIsSound ==
  \A r \in Row : row[r] \in {"ready", "sending"} =>
    /\ r \notin Borderline
    /\ reviewed[r].alive => Sound(r, handle[r].filled, reviewed[r].cv)
    /\ SiteOf[r] \in Ats => reviewed[r].swapped \/ handle[r].cv = reviewed[r].cv

FormsInv == Shape /\ PageFits /\ OfferedIsSound /\ TakeoverIsVisible

\* Every change of the human makes one new version.
Counted ==
  /\ edits \in 0 .. MaxEdits
  /\ profile <= edits + 1 /\ cv <= edits + 1 /\ \A q \in Question : bank[q] <= edits + 1

----------------------------------------------------------------------------
(* the helpers of a page *)

LEMMA VersionIs ==
  /\ 0 \in Version /\ 1 \in Version \ {0} /\ Version \subseteq Nat
  /\ 0 \in 0 .. (MaxTurns - 1)
BY FormsAssumption DEF Version

LEMMA NoPageIs == NoPage \in PageRecord /\ Blank \in Filling
<1>1. Blank \in Filling
  BY VersionIs DEF Blank, Filling
<1>2. NoReply \in Reply
  BY DEF NoReply, Reply
<1> QED
  BY <1>1, <1>2, VersionIs DEF NoPage, PageRecord

\* What a field is filled with is a version.
LEMMA KnowsIsVersion ==
  ASSUME FormsInv, page # NoPage, NEW f \in Field
  PROVE  Knows(f) \in Version
<1> USE DEF FormsInv, Shape
<1>1. page.row \in Row
  BY DEF PageFits, Place
<1>2. handle[page.row].filled \in Filling
  BY <1>1
<1>3. handle[page.row].filled[f] \in Version
  BY <1>2 DEF Filling
<1>4. ProfileValue(f) \in Version
  BY <1>3, VersionIs DEF ProfileValue, PageRecord
<1>5. f \in Question => bank[f] \in Version
  OBVIOUS
<1> QED
  BY <1>4, <1>5, VersionIs DEF Knows, Question

\* The fields of a form are fields.
LEMMA FieldsAreFields ==
  ASSUME FormsInv, page # NoPage
  PROVE  /\ Fields \subseteq Field
         /\ page.step < Len(StepsOf[page.row]) => page.step + 1 \in 1 .. Len(StepsOf[page.row])
         /\ Site \in Ats => page.step = 1
<1>1. page.step \in 1 .. Len(StepsOf[page.row]) /\ StepsOf[page.row] \in Seq(SUBSET Field)
  BY FormsAssumption DEF FormsInv, PageFits, Place
<1>2. Fields \subseteq Field
  BY <1>1 DEF Fields
<1>3. Site \in Ats => Len(StepsOf[page.row]) = 1
  BY FormsAssumption DEF FormsInv, PageFits, Place, Site
<1>4. Len(StepsOf[page.row]) \in Nat
  BY <1>1
<1>5. ASSUME page.step < Len(StepsOf[page.row])
      PROVE  page.step + 1 \in 1 .. Len(StepsOf[page.row])
  BY <1>1, <1>4, <1>5
<1>6. ASSUME Site \in Ats PROVE page.step = 1
  <2>1. page.step \in 1 .. 1
    BY <1>1, <1>3, <1>6
  <2> QED
    BY <2>1
<1> QED
  BY <1>2, <1>5, <1>6

\* A round of filling adds to the form and changes nothing that is there.
LEMMA FillsAdds ==
  ASSUME FormsInv, page # NoPage, NEW got \in Got
  PROVE  /\ Fills(got) \in PageRecord
         /\ Fills(got).kind = page.kind /\ Fills(got).row = page.row /\ Fills(got).pc = page.pc
         /\ Fills(got).turn = page.turn /\ Fills(got).step = page.step
         /\ Fills(got).cv = page.cv /\ Fills(got).broken = page.broken
         /\ Fills(got).reply = page.reply /\ Fills(got).swapped = page.swapped
         /\ \A f \in Field :
              Fills(got).filled[f] = IF f \in got THEN Knows(f) ELSE page.filled[f]
         /\ got \subseteq Fillable
         /\ page.broken => got = {}
<1>1. page \in PageRecord
  BY DEF FormsInv, Shape
<1>2. [f \in Field |-> IF f \in got THEN Knows(f) ELSE page.filled[f]] \in Filling
  BY <1>1, KnowsIsVersion DEF PageRecord, Filling
<1>3. got \subseteq Fillable /\ (page.broken => got = {})
  BY DEF Got
<1> DEFINE fi == [f \in Field |-> IF f \in got THEN Knows(f) ELSE page.filled[f]]
<1>4. Fills(got) = [page EXCEPT !.filled = fi]
  BY Zenon DEF Fills
<1> HIDE DEF fi
<1>5. fi \in Filling
  BY <1>2 DEF fi
<1>6. \A f \in Field : fi[f] = IF f \in got THEN Knows(f) ELSE page.filled[f]
  BY DEF fi
<1> DEFINE q == Fills(got)
<1>7. /\ q \in PageRecord
      /\ q.kind = page.kind /\ q.row = page.row /\ q.pc = page.pc /\ q.turn = page.turn
      /\ q.step = page.step /\ q.cv = page.cv /\ q.broken = page.broken
      /\ q.reply = page.reply /\ q.filled = fi /\ q.swapped = page.swapped
  BY <1>1, <1>4, <1>5, Zenon DEF PageRecord
<1> QED
  BY <1>3, <1>6, <1>7

----------------------------------------------------------------------------
(* how a step of a page may end *)

\* The coroutine goes on, with a page that fits.
LEMMA GoesKeeps ==
  ASSUME FormsInv, page # NoPage, NEW p \in PageRecord, Goes(p),
         p.row = page.row, p.kind = page.kind, p.broken = page.broken, Place(p), Content(p)
  PROVE  FormsInv'
<1> USE DEF FormsInv, Goes, bankVars, boundVars
<1>1. Shape'
  BY DEF Shape
<1>2. PageFits'
  BY DEF PageFits, Place, Content, Site
<1>3. OfferedIsSound' /\ TakeoverIsVisible'
  BY DEF OfferedIsSound, Sound, TakeoverIsVisible
<1> QED
  BY <1>1, <1>2, <1>3

\* The page is closed with a verdict that offers nothing, and nothing is kept.
LEMMA ReturnsKeeps ==
  ASSUME FormsInv, page # NoPage, NEW s \in RowState \ {"ready", "sending"}, Returns(s)
  PROVE  FormsInv'
<1> USE DEF FormsInv, Returns, Ends, bankVars, boundVars
<1>1. Shape'
  BY NoPageIs DEF Shape
<1>2. PageFits'
  BY DEF PageFits, Place
<1>3. OfferedIsSound' /\ TakeoverIsVisible'
  BY DEF Shape, OfferedIsSound, Sound, TakeoverIsVisible
<1> QED
  BY <1>1, <1>2, <1>3

\* It is closed, and what was on it is kept, with a verdict that offers it only if
\* it is sound.
LEMMA ParkKeeps ==
  ASSUME FormsInv, page # NoPage, NEW s \in {"ready", "needs_input"}, NEW questions \in SUBSET Field,
         NEW p \in PageRecord, Park(s, questions, p),
         s = "ready" /\ ~p.broken => Sound(page.row, p.filled, p.cv),
         s = "ready" /\ Site \in Ats => p.swapped \/ cv = p.cv
  PROVE  FormsInv'
<1> USE DEF FormsInv, Park, Ends, bankVars, boundVars
<1>1. page.row \in Row
  BY DEF PageFits, Place
<1>2. Shape'
  <2>1. handle' \in [Row -> [filled : Filling, cv : Version, questions : SUBSET Field]]
    BY DEF Shape, PageRecord
  <2>3. p.cv \in Version /\ p.swapped \in BOOLEAN
    BY DEF PageRecord
  <2>2. reviewed' \in [Row -> [cv : Version, alive : BOOLEAN, swapped : BOOLEAN]]
    <3> DEFINE seen == [cv |-> p.cv, alive |-> ~p.broken, swapped |-> p.swapped]
    <3>1. seen \in [cv : Version, alive : BOOLEAN, swapped : BOOLEAN]
      BY <2>3, Zenon
    <3>2. reviewed' = [reviewed EXCEPT ![page.row] = seen] /\ reviewed \in [Row -> [cv : Version, alive : BOOLEAN, swapped : BOOLEAN]]
      BY DEF Shape
    <3> HIDE DEF seen
    <3> QED
      BY <3>1, <3>2
  <2> QED
    BY <2>1, <2>2, NoPageIs DEF Shape, RowState
<1>3. PageFits' /\ TakeoverIsVisible'
  BY DEF PageFits, TakeoverIsVisible
<1>4. OfferedIsSound'
  <2> SUFFICES ASSUME NEW r \in Row, row'[r] \in {"ready", "sending"}
               PROVE  /\ r \notin Borderline
                      /\ reviewed'[r].alive => Sound(r, handle'[r].filled, reviewed'[r].cv)
                      /\ SiteOf[r] \in Ats => reviewed'[r].swapped \/ handle'[r].cv = reviewed'[r].cv
    BY DEF OfferedIsSound, Sound
  <2>1. CASE r = page.row
    <3>1. s = "ready" /\ r \notin Borderline
      BY <2>1 DEF Shape
    <3>2. /\ handle'[r].filled = p.filled /\ handle'[r].cv = cv /\ reviewed'[r].cv = p.cv
          /\ reviewed'[r].alive = ~p.broken /\ reviewed'[r].swapped = p.swapped
      BY <2>1 DEF Shape
    <3> QED
      BY <2>1, <3>1, <3>2 DEF Site
  <2>2. CASE r # page.row
    <3>1. row'[r] = row[r] /\ handle'[r] = handle[r] /\ reviewed'[r] = reviewed[r]
      BY <2>2 DEF Shape
    <3> QED
      BY <3>1 DEF OfferedIsSound
  <2> QED
    BY <2>1, <2>2
<1> QED
  BY <1>2, <1>3, <1>4

\* Work for the human, whatever the job.
LEMMA NeedsInputKeeps ==
  ASSUME FormsInv, page # NoPage, NEW questions \in SUBSET Field, NEW p \in PageRecord,
         NeedsInput(questions, p)
  PROVE  FormsInv'
BY ReturnsKeeps, ParkKeeps DEF NeedsInput, RowState

\* An exception, a time limit or a cancel.
LEMMA FailsKeeps ==
  ASSUME FormsInv, page # NoPage, Fails
  PROVE  FormsInv'
<1>1. Returns("failed")
  BY DEF Fails, Returns
<1> QED
  BY <1>1, ReturnsKeeps DEF RowState

\* A take-over leaves its page open in a window that can be seen.
LEMMA LeavesOpenKeeps ==
  ASSUME FormsInv, page # NoPage, page.kind = "takeover", LeavesOpen
  PROVE  FormsInv'
<1> USE DEF FormsInv, LeavesOpen, bankVars, boundVars
<1>1. Shape'
  BY NoPageIs DEF Shape, PageFits, Place
<1>2. PageFits'
  BY DEF PageFits, Place
<1>3. OfferedIsSound'
  BY DEF OfferedIsSound, Sound
<1>4. TakeoverIsVisible'
  BY DEF TakeoverIsVisible, PageFits, Site
<1> QED
  BY <1>1, <1>2, <1>3, <1>4

\* A click: what the employer has is what was on the page.
LEMMA ClicksKeeps ==
  ASSUME FormsInv, page # NoPage, NEW p \in PageRecord, Clicks(p), p.kind = "send",
         p.row = page.row, page.kind = "send", p.broken = page.broken, Place(p), Content(p)
  PROVE  FormsInv'
<1> USE DEF FormsInv, Clicks, bankVars, boundVars
<1>1. PICK reply \in Replies(p) : page' = [p EXCEPT !.pc = "poll", !.reply = reply]
  OBVIOUS
<1>2. reply \in Reply
  BY DEF Replies, Reply
<1>3. page' \in PageRecord
  BY <1>1, <1>2 DEF PageRecord
<1>4. received' \in [Row -> Seq([filled : Filling, cv : Version])]
  <2>1. [filled |-> p.filled, cv |-> p.cv] \in [filled : Filling, cv : Version]
    BY DEF PageRecord
  <2>2. received[p.row] \in Seq([filled : Filling, cv : Version])
    BY DEF Shape, Place
  <2>3. Append(received[p.row], [filled |-> p.filled, cv |-> p.cv])
          \in Seq([filled : Filling, cv : Version])
    BY <2>1, <2>2
  <2> QED
    BY <2>3 DEF Shape
<1>5. Shape'
  BY <1>3, <1>4 DEF Shape
<1>6. PageFits'
  <2>1. /\ page'.kind = p.kind /\ page'.row = p.row /\ page'.pc = "poll" /\ page'.step = p.step
        /\ page'.filled = p.filled /\ page'.broken = p.broken /\ page'.reply = reply
    BY <1>1 DEF PageRecord
  <2>2. p.row \in Frank => /\ reply.ok \/ reply.shows = "success" => reply.accepted
                           /\ reply.shows = "asks" => ~reply.accepted
    BY DEF Replies
  <2>3. Place(page)'
    BY <2>1, <2>2 DEF Place
  <2>4. Content(page)'
    BY <2>1 DEF Content
  <2> QED
    BY <2>1, <2>3, <2>4 DEF PageFits
<1>7. OfferedIsSound' /\ TakeoverIsVisible'
  BY DEF OfferedIsSound, Sound, TakeoverIsVisible
<1> QED
  BY <1>5, <1>6, <1>7

----------------------------------------------------------------------------
(* the steps of a job *)

\* A coroutine that is anywhere has a page.
LEMMA AtWork ==
  ASSUME FormsInv, NEW x, At(x), x # "idle"
  PROVE  /\ page # NoPage /\ page \in PageRecord /\ Place(page) /\ Content(page)
         /\ page.row \in Row
BY DEF At, NoPage, FormsInv, Shape, PageFits, Place

\* Questions that are put to the human are fields.
LEMMA EmptyAreFields ==
  ASSUME FormsInv, page # NoPage, NEW p, NEW among
  PROVE  Empty(p, among) \subseteq Field
BY FieldsAreFields DEF Empty

LEMMA OpeningKeeps ==
  ASSUME FormsInv, Navigates \/ NavigationFails \/ NoForm
  PROVE  FormsInv'
<1>1. At("goto")
  BY DEF Navigates, NavigationFails, NoForm
<1>2. /\ page # NoPage /\ page \in PageRecord /\ Place(page) /\ Content(page)
      /\ page.row \in Row
  BY <1>1, AtWork
<1>3. SiteOf[page.row] \in Ats \cup {"linkedin"} /\ "linkedin" \notin Ats
  BY <1>2, FormsAssumption DEF Ats
<1>4. ASSUME page.kind = "takeover", LeavesOpen PROVE FormsInv'
  BY <1>2, <1>4, LeavesOpenKeeps
<1>5. ASSUME Fails PROVE FormsInv'
  BY <1>2, <1>5, FailsKeeps
<1>6. ASSUME NEW next \in {"walk", "fill"}, Goes([page EXCEPT !.pc = next]),
             next = "walk" => page.kind # "takeover" /\ Site = "linkedin",
             next = "fill" => Site # "linkedin"
      PROVE  FormsInv'
  <2> DEFINE p == [page EXCEPT !.pc = next]
  <2>1. /\ p \in PageRecord /\ p.row = page.row /\ p.kind = page.kind /\ p.broken = page.broken
        /\ p.pc = next /\ p.step = page.step /\ p.reply = page.reply /\ p.filled = page.filled
        /\ p.cv = page.cv /\ p.swapped = page.swapped
    BY <1>2 DEF PageRecord
  <2>2. Place(p)
    BY <1>1, <1>2, <1>3, <1>6, <2>1 DEF Place, At, Site
  <2>3. Content(p)
    BY <1>1, <1>2, <1>6, <2>1 DEF Content, At
  <2> QED
    BY <1>2, <1>6, <2>1, <2>2, <2>3, GoesKeeps
<1>7. ASSUME NeedsInput({}, page) PROVE FormsInv'
  BY <1>2, <1>7, NeedsInputKeeps
<1>8. CASE Navigates
  BY <1>4, <1>6, <1>8 DEF Navigates
<1>9. CASE NavigationFails
  BY <1>4, <1>5, <1>9 DEF NavigationFails
<1>10. CASE NoForm
  BY <1>5, <1>7, <1>10 DEF NoForm
<1> QED
  BY <1>8, <1>9, <1>10

\* Attaching a CV, and judging or submitting, on a job board.
LEMMA AttachKeeps ==
  ASSUME FormsInv, Attach
  PROVE  FormsInv'
<1>1. /\ page # NoPage /\ page \in PageRecord /\ Place(page) /\ Content(page)
      /\ page.pc = "attach"
  BY AtWork DEF Attach, At
<1>2. ASSUME NEW next \in {"verdict", "submit"}, NEW c \in {page.cv, cv},
             Goes([page EXCEPT !.pc = next, !.cv = c]),
             next = "verdict" => page.kind = "prepare" /\ c \in {0, cv},
             next = "submit" => page.kind = "send" /\ c = cv
      PROVE  FormsInv'
  <2> DEFINE p == [page EXCEPT !.pc = next, !.cv = c]
  <2>1. /\ p \in PageRecord /\ p.row = page.row /\ p.kind = page.kind /\ p.broken = page.broken
        /\ p.pc = next /\ p.step = page.step /\ p.reply = page.reply /\ p.filled = page.filled
        /\ p.cv = c /\ p.swapped = page.swapped
    BY <1>1 DEF PageRecord, FormsInv, Shape
  <2>2. Place(p)
    BY <1>1, <1>2, <2>1 DEF Place
  <2>3. Content(p)
    BY <1>1, <1>2, <2>1 DEF Content
  <2> QED
    BY <1>1, <1>2, <2>1, <2>2, <2>3, GoesKeeps
<1>3. [page EXCEPT !.pc = "verdict"] = [page EXCEPT !.pc = "verdict", !.cv = page.cv]
  BY <1>1 DEF PageRecord
<1>4. page.cv = 0
  BY <1>1 DEF Content
<1>5. CASE page.kind = "prepare"
  <2>1. \/ Goes([page EXCEPT !.pc = "verdict", !.cv = cv])
        \/ Goes([page EXCEPT !.pc = "verdict", !.cv = page.cv])
    BY <1>3, <1>5 DEF Attach
  <2> QED
    BY <1>2, <1>4, <1>5, <2>1
<1>6. CASE page.kind = "send"
  <2>1. Goes([page EXCEPT !.pc = "submit", !.cv = cv]) \/ Fails
    BY <1>6 DEF Attach
  <2> QED
    BY <1>1, <1>2, <1>6, <2>1, FailsKeeps
<1>7. CASE page.kind = "takeover"
  BY <1>1, <1>7, LeavesOpenKeeps DEF Attach
<1> QED
  BY <1>5, <1>6, <1>7 DEF Attach

\* A round of filling on a job board.  A prepare fills nothing of a form with a
\* secret, and a send to a hosted form fills in what was reviewed.
LEMMA FillKeeps ==
  ASSUME FormsInv, FillForm
  PROVE  FormsInv'
<1>1. /\ page # NoPage /\ page \in PageRecord /\ Place(page) /\ Content(page)
      /\ page.pc = "fill" /\ page.row \in Row
  BY AtWork DEF FillForm, At
<1>2. CASE Wall
  BY <1>1, <1>2, NeedsInputKeeps DEF FillForm
<1>3. CASE ~Wall
  <2>1. PICK got \in Got : Goes([Fills(got) EXCEPT !.pc = "attach"])
    BY <1>3 DEF FillForm
  <2> DEFINE q == Fills(got)
             p == [q EXCEPT !.pc = "attach"]
  <2>2. /\ q \in PageRecord
        /\ q.kind = page.kind /\ q.row = page.row /\ q.step = page.step /\ q.cv = page.cv
        /\ q.broken = page.broken /\ q.reply = page.reply /\ q.swapped = page.swapped
        /\ page.broken => got = {}
        /\ \A f \in Field : q.filled[f] = IF f \in got THEN Knows(f) ELSE page.filled[f]
        /\ got \subseteq Fillable
    BY <1>1, FillsAdds
  <2> HIDE DEF q
  <2>3. /\ p \in PageRecord
        /\ p.kind = page.kind /\ p.row = page.row /\ p.step = page.step /\ p.cv = page.cv
        /\ p.broken = page.broken /\ p.reply = page.reply /\ p.swapped = page.swapped
        /\ p.pc = "attach" /\ p.filled = q.filled
    BY <2>2 DEF PageRecord
  <2>4. Place(p)
    BY <1>1, <2>3 DEF Place
  <2>5. page.step = 1 /\ page.cv = 0 /\ page.filled = Blank /\ Fields = StepsOf[page.row][1]
    BY <1>1, FieldsAreFields DEF Place, Content, Fields, Site
  <2>6. ASSUME p.kind = "prepare", "secret" \in StepsOf[p.row][1] PROVE p.filled = Blank
    <3>1. page.broken
      BY <1>3, <2>3, <2>5, <2>6 DEF Wall
    <3>2. \A f \in Field : p.filled[f] = 0
      BY <2>2, <2>3, <2>5, <3>1 DEF Blank
    <3>3. p.filled \in [Field -> Version]
      BY <2>3 DEF PageRecord, Filling
    <3> QED
      BY <3>2, <3>3 DEF Blank
  <2>7. ASSUME p.kind = "send", SiteOf[p.row] = "hosted", NEW f \in ProfileField,
               handle[p.row].filled[f] # 0
        PROVE  p.filled[f] \in {0, handle[p.row].filled[f]}
    <3>1. f \in Field /\ page.filled[f] = 0
      BY <2>5 DEF ProfileField, Field, Blank
    <3>2. Knows(f) = handle[page.row].filled[f]
      BY <2>3, <2>7 DEF Knows, ProfileValue, ProfileField, Sending, Site
    <3> QED
      BY <2>2, <2>3, <3>1, <3>2
  <2>10. Content(p)
    BY <1>1, <2>2, <2>3, <2>5, <2>6, <2>7 DEF Content, Place
  <2> QED
    BY <1>1, <2>1, <2>3, <2>4, <2>10, GoesKeeps DEF q
<1> QED
  BY <1>2, <1>3

\* A form is offered only if it is sound, as far as its page can tell.
LEMMA JudgeKeeps ==
  ASSUME FormsInv, Judge
  PROVE  FormsInv'
<1>1. /\ page # NoPage /\ page \in PageRecord /\ Place(page) /\ Content(page)
      /\ page.pc = "verdict" /\ page.row \in Row
  BY AtWork DEF Judge, At
<1> DEFINE asked == IF page.broken THEN {} ELSE Empty(page, Required)
<1>2. asked \subseteq Field
  BY <1>1, EmptyAreFields
<1>3. ASSUME NEW questions \in {{}, asked}, Park("needs_input", questions, page)
      PROVE  FormsInv'
  BY <1>1, <1>2, <1>3, ParkKeeps
<1>4. CASE /\ page.row \in Captcha => page.broken
           /\ page.filled # Blank /\ page.cv # 0 /\ asked = {}
  <2>1. Park("ready", {}, page)
    BY <1>4 DEF Judge
  <2>2. ASSUME ~page.broken PROVE Sound(page.row, page.filled, page.cv)
    <3>1. page.kind = "prepare" /\ SiteOf[page.row] \in Ats /\ page.step = 1
      BY <1>1, FieldsAreFields DEF Place, Site
    <3>2. \A f \in StepsOf[page.row][1] \cap Required : page.filled[f] # 0
      BY <1>1, <1>4, <2>2, <3>1 DEF Empty, Fields
    <3>3. Len(StepsOf[page.row]) = 1
      BY <1>1, <3>1, FormsAssumption
    <3>4. "secret" \notin StepsOf[page.row][1]
      BY <1>1, <1>4, <3>1 DEF Content
    <3> QED
      BY <1>4, <2>2, <3>2, <3>3, <3>4 DEF Sound
  <2>3. page.swapped \/ cv = page.cv
    BY <1>1, <1>4 DEF Content
  <2> QED
    BY <1>1, <2>1, <2>2, <2>3, ParkKeeps
<1> QED
  BY <1>3, <1>4 DEF Judge

\* A click on a job board, and what is read of the answer.
LEMMA SubmitKeeps ==
  ASSUME FormsInv, Submit
  PROVE  FormsInv'
<1>1. /\ page # NoPage /\ page \in PageRecord /\ Place(page) /\ Content(page)
      /\ page.pc = "submit"
  BY AtWork DEF Submit, At
<1>2. page.kind = "send"
  BY <1>1 DEF Place
<1> QED
  BY <1>1, <1>2, FailsKeeps, ClicksKeeps DEF Submit

LEMMA OutcomeKeeps ==
  ASSUME FormsInv, PollSees \/ PollCancelled \/ PollEnds \/ Look
  PROVE  FormsInv'
<1>1. /\ page # NoPage /\ page \in PageRecord /\ Place(page) /\ Content(page)
      /\ page.pc \in {"poll", "look"} /\ page.row \in Row
  BY AtWork DEF PollSees, PollCancelled, PollEnds, Look, At
<1>2. ASSUME Fails \/ \E s \in {"sent", "needs_input", "sent_unverified"} : Returns(s)
      PROVE  FormsInv'
  BY <1>1, <1>2, FailsKeeps, ReturnsKeeps DEF RowState
<1>3. ASSUME At("poll"), Positive(page.reply) => page.broken, Site # "linkedin",
             Goes([page EXCEPT !.pc = "look"])
      PROVE  FormsInv'
  <2> DEFINE p == [page EXCEPT !.pc = "look"]
  <2>1. /\ p \in PageRecord /\ p.row = page.row /\ p.kind = page.kind /\ p.broken = page.broken
        /\ p.pc = "look" /\ p.step = page.step /\ p.reply = page.reply /\ p.filled = page.filled
        /\ p.cv = page.cv /\ p.swapped = page.swapped
    BY <1>1 DEF PageRecord
  <2>2. SiteOf[page.row] \in Ats
    BY <1>1, <1>3, FormsAssumption DEF Site
  <2>3. Place(p) /\ Content(p)
    BY <1>1, <1>3, <2>1, <2>2 DEF Place, Content, At, Positive
  <2> QED
    BY <1>1, <1>3, <2>1, <2>3, GoesKeeps
<1>4. CASE PollSees \/ PollCancelled
  BY <1>2, <1>4 DEF PollSees, PollCancelled
<1>5. CASE PollEnds
  BY <1>2, <1>3, <1>5 DEF PollEnds
<1>6. CASE Look
  BY <1>2, <1>6 DEF Look
<1> QED
  BY <1>4, <1>5, <1>6

----------------------------------------------------------------------------
(* LinkedIn's walk *)

LEMMA TurnKeeps ==
  ASSUME FormsInv, page # NoPage, NEW p \in PageRecord, Turn(p), p.pc = "walk",
         p.row = page.row, p.kind = page.kind, p.broken = page.broken, Place(p), Content(p)
  PROVE  FormsInv'
<1>1. page.turn \in 0 .. (MaxTurns - 1) /\ MaxTurns \in Nat
  BY FormsAssumption DEF FormsInv, Shape, PageRecord
<1>2. CASE WalkStuck(p)
  BY <1>2, NeedsInputKeeps DEF WalkStuck
<1>3. CASE page.turn + 1 # MaxTurns /\ Goes([p EXCEPT !.turn = page.turn + 1])
  <2>3. page.turn + 1 \in 0 .. (MaxTurns - 1)
    BY <1>1, <1>3
  <2> DEFINE q == [p EXCEPT !.turn = page.turn + 1]
  <2>1. /\ q \in PageRecord /\ q.row = p.row /\ q.kind = p.kind /\ q.broken = p.broken
        /\ q.pc = p.pc /\ q.step = p.step /\ q.reply = p.reply /\ q.filled = p.filled
        /\ q.cv = p.cv /\ q.swapped = p.swapped
    BY <2>3 DEF PageRecord
  <2>2. Place(q) /\ Content(q)
    BY <2>1 DEF Place, Content
  <2> QED
    BY <1>3, <2>1, <2>2, GoesKeeps
<1> QED
  BY <1>2, <1>3 DEF Turn

\* One turn: every step that is passed is complete, so the last one offers a form
\* that is.
LEMMA WalkKeeps ==
  ASSUME FormsInv, WalkTurn
  PROVE  FormsInv'
<1>1. /\ page # NoPage /\ page \in PageRecord /\ Place(page) /\ Content(page)
      /\ page.pc = "walk" /\ page.row \in Row
  BY AtWork DEF WalkTurn, At
<1>2. SiteOf[page.row] = "linkedin" /\ "linkedin" \notin Ats /\ page.kind # "takeover"
  BY <1>1 DEF Place, Ats
<1>3. CASE cancelled \/ page.broken
  BY <1>1, <1>3, FailsKeeps, NeedsInputKeeps DEF WalkTurn, WalkStuck
<1>4. CASE ~cancelled /\ ~page.broken
  <2> DEFINE P(got, attached) == [Fills(got) EXCEPT !.cv = attached]
  <2>1. PICK got \in Got, attached \in {cv, page.cv} :
          LET p == P(got, attached)
              missing == Empty(p, Required \ {"secret"})
          IN  IF missing # {} THEN NeedsInput(missing, p)
              ELSE IF LastStep THEN AtSubmit(p)
              ELSE Advance(p)
    BY <1>4 DEF WalkTurn
  <2> DEFINE q == Fills(got)
             p == [q EXCEPT !.cv = attached]
             missing == Empty(p, Required \ {"secret"})
  <2>2. /\ q \in PageRecord
        /\ q.kind = page.kind /\ q.row = page.row /\ q.step = page.step /\ q.pc = page.pc
        /\ q.broken = page.broken /\ q.reply = page.reply
        /\ \A f \in Field : q.filled[f] = IF f \in got THEN Knows(f) ELSE page.filled[f]
        /\ got \subseteq Fillable
    BY <1>1, FillsAdds
  <2>3. IF missing # {} THEN NeedsInput(missing, p)
        ELSE IF LastStep THEN AtSubmit(p)
        ELSE Advance(p)
    BY <2>1
  <2> HIDE DEF q
  <2>4. attached \in Version
    BY <1>1 DEF FormsInv, Shape, PageRecord
  <2>5. /\ p \in PageRecord
        /\ p.kind = page.kind /\ p.row = page.row /\ p.step = page.step /\ p.pc = "walk"
        /\ p.broken = page.broken /\ p.reply = page.reply /\ p.filled = q.filled
    BY <1>1, <2>2, <2>4 DEF PageRecord
  <2> HIDE DEF p
  <2>6. Place(p)
    BY <1>1, <2>5 DEF Place
  <2>7. \A f \in Field : page.filled[f] # 0 => p.filled[f] # 0
    BY <2>2, <2>5 DEF Fillable
  <2>8. Content(p)
    BY <1>1, <1>2, <2>5, <2>7 DEF Content, Required, Ats
  <2>9. missing \subseteq Field
    BY <1>1, EmptyAreFields
  <2>10. CASE missing # {}
    BY <1>1, <2>3, <2>5, <2>9, <2>10, NeedsInputKeeps
  <2>11. CASE missing = {} /\ LastStep
    <3>1. AtSubmit(p)
      BY <2>3, <2>11
    <3>2. CASE Sending
      BY <1>1, <2>5, <2>6, <2>8, <3>1, <3>2, ClicksKeeps DEF AtSubmit, Sending
    <3>3. CASE ~Sending
      <4>1. Sound(page.row, p.filled, p.cv)
        <5>1. \A n \in 1 .. Len(StepsOf[page.row]) : n < page.step \/ n = page.step
          BY <1>1, <2>11, FormsAssumption DEF LastStep, Place
        <5>2. \A f \in (Fields \cap Required) \ {"secret"} : p.filled[f] # 0
          BY <2>11 DEF missing, Empty
        <5>3. \A n \in 1 .. Len(StepsOf[page.row]) :
                \A f \in (StepsOf[page.row][n] \cap Required) \ {"secret"} : p.filled[f] # 0
          BY <2>5, <2>8, <5>1, <5>2 DEF Fields, Content
        <5> QED
          BY <1>2, <5>3 DEF Sound
      <4> QED
        BY <1>1, <1>2, <2>5, <3>1, <3>3, <4>1, ParkKeeps DEF AtSubmit, Site
    <3> QED
      BY <3>2, <3>3
  <2>12. CASE missing = {} /\ ~LastStep
    <3>1. Advance(p)
      BY <2>3, <2>12
    <3>2. ASSUME Empty(p, Required) = {}, Turn([p EXCEPT !.step = @ + 1]) PROVE FormsInv'
      <4> DEFINE r == [p EXCEPT !.step = @ + 1]
      <4>1. page.step \in Nat /\ page.step + 1 \in 1 .. Len(StepsOf[page.row])
        BY <1>1, <2>12, FieldsAreFields, FormsAssumption DEF LastStep, Place
      <4>2. /\ r \in PageRecord
            /\ r.kind = p.kind /\ r.row = p.row /\ r.step = page.step + 1 /\ r.pc = "walk"
            /\ r.broken = p.broken /\ r.reply = p.reply /\ r.filled = p.filled
            /\ r.swapped = p.swapped /\ r.cv = p.cv
        BY <2>5, <4>1 DEF PageRecord
      <4>3. Place(r)
        BY <2>5, <2>6, <4>1, <4>2 DEF Place
      <4>4. \A f \in Fields \cap Required : p.filled[f] # 0
        BY <3>2 DEF Empty
      <4>5. \A n \in 1 .. Len(StepsOf[r.row]) : n < r.step =>
              \A f \in StepsOf[r.row][n] \cap Required : r.filled[f] # 0
        <5> SUFFICES ASSUME NEW n \in 1 .. Len(StepsOf[page.row]), n < page.step + 1
                     PROVE  \A f \in StepsOf[page.row][n] \cap Required : p.filled[f] # 0
          BY <2>5, <4>2
        <5>1. n < page.step \/ n = page.step
          BY <1>1, <4>1, FormsAssumption
        <5> QED
          BY <2>5, <2>8, <4>4, <5>1 DEF Content, Fields
      <4>6. Content(r)
        BY <1>2, <2>5, <2>8, <4>2, <4>5 DEF Content, Ats
      <4> QED
        BY <1>1, <2>5, <3>2, <4>2, <4>3, <4>6, TurnKeeps
    <3>3. ASSUME Turn(p) PROVE FormsInv'
      BY <1>1, <2>5, <2>6, <2>8, <3>3, TurnKeeps
    <3>4. ASSUME NeedsInput(missing, p) PROVE FormsInv'
      BY <1>1, <2>5, <2>9, <3>4, NeedsInputKeeps
    <3> QED
      BY <3>1, <3>2, <3>3, <3>4 DEF Advance, missing
  <2> QED
    BY <2>10, <2>11, <2>12
<1> QED
  BY <1>3, <1>4

----------------------------------------------------------------------------
(* starting a job, and everybody else *)

\* A page is opened for a row, and its window shows what the job wants; the pages
\* of a window that is closed are gone.
LEMMA OpenKeeps ==
  ASSUME FormsInv, NEW r \in Row, NEW kind \in {"prepare", "send", "takeover"},
         NEW visible \in BOOLEAN, NEW who \in Version, Open(kind, r, visible, who),
         row' \in [Row -> RowState],
         \A l \in Row : row'[l] \in {"ready", "sending"} => row[l] \in {"ready", "sending"},
         kind = "send" => row'[r] = "sending" /\ handle[r].cv = cv,
         kind = "takeover" => visible
  PROVE  FormsInv'
<1> DEFINE w   == WindowOf(r)
           new == IF w = "ats" THEN AtsContext(visible) ELSE LinkedInContext(visible)
<1>1. w \in Window /\ new \in {"none", "headless", "visible"} /\ ctx \in [Window -> {"none", "headless", "visible"}]
  BY DEF WindowOf, Window, AtsContext, LinkedInContext, Shown, FormsInv, Shape
<1>2. /\ page = NoPage /\ ctx' = [ctx EXCEPT ![w] = new]
      /\ left' = IF ctx[w] = new THEN left ELSE {l \in left : WindowOf(l) # w}
      /\ page' = [NoPage EXCEPT !.kind = kind, !.row = r, !.pc = "goto", !.who = who]
      /\ UNCHANGED <<profile, cv, bank, handle, received, reviewed>>
  BY DEF Open, bankVars
<1>3. SiteOf[r] = "linkedin" => w = "linkedin" /\ new = IF visible THEN "visible" ELSE "headless"
  BY DEF WindowOf, LinkedInContext, Shown
<1>4. SiteOf[r] # "linkedin" => w = "ats"
  BY DEF WindowOf
<1>5. \A l \in Row : SiteOf[l] = "linkedin" => WindowOf(l) = "linkedin"
  BY DEF WindowOf
<1> HIDE DEF w, new
<1>6. /\ page'.kind = kind /\ page'.row = r /\ page'.pc = "goto" /\ page'.turn = 0 /\ page'.step = 1
      /\ page'.filled = Blank /\ page'.cv = 0 /\ ~page'.broken /\ ~page'.swapped
      /\ page'.reply = NoReply /\ page' \in PageRecord
  <2>1. NoPage \in PageRecord
    BY NoPageIs
  <2>2. /\ page' \in PageRecord
        /\ page'.turn = NoPage.turn /\ page'.step = NoPage.step /\ page'.filled = NoPage.filled
        /\ page'.cv = NoPage.cv /\ page'.broken = NoPage.broken
        /\ page'.swapped = NoPage.swapped /\ page'.reply = NoPage.reply
        /\ page'.kind = kind /\ page'.row = r /\ page'.pc = "goto"
    BY <1>2, <2>1 DEF PageRecord
  <2> QED
    BY <2>2 DEF NoPage
<1>7. Shape'
  BY <1>1, <1>2, <1>6 DEF FormsInv, Shape
<1>8. Place(page)' /\ Content(page)'
  <2>1. 1 \in 1 .. Len(StepsOf[r])
    BY FormsAssumption
  <2> QED
    BY <1>2, <1>6, <2>1 DEF Place, Content, NoReply
<1>9. PageFits'
  BY <1>1, <1>2, <1>3, <1>6, <1>8 DEF PageFits, Site, Window
<1>10. OfferedIsSound'
  BY <1>2 DEF FormsInv, OfferedIsSound, Sound
<1>11. TakeoverIsVisible'
  BY <1>1, <1>2, <1>3, <1>4, <1>5 DEF FormsInv, Shape, TakeoverIsVisible, Window
<1> QED
  BY <1>7, <1>9, <1>10, <1>11 DEF FormsInv

\* What leaves the page and what it is judged by alone, and offers nothing.
LEMMA QuietKeeps ==
  ASSUME FormsInv, Shape', UNCHANGED <<cv, handle, ctx, page, reviewed>>, left' \subseteq left,
         \A l \in Row : row'[l] = row[l] \/ (row[l] # "sending" /\ row'[l] \notin {"ready", "sending"})
  PROVE  FormsInv'
<1> USE DEF FormsInv
<1>1. PageFits'
  BY DEF PageFits, Place, Content, Site
<1>2. OfferedIsSound'
  BY DEF OfferedIsSound, Sound
<1>3. TakeoverIsVisible'
  BY DEF TakeoverIsVisible
<1> QED
  BY <1>1, <1>2, <1>3

LEMMA StartKeeps ==
  ASSUME FormsInv, NEW r \in Row, StartPrepare(r) \/ StartSend(r) \/ StartTakeover(r)
  PROVE  FormsInv'
<1>1. CASE StartPrepare(r)
  <2>1. row' = [row EXCEPT ![r] = "preparing"] /\ row \in [Row -> RowState]
    BY <1>1 DEF StartPrepare, FormsInv, Shape
  <2>2. \E visible \in BOOLEAN, who \in Version : Open("prepare", r, visible, who)
    <3>1. profile \in Version
      BY DEF FormsInv, Shape
    <3>2. 1 .. profile \subseteq Version
      BY <3>1, FormsAssumption DEF Version
    <3> QED
      BY <1>1, <3>2 DEF StartPrepare
  <2> QED
    BY <2>1, <2>2, OpenKeeps DEF RowState
<1>2. CASE StartSend(r)
  <2>1. row[r] = "ready" /\ row \in [Row -> RowState]
    BY <1>2 DEF StartSend, FormsInv, Shape
  <2>2. CASE cv # handle[r].cv
    <3>1. /\ page = NoPage /\ row' = [row EXCEPT ![r] = "needs_input"]
          /\ UNCHANGED <<bankVars, handle, ctx, page, cancelled, left, received, reviewed>>
      BY <1>2, <2>2 DEF StartSend
    <3>2. Shape'
      BY <2>1, <3>1 DEF FormsInv, Shape, RowState, bankVars
    <3>3. /\ left' \subseteq left
          /\ \A l \in Row : row'[l] = row[l] \/ (row[l] # "sending" /\ row'[l] \notin {"ready", "sending"})
      BY <2>1, <3>1
    <3>4. UNCHANGED <<cv, handle, ctx, page, reviewed>>
      BY <3>1 DEF bankVars
    <3> QED
      BY <3>2, <3>3, <3>4, QuietKeeps
  <2>3. CASE cv = handle[r].cv
    <3>1. row' = [row EXCEPT ![r] = "sending"] /\ \E visible \in BOOLEAN : Open("send", r, visible, 0)
      BY <1>2, <2>3 DEF StartSend
    <3> QED
      BY <2>1, <2>3, <3>1, VersionIs, OpenKeeps DEF RowState
  <2> QED
    BY <2>2, <2>3
<1>3. CASE StartTakeover(r)
  BY <1>3, OpenKeeps DEF StartTakeover, FormsInv, Shape
<1> QED
  BY <1>1, <1>2, <1>3

\* What a human changes.  A CV replaced where the open page does not compare it is
\* remembered.
LEMMA HumanKeeps ==
  ASSUME FormsInv, Counted,
         \/ EditProfile \/ UploadCv \/ Cancel
         \/ \E r \in Row, q \in Question : SaveAnswers(r, q)
         \/ \E r \in Row : HumanSubmits(r)
  PROVE  FormsInv'
<1> USE DEF FormsInv
<1>0. ASSUME Human, NEW v \in Version, v <= edits + 1 PROVE v + 1 \in Version \ {0}
  BY <1>0, FormsAssumption DEF Human, Version, Counted
<1>1. CASE EditProfile
  <2>1. profile' \in Version \ {0}
    <3>1. profile \in Version /\ profile <= edits + 1
      BY DEF Shape, Counted
    <3> QED
      BY <1>0, <1>1, <3>1 DEF EditProfile
  <2>2. UNCHANGED <<cv, bank, row, handle, ctx, page, left, received, reviewed>>
    BY <1>1 DEF EditProfile
  <2>3. Shape'
    BY <2>1, <2>2 DEF Shape
  <2>4. left' \subseteq left /\ \A l \in Row : row'[l] = row[l]
    BY <2>2
  <2> QED
    BY <2>2, <2>3, <2>4, QuietKeeps
<1>2. CASE Cancel
  <2>1. UNCHANGED <<profile, cv, bank, row, handle, ctx, page, left, received, reviewed>>
    BY <1>2 DEF Cancel, bankVars
  <2>2. Shape'
    BY <2>1 DEF Shape
  <2> QED
    BY <2>1, <2>2, QuietKeeps
<1>3. ASSUME page' = Swapped
      PROVE  /\ page' \in PageRecord
             /\ page = NoPage => page' = NoPage
             /\ page # NoPage =>
                  /\ page'.kind = page.kind /\ page'.row = page.row /\ page'.pc = page.pc
                  /\ page'.step = page.step /\ page'.filled = page.filled /\ page'.cv = page.cv
                  /\ page'.broken = page.broken /\ page'.reply = page.reply
                  /\ page.swapped => page'.swapped
                  /\ page.kind = "prepare" /\ page.cv # 0 => page'.swapped
                  /\ page.kind = "send" /\ page.cv = 0 => page'.swapped
  <2>1. page \in PageRecord
    BY DEF Shape
  <2>2. CASE page' = page
    BY <1>3, <2>1, <2>2 DEF Swapped, Sending, PageRecord
  <2>3. CASE page' # page
    <3>1. page' = [page EXCEPT !.swapped = TRUE] /\ page.kind \in {"prepare", "send"}
      BY <1>3, <2>3 DEF Swapped, Sending
    <3>2. page # NoPage
      BY <3>1 DEF NoPage
    <3> QED
      BY <2>1, <3>1, <3>2 DEF PageRecord
  <2> QED
    BY <2>2, <2>3
<1>4. CASE UploadCv
  <2>1. cv' \in Version \ {0}
    <3>1. cv \in Version /\ cv <= edits + 1
      BY DEF Shape, Counted
    <3> QED
      BY <1>0, <1>4, <3>1 DEF UploadCv
  <2>2. page' = Swapped /\ UNCHANGED <<profile, bank, row, handle, ctx, left, received, reviewed>>
    BY <1>4 DEF UploadCv
  <2>3. Shape'
    BY <1>3, <2>1, <2>2 DEF Shape
  <2>4. PageFits'
    <3> SUFFICES ASSUME page # NoPage PROVE PageFits'
      BY <1>3, <2>2 DEF PageFits
    <3>1. Place(page)'
      BY <1>3, <2>2 DEF PageFits, Place
    <3>2. Content(page)'
      BY <1>3, <2>2 DEF PageFits, Place, Content
    <3> QED
      BY <1>3, <2>2, <3>1, <3>2 DEF PageFits, Site
  <2>5. OfferedIsSound' /\ TakeoverIsVisible'
    BY <2>2 DEF OfferedIsSound, Sound, TakeoverIsVisible
  <2> QED
    BY <2>3, <2>4, <2>5
<1>5. ASSUME NEW r \in Row, NEW q \in Question, SaveAnswers(r, q) PROVE FormsInv'
  <2>1. bank' \in [Question -> Version]
    <3>1. bank \in [Question -> Version] /\ bank[q] <= edits + 1
      BY DEF Shape, Counted
    <3>2. bank[q] + 1 \in Version /\ bank' = [bank EXCEPT ![q] = bank[q] + 1]
      BY <1>0, <1>5, <3>1 DEF SaveAnswers
    <3> HIDE DEF FormsInv
    <3> QED
      BY <3>1, <3>2
  <2>2. UNCHANGED <<profile, cv, handle, ctx, page, left, received, reviewed>>
    BY <1>5 DEF SaveAnswers
  <2>3. /\ row' \in [Row -> RowState]
        /\ \A l \in Row : row'[l] = row[l] \/ (row[l] \in {"needs_input", "failed"} /\ row'[l] = "queued")
    <3>1. row \in [Row -> RowState] /\ "queued" \in RowState
      BY DEF Shape, RowState
    <3>2. \/ row' = row
          \/ row[r] \in {"needs_input", "failed"} /\ row' = [row EXCEPT ![r] = "queued"]
      BY <1>5 DEF SaveAnswers
    <3> HIDE DEF FormsInv
    <3> QED
      BY <3>1, <3>2
  <2>4. Shape'
    BY <2>1, <2>2, <2>3 DEF Shape
  <2> QED
    BY <2>2, <2>3, <2>4, QuietKeeps
<1>6. ASSUME NEW r \in Row, HumanSubmits(r) PROVE FormsInv'
  <2>1. /\ row' = [row EXCEPT ![r] = IF @ \in {"ready", "needs_input", "failed"} THEN "sent" ELSE @]
        /\ left' \subseteq left
        /\ UNCHANGED <<profile, cv, bank, handle, ctx, page, reviewed>>
    BY <1>6 DEF HumanSubmits, bankVars
  <2>2. /\ row' \in [Row -> RowState]
        /\ \A l \in Row : row'[l] = row[l] \/ (row[l] # "sending" /\ row'[l] = "sent")
    <3>1. row \in [Row -> RowState] /\ "sent" \in RowState
      BY DEF Shape, RowState
    <3>2. \/ row' = row
          \/ row[r] # "sending" /\ row' = [row EXCEPT ![r] = "sent"]
      BY <2>1, <3>1
    <3> HIDE DEF FormsInv
    <3> QED
      BY <3>1, <3>2
  <2>3. received' \in [Row -> Seq([filled : Filling, cv : Version])]
    <3>1. [filled |-> Blank, cv |-> cv] \in [filled : Filling, cv : Version]
      BY NoPageIs DEF Shape
    <3>2. received[r] \in Seq([filled : Filling, cv : Version])
      BY DEF Shape
    <3>3. Append(received[r], [filled |-> Blank, cv |-> cv]) \in Seq([filled : Filling, cv : Version])
      BY <3>1, <3>2
    <3>4. received' = [received EXCEPT ![r] = Append(received[r], [filled |-> Blank, cv |-> cv])]
      BY <1>6 DEF HumanSubmits
    <3> QED
      BY <3>3, <3>4 DEF Shape
  <2>4. Shape'
    BY <2>1, <2>2, <2>3 DEF Shape
  <2> QED
    BY <2>1, <2>2, <2>4, QuietKeeps
<1> QED
  BY <1>1, <1>2, <1>4, <1>5, <1>6

\* A window that dies takes its pages with it; the one that is worked on is broken.
LEMMA DeathKeeps ==
  ASSUME FormsInv, NEW w \in Window, ContextDies(w)
  PROVE  FormsInv'
<1> USE DEF FormsInv
<1>1. /\ ctx' = [ctx EXCEPT ![w] = "none"]
      /\ left' = {r \in left : WindowOf(r) # w}
      /\ UNCHANGED <<profile, cv, bank, row, handle, received, reviewed>>
  BY DEF ContextDies, bankVars
<1>4. ctx \in [Window -> {"none", "headless", "visible"}] /\ left \subseteq Row
  BY DEF Shape
<1>5. OfferedIsSound' /\ TakeoverIsVisible'
  <2>1. OfferedIsSound'
    BY <1>1 DEF OfferedIsSound, Sound
  <2>2. TakeoverIsVisible'
    BY <1>1, <1>4 DEF TakeoverIsVisible, WindowOf, Window
  <2> QED
    BY <2>1, <2>2
<1>6. ctx' \in [Window -> {"none", "headless", "visible"}] /\ left' \subseteq Row
  BY <1>1, <1>4
<1>2. CASE page # NoPage /\ WindowOf(page.row) = w
  <2>1. page' = [page EXCEPT !.broken = TRUE] /\ page \in PageRecord
    BY <1>2 DEF ContextDies, Shape
  <2>2. /\ page' \in PageRecord
        /\ page'.kind = page.kind /\ page'.row = page.row /\ page'.pc = page.pc
        /\ page'.step = page.step /\ page'.filled = page.filled /\ page'.cv = page.cv
        /\ page'.broken /\ page'.reply = page.reply /\ page'.swapped = page.swapped
    BY <2>1 DEF PageRecord
  <2>3. PageFits'
    BY <1>1, <1>2, <2>2 DEF PageFits, Place, Content
  <2> QED
    BY <1>1, <1>5, <1>6, <2>2, <2>3 DEF Shape
<1>3. CASE ~(page # NoPage /\ WindowOf(page.row) = w)
  <2>1. page' = page
    BY <1>3 DEF ContextDies
  <2>2. PageFits'
    BY <1>1, <1>3, <2>1 DEF PageFits, Place, Content, Site, WindowOf, Shape, Window
  <2> QED
    BY <1>1, <1>5, <1>6, <2>1, <2>2 DEF Shape
<1> QED
  BY <1>2, <1>3

----------------------------------------------------------------------------
(* the invariant *)

\* A version is only made by a change, and a change makes one.
LEMMA CountedStep ==
  ASSUME FormsInv, Counted, [FormsNext]_formsVars
  PROVE  Counted'
<1>1. /\ profile \in Nat /\ cv \in Nat /\ bank \in [Question -> Nat]
      /\ edits \in Nat /\ MaxEdits \in Nat
  <2>1. /\ profile \in Version /\ cv \in Version /\ bank \in [Question -> Version]
        /\ edits \in 0 .. MaxEdits
    BY DEF FormsInv, Shape, Counted
  <2>2. Version \subseteq Nat /\ \A q \in Question : bank[q] \in Version
    BY <2>1, VersionIs
  <2>3. bank \in [Question -> Nat]
    BY <2>1, <2>2
  <2> QED
    BY <2>1, <2>2, <2>3, FormsAssumption
<1>2. ASSUME UNCHANGED <<profile, cv, bank, edits>> PROVE Counted'
  BY <1>2 DEF Counted
<1>3. CASE UNCHANGED formsVars
  BY <1>2, <1>3 DEF formsVars, bankVars, boundVars
<1>4. CASE JobStep
  <2>1. ASSUME NEW p, Goes(p) \/ Clicks(p) PROVE Counted'
    BY <1>2, <2>1 DEF Goes, Clicks, bankVars, boundVars
  <2>2. ASSUME NEW s, Ends(s) PROVE Counted'
    BY <1>2, <2>2 DEF Ends, bankVars, boundVars
  <2>3. LeavesOpen => Counted'
    BY <1>2 DEF LeavesOpen, bankVars, boundVars
  <2>4. ASSUME NEW s, NEW questions, NEW p,
               Fails \/ Returns(s) \/ Park(s, questions, p) \/ NeedsInput(questions, p)
        PROVE  Counted'
    BY <2>2, <2>4 DEF Fails, Returns, Park, NeedsInput
  <2>5. CASE Navigates \/ NavigationFails \/ NoForm
    BY <2>1, <2>3, <2>4, <2>5 DEF Navigates, NavigationFails, NoForm
  <2>6. CASE FillForm \/ Attach \/ Judge \/ Submit
    BY <2>1, <2>3, <2>4, <2>6 DEF FillForm, Attach, Judge, Submit
  <2>7. CASE PollSees \/ PollCancelled \/ PollEnds \/ Look
    BY <2>1, <2>4, <2>7 DEF PollSees, PollCancelled, PollEnds, Look
  <2>8. ASSUME NEW p, Turn(p) PROVE Counted'
    BY <2>1, <2>4, <2>8 DEF Turn, WalkStuck
  <2>9. ASSUME NEW p, AtSubmit(p) \/ Advance(p) PROVE Counted'
    BY <2>1, <2>4, <2>8, <2>9 DEF AtSubmit, Advance
  <2>10. CASE WalkTurn
    <3>1. \/ Fails
          \/ WalkStuck(page)
          \/ \E questions, p : NeedsInput(questions, p) \/ AtSubmit(p) \/ Advance(p)
      BY <2>10 DEF WalkTurn
    <3> QED
      BY <2>4, <2>9, <3>1 DEF WalkStuck
  <2> QED
    BY <1>4, <2>5, <2>6, <2>7, <2>10 DEF JobStep
<1>5. ASSUME NEW r \in Row, StartPrepare(r) \/ StartSend(r) \/ StartTakeover(r) \/ HumanSubmits(r)
      PROVE  Counted'
  BY <1>2, <1>5 DEF StartPrepare, StartSend, StartTakeover, HumanSubmits, Open, bankVars, boundVars
<1>6. CASE Cancel \/ \E w \in Window : ContextDies(w)
  BY <1>2, <1>6 DEF Cancel, ContextDies, bankVars, boundVars
<1>7. ASSUME Human PROVE edits' = edits + 1 /\ edits' \in 0 .. MaxEdits
  BY <1>1, <1>7 DEF Human
<1>8. CASE EditProfile
  BY <1>1, <1>7, <1>8 DEF EditProfile, Counted
<1>9. CASE UploadCv
  BY <1>1, <1>7, <1>9 DEF UploadCv, Counted
<1>10. ASSUME NEW r \in Row, NEW q \in Question, SaveAnswers(r, q) PROVE Counted'
  <2>1. UNCHANGED <<profile, cv>> /\ bank' = [bank EXCEPT ![q] = bank[q] + 1]
    BY <1>10 DEF SaveAnswers
  <2>2. edits' = edits + 1 /\ edits' \in 0 .. MaxEdits
    BY <1>7, <1>10 DEF SaveAnswers
  <2>3. \A x \in Question : bank'[x] \in {bank[x], bank[x] + 1} /\ bank[x] \in Nat
    BY <1>1, <2>1
  <2> QED
    BY <1>1, <2>1, <2>2, <2>3 DEF Counted
<1> QED
  BY <1>3, <1>4, <1>5, <1>6, <1>8, <1>9, <1>10 DEF FormsNext

\* A cancel token is set, and a job that opens a page clears it.
LEMMA CancelledStep ==
  ASSUME cancelled \in BOOLEAN, [FormsNext]_formsVars
  PROVE  cancelled' \in BOOLEAN
<1>1. CASE UNCHANGED formsVars
  BY <1>1 DEF formsVars
<1>2. CASE JobStep
  <2>1. ASSUME NEW p, Goes(p) \/ Clicks(p) PROVE UNCHANGED cancelled
    BY <2>1 DEF Goes, Clicks
  <2>2. ASSUME NEW s, NEW questions, NEW p,
               Fails \/ Returns(s) \/ Park(s, questions, p) \/ NeedsInput(questions, p)
        PROVE  UNCHANGED cancelled
    BY <2>2 DEF Fails, Returns, Park, NeedsInput, Ends
  <2>3. LeavesOpen => UNCHANGED cancelled
    BY DEF LeavesOpen
  <2>4. CASE Navigates \/ NavigationFails \/ NoForm
    BY <2>1, <2>2, <2>3, <2>4 DEF Navigates, NavigationFails, NoForm
  <2>5. CASE FillForm \/ Attach \/ Judge \/ Submit
    BY <2>1, <2>2, <2>3, <2>5 DEF FillForm, Attach, Judge, Submit
  <2>6. CASE PollSees \/ PollCancelled \/ PollEnds \/ Look
    BY <2>1, <2>2, <2>6 DEF PollSees, PollCancelled, PollEnds, Look
  <2>7. ASSUME NEW p, Turn(p) PROVE UNCHANGED cancelled
    BY <2>1, <2>2, <2>7 DEF Turn, WalkStuck
  <2>8. ASSUME NEW p, AtSubmit(p) \/ Advance(p) PROVE UNCHANGED cancelled
    BY <2>1, <2>2, <2>7, <2>8 DEF AtSubmit, Advance
  <2>9. CASE WalkTurn
    <3>1. \/ Fails
          \/ WalkStuck(page)
          \/ \E questions, p : NeedsInput(questions, p) \/ AtSubmit(p) \/ Advance(p)
      BY <2>9 DEF WalkTurn
    <3> QED
      BY <2>2, <2>8, <3>1 DEF WalkStuck
  <2> QED
    BY <1>2, <2>4, <2>5, <2>6, <2>9 DEF JobStep
<1>3. ASSUME NEW r \in Row, StartPrepare(r) \/ StartSend(r) \/ StartTakeover(r) \/ HumanSubmits(r)
      PROVE  cancelled' \in BOOLEAN
  BY <1>3 DEF StartPrepare, StartSend, StartTakeover, HumanSubmits, Open
<1>4. CASE Cancel \/ EditProfile \/ UploadCv \/ \E w \in Window : ContextDies(w)
  BY <1>4 DEF Cancel, EditProfile, UploadCv, ContextDies
<1>5. ASSUME NEW r \in Row, NEW q \in Question, SaveAnswers(r, q) PROVE cancelled' \in BOOLEAN
  BY <1>5 DEF SaveAnswers
<1> QED
  BY <1>1, <1>2, <1>3, <1>4, <1>5 DEF FormsNext

LEMMA FormsInvInit == FormsInit => FormsInv /\ Counted
<1> SUFFICES ASSUME FormsInit PROVE FormsInv /\ Counted
  OBVIOUS
<1> USE DEF FormsInit
<1>1. Shape
  <2>1. page \in PageRecord
    BY NoPageIs
  <2>2. handle \in [Row -> [filled : Filling, cv : Version, questions : SUBSET Field]]
    BY NoPageIs, VersionIs
  <2> QED
    BY <2>1, <2>2, VersionIs DEF Shape, RowState, Window
<1>2. PageFits /\ TakeoverIsVisible
  BY DEF PageFits, TakeoverIsVisible
<1>3. OfferedIsSound
  BY DEF OfferedIsSound
<1>4. Counted
  BY FormsAssumption DEF Counted
<1> QED
  BY <1>1, <1>2, <1>3, <1>4 DEF FormsInv

LEMMA FormsInvStep ==
  FormsInv /\ Counted /\ [FormsNext]_formsVars => FormsInv' /\ Counted'
<1> SUFFICES ASSUME FormsInv, Counted, [FormsNext]_formsVars PROVE FormsInv'
  BY CountedStep
<1>1. CASE JobStep
  <2>1. CASE Navigates \/ NavigationFails \/ NoForm
    BY <2>1, OpeningKeeps
  <2>2. CASE FillForm \/ Attach \/ Judge
    BY <2>2, FillKeeps, AttachKeeps, JudgeKeeps
  <2>3. CASE Submit \/ WalkTurn
    BY <2>3, SubmitKeeps, WalkKeeps
  <2>4. CASE PollSees \/ PollCancelled \/ PollEnds \/ Look
    BY <2>4, OutcomeKeeps
  <2> QED
    BY <1>1, <2>1, <2>2, <2>3, <2>4 DEF JobStep
<1>2. ASSUME NEW r \in Row, StartPrepare(r) \/ StartSend(r) \/ StartTakeover(r) PROVE FormsInv'
  BY <1>2, StartKeeps
<1>3. CASE \/ EditProfile \/ UploadCv \/ Cancel
           \/ \E r \in Row, q \in Question : SaveAnswers(r, q)
           \/ \E r \in Row : HumanSubmits(r)
  BY <1>3, HumanKeeps
<1>4. ASSUME NEW w \in Window, ContextDies(w) PROVE FormsInv'
  BY <1>4, DeathKeeps
<1>5. CASE UNCHANGED formsVars
  <2>1. UNCHANGED <<profile, cv, bank, row, handle, ctx, page, left, received, reviewed>>
    BY <1>5 DEF formsVars, bankVars
  <2>2. Shape'
    BY <2>1 DEF FormsInv, Shape
  <2>3. left' \subseteq left /\ \A l \in Row : row'[l] = row[l]
    BY <2>1
  <2> QED
    BY <2>1, <2>2, <2>3, QuietKeeps
<1> QED
  BY <1>1, <1>2, <1>3, <1>4, <1>5 DEF FormsNext

\* Every variable stays in its type: what is on a form, kept of it or received is a
\* version of the profile, the CV or an answer, and a walk takes no more than its turns.
THEOREM FormsTypes == FormsSpec => []FormsTypeOK
<1>1. FormsInv /\ cancelled \in BOOLEAN => FormsTypeOK
  <2> SUFFICES ASSUME FormsInv, cancelled \in BOOLEAN PROVE FormsTypeOK
    OBVIOUS
  <2> USE DEF FormsInv
  <2>1. profile \in Version /\ cv \in Version /\ bank \in [Question -> Version]
    BY DEF Shape
  <2>2. \A r \in Row : /\ handle[r].filled \in Filling /\ handle[r].cv \in Version
                       /\ handle[r].questions \subseteq Field
                       /\ reviewed[r].cv \in Version /\ reviewed[r].alive \in BOOLEAN
                       /\ reviewed[r].swapped \in BOOLEAN
    BY DEF Shape
  <2>3. /\ row \in [Row -> RowState] /\ received \in [Row -> Seq(Form)] /\ left \subseteq Row
        /\ ctx \in [Window -> {"none", "headless", "visible"}]
    BY DEF Shape, Form
  <2>4. \/ page = NoPage
        \/ /\ page.kind \in {"prepare", "send", "takeover"} /\ page.row \in Row
           /\ page.pc \in {"goto", "fill", "attach", "verdict", "submit", "walk", "poll", "look"}
           /\ page.turn \in 0 .. (MaxTurns - 1) /\ page.step \in 1 .. Len(StepsOf[page.row])
           /\ page.filled \in Filling /\ {page.cv, page.who} \subseteq Version
           /\ page.reply \in Reply
    BY DEF Shape, PageFits, Place, PageRecord
  <2> QED
    BY <2>1, <2>2, <2>3, <2>4 DEF FormsTypeOK
<1>2. FormsInit => cancelled \in BOOLEAN
  BY DEF FormsInit
<1>3. cancelled \in BOOLEAN /\ [FormsNext]_formsVars => (cancelled \in BOOLEAN)'
  BY CancelledStep
<1> QED
  BY <1>1, <1>2, <1>3, FormsInvInit, FormsInvStep, PTL DEF FormsSpec

----------------------------------------------------------------------------
(* what an employer receives *)

\* On a page only a click of a send changes that.
LEMMA OnlyClicksReach ==
  ASSUME FormsInv, JobStep
  PROVE  \/ UNCHANGED received
         \/ /\ page # NoPage /\ Sending /\ page.row \in Row
            /\ \A r \in Row \ {page.row} : received'[r] = received[r]
            /\ At("submit") =>
                 received' = [received EXCEPT ![page.row] =
                                Append(@, [filled |-> page.filled, cv |-> page.cv])]
<1> USE DEF Goes, Fails, Park, Returns, NeedsInput, LeavesOpen
<1>1. CASE Navigates \/ NavigationFails \/ NoForm
  BY <1>1 DEF Navigates, NavigationFails, NoForm
<1>2. CASE FillForm \/ Attach \/ Judge
  BY <1>2 DEF FillForm, Attach, Judge
<1>3. CASE PollSees \/ PollCancelled \/ PollEnds \/ Look
  BY <1>3 DEF PollSees, PollCancelled, PollEnds, Look
<1>4. ASSUME NEW p, Clicks(p), p.row = page.row
      PROVE  \/ UNCHANGED received
             \/ received' = [received EXCEPT ![page.row] = Append(@, [filled |-> p.filled, cv |-> p.cv])]
  BY <1>4 DEF Clicks
<1>5. received \in [Row -> Seq([filled : Filling, cv : Version])]
  BY DEF FormsInv, Shape
<1>6. CASE Submit
  <2>1. page # NoPage /\ Sending /\ page.row \in Row
    BY <1>6, AtWork DEF Submit, At, Place, Sending
  <2>2. UNCHANGED received \/ Clicks(page)
    BY <1>6 DEF Submit
  <2> QED
    BY <1>4, <1>5, <2>1, <2>2
<1>7. CASE WalkTurn
  <2>1. page # NoPage /\ page.row \in Row /\ ~At("submit")
    BY <1>7, AtWork DEF WalkTurn, At
  <2>2. CASE cancelled \/ page.broken
    BY <1>7, <2>2 DEF WalkTurn, WalkStuck
  <2>3. CASE ~cancelled /\ ~page.broken
    <3>1. PICK got \in Got, attached \in {cv, page.cv} :
            LET p == [Fills(got) EXCEPT !.cv = attached]
                missing == Empty(p, Required \ {"secret"})
            IN  IF missing # {} THEN NeedsInput(missing, p)
                ELSE IF LastStep THEN AtSubmit(p)
                ELSE Advance(p)
      BY <1>7, <2>3 DEF WalkTurn
    <3> DEFINE q == Fills(got)
               p == [q EXCEPT !.cv = attached]
    <3>2. UNCHANGED received \/ (Sending /\ Clicks(p))
      <4> HIDE DEF p
      <4> QED
        BY <3>1 DEF AtSubmit, Advance, Turn, WalkStuck, p
    <3>3. q \in PageRecord /\ q.row = page.row
      BY <2>1, FillsAdds
    <3> HIDE DEF q
    <3>4. p.row = page.row
      BY <3>3 DEF PageRecord
    <3> HIDE DEF p
    <3> QED
      BY <1>4, <1>5, <2>1, <3>2, <3>4
  <2> QED
    BY <2>2, <2>3
<1> QED
  BY <1>1, <1>2, <1>3, <1>6, <1>7 DEF JobStep

\* Everybody else leaves either the page or what was received alone.
LEMMA OthersReach ==
  ASSUME [FormsNext]_formsVars, ~JobStep
  PROVE  \/ UNCHANGED received
         \/ UNCHANGED page /\ \E r \in left \cap Row : \A l \in Row \ {r} : received'[l] = received[l]
<1>1. ASSUME NEW r \in Row, StartPrepare(r) \/ StartSend(r) \/ StartTakeover(r)
      PROVE  UNCHANGED received
  BY <1>1 DEF StartPrepare, StartSend, StartTakeover, Open
<1>2. CASE EditProfile \/ UploadCv \/ Cancel
  BY <1>2 DEF EditProfile, UploadCv, Cancel
<1>3. ASSUME NEW r \in Row, NEW q \in Question, SaveAnswers(r, q) PROVE UNCHANGED received
  BY <1>3 DEF SaveAnswers
<1>4. ASSUME NEW r \in Row, HumanSubmits(r)
      PROVE  UNCHANGED page /\ r \in left /\ \A l \in Row \ {r} : received'[l] = received[l]
  BY <1>4 DEF HumanSubmits
<1>5. ASSUME NEW w \in Window, ContextDies(w) PROVE UNCHANGED received
  BY <1>5 DEF ContextDies
<1>6. CASE UNCHANGED formsVars
  BY <1>6 DEF formsVars
<1> QED
  BY <1>1, <1>2, <1>3, <1>4, <1>5, <1>6 DEF FormsNext

----------------------------------------------------------------------------
(* the theorems *)

\* On LinkedIn a page that was left to the human is in a window that can be seen
\* (README.md:187), whatever was launched, closed or died before.
THEOREM LeftPagesAreVisible == FormsSpec => []TakeoverIsVisible
<1>1. FormsInv => TakeoverIsVisible
  BY DEF FormsInv
<1> QED
  BY <1>1, FormsInvInit, FormsInvStep, PTL DEF FormsSpec

\* A form that is offered for sending, unless its page died, is complete, whichever
\* fields failed: every required field was filled, the title is not borderline, and
\* on a job board the CV is in it and there is neither a captcha nor a field that
\* must not be filled.
THEOREM OfferedIsComplete == FormsSpec => []ReadyIsComplete
<1>1. ASSUME FormsInv PROVE ReadyIsComplete
  <2> SUFFICES ASSUME NEW r \in Row, row[r] = "ready", reviewed[r].alive
               PROVE  LET asks == UNION {StepsOf[r][n] : n \in DOMAIN StepsOf[r]}
                      IN  /\ \A f \in (asks \cap Required) \ {"secret"} : handle[r].filled[f] # 0
                          /\ r \notin Borderline
                          /\ SiteOf[r] \in Ats =>
                               reviewed[r].cv # 0 /\ r \notin Captcha /\ "secret" \notin asks
    BY DEF ReadyIsComplete
  <2>1. r \notin Borderline /\ Sound(r, handle[r].filled, reviewed[r].cv)
    BY <1>1 DEF FormsInv, OfferedIsSound
  <2>2. DOMAIN StepsOf[r] = 1 .. Len(StepsOf[r]) /\ (SiteOf[r] \in Ats => Len(StepsOf[r]) = 1)
    BY FormsAssumption
  <2> QED
    BY <2>1, <2>2 DEF Sound
<1> QED
  BY <1>1, FormsInvInit, FormsInvStep, PTL DEF FormsSpec

\* "PREPARE never submits" (README.md:40): nothing reaches an employer but from a
\* row that is being sent, or by the human's hand on a page left open.
THEOREM NothingIsSentEarly == FormsSpec => PrepareNeverSubmits
<1>1. ASSUME FormsInv, [FormsNext]_formsVars, NEW r \in Row, received'[r] # received[r]
      PROVE  row[r] = "sending" \/ r \in left
  <2>1. CASE JobStep
    <3>1. page # NoPage /\ Sending /\ r = page.row
      BY <1>1, <2>1, OnlyClicksReach
    <3> QED
      BY <1>1, <3>1 DEF FormsInv, PageFits, Sending
  <2>2. CASE ~JobStep
    BY <1>1, <2>2, OthersReach
  <2> QED
    BY <2>1, <2>2
<1>2. FormsInv /\ [FormsNext]_formsVars =>
        [\A r \in Row : received'[r] # received[r] => row[r] = "sending" \/ r \in left]_formsVars
  BY <1>1
<1> QED
  BY <1>2, FormsInvInit, FormsInvStep, PTL DEF FormsSpec, PrepareNeverSubmits

\* What a hosted form's employer receives by a click of the program (README.md:43):
\* whatever fields fail and whatever is edited in between, no text of the profile in
\* place of one that was reviewed, and another CV than the one reviewed only if it was
\* replaced between attaching and hashing it, or between comparing and attaching it.
THEOREM WhatWasReviewedIsSent == FormsSpec => SentAsReviewed
<1> DEFINE Kept(r) ==
      /\ \A f \in {"name", "link"} : handle[r].filled[f] # 0 =>
           Delivered(r).filled[f] \in {0, handle[r].filled[f]}
      /\ page.swapped \/ reviewed[r].swapped \/ Delivered(r).cv = reviewed[r].cv
<1>1. ASSUME FormsInv, [FormsNext]_formsVars, NEW r \in Row, ClickedHosted(r)
      PROVE  Kept(r)
  <2>1. JobStep
    BY <1>1, OthersReach DEF ClickedHosted
  <2>2. /\ Sending /\ At("submit") /\ page.row = r /\ SiteOf[r] = "hosted"
        /\ received' = [received EXCEPT ![r] = Append(@, [filled |-> page.filled, cv |-> page.cv])]
    BY <1>1, <2>1, OnlyClicksReach DEF ClickedHosted
  <2> DEFINE new == [filled |-> page.filled, cv |-> page.cv]
  <2>3. received[r] \in Seq([filled : Filling, cv : Version]) /\ received'[r] = Append(received[r], new)
    BY <1>1, <2>2 DEF FormsInv, Shape
  <2>4. Delivered(r) = new
    <3> HIDE DEF new
    <3> QED
      BY <2>3 DEF Delivered
  <2>5. /\ page # NoPage /\ Content(page) /\ page.kind = "send" /\ row[r] = "sending"
    BY <1>1, <2>2, AtWork DEF Sending, FormsInv, PageFits
  <2>6. /\ page.swapped \/ page.cv = handle[r].cv
        /\ \A f \in ProfileField : handle[r].filled[f] # 0 =>
             page.filled[f] \in {0, handle[r].filled[f]}
    BY <2>2, <2>5 DEF Content, At
  <2>7. reviewed[r].swapped \/ handle[r].cv = reviewed[r].cv
    BY <1>1, <2>2, <2>5 DEF FormsInv, OfferedIsSound, Ats
  <2> QED
    BY <2>4, <2>6, <2>7 DEF ProfileField
<1>2. FormsInv /\ [FormsNext]_formsVars => [\A r \in Row : ClickedHosted(r) => Kept(r)]_formsVars
  BY <1>1
<1> QED
  BY <1>2, FormsInvInit, FormsInvStep, PTL DEF FormsSpec, SentAsReviewed

\* A send ends by a step of its own page.
LEMMA SendsEndThemselves ==
  ASSUME FormsInv, [FormsNext]_formsVars, Sending, page' = NoPage
  PROVE  JobStep
<1>1. page # NoPage /\ page \in PageRecord /\ page.kind = "send"
  BY DEF Sending, NoPage, FormsInv, Shape
<1>2. \A p \in PageRecord : p.kind = "send" => p # NoPage
  BY DEF NoPage
<1>3. page' # page
  BY <1>1
<1>4. [page EXCEPT !.swapped = TRUE] # NoPage /\ [page EXCEPT !.broken = TRUE] # NoPage
  BY <1>1 DEF PageRecord, NoPage
<1>5. ASSUME NEW r \in Row, StartPrepare(r) \/ StartSend(r) \/ StartTakeover(r) PROVE FALSE
  BY <1>1, <1>5 DEF StartPrepare, StartSend, StartTakeover, Open
<1>6. CASE \/ EditProfile \/ Cancel \/ \E r \in Row : HumanSubmits(r)
           \/ \E r \in Row, q \in Question : SaveAnswers(r, q)
  BY <1>3, <1>6 DEF EditProfile, Cancel, HumanSubmits, SaveAnswers
<1>7. CASE UploadCv
  BY <1>1, <1>3, <1>4, <1>7 DEF UploadCv, Swapped
<1>8. ASSUME NEW w \in Window, ContextDies(w) PROVE FALSE
  BY <1>3, <1>4, <1>8 DEF ContextDies
<1>9. CASE UNCHANGED formsVars
  BY <1>3, <1>9 DEF formsVars
<1> QED
  BY <1>5, <1>6, <1>7, <1>8, <1>9 DEF FormsNext

\* What is reported of a job board's form that was clicked, or could not be.
LEMMA VerdictIsHonest ==
  ASSUME FormsInv, JobStep, Sending, page' = NoPage, Site \in Ats, ~cancelled, ~page.broken
  PROVE  /\ row'[page.row] = "sent" <=> Positive(page.reply)
         /\ page.row \in Frank =>
              /\ page.reply.accepted => row'[page.row] \in {"sent", "sent_unverified"}
              /\ row'[page.row] = "sent" => page.reply.accepted
<1>1. page # NoPage /\ page \in PageRecord /\ page.kind = "send" /\ Site # "linkedin"
  BY DEF Sending, NoPage, FormsInv, Shape, Ats
<1>2. page.row \in Row /\ row \in [Row -> RowState] /\ Place(page)
  BY <1>1 DEF FormsInv, Shape, PageFits, Place
<1>3. ASSUME NEW s, Ends(s) PROVE row'[page.row] = s
  BY <1>2, <1>3 DEF Ends
<1>4. ASSUME NEW p, p.pc # "idle", Goes(p) PROVE FALSE
  BY <1>4 DEF Goes, NoPage
<1>5. \A x \in {"fill", "attach", "verdict", "submit", "walk", "look"} :
        [page EXCEPT !.pc = x].pc = x
  BY <1>1 DEF PageRecord
<1>0. ~NoReply.accepted /\ ~Positive(NoReply)
  BY DEF NoReply, Positive
<1>6. ASSUME At("goto") \/ At("attach") \/ At("submit"), Fails
      PROVE  row'[page.row] = "failed" /\ page.reply = NoReply
  BY <1>2, <1>3, <1>6 DEF Fails, Place, At
<1>7. CASE Navigates
  BY <1>1, <1>4, <1>5, <1>7 DEF Navigates
<1>8. CASE NavigationFails
  BY <1>0, <1>1, <1>6, <1>8 DEF NavigationFails
<1>9. CASE NoForm
  <2>1. At("goto") /\ (Fails \/ Returns("needs_input"))
    BY <1>9 DEF NoForm, NeedsInput
  <2>2. page.reply = NoReply
    BY <1>2, <2>1 DEF Place, At
  <2> QED
    BY <1>0, <1>3, <1>6, <2>1, <2>2 DEF Returns
<1>10. CASE FillForm
  <2>1. PICK got \in Got : Goes([Fills(got) EXCEPT !.pc = "attach"])
    BY <1>1, <1>10 DEF FillForm, Wall
  <2> DEFINE q == Fills(got)
  <2>2. q \in PageRecord
    BY <1>1, FillsAdds
  <2>3. [q EXCEPT !.pc = "attach"].pc = "attach"
    <3> HIDE DEF q
    <3> QED
      BY <2>2 DEF PageRecord
  <2> QED
    BY <1>4, <2>1, <2>3
<1>11. CASE Attach
  <2>1. \/ Goes([page EXCEPT !.pc = "submit", !.cv = cv])
        \/ At("attach") /\ Fails
    BY <1>1, <1>11 DEF Attach
  <2>2. [page EXCEPT !.pc = "submit", !.cv = cv].pc = "submit"
    BY <1>1 DEF PageRecord
  <2> QED
    BY <1>0, <1>4, <1>6, <2>1, <2>2
<1>12. CASE Judge
  BY <1>1, <1>2, <1>12 DEF Judge, Place, At
<1>13. CASE Submit
  <2>1. ~Clicks(page)
    BY <1>1 DEF Clicks, PageRecord, NoPage
  <2> QED
    BY <1>0, <1>6, <1>13, <2>1 DEF Submit
<1>14. CASE PollSees
  BY <1>1, <1>2, <1>3, <1>14 DEF PollSees, Returns, Positive, Place
<1>15. CASE PollCancelled
  BY <1>15 DEF PollCancelled
<1>16. CASE PollEnds
  BY <1>1, <1>4, <1>5, <1>16 DEF PollEnds
<1>17. CASE Look
  <2>1. ~Positive(page.reply)
    BY <1>2, <1>17 DEF Look, At, Place, Positive
  <2>2. row'[page.row] = IF page.reply.shows = "asks" THEN "needs_input" ELSE "sent_unverified"
    BY <1>3, <1>17 DEF Look, Returns
  <2> QED
    BY <1>2, <2>1, <2>2 DEF Place
<1>18. CASE WalkTurn
  BY <1>1, <1>2, <1>18 DEF WalkTurn, Place, At, Site
<1> QED
  BY <1>7, <1>8, <1>9, <1>10, <1>11, <1>12, <1>13, <1>14, <1>15, <1>16, <1>17, <1>18 DEF JobStep

\* "requires a positive confirmation signal" (README.md:44): an unhindered send to a
\* job board is 'sent' if and only if it saw one, and where signals mean what they are
\* taken for, it reports what became of the form, whatever else goes on.
THEOREM OutcomesAreHonest == FormsSpec => OutcomeIsHonest
<1>1. FormsInv /\ [FormsNext]_formsVars =>
        [Sending /\ page' = NoPage /\ Site \in Ats /\ ~cancelled /\ ~page.broken =>
           LET verdict == row'[page.row]
           IN  /\ verdict = "sent" <=> Positive(page.reply)
               /\ page.row \in Frank =>
                    /\ page.reply.accepted => verdict \in {"sent", "sent_unverified"}
                    /\ verdict = "sent" => page.reply.accepted]_formsVars
  BY SendsEndThemselves, VerdictIsHonest
<1> QED
  BY <1>1, FormsInvInit, FormsInvStep, PTL DEF FormsSpec, OutcomeIsHonest
=============================================================================
