------------------------------- MODULE Forms --------------------------------
(***************************************************************************)
(* What happens on a page: the two browser contexts (engine/session.py), a  *)
(* form that is filled, judged and parked (prepare), filled again and       *)
(* submitted (send), or left open for the human (take-over), by the three   *)
(* kinds of adapter: channels/greenhouse.py, the hosted forms of            *)
(* channels/atsform.py and channels/linkedin.py; and the answer bank the    *)
(* fields are filled from.                                                 *)
(*                                                                         *)
(* One job runs at a time (Pipeline's OneCoroutine) and here it has one     *)
(* page: the coroutines of one prepare share nothing but the context.  A    *)
(* value is a version, 0 when there is none.                               *)
(***************************************************************************)
EXTENDS Naturals, Sequences

CONSTANTS
  Row,                        \* applications, each with a form of its own
  SiteOf,                     \* its adapter
  StepsOf,                    \* its steps, each a set of fields
  Captcha,                    \* rows whose form asks for a captcha
  Borderline,                 \* rows whose title is only close to software
  Frank,                      \* rows whose site signals what the code takes it to
  MaxTurns,                   \* turns of LinkedIn's walk (8 in the code)
  MaxJobs, MaxEdits, MaxTroubles  \* bounds: jobs, human changes, failures

Ats   == {"greenhouse", "hosted"}
\* name: a text field for the name, the address or the phone; link: another
\* field of the profile, not required; choice: a dropdown with a question; essay:
\* a text box with a question; secret: a password, an ID, a bank account.
Field     == {"name", "link", "choice", "essay", "secret"}
Question  == {"choice", "essay"}
Required  == Field \ {"link"}
Window    == {"ats", "linkedin"}

ASSUME FormsAssumption ==
  /\ SiteOf \in [Row -> Ats \cup {"linkedin"}]
  /\ \A r \in Row : /\ StepsOf[r] \in Seq(SUBSET Field) /\ StepsOf[r] # <<>>
                    /\ SiteOf[r] \in Ats => Len(StepsOf[r]) = 1
  /\ Captcha \subseteq Row /\ Borderline \subseteq Row /\ Frank \subseteq Row
  /\ {MaxJobs, MaxEdits, MaxTroubles} \subseteq Nat /\ MaxTurns \in Nat \ {0}

VARIABLES
  profile, cv, bank,  \* versions: the profile, the CV's file, the learned answers
  row,                \* run_items.state
  handle,             \* result_json.handle: answers and CV, plus the questions
  ctx,                \* the live contexts: none, headless or visible
  page,               \* the page of the running job, see Page
  cancelled,          \* its cancel token
  left,               \* rows whose take-over page is open
  received,           \* what each employer received, in order
  reviewed,           \* history: of the page that was judged, per row
  jobs, edits, troubles

bankVars  == <<profile, cv, bank>>
boundVars == <<jobs, edits, troubles>>
formsVars == <<bankVars, row, handle, ctx, page, cancelled, left, received, reviewed, boundVars>>

Version == 0 .. (MaxEdits + 1)
Filling == [Field -> Version]
Blank   == [f \in Field |-> 0]

RowState == {"queued", "preparing", "ready", "needs_input", "failed",
             "sending", "sent", "sent_unverified"}

\* What a click leads to.  accepted: the employer has the form.  ok: the first
\* POST or PUT that the host answers, whatever it is for, is answered 2xx or 3xx.
\* shows: what is seen of a confirmation, or of a code by e-mail or a complaint.
Reply   == [accepted : BOOLEAN, ok : BOOLEAN, shows : {"nothing", "success", "asks"}]
NoReply == [accepted |-> FALSE, ok |-> FALSE, shows |-> "nothing"]

\* who: the profile that was read; swapped: history, see UploadCv.
NoPage == [kind |-> "none", row |-> "none", pc |-> "idle", turn |-> 0, step |-> 1, who |-> 0,
           filled |-> Blank, cv |-> 0, broken |-> FALSE, swapped |-> FALSE, reply |-> NoReply]

Site    == SiteOf[page.row]
Fields  == StepsOf[page.row][page.step]
WindowOf(r) == IF SiteOf[r] = "linkedin" THEN "linkedin" ELSE "ats"
At(pc)  == page.pc = pc
Sending == page.kind = "send"

Form == [filled : Filling, cv : Version]

FormsTypeOK ==
  /\ profile \in Version /\ cv \in Version /\ bank \in [Question -> Version]
  /\ row \in [Row -> RowState]
  /\ \A r \in Row : /\ handle[r].filled \in Filling /\ handle[r].cv \in Version
                    /\ handle[r].questions \subseteq Field
                    /\ reviewed[r].cv \in Version
                    /\ reviewed[r].alive \in BOOLEAN /\ reviewed[r].swapped \in BOOLEAN
  /\ received \in [Row -> Seq(Form)]
  /\ ctx \in [Window -> {"none", "headless", "visible"}]
  /\ \/ page = NoPage
     \/ /\ page.kind \in {"prepare", "send", "takeover"} /\ page.row \in Row
        /\ page.pc \in {"goto", "fill", "attach", "verdict", "submit", "walk", "poll", "look"}
        /\ page.turn \in 0 .. (MaxTurns - 1) /\ page.step \in 1 .. Len(StepsOf[page.row])
        /\ page.filled \in Filling /\ {page.cv, page.who} \subseteq Version
        /\ page.reply \in Reply
  /\ cancelled \in BOOLEAN /\ left \subseteq Row

\* The answers have all been learned before, or none has.
FormsInit ==
  /\ profile = 1 /\ cv = 1
  /\ \E learned \in {0, 1} : bank = [q \in Question |-> learned]
  /\ row = [r \in Row |-> "queued"]
  /\ handle = [r \in Row |-> [filled |-> Blank, cv |-> 0, questions |-> {}]]
  /\ ctx = [w \in Window |-> "none"]
  /\ page = NoPage /\ cancelled = FALSE /\ left = {}
  /\ received = [r \in Row |-> <<>>]
  /\ reviewed = [r \in Row |-> [cv |-> 0, alive |-> FALSE, swapped |-> FALSE]]
  /\ jobs = 0 /\ edits = 0 /\ troubles = 0

----------------------------------------------------------------------------
(* engine/session.py *)

Shown(visible) == IF visible THEN "visible" ELSE "headless"

\* Whatever was launched first stays.
AtsContext(visible) == IF ctx["ats"] = "none" THEN Shown(visible) ELSE ctx["ats"]

\* Mutant of LinkedInContext: the live context is kept whatever it shows.
LinkedInContextKept(visible) ==
  IF ctx["linkedin"] = "none" THEN Shown(visible) ELSE ctx["linkedin"]

\* A live context that shows something else is closed, with its pages.
LinkedInContext(visible) == Shown(visible)

\* A context is taken for row r, and a page opened in it, by a job that read the
\* profile when it was `who`.
Open(kind, r, visible, who) ==
  LET w   == WindowOf(r)
      new == IF w = "ats" THEN AtsContext(visible) ELSE LinkedInContext(visible)
  IN  /\ page = NoPage /\ jobs < MaxJobs /\ jobs' = jobs + 1
      /\ ctx' = [ctx EXCEPT ![w] = new]
      /\ left' = IF ctx[w] = new THEN left ELSE {l \in left : WindowOf(l) # w}
      /\ page' = [NoPage EXCEPT !.kind = kind, !.row = r, !.pc = "goto", !.who = who]
      /\ cancelled' = FALSE
      /\ UNCHANGED <<bankVars, handle, received, reviewed, edits, troubles>>

\* The page ends with a verdict, and is closed.
Ends(state) ==
  /\ page' = NoPage
  /\ row' = [row EXCEPT ![page.row] = state]
  /\ UNCHANGED <<bankVars, ctx, cancelled, left, boundVars>>

\* `except Exception`: a time limit, a dead page, and a cancel too.
Fails == Ends("failed") /\ UNCHANGED <<handle, received, reviewed>>

\* The coroutine goes on.
Goes(next) ==
  /\ page' = next
  /\ UNCHANGED <<bankVars, row, handle, ctx, cancelled, left, received, reviewed, boundVars>>

\* _apply_prepare_result: a borderline title is never offered, and the CV is
\* hashed now, not when it was attached.
Park(state, questions, seen) ==
  /\ Ends(IF state = "ready" /\ page.row \in Borderline THEN "needs_input" ELSE state)
  /\ handle' = [handle EXCEPT ![page.row] =
                  [filled |-> seen.filled, cv |-> cv, questions |-> questions]]
  /\ reviewed' = [reviewed EXCEPT ![page.row] =
                    [cv |-> seen.cv, alive |-> ~seen.broken, swapped |-> seen.swapped]]
  /\ UNCHANGED received

\* Any verdict of a send but a submit: only the state and the reason are kept.
Returns(state) == Ends(state) /\ UNCHANGED <<handle, received, reviewed>>

NeedsInput(questions, seen) ==
  IF Sending THEN Returns("needs_input") ELSE Park("needs_input", questions, seen)

----------------------------------------------------------------------------
(* the three jobs *)

\* The profile is that of the start of the run, some time ago.
StartPrepare(r) ==
  /\ row[r] = "queued"
  /\ \E visible \in (IF SiteOf[r] = "linkedin" THEN BOOLEAN ELSE {FALSE}), who \in 1 .. profile :
       Open("prepare", r, visible, who)
  /\ row' = [row EXCEPT ![r] = "preparing"]

\* Confirmed.  The CV on disk is compared with the one reviewed before a page is
\* opened.
StartSend(r) ==
  /\ row[r] = "ready"
  /\ IF cv # handle[r].cv
       THEN /\ page = NoPage
            /\ row' = [row EXCEPT ![r] = "needs_input"]
            /\ UNCHANGED <<bankVars, handle, ctx, page, cancelled, left, received, reviewed,
                           boundVars>>
       ELSE /\ \E visible \in BOOLEAN : Open("send", r, visible, 0)
            /\ row' = [row EXCEPT ![r] = "sending"]

StartTakeover(r) ==
  /\ row[r] \in {"needs_input", "failed"}
  /\ Open("takeover", r, TRUE, profile)
  /\ UNCHANGED row

\* A take-over ends with its page open, whatever went wrong on it, unless the
\* browser died.
LeavesOpen ==
  /\ page' = NoPage
  /\ left' = IF page.broken THEN left ELSE left \cup {page.row}
  /\ UNCHANGED <<bankVars, row, handle, ctx, cancelled, received, reviewed, boundVars>>

\* page.goto.  A job board waits a little on the cancel token; LinkedIn does not.
Navigates ==
  /\ At("goto") /\ ~page.broken
  /\ \/ page.kind = "takeover" /\ Site = "linkedin" /\ LeavesOpen
     \/ page.kind # "takeover" /\ Site = "linkedin" /\ Goes([page EXCEPT !.pc = "walk"])
     \/ /\ Site # "linkedin" /\ (cancelled => page.kind = "takeover")
        /\ Goes([page EXCEPT !.pc = "fill"])

\* Too slow, cancelled, or dead.
NavigationFails ==
  /\ At("goto")
  /\ IF page.kind = "takeover" THEN LeavesOpen ELSE Fails

\* No form, a checkpoint, or no Easy Apply button: Greenhouse takes the page
\* itself for the form.
NoForm ==
  /\ At("goto") /\ page.kind # "takeover" /\ Site # "greenhouse"
  /\ IF Sending /\ Site = "hosted" THEN Fails ELSE NeedsInput({}, page)

----------------------------------------------------------------------------
(* what a field is filled with *)

\* Mutant of ProfileValue: a send takes the profile as it is now.
ProfileValueNow(f) == profile

\* Text fields of the profile.  A send uses what was reviewed: a hosted form all
\* of it, falling back on the profile of now; Greenhouse and LinkedIn the first
\* kind only (of it LinkedIn keeps the phone, the e-mail and the place, and has
\* names of its own).
ProfileValue(f) ==
  IF ~Sending THEN page.who
  ELSE LET old == handle[page.row].filled[f]
       IN  IF Site = "hosted" THEN (IF old # 0 THEN old ELSE profile)
           ELSE IF f = "name" THEN old ELSE 0

\* known_answer.  On a job board a question in a text box is left alone, and a
\* take-over fills text and the CV only.
Knows(f) ==
  IF f \in {"name", "link"} THEN ProfileValue(f)
  ELSE IF (f = "choice" /\ page.kind # "takeover") \/ (f = "essay" /\ Site = "linkedin")
    THEN bank[f] ELSE 0

Fillable == {f \in Fields : page.filled[f] = 0 /\ Knows(f) # 0}

\* Every field is tried on its own; one that fails is passed over.
Fills(got) ==
  [page EXCEPT !.filled = [f \in Field |-> IF f \in got THEN Knows(f) ELSE @[f]]]

Got == IF page.broken THEN {{}}
       ELSE IF troubles < MaxTroubles THEN SUBSET Fillable ELSE {Fillable}

Empty(p, among) == {f \in among \cap Fields : p.filled[f] = 0}

----------------------------------------------------------------------------
(* job boards: prepare_generic, send_generic and Greenhouse's own *)

\* A password, an ID or a bank account stops a prepare before anything is filled.
Wall == "secret" \in Fields /\ ~page.broken /\ page.kind = "prepare"

FillForm ==
  /\ At("fill")
  /\ IF Wall THEN NeedsInput({}, page)
     ELSE \E got \in Got : Goes([Fills(got) EXCEPT !.pc = "attach"])

\* What comes after the CV depends on the job.
Attach ==
  /\ At("attach")
  /\ \/ /\ page.kind = "prepare"
        /\ \/ ~page.broken /\ Goes([page EXCEPT !.pc = "verdict", !.cv = cv])
           \/ Goes([page EXCEPT !.pc = "verdict"])
     \/ /\ page.kind = "send"
        /\ \/ ~page.broken /\ Goes([page EXCEPT !.pc = "submit", !.cv = cv])
           \/ Fails
     \/ page.kind = "takeover" /\ LeavesOpen

\* Mutant of Judge: whether the CV went in is not looked at.
JudgeNoCv ==
  LET asked == IF page.broken THEN {} ELSE Empty(page, Required)
  IN  /\ At("verdict")
      /\ IF page.row \in Captcha /\ ~page.broken THEN Park("needs_input", {}, page)
         ELSE IF page.filled = Blank THEN Park("needs_input", {}, page)
         ELSE IF asked # {} THEN Park("needs_input", asked, page)
         ELSE Park("ready", {}, page)

\* A captcha; nothing filled; no CV; questions; or ready.  A page that died is
\* read as one that asks nothing.
Judge ==
  LET asked == IF page.broken THEN {} ELSE Empty(page, Required)
  IN  /\ At("verdict")
      /\ IF page.row \in Captcha /\ ~page.broken THEN Park("needs_input", {}, page)
         ELSE IF page.filled = Blank \/ page.cv = 0 THEN Park("needs_input", {}, page)
         ELSE IF asked # {} THEN Park("needs_input", asked, page)
         ELSE Park("ready", {}, page)

\* A form that is not complete is not accepted.  The site may signal anything else,
\* unless it is frank: a 2xx and a confirmation only for what it has accepted, a
\* complaint only for what it has not.
Replies(p) ==
  LET asks == UNION {StepsOf[p.row][n] : n \in DOMAIN StepsOf[p.row]} \cap Required
  IN  {reply \in Reply :
         /\ reply.accepted => \A f \in asks : p.filled[f] # 0
         /\ p.row \in Frank => /\ reply.ok \/ reply.shows = "success" => reply.accepted
                               /\ reply.shows = "asks" => ~reply.accepted}

Clicks(p) ==
  \E reply \in Replies(p) :
    /\ page' = [p EXCEPT !.pc = "poll", !.reply = reply]
    /\ received' = IF reply.accepted
                     THEN [received EXCEPT ![p.row] = Append(@, [filled |-> p.filled, cv |-> p.cv])]
                     ELSE received
    /\ UNCHANGED <<bankVars, row, handle, ctx, cancelled, left, reviewed, boundVars>>

\* There is no button, or it is clicked; an error of the click is ignored.
Submit ==
  /\ At("submit")
  /\ Fails \/ (~page.broken /\ Clicks(page))

\* A job board is taken at its first sign of success, before anything it complains
\* of is read, and even if the page died after it; LinkedIn at its view alone.
Positive(reply) == reply.shows = "success" \/ (Site # "linkedin" /\ reply.ok)

PollSees ==
  /\ At("poll") /\ Positive(page.reply) /\ (Site = "linkedin" => ~page.broken)
  /\ Returns("sent")

\* cancel.check() between two looks: on a job board only.
PollCancelled ==
  /\ At("poll") /\ cancelled /\ Site # "linkedin"
  /\ Fails

\* The time is up.  LinkedIn's waits raise on a dead page.
PollEnds ==
  /\ At("poll") /\ (Positive(page.reply) => page.broken)
  /\ IF Site # "linkedin" THEN Goes([page EXCEPT !.pc = "look"])
     ELSE IF page.broken THEN Fails ELSE Returns("needs_input")

\* Mutant of Look: what is not seen as accepted is taken for a failure.
LookFails == At("look") /\ Returns("needs_input")

\* A code by e-mail or a complaint of the form is work for the human; anything
\* else may have been sent.
Look ==
  /\ At("look")
  /\ IF page.reply.shows = "asks" /\ ~page.broken
       THEN Returns("needs_input") ELSE Returns("sent_unverified")

----------------------------------------------------------------------------
(* LinkedIn: _walk *)

LastStep == page.step = Len(StepsOf[page.row])

\* Nothing can be found on a dead page; a wait on it raises.
WalkStuck(p) == NeedsInput({}, p)

\* Mutant of Turn: the count starts again instead of ending the walk.
TurnForever(p) == Goes([p EXCEPT !.turn = (page.turn + 1) % MaxTurns])

\* Mutant of Turn: one turn too many.
TurnOnceMore(p) ==
  IF page.turn = MaxTurns THEN WalkStuck(p)
  ELSE Goes([p EXCEPT !.turn = page.turn + 1])

\* The next turn, of MaxTurns.
Turn(p) ==
  IF page.turn + 1 = MaxTurns THEN WalkStuck(p)
  ELSE Goes([p EXCEPT !.turn = page.turn + 1])

\* Next: the site goes on only if the step is complete, and may find fault with
\* it even then.  The walk ends once it sees that, and tries again otherwise.
Advance(p) ==
  \/ Empty(p, Required) = {} /\ Turn([p EXCEPT !.step = @ + 1])
  \/ NeedsInput(Empty(p, Required \ {"secret"}), p)
  \/ Turn(p)

\* Mutant of AtSubmit: prepare clicks it too.
AtSubmitEager(p) == Clicks(p)

\* The last step has the button: a prepare stops there.
AtSubmit(p) ==
  IF Sending THEN Clicks(p) ELSE Park("ready", {}, p)

\* One turn: the CV, the fields, the questions left, and the button.  Only
\* questions that may be asked are missing; an upload that fails is ignored.
WalkTurn ==
  /\ At("walk")
  /\ IF cancelled THEN Fails
     ELSE IF page.broken THEN WalkStuck(page) \/ Fails
     ELSE \E got \in Got, attached \in {cv, page.cv} :
            LET p == [Fills(got) EXCEPT !.cv = attached]
                missing == Empty(p, Required \ {"secret"})
            IN  IF missing # {} THEN NeedsInput(missing, p)
                ELSE IF LastStep THEN AtSubmit(p)
                ELSE Advance(p)

JobStep ==
  \/ Navigates \/ NavigationFails \/ NoForm
  \/ FillForm \/ Attach \/ Judge \/ Submit
  \/ PollSees \/ PollCancelled \/ PollEnds \/ Look \/ WalkTurn

----------------------------------------------------------------------------
(* everybody else *)

Human == edits < MaxEdits /\ edits' = edits + 1

EditProfile ==
  /\ Human /\ profile' = profile + 1
  /\ UNCHANGED <<cv, bank, row, handle, ctx, page, cancelled, left, received, reviewed,
                 jobs, troubles>>

\* History: on the open page the CV was replaced where no guard looks, between
\* attaching and hashing it (prepare) or between comparing and attaching it (send).
Swapped ==
  IF (page.kind = "prepare" /\ page.cv # 0) \/ (Sending /\ page.cv = 0)
    THEN [page EXCEPT !.swapped = TRUE] ELSE page

UploadCv ==
  /\ Human /\ cv' = cv + 1
  /\ page' = Swapped
  /\ UNCHANGED <<profile, bank, row, handle, ctx, cancelled, left, received, reviewed,
                 jobs, troubles>>

\* An answer is learned, and the posting it was given for is queued again.
SaveAnswers(r, q) ==
  /\ Human /\ bank' = [bank EXCEPT ![q] = @ + 1]
  /\ row' = IF row[r] \in {"needs_input", "failed"} THEN [row EXCEPT ![r] = "queued"] ELSE row
  /\ UNCHANGED <<profile, cv, handle, ctx, page, cancelled, left, received, reviewed,
                 jobs, troubles>>

Cancel ==
  /\ page # NoPage /\ ~cancelled /\ cancelled' = TRUE
  /\ UNCHANGED <<bankVars, row, handle, ctx, page, left, received, reviewed, boundVars>>

\* The human finishes the form of an open, visible page, submits it, and says so.
HumanSubmits(r) ==
  /\ r \in left /\ ctx[WindowOf(r)] = "visible"
  /\ left' = left \ {r}
  /\ received' = [received EXCEPT ![r] = Append(@, [filled |-> Blank, cv |-> cv])]
  /\ row' = [row EXCEPT ![r] = IF @ \in {"ready", "needs_input", "failed"} THEN "sent" ELSE @]
  /\ UNCHANGED <<bankVars, handle, ctx, page, cancelled, reviewed, boundVars>>

\* The browser crashes, or its window is closed.
ContextDies(w) ==
  /\ troubles < MaxTroubles /\ troubles' = troubles + 1
  /\ ctx[w] # "none" /\ ctx' = [ctx EXCEPT ![w] = "none"]
  /\ left' = {r \in left : WindowOf(r) # w}
  /\ page' = IF page # NoPage /\ WindowOf(page.row) = w
               THEN [page EXCEPT !.broken = TRUE] ELSE page
  /\ UNCHANGED <<bankVars, row, handle, cancelled, received, reviewed, jobs, edits>>

FormsNext ==
  \/ JobStep
  \/ \E r \in Row : StartPrepare(r) \/ StartSend(r) \/ StartTakeover(r) \/ HumanSubmits(r)
  \/ EditProfile \/ UploadCv \/ Cancel
  \/ \E r \in Row, q \in Question : SaveAnswers(r, q)
  \/ \E w \in Window : ContextDies(w)

FormsSpec == FormsInit /\ [][FormsNext]_formsVars

\* Every step on a page is under a time limit, so the coroutine goes on.
FormsFairSpec == FormsSpec /\ WF_formsVars(JobStep)

----------------------------------------------------------------------------
(* What the pages must not do. *)

\* "'ready' and `sendable` are not the same thing" (tests): whichever fields fail
\* to be filled, a form offered for sending has its CV attached (on a job board),
\* no question open, no captcha and no field that must not be filled, unless its
\* page died: a dead page asks nothing.
ReadyIsComplete ==
  \A r \in Row :
    row[r] = "ready" /\ reviewed[r].alive =>
      LET asks == UNION {StepsOf[r][n] : n \in DOMAIN StepsOf[r]}
      IN  /\ \A f \in (asks \cap Required) \ {"secret"} : handle[r].filled[f] # 0
          /\ r \notin Borderline
          /\ SiteOf[r] \in Ats =>
               reviewed[r].cv # 0 /\ r \notin Captcha /\ "secret" \notin asks

\* "PREPARE never submits" (README.md:40): an employer receives something only
\* for a row that is being sent, or from the human's own hand.
PrepareNeverSubmits ==
  [][\A r \in Row : received'[r] # received[r] => row[r] = "sending" \/ r \in left]_formsVars

\* "requires a positive confirmation signal" (README.md:44), unless the job was
\* cancelled or its page died: a job board's send is 'sent' if and only if there was
\* one; and on a site whose signals mean what they are taken for, a form that was
\* accepted is never reported as one that was not sent, and no other is 'sent'.  On
\* another site the first answer without an error makes a 'sent' of a refused form.
OutcomeIsHonest ==
  [][Sending /\ page' = NoPage /\ Site \in Ats /\ ~cancelled /\ ~page.broken =>
       LET verdict == row'[page.row]
       IN  /\ verdict = "sent" <=> Positive(page.reply)
           /\ page.row \in Frank =>
                /\ page.reply.accepted => verdict \in {"sent", "sent_unverified"}
                /\ verdict = "sent" => page.reply.accepted]_formsVars

\* What an employer receives by the click of a send to a hosted form.
ClickedHosted(r) ==
  SiteOf[r] = "hosted" /\ At("submit") /\ page.row = r /\ page' # page /\ received'[r] # received[r]
Delivered(r) == received'[r][Len(received'[r])]

\* "re-fills from a durable SendHandle" (README.md:43): whatever fields fail and
\* whatever is edited between the review and the click, a hosted form's employer
\* receives no other text of the profile in place of one reviewed, and another CV
\* only if it was replaced in one of the two gaps around the guard (UploadCv), in
\* which README.md:160, "the file actually attached is hashed", does not hold.
SentAsReviewed ==
  [][\A r \in Row : ClickedHosted(r) =>
       /\ \A f \in {"name", "link"} : handle[r].filled[f] # 0 =>
            Delivered(r).filled[f] \in {0, handle[r].filled[f]}
       /\ page.swapped \/ reviewed[r].swapped \/ Delivered(r).cv = reviewed[r].cv]_formsVars

\* "re-opens one in a visible window" (README.md:187): on LinkedIn, a page left to
\* the human can be seen and stays until the next job there.
TakeoverIsVisible ==
  \A r \in left : SiteOf[r] = "linkedin" => ctx["linkedin"] = "visible"

\* A page is never worked on for ever: a form that refuses every step ends too.
JobEnds == page # NoPage ~> page = NoPage
=============================================================================
