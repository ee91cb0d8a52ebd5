------------------------------- MODULE Access -------------------------------
(***************************************************************************)
(* Signing in and out: auth.py, the sessions table (db/store.py) and the   *)
(* gate and handlers of main.py that use them.                             *)
(*                                                                         *)
(* The gate is a middleware: a request it has let in is handled a few      *)
(* event-loop steps later, and /api/auth/status on a thread of its own.    *)
(* Tokens are numbered in the order they are made; a passphrase is the     *)
(* number of its change, 0 when there is none.                             *)
(***************************************************************************)
EXTENDS Naturals, Sequences, FiniteSets

CONSTANTS
  Device,              \* a browser, and the client address its log-ins come from
  Local,               \* those on the machine itself
  Mistyping,           \* those that may get the passphrase wrong
  SessionTtl, Lockout, MaxFailures,      \* SESSION_TTL_S, LOCKOUT_S, MAX_FAILURES
  MaxTokens, MaxChanges, MaxTime         \* bounds

ASSUME AccessAssumption ==
  /\ Local \subseteq Device /\ Mistyping \subseteq Device
  /\ {SessionTtl, Lockout, MaxFailures} \subseteq Nat \ {0}
  /\ {MaxTokens, MaxTime} \subseteq Nat /\ MaxChanges \in Nat \ {0}

VARIABLES
  clock,
  passphrase,
  session,    \* the expiry of each token that has a row
  cookie,     \* per device: the token it sends, and the day the browser drops it
  request,    \* per device: what it was let in for, and what a thread has read
  failures,   \* per client, in memory: how many, and the first one's time
  ended,      \* history: tokens that were signed out
  guessed     \* history: when a client was wrong, since it was right or we restarted

accessVars == <<clock, passphrase, session, cookie, request, failures, ended, guessed>>

Token == 1 .. MaxTokens
NoCookie  == [token |-> 0, until |-> 0]
NoRequest == [what |-> "none", token |-> 0, at |-> 0]
NoFailure == [n |-> 0, first |-> 0]

AccessTypeOK ==
  /\ clock \in 0 .. MaxTime /\ passphrase \in 0 .. MaxChanges
  /\ DOMAIN session \subseteq Token
  /\ \A t \in DOMAIN session : session[t] \in 0 .. MaxTime + SessionTtl
  /\ cookie \in [Device -> [token : {0} \cup Token, until : 0 .. MaxTime + SessionTtl]]
  /\ request \in [Device -> [what : {"none", "logout", "logoutAll", "setPassphrase", "status",
                                      "slide", "reap"},
                             token : {0} \cup Token, at : 0 .. MaxTime]]
  /\ failures \in [Device -> [n : 0 .. MaxFailures, first : 0 .. MaxTime]]
  /\ ended \subseteq Token
  /\ guessed \in [Device -> Seq(0 .. MaxTime)]

AccessInit ==
  /\ clock = 0 /\ passphrase \in {0, 1}
  /\ session = <<>> /\ ended = {}
  /\ cookie = [d \in Device |-> NoCookie]
  /\ request = [d \in Device |-> NoRequest]
  /\ failures = [d \in Device |-> NoFailure]
  /\ guessed = [d \in Device |-> <<>>]

----------------------------------------------------------------------------
(* sessions *)

Drop(s, tokens) == [t \in DOMAIN s \ tokens |-> s[t]]

\* Mutant of Slide: the row is written whether or not it is still there.
SlideUpsert(s, t, at) ==
  [u \in DOMAIN s \cup {t} |-> IF u = t THEN at + SessionTtl ELSE s[u]]

\* UPDATE ... WHERE token_hash: a row that is gone stays gone.
Slide(s, t, at) == [u \in DOMAIN s |-> IF u = t THEN at + SessionTtl ELSE s[u]]

Live(t) == t \in DOMAIN session /\ session[t] >= clock

\* touch_session on the event loop: what it leaves.  A write that finds the
\* database busy is skipped.
Touched(t) ==
  {session, IF t \notin DOMAIN session THEN session
            ELSE IF Live(t) THEN Slide(session, t, clock) ELSE Drop(session, {t})}

Goes(d, r) == request' = [request EXCEPT ![d] = r]

\* A request is let in: all of them before there is a passphrase, else those with
\* a live session, which slides.  The status is public, and a page, or any other
\* handler, touches nothing here.
Admit(d, what) ==
  /\ request[d] = NoRequest
  /\ what = "setPassphrase" /\ passphrase = 0 => d \in Local
  /\ IF passphrase = 0 \/ what = "status"
       THEN UNCHANGED session
       ELSE Live(cookie[d].token) /\ session' \in Touched(cookie[d].token)
  /\ Goes(d, IF what = "page" THEN NoRequest
             ELSE [NoRequest EXCEPT !.what = what,
                     !.token = IF what \in {"logout", "status"} THEN cookie[d].token ELSE 0])
  /\ UNCHANGED <<clock, passphrase, cookie, failures, ended, guessed>>

\* 401, or a redirect to the log-in page.
Refuse(d) ==
  /\ request[d] = NoRequest /\ passphrase # 0
  /\ ~Live(cookie[d].token)
  /\ session' \in Touched(cookie[d].token)
  /\ UNCHANGED <<clock, passphrase, cookie, request, failures, ended, guessed>>

\* touch_session on a thread: it reads here, and writes what it decided then.
StatusReads(d) ==
  LET t == request[d].token
  IN  /\ request[d].what = "status"
      /\ Goes(d, IF t \notin DOMAIN session THEN NoRequest
                 ELSE [what |-> IF Live(t) THEN "slide" ELSE "reap", token |-> t, at |-> clock])
      /\ UNCHANGED <<clock, passphrase, session, cookie, failures, ended, guessed>>

StatusWrites(d) ==
  LET r == request[d]
  IN  /\ \/ r.what = "slide" /\ session' \in {session, Slide(session, r.token, r.at)}
         \/ r.what = "reap" /\ session' \in {session, Drop(session, {r.token})}
      /\ Goes(d, NoRequest)
      /\ UNCHANGED <<clock, passphrase, cookie, failures, ended, guessed>>

\* The row goes, then the cookie.
Logout(d) ==
  LET t == request[d].token
  IN  /\ request[d].what = "logout" /\ Goes(d, NoRequest)
      /\ session' = Drop(session, {t})
      /\ ended' = ended \cup ({t} \cap DOMAIN session)
      /\ cookie' = [cookie EXCEPT ![d] = NoCookie]
      /\ UNCHANGED <<clock, passphrase, failures, guessed>>

LogoutAll(d) ==
  /\ request[d].what = "logoutAll" /\ Goes(d, NoRequest)
  /\ session' = <<>> /\ ended' = ended \cup DOMAIN session
  /\ cookie' = [cookie EXCEPT ![d] = NoCookie]
  /\ UNCHANGED <<clock, passphrase, failures, guessed>>

\* What was checked when the handler began is not checked again.  Two
\* transactions: the new passphrase, and the end of every session.
SetPassphrase(d) ==
  /\ request[d].what = "setPassphrase" /\ Goes(d, NoRequest)
  /\ passphrase < MaxChanges /\ passphrase' = passphrase + 1
  /\ \/ session' = <<>> /\ ended' = ended \cup DOMAIN session
     \/ UNCHANGED <<session, ended>>
  /\ UNCHANGED <<clock, cookie, failures, guessed>>

\* A handler that finds the database busy raises: it does nothing.
Busy(d) ==
  /\ request[d].what \in {"logout", "logoutAll", "setPassphrase"} /\ Goes(d, NoRequest)
  /\ UNCHANGED <<clock, passphrase, session, cookie, failures, ended, guessed>>

\* On the scheduler's thread, once a minute.
PurgeExpired ==
  /\ \E t \in DOMAIN session : session[t] < clock
  /\ session' = [t \in {u \in DOMAIN session : session[u] >= clock} |-> session[t]]
  /\ UNCHANGED <<clock, passphrase, cookie, request, failures, ended, guessed>>

----------------------------------------------------------------------------
(* log-in *)

\* Mutant of LockedOut: one more than the limit.
LockedOutLate(d) == failures[d].n > MaxFailures /\ failures[d].first + Lockout > clock

LockedOut(d) == failures[d].n >= MaxFailures /\ failures[d].first + Lockout > clock

\* locked_out: a lockout that has run out is forgotten.
Forgiven(d) == IF failures[d].n >= MaxFailures THEN NoFailure ELSE failures[d]

\* note_failure: the window begins with the first failure.
Counted(f) ==
  IF f.n = 0 \/ f.first + Lockout < clock THEN [n |-> 1, first |-> clock]
  ELSE [f EXCEPT !.n = @ + 1]

LoginWrong(d) ==
  /\ d \in Mistyping /\ ~LockedOut(d)
  /\ failures' = [failures EXCEPT ![d] = Counted(Forgiven(d))]
  /\ guessed' = [guessed EXCEPT ![d] = Append(@, clock)]
  /\ UNCHANGED <<clock, passphrase, session, cookie, request, ended>>

Made == ended \cup DOMAIN session \cup {cookie[d].token : d \in Device}
             \cup {request[d].token : d \in Device}

\* A fresh token.  The cookie's own life is not extended later.
LoginRight(d) ==
  /\ ~LockedOut(d) /\ passphrase # 0
  /\ failures' = [failures EXCEPT ![d] = NoFailure]
  /\ guessed' = [guessed EXCEPT ![d] = <<>>]
  /\ \E t \in Token \ Made :
       /\ \A u \in Token \ Made : t <= u
       /\ session' = [u \in DOMAIN session \cup {t} |->
                        IF u = t THEN clock + SessionTtl ELSE session[u]]
       /\ cookie' = [cookie EXCEPT ![d] = [token |-> t, until |-> clock + SessionTtl]]
  /\ UNCHANGED <<clock, passphrase, request, ended>>

----------------------------------------------------------------------------
(* time and restarts *)

TimePasses ==
  /\ clock < MaxTime /\ clock' = clock + 1
  /\ cookie' = [d \in Device |-> IF cookie[d].until < clock' THEN NoCookie ELSE cookie[d]]
  /\ UNCHANGED <<passphrase, session, request, failures, ended, guessed>>

\* The table stays; failures and requests in flight are gone.
RestartServer ==
  /\ request' = [d \in Device |-> NoRequest]
  /\ failures' = [d \in Device |-> NoFailure]
  /\ guessed' = [d \in Device |-> <<>>]
  /\ UNCHANGED <<clock, passphrase, session, cookie, ended>>

AccessStep(d) ==
  \/ \E w \in {"page", "logout", "logoutAll", "setPassphrase", "status"} : Admit(d, w)
  \/ Refuse(d) \/ StatusReads(d) \/ StatusWrites(d) \/ Logout(d) \/ LogoutAll(d)
  \/ SetPassphrase(d) \/ Busy(d) \/ LoginWrong(d) \/ LoginRight(d)

AccessNext ==
  \/ \E d \in Device : AccessStep(d)
  \/ PurgeExpired \/ TimePasses \/ RestartServer

----------------------------------------------------------------------------
(* "Use after losing a phone" (main.py:171), "a changed passphrase logs every
   device out" (auth.py:53): a session that was ended stays ended, whatever
   requests were under way, and slides its expiry in vain. *)
SignedOutStaysOut == ended \cap DOMAIN session = {}

\* "failed logins are rate-limited per client" (auth.py:11): whenever its guesses
\* come, twice the limit of them take at least as long as a lockout.
GuessesAreBounded ==
  \A d \in Device : \A i, j \in DOMAIN guessed[d] :
    j + 1 >= i + 2 * MaxFailures => guessed[d][i] + Lockout <= guessed[d][j]
=============================================================================
