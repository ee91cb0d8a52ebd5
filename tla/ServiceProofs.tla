---------------------------- MODULE ServiceProofs ----------------------------
(***************************************************************************)
(* What the parts beside the pipeline promise, for every value of their    *)
(* constants: who may use the server, what a page is told of a run, when   *)
(* scans start and what they find.  Each part is proved about its own      *)
(* steps, then carried to Service, where the parts stand side by side.     *)
(***************************************************************************)
EXTENDS Service, SequenceTheorems, FiniteSetTheorems, TLAPS

----------------------------------------------------------------------------
(* Access: a session that was ended *)

\* touch_session never brings a row back, whoever writes, and however late.
LEMMA TouchAddsNothing ==
  ASSUME NEW t, session' \in Touched(t)
  PROVE  DOMAIN session' \subseteq DOMAIN session
BY DEF Touched, Slide, Drop

\* The requests of one device.
LEMMA DeviceKeepsEnded ==
  ASSUME SignedOutStaysOut, NEW d \in Device, AccessStep(d)
  PROVE  SignedOutStaysOut'
<1> USE DEF SignedOutStaysOut
<1>1. ASSUME NEW w, Admit(d, w) PROVE SignedOutStaysOut'
  BY <1>1, TouchAddsNothing DEF Admit
<1>2. CASE Refuse(d)
  BY <1>2, TouchAddsNothing DEF Refuse
<1>3. CASE StatusReads(d) \/ Busy(d) \/ LoginWrong(d)
  BY <1>3 DEF StatusReads, Busy, LoginWrong
<1>4. CASE StatusWrites(d)
  BY <1>4 DEF StatusWrites, Slide, Drop
<1>5. CASE Logout(d) \/ LogoutAll(d) \/ SetPassphrase(d)
  \* What these add to `ended` they take out of the table in the same transaction.
  <2>1. CASE Logout(d)
    BY <2>1 DEF Logout, Drop
  <2>2. CASE LogoutAll(d)
    <3>1. DOMAIN session' = {}
      BY <2>2 DEF LogoutAll
    <3> QED
      BY <3>1
  <2>3. CASE SetPassphrase(d)
    <3>1. DOMAIN session' = {} \/ UNCHANGED <<session, ended>>
      BY <2>3 DEF SetPassphrase
    <3> QED
      BY <3>1
  <2> QED
    BY <1>5, <2>1, <2>2, <2>3
<1>6. CASE LoginRight(d)
  \* The token of a log-in is none of those that were ended.
  BY <1>6 DEF LoginRight, Made
<1> QED
  BY <1>1, <1>2, <1>3, <1>4, <1>5, <1>6 DEF AccessStep

\* Every step of the sessions' part; PurgeExpired, on the scheduler's thread, only
\* removes rows.
LEMMA AccessKeepsEnded ==
  SignedOutStaysOut /\ AccessNext => SignedOutStaysOut'
<1> SUFFICES ASSUME SignedOutStaysOut, AccessNext PROVE SignedOutStaysOut'
  OBVIOUS
<1>1. CASE PurgeExpired \/ TimePasses \/ RestartServer
  BY <1>1 DEF PurgeExpired, TimePasses, RestartServer, SignedOutStaysOut
<1> QED
  BY <1>1, DeviceKeepsEnded DEF AccessNext

\* "Use after losing a phone" (main.py:171): a token whose session was ended by a
\* log-out, by "log out everywhere" or by a changed passphrase has no session ever
\* again, though requests let in before are still under way and a thread may write
\* the expiry it read before.
THEOREM SignedOutForGood == ServiceSpec => []SignedOutStaysOut
<1>1. ServiceInit => SignedOutStaysOut
  BY DEF ServiceInit, AccessInit, SignedOutStaysOut
<1>2. SignedOutStaysOut /\ [ServiceNext]_serviceVars => SignedOutStaysOut'
  BY AccessKeepsEnded DEF ServiceNext, Moves, serviceVars, accessVars, SignedOutStaysOut
<1> QED
  BY <1>1, <1>2, PTL DEF ServiceSpec

----------------------------------------------------------------------------
(* Access: types *)

LEMMA AccessConstants ==
  /\ SessionTtl \in Nat /\ SessionTtl > 0 /\ Lockout \in Nat /\ Lockout > 0
  /\ MaxFailures \in Nat /\ MaxFailures > 0
  /\ MaxTokens \in Nat /\ MaxChanges \in Nat /\ MaxChanges > 0 /\ MaxTime \in Nat
BY AccessAssumption

Expiry == 0 .. MaxTime + SessionTtl

\* A table of sessions: tokens that have a row, and when each expires.
Table(s) == DOMAIN s \subseteq Token /\ \A t \in DOMAIN s : s[t] \in Expiry

Request == [what : {"none", "logout", "logoutAll", "setPassphrase", "status", "slide", "reap"},
            token : {0} \cup Token, at : 0 .. MaxTime]
Cookie  == [token : {0} \cup Token, until : Expiry]
Failure == [n : 0 .. MaxFailures, first : 0 .. MaxTime]

LEMMA TableSteps ==
  ASSUME NEW s, Table(s)
  PROVE  /\ \A tokens : Table(Drop(s, tokens))
         /\ \A t, at : at \in 0 .. MaxTime => Table(Slide(s, t, at))
<1>1. ASSUME NEW tokens
      PROVE  Table(Drop(s, tokens))
  BY DEF Table, Drop
<1>2. ASSUME NEW t, NEW at, at \in 0 .. MaxTime
      PROVE  Table(Slide(s, t, at))
  BY <1>2, AccessConstants DEF Table, Slide, Expiry
<1> QED
  BY <1>1, <1>2

LEMMA TouchedTyped ==
  ASSUME Table(session), clock \in 0 .. MaxTime, NEW t, session' \in Touched(t)
  PROVE  Table(session')
BY TableSteps DEF Touched

LEMMA EmptyTyped ==
  /\ NoCookie \in Cookie /\ NoRequest \in Request /\ NoFailure \in Failure
  /\ Table(<<>>)
BY AccessConstants DEF NoCookie, NoRequest, NoFailure, Cookie, Request, Failure, Table, Expiry

\* The type invariant in the names above.
AccessTyped ==
  /\ clock \in 0 .. MaxTime /\ passphrase \in 0 .. MaxChanges
  /\ Table(session) /\ ended \subseteq Token
  /\ cookie \in [Device -> Cookie] /\ request \in [Device -> Request]
  /\ failures \in [Device -> Failure] /\ guessed \in [Device -> Seq(0 .. MaxTime)]

LEMMA AccessTypedIs == AccessTyped <=> AccessTypeOK
BY DEF AccessTyped, AccessTypeOK, Table, Cookie, Request, Failure, Expiry

LEMMA AccessTypedInit == AccessInit => AccessTyped
<1> SUFFICES ASSUME AccessInit PROVE AccessTyped
  OBVIOUS
<1>1. passphrase \in 0 .. MaxChanges /\ clock \in 0 .. MaxTime /\ ended \subseteq Token
  BY AccessConstants DEF AccessInit
<1>2. /\ cookie \in [Device -> Cookie] /\ request \in [Device -> Request]
      /\ failures \in [Device -> Failure]
  BY EmptyTyped DEF AccessInit
<1>3. guessed \in [Device -> Seq(0 .. MaxTime)] /\ Table(session)
  BY EmptyTyped DEF AccessInit
<1> QED
  BY <1>1, <1>2, <1>3 DEF AccessTyped

LEMMA AccessTypedDevice ==
  ASSUME AccessTyped, NEW d \in Device, AccessStep(d)
  PROVE  AccessTyped'
<1>0. /\ cookie[d] \in Cookie /\ request[d] \in Request /\ failures[d] \in Failure
      /\ clock \in 0 .. MaxTime /\ Table(session)
  BY DEF AccessTyped
<1>1. ASSUME NEW r \in Request, Goes(d, r)
      PROVE  request' \in [Device -> Request]
  BY <1>1 DEF Goes, AccessTyped
<1>2. ASSUME NEW w \in {"page", "logout", "logoutAll", "setPassphrase", "status"}, Admit(d, w)
      PROVE  AccessTyped'
  <2>1. Table(session')
    BY <1>0, <1>2, TouchedTyped DEF Admit
  <2> DEFINE r == IF w = "page" THEN NoRequest
                  ELSE [NoRequest EXCEPT !.what = w,
                          !.token = IF w \in {"logout", "status"} THEN cookie[d].token ELSE 0]
  <2>2. r \in Request
    BY <1>0, EmptyTyped DEF Request, Cookie
  <2>3. Goes(d, r)
    BY <1>2 DEF Admit
  <2> HIDE DEF r
  <2>4. request' \in [Device -> Request]
    BY <1>1, <2>2, <2>3
  <2> QED
    BY <1>2, <2>1, <2>4 DEF Admit, AccessTyped
<1>3. CASE Refuse(d)
  BY <1>0, <1>3, TouchedTyped DEF Refuse, AccessTyped
<1>4. CASE StatusReads(d)
  <2> DEFINE r == IF request[d].token \notin DOMAIN session THEN NoRequest
                  ELSE [what |-> IF Live(request[d].token) THEN "slide" ELSE "reap",
                        token |-> request[d].token, at |-> clock]
  <2>1. r \in Request
    BY <1>0, EmptyTyped DEF Request
  <2>2. Goes(d, r)
    BY <1>4 DEF StatusReads
  <2> HIDE DEF r
  <2>3. request' \in [Device -> Request]
    BY <1>1, <2>1, <2>2
  <2> QED
    BY <1>4, <2>3 DEF StatusReads, AccessTyped
<1>5. CASE StatusWrites(d)
  <2>1. Table(session')
    BY <1>0, <1>5, TableSteps DEF StatusWrites, Request
  <2>2. request' \in [Device -> Request]
    BY <1>1, <1>5, EmptyTyped DEF StatusWrites
  <2> QED
    BY <1>5, <2>1, <2>2 DEF StatusWrites, AccessTyped
<1>6. CASE Logout(d) \/ LogoutAll(d)
  <2>1. Table(session') /\ ended' \subseteq Token
    BY <1>0, <1>6, TableSteps, EmptyTyped DEF Logout, LogoutAll, AccessTyped, Table
  <2>2. cookie' \in [Device -> Cookie] /\ request' \in [Device -> Request]
    BY <1>1, <1>6, EmptyTyped DEF Logout, LogoutAll, AccessTyped
  <2> QED
    BY <1>6, <2>1, <2>2 DEF Logout, LogoutAll, AccessTyped
<1>7. CASE SetPassphrase(d)
  <2>1. Table(session') /\ ended' \subseteq Token
    BY <1>0, <1>7, EmptyTyped DEF SetPassphrase, AccessTyped, Table
  <2>2. passphrase' \in 0 .. MaxChanges /\ request' \in [Device -> Request]
    BY <1>1, <1>7, EmptyTyped, AccessConstants DEF SetPassphrase, AccessTyped
  <2> QED
    BY <1>7, <2>1, <2>2 DEF SetPassphrase, AccessTyped
<1>8. CASE Busy(d)
  <2>1. request' \in [Device -> Request]
    BY <1>1, <1>8, EmptyTyped DEF Busy
  <2> QED
    BY <1>8, <2>1 DEF Busy, AccessTyped
<1>9. CASE LoginWrong(d)
  <2>1. Counted(Forgiven(d)) \in Failure
    <3> DEFINE f == Forgiven(d)
    <3>1. f \in Failure /\ (f.n < MaxFailures)
      BY <1>0, AccessConstants, EmptyTyped DEF Forgiven, NoFailure, Failure
    <3>2. f.n \in 0 .. MaxFailures /\ clock \in 0 .. MaxTime /\ MaxFailures \in Nat \ {0}
      BY <1>0, <3>1, AccessConstants DEF Failure
    <3> HIDE DEF f
    <3>3. [n |-> 1, first |-> clock] \in Failure
      BY <3>2 DEF Failure
    <3>4. f.n + 1 \in 0 .. MaxFailures
      BY <3>1, <3>2
    <3>5. [f EXCEPT !.n = @ + 1] \in Failure
      BY <3>1, <3>4 DEF Failure
    <3>6. Counted(f) \in {[n |-> 1, first |-> clock], [f EXCEPT !.n = @ + 1]}
      BY DEF Counted
    <3>7. Counted(f) \in Failure
      BY <3>3, <3>5, <3>6
    <3> QED
      BY <3>7 DEF f
  <2>2. failures' \in [Device -> Failure]
    BY <1>9, <2>1 DEF LoginWrong, AccessTyped
  <2>3. Append(guessed[d], clock) \in Seq(0 .. MaxTime)
    BY <1>0 DEF AccessTyped
  <2>4. guessed' \in [Device -> Seq(0 .. MaxTime)]
    BY <1>9, <2>3 DEF LoginWrong, AccessTyped
  <2> QED
    BY <1>9, <2>2, <2>4 DEF LoginWrong, AccessTyped
<1>10. CASE LoginRight(d)
  <2>1. PICK t \in Token \ Made :
               /\ session' = [u \in DOMAIN session \cup {t} |->
                                IF u = t THEN clock + SessionTtl ELSE session[u]]
               /\ cookie' = [cookie EXCEPT ![d] = [token |-> t, until |-> clock + SessionTtl]]
    BY <1>10 DEF LoginRight
  <2>2. clock + SessionTtl \in Expiry
    BY <1>0, AccessConstants DEF Expiry
  <2>3. Table(session')
    BY <1>0, <2>1, <2>2 DEF Table
  <2>4. [token |-> t, until |-> clock + SessionTtl] \in Cookie
    BY <2>2 DEF Cookie
  <2>5. cookie' \in [Device -> Cookie]
    BY <2>1, <2>4 DEF AccessTyped
  <2>6. failures' \in [Device -> Failure] /\ guessed' \in [Device -> Seq(0 .. MaxTime)]
    BY <1>10, EmptyTyped DEF LoginRight, AccessTyped
  <2> QED
    BY <1>10, <2>3, <2>5, <2>6 DEF LoginRight, AccessTyped
<1> QED
  BY <1>2, <1>3, <1>4, <1>5, <1>6, <1>7, <1>8, <1>9, <1>10 DEF AccessStep

LEMMA AccessTypedNext ==
  ASSUME AccessTyped, AccessNext
  PROVE  AccessTyped'
<1>1. CASE PurgeExpired
  BY <1>1 DEF PurgeExpired, AccessTyped, Table
<1>2. CASE TimePasses
  <2>1. cookie' \in [Device -> Cookie]
    BY <1>2, EmptyTyped DEF TimePasses, AccessTyped
  <2> QED
    BY <1>2, <2>1, AccessConstants DEF TimePasses, AccessTyped
<1>3. CASE RestartServer
  <2>1. /\ request' \in [Device -> Request] /\ failures' \in [Device -> Failure]
        /\ guessed' \in [Device -> Seq(0 .. MaxTime)]
    BY <1>3, EmptyTyped DEF RestartServer
  <2> QED
    BY <1>3, <2>1 DEF RestartServer, AccessTyped
<1> QED
  BY <1>1, <1>2, <1>3, AccessTypedDevice DEF AccessNext

----------------------------------------------------------------------------
(* Access: guesses *)

\* Guesses G of a client whose failures are f, at time c: those of the window that
\* is open are the last f.n; the limit of guesses before them came a lockout earlier.
GuessesFit(G, f, c) ==
  /\ f.n <= Len(G) /\ (f.n = 0 => Len(G) = 0)
  /\ \A i, j \in 1 .. Len(G) : i <= j => G[i] <= G[j]
  /\ \A i \in 1 .. Len(G) : G[i] <= c
  /\ f.n > 0 => /\ G[Len(G) - f.n + 1] = f.first
                /\ \A i \in 1 .. Len(G) - f.n + 1 - MaxFailures : G[i] + Lockout <= f.first
  /\ \A i, j \in 1 .. Len(G) : j + 1 >= i + 2 * MaxFailures => G[i] + Lockout <= G[j]

GuessInv == \A d \in Device : GuessesFit(guessed[d], failures[d], clock)

LEMMA NoGuesses ==
  ASSUME NEW c
  PROVE  GuessesFit(<<>>, NoFailure, c)
BY DEF GuessesFit, NoFailure

\* One more guess, in the window that is open or the first of the next.
LEMMA OneMoreGuess ==
  ASSUME AccessTyped, NEW d \in Device, LoginWrong(d), GuessesFit(guessed[d], failures[d], clock)
  PROVE  GuessesFit(Append(guessed[d], clock), Counted(Forgiven(d)), clock)
<1> DEFINE G == guessed[d]
           f == failures[d]
           H == Append(guessed[d], clock)
           g == Counted(Forgiven(d))
           L == Len(guessed[d])
<1>1. /\ L \in Nat /\ Len(H) = L + 1 /\ H[L + 1] = clock
      /\ \A i \in 1 .. L : H[i] = G[i] /\ G[i] \in Nat
      /\ f \in [n : 0 .. MaxFailures, first : 0 .. MaxTime] /\ clock \in Nat
      /\ MaxFailures \in Nat /\ MaxFailures > 0 /\ Lockout \in Nat /\ MaxTime \in Nat
  BY AccessConstants DEF AccessTyped, Failure
<1>2. /\ f.n \in 0 .. MaxFailures /\ f.first \in 0 .. MaxTime
      /\ f.n <= L /\ (f.n = 0 => L = 0)
      /\ \A i, j \in 1 .. L : i <= j => G[i] <= G[j]
      /\ \A i \in 1 .. L : G[i] <= clock
      /\ f.n > 0 => /\ G[L - f.n + 1] = f.first
                    /\ \A i \in 1 .. L - f.n + 1 - MaxFailures : G[i] + Lockout <= f.first
      /\ \A i, j \in 1 .. L : j + 1 >= i + 2 * MaxFailures => G[i] + Lockout <= G[j]
  BY <1>1 DEF GuessesFit
<1>3. \/ /\ g = [n |-> 1, first |-> clock]
         /\ f.n > 0 => f.first + Lockout <= clock
      \/ /\ f.n > 0 /\ f.n < MaxFailures
         /\ g.n = f.n + 1 /\ g.first = f.first /\ f.first <= clock
  <2>1. ~(f.n >= MaxFailures /\ f.first + Lockout > clock)
    BY DEF LoginWrong, LockedOut
  <2>2. CASE f.n >= MaxFailures
    <3>1. Forgiven(d) = NoFailure
      BY <2>2 DEF Forgiven
    <3>2. g = [n |-> 1, first |-> clock]
      BY <3>1 DEF Counted, NoFailure
    <3> QED
      BY <1>1, <1>2, <2>1, <2>2, <3>2
  <2>3. CASE f.n < MaxFailures
    <3>1. Forgiven(d) = f
      BY <1>1, <1>2, <2>3 DEF Forgiven
    <3>2. CASE f.n = 0 \/ f.first + Lockout < clock
      <4>1. g = [n |-> 1, first |-> clock]
        BY <3>1, <3>2 DEF Counted
      <4> HIDE DEF f, g
      <4> QED
        BY <1>1, <1>2, <3>2, <4>1
    <3>3. CASE ~(f.n = 0 \/ f.first + Lockout < clock)
      <4>1. g = [f EXCEPT !.n = @ + 1]
        BY <3>1, <3>3 DEF Counted
      <4>2. g.n = f.n + 1 /\ g.first = f.first
        BY <1>1, <4>1
      <4>3. f.first <= clock
        <5>1. L - f.n + 1 \in 1 .. L /\ f.n > 0
          <6>1. L \in Nat /\ f.n \in 0 .. MaxFailures /\ f.n # 0 /\ f.n <= L
            BY <1>1, <1>2, <3>3
          <6> HIDE DEF f, L
          <6> QED
            BY <6>1
        <5> QED
          BY <1>2, <5>1
      <4>4. f.n > 0
        <5> HIDE DEF f
        <5> QED
          BY <1>2, <3>3
      <4> QED
        BY <2>3, <4>2, <4>3, <4>4
    <3> QED
      BY <3>2, <3>3
  <2> QED
    BY <1>1, <1>2, <2>2, <2>3
<1> SUFFICES GuessesFit(H, g, clock)
  OBVIOUS
<1> HIDE DEF G, f, H, g, L
<1>5. \A i \in 1 .. L + 1 : H[i] <= clock
  <2> SUFFICES ASSUME NEW i \in 1 .. L + 1 PROVE H[i] <= clock
    OBVIOUS
  <2>1. i \in 1 .. L \/ i = L + 1
    BY <1>1
  <2>2. CASE i \in 1 .. L
    <3>1. H[i] = G[i]
      BY <1>1, <2>2
    <3>2. G[i] <= clock
      BY <1>2, <2>2
    <3> QED
      BY <3>1, <3>2
  <2>3. CASE i = L + 1
    BY <1>1, <2>3
  <2> QED
    BY <2>1, <2>2, <2>3
<1>4. \A i, j \in 1 .. L + 1 : i <= j => H[i] <= H[j]
  <2> SUFFICES ASSUME NEW i \in 1 .. L + 1, NEW j \in 1 .. L + 1, i <= j PROVE H[i] <= H[j]
    OBVIOUS
  <2>1. CASE j = L + 1
    BY <1>1, <1>5, <2>1
  <2>2. CASE j # L + 1
    <3>1. i \in 1 .. L /\ j \in 1 .. L
      BY <1>1, <2>2
    <3>2. H[i] = G[i] /\ H[j] = G[j] /\ G[i] <= G[j]
      BY <1>1, <1>2, <3>1
    <3> QED
      BY <3>2
  <2> QED
    BY <2>1, <2>2
<1>6. CASE g = [n |-> 1, first |-> clock] /\ (f.n > 0 => f.first + Lockout <= clock)
  <2>1. g.n = 1 /\ g.first = clock
    BY <1>6
  <2>2. \A i \in 1 .. L + 1 - MaxFailures : H[i] + Lockout <= clock
    <3> SUFFICES ASSUME NEW i \in 1 .. L + 1 - MaxFailures PROVE H[i] + Lockout <= clock
      OBVIOUS
    <3>1. L > 0 /\ f.n > 0 /\ i \in 1 .. L /\ L - f.n + 1 \in 1 .. L /\ i <= L - f.n + 1
      BY <1>1, <1>2
    <3>2. G[i] <= f.first
      <4>1. G[i] <= G[L - f.n + 1]
        BY <1>2, <3>1
      <4>2. G[L - f.n + 1] = f.first
        BY <1>2, <3>1
      <4> QED
        BY <4>1, <4>2
    <3>3. G[i] \in Nat /\ H[i] = G[i]
      BY <1>1, <3>1
    <3>4. f.first \in Nat /\ Lockout \in Nat /\ clock \in Nat /\ f.first + Lockout <= clock
      BY <1>1, <1>6, <3>1
    <3> QED
      BY <3>2, <3>3, <3>4
  <2>3. \A i, j \in 1 .. L + 1 : j + 1 >= i + 2 * MaxFailures => H[i] + Lockout <= H[j]
    <3> SUFFICES ASSUME NEW i \in 1 .. L + 1, NEW j \in 1 .. L + 1, j + 1 >= i + 2 * MaxFailures
                 PROVE  H[i] + Lockout <= H[j]
      OBVIOUS
    <3>1. CASE j = L + 1
      <4>1. i \in 1 .. L + 1 - MaxFailures
        BY <1>1, <3>1
      <4> QED
        BY <1>1, <2>2, <3>1, <4>1
    <3>2. CASE j # L + 1
      <4>1. j \in 1 .. L /\ i \in 1 .. L
        BY <1>1, <3>2
      <4> QED
        BY <1>1, <1>2, <4>1
    <3> QED
      BY <3>1, <3>2
  <2> QED
    BY <1>1, <1>4, <1>5, <2>1, <2>2, <2>3 DEF GuessesFit
<1>7. CASE /\ f.n > 0 /\ f.n < MaxFailures
           /\ g.n = f.n + 1 /\ g.first = f.first /\ f.first <= clock
  <2>1. L + 1 - g.n + 1 = L - f.n + 1 /\ L - f.n + 1 \in 1 .. L
    BY <1>1, <1>2, <1>7
  <2>2. H[L + 1 - g.n + 1] = g.first
    BY <1>1, <1>2, <1>7, <2>1
  <2>3. \A i \in 1 .. L + 1 - g.n + 1 - MaxFailures : H[i] + Lockout <= g.first
    <3> SUFFICES ASSUME NEW i \in 1 .. L + 1 - g.n + 1 - MaxFailures
                 PROVE  H[i] + Lockout <= g.first
      OBVIOUS
    <3>1. i \in 1 .. L - f.n + 1 - MaxFailures /\ i \in 1 .. L
      BY <1>1, <1>2, <1>7
    <3> QED
      BY <1>1, <1>2, <1>7, <3>1
  <2>4. \A i, j \in 1 .. L + 1 : j + 1 >= i + 2 * MaxFailures => H[i] + Lockout <= H[j]
    <3> SUFFICES ASSUME NEW i \in 1 .. L + 1, NEW j \in 1 .. L + 1, j + 1 >= i + 2 * MaxFailures
                 PROVE  H[i] + Lockout <= H[j]
      OBVIOUS
    <3>1. CASE j = L + 1
      <4>1. i \in 1 .. L + 1 - g.n + 1 - MaxFailures /\ i \in 1 .. L
        BY <1>1, <1>2, <1>7, <3>1
      <4>2. H[i] + Lockout <= g.first /\ H[i] \in Nat
        BY <1>1, <2>3, <4>1
      <4> QED
        BY <1>1, <1>2, <1>7, <3>1, <4>2
    <3>2. CASE j # L + 1
      <4>1. j \in 1 .. L /\ i \in 1 .. L
        BY <1>1, <3>2
      <4> QED
        BY <1>1, <1>2, <4>1
    <3> QED
      BY <3>1, <3>2
  <2>5. g.n <= L + 1 /\ g.n # 0
    BY <1>1, <1>2, <1>7
  <2> QED
    <3>1. Len(H) = L + 1
      BY <1>1
    <3>2. /\ g.n <= Len(H) /\ g.n # 0
          /\ H[Len(H) - g.n + 1] = g.first
          /\ \A i \in 1 .. Len(H) - g.n + 1 - MaxFailures : H[i] + Lockout <= g.first
      <4>1. L \in Nat /\ g.n \in Nat /\ MaxFailures \in Nat
        BY <1>1, <1>2, <1>7
      <4>2. Len(H) - g.n + 1 = L + 1 - g.n + 1 /\ g.n <= Len(H)
        BY <2>5, <3>1, <4>1
      <4>3. H[Len(H) - g.n + 1] = g.first
        BY <2>2, <4>2
      <4>4. 1 .. Len(H) - g.n + 1 - MaxFailures = 1 .. L + 1 - g.n + 1 - MaxFailures
        BY <3>1, <4>1
      <4>5. \A i \in 1 .. Len(H) - g.n + 1 - MaxFailures : H[i] + Lockout <= g.first
        BY <2>3, <4>4, Zenon
      <4> QED
        BY <2>5, <4>2, <4>3, <4>5
    <3>3. /\ \A i, j \in 1 .. Len(H) : i <= j => H[i] <= H[j]
          /\ \A i \in 1 .. Len(H) : H[i] <= clock
          /\ \A i, j \in 1 .. Len(H) : j + 1 >= i + 2 * MaxFailures => H[i] + Lockout <= H[j]
      BY <1>4, <1>5, <2>4, <3>1
    <3> QED
      BY <3>2, <3>3 DEF GuessesFit
<1> QED
  BY <1>3, <1>6, <1>7

LEMMA GuessNext ==
  ASSUME AccessTyped, GuessInv, AccessNext
  PROVE  GuessInv'
<1>0. \A d \in Device : GuessesFit(guessed[d], failures[d], clock)
  BY DEF GuessInv
<1>1. ASSUME NEW d \in Device, AccessStep(d)
      PROVE  GuessInv'
  <2>1. CASE LoginWrong(d)
    <3>1. GuessesFit(Append(guessed[d], clock), Counted(Forgiven(d)), clock)
      BY <1>0, <2>1, OneMoreGuess
    <3>2. /\ guessed'[d] = Append(guessed[d], clock) /\ failures'[d] = Counted(Forgiven(d))
          /\ \A e \in Device \ {d} : guessed'[e] = guessed[e] /\ failures'[e] = failures[e]
          /\ clock' = clock
      BY <2>1 DEF LoginWrong, AccessTyped
    <3> QED
      BY <1>0, <3>1, <3>2 DEF GuessInv
  <2>2. CASE LoginRight(d)
    <3>1. /\ guessed'[d] = <<>> /\ failures'[d] = NoFailure
          /\ \A e \in Device \ {d} : guessed'[e] = guessed[e] /\ failures'[e] = failures[e]
          /\ clock' = clock
      BY <2>2 DEF LoginRight, AccessTyped
    <3> QED
      BY <1>0, <3>1, NoGuesses DEF GuessInv
  <2>3. CASE UNCHANGED <<guessed, failures, clock>>
    BY <1>0, <2>3 DEF GuessInv
  <2> QED
    BY <1>1, <2>1, <2>2, <2>3 DEF AccessStep, Admit, Refuse, StatusReads, StatusWrites, Logout,
       LogoutAll, SetPassphrase, Busy
<1>2. CASE PurgeExpired
  BY <1>0, <1>2 DEF PurgeExpired, GuessInv
<1>3. CASE TimePasses
  <2>1. guessed' = guessed /\ failures' = failures /\ clock' = clock + 1 /\ clock \in Nat
    BY <1>3, AccessConstants DEF TimePasses, AccessTyped
  <2>2. ASSUME NEW d \in Device
        PROVE  GuessesFit(guessed[d], failures[d], clock + 1)
    <3>1. \A i \in 1 .. Len(guessed[d]) : guessed[d][i] \in Nat
      BY AccessConstants DEF AccessTyped
    <3> QED
      BY <1>0, <2>1, <3>1 DEF GuessesFit
  <2> QED
    BY <2>1, <2>2 DEF GuessInv
<1>4. CASE RestartServer
  BY <1>4, NoGuesses DEF RestartServer, GuessInv
<1> QED
  BY <1>1, <1>2, <1>3, <1>4 DEF AccessNext

LEMMA GuessesAlways == ServiceSpec => [](AccessTyped /\ GuessInv)
<1> DEFINE Inv == AccessTyped /\ GuessInv
<1>1. ServiceInit => Inv
  <2> SUFFICES ASSUME ServiceInit PROVE Inv
    OBVIOUS
  <2>1. AccessInit
    BY DEF ServiceInit
  <2>2. GuessInv
    BY <2>1, NoGuesses DEF AccessInit, GuessInv
  <2> QED
    BY <2>1, <2>2, AccessTypedInit
<1>2. Inv /\ [ServiceNext]_serviceVars => Inv'
  <2> SUFFICES ASSUME Inv, [ServiceNext]_serviceVars PROVE Inv'
    OBVIOUS
  <2>1. CASE AccessNext
    BY <2>1, AccessTypedNext, GuessNext
  <2>2. CASE UNCHANGED accessVars
    BY <2>2 DEF accessVars, AccessTyped, GuessInv
  <2> QED
    BY <2>1, <2>2 DEF ServiceNext, Moves, serviceVars
<1> QED
  BY <1>1, <1>2, PTL DEF ServiceSpec

\* "failed logins are rate-limited per client" (auth.py:11): however its guesses are
\* timed, two limits of them take at least as long as a lockout.
THEOREM GuessesTakeTime == ServiceSpec => []GuessesAreBounded
<1>1. AccessTyped /\ GuessInv => GuessesAreBounded
  <2> SUFFICES ASSUME AccessTyped, GuessInv, NEW d \in Device
               PROVE  \A i, j \in DOMAIN guessed[d] :
                        j + 1 >= i + 2 * MaxFailures => guessed[d][i] + Lockout <= guessed[d][j]
    BY DEF GuessesAreBounded
  <2>1. DOMAIN guessed[d] = 1 .. Len(guessed[d])
    <3>1. guessed[d] \in Seq(0 .. MaxTime)
      BY DEF AccessTyped
    <3> QED
      BY <3>1
  <2>2. GuessesFit(guessed[d], failures[d], clock)
    BY DEF GuessInv
  <2> QED
    BY <2>1, <2>2 DEF GuessesFit
<1> QED
  BY <1>1, GuessesAlways, PTL

----------------------------------------------------------------------------
(* Stream: the ids of a set in order *)

Ascending(s) == \A k, l \in 1 .. Len(s) : k < l => s[k] < s[l]

\* How many of a finite set of numbers are smaller: no two have as many, and for every
\* number there can be, one has as many.
LEMMA Places ==
  ASSUME NEW ids \in SUBSET Nat, IsFiniteSet(ids)
  PROVE  /\ Cardinality(ids) \in Nat
         /\ \A i \in ids : Place(i, ids) \in 1 .. Cardinality(ids)
         /\ \A i, j \in ids : i < j => Place(i, ids) < Place(j, ids)
         /\ \A k \in 1 .. Cardinality(ids) : \E i \in ids : Place(i, ids) = k
<1> DEFINE n == Cardinality(ids)
           Below(i) == {j \in ids : j < i}
           place == [i \in ids |-> Place(i, ids)]
<1>0. \A i \in ids : i \in Nat
  OBVIOUS
<1>1. n \in Nat
  BY FS_CardinalityType
<1>2. \A i : IsFiniteSet(Below(i)) /\ Cardinality(Below(i)) \in Nat
  BY FS_Subset, FS_CardinalityType
<1>3. \A i : Place(i, ids) = Cardinality(Below(i)) + 1
  BY DEF Place
<1>4. ASSUME NEW i \in ids
      PROVE  Place(i, ids) \in 1 .. n
  <2>1. Cardinality(Below(i)) <= n /\ (n = Cardinality(Below(i)) => ids = Below(i))
    BY FS_Subset
  <2>2. ids # Below(i)
    OBVIOUS
  <2> HIDE DEF n, Below
  <2> QED
    BY <1>1, <1>2, <1>3, <2>1, <2>2
<1>5. ASSUME NEW i \in ids, NEW j \in ids, i < j
      PROVE  Place(i, ids) < Place(j, ids)
  <2>0. (\A x \in ids : x < i => x < j) /\ ~(i < i)
    BY <1>0, <1>5
  <2>1. Below(i) \subseteq Below(j) /\ i \in Below(j) /\ i \notin Below(i)
    BY <1>5, <2>0
  <2> HIDE DEF Below
  <2>2. Cardinality(Below(i)) <= Cardinality(Below(j))
        /\ (Cardinality(Below(j)) = Cardinality(Below(i)) => Below(j) = Below(i))
    BY <1>2, <2>1, FS_Subset
  <2>3. Cardinality(Below(i)) # Cardinality(Below(j))
    BY <2>1, <2>2
  <2> QED
    BY <1>2, <1>3, <2>2, <2>3
<1>6. place \in Injection(ids, 1 .. n)
  <2>1. place \in [ids -> 1 .. n]
    BY <1>4
  <2>2. \A i, j \in ids : i # j => place[i] # place[j]
    <3>1. \A i, j \in ids : i # j => i < j \/ j < i
      OBVIOUS
    <3>2. \A i \in ids : Place(i, ids) \in Nat
      BY <1>1, <1>4
    <3> QED
      BY <1>5, <3>1, <3>2
  <2> QED
    BY <2>1, <2>2 DEF Injection, IsInjective
<1>7. IsFiniteSet(1 .. n) /\ Cardinality(1 .. n) = n
  BY <1>1, FS_Interval
<1>8. place \in Surjection(ids, 1 .. n)
  BY <1>6, <1>7, FS_Injection
<1>9. \A k \in 1 .. n : \E i \in ids : Place(i, ids) = k
  BY <1>8 DEF Surjection
<1> QED
  BY <1>1, <1>4, <1>5, <1>9

LEMMA InOrderIs ==
  ASSUME NEW ids \in SUBSET Nat, IsFiniteSet(ids)
  PROVE  /\ InOrder(ids) \in Seq(ids) /\ Len(InOrder(ids)) = Cardinality(ids)
         /\ Cardinality(ids) \in Nat
         /\ Ascending(InOrder(ids))
         /\ \A i \in ids : \E k \in 1 .. Len(InOrder(ids)) : InOrder(ids)[k] = i
         /\ \A k \in 1 .. Len(InOrder(ids)) : Place(InOrder(ids)[k], ids) = k
<1> DEFINE n == Cardinality(ids)
           s == InOrder(ids)
<1>1. /\ n \in Nat
      /\ \A i \in ids : Place(i, ids) \in 1 .. n
      /\ \A i, j \in ids : i < j => Place(i, ids) < Place(j, ids)
      /\ \A k \in 1 .. n : \E i \in ids : Place(i, ids) = k
  BY Places
<1>2. s = [k \in 1 .. n |-> CHOOSE i \in ids : Place(i, ids) = k]
  BY DEF InOrder
<1>3. \A k \in 1 .. n : s[k] \in ids /\ Place(s[k], ids) = k
  BY <1>1, <1>2
<1>4. s \in [1 .. n -> ids]
  BY <1>2, <1>3
<1>0. \A i \in ids : i \in Nat
  OBVIOUS
<1> HIDE DEF s, n
<1>5. s \in Seq(ids) /\ Len(s) = n
  BY <1>1, <1>4
<1>6. \A i, j \in ids : Place(i, ids) = Place(j, ids) => i = j
  <2>1. \A i, j \in ids : i # j => i < j \/ j < i
    OBVIOUS
  <2> QED
    BY <1>1, <2>1
<1>7. \A i \in ids : \E k \in 1 .. n : s[k] = i
  BY <1>1, <1>3, <1>6
<1>8. \A k, l \in 1 .. n : k < l => s[k] < s[l]
  <2> SUFFICES ASSUME NEW k \in 1 .. n, NEW l \in 1 .. n, k < l PROVE s[k] < s[l]
    OBVIOUS
  <2>1. s[k] \in ids /\ s[l] \in ids /\ Place(s[k], ids) = k /\ Place(s[l], ids) = l
    BY <1>3
  <2>2. k \in Nat /\ l \in Nat /\ s[k] \in Nat /\ s[l] \in Nat
    <3>1. k \in Nat
      BY <1>1
    <3>2. l \in Nat
      BY <1>1
    <3>3. s[k] \in Nat
      BY <1>0, <2>1
    <3>4. s[l] \in Nat
      BY <1>0, <2>1
    <3> QED
      BY <3>1, <3>2, <3>3, <3>4
  <2>3. s[l] # s[k]
    BY <2>1, <2>2
  <2>4. ~(s[l] < s[k])
    BY <1>1, <2>1, <2>2
  <2> QED
    BY <2>2, <2>3, <2>4
<1> QED
  BY <1>1, <1>3, <1>5, <1>7, <1>8 DEF s, n, Ascending

LEMMA AfterIs ==
  ASSUME log \in Seq({"mine", "other"}), NEW c \in Nat
  PROVE  LET ids == {i \in Mine : i > c} s == After(c)
         IN  /\ ids \in SUBSET Nat /\ IsFiniteSet(ids) /\ s = InOrder(ids)
             /\ s \in Seq(ids) /\ Len(s) = Cardinality(ids) /\ Cardinality(ids) \in Nat
             /\ Ascending(s)
             /\ \A i \in ids : \E k \in 1 .. Len(s) : s[k] = i
             /\ \A k \in 1 .. Len(s) : Place(s[k], ids) = k
<1> DEFINE ids == {i \in Mine : i > c}
<1>1. Len(log) \in Nat
  OBVIOUS
<1>2. IsFiniteSet(1 .. Len(log))
  BY <1>1, FS_Interval
<1>3. ids \subseteq 1 .. Len(log) /\ ids \subseteq Nat
  BY <1>1 DEF Mine
<1>4. IsFiniteSet(ids)
  BY <1>2, <1>3, FS_Subset
<1>5. After(c) = InOrder(ids)
  BY DEF After
<1> HIDE DEF ids
<1>6. /\ InOrder(ids) \in Seq(ids) /\ Len(InOrder(ids)) = Cardinality(ids)
      /\ Cardinality(ids) \in Nat
      /\ Ascending(InOrder(ids))
      /\ \A i \in ids : \E k \in 1 .. Len(InOrder(ids)) : InOrder(ids)[k] = i
      /\ \A k \in 1 .. Len(InOrder(ids)) : Place(InOrder(ids)[k], ids) = k
  BY <1>3, <1>4, InOrderIs
<1> QED
  BY <1>3, <1>4, <1>5, <1>6 DEF ids

----------------------------------------------------------------------------
(* Stream: nothing is left out between what the page has and the cursor *)

\* b is the first id of the run after a.
Follows(a, b) == b \in Mine /\ a < b /\ \A i \in Mine : a < i => b <= i

\* Each of s, from its first on, follows the one before; the first follows a.
Chain(a, s) ==
  \A k \in 1 .. Len(s) : s[k] # End => Follows(IF k = 1 THEN a ELSE s[k - 1], s[k])

\* The last that arrived, or will when nothing is lost.
Sent == IF wire = <<>> THEN Resume ELSE wire[Len(wire)]

StreamTyped ==
  /\ log \in Seq({"mine", "other"}) /\ Len(log) <= MaxEvents
  /\ final \in BOOLEAN /\ over \in BOOLEAN
  /\ server \in [at : {"off", "fetch", "yield", "status", "conclude"},
                 cursor : Nat, rows : Seq(Nat), final : BOOLEAN]
  /\ server.cursor \in 0 .. Len(log)
  /\ server.rows \in Seq(1 .. Len(log)) /\ Len(server.rows) <= PageSize
  /\ wire \in Seq(0 .. Len(log)) /\ got \in Seq(1 .. Len(log))
  /\ drops \in 0 .. MaxDrops /\ promised \in 0 .. Len(log)

\* What the page has handled: the run's ids up to the last one, each once, in order.
GotAll ==
  /\ Ascending(got)
  /\ \A k \in 1 .. Len(got) : got[k] \in Mine
  /\ \A i \in Mine : i <= Resume => Contains(got, i)

\* Nothing of the run that was there when it ended is after id a.
AllPromised(a) == final /\ \A i \in Mine : i <= promised => i <= a

StreamInv ==
  /\ StreamTyped /\ GotAll
  /\ Chain(Resume, wire)
  /\ server.at # "off" => server.cursor = Sent /\ ~Contains(wire, End)
  /\ Chain(server.cursor, server.rows)
  /\ server.final => final
  /\ \A k \in 1 .. Len(wire) : wire[k] = End =>
       k = Len(wire) /\ AllPromised(IF k = 1 THEN Resume ELSE wire[k - 1])
  /\ over => AllPromised(Resume)

LEMMA StreamConstants ==
  PageSize \in Nat /\ PageSize > 0 /\ MaxEvents \in Nat /\ MaxDrops \in Nat
BY StreamAssumption

LEMMA StreamInvInit == StreamInit => StreamInv
<1> SUFFICES ASSUME StreamInit PROVE StreamInv
  OBVIOUS
<1>1. /\ log = <<>> /\ wire = <<>> /\ got = <<>> /\ server = Off
      /\ promised = 0 /\ drops = 0 /\ final = FALSE /\ over = FALSE
  BY DEF StreamInit
<1>2. final \in BOOLEAN /\ over \in BOOLEAN
  BY <1>1
<1>3. /\ server \in [at : {"off", "fetch", "yield", "status", "conclude"},
                      cursor : Nat, rows : Seq(Nat), final : BOOLEAN]
      /\ server.cursor = 0 /\ server.rows = <<>> /\ server.at = "off" /\ server.final = FALSE
  BY <1>1 DEF Off
<1>4. StreamTyped
  BY <1>1, <1>2, <1>3, StreamConstants DEF StreamTyped
<1>5. GotAll
  BY <1>1 DEF GotAll, Ascending, Mine
<1> QED
  BY <1>1, <1>3, <1>4, <1>5 DEF StreamInv, Chain

LEMMA ResumeIs ==
  ASSUME StreamTyped
  PROVE  /\ Resume \in 0 .. Len(log)
         /\ Resume = IF got = <<>> THEN 0 ELSE got[Len(got)]
<1>1. log \in Seq({"mine", "other"}) /\ got \in Seq(1 .. Len(log))
  BY DEF StreamTyped
<1>2. Resume = IF got = <<>> THEN 0 ELSE got[Len(got)]
  BY DEF Resume, Last
<1>3. CASE got = <<>>
  BY <1>1, <1>2, <1>3
<1>4. CASE got # <<>>
  <2>1. Len(got) \in 1 .. Len(got)
    BY <1>1, <1>4
  <2>2. got[Len(got)] \in 1 .. Len(log)
    BY <1>1, <2>1
  <2> QED
    BY <1>1, <1>2, <1>4, <2>2
<1> QED
  BY <1>2, <1>3, <1>4

\* A row that is added comes after all that was there.
LEMMA EmitKeeps ==
  ASSUME StreamInv, NEW whose \in {"mine", "other"}, Emit(whose)
  PROVE  StreamInv'
<1>0. StreamTyped /\ Len(log) \in Nat
  BY DEF StreamInv, StreamTyped
<1>1. log' = Append(log, whose) /\ Len(log) < MaxEvents
      /\ UNCHANGED <<final, server, wire, got, over, drops, promised>>
  BY DEF Emit
<1>2. Len(log') = Len(log) + 1 /\ log' \in Seq({"mine", "other"})
      /\ \A i \in 1 .. Len(log) : log'[i] = log[i]
  BY <1>0, <1>1 DEF StreamTyped
<1>3. Mine \subseteq Mine' /\ Mine \subseteq 1 .. Len(log)
      /\ \A i \in Mine' : i \in Mine \/ i = Len(log) + 1
  BY <1>0, <1>2 DEF Mine
<1>4. Resume' = Resume /\ Sent' = Sent /\ Resume \in 0 .. Len(log)
  BY <1>0, <1>1, ResumeIs DEF Resume, Sent
<1>5. StreamTyped'
  BY <1>0, <1>1, <1>2, StreamConstants DEF StreamTyped
<1>6. GotAll'
  <2>1. Ascending(got)' /\ \A k \in 1 .. Len(got') : got'[k] \in Mine'
    BY <1>1, <1>3 DEF StreamInv, GotAll, Ascending
  <2>2. \A i \in Mine' : i <= Resume => i \in Mine
    BY <1>0, <1>3, <1>4
  <2>3. \A i \in Mine' : i <= Resume' => Contains(got', i)
    BY <1>1, <1>4, <2>2 DEF StreamInv, GotAll
  <2> QED
    BY <2>1, <2>3 DEF GotAll
<1>7. \A a, b : Follows(a, b) => b \in Mine' /\ a < b /\ \A i \in Mine' : a < i => b <= i
  BY <1>0, <1>3 DEF Follows
<1>8. Chain(Resume, wire)'
  BY <1>1, <1>4, <1>7 DEF StreamInv, Chain, Follows
<1>9. Chain(server.cursor, server.rows)'
  BY <1>1, <1>7 DEF StreamInv, Chain, Follows
<1>10. \A a : AllPromised(a) => final' /\ \A i \in Mine' : i <= promised' => i <= a
  BY <1>0, <1>1, <1>3 DEF AllPromised, StreamTyped
<1> QED
  BY <1>1, <1>4, <1>5, <1>6, <1>8, <1>9, <1>10 DEF StreamInv, AllPromised

LEMMA FinishKeeps ==
  ASSUME StreamInv, Finish
  PROVE  StreamInv'
<1>0. StreamTyped /\ Len(log) \in Nat
  BY DEF StreamInv, StreamTyped
<1>1. final' = TRUE /\ promised' = Len(log) /\ ~final
      /\ UNCHANGED <<log, server, wire, got, over, drops>>
  BY DEF Finish
<1>2. Mine' = Mine /\ Resume' = Resume /\ Sent' = Sent
  BY <1>1 DEF Mine, Resume, Sent
<1>3. \A a : ~AllPromised(a)
  BY <1>1 DEF AllPromised
<1>4. final' \in BOOLEAN
  BY <1>1
<1>5. StreamTyped'
  BY <1>0, <1>1, <1>4 DEF StreamTyped
<1>6. GotAll' /\ Chain(Resume, wire)' /\ Chain(server.cursor, server.rows)'
  BY <1>1, <1>2 DEF StreamInv, GotAll, Chain, Follows
<1> QED
  BY <1>1, <1>2, <1>3, <1>5, <1>6 DEF StreamInv

\* A new connection starts where the page is; nothing is under way.
LEMMA ReconnectKeeps ==
  ASSUME StreamInv, Reconnect
  PROVE  StreamInv'
<1>0. StreamTyped /\ Len(log) \in Nat
  BY DEF StreamInv, StreamTyped
<1>1. /\ server' = [Off EXCEPT !.at = "fetch", !.cursor = Resume]
      /\ wire' = <<>> /\ UNCHANGED <<log, final, got, over, drops, promised>>
  BY DEF Reconnect, Connect
<1>2. Mine' = Mine /\ Resume' = Resume /\ Sent' = Resume /\ Resume \in 0 .. Len(log)
  BY <1>0, <1>1, ResumeIs DEF Mine, Resume, Sent
<1>3. server' = [at |-> "fetch", cursor |-> Resume, rows |-> <<>>, final |-> FALSE]
  BY <1>1 DEF Off
<1>4. StreamTyped'
  <2>1. /\ server'.at = "fetch" /\ server'.cursor = Resume /\ server'.rows = <<>>
        /\ server'.final = FALSE
    BY <1>3
  <2>2. server' \in [at : {"off", "fetch", "yield", "status", "conclude"},
                     cursor : Nat, rows : Seq(Nat), final : BOOLEAN]
    BY <1>0, <1>2, <1>3
  <2>3. server'.rows \in Seq(1 .. Len(log)) /\ Len(server'.rows) <= PageSize
        /\ wire' \in Seq(0 .. Len(log))
    <3>1. wire' = <<>>
      BY <1>1
    <3>2. Len(<<>>) = 0 /\ <<>> \in Seq(1 .. Len(log)) /\ <<>> \in Seq(0 .. Len(log))
      OBVIOUS
    <3> QED
      BY <2>1, <3>1, <3>2, StreamConstants
  <2>4. server'.cursor \in 0 .. Len(log')
    BY <1>1, <1>2, <2>1
  <2> QED
    BY <1>0, <1>1, <2>2, <2>3, <2>4 DEF StreamTyped
<1>5. GotAll'
  BY <1>1, <1>2 DEF StreamInv, GotAll
<1>9. Len(wire') = 0 /\ server'.rows = <<>> /\ Len(<<>>) = 0
  <2>1. wire' = <<>>
    BY <1>1
  <2>2. server'.rows = <<>>
    BY <1>3
  <2> QED
    BY <2>1, <2>2
<1>6. Chain(Resume, wire)' /\ Chain(server.cursor, server.rows)' /\ ~Contains(wire, End)'
  <2>1. Chain(Resume, wire)' /\ ~Contains(wire, End)'
    BY <1>9 DEF Chain, Contains
  <2>2. Chain(server.cursor, server.rows)'
    BY <1>9 DEF Chain
  <2> QED
    BY <2>1, <2>2
<1>7. server'.cursor = Resume /\ server'.final = FALSE
  BY <1>3
<1>8. over' => AllPromised(Resume)'
  BY <1>1, <1>2 DEF StreamInv, AllPromised
<1> QED
  BY <1>2, <1>4, <1>5, <1>6, <1>7, <1>8, <1>9 DEF StreamInv

\* The rows of a page are the first after the cursor, none left out between them.
LEMMA PageIsChain ==
  ASSUME StreamTyped, NEW c \in Nat
  PROVE  LET rows == FirstPage(After(c))
         IN  /\ rows \in Seq(1 .. Len(log)) /\ Len(rows) <= PageSize
             /\ Chain(c, rows)
<1> DEFINE ids == {i \in Mine : i > c}
           s == After(c)
           rows == FirstPage(s)
           n == IF Len(s) < PageSize THEN Len(s) ELSE PageSize
<1>1. /\ s \in Seq(ids) /\ Len(s) \in Nat /\ Ascending(s)
      /\ \A i \in ids : \E k \in 1 .. Len(s) : s[k] = i
  <2>1. log \in Seq({"mine", "other"})
    BY DEF StreamTyped
  <2> QED
    BY <2>1, AfterIs
<1>2. ids \subseteq 1 .. Len(log) /\ Len(log) \in Nat
  BY DEF Mine, StreamTyped
<1>3. \A i : i \in ids <=> i \in Mine /\ i > c
  OBVIOUS
<1>4. rows = SubSeq(s, 1, n)
  BY DEF FirstPage
<1> HIDE DEF ids, s, rows
<1>5. n \in Nat /\ n <= Len(s) /\ n <= PageSize
  BY <1>1, StreamConstants
<1> HIDE DEF n
<1>6. Len(rows) = n /\ \A k \in 1 .. n : rows[k] = s[k] /\ rows[k] \in ids
  <2>1. \A k \in 1 .. n : k \in 1 .. Len(s)
    BY <1>1, <1>5
  <2>2. \A k \in 1 .. n : s[k] \in ids
    BY <1>1, <2>1
  <2>3. Len(rows) = n /\ \A k \in 1 .. n : rows[k] = s[k]
    <3>1. /\ Len(rows) = IF 1 <= n THEN n - 1 + 1 ELSE 0
          /\ \A k \in 1 .. n - 1 + 1 : rows[k] = s[1 + k - 1]
      BY <1>4, <1>5, <2>2, SubSeqProperties
    <3> QED
      BY <1>5, <3>1
  <2> QED
    BY <2>2, <2>3
<1>7. rows \in Seq(1 .. Len(log))
  <2>1. \A i \in 1 .. n : s[i] \in 1 .. Len(log)
    BY <1>2, <1>6
  <2> QED
    BY <1>4, <1>5, <2>1, SubSeqProperties
<1>8. ASSUME NEW k \in 1 .. n
      PROVE  Follows(IF k = 1 THEN c ELSE rows[k - 1], rows[k])
  <2>0. k \in 1 .. Len(s) /\ k \in Nat
    BY <1>1, <1>5
  <2>1. s[k] \in ids /\ s[k] = rows[k] /\ s[k] \in Nat /\ k \in 1 .. Len(s) /\ k \in Nat
    <3>1. s[k] \in ids /\ s[k] = rows[k]
      BY <1>6
    <3>2. s[k] \in 1 .. Len(log)
      BY <1>2, <3>1
    <3> QED
      BY <1>2, <2>0, <3>1, <3>2
  <2>2. \A i \in ids : i \in Nat /\ \E l \in 1 .. Len(s) : s[l] = i
    BY <1>1, <1>2
  <2>3. \A l, m \in 1 .. Len(s) : l < m => s[l] < s[m]
    BY <1>1 DEF Ascending
  <2>4. CASE k = 1
    <3>1. \A i \in ids : s[k] <= i
      <4> SUFFICES ASSUME NEW i \in ids PROVE s[k] <= i
        OBVIOUS
      <4>1. PICK l \in 1 .. Len(s) : s[l] = i
        BY <2>2
      <4>2. l = 1 \/ s[1] < s[l]
        BY <1>1, <2>1, <2>3, <2>4
      <4> QED
        BY <2>1, <2>2, <2>4, <4>1, <4>2
    <3> QED
      BY <1>3, <2>1, <2>4, <3>1 DEF Follows
  <2>5. CASE k # 1
    <3>1. k - 1 \in 1 .. n /\ k - 1 \in 1 .. Len(s) /\ rows[k - 1] = s[k - 1] /\ s[k - 1] \in ids
      BY <1>5, <1>6, <2>1, <2>5
    <3>2. s[k - 1] < s[k] /\ s[k - 1] \in Nat
      <4>1. k - 1 < k
        BY <2>1
      <4> QED
        BY <2>1, <2>2, <2>3, <3>1, <4>1
    <3>3. ASSUME NEW i \in Mine, s[k - 1] < i
          PROVE  s[k] <= i
      <4>1. i \in ids /\ i \in Nat
        BY <1>2, <1>3, <3>1, <3>2, <3>3, <2>2 DEF Mine
      <4>2. PICK l \in 1 .. Len(s) : s[l] = i
        BY <2>2, <4>1
      <4>3. ~(l < k - 1) /\ l # k - 1
        BY <2>3, <3>1, <3>2, <3>3, <4>1, <4>2
      <4>4. l = k \/ k < l
        BY <2>1, <4>3
      <4> QED
        BY <2>1, <2>3, <4>1, <4>2, <4>4
    <3> QED
      BY <1>3, <2>1, <2>5, <3>1, <3>2, <3>3 DEF Follows
  <2> QED
    BY <2>4, <2>5
<1>9. Chain(c, rows)
  BY <1>6, <1>8 DEF Chain
<1> QED
  BY <1>5, <1>6, <1>7, <1>9 DEF rows, s

\* What a step leaves alone when it only moves the generator.
LEMMA ServerMoves ==
  ASSUME StreamInv, UNCHANGED <<log, final, got, over, drops, promised>>,
         server' \in [at : {"off", "fetch", "yield", "status", "conclude"},
                      cursor : Nat, rows : Seq(Nat), final : BOOLEAN],
         server'.cursor \in 0 .. Len(log),
         server'.rows \in Seq(1 .. Len(log)), Len(server'.rows) <= PageSize,
         wire' \in Seq(0 .. Len(log))
  PROVE  StreamTyped' /\ GotAll' /\ Mine' = Mine /\ Resume' = Resume
         /\ (over' => AllPromised(Resume)')
<1>1. Mine' = Mine /\ Resume' = Resume
  BY DEF Mine, Resume
<1>2. StreamTyped'
  BY DEF StreamInv, StreamTyped
<1>3. GotAll'
  BY <1>1 DEF StreamInv, GotAll
<1>4. over' => AllPromised(Resume)'
  BY <1>1 DEF StreamInv, AllPromised
<1> QED
  BY <1>1, <1>2, <1>3, <1>4

\* Nor the wire.
LEMMA ServerMovesAlone ==
  ASSUME StreamInv, server.at # "off", UNCHANGED <<log, final, got, over, drops, promised, wire>>,
         server' \in [at : {"off", "fetch", "yield", "status", "conclude"},
                      cursor : Nat, rows : Seq(Nat), final : BOOLEAN],
         server'.cursor = server.cursor, server'.final => final,
         server'.rows \in Seq(1 .. Len(log)), Len(server'.rows) <= PageSize,
         Chain(server.cursor, server'.rows)
  PROVE  StreamInv'
<1>0. StreamTyped
  BY DEF StreamInv
<1>1. StreamTyped' /\ GotAll' /\ Mine' = Mine /\ Resume' = Resume
      /\ (over' => AllPromised(Resume)')
  BY <1>0, ServerMoves DEF StreamTyped
<1>2. Sent' = Sent
  BY <1>1 DEF Sent
<1>3. Chain(Resume, wire)' /\ Chain(server.cursor, server.rows)'
  BY <1>1 DEF StreamInv, Chain, Follows
<1> QED
  BY <1>1, <1>2, <1>3 DEF StreamInv, AllPromised

LEMMA FetchKeeps ==
  ASSUME StreamInv, Fetch
  PROVE  StreamInv'
<1> DEFINE rows == FirstPage(After(server.cursor))
<1>0. StreamTyped
  BY DEF StreamInv
<1>1. /\ server.at = "fetch" /\ server' = [server EXCEPT !.at = "yield", !.rows = rows]
      /\ UNCHANGED <<log, final, wire, got, over, drops, promised>>
  BY DEF Fetch
<1>2. PICK c \in Nat : c = server.cursor
  BY <1>0 DEF StreamTyped
<1>3. rows \in Seq(1 .. Len(log)) /\ Len(rows) <= PageSize /\ Chain(server.cursor, rows)
  BY <1>0, <1>2, PageIsChain
<1> HIDE DEF rows
<1>4. rows \in Seq(Nat)
  BY <1>0, <1>3 DEF StreamTyped
<1>5. server' \in [at : {"off", "fetch", "yield", "status", "conclude"},
                   cursor : Nat, rows : Seq(Nat), final : BOOLEAN]
      /\ server'.cursor = server.cursor /\ server'.final = server.final /\ server'.rows = rows
  BY <1>0, <1>1, <1>4 DEF StreamTyped
<1>6. server'.final => final
  BY <1>5 DEF StreamInv
<1>7. server.at # "off"
  BY <1>1
<1> QED
  BY <1>1, <1>3, <1>5, <1>6, <1>7, ServerMovesAlone

LEMMA ReadStatusKeeps ==
  ASSUME StreamInv, ReadStatus
  PROVE  StreamInv'
<1>0. StreamTyped
  BY DEF StreamInv
<1>1. /\ server.at = "status" /\ server' = [server EXCEPT !.at = "conclude", !.final = final]
      /\ UNCHANGED <<log, final, wire, got, over, drops, promised>>
  BY DEF ReadStatus
<1>2. server' \in [at : {"off", "fetch", "yield", "status", "conclude"},
                   cursor : Nat, rows : Seq(Nat), final : BOOLEAN]
      /\ server'.cursor = server.cursor /\ server'.rows = server.rows
  BY <1>0, <1>1 DEF StreamTyped
<1>3. server'.final = final
  BY <1>0, <1>1 DEF StreamTyped
<1>4. Chain(server.cursor, server'.rows)
  BY <1>2 DEF StreamInv
<1> QED
  BY <1>0, <1>1, <1>2, <1>3, <1>4, ServerMovesAlone DEF StreamTyped

\* The row that is sent is the first after the cursor, the next one the first after it.
LEMMA YieldKeeps ==
  ASSUME StreamInv, Yield
  PROVE  StreamInv'
<1>0. StreamTyped /\ server.at = "yield" /\ UNCHANGED <<log, final, got, over, drops, promised>>
  BY DEF StreamInv, Yield
<1>1. CASE server.rows = <<>>
  <2>1. server' = [server EXCEPT !.at = "status"] /\ wire' = wire
    BY <1>1 DEF Yield
  <2>2. server' \in [at : {"off", "fetch", "yield", "status", "conclude"},
                     cursor : Nat, rows : Seq(Nat), final : BOOLEAN]
        /\ server'.cursor = server.cursor /\ server'.final = server.final
        /\ server'.rows = server.rows
    BY <1>0, <2>1 DEF StreamTyped
  <2>3. Chain(server.cursor, server'.rows) /\ (server'.final => final)
    BY <2>2 DEF StreamInv
  <2> QED
    BY <1>0, <2>1, <2>2, <2>3, ServerMovesAlone DEF StreamTyped
<1>2. CASE server.rows # <<>>
  <2> DEFINE b == Head(server.rows)
             rest == Tail(server.rows)
  <2>1. server' = [server EXCEPT !.cursor = b, !.rows = rest] /\ wire' = Append(wire, b)
    BY <1>2 DEF Yield
  <2>2. /\ server.rows \in Seq(1 .. Len(log)) /\ Len(server.rows) <= PageSize
        /\ Len(log) \in Nat /\ wire \in Seq(0 .. Len(log)) /\ Len(wire) \in Nat
    BY <1>0 DEF StreamTyped
  <2>3. /\ Len(server.rows) \in Nat /\ Len(server.rows) > 0
        /\ b = server.rows[1] /\ b \in 1 .. Len(log)
        /\ rest \in Seq(1 .. Len(log)) /\ Len(rest) = Len(server.rows) - 1
        /\ \A k \in 1 .. Len(rest) : rest[k] = server.rows[k + 1]
    <3>1. server.rows \in Seq(1 .. Len(log)) /\ server.rows # <<>>
      BY <1>2, <2>2
    <3>2. Len(server.rows) \in Nat /\ Len(server.rows) > 0 /\ b = server.rows[1]
      BY <3>1
    <3>3. b \in 1 .. Len(log) /\ rest \in Seq(1 .. Len(log))
      BY <3>1, HeadTailProperties
    <3>4. Len(rest) = Len(server.rows) - 1 /\ \A k \in 1 .. Len(rest) : rest[k] = server.rows[k + 1]
      BY <3>1, HeadTailProperties
    <3> QED
      BY <3>2, <3>3, <3>4
  <2> HIDE DEF b, rest
  <2>4. rest \in Seq(Nat) /\ b \in Nat /\ b # End /\ Len(rest) <= PageSize
    BY <2>2, <2>3, StreamConstants DEF End
  <2>5. server' \in [at : {"off", "fetch", "yield", "status", "conclude"},
                     cursor : Nat, rows : Seq(Nat), final : BOOLEAN]
        /\ server'.cursor = b /\ server'.final = server.final /\ server'.rows = rest
    BY <1>0, <2>1, <2>4 DEF StreamTyped
  <2>6. /\ wire' \in Seq(0 .. Len(log)) /\ Len(wire') = Len(wire) + 1 /\ wire' # <<>>
        /\ \A k \in 1 .. Len(wire) : wire'[k] = wire[k]
        /\ wire'[Len(wire) + 1] = b
    <3>1. b \in 0 .. Len(log)
      BY <2>2, <2>3
    <3>2. wire' = Append(wire, b)
      BY <2>1
    <3> QED
      BY <2>2, <3>1, <3>2, AppendProperties
  <2>7. StreamTyped' /\ GotAll' /\ Mine' = Mine /\ Resume' = Resume
        /\ (over' => AllPromised(Resume)')
    <3>1. server'.cursor \in 0 .. Len(log)
      BY <2>2, <2>3, <2>5
    <3> QED
      BY <1>0, <2>3, <2>4, <2>5, <2>6, <3>1, ServerMoves
  <2>8. server.cursor = Sent /\ ~Contains(wire, End)
    BY <1>0 DEF StreamInv
  <2>9. Follows(Sent, b)
    <3>1. 1 \in 1 .. Len(server.rows) /\ server.rows[1] # End
      BY <2>3, <2>4
    <3> QED
      BY <2>3, <2>8, <3>1 DEF StreamInv, Chain
  <2>10. Sent = IF Len(wire) = 0 THEN Resume ELSE wire[Len(wire)]
    BY <2>2 DEF Sent
  <2>11. ~Contains(wire', End)
    <3>1. \A k \in 1 .. Len(wire) : wire[k] # End
      BY <2>8 DEF Contains
    <3>2. \A k \in 1 .. Len(wire') : k \in 1 .. Len(wire) \/ k = Len(wire) + 1
      BY <2>2, <2>6
    <3> QED
      BY <2>4, <2>6, <3>1, <3>2 DEF Contains
  <2>12. Chain(Resume, wire)'
    <3>1. ASSUME NEW k \in 1 .. Len(wire) + 1, wire'[k] # End
          PROVE  Follows(IF k = 1 THEN Resume ELSE wire'[k - 1], wire'[k])
      <4>1. CASE k \in 1 .. Len(wire)
        <5>1. k = 1 \/ k - 1 \in 1 .. Len(wire)
          BY <2>2, <4>1
        <5>2. /\ wire'[k] = wire[k]
              /\ k # 1 => wire'[k - 1] = wire[k - 1]
          BY <2>6, <4>1, <5>1
        <5>3. Follows(IF k = 1 THEN Resume ELSE wire[k - 1], wire[k])
          BY <3>1, <4>1, <5>2 DEF StreamInv, Chain
        <5> QED
          BY <5>2, <5>3
      <4>2. CASE k = Len(wire) + 1
        <5>1. Sent = IF k = 1 THEN Resume ELSE wire'[k - 1]
          <6>1. Len(wire) \in Nat /\ k - 1 = Len(wire) /\ (k # 1 => k - 1 \in 1 .. Len(wire))
            BY <2>2, <4>2
          <6>2. k # 1 => wire'[k - 1] = wire[Len(wire)]
            BY <2>6, <6>1
          <6> QED
            BY <2>10, <6>1, <6>2
        <5> QED
          BY <2>6, <2>9, <4>2, <5>1
      <4> QED
        BY <2>2, <4>1, <4>2
    <3> QED
      BY <2>6, <2>7, <3>1 DEF Chain, Follows
  <2>13. Chain(server.cursor, server.rows)'
    <3>1. ASSUME NEW k \in 1 .. Len(rest)
          PROVE  Follows(IF k = 1 THEN b ELSE rest[k - 1], rest[k])
      <4>1. k + 1 \in 1 .. Len(server.rows) /\ k + 1 # 1 /\ (k + 1) - 1 = k
            /\ (k = 1 \/ k - 1 \in 1 .. Len(rest)) /\ (k - 1) + 1 = k
        BY <2>3
      <4>2. rest[k] = server.rows[k + 1] /\ rest[k] \in 1 .. Len(log) /\ rest[k] # End
        <5>1. rest[k] \in 1 .. Len(log)
          BY <2>3, ElementOfSeq
        <5>2. \A i \in 1 .. Len(log) : i # End
          BY <2>2 DEF End
        <5> QED
          BY <2>3, <5>1, <5>2
      <4>3. Follows(server.rows[k], rest[k])
        BY <4>1, <4>2 DEF StreamInv, Chain
      <4>4. server.rows[k] = IF k = 1 THEN b ELSE rest[k - 1]
        BY <2>3, <4>1
      <4> QED
        BY <4>3, <4>4
    <3> QED
      BY <2>5, <2>7, <3>1 DEF Chain, Follows
  <2>14. Sent' = b
    BY <2>2, <2>6 DEF Sent
  <2>15. server'.final => final'
    BY <1>0, <2>5 DEF StreamInv
  <2>16. \A k \in 1 .. Len(wire') : wire'[k] # End
    BY <2>11 DEF Contains
  <2> QED
    BY <2>5, <2>7, <2>11, <2>12, <2>13, <2>14, <2>15, <2>16 DEF StreamInv
<1> QED
  BY <1>1, <1>2

\* The end is said when the status was final before a look at the table found nothing
\* after the cursor.
LEMMA ConcludeKeeps ==
  ASSUME StreamInv, Conclude
  PROVE  StreamInv'
<1>0. /\ StreamTyped /\ server.at = "conclude"
      /\ UNCHANGED <<log, final, got, over, drops, promised>>
  BY DEF StreamInv, Conclude
<1>1. CASE ~(server.final /\ NoMore)
  <2>1. server' = [server EXCEPT !.at = "fetch", !.final = FALSE] /\ wire' = wire
    BY <1>1 DEF Conclude
  <2>2. server' \in [at : {"off", "fetch", "yield", "status", "conclude"},
                     cursor : Nat, rows : Seq(Nat), final : BOOLEAN]
        /\ server'.cursor = server.cursor /\ server'.final = FALSE
        /\ server'.rows = server.rows
    BY <1>0, <2>1 DEF StreamTyped
  <2>3. Chain(server.cursor, server'.rows)
    BY <2>2 DEF StreamInv
  <2> QED
    BY <1>0, <2>1, <2>2, <2>3, ServerMovesAlone DEF StreamTyped
<1>2. CASE server.final /\ NoMore
  <2>1. server' = Off /\ wire' = Append(wire, End)
    BY <1>2 DEF Conclude
  <2>2. Len(log) \in Nat /\ wire \in Seq(0 .. Len(log)) /\ Len(wire) \in Nat
        /\ server.cursor \in Nat
    BY <1>0 DEF StreamTyped
  <2>3. /\ server' \in [at : {"off", "fetch", "yield", "status", "conclude"},
                        cursor : Nat, rows : Seq(Nat), final : BOOLEAN]
        /\ server'.cursor = 0 /\ server'.rows = <<>> /\ server'.at = "off"
        /\ server'.final = FALSE
    BY <2>1 DEF Off
  <2>4. /\ wire' \in Seq(0 .. Len(log)) /\ Len(wire') = Len(wire) + 1
        /\ \A k \in 1 .. Len(wire) : wire'[k] = wire[k]
        /\ wire'[Len(wire) + 1] = End
    <3>1. End \in 0 .. Len(log)
      BY <2>2 DEF End
    <3> QED
      BY <2>1, <2>2, <3>1
  <2>5. Len(<<>>) = 0 /\ <<>> \in Seq(1 .. Len(log))
    OBVIOUS
  <2>6. StreamTyped' /\ GotAll' /\ Mine' = Mine /\ Resume' = Resume
        /\ (over' => AllPromised(Resume)')
    <3>1. server'.cursor \in 0 .. Len(log)
      BY <2>2, <2>3
    <3>2. server'.rows \in Seq(1 .. Len(log)) /\ Len(server'.rows) <= PageSize
      BY <2>3, <2>5, StreamConstants
    <3> QED
      BY <1>0, <2>3, <2>4, <3>1, <3>2, ServerMoves
  <2>7. server.cursor = Sent /\ ~Contains(wire, End) /\ final
    BY <1>0, <1>2 DEF StreamInv
  <2>8. \A k \in 1 .. Len(wire') : k \in 1 .. Len(wire) \/ k = Len(wire) + 1
    BY <2>2, <2>4
  <2>9. Chain(Resume, wire)'
    <3>1. ASSUME NEW k \in 1 .. Len(wire') , wire'[k] # End
          PROVE  Follows(IF k = 1 THEN Resume ELSE wire'[k - 1], wire'[k])
      <4>1. k \in 1 .. Len(wire) /\ (k = 1 \/ k - 1 \in 1 .. Len(wire))
        BY <2>2, <2>4, <2>8, <3>1
      <4> QED
        BY <2>4, <3>1, <4>1 DEF StreamInv, Chain
    <3> QED
      BY <2>6, <3>1 DEF Chain, Follows
  <2>10. Chain(server.cursor, server.rows)'
    BY <2>3, <2>5 DEF Chain
  <2>11. \A i \in Mine : i <= server.cursor
    <3>1. PICK c \in Nat : c = server.cursor
      BY <2>2
    <3>2. After(c) = <<>>
      BY <1>2, <3>1 DEF NoMore
    <3>3. \A i \in {i \in Mine : i > c} : \E k \in 1 .. Len(After(c)) : After(c)[k] = i
      <4>1. log \in Seq({"mine", "other"})
        BY <1>0 DEF StreamTyped
      <4> QED
        BY <4>1, AfterIs
    <3>4. \A i \in Mine : ~(i > c)
      BY <3>2, <3>3
    <3>5. Mine \subseteq Nat
      BY <2>2 DEF Mine
    <3> QED
      BY <3>1, <3>4, <3>5
  <2>12. AllPromised(Sent)
    BY <2>7, <2>11 DEF AllPromised
  <2>13. Sent = IF Len(wire) = 0 THEN Resume ELSE wire[Len(wire)]
    BY <2>2 DEF Sent
  <2>14. ASSUME NEW k \in 1 .. Len(wire'), wire'[k] = End
         PROVE  k = Len(wire') /\ AllPromised(IF k = 1 THEN Resume ELSE wire'[k - 1])
    <3>1. k = Len(wire) + 1
      BY <2>4, <2>7, <2>8, <2>14 DEF Contains
    <3>2. Sent = IF k = 1 THEN Resume ELSE wire'[k - 1]
      BY <2>2, <2>4, <2>13, <3>1
    <3> QED
      BY <2>4, <2>12, <3>1, <3>2
  <2>15. \A k \in 1 .. Len(wire') : wire'[k] = End =>
           k = Len(wire') /\ AllPromised(IF k = 1 THEN Resume ELSE wire[k - 1])'
    BY <1>0, <2>6, <2>14 DEF AllPromised
  <2> QED
    BY <2>3, <2>6, <2>9, <2>10, <2>15 DEF StreamInv
<1> QED
  BY <1>1, <1>2

LEMMA LoseKeeps ==
  ASSUME StreamInv, Lose
  PROVE  StreamInv'
<1>0. StreamTyped /\ Len(log) \in Nat
  BY DEF StreamInv, StreamTyped
<1>1. /\ server' = Off /\ wire' = <<>> /\ drops < MaxDrops /\ drops' = drops + 1
      /\ UNCHANGED <<log, final, got, over, promised>>
  BY DEF Lose
<1>2. Mine' = Mine /\ Resume' = Resume
  BY <1>1 DEF Mine, Resume
<1>3. /\ server' \in [at : {"off", "fetch", "yield", "status", "conclude"},
                      cursor : Nat, rows : Seq(Nat), final : BOOLEAN]
      /\ server'.cursor = 0 /\ server'.rows = <<>> /\ server'.at = "off"
      /\ server'.final = FALSE
  BY <1>1 DEF Off
<1>4. /\ Len(<<>>) = 0 /\ <<>> \in Seq(1 .. Len(log)) /\ <<>> \in Seq(0 .. Len(log))
      /\ wire' = <<>>
  BY <1>1
<1>5. StreamTyped'
  <2>1. server'.cursor \in 0 .. Len(log) /\ drops' \in 0 .. MaxDrops
    BY <1>0, <1>1, <1>3, StreamConstants DEF StreamTyped
  <2> QED
    BY <1>0, <1>1, <1>3, <1>4, <2>1, StreamConstants DEF StreamTyped
<1>6. GotAll' /\ (over' => AllPromised(Resume)')
  BY <1>1, <1>2 DEF StreamInv, GotAll, AllPromised
<1>7. Chain(Resume, wire)' /\ Chain(server.cursor, server.rows)'
  BY <1>3, <1>4 DEF Chain
<1> QED
  BY <1>3, <1>4, <1>5, <1>6, <1>7 DEF StreamInv

\* A frame that arrives is the first after what the page has, or the end.
LEMMA ReceiveKeeps ==
  ASSUME StreamInv, Receive
  PROVE  StreamInv'
<1> DEFINE h == Head(wire)
           rest == Tail(wire)
<1>0. /\ StreamTyped /\ Len(log) \in Nat /\ wire \in Seq(0 .. Len(log)) /\ wire # <<>>
      /\ got \in Seq(1 .. Len(log)) /\ Len(got) \in Nat
      /\ UNCHANGED <<log, final, server, drops, promised>> /\ wire' = rest
  BY DEF StreamInv, StreamTyped, Receive
<1>1. /\ Len(wire) \in Nat /\ Len(wire) > 0 /\ h = wire[1]
  BY <1>0
<1>2. /\ h \in 0 .. Len(log) /\ rest \in Seq(0 .. Len(log)) /\ Len(rest) = Len(wire) - 1
      /\ \A k \in 1 .. Len(rest) : rest[k] = wire[k + 1]
  BY <1>0, HeadTailProperties
<1>3. h = End => over' = TRUE /\ got' = got
  BY DEF Receive
<1>4. h # End => over' = over /\ got' = Append(got, h)
  BY DEF Receive
<1> HIDE DEF h, rest
<1>5. Mine' = Mine /\ Mine \subseteq 1 .. Len(log)
  BY <1>0 DEF Mine
<1>6. Resume \in 0 .. Len(log) /\ Resume = IF got = <<>> THEN 0 ELSE got[Len(got)]
  BY <1>0, ResumeIs
<1>7. Sent = IF Len(wire) = 0 THEN Resume ELSE wire[Len(wire)]
  BY <1>1 DEF Sent
<1>8. CASE h = End
  <2>1. Len(wire) = 1 /\ AllPromised(Resume)
    <3>1. 1 \in 1 .. Len(wire) /\ wire[1] = End
      BY <1>1, <1>8
    <3> QED
      BY <3>1 DEF StreamInv
  <2>2. wire' = <<>> /\ Len(wire') = 0
    BY <1>0, <1>2, <2>1
  <2>3. server.at = "off"
    <3>1. 1 \in 1 .. Len(wire) /\ wire[1] = End
      BY <1>1, <1>8
    <3> QED
      BY <3>1 DEF StreamInv, Contains
  <2>4. got' = got /\ over' \in BOOLEAN
    BY <1>3, <1>8
  <2>5. Resume' = Resume
    BY <2>4 DEF Resume
  <2>6. StreamTyped'
    BY <1>0, <1>2, <2>4 DEF StreamTyped
  <2>7. GotAll' /\ AllPromised(Resume)'
    BY <1>0, <1>5, <2>1, <2>4, <2>5 DEF StreamInv, GotAll, AllPromised
  <2>8. Chain(Resume, wire)'
    BY <2>2 DEF Chain
  <2>9. Chain(server.cursor, server.rows)'
    BY <1>0, <1>5 DEF StreamInv, Chain, Follows
  <2>10. server'.final => final'
    BY <1>0 DEF StreamInv
  <2> QED
    BY <1>0, <2>2, <2>3, <2>6, <2>7, <2>8, <2>9, <2>10 DEF StreamInv
<1>9. CASE h # End
  <2>1. got' = Append(got, h) /\ over' = over
    BY <1>4, <1>9
  <2>2. h \in 1 .. Len(log) /\ h \in Nat
    BY <1>0, <1>2, <1>9 DEF End
  <2>3. /\ got' \in Seq(1 .. Len(log)) /\ got' # <<>> /\ Len(got') = Len(got) + 1
        /\ \A k \in 1 .. Len(got) : got'[k] = got[k]
        /\ got'[Len(got) + 1] = h
    <3>1. got \in Seq(1 .. Len(log)) /\ h \in 1 .. Len(log)
      BY <1>0, <2>2
    <3>2. got' = Append(got, h)
      BY <2>1
    <3> QED
      BY <3>1, <3>2, AppendProperties
  <2>4. Resume' = h
    <3>1. got'[Len(got')] = h /\ got' # <<>>
      BY <2>3
    <3> QED
      BY <3>1 DEF Resume, Last
  <2>5. Follows(Resume, h)
    <3>1. 1 \in 1 .. Len(wire) /\ wire[1] # End
      BY <1>1, <1>9
    <3> QED
      BY <1>1, <3>1 DEF StreamInv, Chain
  <2>6. h \in Mine /\ Resume < h /\ \A i \in Mine : Resume < i => h <= i
    BY <2>5 DEF Follows
  <2>7. \A k \in 1 .. Len(got) : got[k] \in 1 .. Len(log) /\ got[k] <= Resume
    <3> SUFFICES ASSUME NEW k \in 1 .. Len(got)
                 PROVE  got[k] \in 1 .. Len(log) /\ got[k] <= Resume
      OBVIOUS
    <3>1. got[k] \in 1 .. Len(log)
      BY <1>0, ElementOfSeq
    <3>2. Resume = got[Len(got)] /\ Len(got) \in 1 .. Len(got)
      BY <1>0, <1>6
    <3>3. k = Len(got) \/ got[k] < got[Len(got)]
      <4>1. k = Len(got) \/ k < Len(got)
        BY <1>0
      <4> QED
        BY <3>2, <4>1 DEF StreamInv, GotAll, Ascending
    <3>4. got[k] \in Nat /\ Resume \in Nat
      BY <1>0, <1>6, <3>1
    <3> QED
      BY <3>1, <3>2, <3>3, <3>4
  <2>8. \A k \in 1 .. Len(got) : got[k] < h
    <3>1. Resume \in Nat /\ \A i \in 1 .. Len(log) : i \in Nat
      BY <1>0, <1>6
    <3> QED
      BY <2>2, <2>6, <2>7, <3>1
  <2>9. \A k \in 1 .. Len(got') : k \in 1 .. Len(got) \/ k = Len(got) + 1
    BY <1>0, <2>3
  <2>10. Ascending(got)'
    <3> SUFFICES ASSUME NEW k \in 1 .. Len(got'), NEW l \in 1 .. Len(got'), k < l
                 PROVE  got'[k] < got'[l]
      BY DEF Ascending
    <3>1. k \in 1 .. Len(got)
      BY <1>0, <2>3, <2>9
    <3>2. CASE l \in 1 .. Len(got)
      BY <2>3, <3>1, <3>2 DEF StreamInv, GotAll, Ascending
    <3>3. CASE l = Len(got) + 1
      BY <2>3, <2>8, <3>1, <3>3
    <3> QED
      BY <2>9, <3>2, <3>3
  <2>11. \A k \in 1 .. Len(got') : got'[k] \in Mine'
    BY <1>5, <2>3, <2>6, <2>9 DEF StreamInv, GotAll
  <2>12. \A i \in Mine : i <= h => Contains(got', i)
    <3> SUFFICES ASSUME NEW i \in Mine, i <= h PROVE Contains(got', i)
      OBVIOUS
    <3>1. i \in Nat /\ Resume \in Nat
      BY <1>0, <1>5, <1>6
    <3>2. CASE i <= Resume
      <4>1. PICK k \in 1 .. Len(got) : got[k] = i
        BY <3>2 DEF StreamInv, GotAll, Contains
      <4>2. k \in 1 .. Len(got') /\ got'[k] = i
        <5>1. Len(got) \in Nat /\ Len(got') = Len(got) + 1
          BY <1>0, <2>3
        <5> QED
          BY <2>3, <4>1, <5>1
      <4> QED
        BY <4>2 DEF Contains
    <3>3. CASE Resume < i
      <4>1. i = h
        BY <2>2, <2>6, <3>1, <3>3
      <4>2. Len(got) + 1 \in 1 .. Len(got')
        BY <1>0, <2>3
      <4> QED
        BY <2>3, <4>1, <4>2 DEF Contains
    <3> QED
      BY <3>1, <3>2, <3>3
  <2>13. GotAll'
    BY <1>5, <2>4, <2>10, <2>11, <2>12 DEF GotAll
  <2>14. StreamTyped'
    BY <1>0, <1>2, <2>1, <2>3 DEF StreamTyped
  <2>15. ASSUME NEW k \in 1 .. Len(rest)
         PROVE  /\ k + 1 \in 1 .. Len(wire) /\ k + 1 # 1 /\ (k + 1) - 1 = k
                /\ rest[k] = wire[k + 1]
                /\ wire[k] = IF k = 1 THEN h ELSE rest[k - 1]
    <3>1. k + 1 \in 1 .. Len(wire) /\ k + 1 # 1 /\ (k + 1) - 1 = k
          /\ (k = 1 \/ (k - 1 \in 1 .. Len(rest) /\ (k - 1) + 1 = k))
      BY <1>1, <1>2
    <3> QED
      BY <1>1, <1>2, <3>1
  <2>16. Chain(Resume, wire)'
    <3>1. ASSUME NEW k \in 1 .. Len(rest), rest[k] # End
          PROVE  Follows(IF k = 1 THEN h ELSE rest[k - 1], rest[k])
      BY <2>15, <3>1 DEF StreamInv, Chain
    <3> QED
      BY <1>0, <1>5, <2>4, <3>1 DEF Chain, Follows
  <2>17. Chain(server.cursor, server.rows)'
    BY <1>0, <1>5 DEF StreamInv, Chain, Follows
  <2>18. \A a : AllPromised(a) => AllPromised(a)'
    BY <1>0, <1>5 DEF AllPromised
  <2>19. ASSUME NEW k \in 1 .. Len(wire'), wire'[k] = End
         PROVE  k = Len(wire') /\ AllPromised(IF k = 1 THEN Resume ELSE wire[k - 1])'
    <3>1. k + 1 = Len(wire) /\ AllPromised(wire[k])
      BY <1>0, <2>15, <2>19 DEF StreamInv
    <3>2. k = Len(wire')
      BY <1>0, <1>1, <1>2, <3>1
    <3>3. wire[k] = IF k = 1 THEN Resume' ELSE wire'[k - 1]
      BY <1>0, <2>4, <2>15
    <3>4. final' /\ \A i \in Mine' : i <= promised' => i <= wire[k]
      BY <1>0, <1>5, <3>1 DEF AllPromised
    <3> QED
      BY <3>2, <3>3, <3>4 DEF AllPromised
  <2>20. over' => AllPromised(Resume)'
    <3> SUFFICES ASSUME over' PROVE AllPromised(Resume)'
      OBVIOUS
    <3>1. final /\ \A i \in Mine : i <= promised => i <= Resume
      BY <2>1 DEF StreamInv, AllPromised
    <3>2. \A i \in Mine : i <= Resume => i <= h
      BY <1>0, <1>5, <1>6, <2>2, <2>6
    <3> QED
      BY <1>0, <1>5, <2>4, <3>1, <3>2 DEF AllPromised
  <2>21. server'.at # "off" => server'.cursor = Sent' /\ ~Contains(wire, End)'
    <3> SUFFICES ASSUME server.at # "off" PROVE server.cursor = Sent' /\ ~Contains(wire', End)
      BY <1>0
    <3>1. server.cursor = Sent /\ ~Contains(wire, End)
      BY DEF StreamInv
    <3>2. \A k \in 1 .. Len(rest) : rest[k] # End
      BY <2>15, <3>1 DEF Contains
    <3>3. CASE Len(rest) = 0
      <4>1. wire' = <<>> /\ Len(wire) = 1
        BY <1>0, <1>1, <1>2, <3>3
      <4>2. Sent' = h /\ Sent = h
        BY <1>1, <1>7, <2>4, <4>1 DEF Sent
      <4> QED
        BY <1>0, <3>1, <3>2, <4>2 DEF Contains
    <3>4. CASE Len(rest) # 0
      <4>1. wire' # <<>> /\ Len(rest) \in 1 .. Len(rest) /\ Len(rest) + 1 = Len(wire)
        BY <1>0, <1>1, <1>2, <3>4
      <4>2. Sent' = rest[Len(rest)]
        BY <1>0, <4>1 DEF Sent
      <4>3. Sent = wire[Len(wire)]
        BY <1>1, <1>7
      <4> QED
        BY <1>0, <1>2, <3>1, <3>2, <4>1, <4>2, <4>3 DEF Contains
    <3> QED
      BY <3>3, <3>4
  <2>22. server'.final => final'
    BY <1>0 DEF StreamInv
  <2> QED
    BY <2>13, <2>14, <2>16, <2>17, <2>19, <2>20, <2>21, <2>22 DEF StreamInv
<1> QED
  BY <1>8, <1>9

LEMMA StreamInvNext ==
  ASSUME StreamInv, StreamNext
  PROVE  StreamInv'
BY EmitKeeps, FinishKeeps, ReconnectKeeps, FetchKeeps, YieldKeeps, ReadStatusKeeps, ConcludeKeeps,
   ReceiveKeeps, LoseKeeps DEF StreamNext, StreamServer

----------------------------------------------------------------------------
(* Stream: what the page has is the beginning of what there is *)

LEMMA StreamInvTypes == StreamInv => StreamTypeOK
BY StreamConstants DEF StreamInv, StreamTyped, StreamTypeOK

LEMMA GotIsPrefix ==
  ASSUME StreamInv
  PROVE  Exact
<1> DEFINE s == After(0)
<1>0. /\ log \in Seq({"mine", "other"}) /\ Len(log) \in Nat
      /\ got \in Seq(1 .. Len(log)) /\ Len(got) \in Nat
      /\ Ascending(got) /\ \A k \in 1 .. Len(got) : got[k] \in Mine
      /\ \A i \in Mine : i <= Resume => Contains(got, i)
  BY DEF StreamInv, StreamTyped, GotAll
<1>1. Mine \subseteq 1 .. Len(log) /\ {i \in Mine : i > 0} = Mine
  BY <1>0 DEF Mine
<1>2. /\ Mine \in SUBSET Nat /\ IsFiniteSet(Mine)
      /\ s \in Seq(Mine) /\ Len(s) = Cardinality(Mine) /\ Cardinality(Mine) \in Nat
      /\ \A k \in 1 .. Len(s) : Place(s[k], Mine) = k
  <2>1. 0 \in Nat
    OBVIOUS
  <2> QED
    BY <1>0, <1>1, <2>1, AfterIs
<1> HIDE DEF s
<1>3. \A k \in 1 .. Len(got) : got[k] <= Resume /\ got[k] \in Nat /\ Resume \in Nat
  <2> SUFFICES ASSUME NEW k \in 1 .. Len(got)
               PROVE  got[k] <= Resume /\ got[k] \in Nat /\ Resume \in Nat
    OBVIOUS
  <2>1. Resume = got[Len(got)] /\ Len(got) \in 1 .. Len(got)
    BY <1>0 DEF Resume, Last
  <2>2. got[k] \in 1 .. Len(log) /\ got[Len(got)] \in 1 .. Len(log)
    BY <1>0, <2>1, ElementOfSeq
  <2>3. k = Len(got) \/ k < Len(got)
    BY <1>0
  <2>4. k = Len(got) \/ got[k] < got[Len(got)]
    BY <1>0, <2>1, <2>3 DEF Ascending
  <2>5. got[k] \in Nat /\ got[Len(got)] \in Nat
    BY <1>0, <2>2
  <2> QED
    BY <2>1, <2>4, <2>5
<1>4. ASSUME NEW k \in 1 .. Len(got)
      PROVE  Place(got[k], Mine) = k
  <2> DEFINE before == {j \in Mine : j < got[k]}
             f == [m \in 1 .. k - 1 |-> got[m]]
  <2>1. k \in Nat /\ k - 1 \in Nat /\ 1 .. k - 1 \subseteq 1 .. Len(got)
        /\ \A m \in 1 .. k - 1 : m < k
    BY <1>0
  <2>2. \A m \in 1 .. k - 1 : got[m] \in before
    BY <1>0, <2>1 DEF Ascending
  <2>3. \A j \in before : \E m \in 1 .. k - 1 : got[m] = j
    <3> SUFFICES ASSUME NEW j \in before PROVE \E m \in 1 .. k - 1 : got[m] = j
      OBVIOUS
    <3>1. j \in Mine /\ j < got[k] /\ j \in Nat
      BY <1>0, <1>1
    <3>2. j <= Resume
      BY <1>3, <3>1
    <3>3. PICK m \in 1 .. Len(got) : got[m] = j
      BY <1>0, <3>1, <3>2 DEF Contains
    <3>4. m # k /\ ~(k < m)
      <4>1. got[k] \in Nat
        BY <1>3
      <4> QED
        BY <1>0, <3>1, <3>3, <4>1 DEF Ascending
    <3>5. m \in 1 .. k - 1
      BY <1>0, <3>4
    <3> QED
      BY <3>3, <3>5
  <2>4. \A m, n \in 1 .. k - 1 : got[m] = got[n] => m = n
    <3> SUFFICES ASSUME NEW m \in 1 .. k - 1, NEW n \in 1 .. k - 1, got[m] = got[n], m # n
                 PROVE  FALSE
      OBVIOUS
    <3>1. m < n \/ n < m
      BY <2>1
    <3>2. got[m] < got[n] \/ got[n] < got[m]
      BY <1>0, <2>1, <3>1 DEF Ascending
    <3>3. got[m] \in Nat /\ got[n] \in Nat
      BY <1>3, <2>1
    <3> QED
      BY <3>2, <3>3
  <2> HIDE DEF before
  <2>5. f \in Bijection(1 .. k - 1, before)
    BY <2>2, <2>3, <2>4 DEF Bijection, Injection, Surjection, IsInjective
  <2>6. Cardinality(before) = k - 1
    BY <2>1, <2>5, FS_CountingElements DEF ExistsBijection
  <2> QED
    BY <2>1, <2>6 DEF Place, before
<1>5. /\ \A i \in Mine : Place(i, Mine) \in 1 .. Cardinality(Mine)
      /\ \A i, j \in Mine : i < j => Place(i, Mine) < Place(j, Mine)
  BY <1>2, Places
<1>6. Len(got) <= Len(s)
  <2>1. CASE Len(got) = 0
    BY <1>2, <2>1
  <2>2. CASE Len(got) # 0
    <3>1. Len(got) \in 1 .. Len(got)
      BY <1>0, <2>2
    <3>2. Len(got) \in 1 .. Cardinality(Mine)
      BY <1>0, <1>4, <1>5, <3>1
    <3> QED
      BY <1>2, <3>2
  <2> QED
    BY <2>1, <2>2
<1>7. ASSUME NEW k \in 1 .. Len(got)
      PROVE  got[k] = s[k]
  <2>1. k \in 1 .. Len(s) /\ k \in Nat
    BY <1>0, <1>2, <1>6
  <2>2. s[k] \in Mine /\ got[k] \in Mine /\ Place(s[k], Mine) = k /\ Place(got[k], Mine) = k
    BY <1>0, <1>2, <1>4, <2>1, ElementOfSeq
  <2>3. s[k] \in Nat /\ got[k] \in Nat
    BY <1>2, <2>2
  <2>4. ~(s[k] < got[k]) /\ ~(got[k] < s[k])
    BY <1>5, <2>1, <2>2
  <2> QED
    BY <2>3, <2>4
<1>8. SubSeq(got, 1, Len(got)) = SubSeq(s, 1, Len(got))
  BY <1>0, <1>2, <1>6, <1>7
<1> QED
  BY <1>6, <1>8 DEF Exact, IsPrefix, s

LEMMA StreamInvExact == StreamInv => StreamIsExact
<1> SUFFICES ASSUME StreamInv PROVE StreamIsExact
  OBVIOUS
<1>1. EndIsComplete
  BY DEF StreamInv, AllPromised, GotAll, EndIsComplete
<1> QED
  BY <1>1, GotIsPrefix DEF StreamIsExact

LEMMA StreamInvAlways == ServiceSpec => []StreamInv
<1>1. ServiceInit => StreamInv
  BY StreamInvInit DEF ServiceInit
<1>2. StreamInv /\ [ServiceNext]_serviceVars => StreamInv'
  <2> SUFFICES ASSUME StreamInv, [ServiceNext]_serviceVars PROVE StreamInv'
    OBVIOUS
  <2>1. CASE StreamNext
    BY <2>1, StreamInvNext
  <2>2. CASE UNCHANGED streamVars
    BY <2>2 DEF streamVars, StreamInv, StreamTyped, GotAll, Chain, Follows, AllPromised, Sent,
                Resume, Mine, Contains
  <2> QED
    BY <2>1, <2>2 DEF ServiceNext, Moves, serviceVars
<1> QED
  BY <1>1, <1>2, PTL DEF ServiceSpec

\* "Events themselves are durable" (core/sse.py:2): whatever the size of a page, however
\* many events, runs and lost connections, the page has each event of its run once and in
\* order; and told that the run has ended, it has all that was logged before.
THEOREM StreamsAreExact == ServiceSpec => []StreamIsExact
BY StreamInvAlways, StreamInvExact, PTL

----------------------------------------------------------------------------
(* the clock of a day, and the larger and the smaller of two numbers *)

LEMMA Division ==
  ASSUME NEW a \in Nat, NEW h \in Nat, h > 0
  PROVE  a \div h \in Nat /\ a % h \in 0 .. h - 1 /\ a = (a \div h) * h + (a % h)
<1>1. a \div h \in Nat /\ a % h \in 0 .. h - 1
  OBVIOUS
<1>2. a \div h \in Int /\ a % h \in Int
  BY <1>1
<1>3. a = (a \div h) * h + (a % h)
  BY <1>2, Z3
<1> QED
  BY <1>1, <1>3

LEMMA Remainder ==
  ASSUME NEW h \in Nat, h > 0, NEW q \in Nat, NEW r \in 0 .. h - 1
  PROVE  (q * h + r) % h = r
OBVIOUS

\* A hand that goes k on: as far as it gets, or a whole turn less.
LEMMA ClockHand ==
  ASSUME NEW h \in Nat, h > 0, NEW a \in Nat, NEW k \in Nat
  PROVE  /\ (a % h) + k < h => (a + k) % h = (a % h) + k
         /\ h <= (a % h) + k /\ (a % h) + k < 2 * h => (a + k) % h = (a % h) + k - h
<1> DEFINE q == a \div h
           r == a % h
<1>1. q \in Nat /\ r \in 0 .. h - 1 /\ a = q * h + r
  BY Division
<1> HIDE DEF q, r
<1>2. \A s \in 0 .. h - 1 : (q * h + s) % h = s
  BY <1>1, Remainder
<1>3. \A s \in 0 .. h - 1 : ((q + 1) * h + s) % h = s
  <2>1. q + 1 \in Nat
    BY <1>1
  <2> QED
    BY <2>1, Remainder
<1>4. q * h \in Nat /\ (q + 1) * h = q * h + h
  BY <1>1
<1>5. r + k < h => (a + k) % h = r + k
  <2> SUFFICES ASSUME r + k < h PROVE (a + k) % h = r + k
    OBVIOUS
  <2>1. r + k \in 0 .. h - 1
    BY <1>1
  <2>2. a + k = q * h + (r + k)
    BY <1>1, <1>4
  <2> QED
    BY <1>2, <2>1, <2>2
<1>6. h <= r + k /\ r + k < 2 * h => (a + k) % h = r + k - h
  <2> SUFFICES ASSUME h <= r + k, r + k < 2 * h PROVE (a + k) % h = r + k - h
    OBVIOUS
  <2>1. r + k - h \in 0 .. h - 1
    BY <1>1
  <2>2. a + k = (q + 1) * h + (r + k - h)
    BY <1>1, <1>4
  <2> QED
    BY <1>3, <2>1, <2>2
<1> QED
  BY <1>5, <1>6 DEF r

LEMMA TheLarger ==
  ASSUME NEW a \in Int, NEW b \in Int
  PROVE  Max({a, b}) = IF a >= b THEN a ELSE b
<1> DEFINE m == IF a >= b THEN a ELSE b
           Top(x) == x \in {a, b} /\ \A y \in {a, b} : x >= y
<1>1. Max({a, b}) = CHOOSE x : Top(x)
  BY DEF Max
<1>2. Top(m)
  OBVIOUS
<1>3. \A x : Top(x) => x = m
  OBVIOUS
<1> HIDE DEF m, Top
<1>4. Top(CHOOSE x : Top(x))
  BY <1>2
<1> QED
  BY <1>1, <1>3, <1>4 DEF m

LEMMA TheSmaller ==
  ASSUME NEW a \in Int, NEW b \in Int
  PROVE  Min({a, b}) = IF a <= b THEN a ELSE b
<1> DEFINE m == IF a <= b THEN a ELSE b
           Bottom(x) == x \in {a, b} /\ \A y \in {a, b} : x <= y
<1>1. Min({a, b}) = CHOOSE x : Bottom(x)
  BY DEF Min
<1>2. Bottom(m)
  OBVIOUS
<1>3. \A x : Bottom(x) => x = m
  OBVIOUS
<1> HIDE DEF m, Bottom
<1>4. Bottom(CHOOSE x : Bottom(x))
  BY <1>2
<1> QED
  BY <1>1, <1>3, <1>4 DEF m

----------------------------------------------------------------------------
(* Timetable *)

LEMMA TimetableConstants ==
  ASSUME NEW s \in Settings
  PROVE  /\ Hours \in Nat /\ Hours > 0 /\ Long \in Nat /\ MaxUpsets \in Nat
         /\ s.every \in 1 .. Long /\ s.lo \in 0 .. Hours - 1 /\ s.hi \in 0 .. Hours
BY TimetableAssumption

LEMMA TimetableTypesInit == TimetableInit => TimetableTypeOK
<1> SUFFICES ASSUME TimetableInit PROVE TimetableTypeOK
  OBVIOUS
<1>1. hour \in 0 .. Hours - 1 /\ since \in 0 .. Long /\ upsets \in 0 .. MaxUpsets
  BY TimetableAssumption DEF TimetableInit
<1>2. on \in BOOLEAN /\ staged \in BOOLEAN /\ beat \in BOOLEAN
  BY DEF TimetableInit
<1> QED
  BY <1>1, <1>2 DEF TimetableInit, TimetableTypeOK

\* Time that passes: the hour of some day, and an interval no longer than Long.
LEMMA PassTyped ==
  ASSUME TimetableTypeOK, NEW n \in Nat, Pass(n)
  PROVE  hour' \in 0 .. Hours - 1 /\ since' \in 0 .. Long /\ beat' \in BOOLEAN
<1>1. Hours \in Nat /\ Hours > 0 /\ Long \in Nat /\ hour \in Nat /\ since \in Nat
  BY TimetableAssumption DEF TimetableTypeOK
<1>2. (hour + n) % Hours \in 0 .. Hours - 1
  BY <1>1, Division
<1>3. Min({Long, since + n}) \in 0 .. Long
  BY <1>1, TheSmaller
<1>4. beat' \in BOOLEAN
  BY DEF Pass
<1> QED
  BY <1>2, <1>3, <1>4 DEF Pass

LEMMA TimetableTypesNext ==
  ASSUME TimetableTypeOK, TimetableNext
  PROVE  TimetableTypeOK'
<1>0. MaxUpsets \in Nat /\ Long \in Nat /\ Hours \in Nat
  BY TimetableAssumption
<1>1. Upset => upsets' \in 0 .. MaxUpsets
  BY <1>0 DEF Upset, TimetableTypeOK
<1>2. CASE Tick
  <2>1. beat' \in BOOLEAN
    BY <1>2 DEF Tick
  <2>2. run' \in {"none", "scan", "other"} /\ staged' \in BOOLEAN
    BY <1>2 DEF Tick, Stage, TimetableTypeOK
  <2> QED
    BY <1>2, <2>1, <2>2 DEF Tick, TimetableTypeOK
<1>3. CASE Record
  <2>1. since' = 0 /\ staged' = FALSE
    BY <1>3 DEF Record
  <2>2. staged' \in BOOLEAN
    BY <2>1
  <2>3. since' \in 0 .. Long
    BY <1>0, <2>1
  <2> QED
    BY <1>3, <2>2, <2>3 DEF Record, TimetableTypeOK
<1>4. CASE RunEnds
  BY <1>4 DEF RunEnds, TimetableTypeOK
<1>5. CASE HourPasses
  BY <1>5, PassTyped DEF HourPasses, TimetableTypeOK
<1>6. CASE Nap
  <2>1. PICK n \in 1 .. Hours : Pass(n)
    BY <1>6 DEF Nap
  <2>2. hour' \in 0 .. Hours - 1 /\ since' \in 0 .. Long /\ beat' \in BOOLEAN
    BY <1>0, <2>1, PassTyped
  <2> QED
    BY <1>1, <1>6, <2>2 DEF Nap, TimetableTypeOK
<1>7. CASE RunNow \/ OtherRun
  BY <1>1, <1>7 DEF RunNow, OtherRun, Stage, TimetableTypeOK
<1>8. CASE ScanToggle
  <2>1. on' \in BOOLEAN
    BY <1>8 DEF ScanToggle
  <2> QED
    BY <1>1, <1>8, <2>1 DEF ScanToggle, TimetableTypeOK
<1>9. CASE PutSettings
  BY <1>1, <1>9 DEF PutSettings, TimetableTypeOK
<1>10. CASE Crash
  <2>1. beat' \in BOOLEAN /\ staged' \in BOOLEAN
    BY <1>10 DEF Crash
  <2> QED
    BY <1>1, <1>10, <2>1 DEF Crash, TimetableTypeOK
<1> QED
  BY <1>2, <1>3, <1>4, <1>5, <1>6, <1>7, <1>8, <1>9, <1>10 DEF TimetableNext

\* The prediction: the rest of the interval, then the rest of the way to the window.
\* No hour before it is due, and it is.
LEMMA FirstDue == TimetableTypeOK => NextScanIsFirstDue
<1> SUFFICES ASSUME TimetableTypeOK PROVE NextScanIsFirstDue
  OBVIOUS
<1> DEFINE lo == settings.lo
           every == settings.every
           end == WindowEnd
           wait == IF since >= every THEN 0 ELSE every - since
           h == (hour + wait) % Hours
           roll == RollBy(h)
<1>1. /\ settings \in Settings /\ hour \in Nat /\ since \in Nat
      /\ Hours \in Nat /\ Hours > 0
      /\ every \in Nat /\ lo \in 0 .. Hours - 1 /\ settings.hi \in 0 .. Hours
  BY TimetableConstants DEF TimetableTypeOK
<1>2. end = IF lo + 1 >= settings.hi THEN lo + 1 ELSE settings.hi
  BY <1>1, TheLarger DEF WindowEnd
<1>3. end \in Nat /\ lo < end /\ end <= Hours
  BY <1>1, <1>2
<1>4. wait \in Nat /\ since + wait >= every /\ \A n \in Nat : since + n >= every => wait <= n
  BY <1>1
<1>5. NextScanIn = wait + roll
  BY DEF NextScanIn
<1>6. roll = IF h < lo THEN lo - h ELSE IF h >= end THEN Hours - h + lo ELSE 0
  BY DEF RollBy
<1>7. \A x : InWindow(x) <=> lo <= x /\ x < end
  BY DEF InWindow
<1> HIDE DEF wait
<1>8. h \in 0 .. Hours - 1
  BY <1>1, <1>4, Division
<1>9. \A k \in Nat : /\ h + k < Hours => (hour + wait + k) % Hours = h + k
                     /\ Hours <= h + k /\ h + k < 2 * Hours => (hour + wait + k) % Hours = h + k - Hours
  <2>1. hour + wait \in Nat
    BY <1>1, <1>4
  <2> QED
    BY <1>1, <2>1, ClockHand
<1>10. \A n : DueIn(n) <=> InWindow((hour + n) % Hours) /\ since + n >= every
  BY DEF DueIn
<1> HIDE DEF h, roll, lo, every, end
<1>11. roll \in Nat
  BY <1>1, <1>3, <1>6, <1>8
<1>12. \A k \in Nat : (hour + (wait + k)) % Hours = (hour + wait + k) % Hours
  BY <1>1, <1>4
<1>13. DueIn(wait + roll)
  <2>1. InWindow((hour + (wait + roll)) % Hours)
    <3>1. CASE h < lo
      <4>1. h + roll < Hours /\ h + roll = lo
        BY <1>1, <1>6, <1>8, <3>1
      <4>2. (hour + wait + roll) % Hours = lo
        BY <1>9, <1>11, <4>1
      <4> QED
        BY <1>1, <1>3, <1>7, <1>11, <1>12, <4>2
    <3>2. CASE ~(h < lo) /\ h >= end
      <4>1. h + roll = Hours + lo /\ Hours <= h + roll /\ h + roll < 2 * Hours
        BY <1>1, <1>6, <1>8, <3>2
      <4>2. (hour + wait + roll) % Hours = h + roll - Hours
        BY <1>9, <1>11, <4>1
      <4>3. h + roll - Hours = lo
        BY <1>1, <1>8, <1>11, <4>1
      <4> QED
        BY <1>1, <1>3, <1>7, <1>11, <1>12, <4>2, <4>3
    <3>3. CASE ~(h < lo) /\ ~(h >= end)
      <4>1. roll = 0 /\ h + roll < Hours /\ h + roll = h
        BY <1>1, <1>3, <1>6, <1>8, <3>3
      <4>2. (hour + wait + roll) % Hours = h
        BY <1>9, <1>11, <4>1
      <4>3. lo <= h /\ h < end
        BY <1>1, <1>3, <1>8, <3>3
      <4> QED
        BY <1>7, <1>11, <1>12, <4>2, <4>3
    <3> QED
      BY <3>1, <3>2, <3>3
  <2>2. since + (wait + roll) >= every
    BY <1>1, <1>4, <1>11
  <2> QED
    BY <1>10, <2>1, <2>2
<1>14. ASSUME NEW n \in 0 .. wait + roll, DueIn(n)
       PROVE  n = wait + roll
  <2>1. n \in Nat /\ wait <= n /\ InWindow((hour + n) % Hours)
    BY <1>4, <1>10, <1>14
  <2> DEFINE k == n - wait
  <2>2. k \in Nat /\ k <= roll /\ n = wait + k
    BY <1>4, <1>11, <1>14, <2>1
  <2> HIDE DEF k
  <2>3. lo <= (hour + wait + k) % Hours /\ (hour + wait + k) % Hours < end
    BY <1>7, <1>12, <2>1, <2>2
  <2>4. CASE h < lo
    <3>1. h + k < Hours
      BY <1>1, <1>6, <1>8, <2>2, <2>4
    <3>2. lo <= h + k
      BY <1>9, <2>2, <2>3, <3>1
    <3> QED
      BY <1>1, <1>6, <1>8, <2>2, <2>4, <3>2
  <2>5. CASE ~(h < lo) /\ h >= end
    <3>1. h + k <= Hours + lo
      BY <1>1, <1>6, <1>8, <2>2, <2>5
    <3>2. CASE h + k < Hours
      <4>1. h + k < end
        BY <1>9, <2>2, <2>3, <3>2
      <4> QED
        BY <1>3, <1>8, <2>2, <2>5, <4>1
    <3>3. CASE ~(h + k < Hours)
      <4>1. Hours <= h + k /\ h + k < 2 * Hours
        BY <1>1, <1>8, <2>2, <3>1, <3>3
      <4>2. lo <= h + k - Hours
        BY <1>9, <2>2, <2>3, <4>1
      <4> QED
        BY <1>1, <1>6, <1>8, <2>2, <2>5, <4>2
    <3> QED
      BY <3>2, <3>3
  <2>6. CASE ~(h < lo) /\ ~(h >= end)
    BY <1>6, <2>2, <2>6
  <2> QED
    BY <2>4, <2>5, <2>6
<1> QED
  BY <1>5, <1>13, <1>14 DEF NextScanIsFirstDue

LEMMA TimetableTypesAlways == ServiceSpec => []TimetableTypeOK
<1>1. ServiceInit => TimetableTypeOK
  BY TimetableTypesInit DEF ServiceInit
<1>2. TimetableTypeOK /\ [ServiceNext]_serviceVars => TimetableTypeOK'
  <2> SUFFICES ASSUME TimetableTypeOK, [ServiceNext]_serviceVars PROVE TimetableTypeOK'
    OBVIOUS
  <2>1. CASE TimetableNext
    BY <2>1, TimetableTypesNext
  <2>2. CASE UNCHANGED timetableVars
    BY <2>2 DEF timetableVars, TimetableTypeOK
  <2> QED
    BY <2>1, <2>2 DEF ServiceNext, Moves, serviceVars
<1> QED
  BY <1>1, <1>2, PTL DEF ServiceSpec

\* "When the next scan will start, for the dashboard" (scheduler.py:108): whatever the
\* length of the day, the window, the interval and the time since the last scan, the
\* prediction is the first hour at which a tick finds a scan due.
THEOREM PredictionIsFirstDue == ServiceSpec => []NextScanIsFirstDue
BY TimetableTypesAlways, FirstDue, PTL

----------------------------------------------------------------------------
(* Discovery: the verdict *)

Search == [query : 1 .. Queries + 1, page : 1 .. Pages, seen : SUBSET Cards]
Health == [status : {"ok", "failed"}, jobs : Nat]
Job    == [company : Board, ad : Posting]

\* The points before they are kept between 0 and 100.
Points(p) ==
  50 + If(p.strong, 5) + If(p.junior, 20) + If(p.levelOne /\ ~p.senior, 5)
     + If(p.student, 12) + SkillPoints(p.skills) + YearsPoints(p)
     + PlacePoints(p) + If(Review(p), -12)

LEMMA SkillPointsAre ==
  /\ SkillPoints(0) = 0 /\ SkillPoints(3) = 24 /\ SkillPoints(4) = 32 /\ SkillPoints(5) = 36
BY TheSmaller DEF SkillPoints, If

LEMMA YearsPointsAre ==
  ASSUME NEW p, p.years \in {"none", "few", "some", "many"}
  PROVE  /\ YearsPoints(p) \in Int /\ YearsPoints(p) <= 15
         /\ p.years = "few" => YearsPoints(p) = 15
         /\ p.years = "none" => YearsPoints(p) = 0
         /\ p.years = "some" => YearsPoints(p) = If(p.required, -8) - 4
         /\ p.years = "many" => YearsPoints(p) = If(p.required, -27) - 8
<1>1. CASE p.years = "none"
  BY <1>1 DEF YearsPoints
<1>2. CASE p.years = "few"
  BY <1>2 DEF YearsPoints
<1>3. CASE p.years = "some"
  BY <1>3 DEF YearsPoints, If
<1>4. CASE p.years = "many"
  BY <1>4 DEF YearsPoints, If
<1> QED
  BY <1>1, <1>2, <1>3, <1>4

LEMMA PointsType ==
  ASSUME NEW p \in Posting
  PROVE  /\ Points(p) \in Int /\ SkillPoints(p.skills) \in Int
         /\ YearsPoints(p) \in Int /\ PlacePoints(p) \in Int
<1>1. SkillPoints(p.skills) \in Int
  <2>1. p.skills \in {0, 3, 4, 5}
    BY DEF Posting
  <2> QED
    BY <2>1, SkillPointsAre
<1>2. YearsPoints(p) \in Int
  <2>1. p.years \in {"none", "few", "some", "many"}
    BY DEF Posting
  <2> QED
    BY <2>1, YearsPointsAre
<1>3. PlacePoints(p) \in Int
  BY DEF PlacePoints, If
<1> QED
  BY <1>1, <1>2, <1>3 DEF Points, If

LEMMA ScoreIs ==
  ASSUME NEW p \in Posting
  PROVE  Score(p) = IF Points(p) < 0 THEN 0 ELSE IF Points(p) > 100 THEN 100 ELSE Points(p)
<1> DEFINE sum == Points(p)
<1>1. sum \in Int
  BY PointsType
<1>2. Score(p) = Max({0, Min({100, sum})})
  BY DEF Score, Points
<1> HIDE DEF sum
<1>3. Min({100, sum}) = IF 100 <= sum THEN 100 ELSE sum
  BY <1>1, TheSmaller
<1>4. Min({100, sum}) \in Int
  BY <1>1, <1>3
<1> DEFINE m == Min({100, sum})
<1> HIDE DEF m
<1>5. Score(p) = IF 0 >= m THEN 0 ELSE m
  <2>1. m \in Int
    BY <1>4 DEF m
  <2>2. Score(p) = Max({0, m})
    BY <1>2 DEF m
  <2> QED
    BY <2>1, <2>2, TheLarger
<1>6. Score(p) = IF sum < 0 THEN 0 ELSE IF sum > 100 THEN 100 ELSE sum
  BY <1>1, <1>3, <1>5 DEF m
<1> QED
  BY <1>6 DEF sum

\* q has all that speaks for p, and nothing against it that p has not.
NoWorse(p, q) ==
  /\ p.strong => q.strong
  /\ p.weak = q.weak
  /\ q.notSoftware => p.notSoftware
  /\ q.borderline => p.borderline
  /\ p.junior => q.junior
  /\ q.senior => p.senior
  /\ p.levelOne => q.levelOne
  /\ p.student => q.student
  /\ SkillPoints(p.skills) <= SkillPoints(q.skills)
  /\ YearsPoints(p) <= YearsPoints(q)
  /\ PlacePoints(p) <= PlacePoints(q)
  /\ \A mode \in Modes : Reachable(p, mode) => Reachable(q, mode)

LEMMA NoWorseScores ==
  ASSUME NEW p \in Posting, NEW q \in Posting, NoWorse(p, q)
  PROVE  Score(p) <= Score(q)
<1>1. /\ If(p.strong, 5) <= If(q.strong, 5)
      /\ If(p.junior, 20) <= If(q.junior, 20)
      /\ If(p.levelOne /\ ~p.senior, 5) <= If(q.levelOne /\ ~q.senior, 5)
      /\ If(p.student, 12) <= If(q.student, 12)
      /\ If(Review(p), -12) <= If(Review(q), -12)
  BY DEF NoWorse, Review, If
<1>2. \A c : \A n \in Int : If(c, n) \in Int
  BY DEF If
<1>3. Points(p) <= Points(q)
  BY <1>1, <1>2, PointsType DEF Points, NoWorse
<1> QED
  BY <1>3, PointsType, ScoreIs

LEMMA NoWorseKept ==
  ASSUME NEW p \in Posting, NEW q \in Posting, NoWorse(p, q),
         NEW mode \in Modes, NEW s \in DOMAIN Threshold, Verdict(p, mode, s) = "kept"
  PROVE  Verdict(q, mode, s) = "kept"
<1>1. Software(p) /\ Reachable(p, mode) /\ ~(p.senior /\ ~p.junior) /\ ~(Score(p) < Threshold[s])
  BY DEF Verdict
<1>2. Software(q) /\ Reachable(q, mode) /\ ~(q.senior /\ ~q.junior)
  BY <1>1 DEF NoWorse, Software
<1>3. Threshold[s] \in Int /\ Score(p) \in Int /\ Score(q) \in Int
  BY PointsType, ScoreIs DEF Threshold
<1>4. ~(Score(q) < Threshold[s])
  BY <1>1, <1>3, NoWorseScores
<1> QED
  BY <1>2, <1>4 DEF Verdict

LEMMA SamePlace ==
  ASSUME NEW p, NEW q, q.place = p.place
  PROVE  /\ PlacePoints(q) = PlacePoints(p)
         /\ \A mode \in Modes : Reachable(p, mode) => Reachable(q, mode)
BY DEF PlacePoints, Reachable

LEMMA BetterIsNoWorse ==
  ASSUME NEW p \in Posting, NEW q \in Better(p)
  PROVE  q \in Posting /\ NoWorse(p, q)
<1>0. p.skills \in {0, 3, 4, 5} /\ p.years \in {"none", "few", "some", "many"}
  BY DEF Posting
<1>1. CASE q = [p EXCEPT !.years = "few"]
  <2>1. q \in Posting /\ q.years = "few"
    BY <1>1 DEF Posting
  <2>2. /\ q.strong = p.strong /\ q.weak = p.weak /\ q.notSoftware = p.notSoftware
        /\ q.borderline = p.borderline /\ q.junior = p.junior /\ q.senior = p.senior
        /\ q.levelOne = p.levelOne /\ q.student = p.student
        /\ q.skills = p.skills /\ q.place = p.place
    BY <1>1 DEF Posting
  <2>3. YearsPoints(p) <= YearsPoints(q)
    BY <1>0, <2>1, YearsPointsAre
  <2> QED
    BY <2>1, <2>2, <2>3, SamePlace, PointsType DEF NoWorse
<1>2. CASE q = [p EXCEPT !.required = FALSE]
  <2>1. q \in Posting /\ q.years = p.years
    BY <1>2 DEF Posting
  <2>2. /\ q.strong = p.strong /\ q.weak = p.weak /\ q.notSoftware = p.notSoftware
        /\ q.borderline = p.borderline /\ q.junior = p.junior /\ q.senior = p.senior
        /\ q.levelOne = p.levelOne /\ q.student = p.student
        /\ q.skills = p.skills /\ q.place = p.place
    BY <1>2 DEF Posting
  <2>3. q.required = FALSE
    BY <1>2 DEF Posting
  <2>4. YearsPoints(p) <= YearsPoints(q)
    BY <1>0, <2>1, <2>3, YearsPointsAre DEF If
  <2> QED
    BY <2>1, <2>2, <2>4, SamePlace, PointsType DEF NoWorse
<1>3. CASE q = [p EXCEPT !.place = "israel"]
  <2>1. q \in Posting /\ q.place = "israel"
    BY <1>3 DEF Posting
  <2>2. /\ q.strong = p.strong /\ q.weak = p.weak /\ q.notSoftware = p.notSoftware
        /\ q.borderline = p.borderline /\ q.junior = p.junior /\ q.senior = p.senior
        /\ q.levelOne = p.levelOne /\ q.student = p.student
        /\ q.skills = p.skills /\ q.years = p.years /\ q.required = p.required
    BY <1>3 DEF Posting
  <2>3. PlacePoints(p) <= PlacePoints(q)
    BY <2>1 DEF PlacePoints, If
  <2>4. \A mode \in Modes : Reachable(q, mode)
    BY <2>1 DEF Modes, Reachable
  <2>5. YearsPoints(q) = YearsPoints(p)
    BY <2>2 DEF YearsPoints
  <2> QED
    BY <2>1, <2>2, <2>3, <2>4, <2>5, PointsType DEF NoWorse
<1>4. CASE \E n \in {4, 5} \cap p.skills .. 5 : q = [p EXCEPT !.skills = n]
  <2>1. PICK n \in {4, 5} : p.skills <= n /\ q = [p EXCEPT !.skills = n]
    BY <1>4
  <2>2. q \in Posting /\ q.skills = n
    BY <2>1 DEF Posting
  <2>3. /\ q.strong = p.strong /\ q.weak = p.weak /\ q.notSoftware = p.notSoftware
        /\ q.borderline = p.borderline /\ q.junior = p.junior /\ q.senior = p.senior
        /\ q.levelOne = p.levelOne /\ q.student = p.student
        /\ q.years = p.years /\ q.required = p.required /\ q.place = p.place
    BY <2>1 DEF Posting
  <2>4. SkillPoints(p.skills) <= SkillPoints(q.skills)
    BY <1>0, <2>1, <2>2, SkillPointsAre
  <2>5. YearsPoints(q) = YearsPoints(p)
    BY <2>3 DEF YearsPoints
  <2> QED
    BY <2>2, <2>3, <2>4, <2>5, SamePlace, PointsType DEF NoWorse
<1>5. CASE q \in {[p EXCEPT !.strong = TRUE], [p EXCEPT !.notSoftware = FALSE],
                  [p EXCEPT !.borderline = FALSE], [p EXCEPT !.junior = TRUE],
                  [p EXCEPT !.senior = FALSE], [p EXCEPT !.levelOne = TRUE],
                  [p EXCEPT !.student = TRUE]}
  <2> DEFINE up == /\ q \in Posting
                   /\ q.skills = p.skills /\ q.years = p.years
                   /\ q.required = p.required /\ q.place = p.place
                   /\ p.strong => q.strong
                   /\ p.weak = q.weak
                   /\ q.notSoftware => p.notSoftware
                   /\ q.borderline => p.borderline
                   /\ p.junior => q.junior
                   /\ q.senior => p.senior
                   /\ p.levelOne => q.levelOne
                   /\ p.student => q.student
  <2>1. ASSUME q = [p EXCEPT !.strong = TRUE] PROVE up
    BY <2>1 DEF Posting
  <2>2. ASSUME q = [p EXCEPT !.notSoftware = FALSE] PROVE up
    BY <2>2 DEF Posting
  <2>3. ASSUME q = [p EXCEPT !.borderline = FALSE] PROVE up
    BY <2>3 DEF Posting
  <2>4. ASSUME q = [p EXCEPT !.junior = TRUE] PROVE up
    BY <2>4 DEF Posting
  <2>5. ASSUME q = [p EXCEPT !.senior = FALSE] PROVE up
    BY <2>5 DEF Posting
  <2>6. ASSUME q = [p EXCEPT !.levelOne = TRUE] PROVE up
    BY <2>6 DEF Posting
  <2>7. ASSUME q = [p EXCEPT !.student = TRUE] PROVE up
    BY <2>7 DEF Posting
  <2>8. up
    BY <1>5, <2>1, <2>2, <2>3, <2>4, <2>5, <2>6, <2>7
  <2>9. YearsPoints(q) = YearsPoints(p)
    BY <2>8 DEF YearsPoints
  <2> QED
    BY <2>8, <2>9, SamePlace, PointsType DEF NoWorse
<1> QED
  BY <1>1, <1>2, <1>3, <1>4, <1>5 DEF Better

\* "a hard requirement is a wall, a preference is not" (scoring.py:221).
LEMMA VerdictsOfPostings ==
  ASSUME NEW p \in Posting, NEW mode \in Modes, NEW s \in DOMAIN Threshold,
         Verdict(p, mode, s) = "kept"
  PROVE  /\ \A q \in Better(p) : Verdict(q, mode, s) = "kept"
         /\ \A r \in DOMAIN Threshold :
              Threshold[r] <= Threshold[s] => Verdict(p, mode, r) = "kept"
         /\ Verdict(p, "anywhere", s) = "kept"
<1>1. \A q \in Better(p) : Verdict(q, mode, s) = "kept"
  BY BetterIsNoWorse, NoWorseKept
<1>2. Software(p) /\ Reachable(p, mode) /\ ~(p.senior /\ ~p.junior) /\ ~(Score(p) < Threshold[s])
  BY DEF Verdict
<1>3. ASSUME NEW r \in DOMAIN Threshold, Threshold[r] <= Threshold[s]
      PROVE  Verdict(p, mode, r) = "kept"
  <2>1. Threshold[r] \in Int /\ Threshold[s] \in Int /\ Score(p) \in Int
    BY PointsType, ScoreIs DEF Threshold
  <2>2. ~(Score(p) < Threshold[r])
    BY <1>2, <1>3, <2>1
  <2> QED
    BY <1>2, <2>2 DEF Verdict
<1>4. Reachable(p, "anywhere")
  BY DEF Reachable
<1> QED
  BY <1>1, <1>2, <1>3, <1>4 DEF Verdict

----------------------------------------------------------------------------
(* Discovery: what a scan promises *)

\* The record of a board that the list names once, against the postings kept of it.
Fits(b) ==
  /\ Cardinality(From(b)) <= health[b].jobs
  /\ health[b].status = "failed" => From(b) = {}

CountsFit ==
  /\ \A j \in jobs : j.company \in DOMAIN health
  /\ \A b \in DOMAIN health : NamedOnce(b) => Fits(b)

\* The best, as many as there is room for.
PickedBest ==
  /\ chosen \subseteq Relevant
  /\ Cardinality(chosen) = Min({Cap, Cardinality(Relevant)})
  /\ \A j \in chosen : \A k \in Relevant \ chosen : GoesBefore(j, k)

\* The boards with a record are those before the ones left to ask, but for those
\* that cannot be asked.
AskedAreBefore ==
  /\ \A i \in 1 .. Len(todo) : todo[i] = Boards[Len(Boards) - Len(todo) + i]
  /\ DOMAIN health = {Boards[i] : i \in 1 .. Len(Boards) - Len(todo)} \ Malformed

DiscoveryTyped ==
  /\ phase \in {"search", "ask", "judge", "picked", "error", "cancelled"}
  /\ search \in Search
  /\ todo \in Seq(Board) /\ Len(todo) <= Len(Boards)
  /\ DOMAIN health \subseteq Board /\ \A b \in DOMAIN health : health[b] \in Health
  /\ jobs \in SUBSET Job /\ IsFiniteSet(jobs)
  /\ chosen \subseteq jobs

ScanInv ==
  /\ DiscoveryTyped
  /\ AskedAreBefore
  /\ phase \notin {"error", "cancelled"} => CountsFit
  /\ phase \in {"judge", "picked"} => todo = <<>>
  /\ phase # "picked" => chosen = {}
  /\ phase = "picked" => PickedBest

LEMMA DiscoveryConstants ==
  /\ Boards \in Seq(Board) /\ Len(Boards) \in Nat
  /\ Queries \in Nat /\ Pages \in Nat /\ Pages > 0 /\ Cap \in Nat
  /\ Mode \in Modes /\ Strictness \in DOMAIN Threshold /\ MaxSkipped \in Nat
  /\ \A b \in Board : Listing[b] \subseteq Posting
BY DiscoveryAssumption

LEMMA ScanTyped == ScanInv => DiscoveryTypeOK
BY DEF ScanInv, DiscoveryTyped, DiscoveryTypeOK, Search, Health, Job

LEMMA ScanInvInit == DiscoveryInit => ScanInv
<1> SUFFICES ASSUME DiscoveryInit PROVE ScanInv
  OBVIOUS
<1>1. search \in Search
  BY DiscoveryConstants DEF DiscoveryInit, FirstQuery, Search
<1>2. DOMAIN health = {} /\ jobs = {} /\ IsFiniteSet(jobs)
  BY FS_EmptySet DEF DiscoveryInit
<1>3. todo = Boards /\ phase = "search" /\ chosen = {}
  BY DEF DiscoveryInit
<1>4. AskedAreBefore
  BY <1>2, <1>3, DiscoveryConstants DEF AskedAreBefore
<1>5. DiscoveryTyped
  BY <1>1, <1>2, <1>3, DiscoveryConstants DEF DiscoveryTyped
<1> QED
  BY <1>1, <1>2, <1>3, <1>4, <1>5 DEF ScanInv, CountsFit

\* A board that is asked: its record, and what it listed, one posting or none.
LEMMA ScanInvAnswer ==
  ASSUME ScanInv, Asking, NEW b, b = Head(todo), NEW status \in {"ok", "failed"},
         NEW listed, listed = {} \/ \E p \in Posting : listed = {p}, NEW skipped \in Nat,
         b \notin Malformed, status = "failed" => listed = {},
         Answered(b, status, listed, skipped, Tail(todo))
  PROVE  ScanInv'
<1> DEFINE fresh == {[company |-> b, ad |-> p] : p \in listed}
           done == Len(Boards) - Len(todo)
           count == Cardinality(listed) + skipped
<1>0. /\ DiscoveryTyped /\ AskedAreBefore /\ phase = "ask" /\ CountsFit /\ chosen = {}
      /\ todo # <<>>
  BY DEF ScanInv, Asking
<1>1. /\ todo \in Seq(Board) /\ Len(todo) \in Nat /\ Len(todo) > 0 /\ Len(todo) <= Len(Boards)
      /\ b = todo[1] /\ b \in Board
  BY <1>0 DEF DiscoveryTyped
<1>2. /\ Tail(todo) \in Seq(Board) /\ Len(Tail(todo)) = Len(todo) - 1
      /\ \A i \in 1 .. Len(Tail(todo)) : Tail(todo)[i] = todo[i + 1]
  BY <1>1
<1>3. done \in Nat /\ done + 1 <= Len(Boards) /\ b = Boards[done + 1]
  BY <1>0, <1>1, DiscoveryConstants DEF AskedAreBefore
<1>4. /\ todo' = Tail(todo) /\ jobs' = jobs \cup fresh
      /\ UNCHANGED <<phase, search, chosen>>
      /\ health' = [c \in DOMAIN health \cup {b} |->
                      IF c = b THEN [status |-> status, jobs |-> count] ELSE health[c]]
  BY DEF Answered
<1>5. Cardinality(listed) \in Nat /\ IsFiniteSet(listed)
  <2>1. CASE listed = {}
    BY <2>1, FS_EmptySet
  <2>2. CASE \E p \in Posting : listed = {p}
    <3>1. PICK p \in Posting : listed = {p}
      BY <2>2
    <3>2. IsFiniteSet({p}) /\ Cardinality({p}) = 1
      BY FS_Singleton
    <3> QED
      BY <3>1, <3>2
  <2> QED
    BY <2>1, <2>2
<1>6. fresh \subseteq Job /\ IsFiniteSet(fresh) /\ Cardinality(fresh) = Cardinality(listed)
  <2>1. CASE listed = {}
    <3>1. fresh = {}
      BY <2>1
    <3> QED
      BY <2>1, <3>1, FS_EmptySet
  <2>2. CASE \E p \in Posting : listed = {p}
    <3>1. PICK p \in Posting : listed = {p}
      BY <2>2
    <3>2. fresh = {[company |-> b, ad |-> p]}
      BY <3>1
    <3>3. Cardinality({p}) = 1 /\ \A x : IsFiniteSet({x}) /\ Cardinality({x}) = 1
      BY FS_Singleton
    <3>4. Cardinality(listed) = 1 /\ Cardinality(fresh) = 1 /\ IsFiniteSet(fresh)
      BY <3>1, <3>2, <3>3
    <3> QED
      BY <1>1, <3>2, <3>4 DEF Job
  <2> QED
    BY <2>1, <2>2
<1>7. \A j \in fresh : j.company = b
  OBVIOUS
<1> HIDE DEF fresh, done, count
<1>8. DOMAIN health' = DOMAIN health \cup {b} /\ health'[b].jobs = count /\ health'[b].status = status
      /\ health'[b] \in Health /\ \A c \in DOMAIN health : c # b => health'[c] = health[c]
  BY <1>4, <1>5 DEF Health, count
<1>9. DiscoveryTyped'
  <2>1. jobs' \in SUBSET Job /\ IsFiniteSet(jobs')
    BY <1>0, <1>4, <1>6, FS_Union DEF DiscoveryTyped
  <2>2. DOMAIN health' \subseteq Board /\ \A c \in DOMAIN health' : health'[c] \in Health
    BY <1>0, <1>1, <1>8 DEF DiscoveryTyped
  <2>3. todo' \in Seq(Board) /\ Len(todo') <= Len(Boards)
    BY <1>1, <1>2, <1>4, DiscoveryConstants
  <2> QED
    BY <1>0, <1>4, <2>1, <2>2, <2>3 DEF DiscoveryTyped
<1>10. AskedAreBefore'
  <2>1. Len(Boards) - Len(todo') = done + 1
    BY <1>1, <1>2, <1>4, DiscoveryConstants DEF done
  <2>2. \A i \in 1 .. Len(todo') : todo'[i] = Boards[done + 1 + i]
    BY <1>0, <1>1, <1>2, <1>4, DiscoveryConstants DEF AskedAreBefore, done
  <2>3. DOMAIN health = {Boards[i] : i \in 1 .. done} \ Malformed
    BY <1>0 DEF AskedAreBefore, done
  <2>4. 1 .. done + 1 = (1 .. done) \cup {done + 1}
    BY <1>3
  <2>5. DOMAIN health' = {Boards[i] : i \in 1 .. done + 1} \ Malformed
    BY <1>3, <1>8, <2>3, <2>4
  <2> QED
    BY <2>1, <2>2, <2>5 DEF AskedAreBefore
<1>11. CountsFit'
  <2>1. \A j \in jobs' : j.company \in DOMAIN health'
    BY <1>0, <1>4, <1>7, <1>8 DEF CountsFit
  <2>2. \A c : c # b => From(c)' = From(c)
    BY <1>4, <1>7 DEF From
  <2>3. ASSUME NEW c \in DOMAIN health', c # b, NamedOnce(c)
        PROVE  Fits(c)'
    <3>1. Fits(c) /\ From(c)' = From(c) /\ health'[c] = health[c]
      BY <1>0, <1>8, <2>2, <2>3 DEF CountsFit
    <3> QED
      BY <3>1 DEF Fits
  <2>4. ASSUME NamedOnce(b)
        PROVE  Fits(b)'
    \* No record of it before, so nothing from it either.
    <3>1. b \notin DOMAIN health
      BY <1>0, <1>3, <2>4, DiscoveryConstants DEF AskedAreBefore, NamedOnce, done
    <3>2. From(b)' = fresh
      BY <1>0, <1>4, <1>7, <3>1 DEF CountsFit, From
    <3>3. Cardinality(fresh) <= count
      BY <1>5, <1>6 DEF count
    <3>4. status = "failed" => fresh = {}
      BY DEF fresh
    <3> QED
      BY <1>8, <3>2, <3>3, <3>4 DEF Fits
  <2>5. ASSUME NEW c \in DOMAIN health', NamedOnce(c)'
        PROVE  Fits(c)'
    BY <2>3, <2>4, <2>5 DEF NamedOnce
  <2> QED
    BY <2>1, <2>5 DEF CountsFit
<1> QED
  BY <1>0, <1>4, <1>9, <1>10, <1>11 DEF ScanInv

LEMMA SearchStepTyped ==
  ASSUME ScanInv,
         SearchFails \/ \E rows \in SUBSET Cards, full \in BOOLEAN : SearchPage(rows, full)
  PROVE  search' \in Search
<1>1. search \in Search /\ Queries \in Nat /\ Pages \in Nat /\ Pages > 0
  BY DiscoveryConstants DEF ScanInv, DiscoveryTyped
<1>2. /\ search.query \in 1 .. Queries + 1 /\ search.page \in 1 .. Pages
      /\ search.seen \subseteq Cards
  BY <1>1 DEF Search
<1>3. search.query <= Queries
  <2>1. CASE SearchFails
    BY <2>1 DEF SearchFails
  <2>2. ASSUME NEW rows \in SUBSET Cards, NEW full \in BOOLEAN, SearchPage(rows, full)
        PROVE  search.query <= Queries
    BY <2>2 DEF SearchPage
  <2> QED
    BY <2>1, <2>2
<1>4. ASSUME NEW seen \in SUBSET Cards
      PROVE  NextQuery(seen) \in Search
  <2>1. search.query + 1 \in 1 .. Queries + 1 /\ 1 \in 1 .. Pages
    BY <1>1, <1>2, <1>3
  <2> QED
    BY <2>1 DEF Search, NextQuery
<1>5. CASE SearchFails
  <2>1. search' = NextQuery(search.seen)
    BY <1>5 DEF SearchFails
  <2> QED
    BY <1>2, <1>4, <2>1
<1>6. ASSUME NEW rows \in SUBSET Cards, NEW full \in BOOLEAN, SearchPage(rows, full)
      PROVE  search' \in Search
  <2> DEFINE turned == [search EXCEPT !.page = @ + 1, !.seen = @ \cup rows]
  <2>1. \/ search' = turned /\ search.page < Pages
        \/ search' = NextQuery(search.seen \cup rows)
    BY <1>1, <1>6 DEF SearchPage, Search
  <2>2. search.page < Pages => turned \in Search
    <3>1. search.page < Pages => search.page + 1 \in 1 .. Pages
      BY <1>1, <1>2
    <3> QED
      BY <1>1, <1>2, <3>1 DEF Search
  <2>3. NextQuery(search.seen \cup rows) \in Search
    BY <1>2, <1>4
  <2> HIDE DEF turned
  <2> QED
    BY <2>1, <2>2, <2>3
<1> QED
  BY <1>5, <1>6

LEMMA ScanInvNext ==
  ASSUME ScanInv, DiscoveryNext
  PROVE  ScanInv'
<1>0. DiscoveryTyped /\ AskedAreBefore
  BY DEF ScanInv
<1>1. ASSUME NEW rows \in SUBSET Cards, NEW full \in BOOLEAN, SearchPage(rows, full)
      PROVE  ScanInv'
  <2>1. search' \in Search
    BY <1>1, SearchStepTyped
  <2>2. UNCHANGED <<phase, todo, health, jobs, chosen>>
    BY <1>1 DEF SearchPage
  <2>3. phase = "search"
    BY <1>1 DEF SearchPage
  <2> QED
    BY <1>0, <2>1, <2>2, <2>3
    DEF ScanInv, DiscoveryTyped, AskedAreBefore, CountsFit, Fits, From
<1>2. CASE SearchFails
  <2>1. search' \in Search
    BY <1>2, SearchStepTyped
  <2>2. phase = "search" /\ UNCHANGED <<phase, todo, health, jobs, chosen>>
    BY <1>2 DEF SearchFails
  <2> QED
    BY <1>0, <2>1, <2>2
    DEF ScanInv, DiscoveryTyped, AskedAreBefore, CountsFit, Fits, From
<1>3. CASE SearchEnds
  <2>1. search' \in Search
    BY <1>3, DiscoveryConstants DEF SearchEnds, FirstQuery, Search
  <2>2. phase = "search" /\ phase' = "ask" /\ UNCHANGED <<todo, health, jobs, chosen>>
    BY <1>3 DEF SearchEnds
  <2> QED
    BY <1>0, <2>1, <2>2
    DEF ScanInv, DiscoveryTyped, AskedAreBefore, CountsFit, Fits, From
<1>4. ASSUME Calling, NEW n \in 0 .. MaxSkipped, NEW p \in Listing[Head(todo)], Ask({p}, n)
      PROVE  ScanInv'
  <2>1. Asking /\ Head(todo) \in Board /\ Head(todo) \notin Malformed /\ n \in Nat
    BY <1>0, <1>4, DiscoveryConstants DEF Calling, Asking, DiscoveryTyped
  <2>2. p \in Posting
    BY <2>1, DiscoveryConstants
  <2>3. PICK b \in Board : b = Head(todo)
    BY <2>1
  <2>4. Answered(b, "ok", {p}, n, Tail(todo))
    BY <1>4, <2>3 DEF Ask, Answered
  <2> QED
    BY <2>1, <2>2, <2>3, <2>4, ScanInvAnswer
<1>5. CASE (\E n \in 0 .. MaxSkipped : Ask({}, n)) \/ AskFails
  <2>1. Asking /\ Head(todo) \in Board /\ Head(todo) \notin Malformed
    BY <1>0, <1>5 DEF Ask, AskFails, Calling, Asking, DiscoveryTyped
  <2>2. PICK b \in Board : b = Head(todo)
    BY <2>1
  <2>3. (\E n \in Nat : Answered(b, "ok", {}, n, Tail(todo)))
        \/ Answered(b, "failed", {}, 0, Tail(todo))
    BY <1>5, <2>2, DiscoveryConstants DEF Ask, AskFails, AfterFailure
  <2> QED
    BY <2>1, <2>2, <2>3, ScanInvAnswer
<1>6. CASE AskRaises \/ CancelScan
  <2>1. jobs' = {} /\ phase' \in {"error", "cancelled"} /\ phase = "ask"
        /\ UNCHANGED <<search, todo, health, chosen>>
    BY <1>6 DEF AskRaises, CancelScan, Calling, Asking
  <2> QED
    BY <1>0, <2>1, FS_EmptySet DEF ScanInv, DiscoveryTyped, AskedAreBefore
<1>7. CASE AskedAll
  BY <1>0, <1>7 DEF AskedAll, ScanInv, DiscoveryTyped, AskedAreBefore, CountsFit, Fits, From
<1>8. CASE Pick
  <2>1. chosen' \in kSubset(Min({Cap, Cardinality(Relevant)}), Relevant)
    BY <1>8 DEF Pick
  <2>2. chosen' \subseteq Relevant /\ Cardinality(chosen') = Min({Cap, Cardinality(Relevant)})
    BY <2>1 DEF kSubset
  <2>3. phase = "judge" /\ phase' = "picked" /\ UNCHANGED <<search, todo, health, jobs>>
    BY <1>8 DEF Pick
  <2>4. Relevant' = Relevant /\ Relevant \subseteq jobs
    BY <2>3 DEF Relevant
  <2>5. \A j \in chosen' : \A k \in Relevant \ chosen' : GoesBefore(j, k)
    BY <1>8 DEF Pick
  <2>6. PickedBest'
    BY <2>2, <2>4, <2>5 DEF PickedBest, GoesBefore
  <2> QED
    BY <1>0, <2>2, <2>3, <2>4, <2>6
    DEF ScanInv, DiscoveryTyped, AskedAreBefore, CountsFit, Fits, From
<1>9. CASE Skip
  <2>1. /\ phase = "ask" /\ todo' = Tail(todo) /\ Head(todo) \in Malformed /\ todo # <<>>
        /\ UNCHANGED <<phase, search, health, jobs, chosen>>
    BY <1>9 DEF Skip, Asking
  <2>2. /\ todo \in Seq(Board) /\ Len(todo) \in Nat /\ Len(todo) > 0 /\ Len(todo) <= Len(Boards)
    BY <1>0, <2>1 DEF DiscoveryTyped
  <2>3. /\ todo' \in Seq(Board) /\ Len(todo') = Len(todo) - 1 /\ Head(todo) = todo[1]
        /\ \A i \in 1 .. Len(todo') : todo'[i] = todo[i + 1]
    BY <2>1, <2>2
  <2> DEFINE done == Len(Boards) - Len(todo)
  <2>4. done \in Nat /\ done + 1 = Len(Boards) - Len(todo')
    BY <2>2, <2>3, DiscoveryConstants
  <2>5. Boards[done + 1] \in Malformed
    BY <1>0, <2>1, <2>2, <2>3, <2>4 DEF AskedAreBefore
  <2>6. 1 .. done + 1 = (1 .. done) \cup {done + 1}
    BY <2>4
  <2>7. DOMAIN health' = {Boards[i] : i \in 1 .. done + 1} \ Malformed
    BY <1>0, <2>1, <2>4, <2>5, <2>6 DEF AskedAreBefore
  <2>8. \A i \in 1 .. Len(todo') : todo'[i] = Boards[done + 1 + i]
    BY <1>0, <2>2, <2>3, <2>4, DiscoveryConstants DEF AskedAreBefore
  <2>9. AskedAreBefore'
    BY <2>4, <2>7, <2>8 DEF AskedAreBefore
  <2>10. DiscoveryTyped'
    BY <1>0, <2>1, <2>2, <2>3, DiscoveryConstants DEF DiscoveryTyped
  <2> QED
    BY <2>1, <2>9, <2>10 DEF ScanInv, CountsFit, Fits, From
<1> QED
  BY <1>1, <1>2, <1>3, <1>4, <1>5, <1>6, <1>7, <1>8, <1>9 DEF DiscoveryNext, Ask

LEMMA ScanInvLost == ScanInv => NothingLost
<1> SUFFICES ASSUME ScanInv, phase = "picked"
             PROVE  /\ DOMAIN health = Board \ Malformed
                    /\ \A b \in DOMAIN health : NamedOnce(b) => Fits(b)
                    /\ chosen \subseteq Relevant
                    /\ \A k \in Relevant \ chosen :
                         /\ Cardinality(chosen) = Cap
                         /\ \A j \in chosen : j.company \in Blocked => k.company \in Blocked
  BY DEF NothingLost, Fits
<1>1. Len(todo) = 0 /\ AskedAreBefore /\ CountsFit /\ PickedBest /\ IsFiniteSet(jobs)
  BY DEF ScanInv, DiscoveryTyped
<1>2. DOMAIN health = Board \ Malformed
  BY <1>1, DiscoveryConstants DEF AskedAreBefore, Board
<1>3. ASSUME NEW k \in Relevant \ chosen
      PROVE  /\ Cardinality(chosen) = Cap
             /\ \A j \in chosen : j.company \in Blocked => k.company \in Blocked
  <2>1. IsFiniteSet(Relevant) /\ Cardinality(Relevant) \in Nat
    BY <1>1, FS_Subset, FS_CardinalityType DEF Relevant
  <2>2. chosen # Relevant /\ chosen \subseteq Relevant
    BY <1>1, <1>3 DEF PickedBest
  <2>3. Cardinality(chosen) < Cardinality(Relevant)
    BY <2>1, <2>2, FS_Subset, FS_CardinalityType
  <2>4. Cardinality(chosen) = Min({Cap, Cardinality(Relevant)})
    BY <1>1 DEF PickedBest
  <2>5. Min({Cap, Cardinality(Relevant)}) \in {Cap, Cardinality(Relevant)}
    BY <2>1, DiscoveryConstants, TheSmaller
  <2>6. Cardinality(chosen) = Cap
    BY <2>3, <2>4, <2>5, <2>1, DiscoveryConstants
  <2> QED
    BY <1>1, <1>3, <2>6 DEF PickedBest, GoesBefore
<1> QED
  BY <1>1, <1>2, <1>3 DEF CountsFit, PickedBest

LEMMA ScanInvVerdicts == ScanInv => VerdictIsMonotone
<1>1. ScanInv => \A j \in jobs : j.ad \in Posting
  BY DEF ScanInv, DiscoveryTyped, Job
<1> QED
  BY <1>1, VerdictsOfPostings DEF VerdictIsMonotone

LEMMA ScanInvAlways == ServiceSpec => []ScanInv
<1>1. ServiceInit => ScanInv
  BY ScanInvInit DEF ServiceInit
<1>2. ScanInv /\ [ServiceNext]_serviceVars => ScanInv'
  <2> SUFFICES ASSUME ScanInv, [ServiceNext]_serviceVars PROVE ScanInv'
    OBVIOUS
  <2>1. CASE DiscoveryNext
    BY <2>1, ScanInvNext
  <2>2. CASE UNCHANGED discoveryVars
    <3>1. UNCHANGED <<phase, search, todo, health, jobs, chosen>>
      BY <2>2 DEF discoveryVars
    <3> QED
      BY <3>1 DEF ScanInv, DiscoveryTyped, AskedAreBefore, CountsFit, Fits, From, NamedOnce,
             PickedBest, Relevant, GoesBefore
  <2> QED
    BY <2>1, <2>2 DEF ServiceNext, Moves, serviceVars
<1> QED
  BY <1>1, <1>2, PTL DEF ServiceSpec

\* "test_a_dead_board_is_recorded_not_raised" (tests/test_new_channels.py:63): whatever
\* the list of boards, which of them are dead, empty, malformed or named twice, what they
\* list and the cap, a scan that is not cut short has a record of every board it could
\* ask, no record counts less than was kept of its board, and no relevant posting is left
\* while there is room or a company that has stopped us is preferred to its own.
THEOREM ScansLoseNothing == ServiceSpec => []NothingLost
BY ScanInvAlways, ScanInvLost, PTL

\* "a hard requirement is a wall, a preference is not" (scoring.py:221): for every posting
\* there can be, what speaks for it never costs it its place, nor does a looser setting.
THEOREM BetterIsNeverDropped == ServiceSpec => []VerdictIsMonotone
BY ScanInvAlways, ScanInvVerdicts, PTL

----------------------------------------------------------------------------
(* all the parts *)

\* Each variable of the four parts keeps its type: no table of sessions, cursor, clock or
\* record of a scan is ever outside its range.
THEOREM ServiceTypes == ServiceSpec => []ServiceTypeOK
<1>1. AccessTyped /\ StreamInv /\ TimetableTypeOK /\ ScanInv => ServiceTypeOK
  BY AccessTypedIs, StreamInvTypes, ScanTyped DEF ServiceTypeOK
<1> QED
  BY <1>1, GuessesAlways, StreamInvAlways, TimetableTypesAlways, ScanInvAlways, PTL
=============================================================================
