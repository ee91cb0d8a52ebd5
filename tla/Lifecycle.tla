------------------------------ MODULE Lifecycle ------------------------------
(***************************************************************************)
(* What CV Sender promises about one job application, with no run, worker, *)
(* thread or crash in it.  A row is filled automatically, but it reaches   *)
(* the employer only on a human's word, once for each time the word was    *)
(* given; 'sent' always has somebody vouching for it and is final; and the *)
(* only automatic way out of an interrupted send is back to the human.     *)
(***************************************************************************)
EXTENDS Naturals, FiniteSets

CONSTANTS Item

VARIABLES
  state,      \* what the row shows
  voucher,    \* who vouched for its being sent: the form's answer or the human
  consent,    \* rows with a human's word that has not been used
  submitted   \* rows that have reached the employer

lifeVars == <<state, voucher, consent, submitted>>

Stuck == {"needs_input", "failed"}
Open  == Stuck \cup {"ready", "sending", "sent_unverified"}

LifeInit ==
  /\ state = [i \in Item |-> "none"]
  /\ voucher = [i \in Item |-> "none"]
  /\ consent = {}
  /\ submitted = {}

Set(S, to) == state' = [i \in Item |-> IF i \in S THEN to ELSE state[i]]

Among(S, states) == \A i \in S : state[i] \in states

Stage(S) ==
  /\ Among(S, {"none"}) /\ Set(S, "queued")
  /\ UNCHANGED <<voucher, consent, submitted>>

Fill(i) ==
  /\ state[i] = "queued" /\ Set({i}, "preparing")
  /\ UNCHANGED <<voucher, consent, submitted>>

\* A filled row waits for a word; one that could not be filled, for an answer.
Filled(i) ==
  /\ state[i] = "preparing"
  /\ \E to \in Stuck \cup {"ready"} : Set({i}, to)
  /\ UNCHANGED <<voucher, consent, submitted>>

Confirm(S) ==
  /\ Among(S, {"ready"}) /\ Set(S, "sending")
  /\ consent' = consent \cup S
  /\ UNCHANGED <<voucher, submitted>>

Submit(i) ==
  /\ i \in consent
  /\ consent' = consent \ {i}
  /\ submitted' = submitted \cup {i}
  /\ UNCHANGED <<state, voucher>>

\* Only what was submitted can be taken for sent, and only with evidence.
Sent(i) ==
  /\ state[i] = "sending" /\ i \in submitted
  /\ Set({i}, "sent")
  /\ voucher' = [voucher EXCEPT ![i] = "adapter"]
  /\ UNCHANGED <<consent, submitted>>

\* A send that ended in anything else, or was put off.
NotSent(i) ==
  /\ state[i] = "sending"
  /\ \E to \in Stuck \cup {"ready"} : Set({i}, to)
  /\ UNCHANGED <<voucher, consent, submitted>>

Unverified(i) ==
  /\ state[i] = "sending" /\ i \in submitted
  /\ Set({i}, "sent_unverified")
  /\ UNCHANGED <<voucher, consent, submitted>>

\* After a crash or a stall: nothing is taken for sent, nothing is sent again.
Recover(S, T) ==
  /\ Among(S, {"sending"}) /\ Among(T, {"preparing"})
  /\ state' = [i \in Item |-> IF i \in S THEN "needs_input"
                              ELSE IF i \in T THEN "queued" ELSE state[i]]
  /\ UNCHANGED <<voucher, consent, submitted>>

HumanSent(i) ==
  /\ state[i] \in Open /\ Set({i}, "sent")
  /\ voucher' = [voucher EXCEPT ![i] = "user"]
  /\ UNCHANGED <<consent, submitted>>

HumanDrops(i) ==
  /\ state[i] \in Open /\ Set({i}, "skipped")
  /\ UNCHANGED <<voucher, consent, submitted>>

HumanAnswers(S) ==
  /\ Among(S, Stuck) /\ Set(S, "queued")
  /\ UNCHANGED <<voucher, consent, submitted>>

LifeNext ==
  \/ \E S \in SUBSET Item :
       Stage(S) \/ Confirm(S) \/ HumanAnswers(S) \/ \E T \in SUBSET Item : Recover(S, T)
  \/ \E i \in Item :
       \/ Fill(i) \/ Filled(i) \/ Submit(i) \/ Sent(i) \/ NotSent(i) \/ Unverified(i)
       \/ HumanSent(i) \/ HumanDrops(i)

LifeSpec == LifeInit /\ [][LifeNext]_lifeVars
=============================================================================
