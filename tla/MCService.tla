----------------------------- MODULE MCService ------------------------------
(* A small instance of Service for TLC. *)
EXTENDS Service

CONSTANTS laptop, phone, c1, c2

\* Every hour, a long interval, a window that ends before it begins, and one hour
\* of the day with an interval longer than the day.
SomeSettings == {[every |-> 1, lo |-> 2, hi |-> 5], [every |-> 3, lo |-> 1, hi |-> 6],
                 [every |-> 2, lo |-> 4, hi |-> 2], [every |-> 7, lo |-> 5, hi |-> 6]}

\* The first cannot be asked; the last has stopped us before.
SomeBoards == <<"colonless", "acme", "walled">>

\* What a strong title adds to a weak one, and years that nobody asks for, make no
\* difference.
Telling == {p \in Posting : (p.strong => p.weak) /\ (p.years = "none" => ~p.required)
                              /\ (p.years = "few" => ~p.required) /\ p.skills # 3}
Typical == [strong |-> TRUE, weak |-> TRUE, notSoftware |-> FALSE, borderline |-> FALSE,
            junior |-> FALSE, senior |-> FALSE, levelOne |-> FALSE, student |-> FALSE,
            skills |-> 3, years |-> "none", required |-> FALSE, place |-> "israel"]
Listings == [b \in {"colonless", "acme", "walled"} |->
               CASE b = "acme" -> Telling [] b = "walled" -> {Typical} [] OTHER -> {}]
=============================================================================
