------------------------------ MODULE MCForms -------------------------------
(* A small instance of Forms for TLC. *)
EXTENDS Forms

CONSTANTS g, h, b, wall, s, li

\* Forms that can be sent by each kind of adapter, a hosted one of a borderline
\* title, one behind a captcha and one that asks for a password.
Sites == [r \in Row |-> CASE r = g -> "greenhouse" [] r = li -> "linkedin" [] OTHER -> "hosted"]
Steps == [r \in Row |-> CASE r = g  -> <<{"name", "link"}>>
                          [] r = h  -> <<{"name", "link", "choice"}>>
                          [] r \in {b, wall} -> <<{"name"}>>
                          [] r = s  -> <<{"name", "secret"}>>
                          [] r = li -> <<{"name", "choice"}, {"essay"}>>]
=============================================================================
