----------------------------- MODULE MCPostings -----------------------------
(* Small instances of Postings for TLC. *)
EXTENDS Postings

Posting1 == [board |-> "greenhouse", id |-> 1, role |-> "backend", desc |-> "long",
             city |-> "tel aviv", site |-> "acme/1", tracking |-> FALSE]
\* The same one, with another description.
Edited1  == [Posting1 EXCEPT !.desc = "short"]
\* The same text under a new id.
Repost   == [Posting1 EXCEPT !.id = 2, !.site = "acme/2"]
\* The same position and address on another board, with tracking parameters.
Elsewhere == [Posting1 EXCEPT !.board = "linkedin", !.id = 9, !.desc = "none",
                              !.tracking = TRUE]

\* The same one, under another title.
Retitled == [Posting1 EXCEPT !.role = "server"]

AllAds == {Posting1, Edited1, Repost, Elsewhere, Retitled}
Histories == {<<<<Posting1, Repost>>, <<Edited1, Elsewhere>>, <<Repost, Elsewhere>>>>,
              <<<<Posting1>>, <<Retitled, Elsewhere>>, <<Retitled>>>>}
Listings == {[d \in 0 .. MaxDay |-> h[d + 1]] : h \in Histories}
=============================================================================
