----------------------------- MODULE MCWeTrakr -----------------------------
(* Instances of WeTrakr for TLC.                                           *)
EXTENDS WeTrakr, TLC

CONSTANTS i1, i2

Sections == {{"watched", "lists"}, {"ratings", "comments"}}

AllOrNone == Sections \cup {{}}

Cores == {{"watched", "ratings"}}

OneByOne == SUBSET {"watched", "ratings"}
=============================================================================
