--------------------------- MODULE MCDataGeneration ---------------------------
(* Instances of DataGeneration for TLC. *)
EXTENDS DataGeneration

(* No attack, those of the data set, two others, and the comment. *)
MCAnyConf == {0, 1, 2, 3, 9, Normal}

(* On and around the boundary of two windows, and of two minutes. *)
MCInstants == {29999499, 29999700, 30000000, 59999400, 59999900, 60000000}
=============================================================================
