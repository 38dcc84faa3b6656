----------------------------- MODULE MCRplNetwork -----------------------------
(* Instances of RplNetwork for TLC: a root and one node in its reach. *)
EXTENDS RplNetwork

MCPair == {{"r", "a"}}
=============================================================================
