------------------------------- MODULE MCRplDao -------------------------------
(* Instances of RplDao for TLC: node "n" of the DAG of "r", with a second neighbor. *)
EXTENDS RplDao

(* A parent. *)
MCDaoParentDios ==
  [dag: {"r"}, rank: {1}, version: {1}, dtsn: {1}, mop: {"NON_STORING"}, supported: {TRUE}]
=============================================================================
