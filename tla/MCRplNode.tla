------------------------------ MODULE MCRplNode -------------------------------
(* Instances of RplNode for TLC: node "n" among neighbors, in the DAG of "r". *)
EXTENDS RplNode

(* From the root, from another node and from a poisoned node, of two versions. *)
MCMembershipDios ==
  [dag: {"r"}, rank: {1, 2, 5}, version: {0, 1}, dtsn: {1}, mop: {"NON_STORING"}, supported: {TRUE}]

(* Every version, from the root's own rank or below it; the node's own DAG or r's. *)
MCRepairDios ==
  [dag: {"r", "n"}, rank: {0, 1, 2, 3}, version: Seqno, dtsn: {SeqnoInit},
   mop: {"NON_STORING"}, supported: {TRUE}]

(* One supported and some unsupported DIOs of the same DAG. *)
MCUnsupportedDios ==
  [dag: {"r"}, rank: {1, 5}, version: {0, 1}, dtsn: {1},
   mop: {"NON_STORING", "STORING"}, supported: BOOLEAN]

(* A parent and a poisoned neighbor, of one version. *)
MCLivenessDios ==
  [dag: {"r"}, rank: {1, 5}, version: {1}, dtsn: {1}, mop: {"NON_STORING"}, supported: {TRUE}]
=============================================================================
