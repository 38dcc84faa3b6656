----------------------------- MODULE MCUdpClient ------------------------------
(* Instances of UdpClient for TLC: node "n" whose only neighbor is the root "r". *)
EXTENDS UdpClient

(* The root, and the same neighbor poisoned. *)
MCClientDios ==
  [dag: {"r"}, rank: {1, 5}, version: {1}, dtsn: {1}, mop: {"NON_STORING"}, supported: {TRUE}]
=============================================================================
