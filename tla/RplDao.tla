-------------------------------- MODULE RplDao --------------------------------
(***************************************************************************)
(* Downward routes: one node that is not the root, the root's entry for it *)
(* in its source-routing table, and the DAOs and acknowledgements between  *)
(* the two, which may be lost, delayed and reordered.  The root ignores    *)
(* the sequence numbers of DAOs, the node compares those of the            *)
(* acknowledgements with the one it used last.                             *)
(*                                                                         *)
(* The node does what it does in RplNode: every step of this module is one *)
(* of that module or leaves the node alone (NodeIsRplNode).  The table     *)
(* (uip-sr.c) and the timer that delays an acknowledgement are external.   *)
(***************************************************************************)
EXTENDS RplNode, FiniteSets

CONSTANTS
  MaxInFlight,    \* bound: DAOs, and acknowledgements, on their way at a time
  RootHasRoom     \* whether the table has room for a DAO's link: a subset of BOOLEAN

ASSUME DaoAssumption ==
  /\ MaxInFlight \in Nat \ {0} /\ RootHasRoom \subseteq BOOLEAN
  /\ TRUE \in DaoStatusOk

VARIABLES
  daos,           \* DAOs on their way to the root
  link,           \* the parent of Self in the root's table, NoNode: no entry
  owed,           \* the sequence number the root is about to acknowledge, at most one
  acks,           \* acknowledgements on their way to the node
  noted           \* observer: the root has entered the parent that the last DAO named

rootVars == <<link, owed, acks>>

daoVars == <<node, told, heard, floor, daos, link, owed, acks, noted>>

DaoTypeOK ==
  /\ TypeOK
  /\ daos \subseteq [type: {"DAO"}, parent: Node, seqno: Seqno, lifetime: {0, 1}]
  /\ link \in Node \cup {NoNode}
  /\ owed \subseteq Seqno /\ acks \subseteq Seqno /\ noted \in BOOLEAN

DaoInit ==
  /\ Init
  /\ daos = {} /\ link = NoNode /\ owed = {} /\ acks = {} /\ noted = FALSE
------------------------------------------------------------------------------
(* The node *)

(* The current handler ends in a state of S; its DAO is lost or on its way. *)
(* What the root noted is out of date once a DAO names another parent.      *)
Does(S) ==
  \E m \in S :
    /\ Becomes(m)
    /\ \E kept \in SUBSET Daos(m) : daos' = daos \cup kept
    /\ Cardinality(daos') <= MaxInFlight
    /\ noted' = (noted /\ told' = told)
    /\ UNCHANGED rootVars

HearDio(from, dio, has_room) ==
  dio.dag # Self /\ Does(rpl_process_dio(node, from, dio, has_room))

HearDis(from, is_multicast, has_room) ==
  node.used /\ Does(rpl_process_dis(node, from, is_multicast, has_room))

HearHbh(sender, sender_rank, loop_detected, rank_error_signaled) ==
  node.used /\ Does(rpl_process_hbh(node, sender, sender_rank, loop_detected, rank_error_signaled))

UpdateState == node.state_update /\ Does(rpl_dag_update_state(node))

Leave == node.leave /\ Does(rpl_dag_leave([node EXCEPT !.leave = FALSE]))

MulticastDio == node.used /\ Does(handle_dio_timer(node))

UnicastDio == node.unicast_dio /\ \E to \in Others : Does(handle_unicast_dio_timer(node, to))

MulticastDis == node.periodic_dis /\ Does(handle_dis_timer(node))

SendNewDao == node.dao_timer \in {"new", "refresh"} /\ Does(send_new_dao(node))

ResendDao == node.dao_timer = "resend" /\ Does(resend_dao(node))

Tick == node.used /\ Does(rpl_dag_periodic(node))

AskToLeave == node.used /\ Does({rpl_dag_poison_and_leave(node)})

Repair == Does({rpl_local_repair(node)})

Restart == Does({rpl_dag_init(node)})

AckArrives(sequence) ==
  /\ sequence \in acks /\ acks' = acks \ {sequence}
  /\ \/ node.used /\ Becomes(rpl_process_dao_ack(node, sequence, TRUE))
     \/ ~node.used /\ UNCHANGED vars
  /\ UNCHANGED <<daos, link, owed, noted>>

NodeStep ==
  \/ \E from \in Others, dio \in Dios, has_room \in HasRoom : HearDio(from, dio, has_room)
  \/ \E from \in Others, is_multicast \in BOOLEAN, has_room \in HasRoom :
       HearDis(from, is_multicast, has_room)
  \/ \E sender \in node.nbrs \cup {NoNode}, sender_rank \in HbhRanks,
        loop_detected, rank_error_signaled \in BOOLEAN :
       HearHbh(sender, sender_rank, loop_detected, rank_error_signaled)
  \/ UpdateState \/ Leave \/ MulticastDio \/ UnicastDio \/ MulticastDis
  \/ SendNewDao \/ ResendDao \/ Tick \/ AskToLeave \/ Repair \/ Restart
  \/ \E sequence \in acks : AckArrives(sequence)
------------------------------------------------------------------------------
(* The root *)

(* Faulty: acknowledges also what it could not enter. *)
rpl_process_dao_ack_all(dao, has_room) ==
  /\ link' = IF has_room THEN dao.parent ELSE link
  /\ owed' = {dao.seqno}

(* A no-path DAO takes the link back if it is still the one it names; any   *)
(* other replaces it, unless there is no room.  Only what was entered, and  *)
(* not a no-path DAO (rpl_icmp6_dao_output sets no K flag), is acknowledged.*)
rpl_process_dao(dao, has_room) ==
  \/ /\ dao.lifetime = 0
     /\ link' = IF link = dao.parent THEN NoNode ELSE link
     /\ UNCHANGED owed
  \/ /\ dao.lifetime # 0 /\ has_room
     /\ link' = dao.parent /\ owed' = {dao.seqno}
  \/ /\ dao.lifetime # 0 /\ ~has_room
     /\ UNCHANGED <<link, owed>>

DaoArrives(dao, has_room) ==
  /\ dao \in daos /\ daos' = daos \ {dao}
  /\ rpl_process_dao(dao, has_room)
  /\ noted' = (noted \/ (has_room /\ dao.lifetime # 0 /\ dao.parent = told))
  /\ UNCHANGED <<vars, acks>>

(* rpl_icmp6_dao_ack_output; the root's own state does not change in it. *)
AckTimer ==
  /\ owed # {} /\ owed' = {}
  /\ acks' \in {acks, acks \cup owed} /\ Cardinality(acks') <= MaxInFlight
  /\ UNCHANGED <<vars, daos, link, noted>>

(* The lifetime of the entry runs out. *)
RouteExpires ==
  link # NoNode /\ link' = NoNode /\ UNCHANGED <<vars, daos, owed, acks, noted>>

(* The root reboots and starts the same DAG again. *)
RootRestarts ==
  link' = NoNode /\ owed' = {} /\ UNCHANGED <<vars, daos, acks, noted>>

RootStep ==
  \/ \E dao \in daos, has_room \in RootHasRoom : DaoArrives(dao, has_room)
  \/ AckTimer \/ RouteExpires \/ RootRestarts

DaoNext == NodeStep \/ RootStep

DaoSpec == DaoInit /\ [][DaoNext]_daoVars
------------------------------------------------------------------------------
(* Safety *)

(* The network and the root do to the node only what RplNode allows: its     *)
(* arbitrary acknowledgements include every one a root can send, above all   *)
(* that no acknowledgement carries the number a counter starts from          *)
(* (rpl-dag.c:563).                                                          *)
NodeIsRplNode == Spec

(* A node becomes reachable once the root has entered the parent its last    *)
(* DAO named: "Is this an ACK for our last DAO?" (rpl-dag.c:707).            *)
ReachableMeansNoted ==
  [][node.state = "JOINED" /\ node'.state = "REACHABLE" => noted]_daoVars

(* Liveness *)

(* The event timers of the node expire.  Nothing is assumed of the network   *)
(* or of the root, which may lose every message.                             *)
DaoFairness ==
  WF_daoVars(UpdateState) /\ WF_daoVars(SendNewDao) /\ WF_daoVars(ResendDao)

FairDaoSpec == DaoSpec /\ DaoFairness

(* A node that keeps its parent for good has its route entered again and     *)
(* again, although the root's entry expires, is overwritten by an older DAO  *)
(* or lost in a reboot of the root: a node whose DAOs do not arrive does not *)
(* keep its parent (rpl-dag.c:715; the repair after the last retransmission).*)
RouteIsRefreshed ==
  \A p \in Others :
    <>[](node.used /\ ~IsRoot /\ node.preferred_parent = p) => []<>(link = p)
=============================================================================
