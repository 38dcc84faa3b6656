------------------------------- MODULE RplNode --------------------------------
(***************************************************************************)
(* One node and everything that may be done to it: the messages it may     *)
(* receive, in any order, the expiry of its timers, the calls of the       *)
(* routing interface, and a reboot.  A Contiki handler runs to its end     *)
(* before the next one starts, so each handler is one action.              *)
(*                                                                         *)
(* Three variables observe the node, two of them what the rest of the      *)
(* network was told:                                                       *)
(*   told    the parent named by the last DAO (what the root believes),    *)
(*           NoNode after a no-path DAO or when there was none;            *)
(*   heard   the rank in the last multicast DIO since the node last joined *)
(*           (what its neighbors believe), InfiniteRank when there is none;*)
(*   floor   the lowest rank the node had since it last got a first parent *)
(*           or another version, InfiniteRank while it has no parent.      *)
(***************************************************************************)
EXTENDS RplDag

CONSTANTS
  Self,           \* the node
  Dios,           \* the DIOs it may hear
  HasRoom,        \* whether a new neighbor may be entered: a subset of BOOLEAN
  HbhRanks,       \* the ranks a data packet may carry
  DaoStatusOk,    \* the verdicts of the root on a DAO: a subset of BOOLEAN
  StartsRoot      \* whether root_start is ever called on this node

ASSUME InputAssumption ==
  /\ Self \in Node /\ Dios \subseteq Dio
  /\ HasRoom \subseteq BOOLEAN /\ DaoStatusOk \subseteq BOOLEAN
  /\ HbhRanks \subseteq Rank /\ StartsRoot \in BOOLEAN

VARIABLES node, told, heard, floor

vars == <<node, told, heard, floor>>

Others == Node \ {Self}

IsRoot == rpl_dag_root_is_root(node)

TypeOK ==
  /\ node \in NodeState
  /\ told \in Node \cup {NoNode}
  /\ heard \in Rank
  /\ floor \in Rank
------------------------------------------------------------------------------
Init ==
  /\ node = PoweredOn(Self)
  /\ told = NoNode
  /\ heard = InfiniteRank
  /\ floor = InfiniteRank

Daos(m)          == {msg \in m.sent : msg.type = "DAO"}
MulticastDios(m) == {msg \in m.sent : msg.type = "DIO" /\ msg.to = All}

(* The current handler has ended in state m, and what it sent is observed. *)
Becomes(m) ==
  /\ node' = [m EXCEPT !.sent = {}]
  /\ told' = IF Daos(m) = {} THEN told
             ELSE LET dao == CHOOSE dao \in Daos(m) : TRUE
                  IN  IF dao.lifetime = 0 THEN NoNode ELSE dao.parent
  /\ heard' = IF MulticastDios(m) = {}
              THEN (IF node.used /\ m.used THEN heard ELSE InfiniteRank)
              ELSE (CHOOSE dio \in MulticastDios(m) : TRUE).rank
  /\ floor' = CASE m.preferred_parent = NoNode -> InfiniteRank
               [] m.preferred_parent # NoNode /\ node.preferred_parent # NoNode
                  /\ m.version = node.version /\ floor < m.rank -> floor
               [] OTHER -> m.rank

BecomesOneOf(S) == \E m \in S : Becomes(m)
------------------------------------------------------------------------------
(* Messages *)

(* A DIO of this node's own DAG reaches it only while it is the root: after *)
(* a reboot root_start runs before the network is up (udp-server.c:74), and *)
(* nothing under src/ makes a root leave: PoisonAndLeave on a root is an    *)
(* interface call that this program does not use, and its DAG ends with it. *)
ReceiveDio(from, dio, has_room) ==
  /\ dio.dag = Self => IsRoot
  /\ BecomesOneOf(rpl_process_dio(node, from, dio, has_room))

ReceiveDis(from, is_multicast, has_room) ==
  /\ node.used
  /\ BecomesOneOf(rpl_process_dis(node, from, is_multicast, has_room))

(* The acknowledgement of some DAO sent earlier, in this membership or in   *)
(* one before it.  No DAO carries SeqnoInit: a counter is incremented before*)
(* its first use and never returns to the stick.  Only the flood of type 8  *)
(* sends DAOs without incrementing (udp-client.c:138-141).                  *)
ReceiveDaoAck(sequence, status_ok) ==
  /\ node.used
  /\ sequence # SeqnoInit \/ (AttackType = 8 /\ Self \in Attackers)
  /\ Becomes(rpl_process_dao_ack(node, sequence, status_ok))

ReceiveHbh(sender, sender_rank, loop_detected, rank_error_signaled) ==
  /\ node.used
  /\ BecomesOneOf(rpl_process_hbh(node, sender, sender_rank, loop_detected, rank_error_signaled))

(* Timers *)

StateUpdateTimer == node.state_update /\ BecomesOneOf(rpl_dag_update_state(node))

LeaveTimer == node.leave /\ BecomesOneOf(rpl_dag_leave([node EXCEPT !.leave = FALSE]))

DioTimer == node.used /\ BecomesOneOf(handle_dio_timer(node))

UnicastDioTimer ==
  /\ node.unicast_dio
  /\ \E to \in Others : BecomesOneOf(handle_unicast_dio_timer(node, to))

DisTimer == node.periodic_dis /\ BecomesOneOf(handle_dis_timer(node))

NewDaoTimer == node.dao_timer \in {"new", "refresh"} /\ BecomesOneOf(send_new_dao(node))

ResendDaoTimer == node.dao_timer = "resend" /\ BecomesOneOf(resend_dao(node))

Periodic == node.used /\ BecomesOneOf(rpl_dag_periodic(node))

(* The routing interface *)

RootStart == StartsRoot /\ BecomesOneOf(rpl_dag_init_root(node))

PoisonAndLeave == node.used /\ Becomes(rpl_dag_poison_and_leave(node))

LocalRepair == Becomes(rpl_local_repair(node))

GlobalRepair == Becomes(rpl_global_repair(node))

RefreshRoutes == Becomes(rpl_refresh_routes(node))

(* Crash: the memory of the node is lost, that of the network is not. *)
Reboot == Becomes(rpl_dag_init(node))

(* Everything that happens to a node while it is powered. *)
Step ==
  \/ \E from \in Others, dio \in Dios, has_room \in HasRoom : ReceiveDio(from, dio, has_room)
  \/ \E from \in Others, is_multicast \in BOOLEAN, has_room \in HasRoom :
       ReceiveDis(from, is_multicast, has_room)
  \/ \E sequence \in Seqno, status_ok \in DaoStatusOk : ReceiveDaoAck(sequence, status_ok)
  \/ \E sender \in node.nbrs \cup {NoNode}, sender_rank \in HbhRanks,
        loop_detected, rank_error_signaled \in BOOLEAN :
       ReceiveHbh(sender, sender_rank, loop_detected, rank_error_signaled)
  \/ StateUpdateTimer \/ LeaveTimer \/ DioTimer \/ UnicastDioTimer \/ DisTimer
  \/ NewDaoTimer \/ ResendDaoTimer \/ Periodic
  \/ RootStart \/ PoisonAndLeave \/ LocalRepair \/ GlobalRepair \/ RefreshRoutes

Next == Step \/ Reboot

Spec == Init /\ [][Next]_vars
------------------------------------------------------------------------------
(* Safety *)

(* A node that has found a parent never leaves the DAG for want of one: the  *)
(* leave timer, armed in three places (rpl-dag.c:287, 397, 642), is disarmed *)
(* by the only one in which a parent is found (rpl-dag.c:381-388).           *)
LeaveTimerMeansNoParent == node.leave => node.preferred_parent = NoNode

(* A node of the DAG without a parent is not stuck in it: it is about to     *)
(* look for a parent or has the leave timer armed ("will leave if no parent  *)
(* is found", rpl-dag.c:394; rpl-dag.c:235, 641).                            *)
OrphanWillLeave ==
  node.used /\ ~IsRoot /\ node.preferred_parent = NoNode => node.leave \/ node.state_update

(* A node counts as joined or reachable, and so sends data and DIOs, only    *)
(* while it has a parent to send through: every path that drops the parent   *)
(* also drops the state (rpl-dag.c:247, 281, 393).                           *)
JoinedMeansParent ==
  node.used /\ ~IsRoot /\ node.state \in {"JOINED", "REACHABLE"}
    => node.preferred_parent # NoNode

(* The parent is a neighbor in the table: after a repair or a leave no       *)
(* pointer to a removed neighbor is left (rpl-dag.c:117, 234, 250).          *)
ParentIsNeighbor == node.preferred_parent \in node.nbrs \cup {NoNode}

(* The rank grows along the path to the root, which is what keeps the paths  *)
(* free of loops: a rank that a neighbor turns out to have, learnt from its  *)
(* DIO or from a data packet, is never kept beside a rank computed from the  *)
(* one before (rpl-dag.c:294-296, 434, 750-753).  Only the attackers that    *)
(* lie about their rank break it.                                            *)
RankAboveParent ==
  node.preferred_parent # NoNode /\ ~(Self \in Attackers /\ AttackType \in {1, 7})
    => node.rank > node.nbr_rank[node.preferred_parent]

(* A node with a parent keeps telling the root: until an acknowledgement has *)
(* made it reachable the timer is armed for a DAO, and from then on for the  *)
(* refresh before the route expires.  No repair, refusal or stale            *)
(* acknowledgement leaves a node with a parent and a silent DAO timer        *)
(* (rpl-dag.c:390, 715).                                                     *)
JoinedIsAnnouncing ==
  node.used /\ ~IsRoot /\ node.mop = "NON_STORING" /\ node.preferred_parent # NoNode =>
    /\ node.state # "POISONING" => node.dao_timer # "off"
    /\ node.state = "JOINED" => node.dao_timer \in {"new", "resend"}

(* A node never keeps a route in a DAG whose lifetime has run out, or was    *)
(* never started (rpl-dag.c:144-149, 512-515): it is poisoning by then.      *)
NoRouteInExpiredDag ==
  node.preferred_parent # NoNode /\ node.lifetime = 0 => node.state = "POISONING"

(* Count to infinity is bounded: from its first parent in a version of the   *)
(* DAG until it has none, the rank of a node stays within max_rankinc of the *)
(* lowest it had, whatever its parents advertise (rpl-dag.c:359-363).        *)
RankIncreaseIsBounded ==
  node.preferred_parent # NoNode /\ MaxRankInc # 0 => node.rank <= floor + MaxRankInc

(* A node that may advertise, is not about to leave, and whose rank is far   *)
(* from the one its neighbors heard has just reset its DIO timer, although   *)
(* the code takes the rank it compares with over without sending it          *)
(* (rpl-dag.c:365-374).  Twice the threshold, because the DIO timer notes    *)
(* the rank before the DIO is brought up to date (rpl-icmp6.c:374).          *)
SignificantRankIsAdvertised ==
  /\ rpl_dag_ready_to_advertise(node) /\ node.state # "POISONING"
  /\ node.rank # InfiniteRank /\ heard # InfiniteRank
  /\ node.rank - heard > 2 * SignificantChange \/ heard - node.rank > 2 * SignificantChange
  => node.dio_fresh

(* A node that left the DAG has nothing of it left: no neighbor that it      *)
(* could choose in its next DAG, and no timer that would fire without one    *)
(* (rpl-dag.c:113-129).                                                      *)
LeftMeansForgotten ==
  ~node.used => /\ node.nbrs = {} /\ node.preferred_parent = NoNode
                /\ ~node.state_update /\ ~node.leave /\ ~node.unicast_dio
                /\ node.dao_timer = "off"

(* Whatever a root hears, it stays the root: neither an old or newer version *)
(* nor a repair gives it a parent, another rank or a reason to leave, unless *)
(* it was asked to poison (rpl-dag.c:246, 289, 482-488).                     *)
RootStaysRoot ==
  IsRoot /\ node.state # "POISONING" =>
    /\ node.rank = RootRank /\ node.preferred_parent = NoNode
    /\ node.state = "REACHABLE" /\ ~node.leave
------------------------------------------------------------------------------
(* What a step may never do *)

(* Within one membership a node that is not the root only ever moves on to a *)
(* newer version (rpl-dag.c:461, 481).                                       *)
VersionOnlyAdvances ==
  [][~IsRoot /\ node.used /\ node'.used /\ node'.dag_id = node.dag_id
       => node'.version = node.version \/ Greater(node'.version, node.version)]_vars

(* A parent switch is reported soon: while the parent is not the one the     *)
(* root was last told of, a DAO is pending, whichever handler the switch     *)
(* happened in (rpl-dag.c:377-390), the sending of a DAO included.  Only an  *)
(* acknowledgement can put it off, of the DAO before (rpl-dag.c:715).        *)
ParentIsReported ==
  \/ node.preferred_parent \in {NoNode, told} \/ node.mop # "NON_STORING"
  \/ node.dao_timer \in {"new", "resend"}

ParentSwitchIsReported ==
  [][ParentIsReported =>
       \/ ParentIsReported'
       \/ \E sequence \in Seqno, status_ok \in DaoStatusOk : ReceiveDaoAck(sequence, status_ok)]_vars

(* The DAO says where the root can reach the node now: "Make sure we're      *)
(* up-to-date before sending data out" (rpl-icmp6.c:633).                    *)
DaoNamesCurrentParent ==
  [][told' # told => told' = node'.preferred_parent]_vars

(* A node that leaves takes its route back: "Issue a no-path DAO"            *)
(* (rpl-dag.c:107).                                                          *)
LeavingTakesRouteBack == [][LeaveTimer => told' = NoNode]_vars
------------------------------------------------------------------------------
(* Liveness *)

(* The event timers of the operating system expire; nothing else is sure.    *)
Fairness ==
  /\ WF_vars(StateUpdateTimer) /\ WF_vars(LeaveTimer)
  /\ WF_vars(NewDaoTimer) /\ WF_vars(ResendDaoTimer)

FairSpec == Spec /\ Fairness

Orphan == node.used /\ ~IsRoot /\ node.preferred_parent = NoNode

(* A node without a parent does not stay in the DAG for ever: it finds a     *)
(* parent or leaves (rpl-dag.c:392-397, 641-642).  Provided that DAOs stop   *)
(* running out of retransmissions: the handler that gives up a DAO may find  *)
(* a parent, disarm the leave timer, and drop the parent again in its local  *)
(* repair, each time around.                                                 *)
OrphanIsResolved == <>[][~ResendDaoTimer]_vars => (Orphan ~> ~Orphan)

(* In the end the root is told of the parent that a node keeps, although any *)
(* acknowledgement, late ones included, puts a DAO that was pending for a    *)
(* parent switch off until the refresh, and again and again                  *)
(* (rpl-dag.c:390, 707, 715).                                                *)
SwitchIsReported ==
  \A p \in Others :
    <>[](node.preferred_parent = p /\ node.mop = "NON_STORING") => <>[](told = p)
=============================================================================
