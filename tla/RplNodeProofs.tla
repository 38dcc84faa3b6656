----------------------------- MODULE RplNodeProofs ----------------------------
(***************************************************************************)
(* Theorems about one node, for every set of nodes, every rank, version    *)
(* and lifetime, every set of DIOs it may hear, every type of attack and   *)
(* every set of attackers, unless a theorem says otherwise.                *)
(*                                                                         *)
(* They follow from four invariants of the node whenever no handler runs,  *)
(* each inductive relative to those before it:                             *)
(*   Inv      what holds after every function of RplDag (RplDagProofs);    *)
(*   Upkeep   what every handler restores before it ends (RplDagUpkeep):   *)
(*            the rank above the parent's and the armed DAO timer survive  *)
(*            every DIO; what is left of a membership, and what makes a    *)
(*            node without a parent leave, survive every DIO that can be   *)
(*            joined (run "unsupported" shows how another breaks them);    *)
(*   Bounds   the numbers kept between handlers (RplDagCounters), if no    *)
(*            DIO is of the storing mode: such a DIO of a newer version    *)
(*            takes the parent without starting a new membership;          *)
(*   InTouch  a rank far from the one the neighbors heard is about to be   *)
(*            advertised (RplDagCounters), if no DIO is suppressed; it     *)
(*            needs Inv only.                                              *)
(* Each action is the end of a handler in some state m, and the lemmas of  *)
(* those modules say what holds of m.                                      *)
(***************************************************************************)
EXTENDS RplNode, RplDagCounters

Inv ==
  /\ TypeOK
  /\ NodeInv(node) /\ node.id = Self

(* What an observer keeps of a handler that ends in m is well typed. *)
LEMMA ObservedType ==
  ASSUME TypeOK, NEW m, NodeInv(m), Becomes(m)
  PROVE  told' \in Node \cup {NoNode} /\ heard' \in Rank /\ floor' \in Rank
<1>1. m \in NodeState /\ m.sent \subseteq Message /\ m.rank \in Rank
  BY DEF NodeInv, NodeState
<1>2. ASSUME NEW dao \in Daos(m)
      PROVE  dao.parent \in Node
  BY <1>1 DEF Daos, Message
<1>3. ASSUME NEW dio \in MulticastDios(m)
      PROVE  dio.rank \in Rank
  BY <1>1 DEF MulticastDios, Message
<1>4. told' \in Node \cup {NoNode}
  <2>1. CASE Daos(m) = {}
    BY <2>1 DEF Becomes, TypeOK
  <2>2. CASE Daos(m) # {}
    <3> DEFINE dao == CHOOSE dao \in Daos(m) : TRUE
    <3>1. dao \in Daos(m)
      BY <2>2
    <3>2. told' \in {NoNode, dao.parent}
      BY <2>2 DEF Becomes
    <3> HIDE DEF dao
    <3> QED BY <1>2, <3>1, <3>2
  <2> QED BY <2>1, <2>2
<1>5. heard' \in Rank
  <2>1. CASE MulticastDios(m) = {}
    BY <2>1, FieldValues DEF Becomes, TypeOK
  <2>2. CASE MulticastDios(m) # {}
    <3> DEFINE dio == CHOOSE dio \in MulticastDios(m) : TRUE
    <3>1. dio \in MulticastDios(m)
      BY <2>2
    <3>2. heard' = dio.rank
      BY <2>2 DEF Becomes
    <3> HIDE DEF dio
    <3> QED BY <1>3, <3>1, <3>2
  <2> QED BY <2>1, <2>2
<1>6. floor' \in {InfiniteRank, floor, m.rank}
  BY DEF Becomes
<1> QED BY <1>1, <1>4, <1>5, <1>6, FieldValues DEF TypeOK

(* A handler that ends in a good state leaves a good state. *)
LEMMA BecomesInv ==
  ASSUME Inv, NEW m, NodeInv(m), SameOrNewer(m, node), Becomes(m)
  PROVE  Inv' /\ SameOrNewer(node', node)
<1>1. node' = [m EXCEPT !.sent = {}]
  BY DEF Becomes
<1>2. NodeInv(node') /\ SameMembership(node', m)
  BY <1>1 DEF NodeInv, NodeState, SameMembership
<1>3. told' \in Node \cup {NoNode} /\ heard' \in Rank /\ floor' \in Rank
  BY ObservedType DEF Inv
<1> QED
  BY <1>2, <1>3 DEF Inv, TypeOK, NodeInv, SameMembership, SameOrNewer

LEMMA SameIsSameOrNewer ==
  ASSUME NEW m, NEW n, SameMembership(m, n)
  PROVE  SameOrNewer(m, n)
BY DEF SameMembership, SameOrNewer

LEMMA InitInv == Init => Inv
<1> SUFFICES ASSUME Init PROVE Inv
  OBVIOUS
<1>1. Self \in Node
  BY InputAssumption
<1>2. NodeInv(node) /\ node.id = Self
  BY <1>1, PoweredOnInv DEF Init
<1> QED BY <1>2, FieldValues DEF Init, Inv, TypeOK, NodeInv

(* Every action keeps the invariant, and the version unless it is newer. *)
LEMMA NextInv ==
  ASSUME Inv, Next
  PROVE  Inv' /\ SameOrNewer(node', node)
<1> USE DEF BecomesOneOf
<1>0. NodeInv(node) /\ node.id = Self /\ node \in NodeState
  BY DEF Inv, NodeInv
<1>1. ASSUME NEW from \in Others, NEW dio \in Dios, NEW has_room \in HasRoom,
             ReceiveDio(from, dio, has_room)
      PROVE  Inv' /\ SameOrNewer(node', node)
  <2>1. PICK m \in rpl_process_dio(node, from, dio, has_room) : Becomes(m)
    BY <1>1 DEF ReceiveDio
  <2>2. /\ from \in Node /\ dio \in Dio /\ has_room \in BOOLEAN
        /\ dio.dag = node.id => rpl_dag_root_is_root(node)
    BY <1>0, <1>1, InputAssumption DEF ReceiveDio, Others, IsRoot
  <2>3. NodeInv(m) /\ SameOrNewer(m, node)
    BY <1>0, <2>1, <2>2, ProcessDio
  <2> QED BY <2>1, <2>3, BecomesInv
<1>2. ASSUME NEW from \in Others, NEW is_multicast \in BOOLEAN, NEW has_room \in HasRoom,
             ReceiveDis(from, is_multicast, has_room)
      PROVE  Inv' /\ SameOrNewer(node', node)
  <2>1. from \in Node /\ has_room \in BOOLEAN
    BY InputAssumption DEF Others
  <2>2. PICK m \in rpl_process_dis(node, from, is_multicast, has_room) : Becomes(m)
    BY <1>2 DEF ReceiveDis
  <2>3. NodeInv(m) /\ SameMembership(m, node)
    BY <1>0, <2>1, <2>2, ProcessDis
  <2> QED BY <2>2, <2>3, BecomesInv, SameIsSameOrNewer
<1>3. ASSUME NEW sequence \in Seqno, NEW status_ok \in DaoStatusOk,
             ReceiveDaoAck(sequence, status_ok)
      PROVE  Inv' /\ SameOrNewer(node', node)
  <2> DEFINE m == rpl_process_dao_ack(node, sequence, status_ok)
  <2>1. status_ok \in BOOLEAN
    BY InputAssumption
  <2>2. NodeInv(m) /\ SameMembership(m, node)
    BY <1>0, <2>1, ProcessDaoAck
  <2>3. Becomes(m)
    BY <1>3 DEF ReceiveDaoAck
  <2> HIDE DEF m
  <2> QED BY <2>2, <2>3, BecomesInv, SameIsSameOrNewer
<1>4. ASSUME NEW sender \in node.nbrs \cup {NoNode}, NEW sender_rank \in HbhRanks,
             NEW loop_detected \in BOOLEAN, NEW rank_error_signaled \in BOOLEAN,
             ReceiveHbh(sender, sender_rank, loop_detected, rank_error_signaled)
      PROVE  Inv' /\ SameOrNewer(node', node)
  <2>1. sender_rank \in Rank
    BY InputAssumption
  <2>2. PICK m \in rpl_process_hbh(node, sender, sender_rank, loop_detected, rank_error_signaled) :
          Becomes(m)
    BY <1>4 DEF ReceiveHbh
  <2>3. NodeInv(m) /\ SameMembership(m, node)
    BY <1>0, <2>1, <2>2, ProcessHbh
  <2> QED BY <2>2, <2>3, BecomesInv, SameIsSameOrNewer
<1>5. CASE StateUpdateTimer
  BY <1>0, <1>5, UpdateStateInv, BecomesInv, SameIsSameOrNewer DEF StateUpdateTimer
<1>6. CASE LeaveTimer
  <2> DEFINE n == [node EXCEPT !.leave = FALSE]
  <2>1. NodeInv(n) /\ n.id = node.id
    BY <1>0 DEF NodeInv, NodeState
  <2>2. PICK m \in rpl_dag_leave(n) : Becomes(m)
    BY <1>6 DEF LeaveTimer
  <2> HIDE DEF n
  <2>3. NodeInv(m) /\ SameOrNewer(m, node)
    BY <2>1, <2>2, LeaveInv DEF SameOrNewer
  <2> QED BY <2>2, <2>3, BecomesInv
<1>7. CASE DioTimer
  BY <1>0, <1>7, DioTimerInv, BecomesInv, SameIsSameOrNewer DEF DioTimer
<1>8. CASE UnicastDioTimer
  <2>1. PICK to \in Others : \E m \in handle_unicast_dio_timer(node, to) : Becomes(m)
    BY <1>8 DEF UnicastDioTimer
  <2>2. to \in Node
    BY DEF Others
  <2> QED BY <1>0, <2>1, <2>2, UnicastDioTimerInv, BecomesInv, SameIsSameOrNewer
<1>9. CASE DisTimer
  BY <1>0, <1>9, DisTimerInv, BecomesInv, SameIsSameOrNewer DEF DisTimer
<1>10. CASE NewDaoTimer
  BY <1>0, <1>10, SendNewDaoInv, BecomesInv, SameIsSameOrNewer DEF NewDaoTimer
<1>11. CASE ResendDaoTimer
  BY <1>0, <1>11, ResendDaoInv, BecomesInv, SameIsSameOrNewer DEF ResendDaoTimer
<1>12. CASE Periodic
  BY <1>0, <1>12, PeriodicInv, BecomesInv, SameIsSameOrNewer DEF Periodic
<1>13. CASE RootStart
  <2>1. PICK m \in rpl_dag_init_root(node) : Becomes(m)
    BY <1>13 DEF RootStart
  <2>2. NodeInv(m) /\ SameOrNewer(m, node)
    BY <1>0, <2>1, InitRoot DEF SameOrNewer
  <2> QED BY <2>1, <2>2, BecomesInv
<1>14. CASE PoisonAndLeave
  BY <1>0, <1>14, PoisonAndLeaveInv, BecomesInv, SameIsSameOrNewer DEF PoisonAndLeave
<1>15. CASE LocalRepair
  BY <1>0, <1>15, LocalRepairInv, BecomesInv, SameIsSameOrNewer DEF LocalRepair
<1>16. CASE GlobalRepair
  <2> DEFINE m == rpl_global_repair(node)
  <2>1. /\ NodeInv(m) /\ m.id = node.id /\ m.used = node.used /\ m.dag_id = node.dag_id
        /\ ~rpl_dag_root_is_root(node) => m = node
    BY <1>0, GlobalRepairInv
  <2>2. Becomes(m)
    BY <1>16 DEF GlobalRepair
  <2> HIDE DEF m
  <2>3. SameOrNewer(m, node)
    BY <2>1 DEF SameOrNewer, rpl_dag_root_is_root
  <2> QED BY <2>1, <2>2, <2>3, BecomesInv
<1>17. CASE RefreshRoutes
  BY <1>0, <1>17, RefreshRoutesInv, BecomesInv, SameIsSameOrNewer DEF RefreshRoutes
<1>18. CASE Reboot
  <2> DEFINE m == PoweredOn(Self)
  <2>1. NodeInv(m) /\ m.id = node.id /\ ~m.used
    BY <1>0, InputAssumption, PoweredOnInv
  <2>2. Becomes(m)
    BY <1>0, <1>18 DEF Reboot, rpl_dag_init
  <2> HIDE DEF m
  <2>3. SameOrNewer(m, node)
    BY <2>1 DEF SameOrNewer
  <2> QED BY <2>1, <2>2, <2>3, BecomesInv
<1> QED
  BY <1>1, <1>2, <1>3, <1>4, <1>5, <1>6, <1>7, <1>8, <1>9, <1>10, <1>11, <1>12, <1>13,
     <1>14, <1>15, <1>16, <1>17, <1>18 DEF Next, Step

(* The inductive invariant. *)
THEOREM Invariance == Spec => []Inv
<1>1. Inv /\ UNCHANGED vars => Inv'
  BY DEF Inv, TypeOK, vars
<1>2. Inv /\ [Next]_vars => Inv'
  BY <1>1, NextInv
<1> QED BY <1>2, InitInv, PTL DEF Spec
------------------------------------------------------------------------------
(* The state of a node stays within its types, whatever it hears. *)
THEOREM TypeCorrect == Spec => []TypeOK
<1>1. Inv => TypeOK
  BY DEF Inv
<1> QED BY <1>1, Invariance, PTL

(* No node that has a parent is armed to leave the DAG. *)
THEOREM LeaveTimerSafe == Spec => []LeaveTimerMeansNoParent
<1>1. Inv => LeaveTimerMeansNoParent
  BY DEF Inv, NodeInv, LeaveTimerMeansNoParent
<1> QED BY <1>1, Invariance, PTL

(* No node counts as joined or reachable without a parent. *)
THEOREM JoinedSafe == Spec => []JoinedMeansParent
<1>1. Inv => JoinedMeansParent
  BY DEF Inv, NodeInv, JoinedMeansParent, IsRoot, rpl_dag_root_is_root
<1> QED BY <1>1, Invariance, PTL

(* The parent is always a neighbor that is still in the table. *)
THEOREM ParentInTable == Spec => []ParentIsNeighbor
<1>1. Inv => ParentIsNeighbor
  BY DEF Inv, NodeInv, ParentIsNeighbor
<1> QED BY <1>1, Invariance, PTL

(* The root stays the root until it is asked to poison. *)
THEOREM RootSafe == Spec => []RootStaysRoot
<1>1. Inv => RootStaysRoot
  BY DEF Inv, NodeInv, RootStaysRoot, IsRoot, rpl_dag_root_is_root
<1> QED BY <1>1, Invariance, PTL

(* Within one membership the version of a node never goes back. *)
THEOREM VersionSafe == Spec => VersionOnlyAdvances
<1> DEFINE Advances ==
      ~IsRoot /\ node.used /\ node'.used /\ node'.dag_id = node.dag_id
        => node'.version = node.version \/ Greater(node'.version, node.version)
<1>1. Inv /\ [Next]_vars => [Advances]_vars
  BY NextInv DEF SameOrNewer, IsRoot, rpl_dag_root_is_root
<1> QED BY <1>1, Invariance, PTL DEF Spec, VersionOnlyAdvances
------------------------------------------------------------------------------
(* What every handler restores *)

AllJoinable == \A dio \in Dios : Joinable(dio)

Upkeep ==
  /\ Settled(node)
  /\ AllJoinable => Kept(node)

LEMMA BecomesUpkeep ==
  ASSUME NEW m, NodeInv(m), RankAbove(m), Announcing(m), AllJoinable => Kept(m), Becomes(m)
  PROVE  Upkeep'
<1>1. node' = [m EXCEPT !.sent = {}]
  BY DEF Becomes
<1>2. Unmoved(node', m)
  BY <1>1 DEF NodeInv, NodeState, Unmoved, SameMembership
<1> QED BY <1>2, UnmovedKeeps DEF Upkeep, Settled, AllJoinable

LEMMA UpheldUpkeep ==
  ASSUME Upkeep, NEW m, NodeInv(m), Upheld(m, node), Becomes(m)
  PROVE  Upkeep'
BY BecomesUpkeep DEF Upkeep, Upheld

LEMMA InitUpkeep == Init => Upkeep
<1>1. Self \in Node
  BY InputAssumption
<1> QED BY <1>1, PoweredOnInv, PoweredOnUpheld DEF Init, Upkeep, Settled

(* Every action keeps it up. *)
LEMMA NextUpkeep ==
  ASSUME Inv, Upkeep, Next
  PROVE  Upkeep'
<1> USE DEF BecomesOneOf
<1>0. NodeInv(node) /\ node.id = Self /\ node \in NodeState /\ Settled(node)
  BY DEF Inv, NodeInv, Upkeep
<1>1. ASSUME NEW from \in Others, NEW dio \in Dios, NEW has_room \in HasRoom,
             ReceiveDio(from, dio, has_room)
      PROVE  Upkeep'
  <2>1. PICK m \in rpl_process_dio(node, from, dio, has_room) : Becomes(m)
    BY <1>1 DEF ReceiveDio
  <2>2. /\ from \in Node /\ dio \in Dio /\ has_room \in BOOLEAN
        /\ dio.dag = node.id => rpl_dag_root_is_root(node)
    BY <1>0, <1>1, InputAssumption DEF ReceiveDio, Others, IsRoot
  <2>3. NodeInv(m)
    BY <1>0, <2>1, <2>2, ProcessDio
  <2>4. /\ RankAbove(m) /\ Announcing(m)
        /\ Joinable(dio) /\ Kept(node) => Kept(m)
    BY <1>0, <2>1, <2>2, ProcessDioUpheld
  <2>5. AllJoinable => Kept(m)
    BY <2>4 DEF Upkeep, AllJoinable
  <2> QED BY <2>1, <2>3, <2>4, <2>5, BecomesUpkeep
<1>2. ASSUME NEW from \in Others, NEW is_multicast \in BOOLEAN, NEW has_room \in HasRoom,
             ReceiveDis(from, is_multicast, has_room)
      PROVE  Upkeep'
  <2>1. from \in Node /\ has_room \in BOOLEAN
    BY InputAssumption DEF Others
  <2>2. PICK m \in rpl_process_dis(node, from, is_multicast, has_room) : Becomes(m)
    BY <1>2 DEF ReceiveDis
  <2>3. NodeInv(m) /\ Upheld(m, node)
    BY <1>0, <2>1, <2>2, ProcessDis, ProcessDisUpheld
  <2> QED BY <2>2, <2>3, UpheldUpkeep
<1>3. ASSUME NEW sequence \in Seqno, NEW status_ok \in DaoStatusOk,
             ReceiveDaoAck(sequence, status_ok)
      PROVE  Upkeep'
  <2> DEFINE m == rpl_process_dao_ack(node, sequence, status_ok)
  <2>1. status_ok \in BOOLEAN
    BY InputAssumption
  <2>2. NodeInv(m) /\ Upheld(m, node)
    BY <1>0, <2>1, ProcessDaoAck, ProcessDaoAckUpheld
  <2>3. Becomes(m)
    BY <1>3 DEF ReceiveDaoAck
  <2> HIDE DEF m
  <2> QED BY <2>2, <2>3, UpheldUpkeep
<1>4. ASSUME NEW sender \in node.nbrs \cup {NoNode}, NEW sender_rank \in HbhRanks,
             NEW loop_detected \in BOOLEAN, NEW rank_error_signaled \in BOOLEAN,
             ReceiveHbh(sender, sender_rank, loop_detected, rank_error_signaled)
      PROVE  Upkeep'
  <2>1. sender_rank \in Rank
    BY InputAssumption
  <2>2. PICK m \in rpl_process_hbh(node, sender, sender_rank, loop_detected, rank_error_signaled) :
          Becomes(m)
    BY <1>4 DEF ReceiveHbh
  <2>3. node.used
    BY <1>4 DEF ReceiveHbh
  <2>4. NodeInv(m) /\ Upheld(m, node)
    BY <1>0, <2>1, <2>2, <2>3, ProcessHbh, ProcessHbhUpheld
  <2> QED BY <2>2, <2>4, UpheldUpkeep
<1>5. CASE StateUpdateTimer
  <2>1. PICK m \in rpl_dag_update_state(node) : Becomes(m)
    BY <1>5 DEF StateUpdateTimer
  <2>2. NodeInv(m) /\ Upheld(m, node)
    BY <1>0, <2>1, UpdateStateInv, UpdateRefreshed, RefreshedUpheld, AboveIsRanked DEF Settled
  <2> QED BY <2>1, <2>2, UpheldUpkeep
<1>6. CASE LeaveTimer
  <2> DEFINE n == [node EXCEPT !.leave = FALSE]
  <2>1. NodeInv(n)
    BY <1>0 DEF NodeInv, NodeState
  <2>2. PICK m \in rpl_dag_leave(n) : Becomes(m)
    BY <1>6 DEF LeaveTimer
  <2> HIDE DEF n
  <2>3. NodeInv(m) /\ RankAbove(m) /\ Announcing(m) /\ Kept(m)
    BY <2>1, <2>2, LeaveInv, LeaveUpheld
  <2> QED BY <2>2, <2>3, BecomesUpkeep
<1>7. CASE DioTimer
  <2>1. PICK m \in handle_dio_timer(node) : Becomes(m)
    BY <1>7 DEF DioTimer
  <2>2. NodeInv(m) /\ Upheld(m, node)
    BY <1>0, <2>1, DioTimerInv, DioTimerUpheld
  <2> QED BY <2>1, <2>2, UpheldUpkeep
<1>8. CASE UnicastDioTimer
  <2>1. PICK to \in Others : \E m \in handle_unicast_dio_timer(node, to) : Becomes(m)
    BY <1>8 DEF UnicastDioTimer
  <2>2. PICK m \in handle_unicast_dio_timer(node, to) : Becomes(m)
    BY <2>1
  <2>3. NodeInv(m) /\ Upheld(m, node)
    BY <1>0, <2>2, UnicastDioTimerInv, UnicastDioTimerUpheld DEF Others
  <2> QED BY <2>2, <2>3, UpheldUpkeep
<1>9. CASE DisTimer
  <2>1. PICK m \in handle_dis_timer(node) : Becomes(m)
    BY <1>9 DEF DisTimer
  <2>2. NodeInv(m) /\ Upheld(m, node)
    BY <1>0, <2>1, DisTimerInv, DisTimerUpheld
  <2> QED BY <2>1, <2>2, UpheldUpkeep
<1>10. CASE NewDaoTimer
  <2>1. PICK m \in send_new_dao(node) : Becomes(m)
    BY <1>10 DEF NewDaoTimer
  <2>2. node.dao_timer # "off"
    BY <1>10 DEF NewDaoTimer
  <2>3. NodeInv(m) /\ Upheld(m, node)
    BY <1>0, <2>1, <2>2, SendNewDaoInv, SendNewDaoUpheld
  <2> QED BY <2>1, <2>3, UpheldUpkeep
<1>11. CASE ResendDaoTimer
  <2>1. PICK m \in resend_dao(node) : Becomes(m)
    BY <1>11 DEF ResendDaoTimer
  <2>2. node.dao_timer # "off"
    BY <1>11 DEF ResendDaoTimer
  <2>3. NodeInv(m) /\ Upheld(m, node)
    BY <1>0, <2>1, <2>2, ResendDaoInv, ResendDaoUpheld
  <2> QED BY <2>1, <2>3, UpheldUpkeep
<1>12. CASE Periodic
  <2>1. PICK m \in rpl_dag_periodic(node) : Becomes(m)
    BY <1>12 DEF Periodic
  <2>2. node.used
    BY <1>12 DEF Periodic
  <2>3. NodeInv(m) /\ Upheld(m, node)
    BY <1>0, <2>1, <2>2, PeriodicInv, PeriodicUpheld
  <2> QED BY <2>1, <2>3, UpheldUpkeep
<1>13. CASE RootStart
  <2>1. PICK m \in rpl_dag_init_root(node) : Becomes(m)
    BY <1>13 DEF RootStart
  <2>2. NodeInv(m) /\ Upheld(m, node)
    BY <1>0, <2>1, InitRoot, InitRootUpheld
  <2> QED BY <2>1, <2>2, UpheldUpkeep
<1>14. CASE PoisonAndLeave
  <2> DEFINE m == rpl_dag_poison_and_leave(node)
  <2>1. NodeInv(m) /\ Upheld(m, node)
    BY <1>0, <1>14, PoisonAndLeaveInv, PoisonUpheld DEF PoisonAndLeave
  <2>2. Becomes(m)
    BY <1>14 DEF PoisonAndLeave
  <2> HIDE DEF m
  <2> QED BY <2>1, <2>2, UpheldUpkeep
<1>15. CASE LocalRepair
  <2> DEFINE m == rpl_local_repair(node)
  <2>1. Upheld(m, node)
    BY <1>0, LocalRepairUpheld, AboveIsRanked DEF Settled, NodeInv
  <2>2. NodeInv(m)
    BY <1>0, LocalRepairInv
  <2>3. Becomes(m)
    BY <1>15 DEF LocalRepair
  <2> HIDE DEF m
  <2> QED BY <2>1, <2>2, <2>3, UpheldUpkeep
<1>16. CASE GlobalRepair
  <2> DEFINE m == rpl_global_repair(node)
  <2>1. NodeInv(m) /\ Upheld(m, node)
    BY <1>0, GlobalRepairInv, GlobalRepairUpheld
  <2>2. Becomes(m)
    BY <1>16 DEF GlobalRepair
  <2> HIDE DEF m
  <2> QED BY <2>1, <2>2, UpheldUpkeep
<1>17. CASE RefreshRoutes
  <2> DEFINE m == rpl_refresh_routes(node)
  <2>1. NodeInv(m) /\ Upheld(m, node)
    BY <1>0, RefreshRoutesInv, RefreshRoutesUpheld
  <2>2. Becomes(m)
    BY <1>17 DEF RefreshRoutes
  <2> HIDE DEF m
  <2> QED BY <2>1, <2>2, UpheldUpkeep
<1>18. CASE Reboot
  <2> DEFINE m == PoweredOn(Self)
  <2>1. NodeInv(m) /\ RankAbove(m) /\ Announcing(m) /\ Kept(m)
    BY InputAssumption, PoweredOnInv, PoweredOnUpheld
  <2>2. Becomes(m)
    BY <1>0, <1>18 DEF Reboot, rpl_dag_init
  <2> HIDE DEF m
  <2> QED BY <2>1, <2>2, BecomesUpkeep
<1> QED
  BY <1>1, <1>2, <1>3, <1>4, <1>5, <1>6, <1>7, <1>8, <1>9, <1>10, <1>11, <1>12, <1>13,
     <1>14, <1>15, <1>16, <1>17, <1>18 DEF Next, Step

(* The second inductive invariant. *)
THEOREM UpkeepInvariance == Spec => []Upkeep
<1>1. Upkeep /\ UNCHANGED vars => Upkeep'
  BY DEF Upkeep, vars, AllJoinable
<1>2. Inv /\ Upkeep /\ [Next]_vars => Upkeep'
  BY <1>1, NextUpkeep
<1> QED BY <1>2, InitUpkeep, Invariance, PTL DEF Spec
------------------------------------------------------------------------------
(* Paths do not loop: the rank of a node that does not lie about it is above *)
(* the rank its parent was last known to have.                               *)
THEOREM RankSafe == Spec => []RankAboveParent
<1>1. Inv /\ Upkeep => RankAboveParent
  BY DEF Inv, Upkeep, Settled, RankAbove, RankLiar, RankAboveParent
<1> QED BY <1>1, Invariance, UpkeepInvariance, PTL

(* No node with a parent has a silent DAO timer, whatever it hears. *)
THEOREM AnnouncingSafe == Spec => []JoinedIsAnnouncing
<1>1. Inv /\ Upkeep => JoinedIsAnnouncing
  BY DEF Inv, Upkeep, Settled, Announcing, Member, JoinedIsAnnouncing, IsRoot, rpl_dag_root_is_root
<1> QED BY <1>1, Invariance, UpkeepInvariance, PTL

(* Where every DIO can be joined, no node is stuck in a DAG without a parent. *)
THEOREM OrphanSafe ==
  ASSUME \A dio \in Dios : dio.mop # "STORING" /\ dio.supported
  PROVE  Spec => []OrphanWillLeave
<1>1. Inv /\ Upkeep => OrphanWillLeave
  BY DEF Inv, Upkeep, AllJoinable, Joinable, Kept, Member, OrphanWillLeave, IsRoot,
         rpl_dag_root_is_root
<1> QED BY <1>1, Invariance, UpkeepInvariance, PTL

(* There, no node has a route in a DAG whose lifetime has run out. *)
THEOREM ExpirySafe ==
  ASSUME \A dio \in Dios : dio.mop # "STORING" /\ dio.supported
  PROVE  Spec => []NoRouteInExpiredDag
<1>1. Inv /\ Upkeep => NoRouteInExpiredDag
  BY DEF Inv, NodeInv, Upkeep, AllJoinable, Joinable, Kept, Member, NoRouteInExpiredDag
<1> QED BY <1>1, Invariance, UpkeepInvariance, PTL

(* And there, nothing is left of a DAG that was left. *)
THEOREM ForgottenSafe ==
  ASSUME \A dio \in Dios : dio.mop # "STORING" /\ dio.supported
  PROVE  Spec => []LeftMeansForgotten
<1>1. Inv /\ Upkeep => LeftMeansForgotten
  BY DEF Inv, NodeInv, Upkeep, AllJoinable, Joinable, Kept, LeftMeansForgotten
<1> QED BY <1>1, Invariance, UpkeepInvariance, PTL
------------------------------------------------------------------------------
(* The numbers kept between handlers *)

NoStoringDio == \A dio \in Dios : dio.mop # "STORING"

(* The lowest rank that the node keeps is the lowest it had, or lower.      *)
Bounds ==
  /\ Counted(node)
  /\ node.preferred_parent # NoNode /\ Self \notin Attackers => node.lowest_rank <= floor

LEMMA BecomesBounds ==
  ASSUME Inv, Bounds, NEW m, NodeInv(m), Counting(m, node), m.id = node.id, Becomes(m)
  PROVE  Bounds'
<1>1. node' = [m EXCEPT !.sent = {}]
  BY DEF Becomes
<1>2. /\ node'.id = m.id /\ node'.used = m.used /\ node'.version = m.version
      /\ node'.preferred_parent = m.preferred_parent
      /\ node'.rank = m.rank /\ node'.lowest_rank = m.lowest_rank
      /\ node'.dao_last_seqno = m.dao_last_seqno /\ node'.dao_timer = m.dao_timer
      /\ node'.sent = {}
  BY <1>1 DEF NodeInv, NodeState
<1>3. Counted(node')
  BY <1>2 DEF Counting, Counted, Numbered, RankWithin
<1>4. ASSUME m.preferred_parent # NoNode, Self \notin Attackers
      PROVE  m.lowest_rank <= floor'
  <2>1. m.lowest_rank <= m.rank
    BY <1>4 DEF Inv, Counting, Counted, RankWithin
  <2>2. \/ floor' = m.rank
        \/ /\ floor' = floor /\ node.preferred_parent # NoNode
           /\ m.version = node.version
    BY <1>4 DEF Becomes
  <2>3. CASE floor' = floor /\ node.preferred_parent # NoNode /\ m.version = node.version
    <3>1. m.lowest_rank <= node.lowest_rank /\ node.lowest_rank <= floor
      BY <1>4, <2>3 DEF Inv, Bounds, Counting, Lowered
    <3>2. m.lowest_rank \in Nat /\ node.lowest_rank \in Nat /\ floor \in Nat
      BY RanksAreNumbers, RankAssumption DEF Inv, TypeOK, NodeInv, Rank
    <3> QED BY <2>3, <3>1, <3>2
  <2> QED BY <2>1, <2>2, <2>3
<1> QED BY <1>2, <1>3, <1>4 DEF Bounds

LEMMA InitBounds == Init => Bounds
<1> SUFFICES ASSUME Init PROVE Bounds
  OBVIOUS
<1>1. Counted(node)
  BY PoweredOnCounting DEF Init, Counting
<1>2. node.preferred_parent = NoNode
  BY DEF Init, PoweredOn
<1> QED BY <1>1, <1>2 DEF Bounds

(* Every action keeps the numbers in bounds. *)
LEMMA NextBounds ==
  ASSUME NoStoringDio, Inv, Bounds, Next
  PROVE  Bounds'
<1> USE DEF BecomesOneOf
<1>0. NodeInv(node) /\ node.id = Self /\ node \in NodeState /\ Counted(node) /\ Numbered(node)
  BY DEF Inv, NodeInv, Bounds, Counted
<1>1. ASSUME NEW from \in Others, NEW dio \in Dios, NEW has_room \in HasRoom,
             ReceiveDio(from, dio, has_room)
      PROVE  Bounds'
  <2>1. PICK m \in rpl_process_dio(node, from, dio, has_room) : Becomes(m)
    BY <1>1 DEF ReceiveDio
  <2>2. /\ from \in Node /\ dio \in Dio /\ has_room \in BOOLEAN /\ dio.mop # "STORING"
        /\ dio.dag = node.id => rpl_dag_root_is_root(node)
    BY <1>0, <1>1, InputAssumption DEF ReceiveDio, Others, IsRoot, NoStoringDio
  <2>3. NodeInv(m) /\ m.id = node.id
    BY <1>0, <2>1, <2>2, ProcessDio DEF SameOrNewer
  <2>4. Counting(m, node)
    BY <1>0, <2>1, <2>2, ProcessDioCounting
  <2> QED BY <2>1, <2>3, <2>4, BecomesBounds
<1>2. ASSUME NEW from \in Others, NEW is_multicast \in BOOLEAN, NEW has_room \in HasRoom,
             ReceiveDis(from, is_multicast, has_room)
      PROVE  Bounds'
  <2>1. from \in Node /\ has_room \in BOOLEAN
    BY InputAssumption DEF Others
  <2>2. PICK m \in rpl_process_dis(node, from, is_multicast, has_room) : Becomes(m)
    BY <1>2 DEF ReceiveDis
  <2>3. NodeInv(m) /\ m.id = node.id /\ Counting(m, node)
    BY <1>0, <2>1, <2>2, ProcessDis, ProcessDisCounting DEF SameMembership
  <2> QED BY <2>2, <2>3, BecomesBounds
<1>3. ASSUME NEW sequence \in Seqno, NEW status_ok \in DaoStatusOk,
             ReceiveDaoAck(sequence, status_ok)
      PROVE  Bounds'
  <2> DEFINE m == rpl_process_dao_ack(node, sequence, status_ok)
  <2>1. status_ok \in BOOLEAN
    BY InputAssumption
  <2>2. NodeInv(m) /\ m.id = node.id /\ Counting(m, node)
    BY <1>0, <2>1, ProcessDaoAck, ProcessDaoAckCounting DEF SameMembership
  <2>3. Becomes(m)
    BY <1>3 DEF ReceiveDaoAck
  <2> HIDE DEF m
  <2> QED BY <2>2, <2>3, BecomesBounds
<1>4. ASSUME NEW sender \in node.nbrs \cup {NoNode}, NEW sender_rank \in HbhRanks,
             NEW loop_detected \in BOOLEAN, NEW rank_error_signaled \in BOOLEAN,
             ReceiveHbh(sender, sender_rank, loop_detected, rank_error_signaled)
      PROVE  Bounds'
  <2>1. sender_rank \in Rank
    BY InputAssumption
  <2>2. PICK m \in rpl_process_hbh(node, sender, sender_rank, loop_detected, rank_error_signaled) :
          Becomes(m)
    BY <1>4 DEF ReceiveHbh
  <2>3. NodeInv(m) /\ m.id = node.id /\ Counting(m, node)
    BY <1>0, <2>1, <2>2, ProcessHbh, ProcessHbhCounting DEF SameMembership
  <2> QED BY <2>2, <2>3, BecomesBounds
<1>5. CASE StateUpdateTimer
  <2>1. PICK m \in rpl_dag_update_state(node) : Becomes(m)
    BY <1>5 DEF StateUpdateTimer
  <2>2. NodeInv(m) /\ m.id = node.id /\ Counting(m, node)
    BY <1>0, <2>1, UpdateStateInv, UpdateCounting DEF SameMembership
  <2> QED BY <2>1, <2>2, BecomesBounds
<1>6. CASE LeaveTimer
  <2> DEFINE n == [node EXCEPT !.leave = FALSE]
  <2>1. NodeInv(n) /\ n.id = node.id /\ Even(n, node)
    BY <1>0 DEF NodeInv, NodeState, Even
  <2>2. PICK m \in rpl_dag_leave(n) : Becomes(m)
    BY <1>6 DEF LeaveTimer
  <2> HIDE DEF n
  <2>3. NodeInv(m) /\ m.id = node.id
    BY <2>1, <2>2, LeaveInv
  <2>4. Counting(m, node)
    BY <1>0, <2>1, <2>2, EvenKeeps, LeaveCounting, EvenThenCounting
  <2> QED BY <2>2, <2>3, <2>4, BecomesBounds
<1>7. CASE DioTimer
  <2>1. PICK m \in handle_dio_timer(node) : Becomes(m)
    BY <1>7 DEF DioTimer
  <2>2. NodeInv(m) /\ m.id = node.id /\ Counting(m, node)
    BY <1>0, <2>1, DioTimerInv, DioTimerCounting DEF SameMembership
  <2> QED BY <2>1, <2>2, BecomesBounds
<1>8. CASE UnicastDioTimer
  <2>1. PICK to \in Others : \E m \in handle_unicast_dio_timer(node, to) : Becomes(m)
    BY <1>8 DEF UnicastDioTimer
  <2>2. PICK m \in handle_unicast_dio_timer(node, to) : Becomes(m)
    BY <2>1
  <2>3. NodeInv(m) /\ m.id = node.id /\ Counting(m, node)
    BY <1>0, <2>2, UnicastDioTimerInv, UnicastDioTimerCounting DEF Others, SameMembership
  <2> QED BY <2>2, <2>3, BecomesBounds
<1>9. CASE DisTimer
  <2>1. PICK m \in handle_dis_timer(node) : Becomes(m)
    BY <1>9 DEF DisTimer
  <2>2. NodeInv(m) /\ m.id = node.id /\ Counting(m, node)
    BY <1>0, <2>1, DisTimerInv, DisTimerCounting DEF SameMembership
  <2> QED BY <2>1, <2>2, BecomesBounds
<1>10. CASE NewDaoTimer
  <2>1. PICK m \in send_new_dao(node) : Becomes(m)
    BY <1>10 DEF NewDaoTimer
  <2>2. node.dao_timer # "off"
    BY <1>10 DEF NewDaoTimer
  <2>3. NodeInv(m) /\ m.id = node.id /\ Counting(m, node)
    BY <1>0, <2>1, <2>2, SendNewDaoInv, SendNewDaoCounting DEF SameMembership
  <2> QED BY <2>1, <2>3, BecomesBounds
<1>11. CASE ResendDaoTimer
  <2>1. PICK m \in resend_dao(node) : Becomes(m)
    BY <1>11 DEF ResendDaoTimer
  <2>2. NodeInv(m) /\ m.id = node.id /\ Counting(m, node)
    BY <1>0, <1>11, <2>1, ResendDaoInv, ResendDaoCounting DEF ResendDaoTimer, SameMembership
  <2> QED BY <2>1, <2>2, BecomesBounds
<1>12. CASE Periodic
  <2>1. PICK m \in rpl_dag_periodic(node) : Becomes(m)
    BY <1>12 DEF Periodic
  <2>2. NodeInv(m) /\ m.id = node.id /\ Counting(m, node)
    BY <1>0, <2>1, PeriodicInv, PeriodicCounting DEF SameMembership
  <2> QED BY <2>1, <2>2, BecomesBounds
<1>13. CASE RootStart
  <2>1. PICK m \in rpl_dag_init_root(node) : Becomes(m)
    BY <1>13 DEF RootStart
  <2>2. NodeInv(m) /\ m.id = node.id /\ Counting(m, node)
    BY <1>0, <2>1, InitRoot, InitRootCounting
  <2> QED BY <2>1, <2>2, BecomesBounds
<1>14. CASE PoisonAndLeave
  <2> DEFINE m == rpl_dag_poison_and_leave(node)
  <2>1. NodeInv(m) /\ m.id = node.id /\ Counting(m, node)
    BY <1>0, <1>14, PoisonAndLeaveInv, PoisonCounting DEF PoisonAndLeave, SameMembership
  <2>2. Becomes(m)
    BY <1>14 DEF PoisonAndLeave
  <2> HIDE DEF m
  <2> QED BY <2>1, <2>2, BecomesBounds
<1>15. CASE LocalRepair
  <2> DEFINE m == rpl_local_repair(node)
  <2>1. NodeInv(m) /\ m.id = node.id
    BY <1>0, LocalRepairInv DEF SameMembership
  <2>2. Counting(m, node)
    BY <1>0, LocalRepairCounting DEF NodeInv
  <2>3. Becomes(m)
    BY <1>15 DEF LocalRepair
  <2> HIDE DEF m
  <2> QED BY <2>1, <2>2, <2>3, BecomesBounds
<1>16. CASE GlobalRepair
  <2> DEFINE m == rpl_global_repair(node)
  <2>1. NodeInv(m) /\ m.id = node.id /\ Counting(m, node)
    BY <1>0, GlobalRepairInv, GlobalRepairCounting
  <2>2. Becomes(m)
    BY <1>16 DEF GlobalRepair
  <2> HIDE DEF m
  <2> QED BY <2>1, <2>2, BecomesBounds
<1>17. CASE RefreshRoutes
  <2> DEFINE m == rpl_refresh_routes(node)
  <2>1. NodeInv(m) /\ m.id = node.id /\ Counting(m, node)
    BY <1>0, RefreshRoutesInv, RefreshRoutesCounting DEF SameMembership
  <2>2. Becomes(m)
    BY <1>17 DEF RefreshRoutes
  <2> HIDE DEF m
  <2> QED BY <2>1, <2>2, BecomesBounds
<1>18. CASE Reboot
  <2> DEFINE m == PoweredOn(Self)
  <2>1. NodeInv(m) /\ m.id = node.id /\ Counting(m, node)
    BY <1>0, InputAssumption, PoweredOnInv, PoweredOnCounting
  <2>2. Becomes(m)
    BY <1>0, <1>18 DEF Reboot, rpl_dag_init
  <2> HIDE DEF m
  <2> QED BY <2>1, <2>2, BecomesBounds
<1> QED
  BY <1>1, <1>2, <1>3, <1>4, <1>5, <1>6, <1>7, <1>8, <1>9, <1>10, <1>11, <1>12, <1>13,
     <1>14, <1>15, <1>16, <1>17, <1>18 DEF Next, Step

(* The third inductive invariant. *)
THEOREM BoundsInvariance ==
  ASSUME NoStoringDio
  PROVE  Spec => []Bounds
<1>1. Bounds /\ UNCHANGED vars => Bounds'
  BY DEF Bounds, vars
<1>2. Inv /\ Bounds /\ [Next]_vars => Bounds'
  BY <1>1, NextBounds
<1> QED BY <1>2, InitBounds, Invariance, PTL DEF Spec

(* Count to infinity is bounded: whatever its parents advertise, the rank of *)
(* a node that is no attacker stays within max_rankinc of the lowest it had. *)
THEOREM RankBounded ==
  ASSUME \A dio \in Dios : dio.mop # "STORING", Self \notin Attackers
  PROVE  Spec => []RankIncreaseIsBounded
<1>1. NoStoringDio
  BY DEF NoStoringDio
<1>2. ASSUME Inv, Bounds, node.preferred_parent # NoNode, MaxRankInc # 0
      PROVE  node.rank <= floor + MaxRankInc
  <2>1. node.rank <= node.lowest_rank + MaxRankInc /\ node.lowest_rank <= floor
    BY <1>2 DEF Inv, Bounds, Counted, RankWithin
  <2>2. node.rank \in Nat /\ node.lowest_rank \in Nat /\ floor \in Nat /\ MaxRankInc \in Nat
    BY <1>2, RanksAreNumbers, RankAssumption DEF Inv, TypeOK, NodeInv, Rank
  <2> QED BY <2>1, <2>2
<1>3. Inv /\ Bounds => RankIncreaseIsBounded
  BY <1>2 DEF RankIncreaseIsBounded
<1> QED BY <1>1, <1>3, Invariance, BoundsInvariance, PTL
------------------------------------------------------------------------------
(* No handler is running. *)
Silent == node.sent = {}

AckIsReceived ==
  \E sequence \in Seqno, status_ok \in DaoStatusOk : ReceiveDaoAck(sequence, status_ok)

LEMMA BecomesSilent ==
  ASSUME NEW m, NodeInv(m), Becomes(m)
  PROVE  Silent'
BY DEF Becomes, NodeInv, NodeState, Silent

(* A handler that reports leaves nothing unreported: it says nothing to the *)
(* root unless it has more to say.                                          *)
LEMMA BecomesReports ==
  ASSUME Silent, NEW m, NodeInv(m), Becomes(m), Reports(m, node)
  PROVE  Silent' /\ (ParentIsReported => ParentIsReported')
<1>1. /\ node'.preferred_parent = m.preferred_parent /\ node'.mop = m.mop
      /\ node'.dao_timer = m.dao_timer
  BY DEF Becomes, NodeInv, NodeState
<1>2. Silent'
  BY BecomesSilent
<1>3. CASE Reporting(m)
  <2>1. m.preferred_parent = NoNode => m.preferred_parent \in {NoNode, told'}
    OBVIOUS
  <2> QED BY <1>1, <1>2, <1>3, <2>1 DEF Reporting, ParentIsReported
<1>4. CASE Quiet(m, node)
  <2>1. Daos(m) = {}
    BY <1>4 DEF Quiet, DaosSent, Daos, Silent
  <2>2. told' = told
    BY <2>1 DEF Becomes
  <2> QED BY <1>1, <1>2, <1>4, <2>2 DEF Quiet, ParentIsReported
<1> QED BY <1>3, <1>4 DEF Reports

(* Every action reports, but for the arrival of an acknowledgement. *)
LEMMA NextReports ==
  ASSUME Inv, Silent, Next
  PROVE  Silent' /\ (ParentIsReported => ParentIsReported' \/ AckIsReceived)
<1> DEFINE Told == Silent' /\ (ParentIsReported => ParentIsReported' \/ AckIsReceived)
<1> USE DEF BecomesOneOf
<1>0. NodeInv(node) /\ node.id = Self /\ node \in NodeState
  BY DEF Inv, NodeInv
<1>1. ASSUME NEW from \in Others, NEW dio \in Dios, NEW has_room \in HasRoom,
             ReceiveDio(from, dio, has_room)
      PROVE  Told
  <2>1. PICK m \in rpl_process_dio(node, from, dio, has_room) : Becomes(m)
    BY <1>1 DEF ReceiveDio
  <2>2. /\ from \in Node /\ dio \in Dio /\ has_room \in BOOLEAN
        /\ dio.dag = node.id => rpl_dag_root_is_root(node)
    BY <1>0, <1>1, InputAssumption DEF ReceiveDio, Others, IsRoot
  <2>3. NodeInv(m)
    BY <1>0, <2>1, <2>2, ProcessDio
  <2>4. Reports(m, node)
    BY <1>0, <2>1, <2>2, ProcessDioReports
  <2> QED BY <2>1, <2>3, <2>4, BecomesReports
<1>2. ASSUME NEW from \in Others, NEW is_multicast \in BOOLEAN, NEW has_room \in HasRoom,
             ReceiveDis(from, is_multicast, has_room)
      PROVE  Told
  <2>1. from \in Node /\ has_room \in BOOLEAN
    BY InputAssumption DEF Others
  <2>2. PICK m \in rpl_process_dis(node, from, is_multicast, has_room) : Becomes(m)
    BY <1>2 DEF ReceiveDis
  <2>3. NodeInv(m) /\ Reports(m, node)
    BY <1>0, <2>1, <2>2, ProcessDis, ProcessDisReports
  <2> QED BY <2>2, <2>3, BecomesReports
<1>3. ASSUME NEW sequence \in Seqno, NEW status_ok \in DaoStatusOk,
             ReceiveDaoAck(sequence, status_ok)
      PROVE  Told
  <2> DEFINE m == rpl_process_dao_ack(node, sequence, status_ok)
  <2>1. status_ok \in BOOLEAN
    BY InputAssumption
  <2>2. NodeInv(m)
    BY <1>0, <2>1, ProcessDaoAck
  <2>3. Becomes(m)
    BY <1>3 DEF ReceiveDaoAck
  <2> HIDE DEF m
  <2>4. Silent'
    BY <2>2, <2>3, BecomesSilent
  <2> QED BY <1>3, <2>4 DEF AckIsReceived
<1>4. ASSUME NEW sender \in node.nbrs \cup {NoNode}, NEW sender_rank \in HbhRanks,
             NEW loop_detected \in BOOLEAN, NEW rank_error_signaled \in BOOLEAN,
             ReceiveHbh(sender, sender_rank, loop_detected, rank_error_signaled)
      PROVE  Told
  <2>1. sender_rank \in Rank
    BY InputAssumption
  <2>2. PICK m \in rpl_process_hbh(node, sender, sender_rank, loop_detected, rank_error_signaled) :
          Becomes(m)
    BY <1>4 DEF ReceiveHbh
  <2>3. NodeInv(m) /\ Reports(m, node)
    BY <1>0, <2>1, <2>2, ProcessHbh, ProcessHbhReports
  <2> QED BY <2>2, <2>3, BecomesReports
<1>5. CASE StateUpdateTimer
  <2>1. PICK m \in rpl_dag_update_state(node) : Becomes(m)
    BY <1>5 DEF StateUpdateTimer
  <2>2. NodeInv(m) /\ Reports(m, node)
    BY <1>0, <2>1, UpdateStateInv, UpdateReports
  <2> QED BY <2>1, <2>2, BecomesReports
<1>6. CASE LeaveTimer
  <2> DEFINE n == [node EXCEPT !.leave = FALSE]
  <2>1. NodeInv(n)
    BY <1>0 DEF NodeInv, NodeState
  <2>2. PICK m \in rpl_dag_leave(n) : Becomes(m)
    BY <1>6 DEF LeaveTimer
  <2> HIDE DEF n
  <2>3. NodeInv(m)
    BY <2>1, <2>2, LeaveInv
  <2>4. Reports(m, node)
    BY <2>2, <2>3, LeaveInv, <2>1 DEF NodeInv, Reports, Reporting
  <2> QED BY <2>2, <2>3, <2>4, BecomesReports
<1>7. CASE DioTimer
  <2>1. PICK m \in handle_dio_timer(node) : Becomes(m)
    BY <1>7 DEF DioTimer
  <2>2. NodeInv(m) /\ Reports(m, node)
    BY <1>0, <2>1, DioTimerInv, DioTimerReports
  <2> QED BY <2>1, <2>2, BecomesReports
<1>8. CASE UnicastDioTimer
  <2>1. PICK to \in Others : \E m \in handle_unicast_dio_timer(node, to) : Becomes(m)
    BY <1>8 DEF UnicastDioTimer
  <2>2. PICK m \in handle_unicast_dio_timer(node, to) : Becomes(m)
    BY <2>1
  <2>3. NodeInv(m) /\ Reports(m, node)
    BY <1>0, <2>2, UnicastDioTimerInv, UnicastDioTimerReports DEF Others
  <2> QED BY <2>2, <2>3, BecomesReports
<1>9. CASE DisTimer
  <2>1. PICK m \in handle_dis_timer(node) : Becomes(m)
    BY <1>9 DEF DisTimer
  <2>2. NodeInv(m) /\ Reports(m, node)
    BY <1>0, <2>1, DisTimerInv, DisTimerReports
  <2> QED BY <2>1, <2>2, BecomesReports
<1>10. CASE NewDaoTimer
  <2>1. PICK m \in send_new_dao(node) : Becomes(m)
    BY <1>10 DEF NewDaoTimer
  <2>2. NodeInv(m) /\ Reports(m, node)
    BY <1>0, <2>1, SendNewDaoInv, SendNewDaoReports DEF Reports
  <2> QED BY <2>1, <2>2, BecomesReports
<1>11. CASE ResendDaoTimer
  <2>1. PICK m \in resend_dao(node) : Becomes(m)
    BY <1>11 DEF ResendDaoTimer
  <2>2. NodeInv(m) /\ Reports(m, node)
    BY <1>0, <2>1, ResendDaoInv, ResendDaoReports DEF Reports
  <2> QED BY <2>1, <2>2, BecomesReports
<1>12. CASE Periodic
  <2>1. PICK m \in rpl_dag_periodic(node) : Becomes(m)
    BY <1>12 DEF Periodic
  <2>2. NodeInv(m) /\ Reports(m, node)
    BY <1>0, <2>1, PeriodicInv, PeriodicReports
  <2> QED BY <2>1, <2>2, BecomesReports
<1>13. CASE RootStart
  <2>1. PICK m \in rpl_dag_init_root(node) : Becomes(m)
    BY <1>13 DEF RootStart
  <2>2. NodeInv(m) /\ Reports(m, node)
    BY <1>0, <2>1, InitRoot DEF Reports, Reporting
  <2> QED BY <2>1, <2>2, BecomesReports
<1>14. CASE PoisonAndLeave
  <2> DEFINE m == rpl_dag_poison_and_leave(node)
  <2>1. NodeInv(m) /\ Reports(m, node)
    BY <1>0, PoisonAndLeaveInv, PoisonReports DEF Reports
  <2>2. Becomes(m)
    BY <1>14 DEF PoisonAndLeave
  <2> HIDE DEF m
  <2> QED BY <2>1, <2>2, BecomesReports
<1>15. CASE LocalRepair
  <2> DEFINE m == rpl_local_repair(node)
  <2>1. NodeInv(m)
    BY <1>0, LocalRepairInv
  <2>2. Reports(m, node)
    BY <1>0, LocalRepairReports DEF NodeInv
  <2>3. Becomes(m)
    BY <1>15 DEF LocalRepair
  <2> HIDE DEF m
  <2> QED BY <2>1, <2>2, <2>3, BecomesReports
<1>16. CASE GlobalRepair
  <2> DEFINE m == rpl_global_repair(node)
  <2>1. NodeInv(m) /\ Reports(m, node)
    BY <1>0, GlobalRepairInv, GlobalRepairReports
  <2>2. Becomes(m)
    BY <1>16 DEF GlobalRepair
  <2> HIDE DEF m
  <2> QED BY <2>1, <2>2, BecomesReports
<1>17. CASE RefreshRoutes
  <2> DEFINE m == rpl_refresh_routes(node)
  <2>1. NodeInv(m) /\ Reports(m, node)
    BY <1>0, RefreshRoutesInv, RefreshRoutesReports
  <2>2. Becomes(m)
    BY <1>17 DEF RefreshRoutes
  <2> HIDE DEF m
  <2> QED BY <2>1, <2>2, BecomesReports
<1>18. CASE Reboot
  <2> DEFINE m == PoweredOn(Self)
  <2>1. NodeInv(m) /\ Reports(m, node)
    BY <1>0, InputAssumption, PoweredOnInv DEF PoweredOn, Reports, Reporting
  <2>2. Becomes(m)
    BY <1>0, <1>18 DEF Reboot, rpl_dag_init
  <2> HIDE DEF m
  <2> QED BY <2>1, <2>2, BecomesReports
<1> QED
  BY <1>1, <1>2, <1>3, <1>4, <1>5, <1>6, <1>7, <1>8, <1>9, <1>10, <1>11, <1>12, <1>13,
     <1>14, <1>15, <1>16, <1>17, <1>18 DEF Next, Step

(* A parent switch stays pending until it is reported, whatever happens      *)
(* meanwhile; only an acknowledgement can put it off.                       *)
THEOREM SwitchSafe == Spec => ParentSwitchIsReported
<1>1. Init => Silent
  BY DEF Init, PoweredOn, Silent
<1>2. Silent /\ UNCHANGED vars => Silent'
  BY DEF Silent, vars
<1>3. Inv /\ Silent /\ [Next]_vars => Silent'
  BY <1>2, NextReports
<1>4. Inv /\ Silent /\ [Next]_vars =>
        [ParentIsReported => ParentIsReported' \/ AckIsReceived]_vars
  BY NextReports
<1> QED BY <1>1, <1>3, <1>4, Invariance, PTL DEF Spec, ParentSwitchIsReported, AckIsReceived
------------------------------------------------------------------------------
(* Between handlers the neighbors know the rank of the node, or are about to  *)
(* be told of it.                                                           *)
InTouch == Shown(node, heard) /\ Silent

LEMMA BecomesShown ==
  ASSUME NEW m, NodeInv(m), Becomes(m), Shown(m, heard')
  PROVE  InTouch'
<1>1. /\ node'.preferred_parent = m.preferred_parent /\ node'.mop = m.mop
      /\ node'.used = m.used /\ node'.state = m.state /\ node'.rank = m.rank
      /\ node'.dio_fresh = m.dio_fresh
      /\ node'.last_advertised_rank = m.last_advertised_rank
  BY DEF Becomes, NodeInv, NodeState
<1>2. Shown(node', heard')
  BY <1>1 DEF Shown, Ranked, rpl_dag_ready_to_advertise
<1> QED BY <1>2, BecomesSilent DEF InTouch

LEMMA BecomesShows ==
  ASSUME Inv, InTouch, NEW m, NodeInv(m), Becomes(m), Shows(m, node)
  PROVE  InTouch'
<1>1. MulticastDios(m) = {}
  BY DEF InTouch, Silent, Shows, Multicasts, MulticastDios
<1>2. heard' \in {heard, InfiniteRank}
  BY <1>1 DEF Becomes
<1>3. Shown(m, heard)
  BY DEF Inv, TypeOK, InTouch, Shows
<1>4. Shown(m, InfiniteRank)
  BY <1>3 DEF Shown
<1> QED BY <1>2, <1>3, <1>4, BecomesShown

LEMMA BecomesAdvertised ==
  ASSUME NEW m, NodeInv(m), Becomes(m), Advertised(m)
  PROVE  InTouch'
<1>1. MulticastDios(m) = Multicasts(m)
  BY DEF Multicasts, MulticastDios
<1>2. CASE Multicasts(m) = {}
  <2>1. Shown(m, heard')
    BY <1>2 DEF Advertised, Showing, Shown
  <2> QED BY <2>1, BecomesShown
<1>3. CASE Multicasts(m) # {}
  <2>1. heard' = m.rank
    BY <1>1, <1>3 DEF Becomes, Advertised
  <2> QED BY <2>1, BecomesShown DEF Advertised
<1> QED BY <1>2, <1>3

(* Every action tells the neighbors, or sees to it that they will be told.  *)
LEMMA NextShows ==
  ASSUME ~DioRedundancy, Inv, InTouch, Next
  PROVE  InTouch'
<1> USE DEF BecomesOneOf
<1>0. NodeInv(node) /\ node.id = Self /\ node \in NodeState
  BY DEF Inv, NodeInv
<1>1. ASSUME NEW from \in Others, NEW dio \in Dios, NEW has_room \in HasRoom,
             ReceiveDio(from, dio, has_room)
      PROVE  InTouch'
  <2>1. PICK m \in rpl_process_dio(node, from, dio, has_room) : Becomes(m)
    BY <1>1 DEF ReceiveDio
  <2>2. /\ from \in Node /\ dio \in Dio /\ has_room \in BOOLEAN
        /\ dio.dag = node.id => rpl_dag_root_is_root(node)
    BY <1>0, <1>1, InputAssumption DEF ReceiveDio, Others, IsRoot
  <2>3. NodeInv(m)
    BY <1>0, <2>1, <2>2, ProcessDio
  <2>4. Shows(m, node)
    BY <1>0, <2>1, <2>2, ProcessDioShows
  <2> QED BY <2>1, <2>3, <2>4, BecomesShows
<1>2. ASSUME NEW from \in Others, NEW is_multicast \in BOOLEAN, NEW has_room \in HasRoom,
             ReceiveDis(from, is_multicast, has_room)
      PROVE  InTouch'
  <2>1. from \in Node /\ has_room \in BOOLEAN
    BY InputAssumption DEF Others
  <2>2. PICK m \in rpl_process_dis(node, from, is_multicast, has_room) : Becomes(m)
    BY <1>2 DEF ReceiveDis
  <2>3. NodeInv(m) /\ Shows(m, node)
    BY <1>0, <2>1, <2>2, ProcessDis, ProcessDisShows
  <2> QED BY <2>2, <2>3, BecomesShows
<1>3. ASSUME NEW sequence \in Seqno, NEW status_ok \in DaoStatusOk,
             ReceiveDaoAck(sequence, status_ok)
      PROVE  InTouch'
  <2> DEFINE m == rpl_process_dao_ack(node, sequence, status_ok)
  <2>1. status_ok \in BOOLEAN
    BY InputAssumption
  <2>2. NodeInv(m) /\ Shows(m, node)
    BY <1>0, <2>1, ProcessDaoAck, ProcessDaoAckShows
  <2>3. Becomes(m)
    BY <1>3 DEF ReceiveDaoAck
  <2> HIDE DEF m
  <2> QED BY <2>2, <2>3, BecomesShows
<1>4. ASSUME NEW sender \in node.nbrs \cup {NoNode}, NEW sender_rank \in HbhRanks,
             NEW loop_detected \in BOOLEAN, NEW rank_error_signaled \in BOOLEAN,
             ReceiveHbh(sender, sender_rank, loop_detected, rank_error_signaled)
      PROVE  InTouch'
  <2>1. sender_rank \in Rank
    BY InputAssumption
  <2>2. PICK m \in rpl_process_hbh(node, sender, sender_rank, loop_detected, rank_error_signaled) :
          Becomes(m)
    BY <1>4 DEF ReceiveHbh
  <2>3. NodeInv(m) /\ Shows(m, node)
    BY <1>0, <2>1, <2>2, ProcessHbh, ProcessHbhShows
  <2> QED BY <2>2, <2>3, BecomesShows
<1>5. CASE StateUpdateTimer
  <2>1. PICK m \in rpl_dag_update_state(node) : Becomes(m)
    BY <1>5 DEF StateUpdateTimer
  <2>2. NodeInv(m) /\ Shows(m, node)
    BY <1>0, <2>1, UpdateStateInv, UpdateShows
  <2> QED BY <2>1, <2>2, BecomesShows
<1>6. CASE LeaveTimer
  <2> DEFINE n == [node EXCEPT !.leave = FALSE]
  <2>1. NodeInv(n) /\ Plain(n, node)
    BY <1>0 DEF NodeInv, NodeState, Plain, Multicasts
  <2>2. PICK m \in rpl_dag_leave(n) : Becomes(m)
    BY <1>6 DEF LeaveTimer
  <2> HIDE DEF n
  <2>3. NodeInv(m)
    BY <2>1, <2>2, LeaveInv
  <2>4. Shows(m, node)
    BY <2>1, <2>2, PlainShows, LeaveShows, ShowsTransitive
  <2> QED BY <2>2, <2>3, <2>4, BecomesShows
<1>7. CASE DioTimer
  <2>1. PICK m \in handle_dio_timer(node) : Becomes(m)
    BY <1>7 DEF DioTimer
  <2>2. Ranked(node) /\ node.sent = {}
    BY DEF InTouch, Shown, Silent
  <2>3. NodeInv(m) /\ Advertised(m)
    BY <1>0, <2>1, <2>2, DioTimerInv, DioTimerShows
  <2> QED BY <2>1, <2>3, BecomesAdvertised
<1>8. CASE UnicastDioTimer
  <2>1. PICK to \in Others : \E m \in handle_unicast_dio_timer(node, to) : Becomes(m)
    BY <1>8 DEF UnicastDioTimer
  <2>2. PICK m \in handle_unicast_dio_timer(node, to) : Becomes(m)
    BY <2>1
  <2>3. NodeInv(m) /\ Shows(m, node)
    BY <1>0, <2>2, UnicastDioTimerInv, UnicastDioTimerShows DEF Others
  <2> QED BY <2>2, <2>3, BecomesShows
<1>9. CASE DisTimer
  <2>1. PICK m \in handle_dis_timer(node) : Becomes(m)
    BY <1>9 DEF DisTimer
  <2>2. NodeInv(m) /\ Shows(m, node)
    BY <1>0, <2>1, DisTimerInv, DisTimerShows
  <2> QED BY <2>1, <2>2, BecomesShows
<1>10. CASE NewDaoTimer
  <2>1. PICK m \in send_new_dao(node) : Becomes(m)
    BY <1>10 DEF NewDaoTimer
  <2>2. NodeInv(m) /\ Shows(m, node)
    BY <1>0, <2>1, SendNewDaoInv, SendNewDaoShows
  <2> QED BY <2>1, <2>2, BecomesShows
<1>11. CASE ResendDaoTimer
  <2>1. PICK m \in resend_dao(node) : Becomes(m)
    BY <1>11 DEF ResendDaoTimer
  <2>2. NodeInv(m) /\ Shows(m, node)
    BY <1>0, <2>1, ResendDaoInv, ResendDaoShows
  <2> QED BY <2>1, <2>2, BecomesShows
<1>12. CASE Periodic
  <2>1. PICK m \in rpl_dag_periodic(node) : Becomes(m)
    BY <1>12 DEF Periodic
  <2>2. NodeInv(m) /\ Shows(m, node)
    BY <1>0, <2>1, PeriodicInv, PeriodicShows
  <2> QED BY <2>1, <2>2, BecomesShows
<1>13. CASE RootStart
  <2>1. PICK m \in rpl_dag_init_root(node) : Becomes(m)
    BY <1>13 DEF RootStart
  <2>2. NodeInv(m) /\ Shows(m, node)
    BY <1>0, <2>1, InitRoot, InitRootShows
  <2> QED BY <2>1, <2>2, BecomesShows
<1>14. CASE PoisonAndLeave
  <2> DEFINE m == rpl_dag_poison_and_leave(node)
  <2>1. NodeInv(m) /\ Shows(m, node)
    BY <1>0, PoisonAndLeaveInv, PoisonShows
  <2>2. Becomes(m)
    BY <1>14 DEF PoisonAndLeave
  <2> HIDE DEF m
  <2> QED BY <2>1, <2>2, BecomesShows
<1>15. CASE LocalRepair
  <2> DEFINE m == rpl_local_repair(node)
  <2>1. NodeInv(m)
    BY <1>0, LocalRepairInv
  <2>2. Shows(m, node)
    BY <1>0, LocalRepairShows DEF NodeInv
  <2>3. Becomes(m)
    BY <1>15 DEF LocalRepair
  <2> HIDE DEF m
  <2> QED BY <2>1, <2>2, <2>3, BecomesShows
<1>16. CASE GlobalRepair
  <2> DEFINE m == rpl_global_repair(node)
  <2>1. NodeInv(m) /\ Shows(m, node)
    BY <1>0, GlobalRepairInv, GlobalRepairShows
  <2>2. Becomes(m)
    BY <1>16 DEF GlobalRepair
  <2> HIDE DEF m
  <2> QED BY <2>1, <2>2, BecomesShows
<1>17. CASE RefreshRoutes
  <2> DEFINE m == rpl_refresh_routes(node)
  <2>1. NodeInv(m) /\ Shows(m, node)
    BY <1>0, RefreshRoutesInv, RefreshRoutesShows
  <2>2. Becomes(m)
    BY <1>17 DEF RefreshRoutes
  <2> HIDE DEF m
  <2> QED BY <2>1, <2>2, BecomesShows
<1>18. CASE Reboot
  <2> DEFINE m == PoweredOn(Self)
  <2>1. NodeInv(m) /\ m.sent = {} /\ ~m.used
    BY <1>0, InputAssumption, PoweredOnInv DEF PoweredOn
  <2>2. Becomes(m)
    BY <1>0, <1>18 DEF Reboot, rpl_dag_init
  <2> HIDE DEF m
  <2>3. Multicasts(m) = {} /\ Showing(m)
    BY <2>1 DEF NodeInv, Multicasts, Showing, Ranked, rpl_dag_ready_to_advertise
  <2>4. Shows(m, node)
    BY <2>3, ShowingShows DEF InTouch, Silent, Multicasts
  <2> QED BY <2>1, <2>2, <2>4, BecomesShows
<1> QED
  BY <1>1, <1>2, <1>3, <1>4, <1>5, <1>6, <1>7, <1>8, <1>9, <1>10, <1>11, <1>12, <1>13,
     <1>14, <1>15, <1>16, <1>17, <1>18 DEF Next, Step

(* What the neighbors were told is close to the rank of the node, or they    *)
(* will be told again soon, if no DIO is ever suppressed: a node whose DIOs  *)
(* the redundancy counter keeps back notes its rank without sending it.     *)
THEOREM RankAdvertised ==
  ASSUME ~DioRedundancy
  PROVE  Spec => []SignificantRankIsAdvertised
<1>1. Init => InTouch
  <2> SUFFICES ASSUME Init PROVE InTouch
    OBVIOUS
  <2>1. ~node.used /\ node.preferred_parent = NoNode /\ node.sent = {}
    BY DEF Init, PoweredOn
  <2> QED BY <2>1 DEF InTouch, Silent, Shown, Ranked, rpl_dag_ready_to_advertise
<1>2. InTouch /\ UNCHANGED vars => InTouch'
  BY DEF InTouch, Silent, vars
<1>3. Inv /\ InTouch /\ [Next]_vars => InTouch'
  BY <1>2, NextShows
<1>4. ASSUME Inv, InTouch
      PROVE  SignificantRankIsAdvertised
  <2>1. /\ node.rank \in Nat /\ heard \in Nat /\ node.last_advertised_rank \in Nat
        /\ SignificantChange \in Nat
    BY <1>4, RankAssumption DEF Inv, TypeOK, NodeState, Rank
  <2>2. ASSUME ~significant(node.last_advertised_rank, heard),
               ~significant(node.rank, node.last_advertised_rank)
        PROVE  ~(node.rank - heard > 2 * SignificantChange
                 \/ heard - node.rank > 2 * SignificantChange)
    BY <2>1, <2>2 DEF significant
  <2> QED BY <1>4, <2>2 DEF InTouch, Shown, SignificantRankIsAdvertised
<1>5. Inv /\ InTouch => SignificantRankIsAdvertised
  BY <1>4
<1> QED BY <1>1, <1>3, <1>5, Invariance, PTL DEF Spec
===============================================================================
