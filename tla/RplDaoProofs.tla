----------------------------- MODULE RplDaoProofs -----------------------------
(***************************************************************************)
(* What the network and the root do to a node, by way of lost, delayed and *)
(* reordered DAOs and acknowledgements, is no more than RplNode allows: the*)
(* detailed specification implements that of the node alone.  The one guard*)
(* of RplNode that the root could break is that of an acknowledgement: no  *)
(* number on its way is the one that a counter starts from.                *)
(***************************************************************************)
EXTENDS RplDao, RplNodeProofs

(* The numbers of DAOs that were sent. *)
Used == Seqno \ {SeqnoInit}

DaoOnWay == [type: {"DAO"}, parent: Node, seqno: Used, lifetime: {0, 1}]

DaoInv ==
  /\ Inv /\ Bounds
  /\ daos \subseteq DaoOnWay
  /\ link \in Node \cup {NoNode}
  /\ owed \subseteq Used /\ acks \subseteq Used /\ noted \in BOOLEAN

LEMMA InitDaoInv == DaoInit => DaoInv
BY InitInv, InitBounds DEF DaoInit, DaoInv

(* The DAOs of a handler that keeps the numbers in order. *)
LEMMA DaosOnWay ==
  ASSUME NEW m, NodeInv(m), Numbered(m)
  PROVE  Daos(m) \subseteq DaoOnWay
<1>1. m.sent \subseteq Message
  BY DEF NodeInv, NodeState
<1>2. SUFFICES ASSUME NEW dao \in Daos(m) PROVE dao \in DaoOnWay
  OBVIOUS
<1>3. dao \in Message /\ dao.type = "DAO" /\ dao.seqno # SeqnoInit
  BY <1>1 DEF Daos, Numbered
<1>4. dao \in [type: {"DAO"}, parent: Node, seqno: Seqno, lifetime: {0, 1}]
  BY <1>3 DEF Message
<1> QED BY <1>3, <1>4 DEF DaoOnWay, Used

(* A step of the node that is one of RplNode. *)
LEMMA DoesInv ==
  ASSUME NoStoringDio, DaoInv, NEW S, Does(S), Next,
         \A m \in S : NodeInv(m) /\ Counting(m, node)
  PROVE  DaoInv'
<1>1. Inv' /\ Bounds'
  BY NextInv, NextBounds DEF DaoInv
<1>2. PICK m \in S : /\ \E kept \in SUBSET Daos(m) : daos' = daos \cup kept
                     /\ noted' = (noted /\ told' = told)
                     /\ UNCHANGED rootVars
  BY DEF Does
<1>3. Daos(m) \subseteq DaoOnWay
  BY DaosOnWay DEF Counting, Counted
<1>4. daos' \subseteq DaoOnWay
  BY <1>2, <1>3 DEF DaoInv
<1> QED BY <1>1, <1>2, <1>4 DEF DaoInv, rootVars

(* Each step of the node is a step of RplNode. *)
LEMMA NodeStepIsNext ==
  ASSUME NoStoringDio, DaoInv, NodeStep
  PROVE  (Next \/ UNCHANGED vars) /\ DaoInv'
<1> USE DEF Next, Step
<1>0. /\ NodeInv(node) /\ node.id = Self /\ Counted(node) /\ Numbered(node)
      /\ Inv /\ node \in NodeState
  BY DEF DaoInv, Inv, Bounds, Counted, NodeInv
<1>a. ASSUME NEW S, Does(S)
      PROVE  BecomesOneOf(S)
  BY <1>a DEF Does, BecomesOneOf
<1>1. ASSUME NEW from \in Others, NEW dio \in Dios, NEW has_room \in HasRoom,
             HearDio(from, dio, has_room)
      PROVE  Next /\ DaoInv'
  <2> DEFINE S == rpl_process_dio(node, from, dio, has_room)
  <2>1. Does(S) /\ dio.dag # Self
    BY <1>1 DEF HearDio
  <2>2. Next
    BY <1>a, <2>1 DEF ReceiveDio
  <2>3. ASSUME NEW m \in S PROVE NodeInv(m) /\ Counting(m, node)
    <3>1. /\ from \in Node /\ dio \in Dio /\ has_room \in BOOLEAN /\ dio.mop # "STORING"
          /\ dio.dag # node.id
      BY <1>0, <2>1, InputAssumption DEF Others, NoStoringDio
    <3> QED BY <1>0, <2>3, <3>1, ProcessDio, ProcessDioCounting
  <2> HIDE DEF S
  <2> QED BY <2>1, <2>2, <2>3, DoesInv
<1>2. ASSUME NEW from \in Others, NEW is_multicast \in BOOLEAN, NEW has_room \in HasRoom,
             HearDis(from, is_multicast, has_room)
      PROVE  Next /\ DaoInv'
  <2> DEFINE S == rpl_process_dis(node, from, is_multicast, has_room)
  <2>1. Does(S) /\ node.used
    BY <1>2 DEF HearDis
  <2>2. Next
    BY <1>a, <2>1 DEF ReceiveDis
  <2>3. ASSUME NEW m \in S PROVE NodeInv(m) /\ Counting(m, node)
    <3>1. from \in Node /\ has_room \in BOOLEAN
      BY InputAssumption DEF Others
    <3> QED BY <1>0, <2>3, <3>1, ProcessDis, ProcessDisCounting
  <2> HIDE DEF S
  <2> QED BY <2>1, <2>2, <2>3, DoesInv
<1>3. ASSUME NEW sender \in node.nbrs \cup {NoNode}, NEW sender_rank \in HbhRanks,
             NEW loop_detected \in BOOLEAN, NEW rank_error_signaled \in BOOLEAN,
             HearHbh(sender, sender_rank, loop_detected, rank_error_signaled)
      PROVE  Next /\ DaoInv'
  <2> DEFINE S == rpl_process_hbh(node, sender, sender_rank, loop_detected, rank_error_signaled)
  <2>1. Does(S) /\ node.used
    BY <1>3 DEF HearHbh
  <2>2. Next
    BY <1>a, <2>1 DEF ReceiveHbh
  <2>3. ASSUME NEW m \in S PROVE NodeInv(m) /\ Counting(m, node)
    <3>1. sender_rank \in Rank
      BY InputAssumption
    <3> QED BY <1>0, <2>3, <3>1, ProcessHbh, ProcessHbhCounting
  <2> HIDE DEF S
  <2> QED BY <2>1, <2>2, <2>3, DoesInv
<1>4. CASE UpdateState
  <2> DEFINE S == rpl_dag_update_state(node)
  <2>1. Does(S) /\ node.state_update
    BY <1>4 DEF UpdateState
  <2>2. Next
    BY <1>a, <2>1 DEF StateUpdateTimer
  <2>3. ASSUME NEW m \in S PROVE NodeInv(m) /\ Counting(m, node)
    BY <1>0, <2>3, UpdateStateInv, UpdateCounting
  <2> HIDE DEF S
  <2> QED BY <2>1, <2>2, <2>3, DoesInv
<1>5. CASE Leave
  <2> DEFINE n == [node EXCEPT !.leave = FALSE]
             S == rpl_dag_leave(n)
  <2>1. Does(S) /\ node.leave
    BY <1>5 DEF Leave
  <2>2. Next
    BY <1>a, <2>1 DEF LeaveTimer
  <2>3. NodeInv(n) /\ Even(n, node)
    BY <1>0 DEF NodeInv, NodeState, Even
  <2> HIDE DEF n
  <2>4. ASSUME NEW m \in S PROVE NodeInv(m) /\ Counting(m, node)
    BY <1>0, <2>3, <2>4, EvenKeeps, LeaveInv, LeaveCounting, EvenThenCounting
  <2> HIDE DEF S
  <2> QED BY <2>1, <2>2, <2>4, DoesInv
<1>6. CASE MulticastDio
  <2> DEFINE S == handle_dio_timer(node)
  <2>1. Does(S) /\ node.used
    BY <1>6 DEF MulticastDio
  <2>2. Next
    BY <1>a, <2>1 DEF DioTimer
  <2>3. ASSUME NEW m \in S PROVE NodeInv(m) /\ Counting(m, node)
    BY <1>0, <2>3, DioTimerInv, DioTimerCounting
  <2> HIDE DEF S
  <2> QED BY <2>1, <2>2, <2>3, DoesInv
<1>7. CASE UnicastDio
  <2>1. PICK to \in Others : Does(handle_unicast_dio_timer(node, to))
    BY <1>7 DEF UnicastDio
  <2> DEFINE S == handle_unicast_dio_timer(node, to)
  <2>2. Does(S) /\ node.unicast_dio
    BY <1>7, <2>1 DEF UnicastDio
  <2>3. Next
    BY <1>a, <2>2 DEF UnicastDioTimer
  <2>4. ASSUME NEW m \in S PROVE NodeInv(m) /\ Counting(m, node)
    BY <1>0, <2>4, UnicastDioTimerInv, UnicastDioTimerCounting DEF Others
  <2> HIDE DEF S
  <2> QED BY <2>2, <2>3, <2>4, DoesInv
<1>8. CASE MulticastDis
  <2> DEFINE S == handle_dis_timer(node)
  <2>1. Does(S) /\ node.periodic_dis
    BY <1>8 DEF MulticastDis
  <2>2. Next
    BY <1>a, <2>1 DEF DisTimer
  <2>3. ASSUME NEW m \in S PROVE NodeInv(m) /\ Counting(m, node)
    BY <1>0, <2>3, DisTimerInv, DisTimerCounting
  <2> HIDE DEF S
  <2> QED BY <2>1, <2>2, <2>3, DoesInv
<1>9. CASE SendNewDao
  <2> DEFINE S == send_new_dao(node)
  <2>1. Does(S) /\ node.dao_timer \in {"new", "refresh"}
    BY <1>9 DEF SendNewDao
  <2>2. Next
    BY <1>a, <2>1 DEF NewDaoTimer
  <2>3. ASSUME NEW m \in S PROVE NodeInv(m) /\ Counting(m, node)
    BY <1>0, <2>1, <2>3, SendNewDaoInv, SendNewDaoCounting
  <2> HIDE DEF S
  <2> QED BY <2>1, <2>2, <2>3, DoesInv
<1>10. CASE ResendDao
  <2> DEFINE S == resend_dao(node)
  <2>1. Does(S) /\ node.dao_timer = "resend"
    BY <1>10 DEF ResendDao
  <2>2. Next
    BY <1>a, <2>1 DEF ResendDaoTimer
  <2>3. ASSUME NEW m \in S PROVE NodeInv(m) /\ Counting(m, node)
    BY <1>0, <2>1, <2>3, ResendDaoInv, ResendDaoCounting
  <2> HIDE DEF S
  <2> QED BY <2>1, <2>2, <2>3, DoesInv
<1>11. CASE Tick
  <2> DEFINE S == rpl_dag_periodic(node)
  <2>1. Does(S) /\ node.used
    BY <1>11 DEF Tick
  <2>2. Next
    BY <1>a, <2>1 DEF Periodic
  <2>3. ASSUME NEW m \in S PROVE NodeInv(m) /\ Counting(m, node)
    BY <1>0, <2>3, PeriodicInv, PeriodicCounting
  <2> HIDE DEF S
  <2> QED BY <2>1, <2>2, <2>3, DoesInv
<1>12. CASE AskToLeave
  <2> DEFINE S == {rpl_dag_poison_and_leave(node)}
  <2>1. Does(S) /\ node.used
    BY <1>12 DEF AskToLeave
  <2>2. Next
    BY <2>1 DEF Does, PoisonAndLeave
  <2>3. ASSUME NEW m \in S PROVE NodeInv(m) /\ Counting(m, node)
    BY <1>0, <2>1, <2>3, PoisonAndLeaveInv, PoisonCounting
  <2> HIDE DEF S
  <2> QED BY <2>1, <2>2, <2>3, DoesInv
<1>13. CASE Repair
  <2> DEFINE S == {rpl_local_repair(node)}
  <2>1. Does(S)
    BY <1>13 DEF Repair
  <2>2. Next
    BY <2>1 DEF Does, LocalRepair
  <2>3. ASSUME NEW m \in S PROVE NodeInv(m) /\ Counting(m, node)
    BY <1>0, <2>3, LocalRepairInv, LocalRepairCounting DEF NodeInv
  <2> HIDE DEF S
  <2> QED BY <2>1, <2>2, <2>3, DoesInv
<1>14. CASE Restart
  <2> DEFINE S == {rpl_dag_init(node)}
  <2>1. Does(S)
    BY <1>14 DEF Restart
  <2>2. Next
    BY <2>1 DEF Does, Reboot
  <2>3. ASSUME NEW m \in S PROVE NodeInv(m) /\ Counting(m, node)
    BY <1>0, <2>3, InputAssumption, PoweredOnInv, PoweredOnCounting DEF rpl_dag_init
  <2> HIDE DEF S
  <2> QED BY <2>1, <2>2, <2>3, DoesInv
<1>15. ASSUME NEW sequence \in acks, AckArrives(sequence)
       PROVE  (Next \/ UNCHANGED vars) /\ DaoInv'
  <2>1. /\ acks' \subseteq Used /\ UNCHANGED <<daos, link, owed, noted>>
        /\ sequence \in Seqno /\ sequence # SeqnoInit
    BY <1>15 DEF AckArrives, DaoInv, Used
  <2>2. CASE node.used /\ Becomes(rpl_process_dao_ack(node, sequence, TRUE))
    <3>1. ReceiveDaoAck(sequence, TRUE) /\ TRUE \in DaoStatusOk
      BY <2>1, <2>2, DaoAssumption DEF ReceiveDaoAck
    <3>2. Next
      BY <2>1, <3>1
    <3>3. Inv' /\ Bounds'
      BY <3>2, NextInv, NextBounds DEF DaoInv
    <3> QED BY <2>1, <3>2, <3>3 DEF DaoInv
  <2>3. CASE UNCHANGED vars
    <3>1. Inv' /\ Bounds'
      BY <2>3 DEF DaoInv, Inv, TypeOK, Bounds, vars
    <3> QED BY <2>1, <2>3, <3>1 DEF DaoInv
  <2> QED BY <1>15, <2>2, <2>3 DEF AckArrives
<1> HIDE DEF Next, Step
<1> QED
  BY <1>1, <1>2, <1>3, <1>4, <1>5, <1>6, <1>7, <1>8, <1>9, <1>10, <1>11, <1>12, <1>13,
     <1>14, <1>15 DEF NodeStep

(* The root leaves the node alone, and acknowledges only what it received. *)
LEMMA RootStepStutters ==
  ASSUME DaoInv, RootStep
  PROVE  UNCHANGED vars /\ DaoInv'
<1>1. UNCHANGED vars => Inv' /\ Bounds'
  BY DEF DaoInv, Inv, TypeOK, Bounds, vars
<1>2. ASSUME NEW dao \in daos, NEW has_room \in RootHasRoom, DaoArrives(dao, has_room)
      PROVE  UNCHANGED vars /\ DaoInv'
  <2>1. dao.parent \in Node /\ dao.seqno \in Used
    BY DEF DaoInv, DaoOnWay
  <2>2. UNCHANGED vars /\ acks' = acks /\ daos' \subseteq daos /\ noted' \in BOOLEAN
    BY <1>2 DEF DaoArrives, DaoInv
  <2>3. link' \in {link, NoNode, dao.parent} /\ owed' \in {owed, {dao.seqno}}
    BY <1>2 DEF DaoArrives, rpl_process_dao
  <2> QED BY <1>1, <2>1, <2>2, <2>3 DEF DaoInv
<1>3. CASE AckTimer
  BY <1>1, <1>3 DEF AckTimer, DaoInv
<1>4. CASE RouteExpires
  BY <1>1, <1>4 DEF RouteExpires, DaoInv
<1>5. CASE RootRestarts
  BY <1>1, <1>5 DEF RootRestarts, DaoInv
<1> QED BY <1>2, <1>3, <1>4, <1>5 DEF RootStep

LEMMA DaoStep ==
  ASSUME NoStoringDio, DaoInv, [DaoNext]_daoVars
  PROVE  [Next]_vars /\ DaoInv'
<1>1. CASE NodeStep
  BY <1>1, NodeStepIsNext
<1>2. CASE RootStep
  BY <1>2, RootStepStutters
<1>3. CASE UNCHANGED daoVars
  <2>1. UNCHANGED vars /\ UNCHANGED <<daos, link, owed, acks, noted>>
    BY <1>3 DEF daoVars, vars
  <2>2. Inv' /\ Bounds'
    BY <2>1 DEF DaoInv, Inv, TypeOK, Bounds, vars
  <2> QED BY <2>1, <2>2 DEF DaoInv
<1> QED BY <1>1, <1>2, <1>3 DEF DaoNext

(* The inductive invariant. *)
THEOREM DaoInvariance ==
  ASSUME NoStoringDio
  PROVE  DaoSpec => []DaoInv
<1>1. DaoInv /\ [DaoNext]_daoVars => DaoInv'
  BY DaoStep
<1> QED BY <1>1, InitDaoInv, PTL DEF DaoSpec

(* The messages between a node and the root, and the root's entry for it,    *)
(* stay within their types.                                                 *)
THEOREM DaoTypeCorrect ==
  ASSUME \A dio \in Dios : dio.mop # "STORING"
  PROVE  DaoSpec => []DaoTypeOK
<1>1. NoStoringDio
  BY DEF NoStoringDio
<1>2. DaoInv => DaoTypeOK
  BY DEF DaoInv, Inv, DaoTypeOK, DaoOnWay, Used
<1> QED BY <1>1, <1>2, DaoInvariance, PTL

(* Whatever is lost, delayed or reordered between it and the root, a node    *)
(* does only what RplNode allows: the theorems about RplNode hold of it.     *)
THEOREM DaoImplementsNode ==
  ASSUME \A dio \in Dios : dio.mop # "STORING"
  PROVE  DaoSpec => NodeIsRplNode
<1>1. NoStoringDio
  BY DEF NoStoringDio
<1>2. DaoInit => Init
  BY DEF DaoInit
<1>3. DaoInv /\ [DaoNext]_daoVars => [Next]_vars
  BY <1>1, DaoStep
<1> QED BY <1>1, <1>2, <1>3, DaoInvariance, PTL DEF DaoSpec, NodeIsRplNode, Spec
===============================================================================
