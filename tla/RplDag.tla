-------------------------------- MODULE RplDag --------------------------------
(***************************************************************************)
(* The functional core of contiki-modifications/rpl-dag.c and of the       *)
(* output half of rpl-icmp6.c: what each C function does to the state of   *)
(* one node.                                                               *)
(*                                                                         *)
(* The state of a node is one record, a member of NodeState: the globals   *)
(* curr_instance and rpl_neighbors, which of its timers are armed, and the *)
(* messages it has sent.  A C function f is an operator f(n, ...) from the *)
(* state before the call to the state after it.  rpl_dag_update_state asks *)
(* the objective function for a parent, and its answer depends on link     *)
(* estimates that no other part of this code sees: that function, and      *)
(* every function that calls it, is an operator whose value is the SET of  *)
(* the states the call may end in.  No handler calls it twice in a row     *)
(* without returning, and Contiki runs a handler to its end, so a module   *)
(* that uses these operators picks one member in one atomic step.          *)
(*                                                                         *)
(* Operators marked "faulty" are not used by any specification: each is a  *)
(* plausible mistake in the operator that follows it, kept to show that a  *)
(* property notices the difference.                                        *)
(*                                                                         *)
(* Operators marked "external" stand for functions of the operating system *)
(* (rpl-timers.c, rpl-neighbor.c, the objective function) that are not in  *)
(* this repository; each states what the callers here rely on.             *)
(***************************************************************************)
EXTENDS Lollipop

CONSTANTS
  Node,              \* addresses; a DAG is named by the address of its root
  NoNode,            \* the null pointer / unspecified address
  All,               \* the link-local multicast address of the RPL nodes
  Attackers,         \* nodes with RPL_ATTACKER_ID_MIN <= node_id <= RPL_ATTACKER_ID_MAX
  AttackType,        \* RPL_ATTACK_TYPE of the build, 0 when it is not defined
  RootRank,          \* ROOT_RANK
  MinHopRankInc,     \* min_hoprankinc
  MaxRankInc,        \* max_rankinc, 0 for no limit
  InfiniteRank,      \* RPL_INFINITE_RANK
  SignificantChange, \* RPL_SIGNIFICANT_CHANGE_THRESHOLD
  DagLifetime,       \* RPL_LIFETIME(RPL_DAG_LIFETIME), in periods of rpl_dag_periodic
  DisThreshold,      \* below this lifetime the parent is asked for a DIO
  DaoMaxRtx,         \* RPL_DAO_MAX_RETRANSMISSIONS
  LinkCosts,         \* what the link metric may add to a rank; InfiniteRank: unusable
  LoopErrorDrop,     \* RPL_LOOP_ERROR_DROP
  DioRedundancy      \* dio_redundancy # 0

ASSUME NodeAssumption ==
  /\ NoNode \notin Node /\ All \notin Node /\ All # NoNode
  /\ Attackers \subseteq Node

ASSUME RankAssumption ==
  /\ RootRank \in Nat \ {0} /\ MinHopRankInc \in Nat \ {0} /\ MaxRankInc \in Nat
  /\ InfiniteRank \in Nat /\ RootRank + MinHopRankInc < InfiniteRank
  /\ SignificantChange \in Nat
  /\ LinkCosts \subseteq 1 .. InfiniteRank

ASSUME BoundsAssumption ==
  /\ AttackType \in 0 .. 9
  /\ DagLifetime \in Nat \ {0} /\ DisThreshold \in Nat
  /\ DaoMaxRtx \in Nat \ {0}
  /\ LoopErrorDrop \in BOOLEAN /\ DioRedundancy \in BOOLEAN
------------------------------------------------------------------------------
(* Types *)

Rank == 0 .. InfiniteRank

DagState == {"INITIALIZED", "JOINED", "REACHABLE", "POISONING"}

Mop == {"NO_DOWNWARD_ROUTES", "NON_STORING", "STORING"}

InfiniteLifetime == DagLifetime + 1

Lifetime == 0 .. InfiniteLifetime

(* What the DAO timer was armed for: a new DAO soon, the retransmission of  *)
(* the last one, or a new one when the last is about to expire.             *)
DaoTimer == {"off", "new", "resend", "refresh"}

(* What dio_input reads from a DIO; one that it discards does not arrive.   *)
Dio == [dag: Node, rank: Rank, version: Seqno, dtsn: Seqno,
        mop: Mop,             \* only the first two are supported
        supported: BOOLEAN]   \* the OF and the prefix are

Message ==
       [type: {"DIO"}, to: Node \cup {All}, rank: Rank, version: Seqno, dtsn: Seqno]
  \cup [type: {"DIS"}, to: Node \cup {All}]
  \cup [type: {"DAO"}, parent: Node, seqno: Seqno, lifetime: {0, 1}]

NodeState ==
  [id: Node,
   \* curr_instance
   used: BOOLEAN, mop: Mop, dtsn_out: Seqno,
   \* curr_instance.dag
   dag_id: Node \cup {NoNode}, version: Seqno, state: DagState, lifetime: Lifetime,
   rank: Rank, last_advertised_rank: Rank, lowest_rank: Rank,
   preferred_parent: Node \cup {NoNode}, unprocessed_parent_switch: BOOLEAN,
   dao_last_seqno: Seqno, dao_transmissions: Nat,
   \* rpl_neighbors: the nodes in the table, and the rank and DTSN of each
   nbrs: SUBSET Node, nbr_rank: [Node -> Rank], nbr_dtsn: [Node -> Seqno],
   \* timers: armed or not; the DIO timer always runs, dio_fresh says that its
   \* interval was reset since it last expired
   state_update: BOOLEAN, leave: BOOLEAN, periodic_dis: BOOLEAN,
   unicast_dio: BOOLEAN, dio_fresh: BOOLEAN, dao_timer: DaoTimer,
   \* messages sent by the current handler
   sent: SUBSET Message]

(* The state of a node whose memory has just been zeroed by the loader. *)
PoweredOn(i) ==
  [id |-> i, used |-> FALSE, mop |-> "NO_DOWNWARD_ROUTES", dtsn_out |-> 0,
   dag_id |-> NoNode, version |-> 0, state |-> "INITIALIZED", lifetime |-> 0,
   rank |-> 0, last_advertised_rank |-> 0, lowest_rank |-> 0,
   preferred_parent |-> NoNode, unprocessed_parent_switch |-> FALSE,
   dao_last_seqno |-> 0, dao_transmissions |-> 0,
   nbrs |-> {}, nbr_rank |-> [b \in Node |-> 0], nbr_dtsn |-> [b \in Node |-> 0],
   state_update |-> FALSE, leave |-> FALSE, periodic_dis |-> TRUE,
   unicast_dio |-> FALSE, dio_fresh |-> FALSE, dao_timer |-> "off",
   sent |-> {}]

(* memset(&curr_instance, 0, sizeof(curr_instance)): the neighbor table and *)
(* the node's address are elsewhere; the callers have stopped the timers.   *)
zeroed(n) ==
  [n EXCEPT !.used = FALSE, !.mop = "NO_DOWNWARD_ROUTES", !.dtsn_out = 0,
            !.dag_id = NoNode, !.version = 0, !.state = "INITIALIZED", !.lifetime = 0,
            !.rank = 0, !.last_advertised_rank = 0, !.lowest_rank = 0,
            !.preferred_parent = NoNode, !.unprocessed_parent_switch = FALSE,
            !.dao_last_seqno = 0, !.dao_transmissions = 0]

Send(n, msg) == [n EXCEPT !.sent = @ \cup {msg}]
------------------------------------------------------------------------------
(* External: rpl-timers.c and rpl-neighbor.c, and the two predicates *)

(* External: this node is the root of the DAG it is in. *)
rpl_dag_root_is_root(n) == n.used /\ n.dag_id = n.id

rpl_dag_ready_to_advertise(n) ==
  /\ n.used
  /\ n.mop = "NO_DOWNWARD_ROUTES" \/ n.state \in {"REACHABLE", "POISONING"}

(* External: the Trickle timer only runs on a node that may advertise. *)
rpl_timers_dio_reset(n) ==
  [n EXCEPT !.dio_fresh = @ \/ rpl_dag_ready_to_advertise(n)]

(* External: the rest of the timer interface. *)
rpl_timers_schedule_state_update(n) == [n EXCEPT !.state_update = TRUE]
rpl_timers_schedule_leaving(n)      == [n EXCEPT !.leave = TRUE]
rpl_timers_unschedule_leaving(n)    == [n EXCEPT !.leave = FALSE]
rpl_timers_schedule_periodic_dis(n) == [n EXCEPT !.periodic_dis = TRUE]
rpl_timers_schedule_unicast_dio(n)  == [n EXCEPT !.unicast_dio = TRUE]

(* External: arms the one DAO timer for a DAO with a new sequence number. *)
rpl_timers_schedule_dao(n) ==
  IF n.used /\ n.mop # "NO_DOWNWARD_ROUTES" THEN [n EXCEPT !.dao_timer = "new"] ELSE n

(* External: the last DAO was acknowledged; whatever the timer was armed for,*)
(* the next DAO is a refresh.                                               *)
rpl_timers_notify_dao_ack(n) == [n EXCEPT !.dao_timer = "refresh"]

(* External: all timers of the DAG, so neither the periodic DIS nor the tick. *)
rpl_timers_stop_dag_timers(n) ==
  [n EXCEPT !.state_update = FALSE, !.leave = FALSE, !.unicast_dio = FALSE,
            !.dio_fresh = FALSE, !.dao_timer = "off"]

(* External: remembers that the parent changed until the change is handled. *)
rpl_neighbor_set_preferred_parent(n, p) ==
  [n EXCEPT !.preferred_parent = p,
            !.unprocessed_parent_switch = @ \/ p # n.preferred_parent]

(* External: forgets the parent and empties the table. *)
rpl_neighbor_remove_all(n) ==
  [rpl_neighbor_set_preferred_parent(n, NoNode) EXCEPT
     !.nbrs = {}, !.nbr_rank = [b \in Node |-> 0], !.nbr_dtsn = [b \in Node |-> 0]]

(* External: the rank the node would have with parent b, under link metric cost. *)
rpl_neighbor_rank_via_nbr(n, b, cost) ==
  IF b \in n.nbrs /\ n.nbr_rank[b] + cost[b] < InfiniteRank
    THEN n.nbr_rank[b] + cost[b] ELSE InfiniteRank

(* External: a neighbor the objective function may choose. *)
acceptable(n, b, cost) ==
  LET rank == rpl_neighbor_rank_via_nbr(n, b, cost)
  IN  /\ n.nbr_rank[b] >= RootRank
      /\ rank # InfiniteRank
      /\ MaxRankInc = 0 \/ rank <= n.lowest_rank + MaxRankInc

(* External: rpl_neighbor_select_best.  Which acceptable neighbor is best  *)
(* depends on hysteresis and freshness; a node without a parent may wait   *)
(* for the probing of its only candidates.                                 *)
rpl_neighbor_select_best(n, cost) ==
  LET candidates == {b \in n.nbrs : acceptable(n, b, cost)}
  IN  IF candidates = {} \/ n.preferred_parent = NoNode
        THEN candidates \cup {NoNode} ELSE candidates
------------------------------------------------------------------------------
(* rpl_dag_update_state *)

(* A poisoning node has no parent and an infinite rank; the first time round *)
(* it arranges to leave.                                                     *)
poison(n) ==
  LET m == [rpl_neighbor_set_preferred_parent(n, NoNode) EXCEPT !.rank = InfiniteRank]
  IN  IF n.rank # InfiniteRank
        THEN rpl_timers_schedule_leaving(rpl_timers_dio_reset(m)) ELSE m

(* Makes b the parent, or none, and takes the rank through it. *)
take_parent(n, b, cost) ==
  [rpl_neighbor_set_preferred_parent(n, b) EXCEPT !.rank = rpl_neighbor_rank_via_nbr(n, b, cost)]

(* The neighbors an attacker of type 4 may make its parent: those with the *)
(* highest finite rank.                                                    *)
worst_parents(n, cost) ==
  LET finite == {b \in n.nbrs : rpl_neighbor_rank_via_nbr(n, b, cost) # InfiniteRank}
  IN  {b \in finite : \A c \in finite :
         rpl_neighbor_rank_via_nbr(n, c, cost) <= rpl_neighbor_rank_via_nbr(n, b, cost)}

(* The injected attacks on parent and rank (rpl-dag.c:308-341).            *)
attack(n, cost) ==
  CASE n.id \notin Attackers -> {n}
    [] n.id \in Attackers /\ AttackType \in {1, 7} ->
         LET fake == IF AttackType = 1 THEN RootRank + MinHopRankInc ELSE RootRank + 1
         IN  {IF n.rank # InfiniteRank THEN [n EXCEPT !.rank = fake] ELSE n}
    [] n.id \in Attackers /\ AttackType = 4 /\ worst_parents(n, cost) # {} ->
         {take_parent(n, w, cost) : w \in worst_parents(n, cost)}
    [] OTHER -> {n}

(* Selects a parent, unless an attack selects another. *)
reselect(n, cost) ==
  UNION {attack(take_parent(n, best, cost), cost) : best \in rpl_neighbor_select_best(n, cost)}

(* Faulty: the lowest rank follows every rank. *)
track_last_rank(n, old_parent) == [n EXCEPT !.lowest_rank = n.rank]

track_lowest_rank(n, old_parent) ==
  IF old_parent = NoNode \/ n.rank < n.lowest_rank
    THEN [n EXCEPT !.lowest_rank = n.rank] ELSE n

significant(a, b) == a - b > SignificantChange \/ b - a > SignificantChange

(* Faulty: takes the rank over without resetting the DIO timer. *)
track_silently(n) == [n EXCEPT !.last_advertised_rank = n.rank]

(* Advertises a significant change of rank soon. *)
track_advertised_rank(n) ==
  IF /\ n.last_advertised_rank # InfiniteRank
     /\ n.rank # InfiniteRank
     /\ significant(n.rank, n.last_advertised_rank)
    THEN rpl_timers_dio_reset([n EXCEPT !.last_advertised_rank = n.rank])
    ELSE n

(* Faulty: forgets the leave timer. *)
got_parent_still_leaving(n) == rpl_timers_dio_reset([n EXCEPT !.state = "JOINED"])

got_parent(n) ==
  rpl_timers_unschedule_leaving(rpl_timers_dio_reset([n EXCEPT !.state = "JOINED"]))

(* Faulty: keeps the state it had. *)
lost_parent_keep_state(n) ==
  rpl_timers_schedule_leaving(rpl_timers_schedule_periodic_dis(rpl_timers_dio_reset(n)))

lost_parent(n) ==
  rpl_timers_schedule_leaving(
    rpl_timers_schedule_periodic_dis(rpl_timers_dio_reset([n EXCEPT !.state = "INITIALIZED"])))

(* Faulty: reports only the first parent to the root. *)
process_first_parent(n, old_parent) ==
  LET m == CASE n.preferred_parent = NoNode -> lost_parent(n)
             [] n.preferred_parent # NoNode /\ old_parent = NoNode ->
                  rpl_timers_schedule_dao(got_parent(n))
             [] OTHER -> n
  IN  IF n.unprocessed_parent_switch
        THEN [m EXCEPT !.unprocessed_parent_switch = FALSE] ELSE n

(* Handles a parent switch that was not handled yet. *)
process_parent_switch(n, old_parent) ==
  LET m == CASE n.preferred_parent = NoNode -> lost_parent(n)
             [] n.preferred_parent # NoNode /\ old_parent = NoNode ->
                  rpl_timers_schedule_dao(got_parent(n))
             [] OTHER -> rpl_timers_schedule_dao(n)
  IN  IF n.unprocessed_parent_switch
        THEN [m EXCEPT !.unprocessed_parent_switch = FALSE] ELSE n

after_reselect(n, old_parent) ==
  process_parent_switch(track_advertised_rank(track_lowest_rank(n, old_parent)), old_parent)

rpl_dag_update_state(n) ==
  LET m == [n EXCEPT !.state_update = FALSE]
  IN  CASE ~n.used -> {n}
        [] n.used /\ n.state = "POISONING" -> {poison(m)}
        [] n.used /\ n.state # "POISONING" /\ rpl_dag_root_is_root(n) -> {m}
        [] OTHER -> {after_reselect(p, n.preferred_parent) :
                       p \in UNION {reselect(m, cost) : cost \in [n.nbrs -> LinkCosts]}}
------------------------------------------------------------------------------
(* Output: rpl-icmp6.c *)

(* The version put into a DIO; an attacker of type 2 adds 5 on the wire. *)
advertised_version(n) ==
  IF AttackType = 2 /\ n.id \in Attackers /\ ~rpl_dag_root_is_root(n)
    THEN (n.version + 5) % (MaxValue + 1) ELSE n.version

rpl_icmp6_dio_output(n, to) ==
  {Send(m, [type |-> "DIO", to |-> to, rank |-> m.rank,
            version |-> advertised_version(m), dtsn |-> m.dtsn_out]) :
   m \in rpl_dag_update_state(n)}

rpl_icmp6_dis_output(n, to) ==
  {Send(m, [type |-> "DIS", to |-> to]) : m \in rpl_dag_update_state(n)}

(* The address of the parent is read before the state is brought up to     *)
(* date, and goes into the DAO as it was read.  lifetime 0: a no-path DAO. *)
rpl_icmp6_dao_output(n, lifetime) ==
  LET parent_ipaddr == n.preferred_parent
      skip(m) == \/ ~m.used
                 \/ m.preferred_parent = NoNode
                 \/ parent_ipaddr = NoNode
                 \/ m.mop = "NO_DOWNWARD_ROUTES"
  IN  {IF skip(m) THEN m
       ELSE Send(m, [type |-> "DAO", parent |-> parent_ipaddr,
                     seqno |-> m.dao_last_seqno, lifetime |-> lifetime]) :
       m \in rpl_dag_update_state(n)}
------------------------------------------------------------------------------
(* Leaving and repairing *)

(* Faulty: sends the no-path DAO after the timers were stopped. *)
rpl_dag_leave_stop_first(n) ==
  {[rpl_neighbor_remove_all(m) EXCEPT !.used = FALSE] :
     m \in rpl_icmp6_dao_output(rpl_timers_stop_dag_timers(n), 0)}

rpl_dag_leave(n) ==
  LET said == IF rpl_dag_root_is_root(n) THEN {n}
              ELSE rpl_icmp6_dao_output(
                     [n EXCEPT !.dao_last_seqno = Increment(n.dao_last_seqno)], 0)
  IN  {[rpl_timers_stop_dag_timers(rpl_neighbor_remove_all(m)) EXCEPT !.used = FALSE] :
       m \in said}

rpl_dag_poison_and_leave(n) ==
  rpl_timers_schedule_state_update([n EXCEPT !.state = "POISONING"])

(* Faulty: the root loses its state like any other node. *)
rpl_local_repair_any(n) ==
  rpl_timers_schedule_state_update(
    rpl_timers_dio_reset(rpl_neighbor_remove_all([n EXCEPT !.state = "INITIALIZED"])))

(* Faulty: keeps the state it had. *)
rpl_local_repair_keep_state(n) ==
  rpl_timers_schedule_state_update(rpl_timers_dio_reset(rpl_neighbor_remove_all(n)))

rpl_local_repair(n) ==
  LET m == IF rpl_dag_root_is_root(n) THEN n ELSE [n EXCEPT !.state = "INITIALIZED"]
  IN  IF n.used
        THEN rpl_timers_schedule_state_update(rpl_timers_dio_reset(rpl_neighbor_remove_all(m)))
        ELSE n

(* Faulty: skips a version.                                                 *)
rpl_global_repair_twice(n) ==
  IF rpl_dag_root_is_root(n)
    THEN rpl_local_repair([n EXCEPT !.version = Increment(Increment(n.version)),
                                    !.dtsn_out = SeqnoInit])
    ELSE n

rpl_global_repair(n) ==
  IF rpl_dag_root_is_root(n)
    THEN rpl_local_repair([n EXCEPT !.version = Increment(n.version), !.dtsn_out = SeqnoInit])
    ELSE n

rpl_refresh_routes(n) ==
  IF rpl_dag_root_is_root(n) THEN [n EXCEPT !.dtsn_out = Increment(n.dtsn_out)] ELSE n
------------------------------------------------------------------------------
(* Joining *)

(* init_dag, when the objective function and the prefix are supported. *)
init_dag(n, dag_id) ==
  [zeroed(n) EXCEPT !.used = TRUE, !.dag_id = dag_id, !.dtsn_out = SeqnoInit,
                    !.rank = InfiniteRank, !.last_advertised_rank = InfiniteRank,
                    !.lowest_rank = InfiniteRank, !.dao_last_seqno = SeqnoInit]

(* Faulty: joins as the root of a version would, with the next one.         *)
init_dag_from_dio_next(n, dio) ==
  [init_dag(n, dio.dag) EXCEPT !.mop = dio.mop, !.version = Increment(dio.version)]

init_dag_from_dio(n, dio) ==
  [init_dag(n, dio.dag) EXCEPT !.mop = dio.mop, !.version = dio.version]

(* Faulty: does not prepare to leave. *)
process_dio_init_dag_to_stay(n, dio) ==
  IF dio.mop # "STORING" /\ dio.supported
    THEN rpl_timers_dio_reset(init_dag_from_dio(n, dio)) ELSE n

(* An unsupported mode of operation is noticed before anything is changed, *)
(* an unsupported objective function after the instance has been zeroed.   *)
process_dio_init_dag(n, dio) ==
  CASE dio.mop = "STORING" -> n
    [] dio.mop # "STORING" /\ ~dio.supported -> zeroed(n)
    [] OTHER -> rpl_timers_schedule_leaving(rpl_timers_dio_reset(init_dag_from_dio(n, dio)))

global_repair_non_root(n, dio) ==
  IF rpl_dag_root_is_root(n) THEN n
  ELSE rpl_local_repair(
         process_dio_init_dag(
           rpl_neighbor_set_preferred_parent(rpl_timers_stop_dag_timers(n), NoNode), dio))

rpl_dag_init_root(n) ==
  LET version == IF n.used /\ n.dag_id = n.id THEN Increment(n.version) ELSE SeqnoInit
      left == IF n.used THEN rpl_dag_leave(n) ELSE {n}
  IN  {rpl_timers_dio_reset(
         [init_dag(m, n.id) EXCEPT !.mop = "NON_STORING", !.version = version,
            !.rank = RootRank, !.lifetime = InfiniteLifetime, !.state = "REACHABLE"]) :
       m \in left}

(* memset at boot; the timers of the operating system restart with it. *)
rpl_dag_init(n) == PoweredOn(n.id)
------------------------------------------------------------------------------
(* Incoming DIO *)

(* Faulty: any other version starts a repair. *)
hear_other_version(n, dio) ==
  IF dio.version = n.version THEN n ELSE global_repair_non_root(n, dio)

(* Faulty: the root ignores newer versions than its own.                    *)
hear_version_not_root(n, dio) ==
  IF Greater(dio.version, n.version) THEN global_repair_non_root(n, dio) ELSE n

(* A newer version means global repair; the node with the root's rank takes *)
(* the version over and issues the next one.                                *)
hear_version(n, dio) ==
  CASE ~Greater(dio.version, n.version) -> n
    [] Greater(dio.version, n.version) /\ n.rank = RootRank ->
         rpl_global_repair([n EXCEPT !.version = dio.version])
    [] OTHER -> global_repair_non_root(n, dio)

(* Enters the sender into the neighbor table, and what depends on whether   *)
(* it was there already: the lifetime and the DTSN.                         *)
update_nbr_from_dio(n, from, dio) ==
  [n EXCEPT !.nbrs = @ \cup {from}, !.nbr_rank[from] = dio.rank, !.nbr_dtsn[from] = dio.dtsn]

(* Faulty: only the parent's DIOs count. *)
refresh_lifetime_by_parent(n, from_parent) ==
  IF from_parent THEN [n EXCEPT !.lifetime = DagLifetime] ELSE n

refresh_lifetime(n, from_parent) ==
  IF n.lifetime = 0 \/ from_parent THEN [n EXCEPT !.lifetime = DagLifetime] ELSE n

propagate_dtsn(n, from_parent, dtsn, last_dtsn) ==
  IF n.mop # "NO_DOWNWARD_ROUTES" /\ from_parent /\ Greater(dtsn, last_dtsn)
    THEN rpl_timers_schedule_dao([n EXCEPT !.dtsn_out = Increment(n.dtsn_out)])
    ELSE n

(* has_room: a sender that is new fits into the neighbor cache and table.   *)
process_dio_from_current_dag(n, from, dio, has_room) ==
  LET m == hear_version(n, dio)
      known == from \in m.nbrs
      from_parent == known /\ from = m.preferred_parent
      learnt == propagate_dtsn(
                  refresh_lifetime(update_nbr_from_dio(m, from, dio), from_parent),
                  from_parent, dio.dtsn, m.nbr_dtsn[from])
  IN  CASE dio.rank < RootRank -> n
        [] dio.rank >= RootRank /\ Greater(n.version, dio.version) ->
             IF dio.rank = RootRank THEN rpl_timers_dio_reset(n) ELSE n
        [] OTHER -> IF known \/ has_room THEN learnt ELSE m

rpl_process_dio(n, from, dio, has_room) ==
  LET m == IF n.used THEN n ELSE process_dio_init_dag(n, dio)
  IN  IF m.used /\ m.dag_id = dio.dag
        THEN rpl_dag_update_state(process_dio_from_current_dag(m, from, dio, has_room))
        ELSE {m}
------------------------------------------------------------------------------
(* Other input *)

(* dis_input and rpl_process_dis; has_room: the sender fits into the cache. *)
rpl_process_dis(n, from, is_multicast, has_room) ==
  CASE ~n.used -> {n}
    [] n.used /\ is_multicast -> {rpl_timers_dio_reset(n)}
    [] n.used /\ ~is_multicast /\ has_room -> rpl_icmp6_dio_output(n, from)
    [] OTHER -> {n}

(* Faulty: any acknowledgement ends the retransmissions.                    *)
rpl_process_dao_ack_any(n, sequence, status_ok) ==
  LET noted == rpl_timers_notify_dao_ack(n)
  IN  CASE ~n.used -> n
        [] n.used /\ sequence # n.dao_last_seqno -> noted
        [] OTHER -> [noted EXCEPT !.state = IF status_ok THEN "REACHABLE" ELSE "POISONING"]

(* Faulty: what was acknowledged needs no refresh.                          *)
rpl_process_dao_ack_final(n, sequence, status_ok) ==
  LET reached == IF n.state = "JOINED" /\ status_ok THEN [n EXCEPT !.state = "REACHABLE"] ELSE n
  IN  CASE ~n.used \/ sequence # n.dao_last_seqno -> n
        [] n.used /\ sequence = n.dao_last_seqno /\ status_ok -> [reached EXCEPT !.dao_timer = "off"]
        [] OTHER -> [n EXCEPT !.dao_timer = "off", !.state = "POISONING"]

(* dao_ack_input and rpl_process_dao_ack.  dao_last_acked_seqno is left     *)
(* out: nothing under src/ reads it.                                        *)
rpl_process_dao_ack(n, sequence, status_ok) ==
  LET reached == IF n.state = "JOINED" /\ status_ok
                   THEN rpl_timers_dio_reset([n EXCEPT !.state = "REACHABLE"]) ELSE n
      noted == rpl_timers_notify_dao_ack(reached)
  IN  CASE ~n.used \/ sequence # n.dao_last_seqno -> n
        [] n.used /\ sequence = n.dao_last_seqno /\ status_ok -> noted
        [] OTHER -> [noted EXCEPT !.state = "POISONING"]

(* Faulty: notes the rank without looking for a better parent.              *)
rpl_process_hbh_note_rank(n, sender, sender_rank, loop_detected, rank_error_signaled) ==
  {IF rank_error_signaled /\ sender # NoNode
     THEN [n EXCEPT !.nbr_rank[sender] = sender_rank] ELSE n}

(* The RPL option of a data packet.  sender is NoNode when the packet came  *)
(* from a node that is not in the table.                                    *)
rpl_process_hbh(n, sender, sender_rank, loop_detected, rank_error_signaled) ==
  LET warned == IF loop_detected /\ rank_error_signaled /\ LoopErrorDrop
                  THEN rpl_timers_dio_reset(n) ELSE n
      replying == IF loop_detected THEN rpl_timers_schedule_unicast_dio(warned) ELSE warned
  IN  IF rank_error_signaled /\ sender # NoNode
        THEN rpl_dag_update_state([replying EXCEPT !.nbr_rank[sender] = sender_rank])
        ELSE {replying}

(* Faulty: subtracts without looking. *)
rpl_dag_periodic_unchecked(n) ==
  LET m == [n EXCEPT !.lifetime = @ - 1]
  IN  IF ~n.used \/ n.lifetime = InfiniteLifetime THEN {n}
      ELSE IF m.lifetime = 0 THEN {rpl_dag_poison_and_leave(m)} ELSE {m}

(* One period of rpl_dag_periodic.                                          *)
rpl_dag_periodic(n) ==
  LET m == [n EXCEPT !.lifetime = IF @ > 1 THEN @ - 1 ELSE 0]
  IN  CASE ~n.used \/ n.lifetime = InfiniteLifetime -> {n}
        [] n.used /\ n.lifetime <= 1 -> {rpl_dag_poison_and_leave(m)}
        [] n.used /\ n.lifetime \in 2 .. DagLifetime
           /\ m.lifetime < DisThreshold /\ n.preferred_parent # NoNode ->
             rpl_icmp6_dis_output(m, n.preferred_parent)
        [] OTHER -> {m}
------------------------------------------------------------------------------
(* Timer handlers (external: rpl-timers.c) *)

(* The DIO timer expires.  The DIOs counted in dio_counter may suppress the *)
(* one of a node that is not the root.                                      *)
handle_dio_timer(n) ==
  LET m == [n EXCEPT !.dio_fresh = FALSE]
      sending == rpl_icmp6_dio_output([m EXCEPT !.last_advertised_rank = n.rank], All)
      suppressed == IF DioRedundancy /\ ~rpl_dag_root_is_root(n) THEN {m} ELSE {}
  IN  IF rpl_dag_ready_to_advertise(n) THEN sending \cup suppressed ELSE {m}

handle_unicast_dio_timer(n, to) == rpl_icmp6_dio_output([n EXCEPT !.unicast_dio = FALSE], to)

(* A node without a DAG or without a parent asks for DIOs, and asks again.  *)
handle_dis_timer(n) ==
  LET lonely == /\ ~rpl_dag_root_is_root(n)
                /\ ~n.used \/ n.preferred_parent = NoNode \/ n.rank = InfiniteRank
  IN  IF lonely
        THEN {rpl_timers_schedule_periodic_dis(m) : m \in rpl_icmp6_dis_output(n, All)}
        ELSE {[n EXCEPT !.periodic_dis = FALSE]}

(* Faulty: every DAO carries the number the counter was set to. *)
send_new_dao_same_number(n) ==
  rpl_icmp6_dao_output([n EXCEPT !.dao_timer = "resend", !.dao_transmissions = 1], 1)

send_new_dao(n) ==
  rpl_icmp6_dao_output([n EXCEPT !.dao_timer = "resend", !.dao_transmissions = 1,
                                 !.dao_last_seqno = Increment(n.dao_last_seqno)], 1)

resend_dao(n) ==
  LET again == rpl_icmp6_dao_output(
                 [n EXCEPT !.dao_transmissions = @ + 1, !.dao_timer = "off"], 1)
  IN  {IF m.dao_transmissions < DaoMaxRtx THEN [m EXCEPT !.dao_timer = "resend"]
       ELSE rpl_local_repair(m) : m \in again}
=============================================================================
