--------------------------- MODULE UdpClientProofs ----------------------------
(***************************************************************************)
(* What the counters of the client mean, for every number of periods, of   *)
(* messages on their way and of nodes, under every attack; and what a      *)
(* FEATURES line says of the node, unless a theorem says otherwise under   *)
(* every attack too.                                                       *)
(*                                                                         *)
(* The arguments about the counters need nothing of routing: whatever it   *)
(* does to the node, and whatever a flood does, NoteRank sees the change   *)
(* of rank.  Those about the node rest on the invariants of RplNodeProofs, *)
(* which a period keeps: a flood is a sequence of state updates, and by    *)
(* induction on its length they uphold what one of them does.              *)
(***************************************************************************)
EXTENDS UdpClient, RplNodeProofs, WellFoundedInduction

CountersInv ==
  /\ tx \in Nat /\ rx \in Nat /\ requests \in Nat /\ replies \in Nat /\ stale \in Nat
  /\ rank_changes \in Nat /\ changes \in Nat
  /\ RepliesAnswerRequests
  \* what is counted has happened, and one change more while one is not yet counted
  /\ rank_changes <= tx /\ tx <= MaxPeriods /\ changes <= MaxPeriods
  /\ \/ changes = MaxPeriods
     \/ rank_changes + (IF last_rank = shown_rank(node) THEN 0 ELSE 1) <= changes

(* The observer notes it when the rank is another after the step.            *)
ChangeIsNoted ==
  /\ changes' \in Nat /\ changes' <= MaxPeriods
  /\ \/ changes' = MaxPeriods
     \/ changes' = changes + (IF shown_rank(node)' = shown_rank(node) THEN 0 ELSE 1)

LEMMA ClientInitInv == ClientInit => CountersInv
<1> SUFFICES ASSUME ClientInit PROVE CountersInv
  OBVIOUS
<1>1. shown_rank(node) = 0
  BY DEF ClientInit, Init, PoweredOn, shown_rank
<1> QED BY <1>1, ClientAssumption DEF ClientInit, CountersInv, RepliesAnswerRequests

(* The observer counts a change of rank whatever made it. *)
LEMMA Noted ==
  ASSUME changes \in Nat, changes <= MaxPeriods, NoteRank(node')
  PROVE  ChangeIsNoted
<1>1. shown_rank(node)' = shown_rank(node')
  BY DEF shown_rank
<1> QED BY <1>1, ClientAssumption DEF NoteRank, ChangeIsNoted

LEMMA PeriodInv ==
  ASSUME CountersInv, Period
  PROVE  CountersInv'
<1>1. tx < MaxPeriods /\ replies' = replies /\ stale' = stale
  BY DEF Period
<1>2. NoteRank(node')
  BY DEF Period
<1>3. ChangeIsNoted
  BY <1>2, Noted DEF CountersInv
<1>4. CASE print_features(node') /\ SendRequest
  <2>1. /\ tx' = tx + 1 /\ rx' = rx
        /\ requests' = requests \/ requests' = requests + 1
        /\ rank_changes' = IF last_rank = shown_rank(node)' THEN rank_changes
                           ELSE rank_changes + 1
        /\ last_rank' = shown_rank(node)'
    BY <1>4 DEF print_features, SendRequest, shown_rank
  <2>2. RepliesAnswerRequests' /\ requests' \in Nat
    BY <1>1, <2>1 DEF CountersInv, RepliesAnswerRequests
  <2>3. rank_changes' \in Nat /\ rank_changes' <= tx' /\ tx' \in Nat /\ tx' <= MaxPeriods
    BY <1>1, <2>1, ClientAssumption DEF CountersInv
  <2>4. changes' = MaxPeriods \/ rank_changes' <= changes'
    BY <1>1, <1>3, <2>1, ClientAssumption DEF CountersInv, ChangeIsNoted
  <2> QED BY <1>1, <1>3, <2>1, <2>2, <2>3, <2>4, ClientAssumption DEF CountersInv, ChangeIsNoted
<1>5. CASE CountMissed
  <2>1. UNCHANGED <<tx, rx, last_rank, rank_changes, requests>>
    BY <1>5 DEF CountMissed
  <2>2. RepliesAnswerRequests'
    BY <1>1, <2>1 DEF CountersInv, RepliesAnswerRequests
  <2> QED BY <1>1, <1>3, <2>1, <2>2, ClientAssumption DEF CountersInv, ChangeIsNoted
<1> QED BY <1>4, <1>5 DEF Period

LEMMA ClientNextInv ==
  ASSUME CountersInv, [ClientNext]_clientVars
  PROVE  CountersInv'
<1>1. CASE Period
  BY <1>1, PeriodInv
<1>2. CASE Echo
  <2>1. UNCHANGED <<node, tx, rx, last_rank, rank_changes, stale, changes>>
    BY <1>2 DEF Echo, vars, counters
  <2>2. /\ requests > 0 /\ requests' = requests - 1
        /\ replies' = replies \/ replies' = replies + 1
    BY <1>2 DEF Echo
  <2> QED BY <2>1, <2>2 DEF CountersInv, RepliesAnswerRequests, shown_rank
<1>3. CASE ReceiveReply
  <2>1. UNCHANGED <<node, tx, last_rank, rank_changes, requests, stale, changes>>
    BY <1>3 DEF ReceiveReply, vars
  <2>2. replies > 0 /\ replies' = replies - 1 /\ rx' = rx + 1
    BY <1>3 DEF ReceiveReply
  <2> QED BY <2>1, <2>2 DEF CountersInv, RepliesAnswerRequests, shown_rank
<1>4. CASE RoutingStep
  <2>1. UNCHANGED <<tx, rx, last_rank, rank_changes, requests, replies, stale>>
    BY <1>4 DEF RoutingStep, counters
  <2>2. ChangeIsNoted
    BY <1>4, Noted DEF RoutingStep, CountersInv
  <2> QED BY <2>1, <2>2, ClientAssumption
             DEF CountersInv, RepliesAnswerRequests, ChangeIsNoted
<1>5. CASE ClientReboot
  <2>1. /\ tx' = 0 /\ rx' = 0 /\ last_rank' = 0 /\ rank_changes' = 0 /\ changes' = 0
        /\ requests' = requests /\ replies' = replies /\ stale' = requests + replies
    BY <1>5 DEF ClientReboot, PoweredOnCounters
  <2>2. shown_rank(node)' = 0
    BY <1>5 DEF ClientReboot, Reboot, Becomes, rpl_dag_init, PoweredOn, shown_rank
  <2> QED BY <2>1, <2>2, ClientAssumption DEF CountersInv, RepliesAnswerRequests
<1>6. CASE UNCHANGED clientVars
  BY <1>6 DEF clientVars, CountersInv, RepliesAnswerRequests, shown_rank
<1> QED BY <1>1, <1>2, <1>3, <1>4, <1>5, <1>6 DEF ClientNext

THEOREM CountersInvariance == ClientSpec => []CountersInv
BY ClientInitInv, ClientNextInv, PTL DEF ClientSpec
------------------------------------------------------------------------------
(* No FEATURES line shows more replies than requests, but for those that     *)
(* were on their way in the last reboot.                                     *)
THEOREM RepliesSafe == ClientSpec => []RepliesAnswerRequests
<1>1. CountersInv => RepliesAnswerRequests
  BY DEF CountersInv
<1> QED BY <1>1, CountersInvariance, PTL

(* No FEATURES line counts a change of rank that did not happen.             *)
THEOREM ChangesSafe == ClientSpec => []CountedChangesHappened
<1>1. CountersInv => CountedChangesHappened
  BY DEF CountersInv, CountedChangesHappened
<1> QED BY <1>1, CountersInvariance, PTL
------------------------------------------------------------------------------
(* The node under the client *)

(* Induction over the naturals, for a set instead of a predicate.           *)
LEMMA Induction ==
  ASSUME NEW S, 0 \in S, \A n \in Nat : n \in S => n + 1 \in S
  PROVE  Nat \subseteq S
<1> DEFINE R == OpToRel(<, Nat)
           T == Nat \ S
<1>1. IsWellFoundedOn(R, Nat)
  BY NatLessThanWellFounded
<1> SUFFICES ASSUME T # {} PROVE FALSE
  OBVIOUS
<1>2. PICK x \in T : \A y \in T : ~ (<<y, x>> \in R)
  <2> HIDE DEF R
  <2> QED BY <1>1, WFMin
<1>3. x - 1 \in T
  OBVIOUS
<1>4. <<x - 1, x>> \in R
  BY <1>3 DEF OpToRel
<1> QED BY <1>2, <1>3, <1>4

(* What a flood leaves alone, and what it upholds. *)
Weathered(m, n) ==
  /\ Settled(m) /\ SameMembership(m, n)
  /\ Kept(n) => Kept(m)

(* One message of the flood is a state update and a message.                *)
LEMMA FloodOutput ==
  ASSUME NEW n, Settled(n), NEW m \in flood_output(n)
  PROVE  Weathered(m, n)
<1>0. n \in NodeState
  BY DEF Settled, NodeInv
<1>1. CASE AttackType = 8
  <2> DEFINE o == [n EXCEPT !.sent = {}]
  <2>1. PICK p \in rpl_icmp6_dao_output(o, 1) : m = p \/ m = [p EXCEPT !.sent = n.sent]
    BY <1>1 DEF flood_output
  <2>2. Unmoved(o, n)
    BY <1>0 DEF Unmoved, NodeState, SameMembership
  <2>3. Settled(o) /\ (Kept(n) => Kept(o))
    BY <2>2, UnmovedKeeps DEF Settled
  <2> HIDE DEF o
  <2>4. NodeInv(p) /\ SameMembership(p, o)
    BY <2>3, DaoOutput DEF Settled
  <2>5. Upheld(p, n)
    BY <2>3, DaoOutputRefreshed, RefreshedUpheld, AboveIsRanked DEF Settled
  <2>6. Unmoved(m, p)
    BY <1>0, <2>1, <2>4 DEF NodeInv, Unmoved, NodeState, SameMembership
  <2>7. SameMembership(m, n)
    BY <2>2, <2>4, <2>6 DEF Unmoved, SameMembership
  <2> QED BY <2>4, <2>5, <2>6, <2>7, UnmovedKeeps DEF Settled, Upheld, Weathered
<1>2. CASE AttackType # 8
  <2>1. m \in rpl_icmp6_dis_output(n, All) /\ All \in Node \cup {All}
    BY <1>2 DEF flood_output
  <2>2. NodeInv(m) /\ SameMembership(m, n)
    BY <2>1, DisOutput DEF Settled
  <2>3. Upheld(m, n)
    BY <2>1, DisOutputRefreshed, RefreshedUpheld, AboveIsRanked DEF Settled
  <2> QED BY <2>2, <2>3 DEF Settled, Upheld, Weathered
<1> QED BY <1>1, <1>2

(* One message more, from any of the states in S. *)
FloodStep(S) == UNION {flood_output(m) : m \in S}

(* The states after each message of a flood of N messages.                  *)
IsFlood(g, n, N) ==
  g = [k \in 0 .. N |-> IF k = 0 THEN {n} ELSE FloodStep(g[k - 1])]

LEMMA FloodExists ==
  ASSUME NEW n, NEW N \in Nat
  PROVE  \E g : IsFlood(g, n, N)
<1> DEFINE S == {j \in Nat : \E g : IsFlood(g, n, j)}
<1>1. 0 \in S
  <2> DEFINE g == [k \in 0 .. 0 |-> {n}]
  <2>1. \A k \in 0 .. 0 :
          g[k] = IF k = 0 THEN {n} ELSE FloodStep(g[k - 1])
    OBVIOUS
  <2>2. IsFlood(g, n, 0)
    BY <2>1 DEF IsFlood
  <2> QED BY <2>2
<1>2. ASSUME NEW j \in Nat, j \in S
      PROVE  j + 1 \in S
  <2>1. PICK g : IsFlood(g, n, j)
    BY <1>2
  <2> DEFINE Body(f, k) == IF k = 0 THEN {n} ELSE FloodStep(f[k - 1])
             h == [k \in 0 .. j + 1 |-> Body(g, k)]
  <2>2. \A k \in 0 .. j : g[k] = Body(g, k)
    BY <2>1 DEF IsFlood
  <2>3. \A k \in 0 .. j : k \in 0 .. j + 1 /\ h[k] = g[k]
    <3>1. \A k \in 0 .. j : k \in 0 .. j + 1
      OBVIOUS
    <3> QED BY <2>2, <3>1, Zenon
  <2>4. \A k \in 0 .. j + 1 : k = 0 \/ k - 1 \in 0 .. j
    OBVIOUS
  <2>5. \A k \in 0 .. j + 1 : Body(g, k) = Body(h, k)
    <3> SUFFICES ASSUME NEW k \in 0 .. j + 1 PROVE Body(g, k) = Body(h, k)
      BY Zenon
    <3>1. CASE k = 0
      BY <3>1, Zenon
    <3>2. CASE k # 0
      <4>1. g[k - 1] = h[k - 1]
        BY <2>3, <2>4, <3>2, Zenon
      <4> HIDE DEF h
      <4> QED BY <4>1, Zenon
    <3> QED BY <3>1, <3>2
  <2>6. h = [k \in 0 .. j + 1 |-> Body(h, k)]
    <3> HIDE DEF Body
    <3>1. \E f : f = h
      OBVIOUS
    <3> QED BY <2>5, Zenon
  <2>7. IsFlood(h, n, j + 1)
    <3> HIDE DEF h
    <3> QED BY <2>6 DEF IsFlood
  <2>8. \E f : IsFlood(f, n, j + 1)
    BY <2>7, Zenon
  <2> QED BY <2>8
<1> HIDE DEF S
<1>3. Nat \subseteq S
  BY <1>1, <1>2, Induction
<1> QED BY <1>3 DEF S

LEMMA FloodLength == flood_length \in Nat
BY DEF flood_length

(* flooded(n) is where such a flood ends. *)
LEMMA FloodEnds ==
  ASSUME NEW n
  PROVE  \E g : IsFlood(g, n, flood_length) /\ flooded(n) = g[flood_length]
<1> DEFINE G == CHOOSE after : IsFlood(after, n, flood_length)
<1>1. IsFlood(G, n, flood_length)
  BY FloodExists, FloodLength
<1>2. flooded(n) = G[flood_length]
  BY Zenon DEF flooded, IsFlood, FloodStep
<1> QED BY <1>1, <1>2, Zenon

(* A flood leaves the node as settled as it was. *)
LEMMA FloodWeathered ==
  ASSUME NEW n, Settled(n), NEW m \in flooded(n)
  PROVE  Weathered(m, n)
<1>1. PICK g : IsFlood(g, n, flood_length) /\ flooded(n) = g[flood_length]
  BY FloodEnds
<1> DEFINE S == {k \in Nat : k <= flood_length => \A o \in g[k] : Weathered(o, n)}
<1>2. \A k \in 0 .. flood_length :
        g[k] = IF k = 0 THEN {n} ELSE FloodStep(g[k - 1])
  BY <1>1 DEF IsFlood
<1>3. 0 \in S
  <2>1. g[0] = {n}
    BY <1>2, FloodLength
  <2>2. Weathered(n, n)
    BY DEF Weathered, SameMembership
  <2> QED BY <2>1, <2>2
<1>4. ASSUME NEW k \in Nat, k \in S
      PROVE  k + 1 \in S
  <2> SUFFICES ASSUME k + 1 <= flood_length, NEW o \in g[k + 1]
               PROVE  Weathered(o, n)
    OBVIOUS
  <2>1. k + 1 \in 0 .. flood_length /\ k + 1 # 0 /\ (k + 1) - 1 = k /\ k <= flood_length
    BY FloodLength
  <2>2. o \in FloodStep(g[k])
    BY <1>2, <2>1
  <2>3. PICK p \in g[k] : o \in flood_output(p)
    BY <2>2, Zenon DEF FloodStep
  <2>4. Weathered(p, n)
    BY <1>4, <2>1
  <2>5. Weathered(o, p)
    BY <2>3, <2>4, FloodOutput DEF Weathered
  <2> QED BY <2>4, <2>5 DEF Weathered, SameMembership
<1> HIDE DEF S
<1>5. flood_length \in S
  BY <1>3, <1>4, FloodLength, Induction
<1> QED BY <1>1, <1>5, FloodLength DEF S
------------------------------------------------------------------------------
(* What the client knows of its node: the invariants of RplNodeProofs.      *)
RouteInv == Inv /\ Upkeep

LEMMA PeriodRoute ==
  ASSUME RouteInv, Period
  PROVE  RouteInv' /\ SameMembership(node', node)
<1>1. PICK m \in flooded(node) : Becomes(m)
  BY DEF Period
<1>2. Settled(m) /\ SameMembership(m, node) /\ (Kept(node) => Kept(m))
  BY FloodWeathered DEF RouteInv, Upkeep, Weathered
<1>3. Inv'
  BY <1>1, <1>2, BecomesInv, SameIsSameOrNewer DEF RouteInv, Settled
<1>4. Upkeep'
  BY <1>1, <1>2, BecomesUpkeep DEF RouteInv, Upkeep, Settled
<1>5. SameMembership(node', m)
  BY <1>1, <1>2 DEF Becomes, Settled, NodeInv, NodeState, SameMembership
<1> QED BY <1>2, <1>3, <1>4, <1>5 DEF RouteInv, SameMembership

LEMMA RouteUnchanged ==
  ASSUME RouteInv, UNCHANGED vars
  PROVE  RouteInv'
BY DEF RouteInv, Inv, TypeOK, Upkeep, AllJoinable, vars

LEMMA ClientNextRoute ==
  ASSUME RouteInv, [ClientNext]_clientVars
  PROVE  RouteInv'
<1>1. CASE Period
  BY <1>1, PeriodRoute
<1>2. CASE Next
  BY <1>2, NextInv, NextUpkeep DEF RouteInv
<1>3. CASE UNCHANGED vars
  BY <1>3, RouteUnchanged
<1>4. Period \/ Next \/ UNCHANGED vars
  BY DEF ClientNext, Echo, ReceiveReply, RoutingStep, ClientReboot, Next, clientVars, vars
<1> QED BY <1>1, <1>2, <1>3, <1>4

THEOREM RouteInvariance == ClientSpec => []RouteInv
<1>1. ClientInit => RouteInv
  BY InitInv, InitUpkeep DEF ClientInit, RouteInv
<1> QED BY <1>1, ClientNextRoute, PTL DEF ClientSpec
------------------------------------------------------------------------------
(* The bounds of the counters and of the messages on their way.             *)
FlightInv ==
  /\ missed \in 0 .. MaxPeriods /\ last_rank \in Rank
  /\ requests + replies <= MaxInFlight /\ stale <= MaxInFlight

LEMMA ShownType ==
  ASSUME NEW n \in NodeState
  PROVE  shown_rank(n) \in Rank
BY FieldValues DEF shown_rank, NodeState

LEMMA ClientNextFlight ==
  ASSUME CountersInv, FlightInv, RouteInv', [ClientNext]_clientVars
  PROVE  FlightInv'
<1>0. /\ requests \in Nat /\ replies \in Nat /\ stale \in Nat /\ tx \in Nat
      /\ MaxInFlight \in Nat /\ MaxPeriods \in Nat
  BY ClientAssumption DEF CountersInv
<1>1. CASE Period
  <2>1. missed < MaxPeriods /\ replies' = replies /\ stale' = stale
    BY <1>1 DEF Period
  <2>2. CASE print_features(node') /\ SendRequest
    <3>1. /\ last_rank' = shown_rank(node') /\ missed' = missed
          /\ requests' + replies <= MaxInFlight
      BY <2>2 DEF print_features, SendRequest
    <3>2. shown_rank(node') \in Rank
      BY ShownType DEF RouteInv, Inv, TypeOK
    <3> QED BY <2>1, <3>1, <3>2 DEF FlightInv
  <2>3. CASE CountMissed
    <3>1. /\ last_rank' = last_rank /\ requests' = requests
          /\ missed' = missed \/ missed' = missed + 1
      BY <2>3 DEF CountMissed
    <3> QED BY <1>0, <2>1, <3>1 DEF FlightInv
  <2> QED BY <1>1, <2>2, <2>3 DEF Period
<1>2. CASE Echo
  <2>1. requests' = requests - 1 /\ (replies' = replies \/ replies' = replies + 1)
    BY <1>2 DEF Echo
  <2>2. stale' = stale /\ missed' = missed /\ last_rank' = last_rank
    BY <1>2 DEF Echo, counters
  <2> QED BY <1>0, <2>1, <2>2 DEF FlightInv
<1>3. CASE ReceiveReply
  <2>1. /\ replies' = replies - 1 /\ requests' = requests
        /\ stale' = stale /\ missed' = missed /\ last_rank' = last_rank
    BY <1>3 DEF ReceiveReply
  <2> QED BY <1>0, <2>1 DEF FlightInv
<1>4. CASE RoutingStep \/ UNCHANGED clientVars
  <2>1. UNCHANGED <<missed, last_rank, requests, replies, stale>>
    BY <1>4 DEF RoutingStep, counters, clientVars
  <2> QED BY <2>1 DEF FlightInv
<1>5. CASE ClientReboot
  <2>1. /\ missed' = 0 /\ last_rank' = 0 /\ requests' = requests /\ replies' = replies
        /\ stale' = requests + replies
    BY <1>5 DEF ClientReboot, PoweredOnCounters
  <2> QED BY <1>0, <2>1, FieldValues DEF FlightInv
<1> QED BY <1>1, <1>2, <1>3, <1>4, <1>5 DEF ClientNext

(* The counters, the node and the messages on their way stay within their   *)
(* types and bounds.                                                        *)
THEOREM ClientTypes == ClientSpec => []ClientTypeOK
<1>1. ClientInit => FlightInv
  BY FieldValues, ClientAssumption DEF ClientInit, FlightInv
<1>2. CountersInv /\ FlightInv /\ RouteInv' /\ [ClientNext]_clientVars => FlightInv'
  BY ClientNextFlight
<1>3. ClientSpec => []FlightInv
  BY <1>1, <1>2, CountersInvariance, RouteInvariance, PTL DEF ClientSpec
<1>4. CountersInv /\ FlightInv /\ RouteInv => ClientTypeOK
  BY ClientAssumption DEF CountersInv, FlightInv, RouteInv, Inv, ClientTypeOK
<1> QED BY <1>3, <1>4, CountersInvariance, RouteInvariance, PTL
------------------------------------------------------------------------------
(* What a FEATURES line says of the node *)

(* A node on which root_start is not called never becomes the root.         *)
LEMMA StaysMember ==
  ASSUME ~StartsRoot, Inv, ~IsRoot, Next
  PROVE  ~IsRoot'
<1> USE DEF BecomesOneOf
<1>0. NodeInv(node) /\ node.id = Self
  BY DEF Inv
<1>1. ASSUME NEW m, NodeInv(m), Becomes(m), m.used => m.dag_id # m.id
      PROVE  ~IsRoot'
  <2>1. node' = [m EXCEPT !.sent = {}]
    BY <1>1 DEF Becomes
  <2>2. node'.used = m.used /\ node'.dag_id = m.dag_id /\ node'.id = m.id
    BY <1>1, <2>1 DEF NodeInv, NodeState
  <2> QED BY <1>1, <2>2 DEF IsRoot, rpl_dag_root_is_root
<1>2. ASSUME NEW m, NodeInv(m), Becomes(m), SameMembership(m, node)
      PROVE  ~IsRoot'
  BY <1>1, <1>2 DEF IsRoot, rpl_dag_root_is_root, SameMembership
<1>3. ASSUME NEW from \in Others, NEW dio \in Dios, NEW has_room \in HasRoom,
             ReceiveDio(from, dio, has_room)
      PROVE  ~IsRoot'
  <2>1. PICK m \in rpl_process_dio(node, from, dio, has_room) : Becomes(m)
    BY <1>3 DEF ReceiveDio
  <2>2. /\ from \in Node /\ dio \in Dio /\ has_room \in BOOLEAN /\ dio.dag # node.id
        /\ dio.dag = node.id => rpl_dag_root_is_root(node)
    BY <1>0, <1>3, InputAssumption DEF ReceiveDio, Others
  <2>3. NodeInv(m) /\ m.id = node.id
    BY <1>0, <2>1, <2>2, ProcessDio DEF SameOrNewer
  <2>4. CASE node.used /\ node.dag_id # dio.dag
    <3>1. m = node
      BY <2>1, <2>4 DEF rpl_process_dio
    <3> QED BY <1>2, <2>1, <2>3, <3>1 DEF SameMembership
  <2>5. CASE node.used => node.dag_id = dio.dag
    <3>1. /\ node.used => Moved(m, node, dio)
          /\ ~node.used /\ m.used => m.dag_id = dio.dag
      BY <1>0, <2>1, <2>2, <2>5, ProcessDioMoves
    <3>2. m.used => m.dag_id # m.id
      BY <2>2, <2>3, <2>5, <3>1 DEF Moved
    <3> QED BY <1>1, <2>1, <2>3, <3>2
  <2> QED BY <2>4, <2>5
<1>4. ASSUME NEW from \in Others, NEW is_multicast \in BOOLEAN, NEW has_room \in HasRoom,
             ReceiveDis(from, is_multicast, has_room)
      PROVE  ~IsRoot'
  <2>1. from \in Node /\ has_room \in BOOLEAN
    BY InputAssumption DEF Others
  <2> QED BY <1>0, <1>2, <1>4, <2>1, ProcessDis DEF ReceiveDis
<1>5. ASSUME NEW sequence \in Seqno, NEW status_ok \in DaoStatusOk,
             ReceiveDaoAck(sequence, status_ok)
      PROVE  ~IsRoot'
  <2>1. status_ok \in BOOLEAN
    BY InputAssumption
  <2> QED BY <1>0, <1>2, <1>5, <2>1, ProcessDaoAck DEF ReceiveDaoAck
<1>6. ASSUME NEW sender \in node.nbrs \cup {NoNode}, NEW sender_rank \in HbhRanks,
             NEW loop_detected \in BOOLEAN, NEW rank_error_signaled \in BOOLEAN,
             ReceiveHbh(sender, sender_rank, loop_detected, rank_error_signaled)
      PROVE  ~IsRoot'
  <2>1. sender_rank \in Rank
    BY InputAssumption
  <2> QED BY <1>0, <1>2, <1>6, <2>1, ProcessHbh DEF ReceiveHbh
<1>7. CASE StateUpdateTimer
  BY <1>0, <1>2, <1>7, UpdateStateInv DEF StateUpdateTimer
<1>8. CASE LeaveTimer
  <2> DEFINE n == [node EXCEPT !.leave = FALSE]
  <2>1. NodeInv(n)
    BY <1>0 DEF NodeInv, NodeState
  <2>2. PICK m \in rpl_dag_leave(n) : Becomes(m)
    BY <1>8 DEF LeaveTimer
  <2> HIDE DEF n
  <2> QED BY <1>1, <2>1, <2>2, LeaveInv
<1>9. CASE DioTimer
  BY <1>0, <1>2, <1>9, DioTimerInv DEF DioTimer
<1>10. CASE UnicastDioTimer
  <2>1. PICK to \in Others : \E m \in handle_unicast_dio_timer(node, to) : Becomes(m)
    BY <1>10 DEF UnicastDioTimer
  <2> QED BY <1>0, <1>2, <2>1, UnicastDioTimerInv DEF Others
<1>11. CASE DisTimer
  BY <1>0, <1>2, <1>11, DisTimerInv DEF DisTimer
<1>12. CASE NewDaoTimer
  BY <1>0, <1>2, <1>12, SendNewDaoInv DEF NewDaoTimer
<1>13. CASE ResendDaoTimer
  BY <1>0, <1>2, <1>13, ResendDaoInv DEF ResendDaoTimer
<1>14. CASE Periodic
  BY <1>0, <1>2, <1>14, PeriodicInv DEF Periodic
<1>15. CASE PoisonAndLeave
  BY <1>0, <1>2, <1>15, PoisonAndLeaveInv DEF PoisonAndLeave
<1>16. CASE LocalRepair
  BY <1>0, <1>2, <1>16, LocalRepairInv DEF LocalRepair, NodeInv
<1>17. CASE GlobalRepair
  <2>1. rpl_global_repair(node) = node
    BY DEF IsRoot, rpl_global_repair
  <2>2. Becomes(node)
    BY <1>17, <2>1 DEF GlobalRepair
  <2> QED BY <1>0, <1>2, <2>2 DEF SameMembership
<1>18. CASE RefreshRoutes
  BY <1>0, <1>2, <1>18, RefreshRoutesInv DEF RefreshRoutes
<1>19. CASE Reboot
  <2> DEFINE m == PoweredOn(Self)
  <2>1. NodeInv(m) /\ ~m.used
    BY <1>0, InputAssumption, PoweredOnInv
  <2>2. Becomes(m)
    BY <1>0, <1>19 DEF Reboot, rpl_dag_init
  <2> HIDE DEF m
  <2> QED BY <1>1, <2>1, <2>2
<1>20. ~RootStart
  BY DEF RootStart
<1> QED
  BY <1>3, <1>4, <1>5, <1>6, <1>7, <1>8, <1>9, <1>10, <1>11, <1>12, <1>13, <1>14, <1>15,
     <1>16, <1>17, <1>18, <1>19, <1>20 DEF Next, Step

LEMMA ClientStaysMember ==
  ASSUME ~StartsRoot, RouteInv, ~IsRoot, [ClientNext]_clientVars
  PROVE  ~IsRoot'
<1>1. CASE Period
  BY <1>1, PeriodRoute DEF IsRoot, rpl_dag_root_is_root, SameMembership
<1>2. CASE Next
  BY <1>2, StaysMember DEF RouteInv
<1>3. CASE UNCHANGED vars
  BY <1>3 DEF vars, IsRoot, rpl_dag_root_is_root
<1>4. Period \/ Next \/ UNCHANGED vars
  BY DEF ClientNext, Echo, ReceiveReply, RoutingStep, ClientReboot, Next, clientVars, vars
<1> QED BY <1>1, <1>2, <1>3, <1>4

(* Only a period prints a line, and only of a node of a DAG.                *)
LEMMA LinePrinted ==
  ASSUME RouteInv, CountersInv, ClientNext, tx' = tx + 1
  PROVE  Period /\ node'.used /\ node'.state \in {"REACHABLE", "POISONING"}
<1>0. tx \in Nat
  BY DEF CountersInv
<1>1. tx' # tx /\ tx' # 0
  BY <1>0
<1>2. Period
  BY <1>1 DEF ClientNext, Echo, ReceiveReply, RoutingStep, ClientReboot, counters,
              PoweredOnCounters
<1>3. PICK m \in flooded(node) :
        /\ Becomes(m)
        /\ \E reachable \in node_is_reachable(m) :
             \/ reachable /\ print_features(node') /\ SendRequest
             \/ ~reachable /\ CountMissed
  BY <1>2 DEF Period
<1>4. TRUE \in node_is_reachable(m)
  BY <1>1, <1>3 DEF CountMissed, node_is_reachable
<1>5. m.used /\ m.state \in {"REACHABLE", "POISONING"}
  BY <1>4 DEF node_is_reachable
<1>6. m \in NodeState
  BY FloodWeathered DEF RouteInv, Upkeep, Weathered, Settled, NodeInv
<1>7. node'.used = m.used /\ node'.state = m.state
  BY <1>3, <1>6 DEF Becomes, NodeState
<1> QED BY <1>2, <1>5, <1>7

(* Unless the node is poisoning, a FEATURES line is that of a node with a   *)
(* parent, and with a rank above the root's that is not infinite, whatever  *)
(* a flood did to it in the same period.  An attacker of type 4 may break   *)
(* that: it takes parents below the root's rank.                            *)
THEOREM FeaturesSafe ==
  ASSUME ~StartsRoot, Self \notin Attackers \/ AttackType # 4
  PROVE  ClientSpec => FeaturesOfMember
<1> DEFINE Told ==
      tx' = tx + 1 /\ node'.state # "POISONING" =>
        /\ node'.preferred_parent # NoNode
        /\ node'.rank # InfiniteRank /\ node'.rank > RootRank
<1>1. ClientInit => ~IsRoot
  BY DEF ClientInit, Init, PoweredOn, IsRoot, rpl_dag_root_is_root
<1>2. RouteInv /\ ~IsRoot /\ [ClientNext]_clientVars => ~IsRoot'
  BY ClientStaysMember
<1>3. RouteInv /\ RouteInv' /\ CountersInv /\ ~IsRoot' /\ ClientNext => Told
  <2> SUFFICES ASSUME RouteInv, RouteInv', CountersInv, ~IsRoot', ClientNext,
                      tx' = tx + 1, node'.state # "POISONING"
               PROVE  /\ node'.preferred_parent # NoNode
                      /\ node'.rank # InfiniteRank /\ node'.rank > RootRank
    OBVIOUS
  <2>1. node'.used /\ node'.state = "REACHABLE"
    BY LinePrinted
  <2>2. NodeInv(node') /\ RankAbove(node') /\ node'.id = Self
    BY DEF RouteInv, Inv, Upkeep, Settled
  <2>3. node'.preferred_parent # NoNode
    BY <2>1, <2>2 DEF NodeInv, IsRoot, rpl_dag_root_is_root
  <2> QED BY <2>2, <2>3 DEF RankAbove, WorstParent
<1>4. RouteInv /\ RouteInv' /\ CountersInv /\ ~IsRoot' /\ [ClientNext]_clientVars
        => [Told]_clientVars
  BY <1>3
<1>5. ClientSpec => []~IsRoot
  BY <1>1, <1>2, RouteInvariance, PTL DEF ClientSpec
<1> HIDE DEF Told
<1>6. ClientSpec => [][Told]_clientVars
  BY <1>4, <1>5, RouteInvariance, CountersInvariance, PTL DEF ClientSpec
<1> QED BY <1>6 DEF Told, FeaturesOfMember
=============================================================================
