---------------------------- MODULE RplDagCounters ----------------------------
(***************************************************************************)
(* What the functions of RplDag do to the numbers a node keeps from one    *)
(* handler to the next: the sequence number of its last DAO, which is only *)
(* compared with those of acknowledgements once it has moved on from its   *)
(* first value, and the lowest rank it had, which bounds its rank.  Then   *)
(* what they leave to be said: to the root, of a parent it was not told    *)
(* of, and to the neighbors, of a rank far from the one they heard.        *)
(***************************************************************************)
EXTENDS RplDagUpkeep

(* The values of a counter that is only ever set to zero or to its first    *)
(* value and then incremented.                                              *)
Numbers == 0 .. CircularRegion \cup SeqnoInit .. MaxValue

(* No increment leads back to the first value. *)
LEMMA NumbersGrow ==
  /\ 0 \in Numbers /\ SeqnoInit \in Numbers
  /\ \A a \in Numbers : a \in Seqno /\ Increment(a) \in Numbers /\ Increment(a) # SeqnoInit
<1>1. /\ SeqnoInit \in Nat /\ CircularRegion \in Nat /\ MaxValue \in Nat
      /\ CircularRegion < SeqnoInit /\ SeqnoInit <= MaxValue
  BY LollipopAssumption DEF SeqnoInit
<1>2. 0 \in Numbers /\ SeqnoInit \in Numbers
  BY <1>1 DEF Numbers
<1>3. ASSUME NEW a \in Numbers
      PROVE  a \in Seqno /\ Increment(a) \in Numbers /\ Increment(a) # SeqnoInit
  <2>1. a \in Seqno /\ a \in Int
    BY <1>1 DEF Numbers, Seqno
  <2>2. Increment(a) = IF a = MaxValue \/ a = CircularRegion THEN 0 ELSE a + 1
    BY <2>1, IncrementOutcome
  <2>3. a \in 0 .. CircularRegion \/ a \in SeqnoInit .. MaxValue
    BY DEF Numbers
  <2>4. CASE a = MaxValue \/ a = CircularRegion
    BY <1>1, <1>2, <2>1, <2>2, <2>4
  <2>5. CASE a # MaxValue /\ a # CircularRegion
    <3>1. a + 1 \in 0 .. CircularRegion \/ a + 1 \in SeqnoInit .. MaxValue
      BY <1>1, <2>1, <2>3, <2>5
    <3>2. a + 1 # SeqnoInit
      BY <1>1, <2>1, <2>3, <2>5
    <3> QED BY <2>1, <2>2, <2>5, <3>1, <3>2 DEF Numbers
  <2> QED BY <2>4, <2>5
<1> QED BY <1>2, <1>3

(* A DAO that is sent, or that is to be sent again, has a number that the    *)
(* counter has moved on to.                                                 *)
Numbered(n) ==
  /\ n.dao_last_seqno \in Numbers
  /\ ~n.used => n.dao_timer = "off"
  /\ n.dao_timer = "resend" => n.dao_last_seqno # SeqnoInit
  /\ \A msg \in n.sent : msg.type = "DAO" => msg.seqno # SeqnoInit

(* The rank of a node that is no attacker stays near the lowest it had. *)
RankWithin(n) ==
  n.preferred_parent # NoNode /\ n.id \notin Attackers =>
    /\ n.lowest_rank <= n.rank
    /\ MaxRankInc # 0 => n.rank <= n.lowest_rank + MaxRankInc

Counted(n) == Numbered(n) /\ RankWithin(n)

(* The lowest rank is not raised while a node keeps a parent and its version. *)
Lowered(m, n) ==
  /\ n.preferred_parent # NoNode /\ m.preferred_parent # NoNode
  /\ n.id \notin Attackers /\ m.version = n.version
  => m.lowest_rank <= n.lowest_rank

(* What every handler that turns n into m does. *)
Counting(m, n) == Counted(m) /\ Lowered(m, n)

(* The functions that change none of these numbers. *)
Even(m, n) ==
  /\ m \in NodeState /\ m.id = n.id /\ m.used = n.used /\ m.version = n.version
  /\ m.preferred_parent = n.preferred_parent
  /\ m.rank = n.rank /\ m.lowest_rank = n.lowest_rank
  /\ m.dao_last_seqno = n.dao_last_seqno /\ m.dao_timer = n.dao_timer /\ m.sent = n.sent

LEMMA RanksAreNumbers ==
  ASSUME NEW n \in NodeState
  PROVE  n.rank \in Nat /\ n.lowest_rank \in Nat
BY RankAssumption DEF NodeState, Rank

LEMMA EvenKeeps ==
  ASSUME NEW n, NEW m, Even(m, n)
  PROVE  /\ Numbered(n) => Numbered(m)
         /\ RankWithin(n) => RankWithin(m)
BY DEF Even, Numbered, RankWithin

LEMMA EvenCounting ==
  ASSUME NEW n \in NodeState, Counted(n), NEW m, Even(m, n)
  PROVE  Counting(m, n)
<1>1. m.lowest_rank <= n.lowest_rank
  BY RanksAreNumbers DEF Even
<1> QED BY <1>1, EvenKeeps DEF Counting, Counted, Lowered

LEMMA EvenThenCounting ==
  ASSUME NEW n, NEW o, Even(o, n), NEW m, Counting(m, o)
  PROVE  Counting(m, n)
BY DEF Even, Counting, Lowered

LEMMA CountingThenEven ==
  ASSUME NEW n, NEW o, Counting(o, n), NEW m, Even(m, o)
  PROVE  Counting(m, n)
BY EvenKeeps DEF Even, Counting, Counted, Lowered

LEMMA ResetIsEven ==
  ASSUME NEW n \in NodeState
  PROVE  Even(rpl_timers_dio_reset(n), n)
BY DEF rpl_timers_dio_reset, Even, NodeState

(* Without a parent before or after there is no rank to bound. *)
LEMMA OrphanCounting ==
  ASSUME NEW n, NEW m, Numbered(m), m.preferred_parent = NoNode
  PROVE  Counting(m, n)
BY DEF Counting, Counted, RankWithin, Lowered
------------------------------------------------------------------------------
(* rpl_dag_update_state *)

LEMMA HonestSelected ==
  ASSUME NEW n \in NodeState, n.id \notin Attackers, NEW cost \in [n.nbrs -> LinkCosts],
         NEW m \in reselect(n, cost)
  PROVE  /\ m.lowest_rank = n.lowest_rank
         /\ m.preferred_parent # NoNode /\ MaxRankInc # 0 => m.rank <= n.lowest_rank + MaxRankInc
<1>1. PICK best \in rpl_neighbor_select_best(n, cost) :
        m \in attack(take_parent(n, best, cost), cost)
  BY DEF reselect
<1> DEFINE r == rpl_neighbor_rank_via_nbr(n, best, cost)
           o == rpl_neighbor_set_preferred_parent(n, best)
           p == [o EXCEPT !.rank = r]
<1>2. best # NoNode => MaxRankInc = 0 \/ r <= n.lowest_rank + MaxRankInc
  BY <1>1 DEF rpl_neighbor_select_best, acceptable
<1>3. best \in Node \cup {NoNode}
  BY <1>1 DEF rpl_neighbor_select_best, NodeState
<1>4. take_parent(n, best, cost) = p
  BY DEF take_parent
<1> HIDE DEF r
<1>5. /\ o \in NodeState /\ o.id = n.id /\ o.preferred_parent = best
      /\ o.lowest_rank = n.lowest_rank
  BY <1>3 DEF rpl_neighbor_set_preferred_parent, NodeState
<1> HIDE DEF o
<1>6. /\ p.id = n.id /\ p.preferred_parent = best
      /\ p.lowest_rank = n.lowest_rank /\ p.rank = r
  BY <1>5 DEF NodeState
<1> HIDE DEF p
<1>7. m = p
  BY <1>1, <1>4, <1>6 DEF attack
<1> QED BY <1>2, <1>6, <1>7

LEMMA TrackLowest ==
  ASSUME NEW n \in NodeState, NEW old_parent,
         NEW m, m = track_advertised_rank(track_lowest_rank(n, old_parent))
  PROVE  m.lowest_rank = IF old_parent = NoNode \/ n.rank < n.lowest_rank
                           THEN n.rank ELSE n.lowest_rank
<1> DEFINE o == track_lowest_rank(n, old_parent)
           p == [o EXCEPT !.last_advertised_rank = o.rank]
<1>1. /\ o \in NodeState
      /\ o.lowest_rank = IF old_parent = NoNode \/ n.rank < n.lowest_rank
                           THEN n.rank ELSE n.lowest_rank
  BY DEF track_lowest_rank, NodeState
<1>2. m \in {o, rpl_timers_dio_reset(p)}
  BY DEF track_advertised_rank
<1> HIDE DEF o
<1>3. p \in NodeState /\ p.lowest_rank = o.lowest_rank
  BY <1>1 DEF NodeState
<1> HIDE DEF p
<1>4. rpl_timers_dio_reset(p).lowest_rank = p.lowest_rank
  BY <1>3, DioReset
<1> QED BY <1>1, <1>2, <1>3, <1>4

LEMMA MemberCounting ==
  ASSUME NEW n, NodeInv(n), Numbered(n), n.used,
         NEW s, s = [n EXCEPT !.state_update = FALSE],
         NEW cost \in [s.nbrs -> LinkCosts], NEW p \in reselect(s, cost),
         NEW m, m = after_reselect(p, n.preferred_parent)
  PROVE  Counting(m, n)
<1>1. Even(s, n) /\ Carried(s, n)
  BY DEF NodeInv, Even, Carried, NodeState, SameMembership
<1>2. Selected(p, s)
  BY <1>1, ReselectSelected DEF Even
<1> DEFINE q == track_advertised_rank(track_lowest_rank(p, n.preferred_parent))
<1>3. Unmoved(q, p) /\ Carried(q, p)
  BY <1>2, TrackRankUnmoved DEF Selected, Carried
<1>4. q.lowest_rank = IF n.preferred_parent = NoNode \/ p.rank < p.lowest_rank
                        THEN p.rank ELSE p.lowest_rank
  BY <1>2, TrackLowest DEF Selected, Carried
<1>5. m = process_parent_switch(q, n.preferred_parent)
  BY DEF after_reselect
<1> HIDE DEF q
<1>6. Switched(m, q, n.preferred_parent)
  BY <1>3, <1>5, SwitchOutcome DEF Unmoved
<1>7. Carried(m, n)
  BY <1>1, <1>2, <1>3, <1>6 DEF Selected, Switched, Handled, Carried, SameMembership
<1>8. /\ m.preferred_parent = p.preferred_parent /\ m.rank = p.rank
      /\ m.lowest_rank = q.lowest_rank
  BY <1>3, <1>6 DEF Unmoved, Switched, Handled
<1>9. q.dao_timer = n.dao_timer /\ q.used
  BY <1>1, <1>2, <1>3 DEF Even, Selected, Unmoved, Carried, SameMembership
<1>10. m.dao_timer \in {n.dao_timer, "new"}
  BY <1>6, <1>9 DEF Switched
<1>11. Numbered(m)
  BY <1>7, <1>10 DEF Numbered, Carried, SameMembership
<1>12. ASSUME m.preferred_parent # NoNode, n.id \notin Attackers
       PROVE  /\ m.lowest_rank <= m.rank
              /\ MaxRankInc # 0 => m.rank <= m.lowest_rank + MaxRankInc
              /\ n.preferred_parent # NoNode => m.lowest_rank <= n.lowest_rank
  <2>1. s \in NodeState /\ s.id \notin Attackers /\ s.lowest_rank = n.lowest_rank
    BY <1>1, <1>12 DEF Even
  <2>2. /\ p.lowest_rank = n.lowest_rank
        /\ p.preferred_parent # NoNode /\ MaxRankInc # 0 => p.rank <= n.lowest_rank + MaxRankInc
    BY <2>1, HonestSelected
  <2>3. p.rank \in Nat /\ n.lowest_rank \in Nat /\ MaxRankInc \in Nat
    BY <1>2, RanksAreNumbers, RankAssumption DEF Selected, Carried, NodeInv
  <2>4. MaxRankInc # 0 => p.rank <= n.lowest_rank + MaxRankInc
    BY <1>8, <1>12, <2>2
  <2> DEFINE low == n.lowest_rank
             rank == p.rank
  <2>5. m.lowest_rank = IF n.preferred_parent = NoNode \/ rank < low THEN rank ELSE low
    BY <1>4, <1>8, <2>2
  <2>6. m.rank = rank /\ rank \in Nat /\ low \in Nat
    BY <1>8, <2>3
  <2>7. MaxRankInc # 0 => rank <= low + MaxRankInc
    BY <2>4
  <2> HIDE DEF low, rank
  <2>8. m.lowest_rank <= rank /\ (n.preferred_parent # NoNode => m.lowest_rank <= low)
    BY <2>5, <2>6
  <2>9. MaxRankInc # 0 => rank <= m.lowest_rank + MaxRankInc
    BY <2>3, <2>5, <2>6, <2>7
  <2> QED BY <2>6, <2>8, <2>9 DEF low
<1>13. m.id = n.id
  BY <1>7 DEF Carried, SameMembership
<1> QED BY <1>11, <1>12, <1>13 DEF Counting, Counted, RankWithin, Lowered

(* A state update bounds the rank whatever it was before. *)
LEMMA UpdateCounting ==
  ASSUME NEW n, NodeInv(n), Numbered(n), NEW m \in rpl_dag_update_state(n)
  PROVE  /\ Counting(m, n)
         /\ n.preferred_parent = NoNode /\ (n.used => n.dag_id = n.id)
              => m.preferred_parent = NoNode
<1> DEFINE s == [n EXCEPT !.state_update = FALSE]
<1>0. n \in NodeState /\ n.nbrs = s.nbrs
  BY DEF NodeInv, NodeState
<1>1. CASE ~n.used /\ m = n
  BY <1>1, OrphanCounting DEF NodeInv
<1>2. CASE n.used /\ n.state = "POISONING" /\ m = poison(s)
  <2> DEFINE o == [rpl_neighbor_set_preferred_parent(s, NoNode) EXCEPT !.rank = InfiniteRank]
             p == rpl_timers_dio_reset(o)
  <2>1. Carried(m, n)
    BY <1>2, PoisonUpdated DEF Updated
  <2>2. o \in NodeState /\ o.dao_timer = n.dao_timer /\ o.preferred_parent = NoNode
    BY <1>0, FieldValues DEF rpl_neighbor_set_preferred_parent, NodeState
  <2>3. m \in {o, [p EXCEPT !.leave = TRUE]}
    BY <1>2 DEF poison, rpl_timers_schedule_leaving
  <2> HIDE DEF o
  <2>4. Even(p, o)
    BY <2>2, ResetIsEven
  <2> HIDE DEF p
  <2>5. m.dao_timer = n.dao_timer /\ m.preferred_parent = NoNode
    BY <2>2, <2>3, <2>4 DEF Even, NodeState
  <2>6. Numbered(m)
    BY <2>1, <2>5 DEF Numbered, Carried, SameMembership
  <2> QED BY <2>5, <2>6, OrphanCounting
<1>3. CASE n.used /\ n.state # "POISONING" /\ n.dag_id = n.id /\ m = s
  <2>1. Even(m, n) /\ m.preferred_parent = NoNode
    BY <1>0, <1>3 DEF NodeInv, Even, NodeState
  <2> QED BY <2>1, EvenKeeps, OrphanCounting
<1>4. CASE /\ n.used /\ n.state # "POISONING" /\ n.dag_id # n.id
           /\ \E cost \in [n.nbrs -> LinkCosts] : \E p \in reselect(s, cost) :
                m = after_reselect(p, n.preferred_parent)
  <2> HIDE DEF s
  <2>1. PICK cost \in [s.nbrs -> LinkCosts] : \E p \in reselect(s, cost) :
          m = after_reselect(p, n.preferred_parent)
    BY <1>0, <1>4
  <2>2. PICK p \in reselect(s, cost) : m = after_reselect(p, n.preferred_parent)
    BY <2>1
  <2> QED BY <1>4, <2>2, MemberCounting DEF s
<1> QED
  BY <1>1, <1>2, <1>3, <1>4 DEF rpl_dag_update_state, rpl_dag_root_is_root
------------------------------------------------------------------------------
(* Output *)

LEMMA SentCounting ==
  ASSUME NEW n, NEW o \in NodeState, Counting(o, n), NEW msg \in Message,
         msg.type = "DAO" => msg.seqno # SeqnoInit, NEW m, m = Send(o, msg)
  PROVE  Counting(m, n)
<1>1. /\ m.id = o.id /\ m.used = o.used /\ m.version = o.version
      /\ m.preferred_parent = o.preferred_parent
      /\ m.rank = o.rank /\ m.lowest_rank = o.lowest_rank
      /\ m.dao_last_seqno = o.dao_last_seqno /\ m.dao_timer = o.dao_timer
      /\ m.sent = o.sent \cup {msg}
  BY DEF Send, NodeState
<1>2. Numbered(m)
  BY <1>1 DEF Counting, Counted, Numbered
<1>3. RankWithin(m) /\ Lowered(m, n)
  BY <1>1 DEF Counting, Counted, RankWithin, Lowered
<1> QED BY <1>2, <1>3 DEF Counting, Counted

LEMMA DioOutputCounting ==
  ASSUME NEW n, NodeInv(n), Numbered(n), NEW to \in Node \cup {All},
         NEW m \in rpl_icmp6_dio_output(n, to)
  PROVE  Counting(m, n)
<1> DEFINE msg(o) == [type |-> "DIO", to |-> to, rank |-> o.rank,
                      version |-> advertised_version(o), dtsn |-> o.dtsn_out]
<1>1. PICK o \in rpl_dag_update_state(n) : m = Send(o, msg(o))
  BY DEF rpl_icmp6_dio_output
<1>2. o \in NodeState
  BY UpdateStateInv DEF NodeInv
<1>3. o.rank \in Rank /\ o.dtsn_out \in Seqno /\ advertised_version(o) \in Seqno
  BY <1>2, AdvertisedVersion DEF NodeState
<1>4. msg(o) \in Message /\ msg(o).type # "DAO"
  BY <1>3 DEF Message
<1> HIDE DEF msg
<1> QED BY <1>1, <1>2, <1>4, UpdateCounting, SentCounting

LEMMA DisOutputCounting ==
  ASSUME NEW n, NodeInv(n), Numbered(n), NEW to \in Node \cup {All},
         NEW m \in rpl_icmp6_dis_output(n, to)
  PROVE  Counting(m, n)
<1> DEFINE msg == [type |-> "DIS", to |-> to]
<1>1. PICK o \in rpl_dag_update_state(n) : m = Send(o, msg)
  BY DEF rpl_icmp6_dis_output
<1>2. o \in NodeState /\ msg \in Message /\ msg.type # "DAO"
  BY UpdateStateInv DEF NodeInv, Message
<1> HIDE DEF msg
<1> QED BY <1>1, <1>2, UpdateCounting, SentCounting

LEMMA DaoOutputCounting ==
  ASSUME NEW n, NodeInv(n), Numbered(n), n.dao_last_seqno # SeqnoInit,
         NEW lifetime \in {0, 1}, NEW m \in rpl_icmp6_dao_output(n, lifetime)
  PROVE  Counting(m, n) /\ m.dao_last_seqno = n.dao_last_seqno
<1> DEFINE msg(o) == [type |-> "DAO", parent |-> n.preferred_parent,
                      seqno |-> o.dao_last_seqno, lifetime |-> lifetime]
<1>1. PICK o \in rpl_dag_update_state(n) :
        m = o \/ (m = Send(o, msg(o)) /\ n.preferred_parent # NoNode)
  BY DEF rpl_icmp6_dao_output
<1>2. o \in NodeState /\ Counting(o, n)
  BY UpdateStateInv, UpdateCounting DEF NodeInv
<1>3. o.dao_last_seqno = n.dao_last_seqno
  BY UpdateStateOutcome DEF Updated, Carried
<1>4. CASE m = o
  BY <1>2, <1>3, <1>4
<1>5. CASE m = Send(o, msg(o)) /\ n.preferred_parent # NoNode
  <2>1. n.preferred_parent \in Node /\ o.dao_last_seqno \in Seqno
    BY <1>2, <1>5 DEF NodeInv, NodeState
  <2>2. msg(o) \in Message /\ msg(o).seqno # SeqnoInit
    BY <1>3, <2>1 DEF Message
  <2> HIDE DEF msg
  <2>3. m.dao_last_seqno = o.dao_last_seqno
    BY <1>2, <1>5 DEF Send, NodeState
  <2> QED BY <1>2, <1>3, <1>5, <2>2, <2>3, SentCounting
<1> QED BY <1>1, <1>4, <1>5
------------------------------------------------------------------------------
(* Leaving, repairing, and becoming a root *)

LEMMA LeaveCounting ==
  ASSUME NEW n, NodeInv(n), Numbered(n), NEW m \in rpl_dag_leave(n)
  PROVE  Counting(m, n) /\ m.dao_timer = "off"
<1> DEFINE i == [n EXCEPT !.dao_last_seqno = Increment(n.dao_last_seqno)]
           said == IF rpl_dag_root_is_root(n) THEN {n} ELSE rpl_icmp6_dao_output(i, 0)
<1>1. /\ Increment(n.dao_last_seqno) \in Seqno /\ Increment(n.dao_last_seqno) \in Numbers
      /\ Increment(n.dao_last_seqno) # SeqnoInit
  BY NumbersGrow DEF Numbered
<1>2. NodeInv(i) /\ Numbered(i) /\ i.dao_last_seqno # SeqnoInit
  BY <1>1 DEF NodeInv, NodeState, Numbered
<1>3. PICK o \in said :
        m = [rpl_timers_stop_dag_timers(rpl_neighbor_remove_all(o)) EXCEPT !.used = FALSE]
  BY DEF rpl_dag_leave
<1> HIDE DEF i
<1>4. o \in NodeState /\ Numbered(o)
  BY <1>2, <1>3, DaoOutput, DaoOutputCounting DEF NodeInv, Counting, Counted
<1> HIDE DEF said
<1> DEFINE p == rpl_neighbor_remove_all(o)
           q == rpl_timers_stop_dag_timers(p)
<1>5. /\ p \in NodeState /\ p.preferred_parent = NoNode
      /\ p.dao_last_seqno = o.dao_last_seqno /\ p.sent = o.sent
  BY <1>4, RemoveAll
     DEF rpl_neighbor_remove_all, rpl_neighbor_set_preferred_parent, NodeState
<1> HIDE DEF p
<1>6. /\ q \in NodeState /\ q.preferred_parent = NoNode /\ q.dao_timer = "off"
      /\ q.dao_last_seqno = p.dao_last_seqno /\ q.sent = p.sent
  BY <1>5, FieldNames DEF rpl_timers_stop_dag_timers, NodeState
<1>7. m = [q EXCEPT !.used = FALSE]
  BY <1>3 DEF p
<1> HIDE DEF q
<1>8. /\ ~m.used /\ m.preferred_parent = NoNode /\ m.dao_timer = "off"
      /\ m.dao_last_seqno = o.dao_last_seqno /\ m.sent = o.sent
  BY <1>5, <1>6, <1>7 DEF NodeState
<1>9. Numbered(m)
  BY <1>4, <1>8 DEF Numbered
<1> QED BY <1>8, <1>9, OrphanCounting

LEMMA PoisonCounting ==
  ASSUME NEW n, NodeInv(n), Counted(n), NEW m, m = rpl_dag_poison_and_leave(n)
  PROVE  Counting(m, n)
<1>1. Even(m, n)
  BY FieldNames
     DEF rpl_dag_poison_and_leave, rpl_timers_schedule_state_update, NodeInv, NodeState, Even
<1> QED BY <1>1, EvenCounting DEF NodeInv

(* A repair takes the parent, but no number. *)
LEMMA LocalRepairNumbers ==
  ASSUME NEW n \in NodeState, n.used, NEW m, m = rpl_local_repair(n)
  PROVE  /\ m \in NodeState /\ m.used /\ m.preferred_parent = NoNode
         /\ m.dao_last_seqno = n.dao_last_seqno /\ m.dao_timer = n.dao_timer /\ m.sent = n.sent
<1> DEFINE o == IF rpl_dag_root_is_root(n) THEN n ELSE [n EXCEPT !.state = "INITIALIZED"]
           p == rpl_neighbor_remove_all(o)
           q == rpl_timers_dio_reset(p)
<1>1. o \in NodeState /\ Even(o, n)
  BY FieldNames DEF NodeState, Even
<1> HIDE DEF o
<1>2. /\ p \in NodeState /\ p.used = o.used /\ p.preferred_parent = NoNode
      /\ p.dao_last_seqno = o.dao_last_seqno /\ p.dao_timer = o.dao_timer /\ p.sent = o.sent
  BY <1>1, RemoveAll
     DEF rpl_neighbor_remove_all, rpl_neighbor_set_preferred_parent, NodeState
<1>3. m = [q EXCEPT !.state_update = TRUE]
  BY DEF rpl_local_repair, rpl_timers_schedule_state_update, o, p
<1> HIDE DEF p
<1>4. Even(q, p)
  BY <1>2, ResetIsEven
<1> HIDE DEF q
<1>5. Even(m, q)
  BY <1>3, <1>4 DEF Even, NodeState
<1> QED BY <1>1, <1>2, <1>4, <1>5 DEF Even

LEMMA LocalRepairCounting ==
  ASSUME NEW n \in NodeState, Numbered(n), ~n.used => n.preferred_parent = NoNode,
         NEW m, m = rpl_local_repair(n)
  PROVE  Counting(m, n) /\ m.preferred_parent = NoNode
<1>1. CASE ~n.used
  <2>1. m = n
    BY <1>1 DEF rpl_local_repair
  <2> QED BY <1>1, <2>1, OrphanCounting
<1>2. CASE n.used
  <2>1. Numbered(m) /\ m.preferred_parent = NoNode
    BY <1>2, LocalRepairNumbers DEF Numbered
  <2> QED BY <2>1, OrphanCounting
<1> QED BY <1>1, <1>2

LEMMA GlobalRepairCounting ==
  ASSUME NEW n, NodeInv(n), Counted(n), NEW m, m = rpl_global_repair(n)
  PROVE  /\ Counting(m, n)
         /\ rpl_dag_root_is_root(n) => m.preferred_parent = NoNode
<1>1. CASE ~rpl_dag_root_is_root(n)
  <2>1. Even(m, n)
    BY <1>1 DEF rpl_global_repair, Even, NodeInv
  <2> QED BY <1>1, <2>1, EvenCounting DEF NodeInv
<1>2. CASE rpl_dag_root_is_root(n)
  <2> DEFINE o == [n EXCEPT !.version = Increment(n.version), !.dtsn_out = SeqnoInit]
  <2>1. Increment(n.version) \in Seqno /\ SeqnoInit \in Seqno
    BY FieldValues, IncrementType DEF NodeInv, NodeState
  <2>2. o \in NodeState /\ o.used /\ Numbered(o)
    BY <1>2, <2>1 DEF NodeInv, NodeState, Counted, Numbered, rpl_dag_root_is_root
  <2>3. m = rpl_local_repair(o)
    BY <1>2 DEF rpl_global_repair
  <2> HIDE DEF o
  <2> QED BY <2>2, <2>3, LocalRepairCounting, OrphanCounting DEF Counting, Counted
<1> QED BY <1>1, <1>2

LEMMA RefreshRoutesCounting ==
  ASSUME NEW n, NodeInv(n), Counted(n), NEW m, m = rpl_refresh_routes(n)
  PROVE  Counting(m, n)
<1>1. Increment(n.dtsn_out) \in Seqno
  BY IncrementType DEF NodeInv, NodeState
<1>2. Even(m, n)
  BY <1>1 DEF rpl_refresh_routes, NodeInv, NodeState, Even
<1> QED BY <1>2, EvenCounting DEF NodeInv

(* The counter starts again, with the timer off. *)
LEMMA InitDagNumbers ==
  ASSUME NEW n \in NodeState, Numbered(n), n.dao_timer # "resend", NEW d
  PROVE  /\ init_dag(n, d).used /\ init_dag(n, d).dao_last_seqno = SeqnoInit
         /\ init_dag(n, d).dao_timer = n.dao_timer /\ init_dag(n, d).sent = n.sent
BY DEF init_dag, zeroed, NodeState

LEMMA InitRootCounting ==
  ASSUME NEW n, NodeInv(n), Numbered(n), NEW m \in rpl_dag_init_root(n)
  PROVE  Counting(m, n)
<1> DEFINE version == IF n.used /\ n.dag_id = n.id THEN Increment(n.version) ELSE SeqnoInit
           left == IF n.used THEN rpl_dag_leave(n) ELSE {n}
           ready(o) == [init_dag(o, n.id) EXCEPT
                          !.mop = "NON_STORING", !.version = version,
                          !.rank = RootRank, !.lifetime = InfiniteLifetime, !.state = "REACHABLE"]
<1>0. m.preferred_parent = NoNode
  BY InitRoot
<1>1. PICK o \in left : m = rpl_timers_dio_reset(ready(o))
  BY DEF rpl_dag_init_root
<1>2. o \in NodeState /\ Numbered(o) /\ o.dao_timer # "resend"
  <2>1. CASE n.used
    BY <1>1, <2>1, LeaveInv, LeaveCounting DEF NodeInv, Counting, Counted
  <2>2. CASE ~n.used
    BY <1>1, <2>2 DEF NodeInv, Numbered
  <2> QED BY <2>1, <2>2
<1> HIDE DEF left
<1>3. version \in Seqno /\ n.id \in Node
  BY FieldValues, IncrementType DEF NodeInv, NodeState
<1> HIDE DEF version
<1> DEFINE p == init_dag(o, n.id)
<1>4. p \in NodeState
  BY <1>2, <1>3, InitDag
<1>5. /\ p.used /\ p.dao_last_seqno = SeqnoInit
      /\ p.dao_timer = o.dao_timer /\ p.sent = o.sent
  BY <1>2, InitDagNumbers
<1> HIDE DEF p
<1>6. ready(o) = [p EXCEPT
                    !.mop = "NON_STORING", !.version = version,
                    !.rank = RootRank, !.lifetime = InfiniteLifetime, !.state = "REACHABLE"]
  BY DEF p
<1> DEFINE q == ready(o)
<1> HIDE DEF ready
<1>7. /\ q \in NodeState /\ q.used /\ q.dao_last_seqno = SeqnoInit
      /\ q.dao_timer = o.dao_timer /\ q.sent = o.sent
  BY <1>3, <1>4, <1>5, <1>6, FieldValues, FieldNames DEF NodeState
<1> HIDE DEF q
<1>8. Numbered(q)
  BY <1>2, <1>7, NumbersGrow DEF Numbered
<1>9. Even(m, q)
  BY <1>1, <1>7, ResetIsEven DEF q
<1> QED BY <1>0, <1>8, <1>9, EvenKeeps, OrphanCounting

LEMMA PoweredOnCounting ==
  ASSUME NEW i, NEW n
  PROVE  Counting(PoweredOn(i), n)
<1>1. Numbered(PoweredOn(i)) /\ PoweredOn(i).preferred_parent = NoNode
  BY NumbersGrow DEF PoweredOn, Numbered
<1> QED BY <1>1, OrphanCounting
------------------------------------------------------------------------------
(* Other input *)

LEMMA ProcessDisCounting ==
  ASSUME NEW n, NodeInv(n), Counted(n), NEW from \in Node,
         NEW is_multicast \in BOOLEAN, NEW has_room \in BOOLEAN,
         NEW m \in rpl_process_dis(n, from, is_multicast, has_room)
  PROVE  Counting(m, n)
<1>0. n \in NodeState /\ Numbered(n)
  BY DEF NodeInv, Counted
<1>1. CASE m = n
  BY <1>0, <1>1, EvenCounting DEF Even
<1>2. CASE m = rpl_timers_dio_reset(n)
  BY <1>0, <1>2, ResetIsEven, EvenCounting
<1>3. CASE m \in rpl_icmp6_dio_output(n, from)
  BY <1>0, <1>3, DioOutputCounting
<1> QED BY <1>1, <1>2, <1>3 DEF rpl_process_dis

(* The numbers and the rank as they were, whatever happened to the rest. *)
LEMMA SteadyCounting ==
  ASSUME NEW n \in NodeState, Counted(n), NEW m, Numbered(m),
         m.id = n.id, m.version = n.version, m.preferred_parent = n.preferred_parent,
         m.rank = n.rank, m.lowest_rank = n.lowest_rank
  PROVE  Counting(m, n)
<1>1. m.lowest_rank <= n.lowest_rank
  BY RanksAreNumbers
<1>2. RankWithin(m)
  BY DEF Counted, RankWithin
<1> QED BY <1>1, <1>2 DEF Counting, Counted, Lowered

(* An acknowledged DAO is not sent again. *)
LEMMA ProcessDaoAckCounting ==
  ASSUME NEW n, NodeInv(n), Counted(n), NEW sequence, NEW status_ok \in BOOLEAN,
         NEW m, m = rpl_process_dao_ack(n, sequence, status_ok)
  PROVE  Counting(m, n)
<1> DEFINE o == [n EXCEPT !.state = "REACHABLE"]
           reached == IF n.state = "JOINED" /\ status_ok THEN rpl_timers_dio_reset(o) ELSE n
           noted == rpl_timers_notify_dao_ack(reached)
           poisoned == [noted EXCEPT !.state = "POISONING"]
<1>0. n \in NodeState
  BY DEF NodeInv
<1>1. o \in NodeState /\ Even(o, n)
  BY <1>0, FieldNames DEF NodeState, Even
<1>2. m = n \/ (n.used /\ m \in {noted, poisoned})
  <2>1. m = CASE ~n.used \/ sequence # n.dao_last_seqno -> n
              [] n.used /\ sequence = n.dao_last_seqno /\ status_ok -> noted
              [] OTHER -> poisoned
    BY DEF rpl_process_dao_ack
  <2> HIDE DEF noted, poisoned
  <2> QED BY <2>1
<1> HIDE DEF o
<1>3. Even(rpl_timers_dio_reset(o), o)
  BY <1>1, ResetIsEven
<1>4. Even(reached, n)
  BY <1>0, <1>1, <1>3 DEF Even
<1> HIDE DEF reached
<1>5. /\ noted \in NodeState /\ noted.id = n.id /\ noted.used = n.used
      /\ noted.version = n.version /\ noted.preferred_parent = n.preferred_parent
      /\ noted.rank = n.rank /\ noted.lowest_rank = n.lowest_rank
      /\ noted.dao_last_seqno = n.dao_last_seqno /\ noted.dao_timer = "refresh"
      /\ noted.sent = n.sent
  BY <1>4, FieldNames DEF rpl_timers_notify_dao_ack, NodeState, Even
<1> HIDE DEF noted
<1>6. Even(poisoned, noted)
  BY <1>5, FieldNames DEF NodeState, Even
<1> HIDE DEF poisoned
<1>7. n.used => Numbered(noted)
  BY <1>5 DEF Counted, Numbered
<1>8. n.used => Counting(noted, n)
  BY <1>0, <1>5, <1>7, SteadyCounting
<1>9. Counting(n, n)
  BY <1>0, EvenCounting DEF Even
<1> QED BY <1>2, <1>6, <1>8, <1>9, CountingThenEven

LEMMA ProcessHbhCounting ==
  ASSUME NEW n, NodeInv(n), Counted(n), NEW sender \in n.nbrs \cup {NoNode},
         NEW sender_rank \in Rank,
         NEW loop_detected \in BOOLEAN, NEW rank_error_signaled \in BOOLEAN,
         NEW m \in rpl_process_hbh(n, sender, sender_rank, loop_detected, rank_error_signaled)
  PROVE  Counting(m, n)
<1> DEFINE warned == IF loop_detected /\ rank_error_signaled /\ LoopErrorDrop
                       THEN rpl_timers_dio_reset(n) ELSE n
           replying == IF loop_detected THEN rpl_timers_schedule_unicast_dio(warned) ELSE warned
           o == [replying EXCEPT !.nbr_rank[sender] = sender_rank]
<1>0. n \in NodeState
  BY DEF NodeInv
<1>1. NodeInv(warned) /\ Even(warned, n)
  <2>1. NodeInv(rpl_timers_dio_reset(n)) /\ Even(rpl_timers_dio_reset(n), n)
    BY <1>0, Timers, TimersInv, ResetIsEven
  <2>2. Even(n, n)
    BY <1>0 DEF Even
  <2> QED BY <2>1, <2>2
<1>2. m = replying \/ (sender # NoNode /\ m \in rpl_dag_update_state(o))
  BY DEF rpl_process_hbh
<1> HIDE DEF warned
<1>3. NodeInv(replying)
  BY <1>1, Timers, TimersInv DEF NodeInv, SameMembership
<1>4. Even(replying, warned)
  BY <1>1 DEF rpl_timers_schedule_unicast_dio, Even, NodeState
<1> HIDE DEF replying
<1>5. Even(replying, n)
  BY <1>1, <1>4 DEF Even
<1>6. CASE m = replying
  BY <1>0, <1>5, <1>6, EvenCounting
<1>7. CASE sender # NoNode /\ m \in rpl_dag_update_state(o)
  <2>1. NodeInv(o) /\ Even(o, replying)
    BY <1>3, <1>7 DEF NodeInv, NodeState, Even
  <2> HIDE DEF o
  <2>2. Even(o, n)
    BY <1>5, <2>1 DEF Even
  <2>3. Counting(m, o)
    BY <1>7, <2>1, <2>2, EvenKeeps, UpdateCounting DEF Counted
  <2> QED BY <2>2, <2>3, EvenThenCounting
<1> QED BY <1>2, <1>6, <1>7

LEMMA PeriodicCounting ==
  ASSUME NEW n, NodeInv(n), Counted(n), NEW m \in rpl_dag_periodic(n)
  PROVE  Counting(m, n)
<1> DEFINE left == IF n.lifetime > 1 THEN n.lifetime - 1 ELSE 0
           o == [n EXCEPT !.lifetime = left]
<1>0. n \in NodeState
  BY DEF NodeInv
<1>1. left \in Lifetime
  BY <1>0, BoundsAssumption DEF NodeState, Lifetime, InfiniteLifetime
<1>2. \/ m = n
      \/ m = rpl_dag_poison_and_leave(o)
      \/ n.preferred_parent # NoNode /\ m \in rpl_icmp6_dis_output(o, n.preferred_parent)
      \/ m = o
  BY DEF rpl_dag_periodic
<1> HIDE DEF left
<1>3. NodeInv(o) /\ Even(o, n)
  BY <1>0, <1>1 DEF NodeInv, NodeState, Even
<1> HIDE DEF o
<1>4. Counted(o)
  BY <1>3, EvenKeeps DEF Counted
<1>5. CASE m = n \/ m = o
  BY <1>0, <1>3, <1>5, EvenCounting DEF Even
<1>6. CASE m = rpl_dag_poison_and_leave(o)
  BY <1>3, <1>4, <1>6, PoisonCounting, EvenThenCounting
<1>7. CASE n.preferred_parent # NoNode /\ m \in rpl_icmp6_dis_output(o, n.preferred_parent)
  <2>1. n.preferred_parent \in Node \cup {All}
    BY <1>0, <1>7 DEF NodeState
  <2> QED BY <1>3, <1>4, <1>7, <2>1, DisOutputCounting, EvenThenCounting DEF Counted
<1> QED BY <1>2, <1>5, <1>6, <1>7
------------------------------------------------------------------------------
(* Timer handlers *)

LEMMA DioTimerCounting ==
  ASSUME NEW n, NodeInv(n), Counted(n), NEW m \in handle_dio_timer(n)
  PROVE  Counting(m, n)
<1> DEFINE o == [n EXCEPT !.dio_fresh = FALSE]
           p == [o EXCEPT !.last_advertised_rank = n.rank]
<1>1. NodeInv(o) /\ Even(o, n)
  BY DEF NodeInv, NodeState, Even
<1>2. m = o \/ m \in rpl_icmp6_dio_output(p, All)
  BY DEF handle_dio_timer
<1> HIDE DEF o
<1>3. n.rank \in Rank
  BY DEF NodeInv, NodeState
<1>4. NodeInv(p) /\ Even(p, o)
  BY <1>1, <1>3 DEF NodeInv, NodeState, Even
<1> HIDE DEF p
<1>5. Even(p, n) /\ Numbered(p)
  BY <1>1, <1>4, EvenKeeps DEF Even, Counted
<1>6. CASE m = o
  BY <1>1, <1>6, EvenCounting DEF NodeInv
<1>7. CASE m \in rpl_icmp6_dio_output(p, All)
  BY <1>4, <1>5, <1>7, DioOutputCounting, EvenThenCounting
<1> QED BY <1>2, <1>6, <1>7

LEMMA UnicastDioTimerCounting ==
  ASSUME NEW n, NodeInv(n), Counted(n), NEW to \in Node, NEW m \in handle_unicast_dio_timer(n, to)
  PROVE  Counting(m, n)
<1> DEFINE o == [n EXCEPT !.unicast_dio = FALSE]
<1>1. NodeInv(o) /\ Even(o, n)
  BY DEF NodeInv, NodeState, Even
<1>2. m \in rpl_icmp6_dio_output(o, to)
  BY DEF handle_unicast_dio_timer
<1> HIDE DEF o
<1>3. Numbered(o)
  BY <1>1, EvenKeeps DEF Counted
<1> QED BY <1>1, <1>2, <1>3, DioOutputCounting, EvenThenCounting

LEMMA DisTimerCounting ==
  ASSUME NEW n, NodeInv(n), Counted(n), NEW m \in handle_dis_timer(n)
  PROVE  Counting(m, n)
<1>1. CASE m = [n EXCEPT !.periodic_dis = FALSE]
  <2>1. Even(m, n)
    BY <1>1 DEF NodeInv, NodeState, Even
  <2> QED BY <2>1, EvenCounting DEF NodeInv
<1>2. CASE \E o \in rpl_icmp6_dis_output(n, All) : m = rpl_timers_schedule_periodic_dis(o)
  <2>1. PICK o \in rpl_icmp6_dis_output(n, All) : m = rpl_timers_schedule_periodic_dis(o)
    BY <1>2
  <2>2. o \in NodeState /\ Counting(o, n)
    BY DisOutput, DisOutputCounting DEF NodeInv, Counted
  <2>3. Even(m, o)
    BY <2>1, <2>2 DEF rpl_timers_schedule_periodic_dis, NodeState, Even
  <2> QED BY <2>2, <2>3, CountingThenEven
<1> QED BY <1>1, <1>2 DEF handle_dis_timer

LEMMA SendNewDaoCounting ==
  ASSUME NEW n, NodeInv(n), Counted(n), n.dao_timer # "off", NEW m \in send_new_dao(n)
  PROVE  Counting(m, n)
<1> DEFINE o == [n EXCEPT !.dao_timer = "resend", !.dao_transmissions = 1,
                          !.dao_last_seqno = Increment(n.dao_last_seqno)]
<1>1. /\ Increment(n.dao_last_seqno) \in Seqno /\ Increment(n.dao_last_seqno) \in Numbers
      /\ Increment(n.dao_last_seqno) # SeqnoInit
  BY NumbersGrow DEF Counted, Numbered
<1>0. n.used
  BY DEF Counted, Numbered
<1>2. /\ NodeInv(o) /\ o.used /\ o.id = n.id /\ o.version = n.version
      /\ o.preferred_parent = n.preferred_parent
      /\ o.rank = n.rank /\ o.lowest_rank = n.lowest_rank
      /\ o.dao_last_seqno = Increment(n.dao_last_seqno) /\ o.sent = n.sent
  BY <1>0, <1>1, FieldNames DEF NodeInv, NodeState
<1>3. m \in rpl_icmp6_dao_output(o, 1)
  BY DEF send_new_dao
<1> HIDE DEF o
<1>4. Numbered(o)
  BY <1>1, <1>2 DEF Counted, Numbered
<1>5. Counting(m, o)
  BY <1>1, <1>2, <1>3, <1>4, DaoOutputCounting
<1> QED BY <1>2, <1>5 DEF Counting, Lowered

LEMMA ResendDaoCounting ==
  ASSUME NEW n, NodeInv(n), Counted(n), n.dao_timer = "resend", NEW m \in resend_dao(n)
  PROVE  Counting(m, n)
<1> DEFINE count == n.dao_transmissions + 1
           o == [n EXCEPT !.dao_transmissions = count, !.dao_timer = "off"]
<1>0. n \in NodeState /\ count \in Nat /\ n.used /\ n.dao_last_seqno # SeqnoInit
  BY DEF NodeInv, NodeState, Counted, Numbered
<1> HIDE DEF count
<1>1. /\ NodeInv(o) /\ o.used /\ o.id = n.id /\ o.version = n.version
      /\ o.preferred_parent = n.preferred_parent
      /\ o.rank = n.rank /\ o.lowest_rank = n.lowest_rank
      /\ o.dao_last_seqno = n.dao_last_seqno /\ o.sent = n.sent /\ o.dao_timer = "off"
  BY <1>0, FieldNames DEF NodeInv, NodeState
<1>2. PICK p \in rpl_icmp6_dao_output(o, 1) :
        m \in {[p EXCEPT !.dao_timer = "resend"], rpl_local_repair(p)}
  BY DEF resend_dao, count
<1> HIDE DEF o
<1>3. Numbered(o)
  BY <1>0, <1>1 DEF Counted, Numbered
<1>4. Counting(p, o) /\ p.dao_last_seqno # SeqnoInit
  BY <1>0, <1>1, <1>2, <1>3, DaoOutputCounting
<1>5. p \in NodeState /\ p.used
  BY <1>1, <1>2, DaoOutput DEF NodeInv, SameMembership
<1>6. Counting(p, n)
  BY <1>1, <1>4 DEF Counting, Lowered
<1>7. CASE m = [p EXCEPT !.dao_timer = "resend"]
  <2>1. /\ m.id = p.id /\ m.used = p.used /\ m.version = p.version
        /\ m.preferred_parent = p.preferred_parent
        /\ m.rank = p.rank /\ m.lowest_rank = p.lowest_rank
        /\ m.dao_last_seqno = p.dao_last_seqno /\ m.sent = p.sent
    BY <1>5, <1>7 DEF NodeState
  <2>2. Numbered(m)
    BY <1>4, <1>5, <2>1 DEF Counting, Counted, Numbered
  <2> QED BY <1>6, <2>1, <2>2 DEF Counting, Counted, RankWithin, Lowered
<1>8. CASE m = rpl_local_repair(p)
  <2>1. Numbered(m) /\ m.preferred_parent = NoNode
    BY <1>4, <1>5, <1>8, LocalRepairCounting DEF Counting, Counted
  <2> QED BY <2>1, OrphanCounting
<1> QED BY <1>2, <1>7, <1>8
------------------------------------------------------------------------------
(* Incoming DIO *)

(* The functions that may start the numbers again, with the DAO timer off,  *)
(* and leave no parent.                                                     *)
JoinNumbers(m, n) ==
  /\ m \in NodeState /\ m.preferred_parent = NoNode /\ Numbered(m)
  /\ m.dao_timer = n.dao_timer

LEMMA ProcessDioInitDagNumbers ==
  ASSUME NEW n \in NodeState, Numbered(n), n.dao_timer = "off", ~n.leave,
         n.preferred_parent = NoNode, NEW dio \in Dio, NEW m, m = process_dio_init_dag(n, dio)
  PROVE  JoinNumbers(m, n)
<1>0. dio.dag \in Node /\ dio.mop \in Mop /\ dio.version \in Seqno
  BY DEF Dio
<1>1. CASE dio.mop = "STORING"
  BY <1>1 DEF process_dio_init_dag, JoinNumbers
<1>2. CASE dio.mop # "STORING" /\ ~dio.supported
  <2>1. m = zeroed(n)
    BY <1>2 DEF process_dio_init_dag
  <2>2. m \in NodeState
    BY <2>1, Zeroed
  <2>3. /\ m.dao_last_seqno = 0 /\ m.dao_timer = n.dao_timer /\ m.sent = n.sent
        /\ m.preferred_parent = NoNode
    BY <2>1 DEF zeroed, NodeState
  <2> QED BY <2>2, <2>3, NumbersGrow, FieldValues DEF JoinNumbers, Numbered
<1>3. CASE dio.mop # "STORING" /\ dio.supported
  <2> DEFINE o == init_dag(n, dio.dag)
             p == [o EXCEPT !.mop = dio.mop, !.version = dio.version]
             q == rpl_timers_dio_reset(p)
  <2>1. /\ o \in NodeState /\ o.preferred_parent = NoNode
        /\ o.used /\ o.dao_last_seqno = SeqnoInit
        /\ o.dao_timer = n.dao_timer /\ o.sent = n.sent
    BY <1>0, InitDag, InitDagNumbers
  <2>2. m = [q EXCEPT !.leave = TRUE]
    BY <1>3 DEF process_dio_init_dag, init_dag_from_dio, rpl_timers_schedule_leaving
  <2> HIDE DEF o
  <2>3. /\ p \in NodeState /\ p.preferred_parent = NoNode
        /\ p.used /\ p.dao_last_seqno = SeqnoInit
        /\ p.dao_timer = n.dao_timer /\ p.sent = n.sent
    BY <1>0, <2>1 DEF NodeState
  <2> HIDE DEF p
  <2>4. Even(q, p)
    BY <2>3, ResetIsEven
  <2> HIDE DEF q
  <2>5. Even(m, q)
    BY <2>2, <2>4 DEF Even, NodeState
  <2>6. Numbered(p)
    BY <2>3, NumbersGrow DEF Numbered
  <2>7. Numbered(m)
    BY <2>4, <2>5, <2>6, EvenKeeps
  <2> QED BY <2>3, <2>4, <2>5, <2>7 DEF JoinNumbers, Even
<1> QED BY <1>1, <1>2, <1>3

(* What may have become of a node before it looks for a parent again: it has*)
(* what it had, or moved to another version, or it cannot find a parent.    *)
Onward(m, n) ==
  /\ m \in NodeState /\ m.id = n.id /\ Numbered(m)
  /\ \/ /\ m.version = n.version /\ m.preferred_parent = n.preferred_parent
        /\ m.lowest_rank = n.lowest_rank
     \/ m.version # n.version
     \/ m.preferred_parent = NoNode /\ (m.used => m.dag_id = m.id)

LEMMA OnwardThenUpdate ==
  ASSUME NEW n, NEW o, NodeInv(o), Onward(o, n), NEW m \in rpl_dag_update_state(o)
  PROVE  Counting(m, n)
<1>1. /\ Counting(m, o)
      /\ o.preferred_parent = NoNode /\ (o.used => o.dag_id = o.id)
           => m.preferred_parent = NoNode
  BY UpdateCounting DEF Onward
<1>2. m.version = o.version
  BY UpdateStateInv DEF SameMembership
<1>3. CASE /\ o.version = n.version /\ o.preferred_parent = n.preferred_parent
           /\ o.lowest_rank = n.lowest_rank
  BY <1>1, <1>3 DEF Onward, Counting, Lowered
<1>4. CASE o.version # n.version
  BY <1>1, <1>2, <1>4 DEF Counting, Lowered
<1>5. CASE o.preferred_parent = NoNode /\ (o.used => o.dag_id = o.id)
  BY <1>1, <1>5, OrphanCounting DEF Counting, Counted
<1> QED BY <1>3, <1>4, <1>5 DEF Onward

(* A newer version is one that the node was not in; a DIO in a mode of      *)
(* operation that is not supported takes the parent and stays.              *)
LEMMA GlobalRepairNonRootOnward ==
  ASSUME NEW n, NodeInv(n), Numbered(n), n.used, NEW dio \in Dio, dio.mop # "STORING",
         dio.version # n.version, NEW m, m = global_repair_non_root(n, dio)
  PROVE  Onward(m, n)
<1>1. CASE rpl_dag_root_is_root(n)
  BY <1>1 DEF global_repair_non_root, Onward, NodeInv
<1>2. CASE ~rpl_dag_root_is_root(n)
  <2> DEFINE s == rpl_timers_stop_dag_timers(n)
             o == rpl_neighbor_set_preferred_parent(s, NoNode)
             p == process_dio_init_dag(o, dio)
  <2>1. /\ s \in NodeState /\ s.id = n.id /\ s.used = n.used /\ ~s.leave
        /\ s.dao_last_seqno = n.dao_last_seqno /\ s.sent = n.sent /\ s.dao_timer = "off"
    BY FieldNames DEF rpl_timers_stop_dag_timers, NodeInv, NodeState
  <2> HIDE DEF s
  <2>2. /\ o \in NodeState /\ o.id = s.id /\ o.used = s.used /\ ~o.leave
        /\ o.preferred_parent = NoNode
        /\ o.dao_last_seqno = s.dao_last_seqno /\ o.sent = s.sent /\ o.dao_timer = "off"
    BY <2>1 DEF rpl_neighbor_set_preferred_parent, NodeState
  <2> HIDE DEF o
  <2>3. Numbered(o)
    BY <2>1, <2>2 DEF Numbered
  <2>4. JoinNumbers(p, o)
    BY <2>2, <2>3, ProcessDioInitDagNumbers
  <2>5. p.id = o.id /\ (p.used => p.version = dio.version)
    <3>1. CASE dio.supported
      BY <2>2, <3>1, JoinFromDio DEF Joinable
    <3>2. CASE ~dio.supported
      <4>1. p = zeroed(o)
        BY <3>2 DEF process_dio_init_dag
      <4> QED BY <2>2, <4>1, Zeroed
    <3> QED BY <3>1, <3>2
  <2>6. m = rpl_local_repair(p)
    BY <1>2 DEF global_repair_non_root, o, s
  <2> HIDE DEF p
  <2>7. Numbered(m) /\ m.preferred_parent = NoNode
    BY <2>4, <2>6, LocalRepairCounting DEF JoinNumbers, Counting, Counted
  <2>8. CASE ~p.used
    <3>1. m = p
      BY <2>6, <2>8 DEF rpl_local_repair
    <3> QED BY <2>1, <2>2, <2>4, <2>5, <2>8, <3>1 DEF Onward, JoinNumbers
  <2>9. CASE p.used
    <3>1. m \in NodeState /\ SameMembership(m, p)
      BY <2>4, <2>6, <2>9, LocalRepairNumbers, LocalRepairEffect DEF JoinNumbers
    <3> QED BY <2>1, <2>2, <2>5, <2>7, <2>9, <3>1 DEF Onward, SameMembership
  <2> QED BY <2>8, <2>9
<1> QED BY <1>1, <1>2

LEMMA HearVersionOnward ==
  ASSUME NEW n, NodeInv(n), Numbered(n), n.used, NEW dio \in Dio, dio.mop # "STORING",
         NEW m, m = hear_version(n, dio)
  PROVE  Onward(m, n)
<1>0. n \in NodeState /\ dio.version \in Seqno /\ n.version \in Seqno
  BY DEF NodeInv, NodeState, Dio
<1>1. CASE ~Greater(dio.version, n.version)
  BY <1>0, <1>1 DEF hear_version, Onward
<1>2. CASE Greater(dio.version, n.version) /\ n.rank = RootRank
  <2> DEFINE o == [n EXCEPT !.version = dio.version]
  <2>1. NodeInv(o) /\ o.id = n.id /\ o.used /\ o.dag_id = n.dag_id
    BY <1>0 DEF NodeInv, NodeState
  <2>2. /\ Numbered(o) /\ o.version # n.version
        /\ o.preferred_parent = n.preferred_parent
    BY <1>0, <1>2, NewerIsAsymmetric DEF NodeState, Numbered
  <2>3. m = rpl_global_repair(o)
    BY <1>2 DEF hear_version
  <2> HIDE DEF o
  <2>4. CASE ~rpl_dag_root_is_root(o)
    BY <1>0, <2>1, <2>2, <2>3, <2>4 DEF rpl_global_repair, Onward, NodeInv
  <2>5. CASE rpl_dag_root_is_root(o)
    <3> DEFINE q == [o EXCEPT !.version = Increment(o.version), !.dtsn_out = SeqnoInit]
    <3>1. Increment(o.version) \in Seqno
      BY <2>1, IncrementType DEF NodeInv, NodeState
    <3>2. /\ q \in NodeState /\ q.id = n.id /\ q.used /\ q.dag_id = q.id /\ Numbered(q)
      BY <2>1, <2>2, <2>5, <3>1, FieldValues DEF NodeInv, NodeState, Numbered, rpl_dag_root_is_root
    <3>3. m = rpl_local_repair(q)
      BY <2>3, <2>5 DEF rpl_global_repair
    <3> HIDE DEF q
    <3>4. Numbered(m) /\ m.preferred_parent = NoNode
      BY <3>2, <3>3, LocalRepairCounting DEF Counting, Counted
    <3>5. m \in NodeState /\ SameMembership(m, q)
      BY <3>2, <3>3, LocalRepairNumbers, LocalRepairEffect
    <3> QED BY <3>2, <3>4, <3>5 DEF Onward, SameMembership
  <2> QED BY <2>4, <2>5
<1>3. CASE Greater(dio.version, n.version) /\ n.rank # RootRank
  <2>1. m = global_repair_non_root(n, dio) /\ dio.version # n.version
    BY <1>0, <1>3, NewerIsAsymmetric DEF hear_version
  <2> QED BY <2>1, GlobalRepairNonRootOnward
<1> QED BY <1>1, <1>2, <1>3

(* Entering the sender changes none of the numbers. *)
LEMMA LearnOnward ==
  ASSUME NEW n, NEW s \in NodeState, Onward(s, n), NEW from \in Node, NEW dio \in Dio,
         NEW from_parent \in BOOLEAN, NEW last_dtsn,
         NEW m, m = propagate_dtsn(refresh_lifetime(update_nbr_from_dio(s, from, dio), from_parent),
                                   from_parent, dio.dtsn, last_dtsn)
  PROVE  Onward(m, n)
<1> DEFINE o == update_nbr_from_dio(s, from, dio)
           p == refresh_lifetime(o, from_parent)
           q == [p EXCEPT !.dtsn_out = Increment(p.dtsn_out)]
           r == rpl_timers_schedule_dao(q)
           Alike(a, b) == /\ a \in NodeState /\ SameMembership(a, b)
                          /\ a.preferred_parent = b.preferred_parent
                          /\ a.lowest_rank = b.lowest_rank
                          /\ a.dao_last_seqno = b.dao_last_seqno /\ a.sent = b.sent
<1>1. dio.rank \in Rank /\ dio.dtsn \in Seqno
  BY DEF Dio
<1>2. Alike(o, s) /\ o.dao_timer = s.dao_timer
  <2>1. o \in NodeState
    BY <1>1 DEF update_nbr_from_dio, NodeState
  <2> QED BY <2>1 DEF update_nbr_from_dio, NodeState, SameMembership
<1>3. m \in {p, r}
  BY DEF propagate_dtsn
<1> HIDE DEF o
<1>4. Alike(p, o) /\ p.dao_timer = o.dao_timer
  BY <1>2, FieldValues DEF refresh_lifetime, NodeState, SameMembership
<1> HIDE DEF p
<1>5. Increment(p.dtsn_out) \in Seqno
  BY <1>4, IncrementType DEF NodeState
<1>6. Alike(q, p) /\ q.dao_timer = p.dao_timer
  BY <1>4, <1>5 DEF NodeState, SameMembership
<1> HIDE DEF q
<1>7. Alike(r, q) /\ r.dao_timer \in {"new", q.dao_timer} /\ (~q.used => r.dao_timer = q.dao_timer)
  BY <1>6, FieldNames DEF rpl_timers_schedule_dao, NodeState, SameMembership
<1> HIDE DEF r
<1>8. Alike(m, s) /\ m.dao_timer \in {"new", s.dao_timer} /\ (~s.used => m.dao_timer = s.dao_timer)
  BY <1>2, <1>3, <1>4, <1>6, <1>7 DEF SameMembership
<1>9. Numbered(m)
  BY <1>8 DEF Onward, Numbered, SameMembership
<1> QED BY <1>8, <1>9 DEF Onward, SameMembership

LEMMA ProcessDioFromCurrentDagOnward ==
  ASSUME NEW n, NodeInv(n), Numbered(n), n.used, NEW from \in Node, NEW dio \in Dio,
         dio.dag = n.dag_id, dio.mop # "STORING", NEW has_room \in BOOLEAN,
         NEW m, m = process_dio_from_current_dag(n, from, dio, has_room)
  PROVE  Onward(m, n)
<1> DEFINE o == hear_version(n, dio)
           from_parent == from \in o.nbrs /\ from = o.preferred_parent
           learnt == propagate_dtsn(
                       refresh_lifetime(update_nbr_from_dio(o, from, dio), from_parent),
                       from_parent, dio.dtsn, o.nbr_dtsn[from])
<1>1. Onward(o, n) /\ o \in NodeState
  BY HearVersionOnward DEF Onward
<1>2. m \in {n, rpl_timers_dio_reset(n), o, learnt}
  BY DEF process_dio_from_current_dag
<1> HIDE DEF o
<1>3. from_parent \in BOOLEAN
  OBVIOUS
<1> HIDE DEF from_parent
<1>4. Onward(learnt, n)
  BY <1>1, <1>3, LearnOnward
<1> HIDE DEF learnt
<1>5. Onward(n, n)
  BY DEF Onward, NodeInv
<1>6. Onward(rpl_timers_dio_reset(n), n)
  <2>1. Even(rpl_timers_dio_reset(n), n)
    BY ResetIsEven DEF NodeInv
  <2> QED BY <2>1, EvenKeeps DEF Even, Onward
<1> QED BY <1>1, <1>2, <1>4, <1>5, <1>6

LEMMA ProcessDioCounting ==
  ASSUME NEW n, NodeInv(n), Counted(n), NEW from \in Node, NEW dio \in Dio,
         dio.mop # "STORING", NEW has_room \in BOOLEAN,
         dio.dag = n.id => rpl_dag_root_is_root(n),
         NEW m \in rpl_process_dio(n, from, dio, has_room)
  PROVE  Counting(m, n)
<1> DEFINE o == IF n.used THEN n ELSE process_dio_init_dag(n, dio)
           p == process_dio_from_current_dag(o, from, dio, has_room)
<1>0. n \in NodeState /\ (~n.used => ~n.leave /\ n.preferred_parent = NoNode) /\ Numbered(n)
  BY DEF NodeInv, Counted
<1>1. CASE n.used /\ n.dag_id # dio.dag
  <2>1. m = n
    BY <1>1 DEF rpl_process_dio
  <2> QED BY <1>0, <2>1, EvenCounting DEF Even
<1>2. CASE n.used /\ n.dag_id = dio.dag
  <2>1. m \in rpl_dag_update_state(p)
    BY <1>2 DEF rpl_process_dio
  <2>2. NodeInv(p) /\ Onward(p, n)
    BY <1>0, <1>2, ProcessDioFromCurrentDag, ProcessDioFromCurrentDagOnward
  <2> HIDE DEF p
  <2> QED BY <2>1, <2>2, OnwardThenUpdate
<1>3. CASE ~n.used
  <2>1. o = process_dio_init_dag(n, dio) /\ dio.dag # n.id
    BY <1>3 DEF rpl_dag_root_is_root
  <2>2. IF o.used /\ o.dag_id = dio.dag THEN m \in rpl_dag_update_state(p) ELSE m = o
    BY DEF rpl_process_dio
  <2> HIDE DEF o
  <2>3. NodeInv(o) /\ JoinNumbers(o, n)
    BY <1>0, <1>3, <2>1, ProcessDioInitDag, ProcessDioInitDagNumbers DEF NodeInv, Numbered
  <2>4. CASE o.used /\ o.dag_id = dio.dag
    <3>1. NodeInv(p) /\ Onward(p, o)
      BY <2>3, <2>4, ProcessDioFromCurrentDag, ProcessDioFromCurrentDagOnward DEF JoinNumbers
    <3> HIDE DEF p
    <3>2. Counting(m, o)
      BY <2>2, <2>4, <3>1, OnwardThenUpdate
    <3> QED BY <1>0, <1>3, <3>2 DEF Counting, Lowered
  <2>5. CASE ~(o.used /\ o.dag_id = dio.dag)
    BY <2>2, <2>3, <2>5, OrphanCounting DEF JoinNumbers
  <2> QED BY <2>4, <2>5
<1> QED BY <1>1, <1>2, <1>3
------------------------------------------------------------------------------
(* What the root is told *)

(* A DAO is to be sent soon, or none is called for. *)
Reporting(n) ==
  \/ n.preferred_parent = NoNode \/ n.mop # "NON_STORING"
  \/ n.dao_timer \in {"new", "resend"}

DaosSent(n) == {msg \in n.sent : msg.type = "DAO"}

(* The functions that change nothing the root has to hear of. *)
Quiet(m, n) ==
  /\ m.preferred_parent = n.preferred_parent /\ m.mop = n.mop
  /\ m.dao_timer = n.dao_timer /\ DaosSent(m) = DaosSent(n)

(* A parent that changes is followed by a DAO. *)
Reports(m, n) == Reporting(m) \/ Quiet(m, n)

LEMMA ReportsTransitive ==
  ASSUME NEW n, NEW o, Reports(o, n), NEW m, Reports(m, o)
  PROVE  Reports(m, n)
BY DEF Reports, Reporting, Quiet

LEMMA ResetIsQuiet ==
  ASSUME NEW n \in NodeState
  PROVE  Quiet(rpl_timers_dio_reset(n), n)
<1>1. /\ Carried(rpl_timers_dio_reset(n), n) /\ Unmoved(rpl_timers_dio_reset(n), n)
  BY DioReset
<1> QED BY <1>1 DEF Carried, Unmoved, SameMembership, Quiet, DaosSent

LEMMA SentIsQuiet ==
  ASSUME NEW n \in NodeState, NEW msg \in Message, msg.type # "DAO", NEW m, m = Send(n, msg)
  PROVE  Quiet(m, n)
<1>1. Unmoved(m, n) /\ m.sent = n.sent \cup {msg}
  BY Sent
<1>2. DaosSent(m) = DaosSent(n)
  BY <1>1 DEF DaosSent
<1> QED BY <1>1, <1>2 DEF Unmoved, SameMembership, Quiet

(* Every switch found while the state is brought up to date arms a DAO. *)
LEMMA MemberReports ==
  ASSUME NEW n, NodeInv(n), NEW s, s = [n EXCEPT !.state_update = FALSE], n.used,
         NEW cost \in [s.nbrs -> LinkCosts], NEW p \in reselect(s, cost),
         NEW m, m = after_reselect(p, n.preferred_parent)
  PROVE  Reports(m, n)
<1>1. /\ Carried(s, n) /\ s.dao_timer = n.dao_timer
      /\ s.preferred_parent = n.preferred_parent
  BY DEF NodeInv, Carried, NodeState, SameMembership
<1>2. Selected(p, s)
  BY <1>1, ReselectSelected DEF Carried
<1> DEFINE q == track_advertised_rank(track_lowest_rank(p, n.preferred_parent))
<1>3. Unmoved(q, p) /\ Carried(q, p)
  BY <1>2, TrackRankUnmoved DEF Selected, Carried
<1>4. m = process_parent_switch(q, n.preferred_parent)
  BY DEF after_reselect
<1> HIDE DEF q
<1>5. Switched(m, q, n.preferred_parent)
  BY <1>3, <1>4, SwitchOutcome DEF Unmoved
<1>6. Carried(m, n) /\ q.used /\ q.mop = n.mop
  BY <1>1, <1>2, <1>3, <1>5 DEF Selected, Switched, Handled, Carried, SameMembership
<1>7. m.preferred_parent = q.preferred_parent /\ q.preferred_parent = p.preferred_parent
  BY <1>3, <1>5 DEF Unmoved, Switched, Handled
<1>8. CASE q.unprocessed_parent_switch
  BY <1>5, <1>6, <1>7, <1>8
     DEF Switched, Reports, Reporting, Carried, SameMembership
<1>9. CASE ~q.unprocessed_parent_switch
  <2>1. m.dao_timer = n.dao_timer /\ p.preferred_parent = n.preferred_parent
    BY <1>1, <1>2, <1>3, <1>5, <1>9 DEF Switched, Selected, Unmoved
  <2> QED BY <1>6, <1>7, <2>1 DEF Reports, Quiet, DaosSent, Carried, SameMembership
<1> QED BY <1>8, <1>9

LEMMA UpdateReports ==
  ASSUME NEW n, NodeInv(n), NEW m \in rpl_dag_update_state(n)
  PROVE  Reports(m, n)
<1> DEFINE s == [n EXCEPT !.state_update = FALSE]
<1>0. n \in NodeState /\ n.nbrs = s.nbrs
  BY DEF NodeInv, NodeState
<1>1. CASE ~n.used /\ m = n
  BY <1>1 DEF Reports, Quiet
<1>2. CASE n.used /\ n.state = "POISONING" /\ m = poison(s)
  <2>1. s \in NodeState
    BY <1>0 DEF NodeState
  <2> HIDE DEF s
  <2>2. m.preferred_parent = NoNode
    BY <1>2, <2>1, Poison
  <2> QED BY <2>2 DEF Reports, Reporting
<1>3. CASE n.used /\ n.state # "POISONING" /\ n.dag_id = n.id /\ m = s
  BY <1>0, <1>3 DEF NodeState, Reports, Quiet, DaosSent
<1>4. CASE /\ n.used /\ n.state # "POISONING" /\ n.dag_id # n.id
           /\ \E cost \in [n.nbrs -> LinkCosts] : \E p \in reselect(s, cost) :
                m = after_reselect(p, n.preferred_parent)
  <2> HIDE DEF s
  <2>1. PICK cost \in [s.nbrs -> LinkCosts] : \E p \in reselect(s, cost) :
          m = after_reselect(p, n.preferred_parent)
    BY <1>0, <1>4
  <2>2. PICK p \in reselect(s, cost) : m = after_reselect(p, n.preferred_parent)
    BY <2>1
  <2> QED BY <1>4, <2>2, MemberReports DEF s
<1> QED
  BY <1>1, <1>2, <1>3, <1>4 DEF rpl_dag_update_state, rpl_dag_root_is_root

LEMMA DioOutputReports ==
  ASSUME NEW n, NodeInv(n), NEW to \in Node \cup {All}, NEW m \in rpl_icmp6_dio_output(n, to)
  PROVE  Reports(m, n)
<1> DEFINE msg(o) == [type |-> "DIO", to |-> to, rank |-> o.rank,
                      version |-> advertised_version(o), dtsn |-> o.dtsn_out]
<1>1. PICK o \in rpl_dag_update_state(n) : m = Send(o, msg(o))
  BY DEF rpl_icmp6_dio_output
<1>2. o \in NodeState
  BY UpdateStateInv DEF NodeInv
<1>3. o.rank \in Rank /\ o.dtsn_out \in Seqno /\ advertised_version(o) \in Seqno
  BY <1>2, AdvertisedVersion DEF NodeState
<1>4. msg(o) \in Message /\ msg(o).type # "DAO"
  BY <1>3 DEF Message
<1> HIDE DEF msg
<1>5. Quiet(m, o)
  BY <1>1, <1>2, <1>4, SentIsQuiet
<1> QED BY <1>5, UpdateReports, ReportsTransitive DEF Reports

LEMMA DisOutputReports ==
  ASSUME NEW n, NodeInv(n), NEW to \in Node \cup {All}, NEW m \in rpl_icmp6_dis_output(n, to)
  PROVE  Reports(m, n)
<1> DEFINE msg == [type |-> "DIS", to |-> to]
<1>1. PICK o \in rpl_dag_update_state(n) : m = Send(o, msg)
  BY DEF rpl_icmp6_dis_output
<1>2. o \in NodeState /\ msg \in Message /\ msg.type # "DAO"
  BY UpdateStateInv DEF NodeInv, Message
<1> HIDE DEF msg
<1>3. Quiet(m, o)
  BY <1>1, <1>2, SentIsQuiet
<1> QED BY <1>3, UpdateReports, ReportsTransitive DEF Reports

(* The update inside a DAO may switch the parent: the next one tells. *)
LEMMA DaoOutputReports ==
  ASSUME NEW n, NodeInv(n), n.dao_timer = "resend",
         NEW lifetime \in {0, 1}, NEW m \in rpl_icmp6_dao_output(n, lifetime)
  PROVE  Reporting(m)
<1> DEFINE msg(o) == [type |-> "DAO", parent |-> n.preferred_parent,
                      seqno |-> o.dao_last_seqno, lifetime |-> lifetime]
<1>1. PICK o \in rpl_dag_update_state(n) :
        m = o \/ (m = Send(o, msg(o)) /\ n.preferred_parent # NoNode)
  BY DEF rpl_icmp6_dao_output
<1>2. o \in NodeState
  BY UpdateStateInv DEF NodeInv
<1>3. Reporting(o)
  BY UpdateReports DEF Reports, Reporting, Quiet
<1>4. CASE m = Send(o, msg(o)) /\ n.preferred_parent # NoNode
  <2> HIDE DEF msg
  <2>1. m.preferred_parent = o.preferred_parent /\ m.mop = o.mop /\ m.dao_timer = o.dao_timer
    BY <1>2, <1>4 DEF Send, NodeState
  <2> QED BY <1>3, <2>1 DEF Reporting
<1> QED BY <1>1, <1>3, <1>4
------------------------------------------------------------------------------
LEMMA LeaveReports ==
  ASSUME NEW n, NodeInv(n), NEW m \in rpl_dag_leave(n)
  PROVE  Reports(m, n)
<1>1. NodeInv(m) /\ ~m.used
  BY LeaveInv
<1> QED BY <1>1 DEF NodeInv, Reports, Reporting

LEMMA LocalRepairReports ==
  ASSUME NEW n \in NodeState, NEW m, m = rpl_local_repair(n)
  PROVE  /\ Reports(m, n)
         /\ n.preferred_parent = NoNode => m.preferred_parent = NoNode
<1>1. CASE ~n.used
  BY <1>1 DEF rpl_local_repair, Reports, Quiet
<1>2. CASE n.used
  BY <1>2, LocalRepairNumbers DEF Reports, Reporting
<1> QED BY <1>1, <1>2

LEMMA GlobalRepairReports ==
  ASSUME NEW n, NodeInv(n), NEW m, m = rpl_global_repair(n)
  PROVE  Reports(m, n)
<1>1. CASE ~rpl_dag_root_is_root(n)
  BY <1>1 DEF rpl_global_repair, Reports, Quiet
<1>2. CASE rpl_dag_root_is_root(n)
  <2> DEFINE o == [n EXCEPT !.version = Increment(n.version), !.dtsn_out = SeqnoInit]
  <2>1. Increment(n.version) \in Seqno /\ SeqnoInit \in Seqno
    BY FieldValues, IncrementType DEF NodeInv, NodeState
  <2>2. o \in NodeState /\ o.used
    BY <1>2, <2>1 DEF NodeInv, NodeState, rpl_dag_root_is_root
  <2>3. m = rpl_local_repair(o)
    BY <1>2 DEF rpl_global_repair
  <2> HIDE DEF o
  <2> QED BY <2>2, <2>3, LocalRepairNumbers DEF Reports, Reporting
<1> QED BY <1>1, <1>2

LEMMA RefreshRoutesReports ==
  ASSUME NEW n, NodeInv(n), NEW m, m = rpl_refresh_routes(n)
  PROVE  Reports(m, n)
BY DEF rpl_refresh_routes, NodeInv, NodeState, Reports, Quiet, DaosSent

LEMMA PoisonReports ==
  ASSUME NEW n, NodeInv(n), NEW m, m = rpl_dag_poison_and_leave(n)
  PROVE  Quiet(m, n)
BY DEF rpl_dag_poison_and_leave, rpl_timers_schedule_state_update, NodeInv, NodeState,
       Quiet, DaosSent
------------------------------------------------------------------------------
(* Other input *)

LEMMA ProcessDisReports ==
  ASSUME NEW n, NodeInv(n), NEW from \in Node,
         NEW is_multicast \in BOOLEAN, NEW has_room \in BOOLEAN,
         NEW m \in rpl_process_dis(n, from, is_multicast, has_room)
  PROVE  Reports(m, n)
<1>1. CASE m = n
  BY <1>1 DEF Reports, Quiet
<1>2. CASE m = rpl_timers_dio_reset(n)
  BY <1>2, ResetIsQuiet DEF NodeInv, Reports
<1>3. CASE m \in rpl_icmp6_dio_output(n, from)
  BY <1>3, DioOutputReports
<1> QED BY <1>1, <1>2, <1>3 DEF rpl_process_dis

LEMMA ProcessHbhReports ==
  ASSUME NEW n, NodeInv(n), NEW sender \in n.nbrs \cup {NoNode}, NEW sender_rank \in Rank,
         NEW loop_detected \in BOOLEAN, NEW rank_error_signaled \in BOOLEAN,
         NEW m \in rpl_process_hbh(n, sender, sender_rank, loop_detected, rank_error_signaled)
  PROVE  Reports(m, n)
<1> DEFINE warned == IF loop_detected /\ rank_error_signaled /\ LoopErrorDrop
                       THEN rpl_timers_dio_reset(n) ELSE n
           replying == IF loop_detected THEN rpl_timers_schedule_unicast_dio(warned) ELSE warned
           o == [replying EXCEPT !.nbr_rank[sender] = sender_rank]
<1>0. n \in NodeState
  BY DEF NodeInv
<1>1. NodeInv(warned) /\ Quiet(warned, n)
  <2>1. NodeInv(rpl_timers_dio_reset(n)) /\ Quiet(rpl_timers_dio_reset(n), n)
    BY <1>0, Timers, TimersInv, ResetIsQuiet
  <2>2. Quiet(n, n)
    BY DEF Quiet
  <2> QED BY <2>1, <2>2
<1>2. m = replying \/ (sender # NoNode /\ m \in rpl_dag_update_state(o))
  BY DEF rpl_process_hbh
<1> HIDE DEF warned
<1>3. NodeInv(replying)
  BY <1>1, Timers, TimersInv DEF NodeInv, SameMembership
<1>4. Quiet(replying, warned)
  BY <1>1 DEF rpl_timers_schedule_unicast_dio, Quiet, DaosSent, NodeInv, NodeState
<1> HIDE DEF replying
<1>5. Quiet(replying, n)
  BY <1>1, <1>4 DEF Quiet
<1>6. CASE m = replying
  BY <1>5, <1>6 DEF Reports
<1>7. CASE sender # NoNode /\ m \in rpl_dag_update_state(o)
  <2>1. NodeInv(o) /\ Quiet(o, replying)
    BY <1>3, <1>7 DEF NodeInv, NodeState, Quiet, DaosSent
  <2> HIDE DEF o
  <2>2. Reports(o, n)
    BY <1>5, <2>1 DEF Reports, Quiet
  <2> QED BY <1>7, <2>1, <2>2, UpdateReports, ReportsTransitive
<1> QED BY <1>2, <1>6, <1>7

LEMMA PeriodicReports ==
  ASSUME NEW n, NodeInv(n), NEW m \in rpl_dag_periodic(n)
  PROVE  Reports(m, n)
<1> DEFINE left == IF n.lifetime > 1 THEN n.lifetime - 1 ELSE 0
           o == [n EXCEPT !.lifetime = left]
<1>0. n \in NodeState
  BY DEF NodeInv
<1>1. left \in Lifetime
  BY <1>0, BoundsAssumption DEF NodeState, Lifetime, InfiniteLifetime
<1>2. \/ m = n
      \/ m = rpl_dag_poison_and_leave(o)
      \/ n.preferred_parent # NoNode /\ m \in rpl_icmp6_dis_output(o, n.preferred_parent)
      \/ m = o
  BY DEF rpl_dag_periodic
<1> HIDE DEF left
<1>3. NodeInv(o) /\ Quiet(o, n)
  BY <1>0, <1>1 DEF NodeInv, NodeState, Quiet, DaosSent
<1> HIDE DEF o
<1>4. Reports(o, n)
  BY <1>3 DEF Reports
<1>5. CASE m = n \/ m = o
  BY <1>4, <1>5 DEF Reports, Quiet
<1>6. CASE m = rpl_dag_poison_and_leave(o)
  BY <1>3, <1>4, <1>6, PoisonReports, ReportsTransitive DEF Reports
<1>7. CASE n.preferred_parent # NoNode /\ m \in rpl_icmp6_dis_output(o, n.preferred_parent)
  <2>1. n.preferred_parent \in Node \cup {All}
    BY <1>0, <1>7 DEF NodeState
  <2> QED BY <1>3, <1>4, <1>7, <2>1, DisOutputReports, ReportsTransitive
<1> QED BY <1>2, <1>5, <1>6, <1>7
------------------------------------------------------------------------------
(* Timer handlers *)

LEMMA DioTimerReports ==
  ASSUME NEW n, NodeInv(n), NEW m \in handle_dio_timer(n)
  PROVE  Reports(m, n)
<1> DEFINE o == [n EXCEPT !.dio_fresh = FALSE]
           p == [o EXCEPT !.last_advertised_rank = n.rank]
<1>1. NodeInv(o) /\ Quiet(o, n)
  BY DEF NodeInv, NodeState, Quiet, DaosSent
<1>2. m = o \/ m \in rpl_icmp6_dio_output(p, All)
  BY DEF handle_dio_timer
<1> HIDE DEF o
<1>3. n.rank \in Rank
  BY DEF NodeInv, NodeState
<1>4. NodeInv(p) /\ Quiet(p, o)
  BY <1>1, <1>3 DEF NodeInv, NodeState, Quiet, DaosSent
<1> HIDE DEF p
<1>5. Reports(o, n) /\ Reports(p, n)
  BY <1>1, <1>4 DEF Reports, Quiet
<1> QED BY <1>2, <1>4, <1>5, DioOutputReports, ReportsTransitive

LEMMA UnicastDioTimerReports ==
  ASSUME NEW n, NodeInv(n), NEW to \in Node, NEW m \in handle_unicast_dio_timer(n, to)
  PROVE  Reports(m, n)
<1> DEFINE o == [n EXCEPT !.unicast_dio = FALSE]
<1>1. NodeInv(o) /\ Reports(o, n)
  BY DEF NodeInv, NodeState, Reports, Quiet, DaosSent
<1>2. m \in rpl_icmp6_dio_output(o, to)
  BY DEF handle_unicast_dio_timer
<1> HIDE DEF o
<1> QED BY <1>1, <1>2, DioOutputReports, ReportsTransitive

LEMMA DisTimerReports ==
  ASSUME NEW n, NodeInv(n), NEW m \in handle_dis_timer(n)
  PROVE  Reports(m, n)
<1>1. CASE m = [n EXCEPT !.periodic_dis = FALSE]
  BY <1>1 DEF NodeInv, NodeState, Reports, Quiet, DaosSent
<1>2. CASE \E o \in rpl_icmp6_dis_output(n, All) : m = rpl_timers_schedule_periodic_dis(o)
  <2>1. PICK o \in rpl_icmp6_dis_output(n, All) : m = rpl_timers_schedule_periodic_dis(o)
    BY <1>2
  <2>2. o \in NodeState /\ Reports(o, n)
    BY DisOutput, DisOutputReports DEF NodeInv
  <2>3. Reports(m, o)
    BY <2>1, <2>2 DEF rpl_timers_schedule_periodic_dis, NodeState, Reports, Quiet, DaosSent
  <2> QED BY <2>2, <2>3, ReportsTransitive
<1> QED BY <1>1, <1>2 DEF handle_dis_timer

LEMMA SendNewDaoReports ==
  ASSUME NEW n, NodeInv(n), NEW m \in send_new_dao(n)
  PROVE  Reporting(m)
<1> DEFINE o == [n EXCEPT !.dao_timer = "resend", !.dao_transmissions = 1,
                          !.dao_last_seqno = Increment(n.dao_last_seqno)]
<1>1. Increment(n.dao_last_seqno) \in Seqno
  BY IncrementType DEF NodeInv, NodeState
<1>2. NodeInv(o) /\ o.dao_timer = "resend"
  BY <1>1, FieldNames DEF NodeInv, NodeState
<1>3. m \in rpl_icmp6_dao_output(o, 1)
  BY DEF send_new_dao
<1> HIDE DEF o
<1> QED BY <1>2, <1>3, DaoOutputReports

LEMMA ResendDaoReports ==
  ASSUME NEW n, NodeInv(n), NEW m \in resend_dao(n)
  PROVE  Reporting(m)
<1> DEFINE count == n.dao_transmissions + 1
           o == [n EXCEPT !.dao_transmissions = count, !.dao_timer = "off"]
<1>0. count \in Nat
  BY DEF NodeInv, NodeState
<1>1. PICK p \in rpl_icmp6_dao_output(o, 1) :
        m \in {[p EXCEPT !.dao_timer = "resend"], rpl_local_repair(p)}
  BY DEF resend_dao
<1> HIDE DEF count
<1>2. NodeInv(o)
  BY <1>0, FieldNames DEF NodeInv, NodeState
<1> HIDE DEF o
<1>3. p \in NodeState /\ (~p.used => p.preferred_parent = NoNode)
  BY <1>1, <1>2, DaoOutput DEF NodeInv
<1>4. CASE m = [p EXCEPT !.dao_timer = "resend"]
  BY <1>3, <1>4 DEF NodeState, Reporting
<1>5. CASE m = rpl_local_repair(p)
  <2>1. CASE p.used
    BY <1>3, <1>5, <2>1, LocalRepairNumbers DEF Reporting
  <2>2. CASE ~p.used
    BY <1>3, <1>5, <2>2 DEF rpl_local_repair, Reporting
  <2> QED BY <2>1, <2>2
<1> QED BY <1>1, <1>4, <1>5
------------------------------------------------------------------------------
(* Incoming DIO *)

LEMMA GlobalRepairNonRootReports ==
  ASSUME NEW n, NodeInv(n), NEW dio \in Dio, NEW m, m = global_repair_non_root(n, dio)
  PROVE  Reports(m, n)
<1>1. CASE rpl_dag_root_is_root(n)
  BY <1>1 DEF global_repair_non_root, Reports, Quiet
<1>2. CASE ~rpl_dag_root_is_root(n)
  <2> DEFINE s == rpl_timers_stop_dag_timers(n)
             o == rpl_neighbor_set_preferred_parent(s, NoNode)
             p == process_dio_init_dag(o, dio)
  <2>1. s \in NodeState /\ ~s.leave
    BY StopTimers DEF NodeInv
  <2>2. m = rpl_local_repair(p)
    BY <1>2 DEF global_repair_non_root
  <2> HIDE DEF s
  <2>3. o \in NodeState /\ ~o.leave /\ o.preferred_parent = NoNode
    BY <2>1, SetParent
  <2> HIDE DEF o
  <2>4. p \in NodeState /\ p.preferred_parent = NoNode
    BY <2>3, ProcessDioInitDag
  <2> HIDE DEF p
  <2> QED BY <2>2, <2>4, LocalRepairReports DEF Reports, Reporting
<1> QED BY <1>1, <1>2

LEMMA HearVersionReports ==
  ASSUME NEW n, NodeInv(n), NEW dio \in Dio, NEW m, m = hear_version(n, dio)
  PROVE  Reports(m, n)
<1>1. CASE m = n
  BY <1>1 DEF Reports, Quiet
<1>2. CASE m = rpl_global_repair([n EXCEPT !.version = dio.version])
  <2> DEFINE o == [n EXCEPT !.version = dio.version]
  <2>1. NodeInv(o) /\ Reports(o, n)
    BY DEF NodeInv, NodeState, Dio, Reports, Quiet, DaosSent
  <2> HIDE DEF o
  <2> QED BY <1>2, <2>1, GlobalRepairReports, ReportsTransitive DEF o
<1>3. CASE m = global_repair_non_root(n, dio)
  BY <1>3, GlobalRepairNonRootReports
<1> QED BY <1>1, <1>2, <1>3 DEF hear_version

LEMMA LearnReports ==
  ASSUME NEW s \in NodeState, NEW from \in Node, NEW dio \in Dio,
         NEW from_parent \in BOOLEAN, NEW last_dtsn,
         NEW m, m = propagate_dtsn(refresh_lifetime(update_nbr_from_dio(s, from, dio), from_parent),
                                   from_parent, dio.dtsn, last_dtsn)
  PROVE  Reports(m, s)
<1> DEFINE o == update_nbr_from_dio(s, from, dio)
           p == refresh_lifetime(o, from_parent)
           q == [p EXCEPT !.dtsn_out = Increment(p.dtsn_out)]
           r == rpl_timers_schedule_dao(q)
<1>1. dio.rank \in Rank /\ dio.dtsn \in Seqno
  BY DEF Dio
<1>2. o \in NodeState /\ Quiet(o, s)
  BY <1>1 DEF update_nbr_from_dio, NodeState, Quiet, DaosSent
<1>3. m \in {p, r}
  BY DEF propagate_dtsn
<1> HIDE DEF o
<1>4. p \in NodeState /\ Quiet(p, o)
  BY <1>2, FieldValues DEF refresh_lifetime, NodeState, Quiet, DaosSent
<1> HIDE DEF p
<1>5. Increment(p.dtsn_out) \in Seqno
  BY <1>4, IncrementType DEF NodeState
<1>6. q \in NodeState /\ Quiet(q, p)
  BY <1>4, <1>5 DEF NodeState, Quiet, DaosSent
<1> HIDE DEF q
<1>7. Reports(r, q)
  BY <1>6, ScheduleDao DEF Handled, Carried, SameMembership, Reports, Reporting, Quiet, DaosSent
<1> HIDE DEF r
<1>8. Reports(p, s) /\ Reports(q, s)
  BY <1>2, <1>4, <1>6 DEF Reports, Quiet
<1> QED BY <1>3, <1>7, <1>8, ReportsTransitive

LEMMA ProcessDioFromCurrentDagReports ==
  ASSUME NEW n, NodeInv(n), n.used, NEW from \in Node, NEW dio \in Dio, dio.dag = n.dag_id,
         NEW has_room \in BOOLEAN,
         NEW m, m = process_dio_from_current_dag(n, from, dio, has_room)
  PROVE  Reports(m, n)
<1> DEFINE o == hear_version(n, dio)
           from_parent == from \in o.nbrs /\ from = o.preferred_parent
           learnt == propagate_dtsn(
                       refresh_lifetime(update_nbr_from_dio(o, from, dio), from_parent),
                       from_parent, dio.dtsn, o.nbr_dtsn[from])
<1>1. o \in NodeState /\ Reports(o, n)
  BY HearVersion, HearVersionReports DEF NodeInv
<1>2. m \in {n, rpl_timers_dio_reset(n), o, learnt}
  BY DEF process_dio_from_current_dag
<1> HIDE DEF o
<1>3. from_parent \in BOOLEAN
  OBVIOUS
<1> HIDE DEF from_parent
<1>4. Reports(learnt, o)
  BY <1>1, <1>3, LearnReports
<1> HIDE DEF learnt
<1>5. Reports(n, n) /\ Reports(rpl_timers_dio_reset(n), n)
  BY ResetIsQuiet DEF NodeInv, Reports, Quiet
<1> QED BY <1>1, <1>2, <1>4, <1>5, ReportsTransitive

LEMMA ProcessDioReports ==
  ASSUME NEW n, NodeInv(n), NEW from \in Node, NEW dio \in Dio, NEW has_room \in BOOLEAN,
         dio.dag = n.id => rpl_dag_root_is_root(n),
         NEW m \in rpl_process_dio(n, from, dio, has_room)
  PROVE  Reports(m, n)
<1> DEFINE o == IF n.used THEN n ELSE process_dio_init_dag(n, dio)
           p == process_dio_from_current_dag(o, from, dio, has_room)
<1>1. /\ o = n \/ o = process_dio_init_dag(n, dio)
      /\ IF o.used /\ o.dag_id = dio.dag THEN m \in rpl_dag_update_state(p) ELSE m = o
  BY DEF rpl_process_dio
<1>2. NodeInv(o) /\ Reports(o, n)
  <2>1. CASE n.used
    BY <2>1 DEF Reports, Quiet
  <2>2. CASE ~n.used
    <3>1. /\ n \in NodeState /\ ~n.leave /\ n.preferred_parent = NoNode
          /\ o = process_dio_init_dag(n, dio) /\ dio.dag # n.id
      BY <2>2 DEF NodeInv, rpl_dag_root_is_root
    <3> HIDE DEF o
    <3> QED BY <3>1, ProcessDioInitDag DEF NodeInv, Reports, Reporting
  <2> QED BY <2>1, <2>2
<1> HIDE DEF o
<1>3. CASE o.used /\ o.dag_id = dio.dag
  <2>1. NodeInv(p) /\ Reports(p, o)
    BY <1>2, <1>3, ProcessDioFromCurrentDag, ProcessDioFromCurrentDagReports
  <2> HIDE DEF p
  <2>2. Reports(m, p)
    BY <1>1, <1>3, <2>1, UpdateReports
  <2> QED BY <1>2, <2>1, <2>2, ReportsTransitive
<1>4. CASE ~(o.used /\ o.dag_id = dio.dag)
  BY <1>1, <1>2, <1>4
<1> QED BY <1>3, <1>4
------------------------------------------------------------------------------
(* What the neighbors are told *)

(* Neighbors that last heard of rank h will soon hear of a rank that is far  *)
(* from it: the one that changes are compared with lies between the two.    *)
Shown(n, h) ==
  /\ Ranked(n)
  /\ /\ rpl_dag_ready_to_advertise(n) /\ n.state # "POISONING"
     /\ n.rank # InfiniteRank /\ h # InfiniteRank /\ ~n.dio_fresh
     => /\ n.last_advertised_rank # InfiniteRank
        /\ ~significant(n.last_advertised_rank, h)
        /\ ~significant(n.rank, n.last_advertised_rank)

Multicasts(n) == {msg \in n.sent : msg.type = "DIO" /\ msg.to = All}

(* A rank that changes is followed by a DIO. *)
Shows(m, n) ==
  /\ Multicasts(m) = Multicasts(n)
  /\ \A h \in Rank : Shown(n, h) => Shown(m, h)

(* The functions that change nothing the neighbors have to hear of. *)
Plain(m, n) ==
  /\ m.used = n.used /\ m.mop = n.mop /\ m.state = n.state
  /\ m.preferred_parent = n.preferred_parent
  /\ m.rank = n.rank /\ m.last_advertised_rank = n.last_advertised_rank
  /\ n.dio_fresh => m.dio_fresh
  /\ Multicasts(m) = Multicasts(n)

(* A DIO is to be sent soon, or none is called for. *)
Showing(n) ==
  /\ Ranked(n)
  /\ n.dio_fresh \/ ~rpl_dag_ready_to_advertise(n) \/ n.state = "POISONING"

LEMMA ShowsTransitive ==
  ASSUME NEW n, NEW o, Shows(o, n), NEW m, Shows(m, o)
  PROVE  Shows(m, n)
BY DEF Shows

LEMMA PlainShows ==
  ASSUME NEW n, NEW m, Plain(m, n)
  PROVE  Shows(m, n) /\ (Showing(n) => Showing(m))
<1>1. rpl_dag_ready_to_advertise(m) <=> rpl_dag_ready_to_advertise(n)
  BY DEF Plain, rpl_dag_ready_to_advertise
<1>2. Ranked(m) <=> Ranked(n)
  BY DEF Plain, Ranked
<1>3. \A h \in Rank : Shown(n, h) => Shown(m, h)
  BY <1>1, <1>2 DEF Plain, Shown
<1> QED BY <1>1, <1>2, <1>3 DEF Plain, Shows, Showing

LEMMA ShowingShows ==
  ASSUME NEW n, NEW m, Showing(m), Multicasts(m) = Multicasts(n)
  PROVE  Shows(m, n)
BY DEF Showing, Shown, Shows

LEMMA ResetIsPlain ==
  ASSUME NEW n \in NodeState, NEW m, m = rpl_timers_dio_reset(n)
  PROVE  Plain(m, n) /\ (Ranked(n) => Showing(m))
<1>1. Carried(m, n) /\ Unmoved(m, n)
  BY DioReset
<1>2. /\ m.last_advertised_rank = n.last_advertised_rank
      /\ m.dio_fresh = (n.dio_fresh \/ rpl_dag_ready_to_advertise(n))
  BY DEF rpl_timers_dio_reset, NodeState
<1>3. rpl_dag_ready_to_advertise(m) => rpl_dag_ready_to_advertise(n)
  BY <1>1 DEF Unmoved, SameMembership, rpl_dag_ready_to_advertise
<1> QED
  BY <1>1, <1>2, <1>3 DEF Carried, Unmoved, SameMembership, Plain, Multicasts, Showing, Ranked

LEMMA SentIsPlain ==
  ASSUME NEW n \in NodeState, NEW msg \in Message, ~(msg.type = "DIO" /\ msg.to = All),
         NEW m, m = Send(n, msg)
  PROVE  Plain(m, n)
<1>1. Unmoved(m, n) /\ m.sent = n.sent \cup {msg}
  BY Sent
<1>2. m.last_advertised_rank = n.last_advertised_rank /\ m.dio_fresh = n.dio_fresh
  BY DEF Send, NodeState
<1>3. Multicasts(m) = Multicasts(n)
  BY <1>1 DEF Multicasts
<1> QED BY <1>1, <1>2, <1>3 DEF Unmoved, SameMembership, Plain
------------------------------------------------------------------------------
(* Selecting a parent touches neither the rank last advertised nor the DIO   *)
(* timer, and a node without a parent has no rank.                          *)
Unshown(m, n) ==
  /\ m.last_advertised_rank = n.last_advertised_rank /\ m.dio_fresh = n.dio_fresh
  /\ m.preferred_parent = NoNode => m.rank = InfiniteRank

LEMMA TakeParentUnshown ==
  ASSUME NEW n \in NodeState, NEW b \in n.nbrs \cup {NoNode},
         NEW cost \in [n.nbrs -> LinkCosts], NEW m, m = take_parent(n, b, cost)
  PROVE  Unshown(m, n)
<1> DEFINE r == rpl_neighbor_rank_via_nbr(n, b, cost)
           o == rpl_neighbor_set_preferred_parent(n, b)
<1>1. b \in Node \cup {NoNode} /\ NoNode \notin n.nbrs
  BY NodeAssumption DEF NodeState
<1>2. r \in Rank /\ (b = NoNode => r = InfiniteRank)
  BY <1>1, RankViaNbr DEF rpl_neighbor_rank_via_nbr
<1>3. m = [o EXCEPT !.rank = r]
  BY DEF take_parent
<1> HIDE DEF r
<1>4. /\ o \in NodeState /\ o.preferred_parent = b
      /\ o.last_advertised_rank = n.last_advertised_rank /\ o.dio_fresh = n.dio_fresh
  BY <1>1 DEF rpl_neighbor_set_preferred_parent, NodeState
<1> HIDE DEF o
<1> QED BY <1>2, <1>3, <1>4 DEF Unshown, NodeState

LEMMA ReselectUnshown ==
  ASSUME NEW n \in NodeState, NEW cost \in [n.nbrs -> LinkCosts], NEW m \in reselect(n, cost)
  PROVE  Unshown(m, n)
<1>1. PICK best \in rpl_neighbor_select_best(n, cost) :
        m \in attack(take_parent(n, best, cost), cost)
  BY DEF reselect
<1>2. /\ best \in n.nbrs \cup {NoNode}
      /\ best # NoNode => /\ rpl_neighbor_rank_via_nbr(n, best, cost) # InfiniteRank
                          /\ n.nbr_rank[best] >= RootRank
  BY <1>1 DEF rpl_neighbor_select_best, acceptable
<1> DEFINE o == take_parent(n, best, cost)
<1>3. o \in NodeState /\ o.nbrs = n.nbrs
  BY <1>2, TakeParentSelected DEF Selected, Carried
<1>4. Unshown(o, n)
  BY <1>2, TakeParentUnshown
<1>5. m \in attack(o, cost)
  BY <1>1
<1> HIDE DEF o
<1>6. CASE m = o
  BY <1>4, <1>6
<1>7. CASE /\ o.rank # InfiniteRank
           /\ \E r \in {RootRank + MinHopRankInc, RootRank + 1} : m = [o EXCEPT !.rank = r]
  BY <1>3, <1>4, <1>7 DEF Unshown, NodeState
<1>8. CASE \E w \in worst_parents(o, cost) : m = take_parent(o, w, cost)
  <2>1. PICK w \in worst_parents(o, cost) : m = take_parent(o, w, cost)
    BY <1>8
  <2>2. w \in o.nbrs
    BY DEF worst_parents
  <2>3. Unshown(m, o)
    BY <1>3, <2>1, <2>2, TakeParentUnshown
  <2> QED BY <1>4, <2>3 DEF Unshown
<1> QED BY <1>5, <1>6, <1>7, <1>8 DEF attack

(* A rank far from the one last advertised resets the DIO timer. *)
LEMMA TrackShows ==
  ASSUME NEW n \in NodeState, NEW old_parent,
         NEW m, m = track_advertised_rank(track_lowest_rank(n, old_parent))
  PROVE  /\ n.dio_fresh => m.dio_fresh
         /\ ~m.dio_fresh /\ rpl_dag_ready_to_advertise(n) =>
              /\ m.last_advertised_rank = n.last_advertised_rank
              /\ \/ n.last_advertised_rank = InfiniteRank \/ n.rank = InfiniteRank
                 \/ ~significant(n.rank, n.last_advertised_rank)
<1> DEFINE o == track_lowest_rank(n, old_parent)
           p == [o EXCEPT !.last_advertised_rank = o.rank]
           q == rpl_timers_dio_reset(p)
<1>1. /\ o \in NodeState /\ o.dio_fresh = n.dio_fresh /\ o.rank = n.rank
      /\ o.used = n.used /\ o.mop = n.mop /\ o.state = n.state
      /\ o.last_advertised_rank = n.last_advertised_rank
  BY DEF track_lowest_rank, NodeState
<1>2. IF /\ o.last_advertised_rank # InfiniteRank /\ o.rank # InfiniteRank
         /\ significant(o.rank, o.last_advertised_rank)
        THEN m = q ELSE m = o
  BY DEF track_advertised_rank
<1> HIDE DEF o
<1>3. /\ p \in NodeState /\ p.dio_fresh = o.dio_fresh
      /\ p.used = o.used /\ p.mop = o.mop /\ p.state = o.state
  BY <1>1 DEF NodeState
<1> HIDE DEF p
<1>4. q.dio_fresh = (p.dio_fresh \/ rpl_dag_ready_to_advertise(p))
  BY <1>3 DEF rpl_timers_dio_reset, NodeState
<1>5. rpl_dag_ready_to_advertise(n) => rpl_dag_ready_to_advertise(p)
  BY <1>1, <1>3 DEF rpl_dag_ready_to_advertise
<1> HIDE DEF q
<1>6. CASE m = q
  BY <1>1, <1>3, <1>4, <1>5, <1>6
<1>7. CASE m = o /\ ~(/\ o.last_advertised_rank # InfiniteRank /\ o.rank # InfiniteRank
                      /\ significant(o.rank, o.last_advertised_rank))
  BY <1>1, <1>7
<1> QED BY <1>2, <1>6, <1>7

(* So does a first parent. *)
LEMMA SwitchShows ==
  ASSUME NEW n \in NodeState, NEW old_parent, NEW m, m = process_parent_switch(n, old_parent)
  PROVE  /\ m.last_advertised_rank = n.last_advertised_rank
         /\ n.dio_fresh => m.dio_fresh
         /\ n.unprocessed_parent_switch /\ n.preferred_parent # NoNode /\ old_parent = NoNode
              => m.dio_fresh \/ ~rpl_dag_ready_to_advertise(m)
<1> DEFINE joined == [n EXCEPT !.state = "JOINED"]
           parted == [n EXCEPT !.state = "INITIALIZED"]
           got == rpl_timers_schedule_dao(got_parent(n))
           other == rpl_timers_schedule_dao(n)
           lost == lost_parent(n)
           o == CASE n.preferred_parent = NoNode -> lost
                  [] n.preferred_parent # NoNode /\ old_parent = NoNode -> got
                  [] OTHER -> other
           Alike(a) == /\ a \in NodeState
                       /\ a.last_advertised_rank = n.last_advertised_rank
                       /\ n.dio_fresh => a.dio_fresh
           Called(a) == a.dio_fresh \/ ~rpl_dag_ready_to_advertise(a)
<1>1. m = IF n.unprocessed_parent_switch
            THEN [o EXCEPT !.unprocessed_parent_switch = FALSE] ELSE n
  BY DEF process_parent_switch
<1>2. Alike(lost)
  <2> DEFINE p == rpl_timers_dio_reset(parted)
  <2>1. lost = [p EXCEPT !.periodic_dis = TRUE, !.leave = TRUE]
    BY DEF lost_parent, rpl_timers_schedule_leaving, rpl_timers_schedule_periodic_dis
  <2>2. Alike(parted)
    BY FieldNames DEF NodeState
  <2> HIDE DEF parted
  <2>3. Plain(p, parted) /\ p \in NodeState
    BY <2>2, ResetIsPlain, DioReset DEF Unmoved
  <2>4. Alike(p)
    BY <2>2, <2>3 DEF Plain
  <2> HIDE DEF p
  <2> QED BY <2>1, <2>4 DEF NodeState
<1>3. Alike(other)
  BY FieldNames DEF rpl_timers_schedule_dao, NodeState
<1>4. Alike(got) /\ Called(got)
  <2> DEFINE p == rpl_timers_dio_reset(joined)
             q == [p EXCEPT !.leave = FALSE]
  <2>1. got = rpl_timers_schedule_dao(q)
    BY DEF got_parent, rpl_timers_unschedule_leaving
  <2>2. Alike(joined) /\ joined.state # "POISONING"
    BY FieldNames DEF NodeState
  <2> HIDE DEF joined
  <2>3. Plain(p, joined) /\ p \in NodeState
    BY <2>2, ResetIsPlain, DioReset DEF Unmoved
  <2>4. p.dio_fresh = (joined.dio_fresh \/ rpl_dag_ready_to_advertise(joined))
    BY <2>2 DEF rpl_timers_dio_reset, NodeState
  <2>5. Alike(p) /\ Called(p)
    BY <2>2, <2>3, <2>4 DEF Plain, rpl_dag_ready_to_advertise
  <2> HIDE DEF p
  <2>6. /\ q \in NodeState /\ q.dio_fresh = p.dio_fresh
        /\ q.last_advertised_rank = p.last_advertised_rank
        /\ q.used = p.used /\ q.mop = p.mop /\ q.state = p.state
    BY <2>5 DEF NodeState
  <2> HIDE DEF q
  <2>7. /\ got \in NodeState /\ got.dio_fresh = q.dio_fresh
        /\ got.last_advertised_rank = q.last_advertised_rank
        /\ got.used = q.used /\ got.mop = q.mop /\ got.state = q.state
    <3> HIDE DEF got
    <3> QED BY <2>1, <2>6, FieldNames DEF rpl_timers_schedule_dao, NodeState
  <2> QED BY <2>5, <2>6, <2>7 DEF rpl_dag_ready_to_advertise
<1>5. o = IF n.preferred_parent = NoNode THEN lost
          ELSE IF old_parent = NoNode THEN got ELSE other
  OBVIOUS
<1> HIDE DEF got, other, lost, o
<1>6. Alike(o) /\ (n.preferred_parent # NoNode /\ old_parent = NoNode => Called(o))
  BY <1>2, <1>3, <1>4, <1>5
<1> DEFINE r == [o EXCEPT !.unprocessed_parent_switch = FALSE]
<1>7. /\ r.last_advertised_rank = o.last_advertised_rank
      /\ r.dio_fresh = o.dio_fresh
      /\ r.used = o.used /\ r.mop = o.mop /\ r.state = o.state
  BY <1>6 DEF NodeState
<1> HIDE DEF r
<1>8. CASE ~n.unprocessed_parent_switch
  BY <1>1, <1>8
<1>9. CASE n.unprocessed_parent_switch
  BY <1>1, <1>6, <1>7, <1>9 DEF r, rpl_dag_ready_to_advertise
<1> QED BY <1>8, <1>9
------------------------------------------------------------------------------
(* What a state update makes of a rank that was close to the one advertised. *)
Tracks(m, n) ==
  /\ rpl_dag_ready_to_advertise(m) /\ m.state # "POISONING"
     /\ m.rank # InfiniteRank /\ ~m.dio_fresh
     => /\ rpl_dag_ready_to_advertise(n) /\ n.state # "POISONING"
        /\ n.rank # InfiniteRank /\ ~n.dio_fresh
        /\ m.last_advertised_rank = n.last_advertised_rank
        /\ \/ m.rank = n.rank \/ n.last_advertised_rank = InfiniteRank
           \/ ~significant(m.rank, n.last_advertised_rank)

(* A rank that moved far from the one advertised, and a first parent, are   *)
(* noticed while the state is brought up to date.                           *)
LEMMA MemberTracks ==
  ASSUME NEW n, NodeInv(n), Ranked(n), n.used, n.state # "POISONING",
         NEW s, s = [n EXCEPT !.state_update = FALSE],
         NEW cost \in [s.nbrs -> LinkCosts], NEW p \in reselect(s, cost),
         NEW m, m = after_reselect(p, n.preferred_parent)
  PROVE  Tracks(m, n)
<1>1. /\ s \in NodeState /\ Carried(s, n) /\ s.state = n.state
      /\ s.preferred_parent = n.preferred_parent
      /\ s.last_advertised_rank = n.last_advertised_rank /\ s.dio_fresh = n.dio_fresh
  BY DEF NodeInv, Carried, NodeState, SameMembership
<1>2. Selected(p, s) /\ Unshown(p, s)
  BY <1>1, ReselectSelected, ReselectUnshown
<1> DEFINE q == track_advertised_rank(track_lowest_rank(p, n.preferred_parent))
<1>3. p \in NodeState
  BY <1>2 DEF Selected, Carried
<1>4. /\ Unmoved(q, p)
      /\ p.dio_fresh => q.dio_fresh
      /\ ~q.dio_fresh /\ rpl_dag_ready_to_advertise(p) =>
           /\ q.last_advertised_rank = p.last_advertised_rank
           /\ \/ p.last_advertised_rank = InfiniteRank \/ p.rank = InfiniteRank
              \/ ~significant(p.rank, p.last_advertised_rank)
  BY <1>3, TrackRankUnmoved, TrackShows
<1>5. m = process_parent_switch(q, n.preferred_parent)
  BY DEF after_reselect
<1> HIDE DEF q
<1>6. q \in NodeState
  BY <1>4 DEF Unmoved
<1>7. /\ Switched(m, q, n.preferred_parent)
      /\ m.last_advertised_rank = q.last_advertised_rank
      /\ q.dio_fresh => m.dio_fresh
      /\ q.unprocessed_parent_switch /\ q.preferred_parent # NoNode
         /\ n.preferred_parent = NoNode
           => m.dio_fresh \/ ~rpl_dag_ready_to_advertise(m)
  BY <1>5, <1>6, SwitchOutcome, SwitchShows
<1> SUFFICES ASSUME rpl_dag_ready_to_advertise(m), m.rank # InfiniteRank, ~m.dio_fresh
             PROVE  /\ rpl_dag_ready_to_advertise(n)
                    /\ n.rank # InfiniteRank /\ ~n.dio_fresh
                    /\ m.last_advertised_rank = n.last_advertised_rank
                    /\ \/ n.last_advertised_rank = InfiniteRank
                       \/ ~significant(m.rank, n.last_advertised_rank)
  BY DEF Tracks
<1>8. /\ q.used = n.used /\ q.mop = n.mop /\ q.state = n.state
      /\ p.used = n.used /\ p.mop = n.mop /\ p.state = n.state
      /\ m.used = n.used /\ m.mop = n.mop
      /\ q.preferred_parent = p.preferred_parent /\ q.rank = p.rank /\ m.rank = p.rank
  <2>1. p.used = n.used /\ p.mop = n.mop /\ p.state = n.state
    BY <1>1, <1>2 DEF Selected, Carried, SameMembership
  <2>2. /\ q.used = p.used /\ q.mop = p.mop /\ q.state = p.state
        /\ q.preferred_parent = p.preferred_parent /\ q.rank = p.rank
    BY <1>4 DEF Unmoved, SameMembership
  <2>3. m.used = q.used /\ m.mop = q.mop /\ m.rank = q.rank
    BY <1>7 DEF Switched, Handled, Carried, SameMembership
  <2> QED BY <2>1, <2>2, <2>3
<1>9. m.state \in {n.state, "INITIALIZED", "JOINED"}
  BY <1>7, <1>8 DEF Switched
<1>10. rpl_dag_ready_to_advertise(n) /\ rpl_dag_ready_to_advertise(p)
  BY <1>8, <1>9 DEF rpl_dag_ready_to_advertise
<1>11. ~n.dio_fresh /\ ~q.dio_fresh
  BY <1>1, <1>2, <1>4, <1>7 DEF Unshown
<1>12. /\ m.last_advertised_rank = n.last_advertised_rank
       /\ \/ n.last_advertised_rank = InfiniteRank
          \/ ~significant(m.rank, n.last_advertised_rank)
  BY <1>1, <1>2, <1>4, <1>7, <1>8, <1>10, <1>11 DEF Unshown
<1>13. n.rank # InfiniteRank
  <2> SUFFICES ASSUME n.rank = InfiniteRank PROVE FALSE
    OBVIOUS
  <2>1. n.preferred_parent = NoNode
    BY DEF Ranked
  <2>2. p.preferred_parent # NoNode
    BY <1>2, <1>8 DEF Unshown
  <2>3. p.unprocessed_parent_switch
    BY <1>1, <1>2, <2>1, <2>2 DEF Selected
  <2>4. q.unprocessed_parent_switch
    BY <1>4, <2>3 DEF Unmoved
  <2>5. m.dio_fresh \/ ~rpl_dag_ready_to_advertise(m)
    BY <1>7, <1>8, <2>1, <2>2, <2>4
  <2> QED BY <2>5
<1> QED BY <1>10, <1>11, <1>12, <1>13

LEMMA UpdateTracks ==
  ASSUME NEW n, NodeInv(n), Ranked(n), NEW m \in rpl_dag_update_state(n)
  PROVE  Tracks(m, n)
<1> DEFINE s == [n EXCEPT !.state_update = FALSE]
<1>0. n \in NodeState /\ n.nbrs = s.nbrs
  BY DEF NodeInv, NodeState
<1>1. CASE ~n.used /\ m = n
  BY <1>1 DEF Tracks, rpl_dag_ready_to_advertise
<1>2. CASE n.used /\ n.state = "POISONING" /\ m = poison(s)
  <2>1. s \in NodeState /\ s.state = "POISONING"
    BY <1>0, <1>2 DEF NodeState
  <2> HIDE DEF s
  <2>2. m.state = "POISONING"
    BY <1>2, <2>1, Poison
  <2> QED BY <2>2 DEF Tracks
<1>3. CASE n.used /\ n.state # "POISONING" /\ n.dag_id = n.id /\ m = s
  <2>1. /\ m.used = n.used /\ m.mop = n.mop /\ m.state = n.state /\ m.rank = n.rank
        /\ m.dio_fresh = n.dio_fresh /\ m.last_advertised_rank = n.last_advertised_rank
    BY <1>0, <1>3 DEF NodeState
  <2> QED BY <2>1 DEF Tracks, rpl_dag_ready_to_advertise
<1>4. CASE /\ n.used /\ n.state # "POISONING" /\ n.dag_id # n.id
           /\ \E cost \in [n.nbrs -> LinkCosts] : \E p \in reselect(s, cost) :
                m = after_reselect(p, n.preferred_parent)
  <2> HIDE DEF s
  <2>1. PICK cost \in [s.nbrs -> LinkCosts] : \E p \in reselect(s, cost) :
          m = after_reselect(p, n.preferred_parent)
    BY <1>0, <1>4
  <2>2. PICK p \in reselect(s, cost) : m = after_reselect(p, n.preferred_parent)
    BY <2>1
  <2> QED BY <1>4, <2>2, MemberTracks DEF s
<1> QED
  BY <1>1, <1>2, <1>3, <1>4 DEF rpl_dag_update_state, rpl_dag_root_is_root

LEMMA UpdateShows ==
  ASSUME NEW n, NodeInv(n), NEW m \in rpl_dag_update_state(n)
  PROVE  Shows(m, n)
<1>1. Updated(m, n)
  BY UpdateStateOutcome
<1>2. Multicasts(m) = Multicasts(n) /\ Ranked(m)
  BY <1>1, AboveIsRanked DEF Updated, Carried, Multicasts
<1>3. ASSUME NEW h \in Rank, Shown(n, h)
      PROVE  Shown(m, h)
  BY <1>2, <1>3, UpdateTracks DEF Shown, Tracks
<1> QED BY <1>2, <1>3 DEF Shows

LEMMA DioOutputShows ==
  ASSUME NEW n, NodeInv(n), NEW to \in Node, NEW m \in rpl_icmp6_dio_output(n, to)
  PROVE  Shows(m, n)
<1> DEFINE msg(o) == [type |-> "DIO", to |-> to, rank |-> o.rank,
                      version |-> advertised_version(o), dtsn |-> o.dtsn_out]
<1>1. PICK o \in rpl_dag_update_state(n) : m = Send(o, msg(o))
  BY DEF rpl_icmp6_dio_output
<1>2. o \in NodeState
  BY UpdateStateInv DEF NodeInv
<1>3. o.rank \in Rank /\ o.dtsn_out \in Seqno /\ advertised_version(o) \in Seqno
  BY <1>2, AdvertisedVersion DEF NodeState
<1>4. msg(o) \in Message /\ msg(o).to # All
  BY <1>3, NodeAssumption DEF Message
<1> HIDE DEF msg
<1>5. Plain(m, o)
  BY <1>1, <1>2, <1>4, SentIsPlain
<1> QED BY <1>5, PlainShows, UpdateShows, ShowsTransitive

LEMMA DisOutputShows ==
  ASSUME NEW n, NodeInv(n), NEW to \in Node \cup {All}, NEW m \in rpl_icmp6_dis_output(n, to)
  PROVE  Shows(m, n)
<1> DEFINE msg == [type |-> "DIS", to |-> to]
<1>1. PICK o \in rpl_dag_update_state(n) : m = Send(o, msg)
  BY DEF rpl_icmp6_dis_output
<1>2. o \in NodeState /\ msg \in Message /\ msg.type # "DIO"
  BY UpdateStateInv DEF NodeInv, Message
<1> HIDE DEF msg
<1>3. Plain(m, o)
  BY <1>1, <1>2, SentIsPlain
<1> QED BY <1>3, PlainShows, UpdateShows, ShowsTransitive

LEMMA DaoOutputShows ==
  ASSUME NEW n, NodeInv(n), NEW lifetime \in {0, 1}, NEW m \in rpl_icmp6_dao_output(n, lifetime)
  PROVE  Shows(m, n)
<1> DEFINE msg(o) == [type |-> "DAO", parent |-> n.preferred_parent,
                      seqno |-> o.dao_last_seqno, lifetime |-> lifetime]
<1>1. PICK o \in rpl_dag_update_state(n) :
        m = o \/ (m = Send(o, msg(o)) /\ n.preferred_parent # NoNode)
  BY DEF rpl_icmp6_dao_output
<1>2. o \in NodeState /\ Shows(o, n)
  BY UpdateStateInv, UpdateShows DEF NodeInv
<1>3. CASE m = Send(o, msg(o)) /\ n.preferred_parent # NoNode
  <2>1. n.preferred_parent \in Node /\ o.dao_last_seqno \in Seqno
    BY <1>2, <1>3 DEF NodeInv, NodeState
  <2>2. msg(o) \in Message /\ msg(o).type # "DIO"
    BY <2>1 DEF Message
  <2> HIDE DEF msg
  <2>3. Plain(m, o)
    BY <1>2, <1>3, <2>2, SentIsPlain
  <2> QED BY <1>2, <2>3, PlainShows, ShowsTransitive
<1> QED BY <1>1, <1>2, <1>3
------------------------------------------------------------------------------
LEMMA LeaveShows ==
  ASSUME NEW n, NodeInv(n), NEW m \in rpl_dag_leave(n)
  PROVE  Shows(m, n)
<1> DEFINE i == [n EXCEPT !.dao_last_seqno = Increment(n.dao_last_seqno)]
           said == IF rpl_dag_root_is_root(n) THEN {n} ELSE rpl_icmp6_dao_output(i, 0)
<1>1. n \in NodeState /\ Increment(n.dao_last_seqno) \in Seqno
  BY IncrementType DEF NodeInv, NodeState
<1>2. NodeInv(i) /\ Plain(i, n)
  BY <1>1 DEF NodeInv, NodeState, Plain, Multicasts
<1>3. PICK o \in said :
        m = [rpl_timers_stop_dag_timers(rpl_neighbor_remove_all(o)) EXCEPT !.used = FALSE]
  BY DEF rpl_dag_leave
<1> HIDE DEF i
<1>4. o \in NodeState /\ Multicasts(o) = Multicasts(n)
  <2>1. CASE o = n
    BY <1>1, <2>1
  <2>2. CASE o \in rpl_icmp6_dao_output(i, 0)
    <3>1. Multicasts(i) = Multicasts(n) /\ Multicasts(o) = Multicasts(i)
      BY <1>2, <2>2, DaoOutputShows DEF Plain, Shows
    <3> QED BY <1>2, <2>2, <3>1, DaoOutput DEF NodeInv
  <2> QED BY <1>3, <2>1, <2>2
<1> HIDE DEF said
<1> DEFINE p == rpl_neighbor_remove_all(o)
           q == rpl_timers_stop_dag_timers(p)
<1>5. p \in NodeState /\ p.sent = o.sent
  BY <1>4, RemoveAll
     DEF rpl_neighbor_remove_all, rpl_neighbor_set_preferred_parent, NodeState
<1>6. m = [q EXCEPT !.used = FALSE]
  BY <1>3 DEF p
<1> HIDE DEF p
<1>7. q \in NodeState /\ q.sent = p.sent
  BY <1>5, StopTimers DEF rpl_timers_stop_dag_timers, NodeState
<1> HIDE DEF q
<1>8. m.sent = o.sent /\ NodeInv(m) /\ ~m.used
  BY <1>5, <1>6, <1>7, LeaveInv DEF NodeState
<1>9. Showing(m)
  BY <1>8 DEF NodeInv, Showing, Ranked, rpl_dag_ready_to_advertise
<1> QED BY <1>4, <1>8, <1>9, ShowingShows DEF Multicasts

LEMMA LocalRepairShows ==
  ASSUME NEW n \in NodeState, NEW m, m = rpl_local_repair(n)
  PROVE  Multicasts(m) = Multicasts(n) /\ Shows(m, n) /\ (n.used => Showing(m))
<1>1. CASE ~n.used
  BY <1>1 DEF rpl_local_repair, Shows
<1>2. CASE n.used
  <2> DEFINE o == IF rpl_dag_root_is_root(n) THEN n ELSE [n EXCEPT !.state = "INITIALIZED"]
             p == rpl_neighbor_remove_all(o)
             q == rpl_timers_dio_reset(p)
  <2>1. o \in NodeState
    BY FieldNames DEF NodeState
  <2> HIDE DEF o
  <2>2. p \in NodeState /\ p.preferred_parent = NoNode
    BY <2>1, RemoveAll
  <2>3. m = [q EXCEPT !.state_update = TRUE]
    BY <1>2 DEF rpl_local_repair, rpl_timers_schedule_state_update, o, p
  <2> HIDE DEF p
  <2>4. Ranked(p)
    BY <2>2 DEF Ranked
  <2>5. Showing(q) /\ q \in NodeState
    BY <2>2, <2>4, ResetIsPlain, DioReset DEF Unmoved
  <2> HIDE DEF q
  <2>6. Plain(m, q)
    BY <2>3, <2>5 DEF NodeState, Plain, Multicasts
  <2>7. Showing(m)
    BY <2>5, <2>6, PlainShows
  <2>8. m.sent = n.sent
    BY <1>2, LocalRepairNumbers
  <2> QED BY <2>7, <2>8, ShowingShows DEF Multicasts
<1> QED BY <1>1, <1>2

LEMMA GlobalRepairShows ==
  ASSUME NEW n, NodeInv(n), NEW m, m = rpl_global_repair(n)
  PROVE  Shows(m, n)
<1>1. CASE ~rpl_dag_root_is_root(n)
  BY <1>1 DEF rpl_global_repair, Shows
<1>2. CASE rpl_dag_root_is_root(n)
  <2> DEFINE o == [n EXCEPT !.version = Increment(n.version), !.dtsn_out = SeqnoInit]
  <2>1. Increment(n.version) \in Seqno /\ SeqnoInit \in Seqno
    BY FieldValues, IncrementType DEF NodeInv, NodeState
  <2>2. o \in NodeState /\ Plain(o, n)
    BY <2>1 DEF NodeInv, NodeState, Plain, Multicasts
  <2>3. m = rpl_local_repair(o)
    BY <1>2 DEF rpl_global_repair
  <2> HIDE DEF o
  <2> QED BY <2>2, <2>3, PlainShows, LocalRepairShows, ShowsTransitive
<1> QED BY <1>1, <1>2

LEMMA RefreshRoutesShows ==
  ASSUME NEW n, NodeInv(n), NEW m, m = rpl_refresh_routes(n)
  PROVE  Shows(m, n)
<1>1. Increment(n.dtsn_out) \in Seqno
  BY IncrementType DEF NodeInv, NodeState
<1>2. Plain(m, n)
  BY <1>1 DEF rpl_refresh_routes, NodeInv, NodeState, Plain, Multicasts
<1> QED BY <1>2, PlainShows

LEMMA PoisonShows ==
  ASSUME NEW n, NodeInv(n), NEW m, m = rpl_dag_poison_and_leave(n)
  PROVE  Shows(m, n)
<1>1. /\ m.state = "POISONING" /\ m.preferred_parent = n.preferred_parent
      /\ m.rank = n.rank /\ m.sent = n.sent
  BY DEF rpl_dag_poison_and_leave, rpl_timers_schedule_state_update, NodeInv, NodeState
<1> QED BY <1>1 DEF Shows, Shown, Ranked, Multicasts

LEMMA InitRootShows ==
  ASSUME NEW n, NodeInv(n), NEW m \in rpl_dag_init_root(n)
  PROVE  Shows(m, n)
<1> DEFINE version == IF n.used /\ n.dag_id = n.id THEN Increment(n.version) ELSE SeqnoInit
           left == IF n.used THEN rpl_dag_leave(n) ELSE {n}
           ready(o) == [init_dag(o, n.id) EXCEPT
                          !.mop = "NON_STORING", !.version = version,
                          !.rank = RootRank, !.lifetime = InfiniteLifetime, !.state = "REACHABLE"]
<1>1. PICK o \in left : m = rpl_timers_dio_reset(ready(o))
  BY DEF rpl_dag_init_root
<1>2. o \in NodeState /\ Multicasts(o) = Multicasts(n)
  BY <1>1, LeaveInv, LeaveShows DEF NodeInv, Shows
<1> HIDE DEF left
<1>3. version \in Seqno /\ n.id \in Node
  BY FieldValues, IncrementType DEF NodeInv, NodeState
<1> HIDE DEF version
<1> DEFINE p == init_dag(o, n.id)
<1>4. p \in NodeState /\ p.preferred_parent = NoNode
  BY <1>2, <1>3, InitDag
<1>5. p.sent = o.sent
  BY <1>2 DEF init_dag, zeroed, NodeState
<1> HIDE DEF p
<1>6. ready(o) = [p EXCEPT
                    !.mop = "NON_STORING", !.version = version,
                    !.rank = RootRank, !.lifetime = InfiniteLifetime, !.state = "REACHABLE"]
  BY DEF p
<1> DEFINE q == ready(o)
<1> HIDE DEF ready
<1>7. q \in NodeState /\ q.preferred_parent = NoNode /\ q.sent = o.sent
  BY <1>3, <1>4, <1>5, <1>6, FieldValues, FieldNames DEF NodeState
<1>8. m = rpl_timers_dio_reset(q)
  BY <1>1
<1> HIDE DEF q
<1>9. Showing(m) /\ Multicasts(m) = Multicasts(q)
  BY <1>7, <1>8, ResetIsPlain DEF Ranked, Plain
<1>10. Multicasts(q) = Multicasts(n)
  BY <1>2, <1>7 DEF Multicasts
<1> QED BY <1>9, <1>10, ShowingShows
------------------------------------------------------------------------------
(* Other input *)

LEMMA ProcessDisShows ==
  ASSUME NEW n, NodeInv(n), NEW from \in Node,
         NEW is_multicast \in BOOLEAN, NEW has_room \in BOOLEAN,
         NEW m \in rpl_process_dis(n, from, is_multicast, has_room)
  PROVE  Shows(m, n)
<1>1. CASE m = n
  BY <1>1 DEF Shows
<1>2. CASE m = rpl_timers_dio_reset(n)
  BY <1>2, ResetIsPlain, PlainShows DEF NodeInv
<1>3. CASE m \in rpl_icmp6_dio_output(n, from)
  BY <1>3, DioOutputShows
<1> QED BY <1>1, <1>2, <1>3 DEF rpl_process_dis

(* A node that becomes reachable may advertise, and resets its DIO timer. *)
LEMMA ProcessDaoAckShows ==
  ASSUME NEW n, NodeInv(n), NEW sequence, NEW status_ok \in BOOLEAN,
         NEW m, m = rpl_process_dao_ack(n, sequence, status_ok)
  PROVE  Shows(m, n)
<1> DEFINE o == [n EXCEPT !.state = "REACHABLE"]
           p == rpl_timers_dio_reset(o)
           reached == IF n.state = "JOINED" /\ status_ok THEN p ELSE n
           noted == rpl_timers_notify_dao_ack(reached)
           poisoned == [noted EXCEPT !.state = "POISONING"]
<1>0. n \in NodeState
  BY DEF NodeInv
<1>1. /\ o \in NodeState /\ o.preferred_parent = n.preferred_parent /\ o.rank = n.rank
      /\ Multicasts(o) = Multicasts(n)
  BY <1>0, FieldNames DEF NodeState, Multicasts
<1>2. m = n \/ m \in {noted, poisoned}
  <2>1. m = CASE ~n.used \/ sequence # n.dao_last_seqno -> n
              [] n.used /\ sequence = n.dao_last_seqno /\ status_ok -> noted
              [] OTHER -> poisoned
    BY DEF rpl_process_dao_ack
  <2> HIDE DEF noted, poisoned
  <2> QED BY <2>1
<1> HIDE DEF o
<1>3. p \in NodeState /\ Plain(p, o) /\ (Ranked(o) => Showing(p))
  BY <1>1, ResetIsPlain, DioReset DEF Unmoved
<1> HIDE DEF p
<1>4. reached \in NodeState /\ Shows(reached, n)
  <2>1. Multicasts(p) = Multicasts(n)
    BY <1>1, <1>3 DEF Plain
  <2>2. ASSUME NEW h \in Rank, Shown(n, h)
        PROVE  Shown(p, h)
    BY <1>1, <1>3, <2>2 DEF Shown, Ranked, Showing
  <2>3. Shows(n, n)
    BY DEF Shows
  <2> QED BY <1>0, <1>3, <2>1, <2>2, <2>3 DEF Shows
<1> HIDE DEF reached
<1>5. noted \in NodeState /\ Plain(noted, reached)
  BY <1>4, FieldNames DEF rpl_timers_notify_dao_ack, NodeState, Plain, Multicasts
<1> HIDE DEF noted
<1>6. Shows(noted, n)
  BY <1>4, <1>5, PlainShows, ShowsTransitive
<1>7. Shows(poisoned, n)
  <2>1. /\ poisoned.state = "POISONING" /\ poisoned.preferred_parent = noted.preferred_parent
        /\ poisoned.rank = noted.rank /\ poisoned.sent = noted.sent
    BY <1>5 DEF NodeState
  <2> HIDE DEF poisoned
  <2>2. Shows(poisoned, noted)
    BY <2>1 DEF Shows, Shown, Ranked, Multicasts
  <2> QED BY <1>6, <2>2, ShowsTransitive
<1> HIDE DEF poisoned
<1>8. Shows(n, n)
  BY DEF Shows
<1> QED BY <1>2, <1>6, <1>7, <1>8

LEMMA ProcessHbhShows ==
  ASSUME NEW n, NodeInv(n), NEW sender \in n.nbrs \cup {NoNode}, NEW sender_rank \in Rank,
         NEW loop_detected \in BOOLEAN, NEW rank_error_signaled \in BOOLEAN,
         NEW m \in rpl_process_hbh(n, sender, sender_rank, loop_detected, rank_error_signaled)
  PROVE  Shows(m, n)
<1> DEFINE warned == IF loop_detected /\ rank_error_signaled /\ LoopErrorDrop
                       THEN rpl_timers_dio_reset(n) ELSE n
           replying == IF loop_detected THEN rpl_timers_schedule_unicast_dio(warned) ELSE warned
           o == [replying EXCEPT !.nbr_rank[sender] = sender_rank]
<1>0. n \in NodeState
  BY DEF NodeInv
<1>1. NodeInv(warned) /\ Shows(warned, n)
  <2>1. NodeInv(rpl_timers_dio_reset(n)) /\ Shows(rpl_timers_dio_reset(n), n)
    BY <1>0, Timers, TimersInv, ResetIsPlain, PlainShows
  <2>2. Shows(n, n)
    BY DEF Shows
  <2> QED BY <2>1, <2>2
<1>2. m = replying \/ (sender # NoNode /\ m \in rpl_dag_update_state(o))
  BY DEF rpl_process_hbh
<1> HIDE DEF warned
<1>3. NodeInv(replying)
  BY <1>1, Timers, TimersInv DEF NodeInv, SameMembership
<1>4. Plain(replying, warned)
  BY <1>1 DEF rpl_timers_schedule_unicast_dio, Plain, Multicasts, NodeInv, NodeState
<1> HIDE DEF replying
<1>5. Shows(replying, n)
  BY <1>1, <1>4, PlainShows, ShowsTransitive
<1>6. CASE m = replying
  BY <1>5, <1>6
<1>7. CASE sender # NoNode /\ m \in rpl_dag_update_state(o)
  <2>1. NodeInv(o) /\ Plain(o, replying)
    BY <1>3, <1>7 DEF NodeInv, NodeState, Plain, Multicasts
  <2> HIDE DEF o
  <2>2. Shows(o, n)
    BY <1>5, <2>1, PlainShows, ShowsTransitive
  <2> QED BY <1>7, <2>1, <2>2, UpdateShows, ShowsTransitive
<1> QED BY <1>2, <1>6, <1>7

LEMMA PeriodicShows ==
  ASSUME NEW n, NodeInv(n), NEW m \in rpl_dag_periodic(n)
  PROVE  Shows(m, n)
<1> DEFINE left == IF n.lifetime > 1 THEN n.lifetime - 1 ELSE 0
           o == [n EXCEPT !.lifetime = left]
<1>0. n \in NodeState
  BY DEF NodeInv
<1>1. left \in Lifetime
  BY <1>0, BoundsAssumption DEF NodeState, Lifetime, InfiniteLifetime
<1>2. \/ m = n
      \/ m = rpl_dag_poison_and_leave(o)
      \/ n.preferred_parent # NoNode /\ m \in rpl_icmp6_dis_output(o, n.preferred_parent)
      \/ m = o
  BY DEF rpl_dag_periodic
<1> HIDE DEF left
<1>3. NodeInv(o) /\ Plain(o, n)
  BY <1>0, <1>1 DEF NodeInv, NodeState, Plain, Multicasts
<1> HIDE DEF o
<1>4. Shows(o, n) /\ Shows(n, n)
  BY <1>3, PlainShows DEF Shows
<1>5. CASE m = n \/ m = o
  BY <1>4, <1>5
<1>6. CASE m = rpl_dag_poison_and_leave(o)
  BY <1>3, <1>4, <1>6, PoisonShows, ShowsTransitive
<1>7. CASE n.preferred_parent # NoNode /\ m \in rpl_icmp6_dis_output(o, n.preferred_parent)
  <2>1. n.preferred_parent \in Node \cup {All}
    BY <1>0, <1>7 DEF NodeState
  <2> QED BY <1>3, <1>4, <1>7, <2>1, DisOutputShows, ShowsTransitive
<1> QED BY <1>2, <1>5, <1>6, <1>7
------------------------------------------------------------------------------
(* Timer handlers *)

(* The neighbors are told the rank of the node, and if bringing the DIO up   *)
(* to date moved it far from the one noted, they will be told again.        *)
Advertised(m) ==
  /\ Shown(m, m.rank)
  /\ \A msg \in Multicasts(m) : msg.rank = m.rank
  /\ Multicasts(m) = {} => Showing(m)

LEMMA DioTimerShows ==
  ASSUME ~DioRedundancy, NEW n, NodeInv(n), Ranked(n), n.sent = {},
         NEW m \in handle_dio_timer(n)
  PROVE  Advertised(m)
<1> DEFINE s == [n EXCEPT !.dio_fresh = FALSE]
           p == [s EXCEPT !.last_advertised_rank = n.rank]
           msg(o) == [type |-> "DIO", to |-> All, rank |-> o.rank,
                      version |-> advertised_version(o), dtsn |-> o.dtsn_out]
<1>1. /\ NodeInv(s) /\ Ranked(s) /\ s.sent = {} /\ s.rank = n.rank
      /\ s.used = n.used /\ s.mop = n.mop /\ s.state = n.state
  BY DEF NodeInv, NodeState, Ranked
<1>2. \/ m = s /\ ~rpl_dag_ready_to_advertise(n)
      \/ m \in rpl_icmp6_dio_output(p, All)
  BY DEF handle_dio_timer
<1> HIDE DEF s
<1>3. n.rank \in Rank
  BY DEF NodeInv, NodeState
<1>4. /\ NodeInv(p) /\ Ranked(p) /\ p.sent = {} /\ p.rank = n.rank
      /\ p.last_advertised_rank = n.rank
  BY <1>1, <1>3 DEF NodeInv, NodeState, Ranked
<1> HIDE DEF p
<1>5. CASE m = s /\ ~rpl_dag_ready_to_advertise(n)
  <2>1. ~rpl_dag_ready_to_advertise(m) /\ Ranked(m) /\ Multicasts(m) = {}
    BY <1>1, <1>5 DEF rpl_dag_ready_to_advertise, Multicasts
  <2> QED BY <2>1 DEF Advertised, Shown, Showing
<1>6. CASE m \in rpl_icmp6_dio_output(p, All)
  <2>1. PICK o \in rpl_dag_update_state(p) : m = Send(o, msg(o))
    BY <1>6 DEF rpl_icmp6_dio_output
  <2>2. o \in NodeState /\ Tracks(o, p) /\ Updated(o, p)
    BY <1>4, <2>1, UpdateStateInv, UpdateTracks, UpdateStateOutcome DEF NodeInv
  <2>3. Ranked(o) /\ o.sent = {}
    BY <1>4, <2>2, AboveIsRanked DEF Updated, Carried
  <2>4. o.rank \in Nat /\ n.rank \in Nat /\ SignificantChange \in Nat
    BY <1>3, <2>2, RankAssumption DEF NodeState, Rank
  <2>5. Shown(o, o.rank)
    <3>1. ASSUME rpl_dag_ready_to_advertise(o), o.state # "POISONING",
                 o.rank # InfiniteRank, ~o.dio_fresh
          PROVE  /\ o.last_advertised_rank # InfiniteRank
                 /\ o.last_advertised_rank = n.rank
                 /\ o.rank = n.rank \/ ~significant(o.rank, n.rank)
      BY <1>4, <2>2, <3>1 DEF Tracks
    <3>2. o.rank = n.rank \/ ~significant(o.rank, n.rank)
            => ~significant(n.rank, o.rank) /\ ~significant(o.rank, n.rank)
      BY <2>4 DEF significant
    <3> QED BY <2>3, <3>1, <3>2 DEF Shown
  <2>6. m.sent = {msg(o)} /\ msg(o).rank = o.rank /\ msg(o).type = "DIO" /\ msg(o).to = All
    BY <2>1, <2>2, <2>3 DEF Send, NodeState
  <2> HIDE DEF msg
  <2>7. /\ m.rank = o.rank /\ m.state = o.state /\ m.used = o.used /\ m.mop = o.mop
        /\ m.preferred_parent = o.preferred_parent /\ m.dio_fresh = o.dio_fresh
        /\ m.last_advertised_rank = o.last_advertised_rank
    BY <2>1, <2>2 DEF Send, NodeState
  <2>8. Multicasts(m) = {msg(o)}
    BY <2>6 DEF Multicasts
  <2>9. Shown(m, m.rank)
    BY <2>5, <2>7 DEF Shown, Ranked, rpl_dag_ready_to_advertise
  <2> QED BY <2>6, <2>7, <2>8, <2>9 DEF Advertised
<1> QED BY <1>2, <1>5, <1>6

LEMMA UnicastDioTimerShows ==
  ASSUME NEW n, NodeInv(n), NEW to \in Node, NEW m \in handle_unicast_dio_timer(n, to)
  PROVE  Shows(m, n)
<1> DEFINE o == [n EXCEPT !.unicast_dio = FALSE]
<1>1. NodeInv(o) /\ Plain(o, n)
  BY DEF NodeInv, NodeState, Plain, Multicasts
<1>2. m \in rpl_icmp6_dio_output(o, to)
  BY DEF handle_unicast_dio_timer
<1> HIDE DEF o
<1> QED BY <1>1, <1>2, PlainShows, DioOutputShows, ShowsTransitive

LEMMA DisTimerShows ==
  ASSUME NEW n, NodeInv(n), NEW m \in handle_dis_timer(n)
  PROVE  Shows(m, n)
<1>1. CASE m = [n EXCEPT !.periodic_dis = FALSE]
  <2>1. Plain(m, n)
    BY <1>1 DEF NodeInv, NodeState, Plain, Multicasts
  <2> QED BY <2>1, PlainShows
<1>2. CASE \E o \in rpl_icmp6_dis_output(n, All) : m = rpl_timers_schedule_periodic_dis(o)
  <2>1. PICK o \in rpl_icmp6_dis_output(n, All) : m = rpl_timers_schedule_periodic_dis(o)
    BY <1>2
  <2>2. o \in NodeState /\ Shows(o, n)
    BY DisOutput, DisOutputShows DEF NodeInv
  <2>3. Plain(m, o)
    BY <2>1, <2>2 DEF rpl_timers_schedule_periodic_dis, NodeState, Plain, Multicasts
  <2> QED BY <2>2, <2>3, PlainShows, ShowsTransitive
<1> QED BY <1>1, <1>2 DEF handle_dis_timer

LEMMA SendNewDaoShows ==
  ASSUME NEW n, NodeInv(n), NEW m \in send_new_dao(n)
  PROVE  Shows(m, n)
<1> DEFINE o == [n EXCEPT !.dao_timer = "resend", !.dao_transmissions = 1,
                          !.dao_last_seqno = Increment(n.dao_last_seqno)]
<1>1. Increment(n.dao_last_seqno) \in Seqno
  BY IncrementType DEF NodeInv, NodeState
<1>2. NodeInv(o) /\ Plain(o, n)
  BY <1>1, FieldNames DEF NodeInv, NodeState, Plain, Multicasts
<1>3. m \in rpl_icmp6_dao_output(o, 1)
  BY DEF send_new_dao
<1> HIDE DEF o
<1> QED BY <1>2, <1>3, PlainShows, DaoOutputShows, ShowsTransitive

LEMMA ResendDaoShows ==
  ASSUME NEW n, NodeInv(n), NEW m \in resend_dao(n)
  PROVE  Shows(m, n)
<1> DEFINE count == n.dao_transmissions + 1
           o == [n EXCEPT !.dao_transmissions = count, !.dao_timer = "off"]
<1>0. count \in Nat
  BY DEF NodeInv, NodeState
<1>1. PICK p \in rpl_icmp6_dao_output(o, 1) :
        m \in {[p EXCEPT !.dao_timer = "resend"], rpl_local_repair(p)}
  BY DEF resend_dao
<1> HIDE DEF count
<1>2. NodeInv(o) /\ Plain(o, n)
  BY <1>0, FieldNames DEF NodeInv, NodeState, Plain, Multicasts
<1> HIDE DEF o
<1>3. p \in NodeState /\ Shows(p, n)
  BY <1>1, <1>2, DaoOutput, PlainShows, DaoOutputShows, ShowsTransitive DEF NodeInv
<1>4. CASE m = [p EXCEPT !.dao_timer = "resend"]
  <2>1. Plain(m, p)
    BY <1>3, <1>4 DEF NodeState, Plain, Multicasts
  <2> QED BY <1>3, <2>1, PlainShows, ShowsTransitive
<1>5. CASE m = rpl_local_repair(p)
  BY <1>3, <1>5, LocalRepairShows, ShowsTransitive
<1> QED BY <1>1, <1>4, <1>5
------------------------------------------------------------------------------
(* Incoming DIO *)

(* A node that joins has no rank to advertise yet. *)
LEMMA ProcessDioInitDagShows ==
  ASSUME NEW n \in NodeState, ~n.leave, n.preferred_parent = NoNode, NEW dio \in Dio,
         NEW m, m = process_dio_init_dag(n, dio)
  PROVE  m.sent = n.sent /\ (m = n \/ Showing(m))
<1>0. dio.dag \in Node /\ dio.mop \in Mop /\ dio.version \in Seqno
  BY DEF Dio
<1>1. CASE dio.mop = "STORING"
  BY <1>1 DEF process_dio_init_dag
<1>2. CASE dio.mop # "STORING" /\ ~dio.supported
  <2>1. m = zeroed(n)
    BY <1>2 DEF process_dio_init_dag
  <2>2. m.sent = n.sent /\ ~m.used /\ m.preferred_parent = NoNode
    BY <2>1 DEF zeroed, NodeState
  <2> QED BY <2>2 DEF Showing, Ranked, rpl_dag_ready_to_advertise
<1>3. CASE dio.mop # "STORING" /\ dio.supported
  <2> DEFINE o == init_dag(n, dio.dag)
             p == init_dag_from_dio(n, dio)
             q == rpl_timers_dio_reset(p)
  <2>1. o \in NodeState /\ o.preferred_parent = NoNode
    BY <1>0, InitDag
  <2>2. o.sent = n.sent
    BY DEF init_dag, zeroed, NodeState
  <2>3. p = [o EXCEPT !.mop = dio.mop, !.version = dio.version]
    BY DEF init_dag_from_dio
  <2> HIDE DEF o
  <2>4. p \in NodeState /\ p.preferred_parent = NoNode /\ p.sent = n.sent
    BY <1>0, <2>1, <2>2, <2>3 DEF NodeState
  <2>5. m = [q EXCEPT !.leave = TRUE]
    BY <1>3 DEF process_dio_init_dag, rpl_timers_schedule_leaving
  <2> HIDE DEF p
  <2>6. Showing(q) /\ q \in NodeState /\ q.sent = n.sent
    BY <2>4, ResetIsPlain, DioReset DEF Unmoved, Carried, Ranked
  <2> HIDE DEF q
  <2>7. Plain(m, q) /\ m.sent = n.sent
    BY <2>5, <2>6 DEF NodeState, Plain, Multicasts
  <2> QED BY <2>6, <2>7, PlainShows
<1> QED BY <1>1, <1>2, <1>3

LEMMA GlobalRepairNonRootShows ==
  ASSUME NEW n, NodeInv(n), NEW dio \in Dio, NEW m, m = global_repair_non_root(n, dio)
  PROVE  Shows(m, n)
<1>1. CASE rpl_dag_root_is_root(n)
  BY <1>1 DEF global_repair_non_root, Shows
<1>2. CASE ~rpl_dag_root_is_root(n)
  <2> DEFINE s == rpl_timers_stop_dag_timers(n)
             o == rpl_neighbor_set_preferred_parent(s, NoNode)
             p == process_dio_init_dag(o, dio)
  <2>1. s \in NodeState /\ ~s.leave /\ s.sent = n.sent
    BY StopTimers DEF NodeInv, rpl_timers_stop_dag_timers, NodeState
  <2>2. m = rpl_local_repair(p)
    BY <1>2 DEF global_repair_non_root
  <2> HIDE DEF s
  <2>3. /\ o \in NodeState /\ ~o.leave /\ o.preferred_parent = NoNode /\ o.sent = n.sent
    BY <2>1, SetParent DEF rpl_neighbor_set_preferred_parent, NodeState
  <2> HIDE DEF o
  <2>4. p \in NodeState /\ p.preferred_parent = NoNode /\ p.sent = n.sent
    BY <2>3, ProcessDioInitDag, ProcessDioInitDagShows
  <2> HIDE DEF p
  <2>5. Multicasts(m) = Multicasts(n)
    BY <2>2, <2>4, LocalRepairShows DEF Multicasts
  <2>6. Showing(m)
    <3>1. CASE p.used
      BY <2>2, <2>4, <3>1, LocalRepairShows
    <3>2. CASE ~p.used
      BY <2>2, <2>4, <3>2
         DEF rpl_local_repair, Showing, Ranked, rpl_dag_ready_to_advertise
    <3> QED BY <3>1, <3>2
  <2> QED BY <2>5, <2>6, ShowingShows
<1> QED BY <1>1, <1>2

LEMMA HearVersionShows ==
  ASSUME NEW n, NodeInv(n), NEW dio \in Dio, NEW m, m = hear_version(n, dio)
  PROVE  Shows(m, n)
<1>1. CASE m = n
  BY <1>1 DEF Shows
<1>2. CASE m = rpl_global_repair([n EXCEPT !.version = dio.version])
  <2> DEFINE o == [n EXCEPT !.version = dio.version]
  <2>1. NodeInv(o) /\ Plain(o, n)
    BY DEF NodeInv, NodeState, Dio, Plain, Multicasts
  <2> HIDE DEF o
  <2> QED BY <1>2, <2>1, PlainShows, GlobalRepairShows, ShowsTransitive DEF o
<1>3. CASE m = global_repair_non_root(n, dio)
  BY <1>3, GlobalRepairNonRootShows
<1> QED BY <1>1, <1>2, <1>3 DEF hear_version

LEMMA LearnShows ==
  ASSUME NEW s \in NodeState, NEW from \in Node, NEW dio \in Dio,
         NEW from_parent \in BOOLEAN, NEW last_dtsn,
         NEW m, m = propagate_dtsn(refresh_lifetime(update_nbr_from_dio(s, from, dio), from_parent),
                                   from_parent, dio.dtsn, last_dtsn)
  PROVE  Shows(m, s)
<1> DEFINE o == update_nbr_from_dio(s, from, dio)
           p == refresh_lifetime(o, from_parent)
           q == [p EXCEPT !.dtsn_out = Increment(p.dtsn_out)]
           r == rpl_timers_schedule_dao(q)
<1>1. dio.rank \in Rank /\ dio.dtsn \in Seqno
  BY DEF Dio
<1>2. o \in NodeState /\ Plain(o, s)
  BY <1>1 DEF update_nbr_from_dio, NodeState, Plain, Multicasts
<1>3. m \in {p, r}
  BY DEF propagate_dtsn
<1> HIDE DEF o
<1>4. p \in NodeState /\ Plain(p, o)
  BY <1>2, FieldValues DEF refresh_lifetime, NodeState, Plain, Multicasts
<1> HIDE DEF p
<1>5. Increment(p.dtsn_out) \in Seqno
  BY <1>4, IncrementType DEF NodeState
<1>6. q \in NodeState /\ Plain(q, p)
  BY <1>4, <1>5 DEF NodeState, Plain, Multicasts
<1> HIDE DEF q
<1>7. Plain(r, q)
  BY <1>6, FieldNames DEF rpl_timers_schedule_dao, NodeState, Plain, Multicasts
<1> HIDE DEF r
<1>8. Shows(p, s) /\ Shows(q, p) /\ Shows(r, q)
  BY <1>2, <1>4, <1>6, <1>7, PlainShows, ShowsTransitive
<1> QED BY <1>3, <1>8, ShowsTransitive

LEMMA ProcessDioFromCurrentDagShows ==
  ASSUME NEW n, NodeInv(n), n.used, NEW from \in Node, NEW dio \in Dio, dio.dag = n.dag_id,
         NEW has_room \in BOOLEAN,
         NEW m, m = process_dio_from_current_dag(n, from, dio, has_room)
  PROVE  Shows(m, n)
<1> DEFINE o == hear_version(n, dio)
           from_parent == from \in o.nbrs /\ from = o.preferred_parent
           learnt == propagate_dtsn(
                       refresh_lifetime(update_nbr_from_dio(o, from, dio), from_parent),
                       from_parent, dio.dtsn, o.nbr_dtsn[from])
<1>1. o \in NodeState /\ Shows(o, n)
  BY HearVersion, HearVersionShows DEF NodeInv
<1>2. m \in {n, rpl_timers_dio_reset(n), o, learnt}
  BY DEF process_dio_from_current_dag
<1> HIDE DEF o
<1>3. from_parent \in BOOLEAN
  OBVIOUS
<1> HIDE DEF from_parent
<1>4. Shows(learnt, o)
  BY <1>1, <1>3, LearnShows
<1> HIDE DEF learnt
<1>5. Shows(rpl_timers_dio_reset(n), n)
  BY ResetIsPlain, PlainShows DEF NodeInv
<1>6. Shows(n, n)
  BY DEF Shows
<1> QED BY <1>1, <1>2, <1>4, <1>5, <1>6, ShowsTransitive

LEMMA ProcessDioShows ==
  ASSUME NEW n, NodeInv(n), NEW from \in Node, NEW dio \in Dio, NEW has_room \in BOOLEAN,
         dio.dag = n.id => rpl_dag_root_is_root(n),
         NEW m \in rpl_process_dio(n, from, dio, has_room)
  PROVE  Shows(m, n)
<1> DEFINE o == IF n.used THEN n ELSE process_dio_init_dag(n, dio)
           p == process_dio_from_current_dag(o, from, dio, has_room)
<1>1. /\ o = n \/ o = process_dio_init_dag(n, dio)
      /\ IF o.used /\ o.dag_id = dio.dag THEN m \in rpl_dag_update_state(p) ELSE m = o
  BY DEF rpl_process_dio
<1>2. NodeInv(o) /\ Shows(o, n)
  <2>1. CASE n.used
    BY <2>1 DEF Shows
  <2>2. CASE ~n.used
    <3>1. /\ n \in NodeState /\ ~n.leave /\ n.preferred_parent = NoNode
          /\ o = process_dio_init_dag(n, dio) /\ dio.dag # n.id
      BY <2>2 DEF NodeInv, rpl_dag_root_is_root
    <3> HIDE DEF o
    <3>2. NodeInv(o)
      BY <3>1, ProcessDioInitDag DEF NodeInv
    <3>3. Multicasts(o) = Multicasts(n) /\ (o = n \/ Showing(o))
      BY <3>1, ProcessDioInitDagShows DEF Multicasts
    <3> QED BY <3>2, <3>3, ShowingShows DEF Shows
  <2> QED BY <2>1, <2>2
<1> HIDE DEF o
<1>3. CASE o.used /\ o.dag_id = dio.dag
  <2>1. NodeInv(p) /\ Shows(p, o)
    BY <1>2, <1>3, ProcessDioFromCurrentDag, ProcessDioFromCurrentDagShows
  <2> HIDE DEF p
  <2>2. Shows(m, p)
    BY <1>1, <1>3, <2>1, UpdateShows
  <2> QED BY <1>2, <2>1, <2>2, ShowsTransitive
<1>4. CASE ~(o.used /\ o.dag_id = dio.dag)
  BY <1>1, <1>2, <1>4
<1> QED BY <1>3, <1>4
===============================================================================
