----------------------------- MODULE RplDagProofs -----------------------------
(***************************************************************************)
(* What the functions of RplDag do to the state of a node, for every value *)
(* of the constants: lemmas, one per C function, that the theorems of      *)
(* RplNodeProofs rest on.  The types of the fields (Rank, Seqno, ...) stay *)
(* unexpanded: which values are in them is settled once, by the lemma      *)
(* FieldValues.  The sequence counters come first.                         *)
(***************************************************************************)
EXTENDS RplDag, TLAPS

(* The values the code assigns to a field are in the type of the field. *)
LEMMA FieldValues ==
  /\ 0 \in Rank /\ RootRank \in Rank /\ InfiniteRank \in Rank
  /\ RootRank + MinHopRankInc \in Rank /\ RootRank + 1 \in Rank
  /\ 0 \in Seqno /\ SeqnoInit \in Seqno
  /\ 0 \in Lifetime /\ DagLifetime \in Lifetime /\ InfiniteLifetime \in Lifetime
  /\ RootRank # InfiniteRank /\ RootRank + MinHopRankInc # InfiniteRank
  /\ RootRank + 1 # InfiniteRank
BY LollipopAssumption, RankAssumption, BoundsAssumption
   DEF Rank, Seqno, SeqnoInit, Lifetime, InfiniteLifetime

LEMMA FieldNames ==
  /\ "INITIALIZED" \in DagState /\ "JOINED" \in DagState
  /\ "REACHABLE" \in DagState /\ "POISONING" \in DagState
  /\ "NO_DOWNWARD_ROUTES" \in Mop /\ "NON_STORING" \in Mop
  /\ "off" \in DaoTimer /\ "new" \in DaoTimer /\ "resend" \in DaoTimer
  /\ "refresh" \in DaoTimer
BY DEF DagState, Mop, DaoTimer

LEMMA ModRange ==
  ASSUME NEW a \in Int, NEW k \in Nat \ {0}
  PROVE  a % k \in 0 .. (k - 1)
BY SMT

(* An incremented counter is a counter. *)
LEMMA IncrementType ==
  ASSUME NEW a \in Seqno
  PROVE  Increment(a) \in Seqno
<1> DEFINE b == a + 1
           stick == MaxValue + 1
           circle == CircularRegion + 1
<1>1. /\ stick \in Nat \ {0} /\ stick - 1 = MaxValue
      /\ circle \in Nat \ {0} /\ circle - 1 \in 0 .. MaxValue
      /\ b \in Int
  BY LollipopAssumption DEF Seqno
<1>2. Increment(a) \in {b % stick, b % circle}
  BY DEF Increment
<1> HIDE DEF b, stick, circle
<1>3. b % stick \in 0 .. (stick - 1) /\ b % circle \in 0 .. (circle - 1)
  BY <1>1, ModRange
<1>4. b % stick \in 0 .. MaxValue
  BY <1>1, <1>3
<1>5. b % circle \in 0 .. MaxValue
  BY <1>1, <1>3, LollipopAssumption
<1> QED BY <1>2, <1>4, <1>5 DEF Seqno
------------------------------------------------------------------------------
(* What the callers of the counters rely on when they compare them, for     *)
(* every size of the stick, the circle and the window.                      *)

(* Remainders on the circle, once each way round. *)
LEMMA ModOfSmall ==
  ASSUME NEW k \in Nat \ {0}, NEW a \in 0 .. (k - 1)
  PROVE  a % k = a
BY SMT

LEMMA ModOfNext ==
  ASSUME NEW k \in Nat \ {0}, NEW a \in k .. (2 * k - 1)
  PROVE  a % k = a - k
BY SMT

LEMMA ModOfNegative ==
  ASSUME NEW k \in Nat \ {0}, NEW a \in (-k) .. (-1)
  PROVE  a % k = a + k
BY SMT

(* Ahead, on the circle. *)
LEMMA AheadOnCircle ==
  ASSUME NEW a \in Seqno, NEW b \in Seqno, ~OnStick(a), ~OnStick(b)
  PROVE  Ahead(a, b) = IF a <= b THEN b - a ELSE b - a + CircularRegion + 1
<1> DEFINE k == CircularRegion + 1
           d == b - a
<1>1. /\ k \in Nat \ {0} /\ d \in Int
      /\ a <= b => d \in 0 .. (k - 1)
      /\ ~(a <= b) => d \in (-k) .. (-1)
      /\ k = CircularRegion + 1
  BY LollipopAssumption DEF Seqno, OnStick
<1> HIDE DEF k, d
<1>2. a <= b => d % k = d
  BY <1>1, ModOfSmall
<1>3. ~(a <= b) => d % k = d + k
  BY <1>1, ModOfNegative
<1>4. Ahead(a, b) = d % k
  BY DEF Ahead, d, k
<1>5. d + k = b - a + CircularRegion + 1
  BY LollipopAssumption DEF d, k, Seqno
<1> QED BY <1>2, <1>3, <1>4, <1>5 DEF d

(* What an increment does, piece by piece. *)
LEMMA IncrementOutcome ==
  ASSUME NEW a \in Seqno
  PROVE  Increment(a) = CASE a = MaxValue \/ a = CircularRegion -> 0
                          [] OTHER -> a + 1
<1> DEFINE b == a + 1
           stick == MaxValue + 1
           circle == CircularRegion + 1
<1>1. /\ stick \in Nat \ {0} /\ circle \in Nat \ {0} /\ b \in Nat
      /\ stick \in stick .. (2 * stick - 1) /\ circle \in circle .. (2 * circle - 1)
      /\ CircularRegion < MaxValue
  BY LollipopAssumption DEF Seqno
<1>2. CASE a = MaxValue
  <2>1. OnStick(a) /\ b = stick
    BY <1>1, <1>2 DEF OnStick
  <2>2. Increment(a) = b % stick
    BY <2>1 DEF Increment
  <2> HIDE DEF stick, b
  <2>3. stick % stick = stick - stick
    BY <1>1, ModOfNext
  <2> QED BY <1>1, <1>2, <2>1, <2>2, <2>3
<1>3. CASE a = CircularRegion
  <2>1. ~OnStick(a) /\ b = circle
    BY <1>1, <1>3, LollipopAssumption DEF OnStick
  <2>2. Increment(a) = b % circle
    BY <2>1 DEF Increment
  <2> HIDE DEF circle, b
  <2>3. circle % circle = circle - circle
    BY <1>1, ModOfNext
  <2> QED BY <1>1, <1>3, <2>1, <2>2, <2>3
<1>4. CASE a # MaxValue /\ a # CircularRegion /\ OnStick(a)
  <2>1. b \in 0 .. (stick - 1)
    BY <1>1, <1>4, LollipopAssumption DEF Seqno
  <2>2. Increment(a) = b % stick
    BY <1>4 DEF Increment
  <2> HIDE DEF stick
  <2>3. b % stick = b
    BY <1>1, <2>1, ModOfSmall
  <2> QED BY <1>4, <2>2, <2>3
<1>5. CASE a # MaxValue /\ a # CircularRegion /\ ~OnStick(a)
  <2>1. b \in 0 .. (circle - 1)
    BY <1>1, <1>5, LollipopAssumption DEF Seqno, OnStick
  <2>2. Increment(a) = b % circle
    BY <1>5 DEF Increment
  <2> HIDE DEF circle
  <2>3. b % circle = b
    BY <1>1, <2>1, ModOfSmall
  <2> QED BY <1>5, <2>2, <2>3
<1> QED BY <1>2, <1>3, <1>4, <1>5

(* Of two counters at most one is newer than the other, so no two nodes can *)
(* each repair on the version of the other (rpl-dag.c:461, 481).            *)
THEOREM NewerIsAsymmetric ==
  ASSUME NEW a \in Seqno, NEW b \in Seqno, Greater(a, b)
  PROVE  ~Greater(b, a)
<1>1. CASE OnStick(a) \/ OnStick(b)
  BY <1>1, LollipopAssumption DEF Greater, Seqno, OnStick
<1>2. CASE ~OnStick(a) /\ ~OnStick(b)
  <2>1. /\ Ahead(a, b) = IF a <= b THEN b - a ELSE b - a + CircularRegion + 1
        /\ Ahead(b, a) = IF b <= a THEN a - b ELSE a - b + CircularRegion + 1
    BY <1>2, AheadOnCircle
  <2> HIDE DEF Ahead
  <2> QED
    BY <1>2, <2>1, LollipopAssumption DEF Greater, Seqno
<1> QED BY <1>1, <1>2

(* A counter that was incremented is newer than it was, at every value: on   *)
(* the stick, at its end, on the circle and where the circle closes.  A      *)
(* global repair (rpl-dag.c:209) is therefore always taken for a repair by   *)
(* the nodes it reaches (rpl-dag.c:481), and a refresh of the routes         *)
(* (rpl-dag.c:521) for a refresh.                                            *)
THEOREM IncrementIsNewer ==
  ASSUME NEW a \in Seqno, SequenceWindow > 1
  PROVE  Greater(Increment(a), a)
<1> DEFINE v == Increment(a)
<1>1. v = IF a = MaxValue \/ a = CircularRegion THEN 0 ELSE a + 1
  BY IncrementOutcome
<1> SUFFICES Greater(v, a)
  OBVIOUS
<1> HIDE DEF v
<1>2. v \in Seqno
  BY <1>1, LollipopAssumption DEF Seqno
<1>3. CASE OnStick(a)
  BY <1>1, <1>3, LollipopAssumption DEF Greater, Seqno, OnStick
<1>4. CASE ~OnStick(a)
  <2>1. ~OnStick(v)
    BY <1>1, <1>4, LollipopAssumption DEF Seqno, OnStick
  <2>2. Ahead(a, v) = IF a <= v THEN v - a ELSE v - a + CircularRegion + 1
    BY <1>2, <1>4, <2>1, AheadOnCircle
  <2>3. Ahead(a, v) = 1
    BY <1>1, <1>4, <2>2, LollipopAssumption DEF Seqno, OnStick
  <2> QED BY <1>4, <2>1, <2>3, LollipopAssumption DEF Greater
<1> QED BY <1>3, <1>4

(* The version an attacker of type 2 puts on the wire, its own plus 5        *)
(* (rpl-icmp6.c:400), is newer than its own at every value, across the end   *)
(* of the stick and of the circle, as long as the window is wider than 5:    *)
(* the attack never misses for want of a fitting version.                    *)
THEOREM InflatedIsNewer ==
  ASSUME NEW a \in Seqno, SequenceWindow > 5
  PROVE  Greater((a + 5) % (MaxValue + 1), a)
<1> DEFINE b == a + 5
           stick == MaxValue + 1
           v == b % stick
<1>1. /\ stick \in Nat \ {0} /\ b \in Nat
      /\ b < stick => b \in 0 .. (stick - 1)
      /\ b >= stick => b \in stick .. (2 * stick - 1)
  BY LollipopAssumption DEF Seqno
<1>2. v = IF b < stick THEN b ELSE b - stick
  <2> HIDE DEF b, stick
  <2>1. b < stick => b % stick = b
    BY <1>1, ModOfSmall
  <2>2. b >= stick => b % stick = b - stick
    BY <1>1, ModOfNext
  <2> QED BY <1>1, <2>1, <2>2
<1> SUFFICES Greater(v, a)
  OBVIOUS
<1> HIDE DEF v
<1>3. v = IF a + 5 < MaxValue + 1 THEN a + 5 ELSE a + 5 - (MaxValue + 1)
  BY <1>2, LollipopAssumption DEF Seqno
<1>4. v \in Seqno
  BY <1>3, LollipopAssumption DEF Seqno
<1>5. CASE OnStick(a) \/ OnStick(v)
  <2>1. CASE OnStick(a) /\ OnStick(v)
    BY <1>3, <2>1, LollipopAssumption DEF Greater, Seqno, OnStick
  <2>2. CASE OnStick(a) /\ ~OnStick(v)
    BY <1>3, <2>2, LollipopAssumption DEF Greater, Seqno, OnStick
  <2>3. CASE ~OnStick(a) /\ OnStick(v)
    <3>1. v = a + 5 /\ MaxValue + 1 + a - v > SequenceWindow
      BY <1>3, <2>3, LollipopAssumption DEF Seqno, OnStick
    <3> QED BY <2>3, <3>1 DEF Greater
  <2> QED BY <1>5, <2>1, <2>2, <2>3
<1>6. CASE ~OnStick(a) /\ ~OnStick(v)
  <2>1. Ahead(a, v) = IF a <= v THEN v - a ELSE v - a + CircularRegion + 1
    BY <1>4, <1>6, AheadOnCircle
  <2>2. Ahead(a, v) = 5
    BY <1>3, <1>6, <2>1, LollipopAssumption DEF Seqno, OnStick
  <2> QED BY <1>6, <2>2, LollipopAssumption DEF Greater
<1> QED BY <1>5, <1>6
------------------------------------------------------------------------------
(* What holds of a node whenever no handler runs. *)
NodeInv(n) ==
  /\ n \in NodeState
  \* armed to leave only without a parent
  /\ n.leave => n.preferred_parent = NoNode
  \* the parent is in the table
  /\ n.preferred_parent \in n.nbrs \cup {NoNode}
  \* joined only with a parent
  /\ n.used /\ n.dag_id # n.id /\ n.state \in {"JOINED", "REACHABLE"}
       => n.preferred_parent # NoNode
  \* outside of a DAG there is no parent and nothing to leave
  /\ ~n.used => ~n.leave /\ n.preferred_parent = NoNode
  \* the root is the root
  /\ n.used /\ n.dag_id = n.id /\ n.state # "POISONING" =>
       /\ n.rank = RootRank /\ n.preferred_parent = NoNode
       /\ n.state = "REACHABLE" /\ ~n.leave

(* What identifies a membership of a DAG. *)
SameMembership(m, n) ==
  /\ m.id = n.id /\ m.used = n.used /\ m.dag_id = n.dag_id
  /\ m.version = n.version /\ m.mop = n.mop

(* What arming a timer, or resetting the DIO timer, leaves alone. *)
SameButTimers(m, n) ==
  /\ m \in NodeState /\ SameMembership(m, n)
  /\ m.preferred_parent = n.preferred_parent
  /\ m.unprocessed_parent_switch = n.unprocessed_parent_switch
  /\ m.state = n.state /\ m.rank = n.rank /\ m.lifetime = n.lifetime
  /\ m.nbrs = n.nbrs /\ m.leave = n.leave

LEMMA Timers ==
  ASSUME NEW n \in NodeState
  PROVE  /\ SameButTimers(rpl_timers_dio_reset(n), n)
         /\ SameButTimers(rpl_timers_schedule_state_update(n), n)
         /\ SameButTimers(rpl_timers_schedule_periodic_dis(n), n)
         /\ SameButTimers(rpl_timers_schedule_unicast_dio(n), n)
         /\ SameButTimers(rpl_timers_schedule_dao(n), n)
         /\ SameButTimers(rpl_timers_notify_dao_ack(n), n)
<1> USE DEF SameButTimers, SameMembership, NodeState
<1>1. SameButTimers(rpl_timers_dio_reset(n), n)
  BY DEF rpl_timers_dio_reset
<1>2. SameButTimers(rpl_timers_schedule_state_update(n), n)
  BY DEF rpl_timers_schedule_state_update
<1>3. SameButTimers(rpl_timers_schedule_periodic_dis(n), n)
  BY DEF rpl_timers_schedule_periodic_dis
<1>4. SameButTimers(rpl_timers_schedule_unicast_dio(n), n)
  BY DEF rpl_timers_schedule_unicast_dio
<1>5. SameButTimers(rpl_timers_schedule_dao(n), n)
  BY FieldNames DEF rpl_timers_schedule_dao
<1>6. SameButTimers(rpl_timers_notify_dao_ack(n), n)
  BY FieldNames DEF rpl_timers_notify_dao_ack
<1> QED BY <1>1, <1>2, <1>3, <1>4, <1>5, <1>6

(* Choosing a parent changes the parent, and records that it did. *)
LEMMA SetParent ==
  ASSUME NEW n \in NodeState, NEW p \in Node \cup {NoNode},
         NEW m, m = rpl_neighbor_set_preferred_parent(n, p)
  PROVE  /\ m \in NodeState /\ SameMembership(m, n)
         /\ m.preferred_parent = p
         /\ n.unprocessed_parent_switch \/ p # n.preferred_parent => m.unprocessed_parent_switch
         /\ m.state = n.state /\ m.rank = n.rank /\ m.leave = n.leave /\ m.nbrs = n.nbrs
BY DEF rpl_neighbor_set_preferred_parent, NodeState, SameMembership

(* Emptying the table leaves no parent and touches no timer. *)
LEMMA RemoveAll ==
  ASSUME NEW n \in NodeState, NEW m, m = rpl_neighbor_remove_all(n)
  PROVE  /\ m \in NodeState /\ SameMembership(m, n)
         /\ m.preferred_parent = NoNode /\ m.nbrs = {}
         /\ m.state = n.state /\ m.rank = n.rank /\ m.leave = n.leave
BY FieldValues DEF rpl_neighbor_remove_all, rpl_neighbor_set_preferred_parent, NodeState, SameMembership

(* Poisoning takes the parent away and may arm the leave timer. *)
LEMMA Poison ==
  ASSUME NEW n \in NodeState, NEW m, m = poison(n)
  PROVE  /\ m \in NodeState /\ SameMembership(m, n)
         /\ m.preferred_parent = NoNode /\ m.nbrs = n.nbrs /\ m.state = n.state
<1> DEFINE o == rpl_neighbor_set_preferred_parent(n, NoNode)
           p == [o EXCEPT !.rank = InfiniteRank]
<1>1. /\ o \in NodeState /\ SameMembership(o, n)
      /\ o.preferred_parent = NoNode /\ o.nbrs = n.nbrs /\ o.state = n.state
  BY SetParent
<1> HIDE DEF o
<1>2. /\ p \in NodeState /\ SameMembership(p, n)
      /\ p.preferred_parent = NoNode /\ p.nbrs = n.nbrs /\ p.state = n.state
  BY <1>1, FieldValues DEF NodeState, SameMembership
<1> HIDE DEF p
<1> DEFINE q == rpl_timers_schedule_leaving(rpl_timers_dio_reset(p))
<1>3. /\ q \in NodeState /\ SameMembership(q, n)
      /\ q.preferred_parent = NoNode /\ q.nbrs = n.nbrs /\ q.state = n.state
  BY <1>2 DEF rpl_timers_schedule_leaving, rpl_timers_dio_reset, NodeState, SameMembership
<1>4. m \in {p, q}
  BY DEF poison, o, p
<1> QED BY <1>2, <1>3, <1>4
------------------------------------------------------------------------------
(* rpl_dag_update_state *)

(* The rank through a neighbor is a rank. *)
LEMMA RankViaNbr ==
  ASSUME NEW n \in NodeState, NEW b, NEW cost \in [n.nbrs -> LinkCosts]
  PROVE  rpl_neighbor_rank_via_nbr(n, b, cost) \in Rank
<1>1. CASE b \in n.nbrs
  <2>1. n.nbr_rank[b] \in Rank
    BY <1>1 DEF NodeState
  <2>2. cost[b] \in 1 .. InfiniteRank
    BY <1>1, RankAssumption
  <2> QED
    BY <2>1, <2>2, RankAssumption DEF rpl_neighbor_rank_via_nbr, Rank
<1>2. CASE b \notin n.nbrs
  BY <1>2, FieldValues DEF rpl_neighbor_rank_via_nbr
<1> QED BY <1>1, <1>2

(* Taking the rank through another parent changes nothing else. *)
LEMMA TakeParent ==
  ASSUME NEW n \in NodeState, NEW b \in n.nbrs \cup {NoNode},
         NEW cost \in [n.nbrs -> LinkCosts],
         NEW m, m = take_parent(n, b, cost)
  PROVE  /\ m \in NodeState /\ SameMembership(m, n)
         /\ m.preferred_parent = b
         /\ n.unprocessed_parent_switch \/ b # n.preferred_parent => m.unprocessed_parent_switch
         /\ m.state = n.state /\ m.leave = n.leave /\ m.nbrs = n.nbrs
<1> DEFINE o == rpl_neighbor_set_preferred_parent(n, b)
           r == rpl_neighbor_rank_via_nbr(n, b, cost)
<1>1. b \in Node \cup {NoNode}
  BY DEF NodeState
<1>2. /\ o \in NodeState /\ SameMembership(o, n)
      /\ o.preferred_parent = b
      /\ n.unprocessed_parent_switch \/ b # n.preferred_parent => o.unprocessed_parent_switch
      /\ o.state = n.state /\ o.leave = n.leave /\ o.nbrs = n.nbrs
  BY <1>1, SetParent
<1>3. r \in Rank
  BY RankViaNbr
<1>4. m = [o EXCEPT !.rank = r]
  BY DEF take_parent
<1> HIDE DEF o, r
<1> QED BY <1>2, <1>3, <1>4 DEF NodeState, SameMembership

(* What selecting a parent, and an attack on the selection, may change. *)
Reselected(m, n) ==
  /\ m \in NodeState /\ SameMembership(m, n)
  /\ m.preferred_parent \in n.nbrs \cup {NoNode}
  /\ n.unprocessed_parent_switch \/ m.preferred_parent # n.preferred_parent
       => m.unprocessed_parent_switch
  /\ m.state = n.state /\ m.leave = n.leave /\ m.nbrs = n.nbrs

LEMMA Attack ==
  ASSUME NEW n \in NodeState, NEW o, Reselected(o, n), NEW cost \in [n.nbrs -> LinkCosts],
         NEW m \in attack(o, cost)
  PROVE  Reselected(m, n)
<1>1. o \in NodeState /\ o.nbrs = n.nbrs
  BY DEF Reselected
<1>2. CASE m = o
  BY <1>2
<1>3. CASE \E r \in Rank : m = [o EXCEPT !.rank = r]
  BY <1>1, <1>3 DEF Reselected, NodeState, SameMembership
<1>4. CASE \E w \in worst_parents(o, cost) : m = take_parent(o, w, cost)
  <2>1. PICK w \in worst_parents(o, cost) : m = take_parent(o, w, cost)
    BY <1>4
  <2>2. w \in o.nbrs
    BY DEF worst_parents
  <2>3. /\ m \in NodeState /\ SameMembership(m, o)
        /\ m.preferred_parent = w
        /\ o.unprocessed_parent_switch \/ w # o.preferred_parent => m.unprocessed_parent_switch
        /\ m.state = o.state /\ m.leave = o.leave /\ m.nbrs = o.nbrs
    BY <1>1, <2>1, <2>2, TakeParent
  <2> QED BY <1>1, <2>2, <2>3 DEF Reselected, SameMembership
<1> QED
  BY <1>2, <1>3, <1>4, FieldValues DEF attack

LEMMA Reselect ==
  ASSUME NEW n \in NodeState, NEW cost \in [n.nbrs -> LinkCosts], NEW m \in reselect(n, cost)
  PROVE  Reselected(m, n)
<1>1. PICK best \in rpl_neighbor_select_best(n, cost) : m \in attack(take_parent(n, best, cost), cost)
  BY DEF reselect
<1>2. best \in n.nbrs \cup {NoNode}
  BY DEF rpl_neighbor_select_best
<1> DEFINE o == take_parent(n, best, cost)
<1>3. /\ o \in NodeState /\ SameMembership(o, n)
      /\ o.preferred_parent = best
      /\ n.unprocessed_parent_switch \/ best # n.preferred_parent => o.unprocessed_parent_switch
      /\ o.state = n.state /\ o.leave = n.leave /\ o.nbrs = n.nbrs
  BY <1>2, TakeParent
<1> HIDE DEF o
<1>4. Reselected(o, n)
  BY <1>2, <1>3 DEF Reselected
<1> QED BY <1>1, <1>4, Attack DEF o

(* What keeping the lowest and the advertised rank may change. *)
LEMMA TrackRank ==
  ASSUME NEW n \in NodeState, NEW old_parent,
         NEW m, m = track_advertised_rank(track_lowest_rank(n, old_parent))
  PROVE  /\ m \in NodeState /\ SameMembership(m, n)
         /\ m.preferred_parent = n.preferred_parent
         /\ m.unprocessed_parent_switch = n.unprocessed_parent_switch
         /\ m.state = n.state /\ m.leave = n.leave /\ m.nbrs = n.nbrs
<1> DEFINE o == track_lowest_rank(n, old_parent)
<1>1. /\ o \in NodeState /\ SameMembership(o, n)
      /\ o.preferred_parent = n.preferred_parent
      /\ o.unprocessed_parent_switch = n.unprocessed_parent_switch
      /\ o.state = n.state /\ o.leave = n.leave /\ o.nbrs = n.nbrs
  BY DEF track_lowest_rank, NodeState, SameMembership
<1> HIDE DEF o
<1>2. m = track_advertised_rank(o)
  BY DEF o
<1> DEFINE p == [o EXCEPT !.last_advertised_rank = o.rank]
<1>3. /\ p \in NodeState /\ SameMembership(p, o)
      /\ p.preferred_parent = o.preferred_parent
      /\ p.unprocessed_parent_switch = o.unprocessed_parent_switch
      /\ p.state = o.state /\ p.leave = o.leave /\ p.nbrs = o.nbrs
  BY <1>1 DEF NodeState, SameMembership
<1>4. m \in {o, rpl_timers_dio_reset(p)}
  BY <1>2 DEF track_advertised_rank
<1> HIDE DEF p
<1>5. SameButTimers(rpl_timers_dio_reset(p), p)
  BY <1>3, Timers
<1> QED
  BY <1>1, <1>3, <1>4, <1>5 DEF SameButTimers, SameMembership

(* A parent switch that is noted is processed: a node left without a parent *)
(* prepares to leave, one that found a parent no longer does.               *)
LEMMA ProcessSwitch ==
  ASSUME NEW n \in NodeState, NEW old_parent,
         NEW m, m = process_parent_switch(n, old_parent)
  PROVE  /\ m \in NodeState /\ SameMembership(m, n)
         /\ m.preferred_parent = n.preferred_parent /\ m.nbrs = n.nbrs
         /\ ~n.unprocessed_parent_switch => m = n
         /\ n.unprocessed_parent_switch /\ n.preferred_parent = NoNode
              => m.state = "INITIALIZED" /\ m.leave
         /\ n.unprocessed_parent_switch /\ n.preferred_parent # NoNode /\ old_parent = NoNode
              => m.state = "JOINED" /\ ~m.leave
         /\ n.unprocessed_parent_switch /\ n.preferred_parent # NoNode /\ old_parent # NoNode
              => m.state = n.state /\ m.leave = n.leave
<1> DEFINE processed(o) == [o EXCEPT !.unprocessed_parent_switch = FALSE]
<1>0. ASSUME NEW o \in NodeState
      PROVE  /\ processed(o) \in NodeState /\ SameMembership(processed(o), o)
             /\ processed(o).preferred_parent = o.preferred_parent
             /\ processed(o).state = o.state /\ processed(o).leave = o.leave
             /\ processed(o).nbrs = o.nbrs
  BY DEF NodeState, SameMembership
<1>1. CASE ~n.unprocessed_parent_switch
  BY <1>1 DEF process_parent_switch, SameMembership
<1>2. CASE n.unprocessed_parent_switch /\ n.preferred_parent = NoNode
  <2> DEFINE o == [n EXCEPT !.state = "INITIALIZED"]
             p == rpl_timers_schedule_periodic_dis(rpl_timers_dio_reset(o))
             q == rpl_timers_schedule_leaving(p)
  <2>1. /\ o \in NodeState /\ SameMembership(o, n) /\ o.state = "INITIALIZED"
        /\ o.preferred_parent = n.preferred_parent /\ o.nbrs = n.nbrs
    BY FieldNames DEF NodeState, SameMembership
  <2> HIDE DEF o
  <2>2. SameButTimers(rpl_timers_dio_reset(o), o)
    BY <2>1, Timers
  <2>3. SameButTimers(p, rpl_timers_dio_reset(o))
    BY <2>2, Timers DEF SameButTimers
  <2> HIDE DEF p
  <2>4. /\ q \in NodeState /\ SameMembership(q, p) /\ q.state = p.state /\ q.leave
        /\ q.preferred_parent = p.preferred_parent /\ q.nbrs = p.nbrs
    BY <2>3 DEF rpl_timers_schedule_leaving, SameButTimers, NodeState, SameMembership
  <2>5. m = processed(q)
    BY <1>2 DEF process_parent_switch, lost_parent, o, p
  <2> HIDE DEF q, processed
  <2> QED
    BY <1>0, <1>2, <2>1, <2>2, <2>3, <2>4, <2>5 DEF SameButTimers, SameMembership
<1>3. CASE n.unprocessed_parent_switch /\ n.preferred_parent # NoNode /\ old_parent = NoNode
  <2> DEFINE o == [n EXCEPT !.state = "JOINED"]
             p == rpl_timers_dio_reset(o)
             q == rpl_timers_unschedule_leaving(p)
             r == rpl_timers_schedule_dao(q)
  <2>1. /\ o \in NodeState /\ SameMembership(o, n) /\ o.state = "JOINED"
        /\ o.preferred_parent = n.preferred_parent /\ o.nbrs = n.nbrs
    BY FieldNames DEF NodeState, SameMembership
  <2> HIDE DEF o
  <2>2. SameButTimers(p, o)
    BY <2>1, Timers
  <2> HIDE DEF p
  <2>3. /\ q \in NodeState /\ SameMembership(q, p) /\ q.state = p.state /\ ~q.leave
        /\ q.preferred_parent = p.preferred_parent /\ q.nbrs = p.nbrs
    BY <2>2 DEF rpl_timers_unschedule_leaving, SameButTimers, NodeState, SameMembership
  <2> HIDE DEF q
  <2>4. SameButTimers(r, q)
    BY <2>3, Timers
  <2>5. m = processed(r)
    BY <1>3 DEF process_parent_switch, got_parent, o, p, q
  <2> HIDE DEF r, processed
  <2> QED
    BY <1>0, <1>3, <2>1, <2>2, <2>3, <2>4, <2>5 DEF SameButTimers, SameMembership
<1>4. CASE n.unprocessed_parent_switch /\ n.preferred_parent # NoNode /\ old_parent # NoNode
  <2> DEFINE o == rpl_timers_schedule_dao(n)
  <2>1. SameButTimers(o, n)
    BY Timers
  <2>2. m = processed(o)
    BY <1>4 DEF process_parent_switch
  <2> HIDE DEF o, processed
  <2> QED
    BY <1>0, <1>4, <2>1, <2>2 DEF SameButTimers, SameMembership
<1> QED BY <1>1, <1>2, <1>3, <1>4

(* Bringing the state of a node up to date keeps the invariant. *)
LEMMA UpdateStateInv ==
  ASSUME NEW n, NodeInv(n), NEW m \in rpl_dag_update_state(n)
  PROVE  NodeInv(m) /\ SameMembership(m, n) /\ m.nbrs = n.nbrs
<1> DEFINE o == [n EXCEPT !.state_update = FALSE]
<1>1. o \in NodeState /\ NodeInv(o) /\ SameMembership(o, n) /\ o.nbrs = n.nbrs
  BY DEF NodeInv, NodeState, SameMembership
<1>2. o.preferred_parent = n.preferred_parent /\ o.state = n.state /\ o.leave = n.leave
  BY DEF NodeInv, NodeState
<1> HIDE DEF o
<1>3. CASE m = n
  BY <1>3 DEF SameMembership
<1>4. CASE m = o
  BY <1>1, <1>4
<1>5. CASE n.used /\ n.state = "POISONING" /\ m = poison(o)
  <2>1. /\ m \in NodeState /\ SameMembership(m, o)
        /\ m.preferred_parent = NoNode /\ m.nbrs = o.nbrs /\ m.state = o.state
    BY <1>1, <1>5, Poison
  <2> QED
    BY <1>1, <1>2, <1>5, <2>1 DEF NodeInv, SameMembership
<1>6. CASE /\ n.used /\ n.state # "POISONING" /\ n.dag_id # n.id
           /\ \E cost \in [n.nbrs -> LinkCosts] : \E p \in reselect(o, cost) :
                m = after_reselect(p, n.preferred_parent)
  <2> PICK cost \in [o.nbrs -> LinkCosts] : \E p \in reselect(o, cost) :
          m = after_reselect(p, n.preferred_parent)
    BY <1>1, <1>6
  <2>1. PICK p \in reselect(o, cost) : m = after_reselect(p, n.preferred_parent)
    OBVIOUS
  <2>2. Reselected(p, o)
    BY <1>1, <2>1, Reselect
  <2> DEFINE q == track_advertised_rank(track_lowest_rank(p, n.preferred_parent))
  <2>3. p \in NodeState
    BY <2>2 DEF Reselected
  <2>4. /\ q \in NodeState /\ SameMembership(q, p)
        /\ q.preferred_parent = p.preferred_parent
        /\ q.unprocessed_parent_switch = p.unprocessed_parent_switch
        /\ q.state = p.state /\ q.leave = p.leave /\ q.nbrs = p.nbrs
    BY <2>3, TrackRank
  <2> HIDE DEF q
  <2>5. m = process_parent_switch(q, n.preferred_parent)
    BY <2>1 DEF after_reselect, q
  <2>6. /\ m \in NodeState /\ SameMembership(m, q)
        /\ m.preferred_parent = q.preferred_parent /\ m.nbrs = q.nbrs
        /\ ~q.unprocessed_parent_switch => m = q
        /\ q.unprocessed_parent_switch /\ q.preferred_parent = NoNode
             => m.state = "INITIALIZED" /\ m.leave
        /\ q.unprocessed_parent_switch /\ q.preferred_parent # NoNode /\ n.preferred_parent = NoNode
             => m.state = "JOINED" /\ ~m.leave
        /\ q.unprocessed_parent_switch /\ q.preferred_parent # NoNode /\ n.preferred_parent # NoNode
             => m.state = q.state /\ m.leave = q.leave
    BY <2>4, <2>5, ProcessSwitch
  <2>7. SameMembership(m, n) /\ m.nbrs = n.nbrs
    BY <1>1, <2>2, <2>4, <2>6 DEF Reselected, SameMembership
  <2>8. m.preferred_parent \in m.nbrs \cup {NoNode}
    BY <1>1, <2>2, <2>4, <2>6 DEF Reselected
  <2>9. m.leave => m.preferred_parent = NoNode
    BY <1>1, <1>2, <2>2, <2>4, <2>6 DEF Reselected, NodeInv
  <2>10. m.state \in {"JOINED", "REACHABLE"} => m.preferred_parent # NoNode
    BY <1>1, <1>2, <1>6, <2>2, <2>4, <2>6 DEF Reselected, NodeInv, SameMembership
  <2> QED
    BY <1>6, <2>6, <2>7, <2>8, <2>9, <2>10 DEF NodeInv, SameMembership
<1> QED
  BY <1>3, <1>4, <1>5, <1>6 DEF rpl_dag_update_state, rpl_dag_root_is_root, o
------------------------------------------------------------------------------
(* Output *)

(* Sending a message changes nothing but what is observed of the handler. *)
LEMMA Sending ==
  ASSUME NEW n, NodeInv(n), NEW msg \in Message, NEW m, m = Send(n, msg)
  PROVE  NodeInv(m) /\ SameMembership(m, n)
<1>1. n \in NodeState
  BY DEF NodeInv
<1>2. /\ m \in NodeState /\ SameMembership(m, n)
      /\ m.preferred_parent = n.preferred_parent /\ m.state = n.state /\ m.rank = n.rank
      /\ m.leave = n.leave /\ m.nbrs = n.nbrs
  BY <1>1 DEF Send, NodeState, SameMembership
<1> QED BY <1>2 DEF NodeInv, SameMembership

LEMMA AdvertisedVersion ==
  ASSUME NEW n \in NodeState
  PROVE  advertised_version(n) \in Seqno
<1> DEFINE b == n.version + 5
           stick == MaxValue + 1
<1>1. stick \in Nat \ {0} /\ stick - 1 = MaxValue /\ n.version \in Seqno /\ b \in Int
  BY LollipopAssumption DEF NodeState, Seqno
<1>2. advertised_version(n) \in {n.version, b % stick}
  BY DEF advertised_version
<1> HIDE DEF b, stick
<1>3. b % stick \in 0 .. (stick - 1)
  BY <1>1, ModRange
<1>4. b % stick \in Seqno
  BY <1>1, <1>3 DEF Seqno
<1> QED BY <1>1, <1>2, <1>4

LEMMA DioOutput ==
  ASSUME NEW n, NodeInv(n), NEW to \in Node \cup {All}, NEW m \in rpl_icmp6_dio_output(n, to)
  PROVE  NodeInv(m) /\ SameMembership(m, n)
<1> DEFINE msg(o) == [type |-> "DIO", to |-> to, rank |-> o.rank,
                      version |-> advertised_version(o), dtsn |-> o.dtsn_out]
<1>1. PICK o \in rpl_dag_update_state(n) : m = Send(o, msg(o))
  BY DEF rpl_icmp6_dio_output
<1>2. NodeInv(o) /\ SameMembership(o, n)
  BY UpdateStateInv
<1>3. o.rank \in Rank /\ o.dtsn_out \in Seqno /\ advertised_version(o) \in Seqno
  BY <1>2, AdvertisedVersion DEF NodeInv, NodeState
<1>4. msg(o) \in Message
  BY <1>3 DEF Message
<1> HIDE DEF msg
<1>5. NodeInv(m) /\ SameMembership(m, o)
  BY <1>1, <1>2, <1>4, Sending
<1> QED BY <1>2, <1>5 DEF SameMembership

LEMMA DisOutput ==
  ASSUME NEW n, NodeInv(n), NEW to \in Node \cup {All}, NEW m \in rpl_icmp6_dis_output(n, to)
  PROVE  NodeInv(m) /\ SameMembership(m, n)
<1> DEFINE msg == [type |-> "DIS", to |-> to]
<1>1. PICK o \in rpl_dag_update_state(n) : m = Send(o, msg)
  BY DEF rpl_icmp6_dis_output
<1>2. NodeInv(o) /\ SameMembership(o, n)
  BY UpdateStateInv
<1>3. msg \in Message
  BY DEF Message
<1> HIDE DEF msg
<1>4. NodeInv(m) /\ SameMembership(m, o)
  BY <1>1, <1>2, <1>3, Sending
<1> QED BY <1>2, <1>4 DEF SameMembership

LEMMA DaoOutput ==
  ASSUME NEW n, NodeInv(n), NEW lifetime \in {0, 1}, NEW m \in rpl_icmp6_dao_output(n, lifetime)
  PROVE  NodeInv(m) /\ SameMembership(m, n)
<1> DEFINE msg(o) == [type |-> "DAO", parent |-> n.preferred_parent,
                      seqno |-> o.dao_last_seqno, lifetime |-> lifetime]
<1>1. PICK o \in rpl_dag_update_state(n) :
        m = o \/ (m = Send(o, msg(o)) /\ n.preferred_parent # NoNode)
  BY DEF rpl_icmp6_dao_output
<1>2. NodeInv(o) /\ SameMembership(o, n)
  BY UpdateStateInv
<1>3. CASE m = o
  BY <1>2, <1>3
<1>4. CASE m = Send(o, msg(o)) /\ n.preferred_parent # NoNode
  <2>1. n.preferred_parent \in Node /\ o.dao_last_seqno \in Seqno
    BY <1>2, <1>4 DEF NodeInv, NodeState
  <2>2. msg(o) \in Message
    BY <2>1 DEF Message
  <2> HIDE DEF msg
  <2>3. NodeInv(m) /\ SameMembership(m, o)
    BY <1>2, <1>4, <2>2, Sending
  <2> QED BY <1>2, <2>3 DEF SameMembership
<1> QED BY <1>1, <1>3, <1>4
------------------------------------------------------------------------------
(* Leaving and repairing *)

(* Stopping the timers disarms the leave timer. *)
LEMMA StopTimers ==
  ASSUME NEW n \in NodeState, NEW m, m = rpl_timers_stop_dag_timers(n)
  PROVE  /\ m \in NodeState /\ SameMembership(m, n) /\ ~m.leave
         /\ m.preferred_parent = n.preferred_parent /\ m.nbrs = n.nbrs
         /\ m.state = n.state /\ m.rank = n.rank
BY FieldNames DEF rpl_timers_stop_dag_timers, NodeState, SameMembership

(* A node that leaves is out of the DAG. *)
LEMMA LeaveInv ==
  ASSUME NEW n, NodeInv(n), NEW m \in rpl_dag_leave(n)
  PROVE  NodeInv(m) /\ m.id = n.id /\ ~m.used
<1> DEFINE i == [n EXCEPT !.dao_last_seqno = Increment(n.dao_last_seqno)]
           said == IF rpl_dag_root_is_root(n) THEN {n} ELSE rpl_icmp6_dao_output(i, 0)
<1>1. n \in NodeState /\ Increment(n.dao_last_seqno) \in Seqno
  BY IncrementType DEF NodeInv, NodeState
<1>2. NodeInv(i) /\ i.id = n.id
  BY <1>1 DEF NodeInv, NodeState
<1>3. PICK o \in said :
        m = [rpl_timers_stop_dag_timers(rpl_neighbor_remove_all(o)) EXCEPT !.used = FALSE]
  BY DEF rpl_dag_leave
<1> HIDE DEF i
<1>4. NodeInv(o) /\ o.id = n.id
  BY <1>2, <1>3, DaoOutput DEF SameMembership
<1> HIDE DEF said
<1> DEFINE p == rpl_neighbor_remove_all(o)
           q == rpl_timers_stop_dag_timers(p)
<1>5. p \in NodeState /\ p.id = n.id /\ p.preferred_parent = NoNode
  BY <1>4, RemoveAll DEF NodeInv, SameMembership
<1> HIDE DEF p
<1>6. q \in NodeState /\ q.id = n.id /\ q.preferred_parent = NoNode /\ ~q.leave
  BY <1>5, StopTimers DEF SameMembership
<1>7. m = [q EXCEPT !.used = FALSE]
  BY <1>3 DEF p
<1> HIDE DEF q
<1> QED BY <1>6, <1>7 DEF NodeInv, NodeState

LEMMA PoisonAndLeaveInv ==
  ASSUME NEW n, NodeInv(n), NEW m, m = rpl_dag_poison_and_leave(n)
  PROVE  NodeInv(m) /\ SameMembership(m, n)
<1> DEFINE o == [n EXCEPT !.state = "POISONING"]
<1>1. /\ o \in NodeState /\ SameMembership(o, n) /\ o.state = "POISONING"
      /\ o.preferred_parent = n.preferred_parent /\ o.leave = n.leave /\ o.nbrs = n.nbrs
  BY FieldNames DEF NodeInv, NodeState, SameMembership
<1>2. m = rpl_timers_schedule_state_update(o)
  BY DEF rpl_dag_poison_and_leave
<1> HIDE DEF o
<1>3. SameButTimers(m, o)
  BY <1>1, <1>2, Timers
<1> QED BY <1>1, <1>3 DEF NodeInv, SameButTimers, SameMembership

(* A local repair leaves no parent behind, and a root as it was.  It makes  *)
(* good what a handler did before to the state of a node in a DAG.          *)
LEMMA LocalRepairInv ==
  ASSUME NEW n \in NodeState, ~n.used \/ rpl_dag_root_is_root(n) => NodeInv(n),
         NEW m, m = rpl_local_repair(n)
  PROVE  NodeInv(m) /\ SameMembership(m, n)
<1>1. CASE ~n.used
  BY <1>1 DEF rpl_local_repair, SameMembership
<1>2. CASE n.used
  <2> DEFINE o == IF rpl_dag_root_is_root(n) THEN n ELSE [n EXCEPT !.state = "INITIALIZED"]
             p == rpl_neighbor_remove_all(o)
             q == rpl_timers_dio_reset(p)
  <2>1. /\ o \in NodeState /\ SameMembership(o, n) /\ o.rank = n.rank
        /\ o.preferred_parent = n.preferred_parent /\ o.leave = n.leave
        /\ o.state = IF rpl_dag_root_is_root(n) THEN n.state ELSE "INITIALIZED"
    BY FieldNames DEF NodeState, SameMembership
  <2> HIDE DEF o
  <2>2. /\ p \in NodeState /\ SameMembership(p, o) /\ p.preferred_parent = NoNode
        /\ p.nbrs = {} /\ p.state = o.state /\ p.rank = o.rank /\ p.leave = o.leave
    BY <2>1, RemoveAll
  <2> HIDE DEF p
  <2>3. SameButTimers(q, p)
    BY <2>2, Timers
  <2>4. m = rpl_timers_schedule_state_update(q)
    BY <1>2 DEF rpl_local_repair, o, p
  <2> HIDE DEF q
  <2>5. SameButTimers(m, q)
    BY <2>3, <2>4, Timers DEF SameButTimers
  <2>6. SameMembership(m, n) /\ m \in NodeState /\ m.preferred_parent = NoNode
    BY <2>1, <2>2, <2>3, <2>5 DEF SameButTimers, SameMembership
  <2>7. m.state = o.state /\ m.rank = n.rank /\ m.leave = n.leave
    BY <2>1, <2>2, <2>3, <2>5 DEF SameButTimers
  <2> QED
    BY <1>2, <2>1, <2>6, <2>7 DEF NodeInv, SameMembership, rpl_dag_root_is_root
<1> QED BY <1>1, <1>2 DEF NodeState

LEMMA GlobalRepairInv ==
  ASSUME NEW n, NodeInv(n), NEW m, m = rpl_global_repair(n)
  PROVE  /\ NodeInv(m) /\ m.id = n.id /\ m.used = n.used /\ m.dag_id = n.dag_id
         /\ ~rpl_dag_root_is_root(n) => m = n
<1>1. CASE ~rpl_dag_root_is_root(n)
  BY <1>1 DEF rpl_global_repair
<1>2. CASE rpl_dag_root_is_root(n)
  <2> DEFINE o == [n EXCEPT !.version = Increment(n.version), !.dtsn_out = SeqnoInit]
  <2>1. Increment(n.version) \in Seqno
    BY IncrementType DEF NodeInv, NodeState
  <2>2. NodeInv(o) /\ o.id = n.id /\ o.used = n.used /\ o.dag_id = n.dag_id
    BY <2>1, FieldValues DEF NodeInv, NodeState
  <2> HIDE DEF o
  <2>3. m = rpl_local_repair(o)
    BY <1>2 DEF rpl_global_repair, o
  <2> QED BY <1>2, <2>2, <2>3, LocalRepairInv DEF SameMembership, NodeInv
<1> QED BY <1>1, <1>2

LEMMA RefreshRoutesInv ==
  ASSUME NEW n, NodeInv(n), NEW m, m = rpl_refresh_routes(n)
  PROVE  NodeInv(m) /\ SameMembership(m, n)
<1>1. Increment(n.dtsn_out) \in Seqno
  BY IncrementType DEF NodeInv, NodeState
<1> QED BY <1>1 DEF rpl_refresh_routes, NodeInv, NodeState, SameMembership
------------------------------------------------------------------------------
(* Joining *)

(* A zeroed node is in no DAG; its table and its timers are as they were. *)
LEMMA Zeroed ==
  ASSUME NEW n \in NodeState, NEW m, m = zeroed(n)
  PROVE  /\ m \in NodeState /\ m.id = n.id /\ ~m.used /\ m.preferred_parent = NoNode
         /\ m.leave = n.leave /\ m.nbrs = n.nbrs
<1>1. 0 \in Seqno /\ 0 \in Rank /\ 0 \in Lifetime /\ 0 \in Nat
  BY FieldValues
<1>2. "NO_DOWNWARD_ROUTES" \in Mop /\ "INITIALIZED" \in DagState
  BY FieldNames
<1> QED BY <1>1, <1>2 DEF zeroed, NodeState

(* A node that joins has no parent yet. *)
LEMMA InitDag ==
  ASSUME NEW n \in NodeState, NEW dag_id \in Node, NEW m, m = init_dag(n, dag_id)
  PROVE  /\ m \in NodeState /\ m.id = n.id /\ m.used /\ m.dag_id = dag_id
         /\ m.preferred_parent = NoNode /\ m.state = "INITIALIZED"
         /\ m.leave = n.leave /\ m.nbrs = n.nbrs
<1> DEFINE o == zeroed(n)
<1>1. /\ o \in NodeState /\ o.id = n.id /\ o.preferred_parent = NoNode
      /\ o.leave = n.leave /\ o.nbrs = n.nbrs
  BY Zeroed
<1>2. o.state = "INITIALIZED"
  BY DEF zeroed, NodeState
<1>3. m = [o EXCEPT !.used = TRUE, !.dag_id = dag_id, !.dtsn_out = SeqnoInit,
                    !.rank = InfiniteRank, !.last_advertised_rank = InfiniteRank,
                    !.lowest_rank = InfiniteRank, !.dao_last_seqno = SeqnoInit]
  BY DEF init_dag
<1> HIDE DEF o
<1>4. SeqnoInit \in Seqno /\ InfiniteRank \in Rank
  BY FieldValues
<1>5. m \in NodeState
  BY <1>1, <1>3, <1>4 DEF NodeState
<1> QED BY <1>1, <1>2, <1>3, <1>5 DEF NodeState

(* A node that is not armed to leave and joins from a DIO of another node's *)
(* DAG is armed to leave, or in no DAG when the DIO is not supported.       *)
LEMMA ProcessDioInitDag ==
  ASSUME NEW n \in NodeState, NEW dio \in Dio, ~n.leave, n.preferred_parent = NoNode,
         NEW m, m = process_dio_init_dag(n, dio)
  PROVE  \/ m = n
         \/ m \in NodeState /\ m.id = n.id /\ ~m.used /\ ~m.leave /\ m.preferred_parent = NoNode
         \/ /\ m \in NodeState /\ m.id = n.id /\ m.used /\ m.dag_id = dio.dag
            /\ m.version = dio.version
            /\ m.preferred_parent = NoNode /\ m.state = "INITIALIZED"
<1>0. dio.dag \in Node /\ dio.mop \in Mop /\ dio.version \in Seqno
  BY DEF Dio
<1>1. CASE dio.mop = "STORING"
  BY <1>1 DEF process_dio_init_dag
<1>2. CASE dio.mop # "STORING" /\ ~dio.supported
  BY <1>2, Zeroed DEF process_dio_init_dag
<1>3. CASE dio.mop # "STORING" /\ dio.supported
  <2> DEFINE o == init_dag(n, dio.dag)
             p == init_dag_from_dio(n, dio)
             q == rpl_timers_dio_reset(p)
  <2>1. /\ o \in NodeState /\ o.id = n.id /\ o.used /\ o.dag_id = dio.dag
        /\ o.preferred_parent = NoNode /\ o.state = "INITIALIZED"
    BY <1>0, InitDag
  <2>2. p = [o EXCEPT !.mop = dio.mop, !.version = dio.version]
    BY DEF init_dag_from_dio
  <2> HIDE DEF o
  <2>3. /\ p \in NodeState /\ p.id = n.id /\ p.used /\ p.dag_id = dio.dag
        /\ p.version = dio.version /\ p.preferred_parent = NoNode /\ p.state = "INITIALIZED"
    BY <1>0, <2>1, <2>2 DEF NodeState
  <2>4. m = rpl_timers_schedule_leaving(q)
    BY <1>3 DEF process_dio_init_dag
  <2> HIDE DEF p
  <2>5. SameButTimers(q, p)
    BY <2>3, Timers
  <2> HIDE DEF q
  <2>6. q \in NodeState /\ q.id = n.id /\ q.used /\ q.dag_id = dio.dag
        /\ q.version = dio.version /\ q.preferred_parent = NoNode /\ q.state = "INITIALIZED"
    BY <2>3, <2>5 DEF SameButTimers, SameMembership
  <2> QED BY <2>4, <2>6 DEF rpl_timers_schedule_leaving, NodeState
<1> QED BY <1>1, <1>2, <1>3

(* From one handler to the next, a node that stays in the DAG of another *)
(* node keeps the version or has a newer one.                            *)
SameOrNewer(m, n) ==
  /\ m.id = n.id
  /\ n.used /\ m.used /\ n.dag_id # n.id /\ m.dag_id = n.dag_id
       => m.version = n.version \/ Greater(m.version, n.version)

LEMMA GlobalRepairNonRoot ==
  ASSUME NEW n, NodeInv(n), n.used, NEW dio \in Dio, dio.dag = n.dag_id,
         Greater(dio.version, n.version), NEW m, m = global_repair_non_root(n, dio)
  PROVE  NodeInv(m) /\ SameOrNewer(m, n)
<1>1. CASE rpl_dag_root_is_root(n)
  BY <1>1 DEF global_repair_non_root, SameOrNewer
<1>2. CASE ~rpl_dag_root_is_root(n)
  <2> DEFINE s == rpl_timers_stop_dag_timers(n)
             o == rpl_neighbor_set_preferred_parent(s, NoNode)
             p == process_dio_init_dag(o, dio)
  <2>1. s \in NodeState /\ SameMembership(s, n) /\ ~s.leave
    BY StopTimers DEF NodeInv
  <2> HIDE DEF s
  <2>2. o \in NodeState /\ SameMembership(o, s) /\ ~o.leave /\ o.preferred_parent = NoNode
    BY <2>1, SetParent
  <2> HIDE DEF o
  <2>3. \/ p = o
        \/ p \in NodeState /\ p.id = o.id /\ ~p.used /\ ~p.leave /\ p.preferred_parent = NoNode
        \/ /\ p \in NodeState /\ p.id = o.id /\ p.used /\ p.dag_id = dio.dag
           /\ p.version = dio.version
           /\ p.preferred_parent = NoNode /\ p.state = "INITIALIZED"
    BY <2>2, ProcessDioInitDag
  <2>4. p \in NodeState /\ p.id = n.id /\ (p.used => p.dag_id # p.id)
    BY <1>2, <2>1, <2>2, <2>3 DEF SameMembership, rpl_dag_root_is_root
  <2>5. ~p.used => NodeInv(p)
    BY <2>1, <2>2, <2>3, <2>4 DEF SameMembership, NodeInv
  <2>6. m = rpl_local_repair(p)
    BY <1>2 DEF global_repair_non_root, o, s
  <2> HIDE DEF p
  <2>7. NodeInv(m) /\ SameMembership(m, p)
    BY <2>4, <2>5, <2>6, LocalRepairInv DEF rpl_dag_root_is_root
  <2> QED
    BY <2>1, <2>2, <2>3, <2>4, <2>7 DEF SameMembership, SameOrNewer
<1> QED BY <1>1, <1>2

LEMMA HearVersion ==
  ASSUME NEW n, NodeInv(n), n.used, NEW dio \in Dio, dio.dag = n.dag_id,
         NEW m, m = hear_version(n, dio)
  PROVE  NodeInv(m) /\ SameOrNewer(m, n)
<1>1. CASE ~Greater(dio.version, n.version)
  BY <1>1 DEF hear_version, SameOrNewer
<1>2. CASE Greater(dio.version, n.version) /\ n.rank = RootRank
  <2> DEFINE o == [n EXCEPT !.version = dio.version]
  <2>1. dio.version \in Seqno
    BY DEF Dio
  <2>2. /\ NodeInv(o) /\ o.id = n.id /\ o.used = n.used /\ o.dag_id = n.dag_id
        /\ o.version = dio.version
    BY <2>1 DEF NodeInv, NodeState
  <2>3. m = rpl_global_repair(o)
    BY <1>2 DEF hear_version
  <2> HIDE DEF o
  <2>4. /\ NodeInv(m) /\ m.id = o.id /\ m.used = o.used /\ m.dag_id = o.dag_id
        /\ ~rpl_dag_root_is_root(o) => m = o
    BY <2>2, <2>3, GlobalRepairInv
  <2> QED BY <1>2, <2>2, <2>4 DEF SameOrNewer, rpl_dag_root_is_root
<1>3. CASE Greater(dio.version, n.version) /\ n.rank # RootRank
  <2>1. m = global_repair_non_root(n, dio)
    BY <1>3 DEF hear_version
  <2> QED BY <1>3, <2>1, GlobalRepairNonRoot
<1> QED BY <1>1, <1>2, <1>3
------------------------------------------------------------------------------
(* Incoming DIO *)

(* Entering the sender into the table, and what follows from it. *)
LEMMA LearnFromDio ==
  ASSUME NEW n, NodeInv(n), NEW from \in Node, NEW dio \in Dio,
         NEW from_parent \in BOOLEAN, NEW last_dtsn,
         NEW m, m = propagate_dtsn(refresh_lifetime(update_nbr_from_dio(n, from, dio), from_parent),
                                   from_parent, dio.dtsn, last_dtsn)
  PROVE  NodeInv(m) /\ SameMembership(m, n)
<1> DEFINE o == update_nbr_from_dio(n, from, dio)
           p == refresh_lifetime(o, from_parent)
           q == [p EXCEPT !.dtsn_out = Increment(p.dtsn_out)]
<1>1. dio.rank \in Rank /\ dio.dtsn \in Seqno
  BY DEF Dio
<1>2. o \in NodeState
  BY <1>1 DEF update_nbr_from_dio, NodeInv, NodeState
<1>3. /\ SameMembership(o, n) /\ o.preferred_parent = n.preferred_parent
      /\ o.state = n.state /\ o.rank = n.rank /\ o.leave = n.leave
      /\ o.nbrs = n.nbrs \cup {from}
  BY DEF update_nbr_from_dio, NodeInv, NodeState, SameMembership
<1>4. NodeInv(o)
  BY <1>2, <1>3 DEF NodeInv, SameMembership
<1> HIDE DEF o
<1>5. NodeInv(p) /\ SameMembership(p, o)
  BY <1>4, FieldValues DEF refresh_lifetime, NodeInv, NodeState, SameMembership
<1> HIDE DEF p
<1>6. Increment(p.dtsn_out) \in Seqno
  BY <1>5, IncrementType DEF NodeInv, NodeState
<1>7. NodeInv(q) /\ SameMembership(q, p)
  BY <1>5, <1>6 DEF NodeInv, NodeState, SameMembership
<1>8. m \in {p, rpl_timers_schedule_dao(q)}
  BY DEF propagate_dtsn, p, o
<1> HIDE DEF q
<1>9. SameButTimers(rpl_timers_schedule_dao(q), q)
  BY <1>7, Timers DEF NodeInv
<1>10. NodeInv(rpl_timers_schedule_dao(q)) /\ SameMembership(rpl_timers_schedule_dao(q), q)
  BY <1>7, <1>9 DEF SameButTimers, SameMembership, NodeInv
<1> QED BY <1>3, <1>5, <1>7, <1>8, <1>10 DEF SameMembership

LEMMA ProcessDioFromCurrentDag ==
  ASSUME NEW n, NodeInv(n), n.used, NEW from \in Node, NEW dio \in Dio, dio.dag = n.dag_id,
         NEW has_room \in BOOLEAN,
         NEW m, m = process_dio_from_current_dag(n, from, dio, has_room)
  PROVE  NodeInv(m) /\ SameOrNewer(m, n)
<1> DEFINE o == hear_version(n, dio)
           from_parent == from \in o.nbrs /\ from = o.preferred_parent
           learnt == propagate_dtsn(
                       refresh_lifetime(update_nbr_from_dio(o, from, dio), from_parent),
                       from_parent, dio.dtsn, o.nbr_dtsn[from])
<1>1. NodeInv(o) /\ SameOrNewer(o, n)
  BY HearVersion
<1>2. m \in {n, rpl_timers_dio_reset(n), o, learnt}
  BY DEF process_dio_from_current_dag
<1> HIDE DEF o
<1>3. from_parent \in BOOLEAN
  OBVIOUS
<1> HIDE DEF from_parent
<1>4. NodeInv(learnt) /\ SameMembership(learnt, o)
  BY <1>1, <1>3, LearnFromDio
<1> HIDE DEF learnt
<1>5. SameButTimers(rpl_timers_dio_reset(n), n)
  BY Timers DEF NodeInv
<1>6. NodeInv(rpl_timers_dio_reset(n)) /\ SameMembership(rpl_timers_dio_reset(n), n)
  BY <1>5 DEF SameButTimers, SameMembership, NodeInv
<1> QED BY <1>1, <1>2, <1>4, <1>6 DEF SameMembership, SameOrNewer

(* A DIO of the node's own DAG is only processed by the root. *)
LEMMA ProcessDio ==
  ASSUME NEW n, NodeInv(n), NEW from \in Node, NEW dio \in Dio, NEW has_room \in BOOLEAN,
         dio.dag = n.id => rpl_dag_root_is_root(n),
         NEW m \in rpl_process_dio(n, from, dio, has_room)
  PROVE  NodeInv(m) /\ SameOrNewer(m, n)
<1> DEFINE o == IF n.used THEN n ELSE process_dio_init_dag(n, dio)
<1>1. CASE n.used
  <2> DEFINE p == process_dio_from_current_dag(n, from, dio, has_room)
  <2>1. CASE n.dag_id = dio.dag
    <3>1. NodeInv(p) /\ SameOrNewer(p, n)
      BY <1>1, <2>1, ProcessDioFromCurrentDag
    <3>2. m \in rpl_dag_update_state(p)
      BY <1>1, <2>1 DEF rpl_process_dio
    <3> HIDE DEF p
    <3> QED BY <3>1, <3>2, UpdateStateInv DEF SameMembership, SameOrNewer
  <2>2. CASE n.dag_id # dio.dag
    BY <1>1, <2>2 DEF rpl_process_dio, SameOrNewer
  <2> QED BY <2>1, <2>2
<1>2. CASE ~n.used
  <2> DEFINE p == process_dio_init_dag(n, dio)
             q == process_dio_from_current_dag(p, from, dio, has_room)
  <2>1. n \in NodeState /\ ~n.leave /\ n.preferred_parent = NoNode /\ dio.dag # n.id
    BY <1>2 DEF NodeInv, rpl_dag_root_is_root
  <2>2. \/ p = n
        \/ p \in NodeState /\ p.id = n.id /\ ~p.used /\ ~p.leave /\ p.preferred_parent = NoNode
        \/ /\ p \in NodeState /\ p.id = n.id /\ p.used /\ p.dag_id = dio.dag
           /\ p.version = dio.version
           /\ p.preferred_parent = NoNode /\ p.state = "INITIALIZED"
    BY <2>1, ProcessDioInitDag
  <2>3. NodeInv(p) /\ p.id = n.id
    BY <2>1, <2>2 DEF NodeInv
  <2>4. IF p.used /\ p.dag_id = dio.dag THEN m \in rpl_dag_update_state(q) ELSE m = p
    BY <1>2 DEF rpl_process_dio
  <2> HIDE DEF p
  <2>5. CASE p.used /\ p.dag_id = dio.dag
    <3>1. NodeInv(q) /\ q.id = n.id
      BY <2>3, <2>5, ProcessDioFromCurrentDag DEF SameOrNewer
    <3> HIDE DEF q
    <3> QED BY <1>2, <2>4, <2>5, <3>1, UpdateStateInv DEF SameMembership, SameOrNewer
  <2>6. CASE ~(p.used /\ p.dag_id = dio.dag)
    BY <1>2, <2>3, <2>4, <2>6 DEF SameOrNewer
  <2> QED BY <2>5, <2>6
<1> QED BY <1>1, <1>2
------------------------------------------------------------------------------
(* Other input *)

(* Resetting the DIO timer, or arming one, keeps the invariant. *)
LEMMA TimersInv ==
  ASSUME NEW n, NodeInv(n), NEW m, SameButTimers(m, n)
  PROVE  NodeInv(m) /\ SameMembership(m, n)
BY DEF NodeInv, SameButTimers, SameMembership

LEMMA ProcessDis ==
  ASSUME NEW n, NodeInv(n), NEW from \in Node,
         NEW is_multicast \in BOOLEAN, NEW has_room \in BOOLEAN,
         NEW m \in rpl_process_dis(n, from, is_multicast, has_room)
  PROVE  NodeInv(m) /\ SameMembership(m, n)
<1>1. CASE m = n
  BY <1>1 DEF SameMembership
<1>2. CASE m = rpl_timers_dio_reset(n)
  BY <1>2, Timers, TimersInv DEF NodeInv
<1>3. CASE m \in rpl_icmp6_dio_output(n, from)
  BY <1>3, DioOutput
<1> QED BY <1>1, <1>2, <1>3 DEF rpl_process_dis

(* Neither an acknowledgement nor a refusal of a DAO takes the parent away. *)
LEMMA ProcessDaoAck ==
  ASSUME NEW n, NodeInv(n), NEW sequence, NEW status_ok \in BOOLEAN,
         NEW m, m = rpl_process_dao_ack(n, sequence, status_ok)
  PROVE  NodeInv(m) /\ SameMembership(m, n)
<1> DEFINE o == [n EXCEPT !.state = "REACHABLE"]
           reached == IF n.state = "JOINED" /\ status_ok THEN rpl_timers_dio_reset(o) ELSE n
           noted == rpl_timers_notify_dao_ack(reached)
           poisoned == [noted EXCEPT !.state = "POISONING"]
<1>1. CASE ~n.used
  BY <1>1 DEF rpl_process_dao_ack, SameMembership
<1>2. CASE n.used
  <2>1. /\ o \in NodeState /\ SameMembership(o, n) /\ o.state = "REACHABLE"
        /\ o.preferred_parent = n.preferred_parent /\ o.rank = n.rank
        /\ o.leave = n.leave /\ o.nbrs = n.nbrs
    BY FieldNames DEF NodeInv, NodeState, SameMembership
  <2> HIDE DEF o
  <2>2. n.state = "JOINED" => NodeInv(o)
    BY <1>2, <2>1 DEF NodeInv, SameMembership
  <2>3. n.state = "JOINED" =>
          NodeInv(rpl_timers_dio_reset(o)) /\ SameMembership(rpl_timers_dio_reset(o), n)
    BY <2>1, <2>2, Timers, TimersInv DEF SameMembership
  <2>4. NodeInv(reached) /\ SameMembership(reached, n)
    BY <2>3 DEF SameMembership
  <2> HIDE DEF reached
  <2>5. SameButTimers(noted, reached)
    BY <2>4, Timers DEF NodeInv
  <2> HIDE DEF noted
  <2>6. NodeInv(noted) /\ SameMembership(noted, n)
    BY <2>4, <2>5, TimersInv DEF SameMembership
  <2>7. NodeInv(poisoned) /\ SameMembership(poisoned, n)
    BY <1>2, <2>6, FieldNames DEF NodeInv, NodeState, SameMembership
  <2>8. m \in {n, noted, poisoned}
    BY DEF rpl_process_dao_ack, noted, reached, o
  <2> HIDE DEF poisoned
  <2> QED BY <2>6, <2>7, <2>8 DEF SameMembership
<1> QED BY <1>1, <1>2

LEMMA ProcessHbh ==
  ASSUME NEW n, NodeInv(n), NEW sender \in n.nbrs \cup {NoNode}, NEW sender_rank \in Rank,
         NEW loop_detected \in BOOLEAN, NEW rank_error_signaled \in BOOLEAN,
         NEW m \in rpl_process_hbh(n, sender, sender_rank, loop_detected, rank_error_signaled)
  PROVE  NodeInv(m) /\ SameMembership(m, n)
<1> DEFINE warned == IF loop_detected /\ rank_error_signaled /\ LoopErrorDrop
                       THEN rpl_timers_dio_reset(n) ELSE n
           replying == IF loop_detected THEN rpl_timers_schedule_unicast_dio(warned) ELSE warned
           o == [replying EXCEPT !.nbr_rank[sender] = sender_rank]
<1>1. NodeInv(warned) /\ SameMembership(warned, n)
  BY Timers, TimersInv DEF NodeInv, SameMembership
<1> HIDE DEF warned
<1>2. NodeInv(replying) /\ SameMembership(replying, n)
  BY <1>1, Timers, TimersInv DEF NodeInv, SameMembership
<1> HIDE DEF replying
<1>3. sender # NoNode => NodeInv(o) /\ SameMembership(o, replying)
  BY <1>2 DEF NodeInv, NodeState, SameMembership
<1>4. m = replying \/ (sender # NoNode /\ m \in rpl_dag_update_state(o))
  BY DEF rpl_process_hbh, replying, warned
<1> HIDE DEF o
<1> QED BY <1>2, <1>3, <1>4, UpdateStateInv DEF SameMembership

LEMMA PeriodicInv ==
  ASSUME NEW n, NodeInv(n), NEW m \in rpl_dag_periodic(n)
  PROVE  NodeInv(m) /\ SameMembership(m, n)
<1> DEFINE o == [n EXCEPT !.lifetime = IF @ > 1 THEN @ - 1 ELSE 0]
<1>1. (IF n.lifetime > 1 THEN n.lifetime - 1 ELSE 0) \in Lifetime
  BY BoundsAssumption DEF NodeInv, NodeState, Lifetime, InfiniteLifetime
<1>2. NodeInv(o) /\ SameMembership(o, n) /\ o.preferred_parent = n.preferred_parent
  BY <1>1 DEF NodeInv, NodeState, SameMembership
<1>3. \/ m = n
      \/ m = rpl_dag_poison_and_leave(o)
      \/ n.preferred_parent # NoNode /\ m \in rpl_icmp6_dis_output(o, n.preferred_parent)
      \/ m = o
  BY DEF rpl_dag_periodic
<1> HIDE DEF o
<1>4. CASE m = n
  BY <1>4 DEF SameMembership
<1>5. CASE m = rpl_dag_poison_and_leave(o)
  BY <1>2, <1>5, PoisonAndLeaveInv DEF SameMembership
<1>6. CASE n.preferred_parent # NoNode /\ m \in rpl_icmp6_dis_output(o, n.preferred_parent)
  <2>1. n.preferred_parent \in Node \cup {All}
    BY <1>6 DEF NodeInv, NodeState
  <2> QED BY <1>2, <1>6, <2>1, DisOutput DEF SameMembership
<1>7. CASE m = o
  BY <1>2, <1>7
<1> QED BY <1>3, <1>4, <1>5, <1>6, <1>7
------------------------------------------------------------------------------
(* Timer handlers *)

LEMMA DioTimerInv ==
  ASSUME NEW n, NodeInv(n), NEW m \in handle_dio_timer(n)
  PROVE  NodeInv(m) /\ SameMembership(m, n)
<1> DEFINE o == [n EXCEPT !.dio_fresh = FALSE]
           p == [o EXCEPT !.last_advertised_rank = n.rank]
<1>1. NodeInv(o) /\ SameMembership(o, n)
  BY DEF NodeInv, NodeState, SameMembership
<1> HIDE DEF o
<1>2. NodeInv(p) /\ SameMembership(p, o)
  BY <1>1 DEF NodeInv, NodeState, SameMembership
<1>3. m = o \/ m \in rpl_icmp6_dio_output(p, All)
  BY DEF handle_dio_timer, o
<1> HIDE DEF p
<1> QED BY <1>1, <1>2, <1>3, DioOutput DEF SameMembership

LEMMA UnicastDioTimerInv ==
  ASSUME NEW n, NodeInv(n), NEW to \in Node, NEW m \in handle_unicast_dio_timer(n, to)
  PROVE  NodeInv(m) /\ SameMembership(m, n)
<1> DEFINE o == [n EXCEPT !.unicast_dio = FALSE]
<1>1. NodeInv(o) /\ SameMembership(o, n)
  BY DEF NodeInv, NodeState, SameMembership
<1>2. m \in rpl_icmp6_dio_output(o, to)
  BY DEF handle_unicast_dio_timer
<1> HIDE DEF o
<1> QED BY <1>1, <1>2, DioOutput DEF SameMembership

LEMMA DisTimerInv ==
  ASSUME NEW n, NodeInv(n), NEW m \in handle_dis_timer(n)
  PROVE  NodeInv(m) /\ SameMembership(m, n)
<1>1. CASE m = [n EXCEPT !.periodic_dis = FALSE]
  BY <1>1 DEF NodeInv, NodeState, SameMembership
<1>2. CASE \E o \in rpl_icmp6_dis_output(n, All) : m = rpl_timers_schedule_periodic_dis(o)
  <2>1. PICK o \in rpl_icmp6_dis_output(n, All) : m = rpl_timers_schedule_periodic_dis(o)
    BY <1>2
  <2>2. NodeInv(o) /\ SameMembership(o, n)
    BY DisOutput
  <2> QED BY <2>1, <2>2, Timers, TimersInv DEF NodeInv, SameMembership
<1> QED BY <1>1, <1>2 DEF handle_dis_timer

LEMMA SendNewDaoInv ==
  ASSUME NEW n, NodeInv(n), NEW m \in send_new_dao(n)
  PROVE  NodeInv(m) /\ SameMembership(m, n)
<1> DEFINE o == [n EXCEPT !.dao_timer = "resend", !.dao_transmissions = 1,
                          !.dao_last_seqno = Increment(n.dao_last_seqno)]
<1>1. Increment(n.dao_last_seqno) \in Seqno
  BY IncrementType DEF NodeInv, NodeState
<1>2. NodeInv(o) /\ SameMembership(o, n)
  BY <1>1, FieldNames DEF NodeInv, NodeState, SameMembership
<1>3. m \in rpl_icmp6_dao_output(o, 1)
  BY DEF send_new_dao
<1> HIDE DEF o
<1> QED BY <1>2, <1>3, DaoOutput DEF SameMembership

LEMMA ResendDaoInv ==
  ASSUME NEW n, NodeInv(n), NEW m \in resend_dao(n)
  PROVE  NodeInv(m) /\ SameMembership(m, n)
<1> DEFINE count == n.dao_transmissions + 1
           o == [n EXCEPT !.dao_transmissions = count, !.dao_timer = "off"]
<1>0. count \in Nat
  BY DEF NodeInv, NodeState
<1> HIDE DEF count
<1>1. NodeInv(o) /\ SameMembership(o, n)
  BY <1>0, FieldNames DEF NodeInv, NodeState, SameMembership
<1>2. PICK p \in rpl_icmp6_dao_output(o, 1) :
        m \in {[p EXCEPT !.dao_timer = "resend"], rpl_local_repair(p)}
  BY DEF resend_dao, count
<1> HIDE DEF o
<1>3. NodeInv(p) /\ SameMembership(p, n)
  BY <1>1, DaoOutput DEF SameMembership
<1>4. NodeInv([p EXCEPT !.dao_timer = "resend"]) /\ SameMembership([p EXCEPT !.dao_timer = "resend"], p)
  BY <1>3, FieldNames DEF NodeInv, NodeState, SameMembership
<1>5. NodeInv(rpl_local_repair(p)) /\ SameMembership(rpl_local_repair(p), p)
  BY <1>3, LocalRepairInv DEF NodeInv
<1> QED BY <1>2, <1>3, <1>4, <1>5 DEF SameMembership
------------------------------------------------------------------------------
(* Starting *)

(* A node that becomes the root has left the DAG it was in, and is armed *)
(* neither to leave nor with a parent.                                   *)
LEMMA InitRoot ==
  ASSUME NEW n, NodeInv(n), NEW m \in rpl_dag_init_root(n)
  PROVE  /\ NodeInv(m) /\ m.id = n.id /\ m.used /\ m.dag_id = n.id
         /\ m.preferred_parent = NoNode
         /\ m.version = IF n.used /\ n.dag_id = n.id THEN Increment(n.version) ELSE SeqnoInit
<1> DEFINE version == IF n.used /\ n.dag_id = n.id THEN Increment(n.version) ELSE SeqnoInit
           left == IF n.used THEN rpl_dag_leave(n) ELSE {n}
           ready(o) == [init_dag(o, n.id) EXCEPT
                          !.mop = "NON_STORING", !.version = version,
                          !.rank = RootRank, !.lifetime = InfiniteLifetime, !.state = "REACHABLE"]
<1>1. PICK o \in left : m = rpl_timers_dio_reset(ready(o))
  BY DEF rpl_dag_init_root
<1>2. version \in Seqno /\ n.id \in Node
  BY FieldValues, IncrementType DEF NodeInv, NodeState
<1> HIDE DEF version
<1>3. NodeInv(o) /\ o.id = n.id /\ ~o.used
  BY LeaveInv
<1> DEFINE i == init_dag(o, n.id)
<1>4. /\ i \in NodeState /\ i.id = n.id /\ i.used /\ i.dag_id = n.id
      /\ i.preferred_parent = NoNode /\ ~i.leave
  BY <1>2, <1>3, InitDag DEF NodeInv
<1> HIDE DEF i
<1> DEFINE r == [i EXCEPT !.mop = "NON_STORING", !.version = version,
                         !.rank = RootRank, !.lifetime = InfiniteLifetime, !.state = "REACHABLE"]
<1>5. r \in NodeState
  BY <1>2, <1>4, FieldValues, FieldNames DEF NodeState
<1>6. /\ r.id = n.id /\ r.used /\ r.dag_id = n.id /\ r.preferred_parent = NoNode /\ ~r.leave
      /\ r.rank = RootRank /\ r.state = "REACHABLE" /\ r.version = version
  BY <1>4 DEF NodeState
<1>7. r = ready(o)
  BY DEF i
<1> HIDE DEF r, ready
<1>8. NodeInv(r)
  BY <1>5, <1>6 DEF NodeInv
<1>9. SameButTimers(m, r)
  BY <1>1, <1>5, <1>7, Timers
<1>10. NodeInv(m) /\ SameMembership(m, r) /\ m.preferred_parent = r.preferred_parent
  BY <1>8, <1>9, TimersInv DEF SameButTimers
<1> QED BY <1>6, <1>10 DEF SameMembership, version

(* After a reboot nothing is left. *)
LEMMA PoweredOnInv ==
  ASSUME NEW i \in Node
  PROVE  NodeInv(PoweredOn(i)) /\ PoweredOn(i).id = i /\ ~PoweredOn(i).used
<1>1. 0 \in Seqno /\ 0 \in Rank /\ 0 \in Lifetime /\ 0 \in Nat
  BY FieldValues
<1>2. "NO_DOWNWARD_ROUTES" \in Mop /\ "INITIALIZED" \in DagState /\ "off" \in DaoTimer
  BY FieldNames
<1>3. PoweredOn(i) \in NodeState
  BY <1>1, <1>2 DEF PoweredOn, NodeState
<1>4. /\ PoweredOn(i).id = i /\ ~PoweredOn(i).used /\ ~PoweredOn(i).leave
      /\ PoweredOn(i).preferred_parent = NoNode
  BY DEF PoweredOn
<1> QED BY <1>3, <1>4 DEF NodeInv
=============================================================================
