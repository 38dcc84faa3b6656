----------------------------- MODULE RplDagUpkeep -----------------------------
(***************************************************************************)
(* More about what the functions of RplDag do to the state of a node: the  *)
(* rank beside the parent's, the DAO timer beside the DAG state, and, when *)
(* every DIO is supported, what is left of a membership and what makes a   *)
(* node without a parent leave.  Unlike NodeInv of RplDagProofs these only *)
(* hold between handlers, and rpl_dag_update_state restores them: the rank *)
(* of a neighbor, or the DAO timer, may be overwritten before it is called.*)
(***************************************************************************)
EXTENDS RplDagProofs

Member(n) == n.used /\ n.dag_id # n.id

(* An attacker that lies about its rank. *)
RankLiar(n) == n.id \in Attackers /\ AttackType \in {1, 7}

(* An attacker that takes parents the objective function would not look at. *)
WorstParent(n) == n.id \in Attackers /\ AttackType = 4

RankAbove(n) ==
  n.preferred_parent # NoNode =>
    /\ n.rank # InfiniteRank
    /\ RankLiar(n) \/ n.rank > n.nbr_rank[n.preferred_parent]
    /\ WorstParent(n) \/ n.rank > RootRank

Announcing(n) ==
  Member(n) /\ n.mop = "NON_STORING" /\ n.preferred_parent # NoNode =>
    /\ n.state # "POISONING" => n.dao_timer # "off"
    /\ n.state = "JOINED" => n.dao_timer \in {"new", "resend"}

Settled(n) == NodeInv(n) /\ RankAbove(n) /\ Announcing(n)

(* What holds in addition when no DIO fails to be joined. *)
Kept(n) ==
  \* without a parent it is armed to leave, or a repair has just taken the parent
  /\ Member(n) /\ n.preferred_parent = NoNode =>
       n.leave \/ (n.state_update /\ n.unprocessed_parent_switch /\ n.rank # InfiniteRank)
  \* without a lifetime it knows nobody
  /\ Member(n) /\ n.lifetime = 0 /\ n.state # "POISONING" => n.nbrs = {}
  \* outside of a DAG nothing is left
  /\ ~n.used => n.nbrs = {} /\ ~n.state_update /\ ~n.unicast_dio /\ n.dao_timer = "off"

(* The functions that change nothing of this. *)
Unmoved(m, n) ==
  /\ m \in NodeState /\ SameMembership(m, n)
  /\ m.state = n.state /\ m.rank = n.rank /\ m.lifetime = n.lifetime
  /\ m.preferred_parent = n.preferred_parent
  /\ m.unprocessed_parent_switch = n.unprocessed_parent_switch
  /\ m.nbrs = n.nbrs /\ m.nbr_rank = n.nbr_rank
  /\ m.leave = n.leave /\ m.state_update = n.state_update
  /\ m.unicast_dio = n.unicast_dio /\ m.dao_timer = n.dao_timer

(* What a state update does not touch. *)
Carried(m, n) ==
  /\ m \in NodeState /\ SameMembership(m, n)
  /\ m.nbrs = n.nbrs /\ m.nbr_rank = n.nbr_rank /\ m.lifetime = n.lifetime
  /\ m.unicast_dio = n.unicast_dio
  /\ m.sent = n.sent /\ m.dao_last_seqno = n.dao_last_seqno

LEMMA UnmovedKeeps ==
  ASSUME NEW n, NEW m, Unmoved(m, n)
  PROVE  /\ NodeInv(n) => NodeInv(m)
         /\ RankAbove(n) => RankAbove(m)
         /\ Announcing(n) => Announcing(m)
         /\ Kept(n) => Kept(m)
<1>1. NodeInv(n) => NodeInv(m)
  BY DEF NodeInv, Unmoved, SameMembership
<1>2. RankAbove(n) => RankAbove(m)
  BY DEF RankAbove, RankLiar, WorstParent, Unmoved, SameMembership
<1>3. Announcing(n) => Announcing(m)
  BY DEF Announcing, Member, Unmoved, SameMembership
<1>4. Kept(n) => Kept(m)
  BY DEF Kept, Member, Unmoved, SameMembership
<1> QED BY <1>1, <1>2, <1>3, <1>4

LEMMA DioReset ==
  ASSUME NEW n \in NodeState, NEW m, m = rpl_timers_dio_reset(n)
  PROVE  Unmoved(m, n) /\ Carried(m, n) /\ m.lowest_rank = n.lowest_rank
BY DEF rpl_timers_dio_reset, Unmoved, Carried, NodeState, SameMembership

LEMMA PeriodicDis ==
  ASSUME NEW n \in NodeState, NEW m, m = rpl_timers_schedule_periodic_dis(n)
  PROVE  Unmoved(m, n) /\ Carried(m, n) /\ m.lowest_rank = n.lowest_rank
BY DEF rpl_timers_schedule_periodic_dis, Unmoved, Carried, NodeState, SameMembership

LEMMA Sent ==
  ASSUME NEW n \in NodeState, NEW msg \in Message, NEW m, m = Send(n, msg)
  PROVE  /\ Unmoved(m, n) /\ m.sent = n.sent \cup {msg}
         /\ m.dao_last_seqno = n.dao_last_seqno
BY DEF Send, Unmoved, NodeState, SameMembership
------------------------------------------------------------------------------
(* rpl_dag_update_state, stage by stage *)

(* A neighbor on which a node may base its rank gives it a greater one. *)
LEMMA ViaIsGreater ==
  ASSUME NEW n \in NodeState, NEW b \in n.nbrs, NEW cost \in [n.nbrs -> LinkCosts],
         rpl_neighbor_rank_via_nbr(n, b, cost) # InfiniteRank
  PROVE  rpl_neighbor_rank_via_nbr(n, b, cost) > n.nbr_rank[b]
<1>1. n.nbr_rank[b] \in Rank
  BY DEF NodeState
<1>2. cost[b] \in 1 .. InfiniteRank
  BY RankAssumption
<1> QED BY <1>1, <1>2, RankAssumption DEF rpl_neighbor_rank_via_nbr, Rank

(* What selecting a parent from state n may lead to. *)
Selected(m, n) ==
  /\ Carried(m, n)
  /\ m.state = n.state /\ m.leave = n.leave /\ m.state_update = n.state_update
  /\ m.dao_timer = n.dao_timer
  /\ m.preferred_parent \in n.nbrs \cup {NoNode}
  /\ n.unprocessed_parent_switch \/ m.preferred_parent # n.preferred_parent
       => m.unprocessed_parent_switch
  /\ RankAbove(m)

LEMMA TakeParentSelected ==
  ASSUME NEW n \in NodeState, NEW b \in n.nbrs \cup {NoNode},
         NEW cost \in [n.nbrs -> LinkCosts],
         b # NoNode => rpl_neighbor_rank_via_nbr(n, b, cost) # InfiniteRank,
         b = NoNode \/ WorstParent(n) \/ n.nbr_rank[b] >= RootRank,
         NEW m, m = take_parent(n, b, cost)
  PROVE  Selected(m, n)
<1> DEFINE r == rpl_neighbor_rank_via_nbr(n, b, cost)
           o == rpl_neighbor_set_preferred_parent(n, b)
<1>1. b \in Node \cup {NoNode} /\ NoNode \notin n.nbrs
  BY NodeAssumption DEF NodeState
<1>2. r \in Rank /\ (b # NoNode => r # InfiniteRank /\ r > n.nbr_rank[b])
  BY RankViaNbr, ViaIsGreater
<1>3. m = [o EXCEPT !.rank = r]
  BY DEF take_parent
<1> HIDE DEF r
<1>4. /\ o \in NodeState /\ Carried(o, n)
      /\ o.state = n.state /\ o.leave = n.leave /\ o.state_update = n.state_update
      /\ o.dao_timer = n.dao_timer /\ o.preferred_parent = b
      /\ o.unprocessed_parent_switch
           = (n.unprocessed_parent_switch \/ b # n.preferred_parent)
  BY <1>1 DEF rpl_neighbor_set_preferred_parent, Carried, NodeState, SameMembership
<1> HIDE DEF o
<1>5. /\ m \in NodeState /\ Carried(m, n)
      /\ m.state = n.state /\ m.leave = n.leave /\ m.state_update = n.state_update
      /\ m.dao_timer = n.dao_timer /\ m.preferred_parent = b /\ m.rank = r
      /\ m.unprocessed_parent_switch
           = (n.unprocessed_parent_switch \/ b # n.preferred_parent)
  BY <1>2, <1>3, <1>4 DEF Carried, NodeState, SameMembership
<1>6. b # NoNode => WorstParent(m) \/ r > RootRank
  <2>1. b # NoNode => n.nbr_rank[b] \in Nat
    BY <1>1, RankAssumption DEF NodeState, Rank
  <2>2. WorstParent(m) <=> WorstParent(n)
    BY <1>5 DEF WorstParent, Carried, SameMembership
  <2> QED BY <1>2, <2>1, <2>2, RankAssumption DEF Rank
<1> QED BY <1>2, <1>5, <1>6 DEF Selected, RankAbove, Carried

LEMMA AttackSelected ==
  ASSUME NEW n \in NodeState, NEW o, Selected(o, n), NEW cost \in [n.nbrs -> LinkCosts],
         NEW m \in attack(o, cost)
  PROVE  Selected(m, n)
<1>1. o \in NodeState /\ o.nbrs = n.nbrs
  BY DEF Selected, Carried
<1>2. CASE m = o
  BY <1>2
<1>3. CASE \E r \in {RootRank + MinHopRankInc, RootRank + 1} :
             m = [o EXCEPT !.rank = r] /\ RankLiar(o)
  <2>1. PICK r \in {RootRank + MinHopRankInc, RootRank + 1} :
          m = [o EXCEPT !.rank = r] /\ RankLiar(o)
    BY <1>3
  <2>2. r \in Rank /\ r # InfiniteRank /\ r > RootRank
    BY FieldValues, RankAssumption
  <2>3. m \in NodeState /\ m.rank = r /\ RankLiar(m)
    BY <1>1, <2>1, <2>2 DEF NodeState, RankLiar
  <2>4. /\ Carried(m, n)
        /\ m.state = o.state /\ m.leave = o.leave /\ m.state_update = o.state_update
        /\ m.dao_timer = o.dao_timer /\ m.preferred_parent = o.preferred_parent
        /\ m.unprocessed_parent_switch = o.unprocessed_parent_switch
    BY <1>1, <2>1, <2>3 DEF Selected, Carried, NodeState, SameMembership
  <2> QED BY <2>2, <2>3, <2>4 DEF Selected, RankAbove
<1>4. CASE WorstParent(o) /\ \E w \in worst_parents(o, cost) : m = take_parent(o, w, cost)
  <2>1. PICK w \in worst_parents(o, cost) : m = take_parent(o, w, cost)
    BY <1>4
  <2>2. w \in o.nbrs /\ rpl_neighbor_rank_via_nbr(o, w, cost) # InfiniteRank
    BY DEF worst_parents
  <2>3. cost \in [o.nbrs -> LinkCosts]
    BY <1>1
  <2>4. Selected(m, o)
    BY <1>1, <1>4, <2>1, <2>2, <2>3, TakeParentSelected
  <2>5. Carried(m, n)
    BY <2>4 DEF Selected, Carried, SameMembership
  <2> QED BY <1>1, <2>4, <2>5 DEF Selected
<1> QED BY <1>2, <1>3, <1>4 DEF attack, RankLiar, WorstParent

(* The parent that is selected gives the node a finite rank above its own. *)
LEMMA ReselectSelected ==
  ASSUME NEW n \in NodeState, NEW cost \in [n.nbrs -> LinkCosts], NEW m \in reselect(n, cost)
  PROVE  Selected(m, n)
<1>1. PICK best \in rpl_neighbor_select_best(n, cost) :
        m \in attack(take_parent(n, best, cost), cost)
  BY DEF reselect
<1>2. /\ best \in n.nbrs \cup {NoNode}
      /\ best # NoNode => /\ rpl_neighbor_rank_via_nbr(n, best, cost) # InfiniteRank
                          /\ n.nbr_rank[best] >= RootRank
  BY <1>1 DEF rpl_neighbor_select_best, acceptable
<1> DEFINE o == take_parent(n, best, cost)
<1>3. Selected(o, n)
  BY <1>2, TakeParentSelected
<1> HIDE DEF o
<1> QED BY <1>1, <1>3, AttackSelected DEF o

(* Noting the lowest and the advertised rank. *)
LEMMA TrackRankUnmoved ==
  ASSUME NEW n \in NodeState, NEW old_parent,
         NEW m, m = track_advertised_rank(track_lowest_rank(n, old_parent))
  PROVE  Unmoved(m, n) /\ Carried(m, n)
<1> DEFINE o == track_lowest_rank(n, old_parent)
           p == [o EXCEPT !.last_advertised_rank = o.rank]
<1>1. Unmoved(o, n) /\ Carried(o, n)
  BY DEF track_lowest_rank, Unmoved, Carried, NodeState, SameMembership
<1>2. m \in {o, rpl_timers_dio_reset(p)}
  BY DEF track_advertised_rank
<1> HIDE DEF o
<1>3. Unmoved(p, o) /\ Carried(p, o)
  BY <1>1 DEF Unmoved, Carried, NodeState, SameMembership
<1> HIDE DEF p
<1>4. Unmoved(rpl_timers_dio_reset(p), p) /\ Carried(rpl_timers_dio_reset(p), p)
  BY <1>3, DioReset DEF Unmoved
<1> QED BY <1>1, <1>2, <1>3, <1>4 DEF Unmoved, Carried, SameMembership

(* What handling a switch leaves alone. *)
Handled(m, n) ==
  /\ Carried(m, n)
  /\ m.rank = n.rank /\ m.preferred_parent = n.preferred_parent
  /\ m.state_update = n.state_update /\ m.lowest_rank = n.lowest_rank

LEMMA HandledTransitive ==
  ASSUME NEW n, NEW o, NEW m, Handled(o, n), Handled(m, o)
  PROVE  Handled(m, n)
BY DEF Handled, Carried, SameMembership

LEMMA ScheduleDao ==
  ASSUME NEW n \in NodeState, NEW m, m = rpl_timers_schedule_dao(n)
  PROVE  /\ Handled(m, n) /\ m.state = n.state /\ m.leave = n.leave
         /\ m.unprocessed_parent_switch = n.unprocessed_parent_switch
         /\ m.dao_timer = IF n.used /\ n.mop # "NO_DOWNWARD_ROUTES" THEN "new" ELSE n.dao_timer
BY FieldNames DEF rpl_timers_schedule_dao, Handled, Carried, NodeState, SameMembership

LEMMA SetState ==
  ASSUME NEW n \in NodeState, NEW s \in DagState, NEW m, m = [n EXCEPT !.state = s]
  PROVE  /\ Handled(m, n) /\ m.state = s /\ m.leave = n.leave /\ m.dao_timer = n.dao_timer
         /\ m.unprocessed_parent_switch = n.unprocessed_parent_switch
BY DEF Handled, Carried, NodeState, SameMembership

LEMMA SetLeave ==
  ASSUME NEW n \in NodeState, NEW b \in BOOLEAN, NEW m, m = [n EXCEPT !.leave = b]
  PROVE  /\ Handled(m, n) /\ m.state = n.state /\ m.leave = b /\ m.dao_timer = n.dao_timer
         /\ m.unprocessed_parent_switch = n.unprocessed_parent_switch
BY DEF Handled, Carried, NodeState, SameMembership

LEMMA SwitchProcessed ==
  ASSUME NEW n \in NodeState, NEW m, m = [n EXCEPT !.unprocessed_parent_switch = FALSE]
  PROVE  /\ Handled(m, n) /\ m.state = n.state /\ m.leave = n.leave
         /\ m.dao_timer = n.dao_timer /\ ~m.unprocessed_parent_switch
BY DEF Handled, Carried, NodeState, SameMembership

LEMMA GotParent ==
  ASSUME NEW n \in NodeState, NEW m, m = got_parent(n)
  PROVE  /\ Handled(m, n) /\ m.state = "JOINED" /\ ~m.leave /\ m.dao_timer = n.dao_timer
<1> DEFINE o == [n EXCEPT !.state = "JOINED"]
           p == rpl_timers_dio_reset(o)
<1>1. Handled(o, n) /\ o.state = "JOINED" /\ o.dao_timer = n.dao_timer /\ o \in NodeState
  BY FieldNames, SetState DEF Handled, Carried
<1>2. m = [p EXCEPT !.leave = FALSE]
  BY DEF got_parent, rpl_timers_unschedule_leaving
<1> HIDE DEF o
<1>3. Unmoved(p, o) /\ Carried(p, o) /\ p.lowest_rank = o.lowest_rank
  BY <1>1, DioReset
<1> HIDE DEF p
<1>4. Handled(p, o) /\ p.state = "JOINED" /\ p.dao_timer = n.dao_timer /\ p \in NodeState
  BY <1>1, <1>3 DEF Handled, Unmoved
<1>5. Handled(m, p) /\ m.state = "JOINED" /\ ~m.leave /\ m.dao_timer = n.dao_timer
  BY <1>2, <1>4, SetLeave
<1> QED BY <1>1, <1>4, <1>5, HandledTransitive

LEMMA LostParent ==
  ASSUME NEW n \in NodeState, NEW m, m = lost_parent(n)
  PROVE  /\ Handled(m, n) /\ m.state = "INITIALIZED" /\ m.leave /\ m.dao_timer = n.dao_timer
<1> DEFINE o == [n EXCEPT !.state = "INITIALIZED"]
           p == rpl_timers_dio_reset(o)
           q == rpl_timers_schedule_periodic_dis(p)
<1>1. Handled(o, n) /\ o.state = "INITIALIZED" /\ o.dao_timer = n.dao_timer /\ o \in NodeState
  BY FieldNames, SetState DEF Handled, Carried
<1>2. m = [q EXCEPT !.leave = TRUE]
  BY DEF lost_parent, rpl_timers_schedule_leaving
<1> HIDE DEF o
<1>3. Unmoved(p, o) /\ Carried(p, o) /\ p.lowest_rank = o.lowest_rank
  BY <1>1, DioReset
<1> HIDE DEF p
<1>4. Handled(p, o) /\ p.state = "INITIALIZED" /\ p.dao_timer = n.dao_timer /\ p \in NodeState
  BY <1>1, <1>3 DEF Handled, Unmoved
<1>5. Unmoved(q, p) /\ Carried(q, p) /\ q.lowest_rank = p.lowest_rank
  BY <1>4, PeriodicDis
<1> HIDE DEF q
<1>6. Handled(q, p) /\ q.state = "INITIALIZED" /\ q.dao_timer = n.dao_timer /\ q \in NodeState
  BY <1>4, <1>5 DEF Handled, Unmoved
<1>7. Handled(m, q) /\ m.state = "INITIALIZED" /\ m.leave /\ m.dao_timer = n.dao_timer
  BY <1>2, <1>6, SetLeave
<1> QED BY <1>1, <1>4, <1>6, <1>7, HandledTransitive

(* Handling a switch from old_parent to the parent of n. *)
Switched(m, n, old_parent) ==
  /\ Handled(m, n) /\ ~m.unprocessed_parent_switch
  /\ ~n.unprocessed_parent_switch =>
       m.state = n.state /\ m.leave = n.leave /\ m.dao_timer = n.dao_timer
  /\ n.unprocessed_parent_switch /\ n.preferred_parent = NoNode =>
       m.state = "INITIALIZED" /\ m.leave /\ m.dao_timer = n.dao_timer
  /\ n.unprocessed_parent_switch /\ n.preferred_parent # NoNode =>
       /\ IF old_parent = NoNode THEN m.state = "JOINED" /\ ~m.leave
          ELSE m.state = n.state /\ m.leave = n.leave
       /\ m.dao_timer = IF n.used /\ n.mop # "NO_DOWNWARD_ROUTES" THEN "new" ELSE n.dao_timer

LEMMA SwitchOutcome ==
  ASSUME NEW n \in NodeState, NEW old_parent, NEW m, m = process_parent_switch(n, old_parent)
  PROVE  Switched(m, n, old_parent)
<1> DEFINE got == rpl_timers_schedule_dao(got_parent(n))
           other == rpl_timers_schedule_dao(n)
           lost == lost_parent(n)
           o == CASE n.preferred_parent = NoNode -> lost
                  [] n.preferred_parent # NoNode /\ old_parent = NoNode -> got
                  [] OTHER -> other
<1>1. m = IF n.unprocessed_parent_switch
            THEN [o EXCEPT !.unprocessed_parent_switch = FALSE] ELSE n
  BY DEF process_parent_switch
<1>2. Handled(lost, n) /\ lost.state = "INITIALIZED" /\ lost.leave /\ lost.dao_timer = n.dao_timer
  BY LostParent
<1>3. /\ Handled(other, n) /\ other.state = n.state /\ other.leave = n.leave
      /\ other.dao_timer
           = IF n.used /\ n.mop # "NO_DOWNWARD_ROUTES" THEN "new" ELSE n.dao_timer
  BY ScheduleDao
<1>4. /\ Handled(got, n) /\ got.state = "JOINED" /\ ~got.leave
      /\ got.dao_timer = IF n.used /\ n.mop # "NO_DOWNWARD_ROUTES" THEN "new" ELSE n.dao_timer
  <2> DEFINE p == got_parent(n)
  <2>1. Handled(p, n) /\ p.state = "JOINED" /\ ~p.leave /\ p.dao_timer = n.dao_timer
    BY GotParent
  <2>2. p \in NodeState /\ p.used = n.used /\ p.mop = n.mop
    BY <2>1 DEF Handled, Carried, SameMembership
  <2> HIDE DEF p
  <2>3. /\ Handled(rpl_timers_schedule_dao(p), p)
        /\ rpl_timers_schedule_dao(p).state = p.state
        /\ rpl_timers_schedule_dao(p).leave = p.leave
        /\ rpl_timers_schedule_dao(p).dao_timer
             = IF p.used /\ p.mop # "NO_DOWNWARD_ROUTES" THEN "new" ELSE p.dao_timer
    BY <2>2, ScheduleDao
  <2>4. Handled(rpl_timers_schedule_dao(p), n)
    BY <2>1, <2>3, HandledTransitive
  <2> QED BY <2>1, <2>2, <2>3, <2>4 DEF p
<1>5. o = IF n.preferred_parent = NoNode THEN lost
          ELSE IF old_parent = NoNode THEN got ELSE other
  OBVIOUS
<1> HIDE DEF got, other, lost, o
<1>6. CASE ~n.unprocessed_parent_switch
  BY <1>1, <1>6 DEF Switched, Handled, Carried, SameMembership
<1>7. CASE n.unprocessed_parent_switch
  <2>1. Handled(o, n)
    BY <1>2, <1>3, <1>4, <1>5
  <2>2. /\ Handled(m, o) /\ ~m.unprocessed_parent_switch
        /\ m.state = o.state /\ m.leave = o.leave /\ m.dao_timer = o.dao_timer
    BY <1>1, <1>7, <2>1, SwitchProcessed DEF Handled, Carried
  <2>3. Handled(m, n)
    BY <2>1, <2>2, HandledTransitive
  <2> QED BY <1>2, <1>3, <1>4, <1>5, <1>7, <2>2, <2>3 DEF Switched
<1> QED BY <1>6, <1>7
------------------------------------------------------------------------------
(* rpl_dag_update_state as a whole *)

(* A node with a parent has a finite rank, even if the parent's is in doubt. *)
Ranked(n) == n.preferred_parent # NoNode => n.rank # InfiniteRank

LEMMA AboveIsRanked ==
  ASSUME NEW n, RankAbove(n)
  PROVE  Ranked(n)
BY DEF RankAbove, Ranked

(* What a state update makes of what was there before. *)
Updated(m, n) ==
  /\ Carried(m, n) /\ RankAbove(m)
  /\ Announcing(n) => Announcing(m)
  /\ Kept(n) /\ Ranked(n) => Kept(m)

LEMMA PoisonUpdated ==
  ASSUME NEW n, NodeInv(n), n.used, n.state = "POISONING",
         NEW m, m = poison([n EXCEPT !.state_update = FALSE])
  PROVE  Updated(m, n)
<1> DEFINE s == [n EXCEPT !.state_update = FALSE]
           o == rpl_neighbor_set_preferred_parent(s, NoNode)
           p == [o EXCEPT !.rank = InfiniteRank]
           q == rpl_timers_dio_reset(p)
           r == [q EXCEPT !.leave = TRUE]
<1>0. n \in NodeState
  BY DEF NodeInv
<1>1. s \in NodeState /\ Carried(s, n) /\ s.state = n.state /\ s.leave = n.leave /\ s.rank = n.rank
  BY <1>0 DEF Carried, NodeState, SameMembership
<1>2. m = IF s.rank # InfiniteRank THEN r ELSE p
  BY DEF poison, rpl_timers_schedule_leaving
<1> HIDE DEF s
<1>3. /\ o \in NodeState /\ Carried(o, s) /\ o.state = s.state /\ o.leave = s.leave
      /\ o.preferred_parent = NoNode
  BY <1>1 DEF rpl_neighbor_set_preferred_parent, Carried, NodeState, SameMembership
<1> HIDE DEF o
<1>4. /\ p \in NodeState /\ Carried(p, o) /\ p.state = o.state /\ p.leave = o.leave
      /\ p.preferred_parent = NoNode
  BY <1>3, FieldValues DEF Carried, NodeState, SameMembership
<1> HIDE DEF p
<1>5. Unmoved(q, p) /\ Carried(q, p)
  BY <1>4, DioReset
<1> HIDE DEF q
<1>6. /\ Carried(r, q) /\ r.state = q.state /\ r.leave /\ r.preferred_parent = q.preferred_parent
  BY <1>5 DEF Unmoved, Carried, NodeState, SameMembership
<1> HIDE DEF r
<1>7. /\ Carried(m, n) /\ m.state = "POISONING" /\ m.preferred_parent = NoNode
      /\ m.leave = (n.leave \/ n.rank # InfiniteRank)
  <2>1. Carried(p, n) /\ Carried(r, n)
    BY <1>1, <1>3, <1>4, <1>5, <1>6 DEF Carried, SameMembership
  <2>2. CASE s.rank # InfiniteRank
    BY <1>1, <1>2, <1>3, <1>4, <1>5, <1>6, <2>1, <2>2 DEF Unmoved
  <2>3. CASE s.rank = InfiniteRank
    BY <1>1, <1>2, <1>3, <1>4, <2>1, <2>3 DEF NodeState
  <2> QED BY <2>2, <2>3
<1>8. RankAbove(m) /\ Announcing(m)
  BY <1>7 DEF RankAbove, Announcing
<1>9. Kept(n) /\ Ranked(n) => Kept(m)
  BY <1>7 DEF Kept, Ranked, Member, Carried, SameMembership
<1> QED BY <1>7, <1>8, <1>9 DEF Updated

LEMMA MemberUpdated ==
  ASSUME NEW n, NodeInv(n), n.used, n.state # "POISONING", n.dag_id # n.id,
         NEW s, s = [n EXCEPT !.state_update = FALSE],
         NEW cost \in [s.nbrs -> LinkCosts], NEW p \in reselect(s, cost),
         NEW m, m = after_reselect(p, n.preferred_parent)
  PROVE  Updated(m, n)
<1>1. /\ s \in NodeState /\ Carried(s, n) /\ s.state = n.state /\ s.leave = n.leave
      /\ s.dao_timer = n.dao_timer /\ s.preferred_parent = n.preferred_parent
      /\ s.unprocessed_parent_switch = n.unprocessed_parent_switch
  BY DEF NodeInv, Carried, NodeState, SameMembership
<1>2. Selected(p, s)
  BY <1>1, ReselectSelected
<1> DEFINE q == track_advertised_rank(track_lowest_rank(p, n.preferred_parent))
<1>3. Unmoved(q, p) /\ Carried(q, p)
  BY <1>2, TrackRankUnmoved DEF Selected, Carried
<1>4. m = process_parent_switch(q, n.preferred_parent)
  BY DEF after_reselect
<1> HIDE DEF q
<1>5. Switched(m, q, n.preferred_parent)
  BY <1>3, <1>4, SwitchOutcome DEF Unmoved
<1>6. Carried(m, n)
  BY <1>1, <1>2, <1>3, <1>5 DEF Selected, Switched, Handled, Carried, SameMembership
<1>7. m.preferred_parent = p.preferred_parent /\ m.rank = p.rank /\ m.nbr_rank = p.nbr_rank
  BY <1>2, <1>3, <1>5, <1>6 DEF Unmoved, Switched, Handled, Carried
<1>8. RankAbove(m)
  BY <1>1, <1>2, <1>6, <1>7 DEF Selected, RankAbove, RankLiar, WorstParent, Carried, SameMembership
<1>9. /\ q.state = n.state /\ q.leave = n.leave /\ q.dao_timer = n.dao_timer
      /\ q.preferred_parent = p.preferred_parent
      /\ ~q.unprocessed_parent_switch =>
           ~n.unprocessed_parent_switch /\ q.preferred_parent = n.preferred_parent
  BY <1>1, <1>2, <1>3 DEF Selected, Unmoved
<1>10. q.used = n.used /\ q.mop = n.mop /\ q.id = n.id /\ q.dag_id = n.dag_id
  BY <1>1, <1>2, <1>3 DEF Selected, Carried, SameMembership
<1>11. Announcing(n) => Announcing(m)
  <2> SUFFICES ASSUME Announcing(n), Member(m), m.mop = "NON_STORING", m.preferred_parent # NoNode
               PROVE  /\ m.state # "POISONING" => m.dao_timer # "off"
                      /\ m.state = "JOINED" => m.dao_timer \in {"new", "resend"}
    BY DEF Announcing
  <2>1. Member(n) /\ n.mop = "NON_STORING" /\ q.used /\ q.mop = "NON_STORING"
    BY <1>6, <1>10 DEF Member, Carried, SameMembership
  <2>2. CASE q.unprocessed_parent_switch
    BY <1>5, <1>7, <1>9, <2>1, <2>2 DEF Switched
  <2>3. CASE ~q.unprocessed_parent_switch
    BY <1>5, <1>7, <1>9, <2>1, <2>3 DEF Switched, Announcing
  <2> QED BY <2>2, <2>3
<1>12. Kept(n) => Kept(m)
  <2> SUFFICES ASSUME Kept(n) PROVE Kept(m)
    OBVIOUS
  <2>1. m.used = n.used /\ m.nbrs = n.nbrs /\ m.lifetime = n.lifetime /\ Member(n)
    BY <1>6 DEF Member, Carried, SameMembership
  <2>2. m.preferred_parent = NoNode => m.leave
    BY <1>5, <1>7, <1>9, <2>1 DEF Switched, Kept
  <2>3. m.lifetime = 0 => m.nbrs = {}
    BY <2>1 DEF Kept
  <2> QED BY <2>1, <2>2, <2>3 DEF Kept
<1> QED BY <1>6, <1>8, <1>11, <1>12 DEF Updated

LEMMA UpdateStateOutcome ==
  ASSUME NEW n, NodeInv(n), NEW m \in rpl_dag_update_state(n)
  PROVE  Updated(m, n)
<1> DEFINE s == [n EXCEPT !.state_update = FALSE]
<1>0. n \in NodeState /\ n.nbrs = s.nbrs
  BY DEF NodeInv, NodeState
<1>1. CASE ~n.used /\ m = n
  <2>1. n.preferred_parent = NoNode
    BY <1>1 DEF NodeInv
  <2> QED BY <1>0, <1>1, <2>1 DEF Updated, Carried, SameMembership, RankAbove
<1>2. CASE n.used /\ n.state = "POISONING" /\ m = poison(s)
  BY <1>2, PoisonUpdated
<1>3. CASE n.used /\ n.state # "POISONING" /\ n.dag_id = n.id /\ m = s
  <2>1. Carried(m, n) /\ m.preferred_parent = NoNode
    BY <1>0, <1>3 DEF NodeInv, Carried, NodeState, SameMembership
  <2> QED
    BY <1>3, <2>1 DEF Updated, RankAbove, Announcing, Kept, Member, Carried, SameMembership
<1>4. CASE /\ n.used /\ n.state # "POISONING" /\ n.dag_id # n.id
           /\ \E cost \in [n.nbrs -> LinkCosts] : \E p \in reselect(s, cost) :
                m = after_reselect(p, n.preferred_parent)
  <2> HIDE DEF s
  <2>1. PICK cost \in [s.nbrs -> LinkCosts] : \E p \in reselect(s, cost) :
          m = after_reselect(p, n.preferred_parent)
    BY <1>0, <1>4
  <2>2. PICK p \in reselect(s, cost) : m = after_reselect(p, n.preferred_parent)
    BY <2>1
  <2> QED BY <1>4, <2>2, MemberUpdated DEF s
<1> QED
  BY <1>1, <1>2, <1>3, <1>4 DEF rpl_dag_update_state, rpl_dag_root_is_root
------------------------------------------------------------------------------
(* Handlers *)

(* What a state update, and so any output, brings back. *)
Refreshed(m, n) ==
  /\ RankAbove(m)
  /\ Announcing(n) => Announcing(m)
  /\ Kept(n) /\ Ranked(n) => Kept(m)

(* What every handler upholds. *)
Upheld(m, n) == RankAbove(m) /\ Announcing(m) /\ (Kept(n) => Kept(m))

LEMMA RefreshedUpheld ==
  ASSUME NEW n, NEW o, NEW m, Refreshed(m, o), Announcing(o), Ranked(o), Kept(n) => Kept(o)
  PROVE  Upheld(m, n)
BY DEF Refreshed, Upheld

LEMMA UnmovedUpheld ==
  ASSUME NEW n, Settled(n), NEW m, Unmoved(m, n)
  PROVE  Upheld(m, n)
BY UnmovedKeeps DEF Settled, Upheld

LEMMA OutputRefreshed ==
  ASSUME NEW n, NodeInv(n), NEW o \in rpl_dag_update_state(n), NEW m, Unmoved(m, o)
  PROVE  Refreshed(m, n)
<1>1. Updated(o, n)
  BY UpdateStateOutcome
<1> QED BY <1>1, UnmovedKeeps DEF Updated, Refreshed

LEMMA UpdateRefreshed ==
  ASSUME NEW n, NodeInv(n), NEW m \in rpl_dag_update_state(n)
  PROVE  Refreshed(m, n)
BY UpdateStateOutcome DEF Updated, Refreshed

LEMMA DioOutputRefreshed ==
  ASSUME NEW n, NodeInv(n), NEW to \in Node \cup {All}, NEW m \in rpl_icmp6_dio_output(n, to)
  PROVE  Refreshed(m, n)
<1> DEFINE msg(o) == [type |-> "DIO", to |-> to, rank |-> o.rank,
                      version |-> advertised_version(o), dtsn |-> o.dtsn_out]
<1>1. PICK o \in rpl_dag_update_state(n) : m = Send(o, msg(o))
  BY DEF rpl_icmp6_dio_output
<1>2. o \in NodeState
  BY UpdateStateInv DEF NodeInv
<1>3. o.rank \in Rank /\ o.dtsn_out \in Seqno /\ advertised_version(o) \in Seqno
  BY <1>2, AdvertisedVersion DEF NodeState
<1>4. msg(o) \in Message
  BY <1>3 DEF Message
<1> HIDE DEF msg
<1> QED BY <1>1, <1>2, <1>4, Sent, OutputRefreshed

LEMMA DisOutputRefreshed ==
  ASSUME NEW n, NodeInv(n), NEW to \in Node \cup {All}, NEW m \in rpl_icmp6_dis_output(n, to)
  PROVE  Refreshed(m, n)
<1> DEFINE msg == [type |-> "DIS", to |-> to]
<1>1. PICK o \in rpl_dag_update_state(n) : m = Send(o, msg)
  BY DEF rpl_icmp6_dis_output
<1>2. o \in NodeState /\ msg \in Message
  BY UpdateStateInv DEF NodeInv, Message
<1> HIDE DEF msg
<1> QED BY <1>1, <1>2, Sent, OutputRefreshed

LEMMA DaoOutputRefreshed ==
  ASSUME NEW n, NodeInv(n), NEW lifetime \in {0, 1}, NEW m \in rpl_icmp6_dao_output(n, lifetime)
  PROVE  Refreshed(m, n)
<1> DEFINE msg(o) == [type |-> "DAO", parent |-> n.preferred_parent,
                      seqno |-> o.dao_last_seqno, lifetime |-> lifetime]
<1>1. PICK o \in rpl_dag_update_state(n) :
        m = o \/ (m = Send(o, msg(o)) /\ n.preferred_parent # NoNode)
  BY DEF rpl_icmp6_dao_output
<1>2. o \in NodeState
  BY UpdateStateInv DEF NodeInv
<1>3. CASE m = o
  BY <1>3, UpdateRefreshed
<1>4. CASE m = Send(o, msg(o)) /\ n.preferred_parent # NoNode
  <2>1. n.preferred_parent \in Node /\ o.dao_last_seqno \in Seqno
    BY <1>2, <1>4 DEF NodeInv, NodeState
  <2>2. msg(o) \in Message
    BY <2>1 DEF Message
  <2> HIDE DEF msg
  <2> QED BY <1>2, <1>4, <2>2, Sent, OutputRefreshed
<1> QED BY <1>1, <1>3, <1>4

(* Leaving and repairing *)

LEMMA LeaveUpheld ==
  ASSUME NEW n, NodeInv(n), NEW m \in rpl_dag_leave(n)
  PROVE  RankAbove(m) /\ Announcing(m) /\ Kept(m)
<1> DEFINE i == [n EXCEPT !.dao_last_seqno = Increment(n.dao_last_seqno)]
           said == IF rpl_dag_root_is_root(n) THEN {n} ELSE rpl_icmp6_dao_output(i, 0)
<1>1. Increment(n.dao_last_seqno) \in Seqno
  BY IncrementType DEF NodeInv, NodeState
<1>2. NodeInv(i)
  BY <1>1 DEF NodeInv, NodeState
<1>3. PICK o \in said :
        m = [rpl_timers_stop_dag_timers(rpl_neighbor_remove_all(o)) EXCEPT !.used = FALSE]
  BY DEF rpl_dag_leave
<1> HIDE DEF i
<1>4. o \in NodeState
  BY <1>2, <1>3, DaoOutput DEF NodeInv
<1> HIDE DEF said
<1> DEFINE p == rpl_neighbor_remove_all(o)
           q == rpl_timers_stop_dag_timers(p)
<1>5. p \in NodeState /\ p.preferred_parent = NoNode /\ p.nbrs = {}
  BY <1>4, RemoveAll
<1> HIDE DEF p
<1>6. /\ q \in NodeState /\ q.preferred_parent = NoNode /\ q.nbrs = {}
      /\ ~q.state_update /\ ~q.unicast_dio /\ q.dao_timer = "off"
  BY <1>5, FieldNames DEF rpl_timers_stop_dag_timers, NodeState
<1>7. m = [q EXCEPT !.used = FALSE]
  BY <1>3 DEF p
<1> HIDE DEF q
<1>8. /\ ~m.used /\ m.preferred_parent = NoNode /\ m.nbrs = {}
      /\ ~m.state_update /\ ~m.unicast_dio /\ m.dao_timer = "off"
  BY <1>6, <1>7 DEF NodeState
<1> QED BY <1>8 DEF RankAbove, Announcing, Kept, Member

(* A repair takes the parent away and arms a state update; the leave timer  *)
(* is armed by that update, which finds the switch unprocessed.             *)
LEMMA LocalRepairEffect ==
  ASSUME NEW n \in NodeState, n.used, NEW m, m = rpl_local_repair(n)
  PROVE  /\ SameMembership(m, n) /\ m.preferred_parent = NoNode /\ m.nbrs = {} /\ m.state_update
         /\ m.rank = n.rank /\ m.leave = n.leave
         /\ n.preferred_parent # NoNode \/ n.unprocessed_parent_switch
              => m.unprocessed_parent_switch
<1> DEFINE o == IF rpl_dag_root_is_root(n) THEN n ELSE [n EXCEPT !.state = "INITIALIZED"]
           p == rpl_neighbor_remove_all(o)
           q == rpl_timers_dio_reset(p)
<1>1. /\ o \in NodeState /\ SameMembership(o, n) /\ o.rank = n.rank /\ o.leave = n.leave
      /\ o.preferred_parent = n.preferred_parent
      /\ o.unprocessed_parent_switch = n.unprocessed_parent_switch
  BY FieldNames DEF NodeState, SameMembership
<1> HIDE DEF o
<1>2. /\ p \in NodeState /\ SameMembership(p, o) /\ p.preferred_parent = NoNode
      /\ p.nbrs = {} /\ p.rank = o.rank /\ p.leave = o.leave
  BY <1>1, RemoveAll
<1>3. o.preferred_parent # NoNode \/ o.unprocessed_parent_switch => p.unprocessed_parent_switch
  BY <1>1 DEF rpl_neighbor_remove_all, rpl_neighbor_set_preferred_parent, NodeState
<1>4. m = [q EXCEPT !.state_update = TRUE]
  BY DEF rpl_local_repair, rpl_timers_schedule_state_update, o, p
<1> HIDE DEF p
<1>5. Unmoved(q, p)
  BY <1>2, DioReset
<1> HIDE DEF q
<1>6. /\ SameMembership(m, q) /\ m.preferred_parent = q.preferred_parent /\ m.nbrs = q.nbrs
      /\ m.rank = q.rank /\ m.leave = q.leave /\ m.state_update
      /\ m.unprocessed_parent_switch = q.unprocessed_parent_switch
  BY <1>4, <1>5 DEF Unmoved, NodeState, SameMembership
<1> QED BY <1>1, <1>2, <1>3, <1>5, <1>6 DEF Unmoved, SameMembership

LEMMA LocalRepairUpheld ==
  ASSUME NEW n \in NodeState, ~n.used => n.preferred_parent = NoNode, Ranked(n),
         NEW m, m = rpl_local_repair(n)
  PROVE  Upheld(m, n)
<1>1. CASE ~n.used
  BY <1>1 DEF rpl_local_repair, Upheld, RankAbove, Announcing, Member
<1>2. CASE n.used
  <2>1. /\ SameMembership(m, n) /\ m.preferred_parent = NoNode /\ m.nbrs = {} /\ m.state_update
        /\ m.rank = n.rank /\ m.leave = n.leave
        /\ n.preferred_parent # NoNode \/ n.unprocessed_parent_switch
             => m.unprocessed_parent_switch
    BY <1>2, LocalRepairEffect
  <2>2. Kept(n) => Kept(m)
    BY <1>2, <2>1 DEF Kept, Ranked, Member, SameMembership
  <2> QED BY <2>1, <2>2 DEF Upheld, RankAbove, Announcing
<1> QED BY <1>1, <1>2

LEMMA GlobalRepairUpheld ==
  ASSUME NEW n, Settled(n), NEW m, m = rpl_global_repair(n)
  PROVE  Upheld(m, n)
<1>1. CASE ~rpl_dag_root_is_root(n)
  BY <1>1 DEF rpl_global_repair, Settled, Upheld
<1>2. CASE rpl_dag_root_is_root(n)
  <2> DEFINE o == [n EXCEPT !.version = Increment(n.version), !.dtsn_out = SeqnoInit]
  <2>1. Increment(n.version) \in Seqno /\ SeqnoInit \in Seqno
    BY FieldValues, IncrementType DEF Settled, NodeInv, NodeState
  <2>2. o \in NodeState /\ o.used /\ o.dag_id = o.id /\ o.preferred_parent = n.preferred_parent
        /\ o.rank = n.rank
    BY <1>2, <2>1 DEF Settled, NodeInv, NodeState, rpl_dag_root_is_root
  <2>3. m = rpl_local_repair(o)
    BY <1>2 DEF rpl_global_repair
  <2> HIDE DEF o
  <2>4. Ranked(o) /\ Kept(o)
    BY <2>2, AboveIsRanked DEF Settled, Ranked, Kept, Member
  <2> QED BY <2>2, <2>3, <2>4, LocalRepairUpheld DEF Upheld
<1> QED BY <1>1, <1>2

LEMMA RefreshRoutesUpheld ==
  ASSUME NEW n, Settled(n), NEW m, m = rpl_refresh_routes(n)
  PROVE  Upheld(m, n)
<1>1. Increment(n.dtsn_out) \in Seqno
  BY IncrementType DEF Settled, NodeInv, NodeState
<1>2. Unmoved(m, n)
  BY <1>1 DEF rpl_refresh_routes, Unmoved, Settled, NodeInv, NodeState, SameMembership
<1> QED BY <1>2, UnmovedUpheld

(* A new root has no parent, and what it knew before it joined as a root.   *)
LEMMA InitRootUpheld ==
  ASSUME NEW n, Settled(n), NEW m \in rpl_dag_init_root(n)
  PROVE  Upheld(m, n)
<1>1. NodeInv(m) /\ m.used /\ m.dag_id = m.id /\ m.preferred_parent = NoNode
  BY InitRoot DEF Settled
<1> QED BY <1>1 DEF Upheld, RankAbove, Announcing, Kept, Member

LEMMA PoweredOnUpheld ==
  ASSUME NEW i \in Node
  PROVE  RankAbove(PoweredOn(i)) /\ Announcing(PoweredOn(i)) /\ Kept(PoweredOn(i))
BY DEF PoweredOn, RankAbove, Announcing, Kept, Member

LEMMA PoisonUpheld ==
  ASSUME NEW n, Settled(n), n.used, NEW m, m = rpl_dag_poison_and_leave(n)
  PROVE  Upheld(m, n)
<1>1. /\ m.state = "POISONING" /\ m.state_update
      /\ m.id = n.id /\ m.used /\ m.dag_id = n.dag_id /\ m.mop = n.mop
      /\ m.preferred_parent = n.preferred_parent /\ m.rank = n.rank /\ m.nbr_rank = n.nbr_rank
      /\ m.leave = n.leave /\ m.unprocessed_parent_switch = n.unprocessed_parent_switch
  BY DEF rpl_dag_poison_and_leave, rpl_timers_schedule_state_update, Settled, NodeInv, NodeState
<1> QED BY <1>1 DEF Settled, Upheld, RankAbove, RankLiar, WorstParent, Announcing, Kept, Member
------------------------------------------------------------------------------
(* Other input *)

LEMMA ProcessDisUpheld ==
  ASSUME NEW n, Settled(n), NEW from \in Node,
         NEW is_multicast \in BOOLEAN, NEW has_room \in BOOLEAN,
         NEW m \in rpl_process_dis(n, from, is_multicast, has_room)
  PROVE  Upheld(m, n)
<1>1. CASE m = n
  BY <1>1 DEF Settled, Upheld
<1>2. CASE m = rpl_timers_dio_reset(n)
  BY <1>2, DioReset, UnmovedUpheld DEF Settled, NodeInv
<1>3. CASE m \in rpl_icmp6_dio_output(n, from)
  BY <1>3, DioOutputRefreshed, RefreshedUpheld, AboveIsRanked DEF Settled
<1> QED BY <1>1, <1>2, <1>3 DEF rpl_process_dis

(* Only an acknowledged node counts as reachable, and it refreshes its route. *)
LEMMA ProcessDaoAckUpheld ==
  ASSUME NEW n, Settled(n), NEW sequence, NEW status_ok \in BOOLEAN,
         NEW m, m = rpl_process_dao_ack(n, sequence, status_ok)
  PROVE  Upheld(m, n)
<1> DEFINE o == [n EXCEPT !.state = "REACHABLE"]
           reached == IF n.state = "JOINED" /\ status_ok THEN rpl_timers_dio_reset(o) ELSE n
           noted == rpl_timers_notify_dao_ack(reached)
           poisoned == [noted EXCEPT !.state = "POISONING"]
<1>0. n \in NodeState
  BY DEF Settled, NodeInv
<1>1. o \in NodeState /\ Handled(o, n) /\ o.state = "REACHABLE" /\ o.leave = n.leave
      /\ o.unprocessed_parent_switch = n.unprocessed_parent_switch
  BY <1>0, FieldNames, SetState DEF Handled, Carried
<1> HIDE DEF o
<1>2. Unmoved(rpl_timers_dio_reset(o), o)
  BY <1>1, DioReset
<1>3. /\ reached \in NodeState /\ SameMembership(reached, n)
      /\ reached.preferred_parent = n.preferred_parent /\ reached.rank = n.rank
      /\ reached.nbrs = n.nbrs /\ reached.nbr_rank = n.nbr_rank
      /\ reached.lifetime = n.lifetime /\ reached.unicast_dio = n.unicast_dio
      /\ reached.leave = n.leave /\ reached.state_update = n.state_update
      /\ reached.unprocessed_parent_switch = n.unprocessed_parent_switch
      /\ reached.state = IF n.state = "JOINED" /\ status_ok THEN "REACHABLE" ELSE n.state
  BY <1>0, <1>1, <1>2 DEF Unmoved, Handled, Carried, SameMembership
<1>4. m = CASE ~n.used \/ sequence # n.dao_last_seqno -> n
            [] n.used /\ sequence = n.dao_last_seqno /\ status_ok -> noted
            [] OTHER -> poisoned
  BY DEF rpl_process_dao_ack, o
<1> HIDE DEF reached
<1>5. /\ noted \in NodeState /\ SameMembership(noted, reached) /\ noted.dao_timer = "refresh"
      /\ noted.preferred_parent = reached.preferred_parent /\ noted.rank = reached.rank
      /\ noted.nbrs = reached.nbrs /\ noted.nbr_rank = reached.nbr_rank
      /\ noted.lifetime = reached.lifetime /\ noted.unicast_dio = reached.unicast_dio
      /\ noted.leave = reached.leave /\ noted.state_update = reached.state_update
      /\ noted.unprocessed_parent_switch = reached.unprocessed_parent_switch
      /\ noted.state = reached.state
  BY <1>3, FieldNames DEF rpl_timers_notify_dao_ack, NodeState, SameMembership
<1> HIDE DEF noted
<1>6. /\ SameMembership(poisoned, noted) /\ poisoned.dao_timer = "refresh"
      /\ poisoned.preferred_parent = noted.preferred_parent /\ poisoned.rank = noted.rank
      /\ poisoned.nbrs = noted.nbrs /\ poisoned.nbr_rank = noted.nbr_rank
      /\ poisoned.lifetime = noted.lifetime /\ poisoned.unicast_dio = noted.unicast_dio
      /\ poisoned.leave = noted.leave /\ poisoned.state_update = noted.state_update
      /\ poisoned.unprocessed_parent_switch = noted.unprocessed_parent_switch
      /\ poisoned.state = "POISONING"
  BY <1>5 DEF NodeState, SameMembership
<1> HIDE DEF poisoned
<1>7. CASE m = n
  BY <1>7 DEF Settled, Upheld
<1>8. CASE n.used /\ status_ok /\ m = noted
  <2>1. RankAbove(m) /\ Announcing(m)
    BY <1>3, <1>5, <1>8 DEF Settled, RankAbove, RankLiar, WorstParent, Announcing, SameMembership
  <2>2. Kept(n) => Kept(m)
    BY <1>3, <1>5, <1>8 DEF Kept, Member, SameMembership
  <2> QED BY <2>1, <2>2 DEF Upheld
<1>9. CASE n.used /\ ~status_ok /\ m = poisoned
  <2>1. RankAbove(m) /\ Announcing(m)
    BY <1>3, <1>5, <1>6, <1>9 DEF Settled, RankAbove, RankLiar, WorstParent, Announcing, SameMembership
  <2>2. /\ m.used /\ (Member(m) => Member(n)) /\ m.state = "POISONING"
        /\ m.preferred_parent = n.preferred_parent /\ m.rank = n.rank /\ m.leave = n.leave
        /\ m.state_update = n.state_update
        /\ m.unprocessed_parent_switch = n.unprocessed_parent_switch
    BY <1>3, <1>5, <1>6, <1>9 DEF Member, SameMembership
  <2>3. Kept(n) => Kept(m)
    BY <2>2 DEF Kept
  <2> QED BY <2>1, <2>3 DEF Upheld
<1> QED BY <1>4, <1>7, <1>8, <1>9

(* The rank in a data packet is followed by a state update. *)
LEMMA ProcessHbhUpheld ==
  ASSUME NEW n, Settled(n), n.used, NEW sender \in n.nbrs \cup {NoNode}, NEW sender_rank \in Rank,
         NEW loop_detected \in BOOLEAN, NEW rank_error_signaled \in BOOLEAN,
         NEW m \in rpl_process_hbh(n, sender, sender_rank, loop_detected, rank_error_signaled)
  PROVE  Upheld(m, n)
<1> DEFINE warned == IF loop_detected /\ rank_error_signaled /\ LoopErrorDrop
                       THEN rpl_timers_dio_reset(n) ELSE n
           replying == IF loop_detected THEN rpl_timers_schedule_unicast_dio(warned) ELSE warned
           o == [replying EXCEPT !.nbr_rank[sender] = sender_rank]
<1>0. n \in NodeState
  BY DEF Settled, NodeInv
<1>1. Unmoved(warned, n) /\ warned \in NodeState
  BY <1>0, DioReset DEF Unmoved, SameMembership
<1> HIDE DEF warned
<1>2. /\ replying \in NodeState /\ SameMembership(replying, n)
      /\ replying.state = n.state /\ replying.rank = n.rank /\ replying.lifetime = n.lifetime
      /\ replying.preferred_parent = n.preferred_parent
      /\ replying.unprocessed_parent_switch = n.unprocessed_parent_switch
      /\ replying.nbrs = n.nbrs /\ replying.nbr_rank = n.nbr_rank
      /\ replying.leave = n.leave /\ replying.state_update = n.state_update
      /\ replying.dao_timer = n.dao_timer
  BY <1>1 DEF rpl_timers_schedule_unicast_dio, Unmoved, NodeState, SameMembership
<1>3. m = replying \/ (sender # NoNode /\ m \in rpl_dag_update_state(o))
  BY DEF rpl_process_hbh, replying, warned
<1> HIDE DEF replying
<1>4. Settled(replying) /\ (Kept(n) => Kept(replying))
  <2>1. NodeInv(replying)
    BY <1>2 DEF Settled, NodeInv, SameMembership
  <2>2. RankAbove(replying) /\ Announcing(replying)
    BY <1>2 DEF Settled, RankAbove, RankLiar, WorstParent, Announcing, Member, SameMembership
  <2>3. Kept(n) => Kept(replying)
    BY <1>2 DEF Kept, Member, SameMembership
  <2> QED BY <2>1, <2>2, <2>3 DEF Settled
<1>5. CASE m = replying
  BY <1>4, <1>5 DEF Settled, Upheld
<1>6. CASE sender # NoNode /\ m \in rpl_dag_update_state(o)
  <2>1. /\ o \in NodeState /\ SameMembership(o, replying)
        /\ o.state = replying.state /\ o.rank = replying.rank /\ o.lifetime = replying.lifetime
        /\ o.preferred_parent = replying.preferred_parent
        /\ o.unprocessed_parent_switch = replying.unprocessed_parent_switch
        /\ o.nbrs = replying.nbrs /\ o.leave = replying.leave
        /\ o.state_update = replying.state_update /\ o.unicast_dio = replying.unicast_dio
        /\ o.dao_timer = replying.dao_timer
    BY <1>2, <1>6 DEF NodeState, SameMembership
  <2> HIDE DEF o
  <2>2. NodeInv(o) /\ Announcing(o) /\ Ranked(o)
    BY <1>4, <2>1, AboveIsRanked
       DEF Settled, NodeInv, Announcing, Ranked, Member, SameMembership
  <2>3. Kept(replying) => Kept(o)
    BY <2>1 DEF Kept, Member, SameMembership
  <2>4. Refreshed(m, o)
    BY <1>6, <2>2, UpdateRefreshed
  <2> QED BY <1>4, <2>2, <2>3, <2>4, RefreshedUpheld
<1> QED BY <1>3, <1>5, <1>6

(* A lifetime that runs out poisons the node at once. *)
LEMMA PeriodicUpheld ==
  ASSUME NEW n, Settled(n), n.used, NEW m \in rpl_dag_periodic(n)
  PROVE  Upheld(m, n)
<1> DEFINE left == IF n.lifetime > 1 THEN n.lifetime - 1 ELSE 0
           o == [n EXCEPT !.lifetime = left]
<1>0. n \in NodeState
  BY DEF Settled, NodeInv
<1>1. left \in Lifetime /\ (n.lifetime > 1 => left # 0)
  BY <1>0, BoundsAssumption DEF NodeState, Lifetime, InfiniteLifetime
<1>2. \/ m = n
      \/ n.lifetime <= 1 /\ m = rpl_dag_poison_and_leave(o)
      \/ /\ n.lifetime > 1 /\ n.preferred_parent # NoNode
         /\ m \in rpl_icmp6_dis_output(o, n.preferred_parent)
      \/ n.lifetime > 1 /\ m = o
  <2>1. /\ n.lifetime \in Int /\ DagLifetime \in Int
        /\ InfiniteLifetime > 1 /\ InfiniteLifetime > DagLifetime
    BY <1>0, BoundsAssumption DEF NodeState, Lifetime, InfiniteLifetime
  <2>2. CASE n.lifetime = InfiniteLifetime
    BY <2>1, <2>2 DEF rpl_dag_periodic
  <2>3. CASE n.lifetime # InfiniteLifetime /\ n.lifetime <= 1
    BY <2>1, <2>3 DEF rpl_dag_periodic
  <2>4. CASE n.lifetime # InfiniteLifetime /\ n.lifetime > 1
    BY <2>1, <2>4 DEF rpl_dag_periodic
  <2> QED BY <2>1, <2>2, <2>3, <2>4
<1> HIDE DEF left
<1>3. /\ o \in NodeState /\ SameMembership(o, n) /\ o.lifetime = left
      /\ o.state = n.state /\ o.rank = n.rank
      /\ o.preferred_parent = n.preferred_parent
      /\ o.unprocessed_parent_switch = n.unprocessed_parent_switch
      /\ o.nbrs = n.nbrs /\ o.nbr_rank = n.nbr_rank /\ o.leave = n.leave
      /\ o.state_update = n.state_update /\ o.unicast_dio = n.unicast_dio
      /\ o.dao_timer = n.dao_timer
  BY <1>0, <1>1 DEF NodeState, SameMembership
<1> HIDE DEF o
<1>4. Settled(o)
  <2>1. NodeInv(o)
    BY <1>3 DEF Settled, NodeInv, SameMembership
  <2>2. RankAbove(o) /\ Announcing(o)
    BY <1>3 DEF Settled, RankAbove, RankLiar, WorstParent, Announcing, Member, SameMembership
  <2> QED BY <2>1, <2>2 DEF Settled
<1>5. n.lifetime > 1 /\ Kept(n) => Kept(o)
  BY <1>1, <1>3 DEF Kept, Member, SameMembership
<1>6. CASE m = n
  BY <1>6 DEF Settled, Upheld
<1>7. CASE n.lifetime <= 1 /\ m = rpl_dag_poison_and_leave(o)
  <2>1. /\ m.state = "POISONING" /\ m.state_update /\ SameMembership(m, o)
        /\ m.preferred_parent = o.preferred_parent /\ m.rank = o.rank /\ m.nbr_rank = o.nbr_rank
        /\ m.leave = o.leave /\ m.unprocessed_parent_switch = o.unprocessed_parent_switch
    BY <1>3, <1>7
       DEF rpl_dag_poison_and_leave, rpl_timers_schedule_state_update, NodeState, SameMembership
  <2>2. RankAbove(m) /\ Announcing(m)
    BY <1>4, <2>1 DEF Settled, RankAbove, RankLiar, WorstParent, Announcing, SameMembership
  <2>3. Kept(n) => Kept(m)
    BY <1>3, <2>1 DEF Kept, Member, SameMembership
  <2> QED BY <2>2, <2>3 DEF Upheld
<1>8. CASE /\ n.lifetime > 1 /\ n.preferred_parent # NoNode
           /\ m \in rpl_icmp6_dis_output(o, n.preferred_parent)
  <2>1. n.preferred_parent \in Node \cup {All}
    BY <1>0, <1>8 DEF NodeState
  <2>2. Refreshed(m, o)
    BY <1>4, <1>8, <2>1, DisOutputRefreshed DEF Settled
  <2> QED BY <1>4, <1>5, <1>8, <2>2, RefreshedUpheld, AboveIsRanked DEF Settled
<1>9. CASE n.lifetime > 1 /\ m = o
  BY <1>4, <1>5, <1>9 DEF Settled, Upheld
<1> QED BY <1>2, <1>6, <1>7, <1>8, <1>9
------------------------------------------------------------------------------
(* Timer handlers *)

LEMMA DioTimerUpheld ==
  ASSUME NEW n, Settled(n), NEW m \in handle_dio_timer(n)
  PROVE  Upheld(m, n)
<1> DEFINE o == [n EXCEPT !.dio_fresh = FALSE]
           p == [o EXCEPT !.last_advertised_rank = n.rank]
<1>0. n \in NodeState
  BY DEF Settled, NodeInv
<1>1. Unmoved(o, n)
  BY <1>0 DEF Unmoved, NodeState, SameMembership
<1>2. m = o \/ m \in rpl_icmp6_dio_output(p, All)
  BY DEF handle_dio_timer
<1> HIDE DEF o
<1>3. Unmoved(p, o)
  BY <1>0, <1>1 DEF Unmoved, NodeState, SameMembership
<1> HIDE DEF p
<1>4. Settled(p) /\ (Kept(n) => Kept(p))
  BY <1>1, <1>3, UnmovedKeeps DEF Settled
<1>5. CASE m = o
  BY <1>1, <1>5, UnmovedUpheld
<1>6. CASE m \in rpl_icmp6_dio_output(p, All)
  BY <1>4, <1>6, DioOutputRefreshed, RefreshedUpheld, AboveIsRanked DEF Settled
<1> QED BY <1>2, <1>5, <1>6

LEMMA UnicastDioTimerUpheld ==
  ASSUME NEW n, Settled(n), NEW to \in Node, NEW m \in handle_unicast_dio_timer(n, to)
  PROVE  Upheld(m, n)
<1> DEFINE o == [n EXCEPT !.unicast_dio = FALSE]
<1>0. n \in NodeState
  BY DEF Settled, NodeInv
<1>1. /\ o \in NodeState /\ SameMembership(o, n)
      /\ o.state = n.state /\ o.rank = n.rank /\ o.lifetime = n.lifetime
      /\ o.preferred_parent = n.preferred_parent
      /\ o.unprocessed_parent_switch = n.unprocessed_parent_switch
      /\ o.nbrs = n.nbrs /\ o.nbr_rank = n.nbr_rank /\ o.leave = n.leave
      /\ o.state_update = n.state_update /\ ~o.unicast_dio /\ o.dao_timer = n.dao_timer
  BY <1>0 DEF NodeState, SameMembership
<1>2. m \in rpl_icmp6_dio_output(o, to)
  BY DEF handle_unicast_dio_timer
<1> HIDE DEF o
<1>3. NodeInv(o)
  BY <1>1 DEF Settled, NodeInv, SameMembership
<1>4. RankAbove(o) /\ Announcing(o)
  BY <1>1 DEF Settled, RankAbove, RankLiar, WorstParent, Announcing, Member, SameMembership
<1>5. Kept(n) => Kept(o)
  BY <1>1 DEF Kept, Member, SameMembership
<1> QED BY <1>2, <1>3, <1>4, <1>5, DioOutputRefreshed, RefreshedUpheld, AboveIsRanked

LEMMA DisTimerUpheld ==
  ASSUME NEW n, Settled(n), NEW m \in handle_dis_timer(n)
  PROVE  Upheld(m, n)
<1>1. CASE m = [n EXCEPT !.periodic_dis = FALSE]
  <2>1. Unmoved(m, n)
    BY <1>1 DEF Settled, NodeInv, Unmoved, NodeState, SameMembership
  <2> QED BY <2>1, UnmovedUpheld
<1>2. CASE \E o \in rpl_icmp6_dis_output(n, All) : m = rpl_timers_schedule_periodic_dis(o)
  <2>1. PICK o \in rpl_icmp6_dis_output(n, All) : m = rpl_timers_schedule_periodic_dis(o)
    BY <1>2
  <2>2. o \in NodeState
    BY DisOutput DEF Settled, NodeInv
  <2>3. Upheld(o, n)
    BY DisOutputRefreshed, RefreshedUpheld, AboveIsRanked DEF Settled
  <2>4. Unmoved(m, o)
    BY <2>1, <2>2, PeriodicDis
  <2> QED BY <2>3, <2>4, UnmovedKeeps DEF Upheld
<1> QED BY <1>1, <1>2 DEF handle_dis_timer

LEMMA SendNewDaoUpheld ==
  ASSUME NEW n, Settled(n), n.dao_timer # "off", NEW m \in send_new_dao(n)
  PROVE  Upheld(m, n)
<1> DEFINE o == [n EXCEPT !.dao_timer = "resend", !.dao_transmissions = 1,
                          !.dao_last_seqno = Increment(n.dao_last_seqno)]
<1>0. n \in NodeState
  BY DEF Settled, NodeInv
<1>1. Increment(n.dao_last_seqno) \in Seqno
  BY <1>0, IncrementType DEF NodeState
<1>2. /\ o \in NodeState /\ SameMembership(o, n)
      /\ o.state = n.state /\ o.rank = n.rank /\ o.lifetime = n.lifetime
      /\ o.preferred_parent = n.preferred_parent
      /\ o.unprocessed_parent_switch = n.unprocessed_parent_switch
      /\ o.nbrs = n.nbrs /\ o.nbr_rank = n.nbr_rank /\ o.leave = n.leave
      /\ o.state_update = n.state_update /\ o.dao_timer = "resend"
  BY <1>0, <1>1, FieldNames DEF NodeState, SameMembership
<1>3. m \in rpl_icmp6_dao_output(o, 1)
  BY DEF send_new_dao
<1> HIDE DEF o
<1>4. NodeInv(o)
  BY <1>2 DEF Settled, NodeInv, SameMembership
<1>5. RankAbove(o) /\ Announcing(o)
  BY <1>2 DEF Settled, RankAbove, RankLiar, WorstParent, Announcing, Member, SameMembership
<1>6. Kept(n) => Kept(o)
  BY <1>2 DEF Kept, Member, SameMembership
<1> QED BY <1>3, <1>4, <1>5, <1>6, DaoOutputRefreshed, RefreshedUpheld, AboveIsRanked

(* A DAO that was given up is followed by a repair, any other is sent again. *)
LEMMA ResendDaoUpheld ==
  ASSUME NEW n, Settled(n), n.dao_timer # "off", NEW m \in resend_dao(n)
  PROVE  Upheld(m, n)
<1> DEFINE count == n.dao_transmissions + 1
           o == [n EXCEPT !.dao_transmissions = count, !.dao_timer = "off"]
<1>0. n \in NodeState /\ count \in Nat
  BY DEF Settled, NodeInv, NodeState
<1> HIDE DEF count
<1>1. /\ o \in NodeState /\ SameMembership(o, n)
      /\ o.state = n.state /\ o.rank = n.rank /\ o.lifetime = n.lifetime
      /\ o.preferred_parent = n.preferred_parent
      /\ o.unprocessed_parent_switch = n.unprocessed_parent_switch
      /\ o.nbrs = n.nbrs /\ o.nbr_rank = n.nbr_rank /\ o.leave = n.leave
      /\ o.state_update = n.state_update
  BY <1>0, FieldNames DEF NodeState, SameMembership
<1>2. PICK p \in rpl_icmp6_dao_output(o, 1) :
        m \in {[p EXCEPT !.dao_timer = "resend"], rpl_local_repair(p)}
  BY DEF resend_dao, count
<1> HIDE DEF o
<1>3. NodeInv(o)
  BY <1>1 DEF Settled, NodeInv, SameMembership
<1>4. Ranked(o) /\ (Kept(n) => Kept(o) /\ n.used)
  BY <1>1, AboveIsRanked DEF Settled, Ranked, Kept, Member, SameMembership
<1>5. /\ NodeInv(p) /\ SameMembership(p, n) /\ RankAbove(p)
      /\ Kept(n) => Kept(p) /\ p.used
  BY <1>1, <1>3, <1>4, DaoOutput, DaoOutputRefreshed DEF Refreshed, SameMembership
<1>6. CASE m = [p EXCEPT !.dao_timer = "resend"]
  <2>1. /\ SameMembership(m, p) /\ m.state = p.state /\ m.rank = p.rank
        /\ m.lifetime = p.lifetime /\ m.preferred_parent = p.preferred_parent
        /\ m.unprocessed_parent_switch = p.unprocessed_parent_switch
        /\ m.nbrs = p.nbrs /\ m.nbr_rank = p.nbr_rank /\ m.leave = p.leave
        /\ m.state_update = p.state_update /\ m.dao_timer = "resend"
    BY <1>5, <1>6 DEF NodeInv, NodeState, SameMembership
  <2>2. RankAbove(m) /\ Announcing(m)
    BY <1>5, <2>1 DEF RankAbove, RankLiar, WorstParent, Announcing, SameMembership
  <2>3. Kept(p) /\ p.used => Kept(m)
    BY <2>1 DEF Kept, Member, SameMembership
  <2> QED BY <1>5, <2>2, <2>3 DEF Upheld
<1>7. CASE m = rpl_local_repair(p)
  BY <1>5, <1>7, LocalRepairUpheld, AboveIsRanked DEF NodeInv, Upheld
<1> QED BY <1>2, <1>6, <1>7
------------------------------------------------------------------------------
(* Incoming DIO *)

(* What a node needs to join the DAG of a DIO. *)
Joinable(dio) == dio.mop # "STORING" /\ dio.supported

(* A node that joins is armed to leave again, and keeps its table. *)
LEMMA JoinFromDio ==
  ASSUME NEW n \in NodeState, NEW dio \in Dio, Joinable(dio),
         NEW m, m = process_dio_init_dag(n, dio)
  PROVE  /\ m \in NodeState /\ m.id = n.id /\ m.used /\ m.dag_id = dio.dag
         /\ m.version = dio.version
         /\ m.preferred_parent = NoNode /\ m.leave /\ m.nbrs = n.nbrs
<1> DEFINE o == init_dag(n, dio.dag)
           p == init_dag_from_dio(n, dio)
           q == rpl_timers_dio_reset(p)
<1>0. dio.dag \in Node /\ dio.mop \in Mop /\ dio.version \in Seqno
  BY DEF Dio
<1>1. /\ o \in NodeState /\ o.id = n.id /\ o.used /\ o.dag_id = dio.dag
      /\ o.preferred_parent = NoNode /\ o.nbrs = n.nbrs
  BY <1>0, InitDag
<1>2. p = [o EXCEPT !.mop = dio.mop, !.version = dio.version]
  BY DEF init_dag_from_dio
<1>3. m = [q EXCEPT !.leave = TRUE]
  BY DEF Joinable, process_dio_init_dag, rpl_timers_schedule_leaving
<1> HIDE DEF o
<1>4. /\ p \in NodeState /\ p.id = n.id /\ p.used /\ p.dag_id = dio.dag
      /\ p.version = dio.version
      /\ p.preferred_parent = NoNode /\ p.nbrs = n.nbrs
  BY <1>0, <1>1, <1>2 DEF NodeState
<1> HIDE DEF p
<1>5. Unmoved(q, p)
  BY <1>4, DioReset
<1> HIDE DEF q
<1>6. /\ q \in NodeState /\ q.id = n.id /\ q.used /\ q.dag_id = dio.dag
      /\ q.version = dio.version
      /\ q.preferred_parent = NoNode /\ q.nbrs = n.nbrs
  BY <1>4, <1>5 DEF Unmoved, SameMembership
<1> QED BY <1>3, <1>6 DEF NodeState

LEMMA GlobalRepairNonRootUpheld ==
  ASSUME NEW n, Settled(n), n.used, NEW dio \in Dio, dio.dag = n.dag_id,
         NEW m, m = global_repair_non_root(n, dio)
  PROVE  /\ RankAbove(m) /\ Announcing(m)
         /\ Joinable(dio) /\ Kept(n) => Kept(m) /\ m.used
<1>1. CASE rpl_dag_root_is_root(n)
  BY <1>1 DEF global_repair_non_root, Settled
<1>2. CASE ~rpl_dag_root_is_root(n)
  <2> DEFINE s == rpl_timers_stop_dag_timers(n)
             o == rpl_neighbor_set_preferred_parent(s, NoNode)
             p == process_dio_init_dag(o, dio)
  <2>1. s \in NodeState /\ SameMembership(s, n) /\ ~s.leave
    BY StopTimers DEF Settled, NodeInv
  <2> HIDE DEF s
  <2>2. o \in NodeState /\ SameMembership(o, s) /\ ~o.leave /\ o.preferred_parent = NoNode
    BY <2>1, SetParent
  <2> HIDE DEF o
  <2>3. p \in NodeState /\ p.preferred_parent = NoNode
    BY <2>2, ProcessDioInitDag
  <2>4. Joinable(dio) => p.used /\ p.leave
    BY <2>2, JoinFromDio
  <2>5. m = rpl_local_repair(p)
    BY <1>2 DEF global_repair_non_root, o, s
  <2> HIDE DEF p
  <2>6. RankAbove(m) /\ Announcing(m)
    BY <2>3, <2>5, LocalRepairUpheld DEF Ranked, Upheld
  <2>7. Joinable(dio) => m.used /\ m.leave /\ m.nbrs = {}
    BY <2>3, <2>4, <2>5, LocalRepairEffect DEF SameMembership
  <2>8. Joinable(dio) => Kept(m)
    BY <2>7 DEF Kept, Member
  <2> QED BY <2>6, <2>7, <2>8
<1> QED BY <1>1, <1>2

LEMMA HearVersionUpheld ==
  ASSUME NEW n, Settled(n), n.used, NEW dio \in Dio, dio.dag = n.dag_id,
         NEW m, m = hear_version(n, dio)
  PROVE  /\ RankAbove(m) /\ Announcing(m)
         /\ Joinable(dio) /\ Kept(n) => Kept(m) /\ m.used
<1>1. CASE ~Greater(dio.version, n.version)
  BY <1>1 DEF hear_version, Settled
<1>2. CASE Greater(dio.version, n.version) /\ n.rank = RootRank
  <2> DEFINE o == [n EXCEPT !.version = dio.version]
  <2>1. dio.version \in Seqno
    BY DEF Dio
  <2>2. /\ o \in NodeState /\ o.id = n.id /\ o.used = n.used /\ o.dag_id = n.dag_id
        /\ o.mop = n.mop /\ o.state = n.state /\ o.rank = n.rank /\ o.lifetime = n.lifetime
        /\ o.preferred_parent = n.preferred_parent
        /\ o.unprocessed_parent_switch = n.unprocessed_parent_switch
        /\ o.nbrs = n.nbrs /\ o.nbr_rank = n.nbr_rank /\ o.leave = n.leave
        /\ o.state_update = n.state_update /\ o.dao_timer = n.dao_timer
    BY <2>1 DEF Settled, NodeInv, NodeState
  <2>3. m = rpl_global_repair(o)
    BY <1>2 DEF hear_version
  <2> HIDE DEF o
  <2>4. NodeInv(o)
    BY <2>2 DEF Settled, NodeInv
  <2>5. RankAbove(o) /\ Announcing(o)
    BY <2>2 DEF Settled, RankAbove, RankLiar, WorstParent, Announcing, Member
  <2>6. Kept(n) => Kept(o)
    BY <2>2 DEF Kept, Member
  <2>7. Upheld(m, o) /\ m.used
    BY <2>2, <2>3, <2>4, <2>5, GlobalRepairUpheld, GlobalRepairInv DEF Settled
  <2> QED BY <2>6, <2>7 DEF Upheld
<1>3. CASE Greater(dio.version, n.version) /\ n.rank # RootRank
  <2>1. m = global_repair_non_root(n, dio)
    BY <1>3 DEF hear_version
  <2> QED BY <2>1, GlobalRepairNonRootUpheld
<1> QED BY <1>1, <1>2, <1>3

(* Entering the sender, which renews a lifetime that has run out. *)
LEMMA LearnUpheld ==
  ASSUME NEW n \in NodeState, NEW from \in Node, NEW dio \in Dio,
         NEW from_parent \in BOOLEAN, NEW last_dtsn,
         NEW m, m = propagate_dtsn(refresh_lifetime(update_nbr_from_dio(n, from, dio), from_parent),
                                   from_parent, dio.dtsn, last_dtsn)
  PROVE  /\ Ranked(n) => Ranked(m)
         /\ Announcing(n) => Announcing(m)
         /\ n.used /\ Kept(n) => Kept(m)
<1> DEFINE o == update_nbr_from_dio(n, from, dio)
           p == refresh_lifetime(o, from_parent)
           q == [p EXCEPT !.dtsn_out = Increment(p.dtsn_out)]
           r == rpl_timers_schedule_dao(q)
           Alike(a, b) == /\ a \in NodeState /\ SameMembership(a, b)
                          /\ a.preferred_parent = b.preferred_parent
                          /\ a.unprocessed_parent_switch = b.unprocessed_parent_switch
                          /\ a.state = b.state /\ a.rank = b.rank
                          /\ a.leave = b.leave /\ a.state_update = b.state_update
<1>1. dio.rank \in Rank /\ dio.dtsn \in Seqno
  BY DEF Dio
<1>2. Alike(o, n) /\ o.dao_timer = n.dao_timer
  <2>1. o \in NodeState
    BY <1>1 DEF update_nbr_from_dio, NodeState
  <2> QED BY <2>1 DEF update_nbr_from_dio, NodeState, SameMembership
<1>3. m \in {p, r}
  BY DEF propagate_dtsn
<1> HIDE DEF o
<1>4. Alike(p, o) /\ p.dao_timer = o.dao_timer /\ p.lifetime # 0
  <2>1. DagLifetime # 0 /\ DagLifetime \in Lifetime
    BY BoundsAssumption, FieldValues
  <2> QED BY <1>2, <2>1 DEF refresh_lifetime, NodeState, SameMembership
<1> HIDE DEF p
<1>5. Increment(p.dtsn_out) \in Seqno
  BY <1>4, IncrementType DEF NodeState
<1>6. Alike(q, p) /\ q.lifetime = p.lifetime /\ q.dao_timer = p.dao_timer
  BY <1>4, <1>5 DEF NodeState, SameMembership
<1> HIDE DEF q
<1>7. Alike(r, q) /\ r.lifetime = q.lifetime /\ r.dao_timer \in {"new", q.dao_timer}
  BY <1>6, FieldNames DEF rpl_timers_schedule_dao, NodeState, SameMembership
<1> HIDE DEF r
<1>8. Alike(m, n) /\ m.lifetime # 0 /\ m.dao_timer \in {"new", n.dao_timer}
  BY <1>2, <1>3, <1>4, <1>6, <1>7 DEF SameMembership
<1>9. Ranked(n) => Ranked(m)
  BY <1>8 DEF Ranked
<1>10. Announcing(n) => Announcing(m)
  BY <1>8 DEF Announcing, Member, SameMembership
<1>11. n.used /\ Kept(n) => Kept(m)
  BY <1>8 DEF Kept, Member, SameMembership
<1> QED BY <1>9, <1>10, <1>11

LEMMA ProcessDioFromCurrentDagUpheld ==
  ASSUME NEW n, Settled(n), n.used, NEW from \in Node, NEW dio \in Dio, dio.dag = n.dag_id,
         NEW has_room \in BOOLEAN,
         NEW m, m = process_dio_from_current_dag(n, from, dio, has_room)
  PROVE  /\ Ranked(m) /\ Announcing(m)
         /\ Joinable(dio) /\ Kept(n) => Kept(m)
<1> DEFINE o == hear_version(n, dio)
           from_parent == from \in o.nbrs /\ from = o.preferred_parent
           learnt == propagate_dtsn(
                       refresh_lifetime(update_nbr_from_dio(o, from, dio), from_parent),
                       from_parent, dio.dtsn, o.nbr_dtsn[from])
<1>1. o \in NodeState
  BY HearVersion DEF Settled, NodeInv
<1>2. /\ RankAbove(o) /\ Announcing(o)
      /\ Joinable(dio) /\ Kept(n) => Kept(o) /\ o.used
  BY HearVersionUpheld
<1>3. m \in {n, rpl_timers_dio_reset(n), o, learnt}
  BY DEF process_dio_from_current_dag
<1> HIDE DEF o
<1>4. from_parent \in BOOLEAN
  OBVIOUS
<1> HIDE DEF from_parent
<1>5. /\ Ranked(learnt) /\ Announcing(learnt)
      /\ Joinable(dio) /\ Kept(n) => Kept(learnt)
  BY <1>1, <1>2, <1>4, LearnUpheld, AboveIsRanked
<1> HIDE DEF learnt
<1>6. Upheld(rpl_timers_dio_reset(n), n)
  BY DioReset, UnmovedUpheld DEF Settled, NodeInv
<1> QED BY <1>2, <1>3, <1>5, <1>6, AboveIsRanked DEF Settled, Upheld

LEMMA ProcessDioUpheld ==
  ASSUME NEW n, Settled(n), NEW from \in Node, NEW dio \in Dio, NEW has_room \in BOOLEAN,
         dio.dag = n.id => rpl_dag_root_is_root(n),
         NEW m \in rpl_process_dio(n, from, dio, has_room)
  PROVE  /\ RankAbove(m) /\ Announcing(m)
         /\ Joinable(dio) /\ Kept(n) => Kept(m)
<1> DEFINE o == IF n.used THEN n ELSE process_dio_init_dag(n, dio)
           p == process_dio_from_current_dag(o, from, dio, has_room)
<1>0. n \in NodeState /\ (~n.used => ~n.leave /\ n.preferred_parent = NoNode)
  BY DEF Settled, NodeInv
<1>1. Settled(o) /\ o.id = n.id /\ (Joinable(dio) /\ Kept(n) => Kept(o))
  <2>1. CASE n.used
    BY <2>1 DEF Settled
  <2>2. CASE ~n.used
    <3>1. o = process_dio_init_dag(n, dio) /\ dio.dag # n.id
      BY <2>2 DEF rpl_dag_root_is_root
    <3> HIDE DEF o
    <3>2. NodeInv(o) /\ o.id = n.id /\ o.preferred_parent = NoNode
      BY <1>0, <2>2, <3>1, ProcessDioInitDag DEF Settled, NodeInv
    <3>3. RankAbove(o) /\ Announcing(o)
      BY <3>2 DEF RankAbove, Announcing
    <3>4. Joinable(dio) => o.used /\ o.leave /\ o.nbrs = n.nbrs
      BY <1>0, <3>1, JoinFromDio
    <3>5. Joinable(dio) /\ Kept(n) => Kept(o)
      BY <2>2, <3>4 DEF Kept, Member
    <3> QED BY <3>2, <3>3, <3>5 DEF Settled
  <2> QED BY <2>1, <2>2
<1>2. IF o.used /\ o.dag_id = dio.dag THEN m \in rpl_dag_update_state(p) ELSE m = o
  BY DEF rpl_process_dio
<1> HIDE DEF o
<1>3. CASE o.used /\ o.dag_id = dio.dag
  <2>1. NodeInv(p)
    BY <1>1, <1>3, ProcessDioFromCurrentDag DEF Settled
  <2>2. Ranked(p) /\ Announcing(p) /\ (Joinable(dio) /\ Kept(o) => Kept(p))
    BY <1>1, <1>3, ProcessDioFromCurrentDagUpheld
  <2> HIDE DEF p
  <2>3. Refreshed(m, p)
    BY <1>2, <1>3, <2>1, UpdateRefreshed
  <2> QED BY <1>1, <2>2, <2>3 DEF Refreshed
<1>4. CASE ~(o.used /\ o.dag_id = dio.dag)
  BY <1>1, <1>2, <1>4 DEF Settled
<1> QED BY <1>3, <1>4
------------------------------------------------------------------------------
(* What a node of a DAG makes of the version in a DIO. *)
Moved(m, n, dio) ==
  /\ m.id = n.id
  /\ n.dag_id = n.id =>
       /\ m.used /\ m.dag_id = n.dag_id
       /\ \/ m.version = n.version
          \/ Greater(dio.version, n.version) /\ m.version = Increment(dio.version)
  /\ n.dag_id # n.id /\ m.used =>
       /\ m.dag_id = n.dag_id
       /\ \/ m.version = n.version
          \/ Greater(dio.version, n.version) /\ m.version = dio.version

LEMMA SameIsMoved ==
  ASSUME NEW n, NEW dio, NEW o, Moved(o, n, dio), NEW m, SameMembership(m, o)
  PROVE  Moved(m, n, dio)
BY DEF Moved, SameMembership

(* A global repair at the root issues the next version. *)
LEMMA GlobalRepairIssues ==
  ASSUME NEW n, NodeInv(n), NEW m, m = rpl_global_repair(n)
  PROVE  m.version = IF rpl_dag_root_is_root(n) THEN Increment(n.version) ELSE n.version
<1>1. CASE ~rpl_dag_root_is_root(n)
  BY <1>1 DEF rpl_global_repair
<1>2. CASE rpl_dag_root_is_root(n)
  <2> DEFINE o == [n EXCEPT !.version = Increment(n.version), !.dtsn_out = SeqnoInit]
  <2>1. Increment(n.version) \in Seqno
    BY IncrementType DEF NodeInv, NodeState
  <2>2. NodeInv(o) /\ o.version = Increment(n.version)
    BY <2>1, FieldValues DEF NodeInv, NodeState
  <2>3. m = rpl_local_repair(o)
    BY <1>2 DEF rpl_global_repair
  <2> HIDE DEF o
  <2>4. SameMembership(m, o)
    BY <2>2, <2>3, LocalRepairInv DEF NodeInv
  <2> QED BY <1>2, <2>2, <2>4 DEF SameMembership
<1> QED BY <1>1, <1>2

(* A member that hears a newer version is on it afterwards, or still on its *)
(* own when it cannot join, or out of the DAG.                              *)
LEMMA GlobalRepairMoves ==
  ASSUME NEW n, NodeInv(n), n.used, NEW dio \in Dio, dio.dag = n.dag_id,
         Greater(dio.version, n.version), NEW m, m = global_repair_non_root(n, dio)
  PROVE  Moved(m, n, dio)
<1>1. CASE rpl_dag_root_is_root(n)
  BY <1>1 DEF global_repair_non_root, Moved, rpl_dag_root_is_root
<1>2. CASE ~rpl_dag_root_is_root(n)
  <2> DEFINE s == rpl_timers_stop_dag_timers(n)
             o == rpl_neighbor_set_preferred_parent(s, NoNode)
             p == process_dio_init_dag(o, dio)
  <2>1. s \in NodeState /\ SameMembership(s, n) /\ ~s.leave
    BY StopTimers DEF NodeInv
  <2> HIDE DEF s
  <2>2. o \in NodeState /\ SameMembership(o, s) /\ ~o.leave /\ o.preferred_parent = NoNode
    BY <2>1, SetParent
  <2> HIDE DEF o
  <2>3. \/ p = o
        \/ p \in NodeState /\ p.id = o.id /\ ~p.used /\ ~p.leave /\ p.preferred_parent = NoNode
        \/ /\ p \in NodeState /\ p.id = o.id /\ p.used /\ p.dag_id = dio.dag
           /\ p.version = dio.version
           /\ p.preferred_parent = NoNode /\ p.state = "INITIALIZED"
    BY <2>2, ProcessDioInitDag
  <2>4. p \in NodeState /\ p.id = n.id /\ (p.used => p.dag_id # p.id)
    BY <1>2, <2>1, <2>2, <2>3 DEF SameMembership, rpl_dag_root_is_root
  <2>5. ~p.used => NodeInv(p)
    BY <2>1, <2>2, <2>3, <2>4 DEF SameMembership, NodeInv
  <2>6. m = rpl_local_repair(p)
    BY <1>2 DEF global_repair_non_root, o, s
  <2> HIDE DEF p
  <2>7. SameMembership(m, p)
    BY <2>4, <2>5, <2>6, LocalRepairInv DEF rpl_dag_root_is_root
  <2>8. Moved(p, n, dio)
    BY <1>2, <2>1, <2>2, <2>3 DEF Moved, SameMembership, rpl_dag_root_is_root
  <2> QED BY <2>7, <2>8, SameIsMoved
<1> QED BY <1>1, <1>2

LEMMA HearVersionMoves ==
  ASSUME NEW n, NodeInv(n), n.used, NEW dio \in Dio, dio.dag = n.dag_id,
         NEW m, m = hear_version(n, dio)
  PROVE  Moved(m, n, dio)
<1>1. CASE ~Greater(dio.version, n.version)
  BY <1>1 DEF hear_version, Moved
<1>2. CASE Greater(dio.version, n.version) /\ n.rank = RootRank
  <2> DEFINE o == [n EXCEPT !.version = dio.version]
  <2>1. dio.version \in Seqno
    BY DEF Dio
  <2>2. /\ NodeInv(o) /\ o.id = n.id /\ o.used = n.used /\ o.dag_id = n.dag_id
        /\ o.version = dio.version
    BY <2>1 DEF NodeInv, NodeState
  <2>3. m = rpl_global_repair(o)
    BY <1>2 DEF hear_version
  <2> HIDE DEF o
  <2>4. /\ m.id = o.id /\ m.used = o.used /\ m.dag_id = o.dag_id
        /\ m.version = IF rpl_dag_root_is_root(o) THEN Increment(o.version) ELSE o.version
    BY <2>2, <2>3, GlobalRepairInv, GlobalRepairIssues
  <2> QED BY <1>2, <2>2, <2>4 DEF Moved, rpl_dag_root_is_root
<1>3. CASE Greater(dio.version, n.version) /\ n.rank # RootRank
  <2>1. m = global_repair_non_root(n, dio)
    BY <1>3 DEF hear_version
  <2> QED BY <1>3, <2>1, GlobalRepairMoves
<1> QED BY <1>1, <1>2, <1>3

LEMMA ProcessDioFromCurrentDagMoves ==
  ASSUME NEW n, NodeInv(n), n.used, NEW from \in Node, NEW dio \in Dio, dio.dag = n.dag_id,
         NEW has_room \in BOOLEAN,
         NEW m, m = process_dio_from_current_dag(n, from, dio, has_room)
  PROVE  Moved(m, n, dio)
<1> DEFINE o == hear_version(n, dio)
           from_parent == from \in o.nbrs /\ from = o.preferred_parent
           learnt == propagate_dtsn(
                       refresh_lifetime(update_nbr_from_dio(o, from, dio), from_parent),
                       from_parent, dio.dtsn, o.nbr_dtsn[from])
<1>1. NodeInv(o) /\ Moved(o, n, dio)
  BY HearVersion, HearVersionMoves
<1>2. m \in {n, rpl_timers_dio_reset(n), o, learnt}
  BY DEF process_dio_from_current_dag
<1> HIDE DEF o
<1>3. from_parent \in BOOLEAN
  OBVIOUS
<1> HIDE DEF from_parent
<1>4. SameMembership(learnt, o)
  BY <1>1, <1>3, LearnFromDio
<1> HIDE DEF learnt
<1>5. SameMembership(rpl_timers_dio_reset(n), n) /\ SameMembership(n, n)
  BY Timers DEF NodeInv, SameButTimers, SameMembership
<1>6. Moved(n, n, dio)
  BY DEF Moved
<1> QED BY <1>1, <1>2, <1>4, <1>5, <1>6, SameIsMoved

(* What a DIO does to the version of the node that hears it. *)
LEMMA ProcessDioMoves ==
  ASSUME NEW n, NodeInv(n), NEW from \in Node, NEW dio \in Dio, NEW has_room \in BOOLEAN,
         dio.dag = n.id => rpl_dag_root_is_root(n), n.used => n.dag_id = dio.dag,
         NEW m \in rpl_process_dio(n, from, dio, has_room)
  PROVE  /\ n.used => Moved(m, n, dio)
         /\ ~n.used /\ m.used => m.dag_id = dio.dag /\ m.version = dio.version
<1> DEFINE o == IF n.used THEN n ELSE process_dio_init_dag(n, dio)
           p == process_dio_from_current_dag(o, from, dio, has_room)
<1>1. n.used => o = n
  OBVIOUS
<1>2. ~n.used => /\ NodeInv(o) /\ o.id = n.id
                 /\ o.used => o.dag_id = dio.dag /\ o.dag_id # o.id /\ o.version = dio.version
  <2>1. SUFFICES ASSUME ~n.used
                 PROVE  /\ NodeInv(o) /\ o.id = n.id
                        /\ o.used => o.dag_id = dio.dag /\ o.dag_id # o.id
                                     /\ o.version = dio.version
    OBVIOUS
  <2>2. o = process_dio_init_dag(n, dio)
    BY <2>1
  <2>3. n \in NodeState /\ ~n.leave /\ n.preferred_parent = NoNode /\ dio.dag # n.id
    BY <2>1 DEF NodeInv, rpl_dag_root_is_root
  <2> HIDE DEF o
  <2>4. \/ o = n
        \/ o \in NodeState /\ o.id = n.id /\ ~o.used /\ ~o.leave /\ o.preferred_parent = NoNode
        \/ /\ o \in NodeState /\ o.id = n.id /\ o.used /\ o.dag_id = dio.dag
           /\ o.version = dio.version
           /\ o.preferred_parent = NoNode /\ o.state = "INITIALIZED"
    BY <2>2, <2>3, ProcessDioInitDag
  <2> QED BY <2>1, <2>3, <2>4 DEF NodeInv
<1>3. IF o.used /\ o.dag_id = dio.dag THEN m \in rpl_dag_update_state(p) ELSE m = o
  BY DEF rpl_process_dio
<1> HIDE DEF o
<1>4. NodeInv(o)
  BY <1>1, <1>2
<1>5. CASE o.used /\ o.dag_id = dio.dag
  <2>1. NodeInv(p) /\ Moved(p, o, dio)
    BY <1>4, <1>5, ProcessDioFromCurrentDag, ProcessDioFromCurrentDagMoves
  <2> HIDE DEF p
  <2>2. SameMembership(m, p)
    BY <1>3, <1>5, <2>1, UpdateStateInv
  <2>3. Moved(m, o, dio)
    BY <2>1, <2>2, SameIsMoved
  <2> QED BY <1>1, <1>2, <1>5, <2>3 DEF Moved
<1>6. CASE ~(o.used /\ o.dag_id = dio.dag)
  BY <1>1, <1>2, <1>3, <1>6
<1> QED BY <1>5, <1>6
=============================================================================
