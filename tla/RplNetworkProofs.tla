--------------------------- MODULE RplNetworkProofs ---------------------------
(***************************************************************************)
(* The network implements VersionSpread, for every set of nodes and links, *)
(* every number of DIOs on their way, repairs and reboots, and every type  *)
(* of attack but the one on the version itself.                            *)
(*                                                                         *)
(* Each handler is mapped by what it does to the version: nothing          *)
(* (SameMembership of RplDagProofs), or, when it processes a DIO, what the *)
(* lemma ProcessDioMoves of RplDagUpkeep says.                             *)
(***************************************************************************)
EXTENDS RplNetwork, RplDagUpkeep, FiniteSetTheorems

(* What a handler that sends DIOs leaves of node n, and what it sent: one    *)
(* DIO at most, with the version of the node unless that is inflated.        *)
SendsDio(m, n) ==
  /\ NodeInv(m) /\ SameMembership(m, n)
  /\ m.sent # {} =>
       \E msg : /\ m.sent = {msg}
                /\ msg.rank \in Rank /\ msg.dtsn \in Seqno /\ msg.version \in Seqno
                /\ AttackType # 2 => msg.version = n.version

LEMMA DioOutputSends ==
  ASSUME NEW n, NodeInv(n), n.sent = {}, NEW to \in Node \cup {All},
         NEW m \in rpl_icmp6_dio_output(n, to)
  PROVE  SendsDio(m, n)
<1> DEFINE said(q) == [type |-> "DIO", to |-> to, rank |-> q.rank,
                       version |-> advertised_version(q), dtsn |-> q.dtsn_out]
<1>1. PICK q \in rpl_dag_update_state(n) : m = Send(q, said(q))
  BY DEF rpl_icmp6_dio_output
<1>2. Carried(q, n)
  BY UpdateStateOutcome DEF Updated
<1>3. q \in NodeState /\ q.sent = {} /\ q.version = n.version
  BY <1>2 DEF Carried, SameMembership
<1>4. advertised_version(q) \in Seqno /\ (AttackType # 2 => advertised_version(q) = q.version)
  BY <1>3, AdvertisedVersion DEF advertised_version
<1>5. m.sent = {said(q)}
  BY <1>1, <1>3 DEF Send, NodeState
<1>6. /\ said(q).rank = q.rank /\ said(q).version = advertised_version(q)
      /\ said(q).dtsn = q.dtsn_out
  OBVIOUS
<1>7. q.rank \in Rank /\ q.dtsn_out \in Seqno
  BY <1>3 DEF NodeState
<1>8. NodeInv(m) /\ SameMembership(m, n)
  BY DioOutput
<1> HIDE DEF said
<1>9. \E msg : /\ m.sent = {msg}
               /\ msg.rank \in Rank /\ msg.dtsn \in Seqno /\ msg.version \in Seqno
               /\ AttackType # 2 => msg.version = n.version
  <2>1. WITNESS said(q)
  <2> QED BY <1>3, <1>4, <1>5, <1>6, <1>7
<1> QED BY <1>8, <1>9 DEF SendsDio

LEMMA DioTimerSends ==
  ASSUME NEW n, NodeInv(n), n.sent = {}, NEW m \in handle_dio_timer(n)
  PROVE  SendsDio(m, n)
<1> DEFINE o == [n EXCEPT !.dio_fresh = FALSE]
           p == [o EXCEPT !.last_advertised_rank = n.rank]
<1>1. NodeInv(o) /\ SameMembership(o, n) /\ o.sent = {}
  BY DEF NodeInv, NodeState, SameMembership
<1>2. m = o \/ m \in rpl_icmp6_dio_output(p, All)
  BY DEF handle_dio_timer
<1> HIDE DEF o
<1>3. NodeInv(p) /\ SameMembership(p, n) /\ p.sent = {} /\ p.version = n.version
  BY <1>1 DEF NodeInv, NodeState, SameMembership
<1> HIDE DEF p
<1>4. CASE m = o
  BY <1>1, <1>4 DEF SendsDio
<1>5. CASE m \in rpl_icmp6_dio_output(p, All)
  <2>1. SendsDio(m, p)
    BY <1>3, <1>5, DioOutputSends
  <2>2. SameMembership(m, n)
    BY <1>3, <2>1 DEF SendsDio, SameMembership
  <2> QED BY <1>3, <2>1, <2>2 DEF SendsDio
<1> QED BY <1>2, <1>4, <1>5
------------------------------------------------------------------------------
(* What holds between two handlers of the network: beside what holds of each *)
(* node, the root is in its own DAG, and there is no other.                  *)
NetInv ==
  /\ net \in [Node -> NodeState]
  /\ \A i \in Node : NodeInv(net[i]) /\ net[i].id = i /\ net[i].sent = {}
  /\ net[Root].used /\ net[Root].dag_id = Root
  /\ \A i \in Clients : net[i].used => net[i].dag_id = Root
  /\ \A p \in dios : p \in Packet /\ p.dio.dag = Root

onVersion == [i \in Clients |-> IF net[i].used THEN net[i].version ELSE -1]

inAir == {p.dio.version : p \in dios}

(* The version a node is on, or that it is on none. *)
on(n) == IF n.used THEN n.version ELSE -1

LEMMA RestInv ==
  ASSUME NEW m, NodeInv(m)
  PROVE  NodeInv(rest(m)) /\ SameMembership(rest(m), m) /\ rest(m).sent = {}
<1> DEFINE number == IF m.dao_last_seqno = SeqnoInit THEN SeqnoInit ELSE Increment(SeqnoInit)
<1>1. number \in Seqno
  BY FieldValues, IncrementType
<1>2. rest(m) = [m EXCEPT !.sent = {}, !.dio_fresh = FALSE, !.periodic_dis = FALSE,
                          !.unicast_dio = FALSE, !.dao_last_seqno = number]
  BY DEF rest, NodeInv, NodeState
<1> HIDE DEF number
<1> QED BY <1>1, <1>2 DEF NodeInv, NodeState, SameMembership

(* The step of a node i whose handler ends in state m. *)
OneStep(i, m) ==
  /\ NodeInv(m) /\ m.id = i
  /\ i = Root => m.used
  /\ m.used => m.dag_id = Root
  /\ net' = [net EXCEPT ![i] = rest(m)]
  /\ \A p \in dios' : p \in Packet /\ p.dio.dag = Root

LEMMA OneNode ==
  ASSUME NetInv, NEW i \in Node, NEW m, OneStep(i, m)
  PROVE  /\ NetInv'
         /\ net'[i].used = m.used /\ net'[i].version = m.version
         /\ \A j \in Node \ {i} : net'[j] = net[j]
<1>1. NodeInv(rest(m)) /\ SameMembership(rest(m), m) /\ rest(m).sent = {}
  BY RestInv DEF OneStep
<1>2. rest(m) \in NodeState
  BY <1>1 DEF NodeInv
<1>3. net'[i] = rest(m) /\ \A j \in Node \ {i} : net'[j] = net[j]
  BY DEF NetInv, OneStep
<1>4. net' \in [Node -> NodeState]
  BY <1>2 DEF NetInv, OneStep
<1>5. \A j \in Node : NodeInv(net'[j]) /\ net'[j].id = j /\ net'[j].sent = {}
  BY <1>1, <1>3 DEF NetInv, OneStep, SameMembership
<1>6. net'[Root].used /\ net'[Root].dag_id = Root
  BY <1>1, <1>3, NetworkAssumption DEF NetInv, OneStep, SameMembership
<1>7. \A j \in Clients : net'[j].used => net'[j].dag_id = Root
  BY <1>1, <1>3 DEF NetInv, OneStep, SameMembership, Clients
<1>8. NetInv'
  BY <1>4, <1>5, <1>6, <1>7 DEF NetInv, OneStep
<1> QED BY <1>1, <1>3, <1>8 DEF SameMembership

LEMMA AbstractNames ==
  /\ \A a, b : Abstract!Greater(a, b) = Greater(a, b)
  /\ \A a : Abstract!Increment(a) = Increment(a)
  /\ Abstract!SeqnoInit = SeqnoInit
BY DEF Abstract!Greater, Greater, Abstract!OnStick, OnStick, Abstract!Ahead, Ahead,
       Abstract!Increment, Increment, Abstract!SeqnoInit, SeqnoInit
(* What a step may do to the versions: the members move, or the root does.   *)
Passes ==
  /\ Abstract!Travel /\ net'[Root].version = net[Root].version
  /\ onVersion' = onVersion \/ \E i \in Clients : Abstract!Join(i) \/ Abstract!Adopt(i)
                                                    \/ Abstract!Part(i)

Issues(v) == Abstract!Travel /\ onVersion' = onVersion /\ net'[Root].version = v

Overtakes ==
  \E v \in inAir : Greater(v, net[Root].version) /\ Issues(Increment(v))

(* These are the steps of the abstract specification. *)
LEMMA AbstractSteps ==
  ASSUME \/ Passes \/ Overtakes
         \/ Issues(Increment(net[Root].version)) \/ Issues(SeqnoInit)
  PROVE  Abstract!SpreadNext
<1>1. CASE Passes
  BY <1>1 DEF Passes, Abstract!SpreadNext, Abstract!MemberMoves, onVersion
<1>2. CASE Overtakes
  <2>1. Abstract!Overtake
    BY <1>2, AbstractNames DEF Overtakes, Issues, Abstract!Overtake, inAir
  <2> QED BY <1>2, <2>1
          DEF Overtakes, Issues, Abstract!SpreadNext, Abstract!RootMoves, onVersion
<1>3. CASE Issues(Increment(net[Root].version))
  <2>1. Abstract!Issue
    BY <1>3, AbstractNames DEF Issues, Abstract!Issue
  <2> QED BY <1>3, <2>1 DEF Issues, Abstract!SpreadNext, Abstract!RootMoves, onVersion
<1>4. CASE Issues(SeqnoInit)
  <2>1. Abstract!Forget
    BY <1>4, AbstractNames DEF Issues, Abstract!Forget
  <2> QED BY <1>4, <2>1 DEF Issues, Abstract!SpreadNext, Abstract!RootMoves, onVersion
<1> QED BY <1>1, <1>2, <1>3, <1>4

(* The root moves; every DIO is still, or was, on its way. *)
LEMMA RootMove ==
  ASSUME NetInv, NEW m, OneStep(Root, m), inAir' \subseteq inAir
  PROVE  NetInv' /\ Issues(m.version)
<1>1. /\ NetInv' /\ net'[Root].version = m.version
      /\ \A j \in Clients : net'[j] = net[j]
  BY OneNode, NetworkAssumption DEF Clients
<1>2. onVersion' = onVersion
  BY <1>1 DEF onVersion
<1>3. Abstract!Travel
  BY DEF Abstract!Travel, inAir
<1> QED BY <1>1, <1>2, <1>3 DEF Issues

(* Another node moves. *)
LEMMA ClientMove ==
  ASSUME NetInv, NEW i \in Clients, NEW m, OneStep(i, m), inAir' \subseteq inAir,
         \/ on(m) = on(net[i])
         \/ ~net[i].used /\ m.used /\ m.version \in inAir
         \/ /\ net[i].used /\ m.used /\ m.version \in inAir
            /\ Greater(m.version, net[i].version)
         \/ ~m.used
  PROVE  NetInv' /\ Passes
<1>0. i \in Node /\ i # Root
  BY DEF Clients
<1>1. /\ NetInv' /\ net'[i].used = m.used /\ net'[i].version = m.version
      /\ net'[Root].version = net[Root].version
      /\ \A j \in Clients \ {i} : net'[j] = net[j]
  BY <1>0, OneNode, NetworkAssumption DEF Clients
<1>2. onVersion' = [onVersion EXCEPT ![i] = on(m)]
  BY <1>1 DEF onVersion, on
<1>3. onVersion[i] = on(net[i])
  BY DEF onVersion, on
<1>4. Abstract!Travel
  BY DEF Abstract!Travel, inAir
<1>5. net[i].used => net[i].version # -1
  <2>1. net[i].version \in 0 .. MaxValue
    BY <1>0 DEF NetInv, NodeState, Seqno
  <2> QED BY <2>1, LollipopAssumption
<1>6. CASE on(m) = on(net[i])
  <2>1. onVersion' = onVersion
    BY <1>2, <1>3, <1>6 DEF onVersion
  <2> QED BY <1>1, <1>4, <2>1 DEF Passes
<1>7. CASE ~net[i].used /\ m.used /\ m.version \in inAir
  <2>1. Abstract!Join(i)
    BY <1>2, <1>3, <1>7 DEF Abstract!Join, onVersion, inAir, on
  <2> QED BY <1>1, <1>4, <2>1 DEF Passes
<1>8. CASE net[i].used /\ m.used /\ m.version \in inAir /\ Greater(m.version, net[i].version)
  <2>1. Abstract!Adopt(i)
    BY <1>2, <1>3, <1>5, <1>8, AbstractNames DEF Abstract!Adopt, onVersion, inAir, on
  <2> QED BY <1>1, <1>4, <2>1 DEF Passes
<1>9. CASE ~m.used /\ on(m) # on(net[i])
  <2>1. Abstract!Part(i)
    BY <1>2, <1>3, <1>5, <1>9 DEF Abstract!Part, onVersion, on
  <2> QED BY <1>1, <1>4, <2>1 DEF Passes
<1> QED BY <1>6, <1>7, <1>8, <1>9

(* A node handles something that leaves it where it is. *)
LEMMA QuietStep ==
  ASSUME NetInv, NEW i \in Node, NEW m, NodeInv(m), SameMembership(m, net[i]),
         net' = [net EXCEPT ![i] = rest(m)],
         inAir' \subseteq inAir \cup {net[i].version}, inAir' \subseteq inAir \/ net[i].used,
         \A p \in dios' : p \in Packet /\ p.dio.dag = Root
  PROVE  NetInv' /\ Passes
<1>1. OneStep(i, m)
  BY NetworkAssumption DEF NetInv, OneStep, SameMembership, Clients
<1>2. /\ NetInv'
      /\ \A j \in Node : net'[j].used = net[j].used /\ net'[j].version = net[j].version
  BY <1>1, OneNode DEF SameMembership
<1>3. onVersion' = onVersion /\ net'[Root].version = net[Root].version
  BY <1>2, NetworkAssumption DEF onVersion, Clients
<1>4. net[i].used => net[i].version \in {net[Root].version} \cup {onVersion[j] : j \in Clients}
  <2>1. CASE i = Root
    BY <2>1
  <2>2. CASE i # Root
    <3>1. i \in Clients
      BY <2>2 DEF Clients
    <3>2. net[i].used => net[i].version = onVersion[i]
      BY <3>1 DEF onVersion
    <3> QED BY <3>1, <3>2
  <2> QED BY <2>1, <2>2
<1>5. Abstract!Travel
  BY <1>4 DEF Abstract!Travel, inAir, onVersion
<1> QED BY <1>2, <1>3, <1>5 DEF Passes

LEMMA ReceiveDioMove ==
  ASSUME NetInv, NEW p \in dios, NEW has_room \in BOOLEAN, ReceiveDio(p, has_room)
  PROVE  NetInv' /\ (Passes \/ Overtakes)
<1> DEFINE i == p.to
           n == net[i]
<1>1. p \in Packet /\ p.dio.dag = Root
  BY DEF NetInv
<1>2. i \in Node /\ p.from \in Node /\ p.dio \in Dio /\ p.dio.version \in inAir
  BY <1>1 DEF Packet, inAir
<1>3. PICK m \in rpl_process_dio(n, p.from, p.dio, has_room) : net' = [net EXCEPT ![i] = rest(m)]
  BY DEF ReceiveDio, Does
<1>4. inAir' \subseteq inAir /\ \A q \in dios' : q \in Packet /\ q.dio.dag = Root
  BY DEF ReceiveDio, inAir, NetInv
<1>5. NodeInv(n) /\ n.id = i /\ (n.used => n.dag_id = Root)
  BY <1>2 DEF NetInv, Clients
<1>6. i = Root => rpl_dag_root_is_root(n)
  BY <1>2 DEF NetInv, rpl_dag_root_is_root
<1> HIDE DEF i
<1>7. NodeInv(m) /\ SameOrNewer(m, n)
  BY <1>1, <1>2, <1>3, <1>5, <1>6, ProcessDio
<1>8. /\ n.used => Moved(m, n, p.dio)
      /\ ~n.used /\ m.used => m.dag_id = Root /\ m.version = p.dio.version
  BY <1>1, <1>2, <1>3, <1>5, <1>6, ProcessDioMoves
<1>9. m.id = i
  BY <1>5, <1>7 DEF SameOrNewer
<1>10. CASE i = Root
  <2>1. /\ m.used /\ m.dag_id = Root
        /\ \/ m.version = n.version
           \/ Greater(p.dio.version, n.version) /\ m.version = Increment(p.dio.version)
    BY <1>5, <1>6, <1>8, <1>10 DEF Moved, rpl_dag_root_is_root
  <2>2. OneStep(Root, m)
    BY <1>3, <1>4, <1>7, <1>9, <1>10, <2>1 DEF OneStep
  <2>3. NetInv' /\ Issues(m.version)
    BY <1>4, <2>2, RootMove
  <2>4. m.version = n.version => Passes
    BY <1>10, <2>3 DEF Issues, Passes
  <2>5. Greater(p.dio.version, n.version) /\ m.version = Increment(p.dio.version) => Overtakes
    BY <1>2, <1>10, <2>3 DEF Overtakes
  <2> QED BY <2>1, <2>3, <2>4, <2>5
<1>11. CASE i # Root
  <2>1. n.used /\ m.used =>
          /\ m.dag_id = Root
          /\ \/ m.version = n.version
             \/ Greater(p.dio.version, n.version) /\ m.version = p.dio.version
    BY <1>5, <1>8, <1>11 DEF Moved
  <2>2. OneStep(i, m)
    BY <1>3, <1>4, <1>7, <1>8, <1>9, <1>11, <2>1 DEF OneStep
  <2>3. i \in Clients
    BY <1>2, <1>11 DEF Clients
  <2>4. \/ on(m) = on(n)
        \/ ~n.used /\ m.used /\ m.version \in inAir
        \/ n.used /\ m.used /\ m.version \in inAir /\ Greater(m.version, n.version)
        \/ ~m.used
    BY <1>2, <1>8, <2>1 DEF on
  <2> QED BY <1>4, <2>2, <2>3, <2>4, ClientMove
<1> QED BY <1>10, <1>11

LEMMA SendingMove ==
  ASSUME NetInv, NEW i \in Node, net[i].used, NEW reach, NEW S, Sends(i, S, reach),
         \A m \in S : SendsDio(m, net[i])
  PROVE  NetInv' /\ (AttackType # 2 => Passes)
<1> DEFINE n == net[i]
<1>1. PICK m \in S : /\ net' = [net EXCEPT ![i] = rest(m)]
                     /\ dios' = dios \cup {p \in Copies(i, m) : p.to \in reach}
  BY DEF Sends
<1>2. NodeInv(n) /\ n.dag_id = Root /\ n.id = i
  BY DEF NetInv, Clients
<1>3. SendsDio(m, n)
  OBVIOUS
<1>4. m.dag_id = Root /\ m.mop \in Mop
  BY <1>2, <1>3 DEF SendsDio, SameMembership, NodeInv, NodeState
<1>5. ASSUME NEW p \in Copies(i, m)
      PROVE  /\ p \in Packet /\ p.dio.dag = Root
             /\ AttackType # 2 => p.dio.version = n.version
  <2>1. PICK msg \in m.sent, j \in Hears(i) : p = CopyFor(i, m, msg, j)
    BY <1>5 DEF Copies
  <2>2. /\ msg.rank \in Rank /\ msg.dtsn \in Seqno /\ msg.version \in Seqno
        /\ AttackType # 2 => msg.version = n.version
    BY <1>3, <2>1 DEF SendsDio
  <2>3. Root \in Node
    BY NetworkAssumption
  <2>4. j \in Node
    BY <2>1 DEF Hears
  <2>5. p.dio \in Dio
    BY <1>4, <2>1, <2>2, <2>3 DEF CopyFor, Dio
  <2> QED BY <1>4, <2>1, <2>2, <2>4, <2>5 DEF CopyFor, Packet
<1>6. /\ \A p \in dios' : p \in Packet /\ p.dio.dag = Root
      /\ AttackType # 2 => inAir' \subseteq inAir \cup {n.version}
  BY <1>1, <1>5 DEF NetInv, inAir
<1>7. OneStep(i, m)
  BY <1>1, <1>2, <1>3, <1>6 DEF OneStep, SameMembership, SendsDio
<1> QED BY <1>1, <1>2, <1>3, <1>6, <1>7, OneNode, QuietStep DEF SendsDio

LEMMA MulticastMove ==
  ASSUME NetInv, NEW i \in Node, NEW reach, Multicast(i, reach)
  PROVE  NetInv' /\ (AttackType # 2 => Passes)
<1>1. \A m \in handle_dio_timer(net[i]) : SendsDio(m, net[i])
  BY DioTimerSends DEF NetInv
<1> QED BY <1>1, SendingMove DEF Multicast

LEMMA UnicastMove ==
  ASSUME NetInv, NEW i \in Node, NEW j \in Node, NEW reach, Unicast(i, j, reach)
  PROVE  NetInv' /\ (AttackType # 2 => Passes)
<1>1. \A m \in rpl_icmp6_dio_output(net[i], j) : SendsDio(m, net[i])
  BY DioOutputSends DEF NetInv
<1> QED BY <1>1, SendingMove DEF Unicast

LEMMA QuietAction ==
  ASSUME NetInv, NEW i \in Node, NEW S, DoesQuietly(i, S),
         \A m \in S : NodeInv(m) /\ SameMembership(m, net[i])
  PROVE  NetInv' /\ Passes
<1>1. PICK m \in S : net' = [net EXCEPT ![i] = rest(m)]
  BY DEF DoesQuietly, Does
<1>2. inAir' \subseteq inAir /\ \A p \in dios' : p \in Packet /\ p.dio.dag = Root
  BY DEF DoesQuietly, NetInv, inAir
<1> QED BY <1>1, <1>2, QuietStep

LEMMA PartAction ==
  ASSUME NetInv, NEW i \in Clients, NEW S, DoesQuietly(i, S),
         \A m \in S : NodeInv(m) /\ m.id = i /\ ~m.used
  PROVE  NetInv' /\ Passes
<1>1. PICK m \in S : net' = [net EXCEPT ![i] = rest(m)]
  BY DEF DoesQuietly, Does
<1>2. inAir' \subseteq inAir /\ \A p \in dios' : p \in Packet /\ p.dio.dag = Root
  BY DEF DoesQuietly, NetInv, inAir
<1>3. OneStep(i, m)
  BY <1>1, <1>2 DEF OneStep, Clients
<1> QED BY <1>1, <1>2, <1>3, ClientMove

(* What the handlers do that may run on any node. *)
LEMMA NodeMove ==
  ASSUME NetInv, NEW i \in Node,
         \/ \E reach \in SUBSET Hears(i) :
              Multicast(i, reach) \/ \E j \in Hears(i) : Unicast(i, j, reach)
         \/ UpdateState(i) \/ Tick(i) \/ RepairLocally(i)
  PROVE  NetInv' /\ (AttackType # 2 => Passes)
<1>1. NodeInv(net[i])
  BY DEF NetInv
<1>2. CASE \E reach \in SUBSET Hears(i) :
             Multicast(i, reach) \/ \E j \in Hears(i) : Unicast(i, j, reach)
  <2>1. Hears(i) \subseteq Node
    BY DEF Hears
  <2> QED BY <1>2, <2>1, MulticastMove, UnicastMove
<1>3. CASE UpdateState(i)
  <2>1. \A m \in rpl_dag_update_state(net[i]) : NodeInv(m) /\ SameMembership(m, net[i])
    BY <1>1, UpdateStateInv
  <2> QED BY <1>3, <2>1, QuietAction DEF UpdateState
<1>4. CASE Tick(i)
  <2>1. \A m \in rpl_dag_periodic(net[i]) : NodeInv(m) /\ SameMembership(m, net[i])
    BY <1>1, PeriodicInv
  <2> QED BY <1>4, <2>1, QuietAction DEF Tick
<1>5. CASE RepairLocally(i)
  <2>1. NodeInv(rpl_local_repair(net[i])) /\ SameMembership(rpl_local_repair(net[i]), net[i])
    BY <1>1, LocalRepairInv DEF NodeInv
  <2>2. \A m \in {rpl_local_repair(net[i])} : NodeInv(m) /\ SameMembership(m, net[i])
    BY <2>1
  <2> QED BY <1>5, <2>2, QuietAction DEF RepairLocally
<1> QED BY <1>2, <1>3, <1>4, <1>5

(* What the handlers do that only matter on a node that is not the root. *)
LEMMA ClientAction ==
  ASSUME NetInv, NEW i \in Clients,
         LeaveDag(i) \/ SendNewDao(i) \/ ResendDao(i) \/ ReceiveDaoAck(i) \/ Restart(i)
  PROVE  NetInv' /\ Passes
<1>0. i \in Node
  BY DEF Clients
<1>1. NodeInv(net[i]) /\ net[i].id = i
  BY <1>0 DEF NetInv
<1>2. CASE LeaveDag(i)
  <2> DEFINE o == [net[i] EXCEPT !.leave = FALSE]
  <2>1. NodeInv(o) /\ o.id = i
    BY <1>1 DEF NodeInv, NodeState
  <2> HIDE DEF o
  <2>2. \A m \in rpl_dag_leave(o) : NodeInv(m) /\ m.id = i /\ ~m.used
    BY <2>1, LeaveInv
  <2> QED BY <1>2, <2>2, PartAction DEF LeaveDag, o
<1>3. CASE SendNewDao(i)
  <2>1. \A m \in send_new_dao(net[i]) : NodeInv(m) /\ SameMembership(m, net[i])
    BY <1>1, SendNewDaoInv
  <2> QED BY <1>0, <1>3, <2>1, QuietAction DEF SendNewDao
<1>4. CASE ResendDao(i)
  <2>1. \A m \in resend_dao(net[i]) : NodeInv(m) /\ SameMembership(m, net[i])
    BY <1>1, ResendDaoInv
  <2> QED BY <1>0, <1>4, <2>1, QuietAction DEF ResendDao
<1>5. CASE ReceiveDaoAck(i)
  <2> DEFINE o == rpl_process_dao_ack(net[i], net[i].dao_last_seqno, TRUE)
  <2>1. NodeInv(o) /\ SameMembership(o, net[i])
    BY <1>1, ProcessDaoAck
  <2>2. \A m \in {o} : NodeInv(m) /\ SameMembership(m, net[i])
    BY <2>1
  <2>3. DoesQuietly(i, {o})
    BY <1>5 DEF ReceiveDaoAck
  <2> HIDE DEF o
  <2> QED BY <1>0, <2>2, <2>3, QuietAction
<1>6. CASE Restart(i)
  <2>1. \A m \in {rpl_dag_init(net[i])} : NodeInv(m) /\ m.id = i /\ ~m.used
    BY <1>0, <1>1, PoweredOnInv DEF rpl_dag_init
  <2> QED BY <1>6, <2>1, PartAction DEF Restart
<1> QED BY <1>2, <1>3, <1>4, <1>5, <1>6

LEMMA RootAction ==
  ASSUME NetInv, RepairGlobally \/ RestartRoot
  PROVE  /\ NetInv'
         /\ \/ RepairGlobally /\ Issues(Increment(net[Root].version))
            \/ RestartRoot /\ Issues(SeqnoInit)
<1> DEFINE n == net[Root]
<1>0. Root \in Node
  BY NetworkAssumption
<1>1. NodeInv(n) /\ n.id = Root /\ n.used /\ n.dag_id = Root
  BY <1>0 DEF NetInv
<1>2. inAir' \subseteq inAir /\ \A p \in dios' : p \in Packet /\ p.dio.dag = Root
  BY DEF RepairGlobally, RestartRoot, NetInv, inAir
<1>3. CASE RepairGlobally
  <2> DEFINE m == rpl_global_repair(n)
  <2>1. net' = [net EXCEPT ![Root] = rest(m)]
    BY <1>3 DEF RepairGlobally, Does
  <2>2. NodeInv(m) /\ m.id = n.id /\ m.used = n.used /\ m.dag_id = n.dag_id
    BY <1>1, GlobalRepairInv
  <2>3. m.version = Increment(n.version)
    BY <1>1, GlobalRepairIssues DEF rpl_dag_root_is_root
  <2> HIDE DEF m
  <2>4. OneStep(Root, m)
    BY <1>1, <1>2, <2>1, <2>2 DEF OneStep
  <2> QED BY <1>2, <1>3, <2>3, <2>4, RootMove
<1>4. CASE RestartRoot
  <2> DEFINE o == rpl_dag_init(n)
  <2>1. PICK m \in rpl_dag_init_root(o) : net' = [net EXCEPT ![Root] = rest(m)]
    BY <1>4 DEF RestartRoot, Does
  <2>2. NodeInv(o) /\ o.id = Root /\ ~o.used
    BY <1>0, <1>1, PoweredOnInv DEF rpl_dag_init
  <2> HIDE DEF o
  <2>3. NodeInv(m) /\ m.id = Root /\ m.used /\ m.dag_id = Root /\ m.version = SeqnoInit
    BY <2>1, <2>2, InitRoot
  <2>4. OneStep(Root, m)
    BY <1>2, <2>1, <2>3 DEF OneStep
  <2> QED BY <1>2, <1>4, <2>3, <2>4, RootMove
<1> QED BY <1>3, <1>4

LEMMA NetInitInv ==
  ASSUME NetInit
  PROVE  NetInv /\ Abstract!SpreadInit
<1>1. PICK m \in rpl_dag_init_root(PoweredOn(Root)) :
        net = [i \in Node |-> rest(IF i = Root THEN m ELSE PoweredOn(i))]
  BY DEF NetInit
<1>2. dios = {}
  BY DEF NetInit
<1>3. \A i \in Node : NodeInv(PoweredOn(i)) /\ PoweredOn(i).id = i /\ ~PoweredOn(i).used
  BY PoweredOnInv
<1>4. NodeInv(m) /\ m.id = Root /\ m.used /\ m.dag_id = Root /\ m.version = SeqnoInit
  BY <1>1, <1>3, InitRoot, NetworkAssumption
<1>5. ASSUME NEW i \in Node
      PROVE  /\ NodeInv(net[i]) /\ net[i].id = i /\ net[i].sent = {}
             /\ i = Root => net[i].used /\ net[i].dag_id = Root /\ net[i].version = SeqnoInit
             /\ i # Root => ~net[i].used
  <2> DEFINE o == IF i = Root THEN m ELSE PoweredOn(i)
  <2>1. NodeInv(o) /\ o.id = i
    BY <1>3, <1>4
  <2>2. i = Root => o.used /\ o.dag_id = Root /\ o.version = SeqnoInit
    BY <1>4
  <2>3. i # Root => ~o.used
    BY <1>3
  <2>4. net[i] = rest(o)
    BY <1>1
  <2> HIDE DEF o
  <2> QED BY <2>1, <2>2, <2>3, <2>4, RestInv DEF SameMembership
<1>6. net \in [Node -> NodeState]
  BY <1>1, <1>5 DEF NodeInv
<1>7. NetInv
  BY <1>2, <1>5, <1>6, NetworkAssumption DEF NetInv, Clients
<1>8. Abstract!SpreadInit
  BY <1>2, <1>5, AbstractNames, NetworkAssumption DEF Abstract!SpreadInit, Clients
<1> QED BY <1>7, <1>8

(* What each action does to the versions. *)
LEMMA NetSteps ==
  ASSUME NetInv, NetNext
  PROVE  /\ NetInv'
         /\ \/ RepairGlobally /\ Issues(Increment(net[Root].version))
            \/ RestartRoot /\ Issues(SeqnoInit)
            \/ UNCHANGED <<repairs, restarts>> /\ (AttackType # 2 => Passes \/ Overtakes)
<1>1. CASE \E p \in dios, has_room \in BOOLEAN : ReceiveDio(p, has_room)
  BY <1>1, ReceiveDioMove DEF ReceiveDio
<1>2. CASE \E i \in Node :
             \/ \E reach \in SUBSET Hears(i) :
                  Multicast(i, reach) \/ \E j \in Hears(i) : Unicast(i, j, reach)
             \/ UpdateState(i) \/ Tick(i) \/ RepairLocally(i)
  BY <1>2, NodeMove
     DEF Multicast, Unicast, Sends, UpdateState, Tick, RepairLocally, DoesQuietly
<1>3. CASE \E i \in Clients : LeaveDag(i) \/ SendNewDao(i) \/ ResendDao(i)
                             \/ ReceiveDaoAck(i) \/ Restart(i)
  BY <1>3, ClientAction
     DEF LeaveDag, SendNewDao, ResendDao, ReceiveDaoAck, Restart, DoesQuietly
<1>4. CASE RepairGlobally \/ RestartRoot
  BY <1>4, RootAction
<1> QED BY <1>1, <1>2, <1>3, <1>4 DEF NetNext

LEMMA NetNextInv ==
  ASSUME NetInv, [NetNext]_netVars
  PROVE  NetInv'
<1>1. CASE UNCHANGED netVars
  BY <1>1 DEF NetInv, netVars
<1> QED BY <1>1, NetSteps

(* The inductive invariant of the network, under every attack. *)
THEOREM NetInvariance == NetSpec => []NetInv
<1>1. NetInit => NetInv
  BY NetInitInv
<1> QED BY <1>1, NetNextInv, PTL DEF NetSpec

(* Unless a node inflates the versions it sends, whatever is lost or         *)
(* reordered, and whoever repairs, leaves or reboots: members only move to   *)
(* newer versions, and to none that the root did not issue.                  *)
THEOREM NetImplementsSpread ==
  ASSUME AttackType # 2
  PROVE  NetSpec => VersionsSpread
<1>1. NetInit => Abstract!SpreadInit
  BY NetInitInv
<1>2. UNCHANGED netVars => UNCHANGED Abstract!spread
  BY DEF netVars, Abstract!spread
<1>3. NetInv /\ NetNext => Abstract!SpreadNext
  BY NetSteps, AbstractSteps
<1>4. NetInv /\ [NetNext]_netVars => [Abstract!SpreadNext]_(Abstract!spread)
  BY <1>2, <1>3
<1> QED BY <1>1, <1>4, NetInvariance, PTL DEF NetSpec, VersionsSpread, Abstract!SpreadSpec
------------------------------------------------------------------------------
(* Numbers of DIOs, repairs and reboots. *)
Counted == IsFiniteSet(dios) /\ Cardinality(dios) <= MaxInFlight

Limited == repairs \in 0 .. MaxRepairs /\ restarts \in 0 .. MaxRestarts

(* A handler puts finitely many DIOs on their way. *)
LEMMA CopiesFinite ==
  ASSUME IsFiniteSet(Node), NEW i \in Node, NEW m, NEW n, SendsDio(m, n)
  PROVE  IsFiniteSet(Copies(i, m))
<1>1. CASE m.sent = {}
  <2>1. Copies(i, m) = {}
    BY <1>1 DEF Copies
  <2> QED BY <2>1, FS_EmptySet
<1>2. CASE m.sent # {}
  <2>1. PICK msg : m.sent = {msg}
    BY <1>2 DEF SendsDio
  <2> DEFINE S == Hears(i)
             T == {CopyFor(i, m, msg, j) : j \in S}
             f == [j \in S |-> CopyFor(i, m, msg, j)]
  <2>2. Copies(i, m) \subseteq T
    BY <2>1 DEF Copies
  <2>3. IsFiniteSet(S)
    BY FS_Subset DEF Hears
  <2> HIDE DEF S
  <2>4. f \in Surjection(S, T)
    BY DEF Surjection
  <2>5. IsFiniteSet(T)
    BY <2>3, <2>4, FS_Surjection
  <2> QED BY <2>2, <2>5, FS_Subset
<1> QED BY <1>1, <1>2

LEMMA Bookkeeping ==
  ASSUME NetNext
  PROVE  \/ UNCHANGED <<dios, repairs, restarts>>
         \/ \E p \in dios, has_room \in BOOLEAN : ReceiveDio(p, has_room)
         \/ \E i \in Node : \E reach \in SUBSET Node :
              Multicast(i, reach) \/ \E j \in Node : Unicast(i, j, reach)
         \/ RepairGlobally \/ RestartRoot
<1>1. \A i \in Node : Hears(i) \in SUBSET Node
  BY DEF Hears
<1> QED BY <1>1 DEF NetNext, UpdateState, Tick, RepairLocally, LeaveDag, SendNewDao,
                    ResendDao, ReceiveDaoAck, Restart, DoesQuietly

LEMMA LimitedNext ==
  ASSUME Limited, [NetNext]_netVars
  PROVE  Limited'
<1>1. \/ UNCHANGED <<repairs, restarts>>
      \/ repairs < MaxRepairs /\ repairs' = repairs + 1 /\ restarts' = restarts
      \/ restarts < MaxRestarts /\ restarts' = restarts + 1 /\ repairs' = repairs
  BY Bookkeeping DEF netVars, ReceiveDio, Multicast, Unicast, Sends, RepairGlobally, RestartRoot
<1> QED BY <1>1, NetworkAssumption DEF Limited

LEMMA SendingCounted ==
  ASSUME IsFiniteSet(Node), Counted, NEW i \in Node, NEW reach, NEW S, Sends(i, S, reach),
         \A m \in S : SendsDio(m, net[i])
  PROVE  Counted'
<1>1. PICK m \in S : dios' = dios \cup {p \in Copies(i, m) : p.to \in reach}
  BY DEF Sends
<1>2. IsFiniteSet({p \in Copies(i, m) : p.to \in reach})
  BY CopiesFinite, FS_Subset
<1>3. IsFiniteSet(dios')
  BY <1>1, <1>2, FS_Union DEF Counted
<1> QED BY <1>3 DEF Sends, Counted

LEMMA CountedNext ==
  ASSUME IsFiniteSet(Node), NetInv, Counted, [NetNext]_netVars
  PROVE  Counted'
<1>1. CASE \E p \in dios, has_room \in BOOLEAN : ReceiveDio(p, has_room)
  <2>1. PICK p \in dios : dios' = dios \ {p}
    BY <1>1 DEF ReceiveDio
  <2>2. /\ IsFiniteSet(dios \ {p}) /\ Cardinality(dios \ {p}) = Cardinality(dios) - 1
        /\ Cardinality(dios) \in Nat
    BY FS_RemoveElement, FS_CardinalityType DEF Counted
  <2> QED BY <2>1, <2>2, NetworkAssumption DEF Counted
<1>2. CASE \E i \in Node : \E reach \in SUBSET Node :
             Multicast(i, reach) \/ \E j \in Node : Unicast(i, j, reach)
  <2>1. PICK i \in Node, reach \in SUBSET Node :
          Multicast(i, reach) \/ \E j \in Node : Unicast(i, j, reach)
    BY <1>2
  <2>2. NodeInv(net[i]) /\ net[i].sent = {}
    BY DEF NetInv
  <2>3. CASE Multicast(i, reach)
    <3>1. \A m \in handle_dio_timer(net[i]) : SendsDio(m, net[i])
      BY <2>2, DioTimerSends
    <3> QED BY <2>3, <3>1, SendingCounted DEF Multicast
  <2>4. ASSUME NEW j \in Node, Unicast(i, j, reach)
        PROVE  Counted'
    <3>1. \A m \in rpl_icmp6_dio_output(net[i], j) : SendsDio(m, net[i])
      BY <2>2, DioOutputSends
    <3> QED BY <2>4, <3>1, SendingCounted DEF Unicast
  <2> QED BY <2>1, <2>3, <2>4
<1>3. CASE UNCHANGED dios
  BY <1>3 DEF Counted
<1>4. \/ \E p \in dios, has_room \in BOOLEAN : ReceiveDio(p, has_room)
      \/ \E i \in Node : \E reach \in SUBSET Node :
           Multicast(i, reach) \/ \E j \in Node : Unicast(i, j, reach)
      \/ UNCHANGED dios
  <2>1. CASE NetNext
    BY <2>1, Bookkeeping DEF RepairGlobally, RestartRoot
  <2>2. CASE UNCHANGED netVars
    BY <2>2 DEF netVars
  <2> QED BY <2>1, <2>2
<1> QED BY <1>1, <1>2, <1>3, <1>4

(* What is on its way between nodes, and the state of each, is what the code *)
(* can hold: in particular what one node sends, inflated version, forged     *)
(* rank and all, is a DIO the next one can be in the hands of                *)
(* (rpl-icmp6.c:382-421).                                                    *)
THEOREM NetTypes ==
  ASSUME IsFiniteSet(Node)
  PROVE  NetSpec => []NetTypeOK
<1>1. NetInit => Counted /\ Limited
  BY FS_EmptySet, NetworkAssumption DEF NetInit, Counted, Limited
<1>2. NetInv /\ Counted /\ [NetNext]_netVars => Counted'
  BY CountedNext
<1>3. Limited /\ [NetNext]_netVars => Limited'
  BY LimitedNext
<1>4. NetInv /\ Counted /\ Limited => NetTypeOK
  BY DEF NetInv, Counted, Limited, NetTypeOK
<1> QED BY <1>1, <1>2, <1>3, <1>4, NetInvariance, PTL DEF NetSpec
------------------------------------------------------------------------------
(* The version of a root that was asked for k repairs.  They are in order    *)
(* until the window is used up: from there the first one looks newer again.  *)
Nth(k) == IF k < SequenceWindow THEN SeqnoInit + k ELSE k - SequenceWindow

LEMMA NthInOrder ==
  ASSUME NEW j \in 0 .. SequenceWindow, NEW i \in 0 .. j
  PROVE  /\ Nth(j) \in Seqno /\ ~Greater(Nth(i), Nth(j))
         /\ j < SequenceWindow => Increment(Nth(j)) = Nth(j + 1)
<1> DEFINE a == Nth(i)
           b == Nth(j)
<1>1. /\ SequenceWindow \in Nat /\ SeqnoInit \in Nat /\ MaxValue \in Nat
      /\ CircularRegion \in Nat /\ SeqnoInit + SequenceWindow = MaxValue + 1
      /\ SeqnoInit > CircularRegion
  BY LollipopAssumption DEF SeqnoInit
<1>2. /\ b = IF j < SequenceWindow THEN SeqnoInit + j ELSE 0
      /\ a = IF i < SequenceWindow THEN SeqnoInit + i ELSE 0
      /\ j < SequenceWindow =>
           Nth(j + 1) = IF j + 1 < SequenceWindow THEN SeqnoInit + j + 1 ELSE 0
  BY <1>1 DEF Nth
<1> HIDE DEF a, b
<1>3. /\ a \in Seqno /\ b \in Seqno
      /\ OnStick(b) <=> j < SequenceWindow
      /\ OnStick(a) <=> i < SequenceWindow
  BY <1>1, <1>2 DEF Seqno, OnStick
<1>4. i < SequenceWindow => ~Greater(a, b)
  <2>1. i < SequenceWindow /\ ~(j < SequenceWindow) =>
          ~(MaxValue + 1 + b - a > SequenceWindow)
    BY <1>1, <1>2
  <2>2. i < SequenceWindow /\ j < SequenceWindow => ~(b < a)
    BY <1>1, <1>2
  <2> HIDE DEF Ahead
  <2> QED BY <1>3, <2>1, <2>2 DEF Greater
<1>5. ~(i < SequenceWindow) => ~Greater(a, b)
  <2>1. ~(i < SequenceWindow) => ~OnStick(a) /\ ~OnStick(b) /\ a = 0 /\ b = 0
    BY <1>1, <1>2, <1>3
  <2>2. ~(i < SequenceWindow) => Ahead(b, a) = 0
    BY <1>1, <1>3, <2>1, AheadOnCircle
  <2>3. 0 \notin 1 .. (SequenceWindow - 1)
    BY <1>1
  <2> QED BY <2>1, <2>2, <2>3 DEF Greater
<1>6. j < SequenceWindow => Increment(b) = Nth(j + 1)
  BY <1>1, <1>2, <1>3, IncrementOutcome DEF OnStick
<1>7. ~Greater(a, b)
  BY <1>4, <1>5
<1> QED BY <1>3, <1>6, <1>7 DEF a, b

(* Everything there is was issued, and the root is on the last of it. *)
InOrder ==
  restarts = 0 =>
    /\ net[Root].version = Nth(repairs)
    /\ \A i \in Clients : onVersion[i] \in {-1} \cup {Nth(k) : k \in 0 .. repairs}
    /\ inAir \subseteq {Nth(k) : k \in 0 .. repairs}

LEMMA InOrderNext ==
  ASSUME AttackType # 2, MaxRepairs <= SequenceWindow,
         NetInv, Limited, Limited', InOrder, NetNext
  PROVE  InOrder'
<1> DEFINE past == {Nth(k) : k \in 0 .. repairs}
<1>1. CASE restarts # 0 \/ RestartRoot
  <2>1. (restarts' = restarts /\ ~RestartRoot) \/ restarts' = restarts + 1
    BY Bookkeeping DEF RestartRoot, ReceiveDio, Multicast, Unicast, Sends, RepairGlobally
  <2>2. restarts' # 0
    BY <1>1, <2>1, NetworkAssumption DEF Limited
  <2> QED BY <2>2 DEF InOrder
<1>2. CASE restarts = 0 /\ ~RestartRoot
  <2>0. repairs \in 0 .. SequenceWindow /\ repairs' \in 0 .. SequenceWindow
    BY NetworkAssumption, LollipopAssumption DEF Limited
  <2>1. /\ net[Root].version = Nth(repairs) /\ inAir \subseteq past
        /\ \A i \in Clients : onVersion[i] \in {-1} \cup past
    BY <1>2 DEF InOrder
  <2>2. Nth(repairs) \in past
    BY <2>0
  <2>3. NetInv' /\ -1 \notin inAir'
    <3>1. NetInv'
      BY NetSteps
    <3>2. -1 \notin Seqno
      BY LollipopAssumption DEF Seqno
    <3> QED BY <3>1, <3>2 DEF NetInv, inAir, Packet, Dio
  <2>4. ASSUME Abstract!Travel
        PROVE  inAir' \subseteq past
    BY <2>1, <2>2, <2>3, <2>4 DEF Abstract!Travel, inAir, onVersion
  <2>5. CASE RepairGlobally /\ Issues(Increment(net[Root].version))
    <3>1. repairs' = repairs + 1
      BY <2>5 DEF RepairGlobally
    <3>2. net'[Root].version = Nth(repairs + 1)
      BY <2>0, <2>1, <2>5, <3>1, NthInOrder, LollipopAssumption DEF Issues
    <3>3. past \subseteq {Nth(k) : k \in 0 .. repairs'}
      BY <2>0, <3>1
    <3> QED BY <2>1, <2>4, <2>5, <3>1, <3>2, <3>3 DEF InOrder, Issues
  <2>6. CASE UNCHANGED <<repairs, restarts>> /\ Passes
    <3>1. ASSUME NEW i \in Clients
          PROVE  onVersion'[i] \in {-1} \cup past
      BY <2>1, <2>6 DEF Passes, onVersion, inAir, Abstract!Join, Abstract!Adopt, Abstract!Part
    <3> QED BY <2>1, <2>4, <2>6, <3>1 DEF InOrder, Passes
  <2>7. ~Overtakes
    <3>1. ASSUME NEW k \in 0 .. repairs
          PROVE  ~Greater(Nth(k), Nth(repairs))
      BY <2>0, NthInOrder, LollipopAssumption
    <3> QED BY <2>1, <3>1 DEF Overtakes
  <2> QED BY <1>2, <2>5, <2>6, <2>7, NetSteps
<1> QED BY <1>1, <1>2

(* Up to as many repairs as the window is wide, and no more, no node ever    *)
(* holds a version the root takes for newer, however old the DIOs are that   *)
(* it hears: the root only has to overtake others after a reboot             *)
(* (rpl-dag.c:461-472).                                                      *)
THEOREM RootIsAhead ==
  ASSUME AttackType # 2, MaxRepairs <= SequenceWindow
  PROVE  NetSpec => []NobodyAheadOfRoot
<1>1. NetInit => Limited
  BY NetworkAssumption DEF NetInit, Limited
<1>2. NetInit => InOrder
  <2>1. SUFFICES ASSUME NetInit PROVE InOrder
    OBVIOUS
  <2>2. Abstract!SpreadInit
    BY <2>1, NetInitInv
  <2>3. SeqnoInit = Nth(0) /\ 0 \in 0 .. 0
    BY LollipopAssumption DEF Nth, SeqnoInit
  <2>4. repairs = 0
    BY <2>1 DEF NetInit
  <2> QED BY <2>2, <2>3, <2>4, AbstractNames DEF Abstract!SpreadInit, InOrder, onVersion, inAir
<1>3. Limited /\ [NetNext]_netVars => Limited'
  BY LimitedNext
<1>4. NetInv /\ Limited /\ Limited' /\ InOrder /\ [NetNext]_netVars => InOrder'
  <2>1. UNCHANGED netVars /\ InOrder => InOrder'
    BY DEF netVars, InOrder, onVersion, inAir
  <2>2. NetInv /\ Limited /\ Limited' /\ InOrder /\ NetNext => InOrder'
    BY InOrderNext, NetworkAssumption DEF Limited
  <2> QED BY <2>1, <2>2
<1>5. NetInv /\ Limited /\ InOrder => NobodyAheadOfRoot
  <2>1. SUFFICES ASSUME NetInv, Limited, InOrder, restarts = 0,
                        NEW i \in Clients, net[i].used
                 PROVE  ~Greater(net[i].version, net[Root].version)
    BY DEF NobodyAheadOfRoot
  <2>2. net[i].version \in {-1} \cup {Nth(k) : k \in 0 .. repairs}
    BY <2>1 DEF InOrder, onVersion
  <2>3. net[i].version # -1
    <3>1. net[i].version \in 0 .. MaxValue
      BY <2>1 DEF NetInv, NodeState, Seqno, Clients
    <3> QED BY <3>1, LollipopAssumption
  <2>4. repairs \in 0 .. SequenceWindow
    BY <2>1, NetworkAssumption, LollipopAssumption DEF Limited
  <2>5. PICK k \in 0 .. repairs : net[i].version = Nth(k)
    BY <2>2, <2>3
  <2> QED BY <2>1, <2>4, <2>5, NthInOrder DEF InOrder
<1> QED BY <1>1, <1>2, <1>3, <1>4, <1>5, NetInvariance, PTL DEF NetSpec
===============================================================================
