------------------------------ MODULE RplNetwork ------------------------------
(***************************************************************************)
(* A root and other nodes that exchange DIOs over a network that loses,    *)
(* delays and reorders them.  Any node may reboot; a root starts its DAG   *)
(* again from the initial version (udp-server.c:74, rpl-dag.c:764), and    *)
(* the others have to push the version they are on back to it.             *)
(*                                                                         *)
(* What RplNode already leaves to chance stays so: an acknowledgement of   *)
(* the last DAO may arrive at any time.  The timers that only decide when  *)
(* a DIO or a DIS is sent are not kept: a node may send one at any time.   *)
(***************************************************************************)
EXTENDS RplDag, FiniteSets

CONSTANTS
  Root,           \* the node that runs udp-server.c
  Links,          \* who hears whom: a set of two-element sets of nodes
  Upsets,         \* what befalls the nodes: a subset of {"expiry", "repair", "reboot"}
  MaxInFlight,    \* bound: DIOs on their way at a time
  MaxRepairs,     \* bound: global repairs that are asked for
  MaxRestarts     \* bound: reboots of the root

ASSUME NetworkAssumption ==
  /\ Root \in Node
  /\ \A link \in Links : \E a, b \in Node : a # b /\ link = {a, b}
  /\ Upsets \subseteq {"expiry", "repair", "reboot"}
  /\ MaxInFlight \in Nat \ {0} /\ MaxRepairs \in Nat /\ MaxRestarts \in Nat

VARIABLES net,        \* the state of each node
          dios,       \* the DIOs on their way: sender, receiver and content
          repairs,    \* global repairs asked for so far
          restarts    \* reboots of the root so far

netVars == <<net, dios, repairs, restarts>>

Clients == Node \ {Root}

Hears(i) == {j \in Node : {i, j} \in Links}

Packet == [from: Node, to: Node, dio: Dio]

NetTypeOK ==
  /\ net \in [Node -> NodeState] /\ \A i \in Node : net[i].id = i
  /\ dios \subseteq Packet /\ Cardinality(dios) <= MaxInFlight
  /\ repairs \in 0 .. MaxRepairs /\ restarts \in 0 .. MaxRestarts
------------------------------------------------------------------------------
(* The state of a node between two handlers.  Timers that only decide when  *)
(* something is sent are dropped, and of the number of the last DAO it is    *)
(* kept whether there was one.                                               *)
rest(m) ==
  [m EXCEPT !.sent = {}, !.dio_fresh = FALSE, !.periodic_dis = FALSE, !.unicast_dio = FALSE,
            !.dao_last_seqno = IF @ = SeqnoInit THEN @ ELSE Increment(SeqnoInit)]

(* The DIO msg of node i, in state m, on its way to node j. *)
CopyFor(i, m, msg, j) ==
  [from |-> i, to |-> j,
   dio |-> [dag |-> m.dag_id, rank |-> msg.rank, version |-> msg.version,
            dtsn |-> msg.dtsn, mop |-> m.mop, supported |-> TRUE]]

(* The DIOs that the handler of node i has sent: one for each node in reach  *)
(* that a message is addressed to.                                           *)
Copies(i, m) ==
  UNION {{CopyFor(i, m, msg, j) : j \in {h \in Hears(i) : msg.to \in {All, h}}} :
           msg \in {sent \in m.sent : sent.type = "DIO"}}

(* The current handler of node i ends in a state of S. *)
Does(i, S) == \E m \in S : net' = [net EXCEPT ![i] = rest(m)]

(* It sends nothing that another node here acts on. *)
DoesQuietly(i, S) == Does(i, S) /\ UNCHANGED <<dios, repairs, restarts>>

NetInit ==
  /\ \E m \in rpl_dag_init_root(PoweredOn(Root)) :
       net = [i \in Node |-> rest(IF i = Root THEN m ELSE PoweredOn(i))]
  /\ dios = {} /\ repairs = 0 /\ restarts = 0

(* The current handler of node i ends in a state of S, and of the DIOs that *)
(* it sent those to the nodes of reach are not lost at once.                *)
Sends(i, S, reach) ==
  /\ \E m \in S : /\ net' = [net EXCEPT ![i] = rest(m)]
                  /\ dios' = dios \cup {p \in Copies(i, m) : p.to \in reach}
  /\ Cardinality(dios') <= MaxInFlight
  /\ UNCHANGED <<repairs, restarts>>

(* A DIO of the receiver's own DAG only reaches the root.  has_room: a new  *)
(* neighbor fits into the table of the receiver, which other nodes share.   *)
ReceiveDio(p, has_room) ==
  /\ p \in dios /\ dios' = dios \ {p}
  /\ Does(p.to, rpl_process_dio(net[p.to], p.from, p.dio, has_room))
  /\ UNCHANGED <<repairs, restarts>>

(* The DIO timer of node i expires. *)
Multicast(i, reach) == net[i].used /\ Sends(i, handle_dio_timer(net[i]), reach)

(* Node i answers a unicast DIS of node j, or a data packet of it that was   *)
(* on a loop: also when it may not multicast, being no more than a member.   *)
Unicast(i, j, reach) == net[i].used /\ Sends(i, rpl_icmp6_dio_output(net[i], j), reach)

UpdateState(i) == net[i].state_update /\ DoesQuietly(i, rpl_dag_update_state(net[i]))

LeaveDag(i) == net[i].leave /\ DoesQuietly(i, rpl_dag_leave([net[i] EXCEPT !.leave = FALSE]))

SendNewDao(i) ==
  net[i].dao_timer \in {"new", "refresh"} /\ DoesQuietly(i, send_new_dao(net[i]))

ResendDao(i) == net[i].dao_timer = "resend" /\ DoesQuietly(i, resend_dao(net[i]))

ReceiveDaoAck(i) ==
  /\ net[i].used /\ net[i].dao_last_seqno # SeqnoInit
  /\ DoesQuietly(i, {rpl_process_dao_ack(net[i], net[i].dao_last_seqno, TRUE)})

Tick(i) ==
  "expiry" \in Upsets /\ net[i].used /\ DoesQuietly(i, rpl_dag_periodic(net[i]))

RepairLocally(i) == "repair" \in Upsets /\ DoesQuietly(i, {rpl_local_repair(net[i])})

Restart(i) == "reboot" \in Upsets /\ DoesQuietly(i, {rpl_dag_init(net[i])})

RepairGlobally ==
  /\ repairs < MaxRepairs /\ repairs' = repairs + 1
  /\ Does(Root, {rpl_global_repair(net[Root])})
  /\ UNCHANGED <<dios, restarts>>

RestartRoot ==
  /\ restarts < MaxRestarts /\ restarts' = restarts + 1
  /\ Does(Root, rpl_dag_init_root(rpl_dag_init(net[Root])))
  /\ UNCHANGED <<dios, repairs>>

NetNext ==
  \/ \E p \in dios, has_room \in BOOLEAN : ReceiveDio(p, has_room)
  \/ \E i \in Node : \E reach \in SUBSET Hears(i) :
       Multicast(i, reach) \/ \E j \in Hears(i) : Unicast(i, j, reach)
  \/ \E i \in Node : UpdateState(i) \/ Tick(i) \/ RepairLocally(i)
  \/ \E i \in Clients :
       LeaveDag(i) \/ SendNewDao(i) \/ ResendDao(i) \/ ReceiveDaoAck(i) \/ Restart(i)
  \/ RepairGlobally \/ RestartRoot

NetSpec == NetInit /\ [][NetNext]_netVars
------------------------------------------------------------------------------
(* The dissemination of versions among the nodes is that of VersionSpread:  *)
(* no order of DIOs, repairs, leaves and reboots takes a member to a version *)
(* that is not newer than the one it was on, or to one that nobody issued    *)
(* (rpl-dag.c:461-494).                                                      *)
Abstract == INSTANCE VersionSpread WITH
  Member  <- Clients,
  Outside <- -1,
  issued  <- net[Root].version,
  version <- [i \in Clients |-> IF net[i].used THEN net[i].version ELSE -1],
  air     <- {p.dio.version : p \in dios}

VersionsSpread == Abstract!SpreadSpec

(* As long as the root has not forgotten its version nobody is ahead of it.  *)
NobodyAheadOfRoot ==
  restarts = 0 =>
    \A i \in Clients : net[i].used => ~Greater(net[i].version, net[Root].version)
------------------------------------------------------------------------------
(* Liveness *)

AdvertiseTo(i, j) == rpl_dag_ready_to_advertise(net[i]) /\ Multicast(i, {j})

(* Nothing stays on its way for ever: only ReceiveDio takes a DIO away.      *)
Arrival(i, j) == \E p \in dios : p.from = i /\ p.to = j /\ dios' = dios \ {p}

(* Event timers expire, what is on its way arrives, and of the DIOs that one *)
(* node can send to another some get through.                                *)
NetFairness ==
  /\ \A i, j \in Node : {i, j} \in Links => WF_dios(Arrival(i, j))
  /\ \A i \in Clients : WF_netVars(UpdateState(i)) /\ WF_netVars(LeaveDag(i))
                        /\ WF_netVars(SendNewDao(i)) /\ WF_netVars(ResendDao(i))
  /\ \A i, j \in Node : {i, j} \in Links => SF_netVars(AdvertiseTo(i, j))

FairNetSpec == NetSpec /\ NetFairness

SameVersion(i) == net[i].used => net[i].version = net[Root].version

(* Whatever the root forgot in a reboot, and whatever version it and the     *)
(* others were on, they end up on one version: an old version from the root  *)
(* makes its members tell it theirs, and it overtakes them                   *)
(* (rpl-dag.c:461-472, 482-488).                                             *)
VersionsConverge == <>[](\A i \in Clients : SameVersion(i))
=============================================================================
