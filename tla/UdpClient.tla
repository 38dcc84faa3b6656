------------------------------ MODULE UdpClient -------------------------------
(***************************************************************************)
(* The application of a node that is not the root (udp-client.c) on top of *)
(* its routing (RplNode), and the echo server it talks to (udp-server.c).  *)
(* Once a period the client floods, if it is such an attacker, prints a    *)
(* FEATURES line and sends a request, or notes that it could not.  The     *)
(* FEATURES lines are what the data set is made of.                        *)
(*                                                                         *)
(* Requests and replies are lost, delayed and reordered, but not doubled.  *)
(* The period is one handler: nothing runs between its statements.         *)
(***************************************************************************)
EXTENDS RplNode

CONSTANTS
  MaxPeriods,     \* bound: periods counted in tx_count and missed_tx_count
  MaxInFlight     \* bound: requests and replies on their way

ASSUME ClientAssumption == MaxPeriods \in Nat \ {0} /\ MaxInFlight \in Nat \ {0}

VARIABLES
  tx, rx, missed,             \* tx_count, rx_count, missed_tx_count
  last_rank, rank_changes,
  requests, replies,          \* on their way to the server, and back
  stale,                      \* observer: on their way when the client last rebooted
  changes                     \* observer: handlers since then that changed the rank

counters == <<tx, rx, missed, last_rank, rank_changes>>

clientVars ==
  <<node, told, heard, floor, tx, rx, missed, last_rank, rank_changes,
    requests, replies, stale, changes>>

ClientTypeOK ==
  /\ TypeOK
  /\ tx \in 0 .. MaxPeriods /\ missed \in 0 .. MaxPeriods
  /\ rx \in Nat /\ last_rank \in Rank /\ rank_changes \in 0 .. tx
  /\ requests \in Nat /\ replies \in Nat /\ requests + replies <= MaxInFlight
  /\ stale \in 0 .. MaxInFlight /\ changes \in 0 .. MaxPeriods

PoweredOnCounters ==
  /\ tx' = 0 /\ rx' = 0 /\ missed' = 0 /\ last_rank' = 0 /\ rank_changes' = 0

ClientInit ==
  /\ Init
  /\ tx = 0 /\ rx = 0 /\ missed = 0 /\ last_rank = 0 /\ rank_changes = 0
  /\ requests = 0 /\ replies = 0 /\ stale = 0 /\ changes = 0
------------------------------------------------------------------------------
(* The rank that a FEATURES line shows: 0 outside a DAG. *)
shown_rank(n) == IF n.used THEN n.rank ELSE 0

(* The number of messages an attacker of types 3, 8 and 9 sends in a period. *)
flood_length ==
  CASE Self \in Attackers /\ AttackType \in {3, 8} -> 10
    [] Self \in Attackers /\ AttackType = 9 -> 50
    [] OTHER -> 0

(* One message of the flood. *)
flood_output(n) ==
  IF AttackType = 8
    THEN {IF Daos(m) = {} THEN [m EXCEPT !.sent = n.sent] ELSE m :
            m \in rpl_icmp6_dao_output([n EXCEPT !.sent = {}], 1)}
    ELSE rpl_icmp6_dis_output(n, All)

(* The states of a node that started in state n after its flood.  Every      *)
(* message brings the state up to date before it is sent.                    *)
flooded(n) ==
  LET after[k \in 0 .. flood_length] ==
        IF k = 0 THEN {n} ELSE UNION {flood_output(m) : m \in after[k - 1]}
  IN  after[flood_length]

(* External: whether a node that is poisoning counts is not known here. *)
node_is_reachable(n) ==
  {n.used /\ n.state = "REACHABLE", n.used /\ n.state \in {"REACHABLE", "POISONING"}}

NoteRank(m) ==
  changes' = IF shown_rank(m) # shown_rank(node) /\ changes < MaxPeriods
               THEN changes + 1 ELSE changes

(* Faulty: does not note the rank it has counted. *)
print_features_forgetful(m) ==
  /\ rank_changes' = IF shown_rank(m) # last_rank THEN rank_changes + 1 ELSE rank_changes
  /\ UNCHANGED last_rank

(* What print_features changes; the line itself shows shown_rank(m), the     *)
(* parent of m, and the counters.                                            *)
print_features(m) ==
  /\ rank_changes' = IF shown_rank(m) # last_rank THEN rank_changes + 1 ELSE rank_changes
  /\ last_rank' = shown_rank(m)

SendRequest ==
  /\ tx' = tx + 1
  /\ requests' \in {requests, requests + 1} /\ requests' + replies <= MaxInFlight
  /\ UNCHANGED <<rx, missed>>

CountMissed ==
  /\ missed' = IF tx > 0 THEN missed + 1 ELSE missed
  /\ UNCHANGED <<tx, rx, last_rank, rank_changes, requests>>

(* The periodic timer of udp_client_process expires.                         *)
Period ==
  /\ tx < MaxPeriods /\ missed < MaxPeriods
  /\ \E m \in flooded(node) :
       /\ Becomes(m) /\ NoteRank(node')
       /\ \E reachable \in node_is_reachable(m) :
            \/ reachable /\ print_features(node') /\ SendRequest
            \/ ~reachable /\ CountMissed
  /\ UNCHANGED <<replies, stale>>

(* udp_rx_callback of the server: the reply is lost or on its way. *)
Echo ==
  /\ requests > 0 /\ requests' = requests - 1
  /\ replies' \in {replies, replies + 1}
  /\ UNCHANGED <<vars, counters, stale, changes>>

(* Faulty: counts a reply twice. *)
ReceiveReply_twice ==
  /\ replies > 0 /\ replies' = replies - 1
  /\ rx' = rx + 2
  /\ UNCHANGED <<vars, tx, missed, last_rank, rank_changes, requests, stale, changes>>

(* udp_rx_callback of the client. *)
ReceiveReply ==
  /\ replies > 0 /\ replies' = replies - 1
  /\ rx' = rx + 1
  /\ UNCHANGED <<vars, tx, missed, last_rank, rank_changes, requests, stale, changes>>

RoutingStep ==
  /\ Step
  /\ NoteRank(node')
  /\ UNCHANGED <<counters, requests, replies, stale>>

ClientReboot ==
  /\ Reboot
  /\ PoweredOnCounters
  /\ stale' = requests + replies /\ changes' = 0
  /\ UNCHANGED <<requests, replies>>

ClientNext == Period \/ Echo \/ ReceiveReply \/ RoutingStep \/ ClientReboot

ClientSpec == ClientInit /\ [][ClientNext]_clientVars
------------------------------------------------------------------------------
(* A reply answers a request: in a FEATURES line, rx never passes tx but for *)
(* replies that were on their way in a reboot, so that the packet delivery   *)
(* ratio rx / tx taken from the line is at most 1.  The request is counted   *)
(* after it is sent, and its reply cannot be counted in between              *)
(* (udp-client.c:44, 162-163).                                               *)
RepliesAnswerRequests == rx + requests + replies <= tx + stale

(* Every change of rank that a FEATURES line counts has happened, although   *)
(* the rank is only looked at once a period (udp-client.c:66-69).            *)
CountedChangesHappened == rank_changes <= changes

(* A FEATURES line comes from a member of a DAG: unless the node is          *)
(* poisoning it has a parent, and a rank above the root's that is not        *)
(* infinite, whatever a flood did to it in the same period                   *)
(* (udp-client.c:56-64, 158-160).                                            *)
FeaturesOfMember ==
  [][tx' = tx + 1 /\ node'.state # "POISONING" =>
       /\ node'.preferred_parent # NoNode
       /\ node'.rank # InfiniteRank /\ node'.rank > RootRank]_clientVars
=============================================================================
