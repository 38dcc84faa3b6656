---------------------------- MODULE VersionSpread -----------------------------
(***************************************************************************)
(* What the DODAG version promises, without ranks, parents, timers or      *)
(* tables: only the root makes versions, and the members pass them on and  *)
(* move from a version to a newer one.  Messages are lost, delayed and     *)
(* reordered, members come and go, and the root may forget everything.     *)
(***************************************************************************)
EXTENDS Lollipop

CONSTANTS Member,   \* the nodes that are not the root
          Outside   \* in place of a version: in no DAG

VARIABLES issued,   \* the root's version
          version,  \* the version each member is on
          air       \* the versions in the messages on their way

spread == <<issued, version, air>>

SpreadTypeOK ==
  /\ issued \in Seqno
  /\ version \in [Member -> Seqno \cup {Outside}]
  /\ air \subseteq Seqno

SpreadInit ==
  /\ issued = SeqnoInit
  /\ version = [i \in Member |-> Outside]
  /\ air = {}

(* A node advertises the version it is on; messages get lost. *)
Travel == air' \subseteq air \cup {issued} \cup {version[i] : i \in Member}

(* The root repairs the DAG, overtakes a version it is told of, or reboots. *)
Issue   == issued' = Increment(issued)
Overtake == \E v \in air : Greater(v, issued) /\ issued' = Increment(v)
Forget  == issued' = SeqnoInit

RootMoves == (Issue \/ Overtake \/ Forget) /\ UNCHANGED version

Join(i)  == version[i] = Outside /\ \E v \in air : version' = [version EXCEPT ![i] = v]
Adopt(i) == /\ version[i] # Outside
            /\ \E v \in air : Greater(v, version[i]) /\ version' = [version EXCEPT ![i] = v]
Part(i)  == version[i] # Outside /\ version' = [version EXCEPT ![i] = Outside]

MemberMoves(i) == (Join(i) \/ Adopt(i) \/ Part(i)) /\ UNCHANGED issued

SpreadNext ==
  /\ Travel
  /\ RootMoves \/ (\E i \in Member : MemberMoves(i)) \/ UNCHANGED <<issued, version>>

SpreadSpec == SpreadInit /\ [][SpreadNext]_spread
=============================================================================
