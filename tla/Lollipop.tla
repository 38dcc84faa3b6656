------------------------------- MODULE Lollipop -------------------------------
(***************************************************************************)
(* The sequence counters of RPL: DODAG version, DTSN and DAO sequence      *)
(* number.  A counter starts on the "stick", the values above              *)
(* CircularRegion, and once incremented past MaxValue it goes round the    *)
(* circle 0 .. CircularRegion for ever.                                    *)
(*                                                                         *)
(* The code under src/ only uses the counters, through RPL_LOLLIPOP_INIT,  *)
(* RPL_LOLLIPOP_INCREMENT and rpl_lollipop_greater_than; their definition  *)
(* lives in the operating system, so this module is external: it states    *)
(* the rule of RFC 6550, section 7.2, that those macros stand for.         *)
(***************************************************************************)
EXTENDS Integers

CONSTANTS MaxValue,        \* 255 on an 8-bit counter
          CircularRegion,  \* 127
          SequenceWindow   \* 16

ASSUME LollipopAssumption ==
  /\ MaxValue \in Nat /\ CircularRegion \in Nat /\ SequenceWindow \in Nat
  /\ CircularRegion < MaxValue
  /\ SequenceWindow \in 1 .. (MaxValue - CircularRegion)
  /\ 2 * (SequenceWindow - 1) <= CircularRegion

Seqno == 0 .. MaxValue

SeqnoInit == MaxValue - SequenceWindow + 1

OnStick(a) == a > CircularRegion

Increment(a) ==
  IF OnStick(a) THEN (a + 1) % (MaxValue + 1) ELSE (a + 1) % (CircularRegion + 1)

(* How far round the circle b lies after a. *)
Ahead(a, b) == (b - a) % (CircularRegion + 1)

(* rpl_lollipop_greater_than: a is newer than b. *)
Greater(a, b) ==
  \/ OnStick(a) /\ OnStick(b) /\ b < a /\ a - b < SequenceWindow
  \/ OnStick(a) /\ ~OnStick(b) /\ MaxValue + 1 + b - a > SequenceWindow
  \/ ~OnStick(a) /\ OnStick(b) /\ MaxValue + 1 + a - b <= SequenceWindow
  \/ ~OnStick(a) /\ ~OnStick(b) /\ Ahead(b, a) \in 1 .. (SequenceWindow - 1)
=============================================================================
