------------------------------ MODULE FeatureLog ------------------------------
(***************************************************************************)
(* From the log of a simulation to the rows of the data set: the simulator *)
(* prints FEATURES lines with the time in microseconds, fix_time.py turns  *)
(* the time into MM:SS.mmm, in place and possibly more than once, and      *)
(* make_network_dataset.py (like build_grouped_dataset.py) cuts the lines  *)
(* into windows of 30 seconds and keeps the last line of each node.        *)
(*                                                                         *)
(* Times are those of the code.  Which counters a line shows and what      *)
(* statistics a row takes of them is left out; so is the fraction behind   *)
(* the milliseconds of a time that lies half way between two of them.      *)
(***************************************************************************)
EXTENDS Sequences, FiniteSetsExt, Integers

CONSTANTS
  Mote,           \* the nodes that print
  Instants,       \* when they may do so, in microseconds
  MaxLines        \* bound: lines in a log

ASSUME LogAssumption ==
  /\ Instants \subseteq {us \in Nat : us % 1000 # 500}
  /\ MaxLines \in Nat \ {0}

VARIABLE log      \* the lines; at is the true time, the stamp is mm and ms once fixed

WINDOW_SEC == 30
------------------------------------------------------------------------------
(* fix_time.py *)

(* Rounded to milliseconds. *)
milliseconds(us) == (us + 500) \div 1000

(* Faulty: rounded to seconds. *)
stamp_in_seconds(line) ==
  LET mm == line.at \div 60000000
  IN  [line EXCEPT !.fixed = TRUE, !.mm = mm,
                   !.ms = 1000 * ((line.at - mm * 60000000 + 500000) \div 1000000)]

(* The minutes are taken off first, and what is left is rounded by the      *)
(* formatting.                                                              *)
stamp(line) ==
  LET mm == line.at \div 60000000
  IN  [line EXCEPT !.fixed = TRUE, !.mm = mm, !.ms = milliseconds(line.at - mm * 60000000)]

(* A line that was fixed before does not match and is kept. *)
convert(lines) ==
  [k \in DOMAIN lines |-> IF lines[k].fixed THEN lines[k] ELSE stamp(lines[k])]
------------------------------------------------------------------------------
(* make_network_dataset.py *)

(* The lines that the pattern finds: it does not match microseconds. *)
records == {k \in DOMAIN log : log[k].fixed}

(* The second of a line, as it is read back; what follows the point is dropped. *)
t(k) == log[k].mm * 60 + log[k].ms \div 1000

(* Faulty: range(0, max_t, WINDOW_SEC). *)
windows_before_last ==
  IF records = {} THEN {}
  ELSE {w \in {WINDOW_SEC * i : i \in 0 .. Max({t(k) : k \in records}) \div WINDOW_SEC} :
          w < Max({t(k) : k \in records})}

(* range(0, max_t + 1, WINDOW_SEC): where the windows start. *)
windows ==
  IF records = {} THEN {}
  ELSE {WINDOW_SEC * i : i \in 0 .. Max({t(k) : k \in records}) \div WINDOW_SEC}

window_recs(w) == {k \in records : w <= t(k) /\ t(k) < w + WINDOW_SEC}

(* Faulty: the first line of each node. *)
first_line(w) ==
  [i \in {log[k].node : k \in window_recs(w)} |-> Min({k \in window_recs(w) : log[k].node = i})]

(* A later line of a node replaces an earlier one. *)
latest(w) ==
  [i \in {log[k].node : k \in window_recs(w)} |-> Max({k \in window_recs(w) : log[k].node = i})]

(* The rows, with the line each node has in them; windows with fewer than   *)
(* three lines are skipped.                                                 *)
parse_file ==
  {[start |-> w, latest |-> latest(w)] : w \in {v \in windows : Cardinality(window_recs(v)) >= 3}}
------------------------------------------------------------------------------
(* External: the simulator writes a line; time does not go back. *)
PrintLine(i, us) ==
  /\ Len(log) < MaxLines
  /\ \A k \in DOMAIN log : log[k].at <= us
  /\ log' = Append(log, [node |-> i, at |-> us, fixed |-> FALSE, mm |-> 0, ms |-> 0])

FixTime == log' = convert(log)
------------------------------------------------------------------------------
(* No line is lost or counted twice: the windows cover the log up to its     *)
(* last line, on whichever side of a boundary that is                        *)
(* (make_network_dataset.py:52-54).                                         *)
EveryLineInOneWindow ==
  \A k \in records : Cardinality({w \in windows : k \in window_recs(w)}) = 1

(* A row shows the newest counters of each node: what a node printed after   *)
(* the line a row has of it is in a later window, although the stamps were   *)
(* rounded and only whole seconds of them are compared                       *)
(* (make_network_dataset.py:57-59).                                          *)
RowsAreUpToDate ==
  \A row \in parse_file : \A i \in DOMAIN row.latest :
    \A k \in records :
      log[k].node = i /\ k > row.latest[i] => t(k) >= row.start + WINDOW_SEC

(* Rounding moves a line into the next window only from the last half        *)
(* millisecond of its own, and never further (fix_time.py:29).               *)
WindowIsRight ==
  \A k \in records :
    LET own == log[k].at \div (WINDOW_SEC * 1000000)
    IN  \/ t(k) \div WINDOW_SEC = own
        \/ /\ t(k) = (own + 1) * WINDOW_SEC
           /\ (own + 1) * WINDOW_SEC * 1000000 - log[k].at < 500
=============================================================================
