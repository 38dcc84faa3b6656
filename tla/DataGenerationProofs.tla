------------------------- MODULE DataGenerationProofs -------------------------
(***************************************************************************)
(* The data set is what the simulations say it is: for logs of any length, *)
(* every fixed line is in one window, rows hold the newest counters and    *)
(* windows are off by at most half a millisecond; and gen_size_data.sh     *)
(* labels every log with the attack that was simulated, whatever           *)
(* project-conf.h said at first and wherever the script was interrupted.   *)
(***************************************************************************)
EXTENDS DataGeneration, WellFoundedInduction, FiniteSetTheorems,
        SequenceTheorems, TLAPS

(* Induction over the naturals, for a set instead of a predicate.           *)
LEMMA Induction ==
  ASSUME NEW S, 0 \in S, \A n \in Nat : n \in S => n + 1 \in S
  PROVE  Nat \subseteq S
<1> DEFINE R == OpToRel(<, Nat)
           T == Nat \ S
<1>1. IsWellFoundedOn(R, Nat)
  BY NatLessThanWellFounded
<1> SUFFICES ASSUME T # {} PROVE FALSE
  OBVIOUS
<1>2. PICK x \in T : \A y \in T : ~ (<<y, x>> \in R)
  <2> HIDE DEF R
  <2> QED BY <1>1, WFMin
<1>3. x - 1 \in T
  OBVIOUS
<1>4. <<x - 1, x>> \in R
  BY <1>3 DEF OpToRel
<1> QED BY <1>2, <1>3, <1>4

(* The maximum of a bounded set of naturals is in it, and bounds it. *)
LEMMA MaxOfBounded ==
  ASSUME NEW N \in Nat, NEW S \in SUBSET (0 .. N), S # {}
  PROVE  Max(S) \in S /\ \A x \in S : x <= Max(S)
<1> DEFINE HasMax(T) == \E x \in T : \A y \in T : x >= y
           Good == {n \in Nat : \A T \in SUBSET (0 .. n) : T # {} => HasMax(T)}
<1>1. 0 \in Good
  <2> SUFFICES ASSUME NEW T \in SUBSET (0 .. 0), T # {} PROVE HasMax(T)
    BY Zenon DEF Good
  <2>1. PICK x \in T : x \in 0 .. 0 /\ \A y \in T : y \in 0 .. 0
    OBVIOUS
  <2>2. \A y \in T : x >= y
    BY <2>1
  <2> QED BY <2>2
<1>2. ASSUME NEW n \in Nat, n \in Good PROVE n + 1 \in Good
  <2> SUFFICES ASSUME NEW T \in SUBSET (0 .. n + 1), T # {} PROVE HasMax(T)
    OBVIOUS
  <2>1. CASE n + 1 \in T
    BY <2>1
  <2>2. CASE n + 1 \notin T
    <3>1. T \in SUBSET (0 .. n)
      BY <2>2
    <3> QED BY <1>2, <3>1
  <2> QED BY <2>1, <2>2
<1>3. N \in Good
  <2> HIDE DEF Good
  <2> QED BY <1>1, <1>2, Induction
<1>4. HasMax(S)
  BY <1>3
<1>5. Max(S) \in S /\ \A y \in S : Max(S) >= y
  BY <1>4, Zenon DEF Max
<1> QED BY <1>5
------------------------------------------------------------------------------
(* The log *)

Line == [node : Mote, at : Instants, fixed : BOOLEAN, mm : Nat, ms : Nat]

(* The stamp that a time gets. *)
minutes_of(us) == us \div 60000000
rest_of(us)    == milliseconds(us - minutes_of(us) * 60000000)

(* The lines are in the order of their times; those that were fixed come     *)
(* first and have the stamps of their times.                                 *)
LogInv ==
  /\ log \in Seq(Line)
  /\ \A j, k \in DOMAIN log : j <= k => log[j].at <= log[k].at
  /\ \A k \in DOMAIN log :
       log[k].fixed => log[k].mm = minutes_of(log[k].at) /\ log[k].ms = rest_of(log[k].at)

LEMMA TimesAreNatural ==
  ASSUME NEW us \in Instants
  PROVE  /\ us \in Nat /\ us % 1000 # 500
         /\ minutes_of(us) \in Nat /\ rest_of(us) \in Nat
<1>1. us \in Nat /\ us % 1000 # 500
  BY LogAssumption, SMT
<1> QED BY <1>1, SMT DEF minutes_of, rest_of, milliseconds

(* fix_time.py writes a time of the kind that is read back. *)
LEMMA StampType ==
  ASSUME NEW line \in Line
  PROVE  /\ stamp(line) \in Line /\ stamp(line).fixed /\ stamp(line).at = line.at
         /\ stamp(line).mm = minutes_of(line.at) /\ stamp(line).ms = rest_of(line.at)
<1> DEFINE mm == minutes_of(line.at)
           ms == rest_of(line.at)
<1>1. mm \in Nat /\ ms \in Nat
  BY TimesAreNatural DEF Line
<1>2. stamp(line) = [line EXCEPT !.fixed = TRUE, !.mm = mm, !.ms = ms]
  BY SMT DEF stamp, minutes_of, rest_of
<1> HIDE DEF mm, ms
<1>3. stamp(line) \in Line
  BY <1>1, <1>2 DEF Line
<1>4. stamp(line).fixed /\ stamp(line).at = line.at
  BY <1>2 DEF Line
<1>5. stamp(line).mm = mm /\ stamp(line).ms = ms
  BY <1>2 DEF Line
<1> QED BY <1>3, <1>4, <1>5 DEF mm, ms

(* The second that is read back: that of the time, rounded to milliseconds.  *)
LEMMA SecondOfTime ==
  ASSUME NEW us \in Nat
  PROVE  minutes_of(us) * 60 + rest_of(us) \div 1000 = (us + 500) \div 1000000
BY SMT DEF minutes_of, rest_of, milliseconds

LEMMA SecondOfLine ==
  ASSUME LogInv, NEW k \in records
  PROVE  /\ k \in DOMAIN log /\ log[k].at \in Nat /\ log[k].at % 1000 # 500
         /\ t(k) = (log[k].at + 500) \div 1000000
<1>1. k \in DOMAIN log /\ log[k].fixed /\ log[k] \in Line
  BY DEF records, LogInv
<1>2. log[k].at \in Nat /\ log[k].at % 1000 # 500
  BY <1>1, TimesAreNatural DEF Line
<1>3. t(k) = minutes_of(log[k].at) * 60 + rest_of(log[k].at) \div 1000
  BY <1>1, SMT DEF LogInv, t
<1> QED BY <1>1, <1>2, <1>3, SecondOfTime, SMT

(* The seconds that are read back are in the order of the lines. *)
LEMMA SecondsInOrder ==
  ASSUME LogInv, NEW j \in records, NEW k \in records, j <= k
  PROVE  t(j) <= t(k)
<1>1. log[j].at <= log[k].at
  BY SecondOfLine DEF LogInv
<1> QED BY <1>1, SecondOfLine, SMT

(* The last second is one of those that are read back, and the greatest. *)
LEMMA LastSecond ==
  ASSUME LogInv, records # {}
  PROVE  /\ Max({t(k) : k \in records}) \in Nat
         /\ \A k \in records : t(k) \in Nat /\ t(k) <= Max({t(j) : j \in records})
<1> DEFINE T == {t(k) : k \in records}
<1>1. \A k \in records : k \in DOMAIN log /\ t(k) \in Nat
  BY SecondOfLine, SMT
<1>2. records \in SUBSET (0 .. Len(log)) /\ Len(log) \in Nat
  BY DEF records, LogInv
<1>3. Max(records) \in records /\ \A k \in records : k <= Max(records)
  BY <1>2, MaxOfBounded
<1>4. PICK m \in records : \A k \in records : t(k) <= t(m)
  BY <1>3, SecondsInOrder
<1>5. T \in SUBSET (0 .. t(m)) /\ T # {} /\ t(m) \in Nat
  BY <1>1, <1>4
<1>6. Max(T) \in T /\ \A x \in T : x <= Max(T)
  <2> HIDE DEF T
  <2> QED BY <1>5, MaxOfBounded
<1> QED BY <1>1, <1>6

LEMMA OneWindow == LogInv => EveryLineInOneWindow
<1> SUFFICES ASSUME LogInv, NEW k \in records
             PROVE  Cardinality({w \in windows : k \in window_recs(w)}) = 1
  BY DEF EveryLineInOneWindow
<1> DEFINE last == Max({t(j) : j \in records})
           i == t(k) \div WINDOW_SEC
           own == WINDOW_SEC * i
<1>1. last \in Nat /\ t(k) \in Nat /\ t(k) <= last
  BY LastSecond
<1>2. windows = {WINDOW_SEC * j : j \in 0 .. last \div WINDOW_SEC}
  BY DEF windows
<1>3. \A w : k \in window_recs(w) <=> w <= t(k) /\ t(k) < w + WINDOW_SEC
  BY DEF window_recs
<1> HIDE DEF last
<1>4. own \in windows /\ k \in window_recs(own)
  <2>1. i \in 0 .. last \div WINDOW_SEC
    BY <1>1, SMT DEF WINDOW_SEC
  <2>2. own <= t(k) /\ t(k) < own + WINDOW_SEC
    BY <1>1, SMT DEF WINDOW_SEC
  <2> QED BY <1>2, <1>3, <2>1, <2>2
<1>5. ASSUME NEW w \in windows, k \in window_recs(w) PROVE w = own
  <2>1. PICK j \in 0 .. last \div WINDOW_SEC : w = WINDOW_SEC * j
    BY <1>2
  <2>2. j \in Int /\ w <= t(k) /\ t(k) < w + WINDOW_SEC
    BY <1>1, <1>3, <1>5, <2>1, SMT DEF WINDOW_SEC
  <2> QED BY <1>1, <2>1, <2>2, SMT DEF WINDOW_SEC
<1> HIDE DEF own
<1>6. {w \in windows : k \in window_recs(w)} = {own}
  BY <1>4, <1>5
<1> QED BY <1>6, FS_Singleton

LEMMA UpToDate == LogInv => RowsAreUpToDate
<1> SUFFICES ASSUME LogInv,
                    NEW row \in parse_file, NEW i \in DOMAIN row.latest, NEW k \in records,
                    log[k].node = i, k > row.latest[i]
             PROVE  t(k) >= row.start + WINDOW_SEC
  BY DEF RowsAreUpToDate
<1>1. PICK w \in windows : row = [start |-> w, latest |-> latest(w)]
  BY DEF parse_file
<1> DEFINE S == {j \in window_recs(w) : log[j].node = i}
<1>2. i \in {log[j].node : j \in window_recs(w)} /\ row.latest[i] = Max(S)
  BY <1>1 DEF latest
<1>3. S # {} /\ S \in SUBSET records
  BY <1>2 DEF window_recs
<1>4. records \in SUBSET (0 .. Len(log)) /\ Len(log) \in Nat
  BY DEF records, LogInv
<1>5. Max(S) \in S /\ \A j \in S : j <= Max(S)
  <2>1. S \in SUBSET (0 .. Len(log))
    BY <1>3, <1>4
  <2> HIDE DEF S
  <2> QED BY <1>3, <1>4, <2>1, MaxOfBounded
<1>6. Max(S) \in records /\ w <= t(Max(S)) /\ k \notin S /\ Max(S) <= k
  <2>1. Max(S) \in records /\ w <= t(Max(S))
    BY <1>3, <1>5 DEF window_recs
  <2>2. \A j \in records : j \in Nat
    BY <1>4
  <2> QED BY <1>2, <1>5, <2>1, <2>2
<1>7. t(Max(S)) <= t(k)
  BY <1>6, SecondsInOrder
<1>8. ~(w <= t(k) /\ t(k) < w + WINDOW_SEC)
  BY <1>6 DEF window_recs
<1>9. w \in Nat /\ t(k) \in Nat /\ t(Max(S)) \in Nat
  <2>1. records # {}
    OBVIOUS
  <2>2. Max({t(j) : j \in records}) \in Nat /\ t(k) \in Nat /\ t(Max(S)) \in Nat
    BY <1>6, LastSecond
  <2>3. w \in {WINDOW_SEC * j : j \in 0 .. Max({t(q) : q \in records}) \div WINDOW_SEC}
    BY <2>1 DEF windows
  <2> QED BY <2>2, <2>3, SMT DEF WINDOW_SEC
<1> QED BY <1>1, <1>6, <1>7, <1>8, <1>9, SMT DEF WINDOW_SEC

LEMMA RightWindow == LogInv => WindowIsRight
<1> SUFFICES ASSUME LogInv, NEW k \in records
             PROVE  LET own == log[k].at \div (WINDOW_SEC * 1000000)
                    IN  \/ t(k) \div WINDOW_SEC = own
                        \/ /\ t(k) = (own + 1) * WINDOW_SEC
                           /\ (own + 1) * WINDOW_SEC * 1000000 - log[k].at < 500
  BY DEF WindowIsRight
<1>1. PICK us \in Nat : us = log[k].at /\ us % 1000 # 500 /\ t(k) = (us + 500) \div 1000000
  BY SecondOfLine
<1> QED BY <1>1, SMT DEF WINDOW_SEC
------------------------------------------------------------------------------
(* The steps *)

LEMMA LogSteps ==
  ASSUME LogInv,
         \/ \E i \in Mote, us \in Instants : PrintLine(i, us)
         \/ FixTime
         \/ log' = log
         \/ log' = <<>>
  PROVE  LogInv'
<1>1. ASSUME NEW i \in Mote, NEW us \in Instants, PrintLine(i, us) PROVE LogInv'
  <2> DEFINE line == [node |-> i, at |-> us, fixed |-> FALSE, mm |-> 0, ms |-> 0]
  <2>1. line \in Line /\ line.at = us /\ ~line.fixed
    BY DEF Line
  <2>2. log' = Append(log, line) /\ \A k \in DOMAIN log : log[k].at <= us
    BY <1>1 DEF PrintLine
  <2> HIDE DEF line
  <2>3. /\ log' \in Seq(Line) /\ DOMAIN log' = 1 .. Len(log) + 1 /\ Len(log) \in Nat
        /\ \A k \in DOMAIN log : k \in 1 .. Len(log) /\ log'[k] = log[k]
        /\ log'[Len(log) + 1] = line /\ DOMAIN log = 1 .. Len(log)
    BY <2>1, <2>2 DEF LogInv
  <2>4. \A j, k \in DOMAIN log' : j <= k => log'[j].at <= log'[k].at
    <3> SUFFICES ASSUME NEW j \in DOMAIN log', NEW k \in DOMAIN log', j <= k
                 PROVE  log'[j].at <= log'[k].at
      OBVIOUS
    <3>1. CASE k \in DOMAIN log
      <4>1. j \in DOMAIN log
        BY <2>3, <3>1
      <4> QED BY <2>3, <3>1, <4>1 DEF LogInv
    <3>2. CASE k = Len(log) + 1 /\ j \in DOMAIN log
      BY <2>1, <2>2, <2>3, <3>2
    <3>3. CASE k = Len(log) + 1 /\ j = k
      BY <2>1, <2>3, <3>3, TimesAreNatural
    <3> QED BY <2>3, <3>1, <3>2, <3>3
  <2>5. \A k \in DOMAIN log' : log'[k].fixed => k \in DOMAIN log
    BY <2>1, <2>3
  <2>6. \A k \in DOMAIN log' :
          log'[k].fixed => /\ log'[k].mm = minutes_of(log'[k].at)
                           /\ log'[k].ms = rest_of(log'[k].at)
    BY <2>3, <2>5 DEF LogInv
  <2> QED BY <2>3, <2>4, <2>6 DEF LogInv, minutes_of, rest_of, milliseconds
<1>2. CASE FixTime
  <2>1. log' = [k \in DOMAIN log |-> IF log[k].fixed THEN log[k] ELSE stamp(log[k])]
    BY <1>2 DEF FixTime, convert
  <2>2. /\ DOMAIN log' = DOMAIN log
        /\ \A k \in DOMAIN log : /\ log'[k] \in Line /\ log'[k].at = log[k].at
                                /\ log'[k].mm = minutes_of(log[k].at)
                                /\ log'[k].ms = rest_of(log[k].at)
    BY <2>1, StampType DEF LogInv
  <2>3. log' \in Seq(Line)
    BY <2>1, <2>2 DEF LogInv
  <2> QED BY <2>2, <2>3 DEF LogInv, minutes_of, rest_of, milliseconds
<1>3. CASE log' = log
  BY <1>3 DEF LogInv, minutes_of, rest_of, milliseconds
<1>4. CASE log' = <<>>
  BY <1>4 DEF LogInv, minutes_of, rest_of, milliseconds
<1> QED BY <1>1, <1>2, <1>3, <1>4

LEMMA GenLogInv ==
  ASSUME LogInv, [GenNext]_genVars
  PROVE  LogInv'
<1>1. \/ \E i \in Mote, us \in Instants : PrintLine(i, us)
      \/ FixTime \/ log' = log \/ log' = <<>>
  BY DEF GenNext, genVars, EditConf, Simulate, SimulatorPrints, FixLog, CopyLog, StartAgain
<1> QED BY <1>1, LogSteps

THEOREM LogInvariance == GenSpec => []LogInv
<1>1. GenInit => LogInv
  BY DEF GenInit, LogInv
<1> QED BY <1>1, GenLogInv, PTL DEF GenSpec

(* Every line that has been fixed is in exactly one window, for a log of any *)
(* length whose lines have any times.                                       *)
THEOREM LinesSafe == GenSpec => []EveryLineInOneWindow
BY OneWindow, LogInvariance, PTL

(* No row shows counters that are older than those of a later line of the   *)
(* same node in its window.                                                 *)
THEOREM RowsSafe == GenSpec => []RowsAreUpToDate
BY UpToDate, LogInvariance, PTL

(* A line is in the window of its time, or within half a millisecond of it. *)
THEOREM WindowsSafe == GenSpec => []WindowIsRight
BY RightWindow, LogInvariance, PTL
------------------------------------------------------------------------------
(* The labels *)

Scenario == {"normal", "rank", "version", "flood"}

Conf == Types \cup {Normal}

Op == {Simulation, Fix} \cup {Save(scenario) : scenario \in Scenario}
      \cup {Sed(ft[1], ft[2]) : ft \in (SUBSET Conf) \X Conf}

LEMMA Ops ==
  /\ Simulation \in Op /\ Fix \in Op
  /\ \A scenario \in Scenario : Save(scenario) \in Op
  /\ \A from \in SUBSET Conf, to \in Conf : Sed(from, to) \in Op
<1>1. ASSUME NEW from \in SUBSET Conf, NEW to \in Conf PROVE Sed(from, to) \in Op
  <2> DEFINE ft == <<from, to>>
  <2>1. ft \in (SUBSET Conf) \X Conf /\ ft[1] = from /\ ft[2] = to
    OBVIOUS
  <2> QED BY <2>1, Zenon DEF Op
<1> QED BY <1>1 DEF Op

LEMMA Runs ==
  ASSUME NEW scenario \in Scenario
  PROVE  LET r == run_sim(scenario)
         IN  /\ r \in Seq(Op) /\ Len(r) = 3
             /\ r[1] = Simulation /\ r[2] = Fix /\ r[3] = Save(scenario)
BY Ops DEF run_sim

LEMMA Edits ==
  ASSUME NEW from \in SUBSET Conf, NEW to \in Conf
  PROVE  LET r == <<Sed(from, to)>>
         IN  r \in Seq(Op) /\ Len(r) = 1 /\ r[1] = Sed(from, to)
BY Ops

(* r is what s does, and then q. *)
Joined(r, s, q) ==
  /\ r \in Seq(Op) /\ Len(r) = Len(s) + Len(q)
  /\ \A i \in 1 .. Len(s) + Len(q) : r[i] = IF i <= Len(s) THEN s[i] ELSE q[i - Len(s)]

LEMMA Joining ==
  ASSUME NEW s \in Seq(Op), NEW q \in Seq(Op)
  PROVE  Joined(s \o q, s, q)
<1>1. /\ s \o q \in Seq(Op) /\ Len(s \o q) = Len(s) + Len(q)
      /\ \A i \in 1 .. Len(s) + Len(q) :
           (s \o q)[i] = IF i <= Len(s) THEN s[i] ELSE q[i - Len(s)]
  BY ConcatProperties
<1> QED BY <1>1, Zenon DEF Joined

(* The steps of gen_one_size, by their place in it. *)
OneSizeStep(p) ==
  CASE p = 1 -> Sed(Types, Normal)
    [] p = 5 -> Sed({Normal}, 1)
    [] p = 9 -> Sed({1}, 2)
    [] p = 13 -> Sed({2}, 3)
    [] p = 17 -> Sed({3}, 1)
    [] p \in {2, 6, 10, 14} -> Simulation
    [] p \in {3, 7, 11, 15} -> Fix
    [] p = 4 -> Save("normal")
    [] p = 8 -> Save("rank")
    [] p = 12 -> Save("version")
    [] p = 16 -> Save("flood")

LEMMA OneSize ==
  /\ gen_one_size \in Seq(Op) /\ Len(gen_one_size) = 17
  /\ \A p \in 1 .. 17 : gen_one_size[p] = OneSizeStep(p)
<1> DEFINE e1 == <<Sed(Types, Normal)>>     r4 == run_sim("normal")
           e5 == <<Sed({Normal}, 1)>>       r8 == run_sim("rank")
           e9 == <<Sed({1}, 2)>>            r12 == run_sim("version")
           e13 == <<Sed({2}, 3)>>           r16 == run_sim("flood")
           e17 == <<Sed({3}, 1)>>
           s4 == e1 \o r4                   s5 == s4 \o e5
           s8 == s5 \o r8                   s9 == s8 \o e9
           s12 == s9 \o r12                 s13 == s12 \o e13
           s16 == s13 \o r16                s17 == s16 \o e17
<1>1. /\ "normal" \in Scenario /\ "rank" \in Scenario
      /\ "version" \in Scenario /\ "flood" \in Scenario
      /\ Types \in SUBSET Conf /\ {Normal} \in SUBSET Conf /\ Normal \in Conf
      /\ 1 \in Conf /\ 2 \in Conf /\ 3 \in Conf
      /\ {1} \in SUBSET Conf /\ {2} \in SUBSET Conf /\ {3} \in SUBSET Conf
  BY DEF Scenario, Conf, Types, Normal
<1>2. /\ e1 \in Seq(Op) /\ Len(e1) = 1 /\ e1[1] = Sed(Types, Normal)
      /\ e5 \in Seq(Op) /\ Len(e5) = 1 /\ e5[1] = Sed({Normal}, 1)
      /\ e9 \in Seq(Op) /\ Len(e9) = 1 /\ e9[1] = Sed({1}, 2)
      /\ e13 \in Seq(Op) /\ Len(e13) = 1 /\ e13[1] = Sed({2}, 3)
      /\ e17 \in Seq(Op) /\ Len(e17) = 1 /\ e17[1] = Sed({3}, 1)
  BY <1>1, Ops
<1>3. /\ r4 \in Seq(Op) /\ Len(r4) = 3 /\ r8 \in Seq(Op) /\ Len(r8) = 3
      /\ r12 \in Seq(Op) /\ Len(r12) = 3 /\ r16 \in Seq(Op) /\ Len(r16) = 3
      /\ r4[1] = Simulation /\ r4[2] = Fix /\ r4[3] = Save("normal")
      /\ r8[1] = Simulation /\ r8[2] = Fix /\ r8[3] = Save("rank")
      /\ r12[1] = Simulation /\ r12[2] = Fix /\ r12[3] = Save("version")
      /\ r16[1] = Simulation /\ r16[2] = Fix /\ r16[3] = Save("flood")
  BY <1>1, Runs
<1>4. gen_one_size = s17
  BY DEF gen_one_size
<1> HIDE DEF e1, r4, e5, r8, e9, r12, e13, r16, e17
<1>5. /\ s4 \in Seq(Op) /\ Len(s4) = 4 /\ s4[1] = e1[1]
      /\ s4[2] = r4[1] /\ s4[3] = r4[2] /\ s4[4] = r4[3]
  <2>1. Joined(s4, e1, r4)
    BY <1>2, <1>3, Joining
  <2> HIDE DEF s4
  <2> QED BY <1>2, <1>3, <2>1 DEF Joined
<1> HIDE DEF s4
<1>6. s5 \in Seq(Op) /\ Len(s5) = 5 /\ s5[5] = e5[1] /\ \A i \in 1 .. 4 : s5[i] = s4[i]
  <2>1. Joined(s5, s4, e5)
    BY <1>2, <1>5, Joining
  <2> HIDE DEF s5
  <2> QED BY <1>2, <1>5, <2>1 DEF Joined
<1> HIDE DEF s5
<1>8. /\ s8 \in Seq(Op) /\ Len(s8) = 8 /\ \A i \in 1 .. 5 : s8[i] = s5[i]
      /\ s8[6] = r8[1] /\ s8[7] = r8[2] /\ s8[8] = r8[3]
  <2>1. Joined(s8, s5, r8)
    BY <1>3, <1>6, Joining
  <2> HIDE DEF s8
  <2> QED BY <1>3, <1>6, <2>1 DEF Joined
<1> HIDE DEF s8
<1>9. s9 \in Seq(Op) /\ Len(s9) = 9 /\ s9[9] = e9[1] /\ \A i \in 1 .. 8 : s9[i] = s8[i]
  <2>1. Joined(s9, s8, e9)
    BY <1>2, <1>8, Joining
  <2> HIDE DEF s9
  <2> QED BY <1>2, <1>8, <2>1 DEF Joined
<1> HIDE DEF s9
<1>12. /\ s12 \in Seq(Op) /\ Len(s12) = 12 /\ \A i \in 1 .. 9 : s12[i] = s9[i]
       /\ s12[10] = r12[1] /\ s12[11] = r12[2] /\ s12[12] = r12[3]
  <2>1. Joined(s12, s9, r12)
    BY <1>3, <1>9, Joining
  <2> HIDE DEF s12
  <2> QED BY <1>3, <1>9, <2>1 DEF Joined
<1> HIDE DEF s12
<1>13. /\ s13 \in Seq(Op) /\ Len(s13) = 13 /\ s13[13] = e13[1]
       /\ \A i \in 1 .. 12 : s13[i] = s12[i]
  <2>1. Joined(s13, s12, e13)
    BY <1>2, <1>12, Joining
  <2> HIDE DEF s13
  <2> QED BY <1>2, <1>12, <2>1 DEF Joined
<1> HIDE DEF s13
<1>16. /\ s16 \in Seq(Op) /\ Len(s16) = 16 /\ \A i \in 1 .. 13 : s16[i] = s13[i]
       /\ s16[14] = r16[1] /\ s16[15] = r16[2] /\ s16[16] = r16[3]
  <2>1. Joined(s16, s13, r16)
    BY <1>3, <1>13, Joining
  <2> HIDE DEF s16
  <2> QED BY <1>3, <1>13, <2>1 DEF Joined
<1> HIDE DEF s16
<1>17. /\ s17 \in Seq(Op) /\ Len(s17) = 17 /\ s17[17] = e17[1]
       /\ \A i \in 1 .. 16 : s17[i] = s16[i]
  <2>1. Joined(s17, s16, e17)
    BY <1>2, <1>16, Joining
  <2> HIDE DEF s17
  <2> QED BY <1>2, <1>16, <2>1 DEF Joined
<1> HIDE DEF s17
<1> SUFFICES ASSUME NEW p \in 1 .. 17 PROVE s17[p] = OneSizeStep(p)
  BY <1>4, <1>17
<1>20. /\ p \in 1 .. 4 => s17[p] = s4[p]
       /\ p \in 5 .. 8 => s17[p] = s8[p]
       /\ p \in 9 .. 12 => s17[p] = s12[p]
       /\ p \in 13 .. 16 => s17[p] = s16[p]
  BY <1>6, <1>8, <1>9, <1>12, <1>13, <1>16, <1>17
<1>21. s8[5] = e5[1] /\ s12[9] = e9[1] /\ s16[13] = e13[1]
  BY <1>6, <1>8, <1>9, <1>12, <1>13, <1>16
<1>22. CASE p \in 1 .. 4
  BY <1>2, <1>3, <1>5, <1>20, <1>22 DEF OneSizeStep
<1>23. CASE p \in 5 .. 8
  BY <1>2, <1>3, <1>8, <1>20, <1>21, <1>23 DEF OneSizeStep
<1>24. CASE p \in 9 .. 12
  BY <1>2, <1>3, <1>12, <1>20, <1>21, <1>24 DEF OneSizeStep
<1>25. CASE p \in 13 .. 17
  BY <1>2, <1>3, <1>16, <1>17, <1>20, <1>21, <1>25 DEF OneSizeStep
<1> QED BY <1>22, <1>23, <1>24, <1>25
(* The place in gen_one_size that a step of gen_size has. *)
Place(p) == IF p <= 17 THEN p ELSE p - 17

LEMMA SizeSteps ==
  ASSUME Program = "gen_size"
  PROVE  Len(Script) = 34 /\ \A p \in 1 .. 34 : Script[p] = OneSizeStep(Place(p))
<1>1. Joined(gen_one_size \o gen_one_size, gen_one_size, gen_one_size)
  BY OneSize, Joining
<1>2. Joined(Script, gen_one_size, gen_one_size)
  BY <1>1, Zenon DEF Script, gen_size
<1>3. /\ Len(Script) = 17 + 17
      /\ \A i \in 1 .. 17 + 17 :
           Script[i] = IF i <= 17 THEN gen_one_size[i] ELSE gen_one_size[i - 17]
  BY <1>2, OneSize DEF Joined
<1> QED BY <1>3, OneSize DEF Place

(* What a step does is told by its place. *)
LEMMA StepsByPlace ==
  ASSUME NEW p \in 1 .. 17
  PROVE  /\ OneSizeStep(p).op = "simulate" <=> p \in {2, 6, 10, 14}
         /\ OneSizeStep(p).op = "fix" <=> p \in {3, 7, 11, 15}
         /\ OneSizeStep(p).op = "save" <=> p \in {4, 8, 12, 16}
         /\ OneSizeStep(p).op = "sed" <=> p \in {1, 5, 9, 13, 17}
<1>1. /\ \A from, to : Sed(from, to).op = "sed"
      /\ Simulation.op = "simulate" /\ Fix.op = "fix"
      /\ \A scenario : Save(scenario).op = "save"
  BY DEF Sed, Simulation, Fix, Save
<1> QED BY <1>1 DEF OneSizeStep

(* The attack type in project-conf.h when the script is at a place. *)
conf_at(p) ==
  CASE p \in 2 .. 5 -> Normal
    [] p \in 6 .. 9 -> 1
    [] p \in 10 .. 13 -> 2
    [] p \in 14 .. 17 -> 3

(* After its first sed the script knows what project-conf.h says, and from a *)
(* simulation until its log is copied, what was simulated.                  *)
LabelInv ==
  /\ pc \in 1 .. 35 /\ conf \in Conf
  /\ Place(pc) \in 2 .. 17 => conf = conf_at(Place(pc))
  /\ Place(pc) \in {3, 4, 7, 8, 11, 12, 15, 16} => simulated = conf
  /\ LabelsMatch

LEMMA GenLabelInv ==
  ASSUME Program = "gen_size", LabelInv, [GenNext]_genVars
  PROVE  LabelInv'
<1> DEFINE p == Place(pc)
<1>1. /\ pc \in 1 .. 35 /\ conf \in Conf
      /\ p \in 2 .. 17 => conf = conf_at(p)
      /\ p \in {3, 4, 7, 8, 11, 12, 15, 16} => simulated = conf
      /\ LabelsMatch
  BY DEF LabelInv
<1>2. Normal \in Conf /\ 1 \in Conf /\ 2 \in Conf /\ 3 \in Conf /\ NoLog \notin Conf
  BY DEF Conf, Types, Normal, NoLog
<1>3. \A op : At(op) => /\ pc \in 1 .. 34 /\ p \in 1 .. 17 /\ Script[pc] = OneSizeStep(p)
                       /\ OneSizeStep(p).op = op
                       /\ Place(pc + 1) = IF pc = 17 THEN 1 ELSE p + 1
  <2> SUFFICES ASSUME NEW op, At(op)
               PROVE  /\ pc \in 1 .. 34 /\ p \in 1 .. 17 /\ Script[pc] = OneSizeStep(p)
                      /\ OneSizeStep(p).op = op
                      /\ Place(pc + 1) = IF pc = 17 THEN 1 ELSE p + 1
    OBVIOUS
  <2>1. pc <= Len(Script) /\ Script[pc].op = op
    BY DEF At
  <2>2. pc \in 1 .. 34
    <3>1. Len(Script) = 34
      BY SizeSteps
    <3>2. pc \in 1 .. 35
      BY <1>1
    <3> QED BY <2>1, <3>1, <3>2
  <2>3. Script[pc] = OneSizeStep(p)
    BY <2>2, SizeSteps
  <2>4. p \in 1 .. 17 /\ Place(pc + 1) = IF pc = 17 THEN 1 ELSE p + 1
    BY <2>2 DEF Place
  <2> QED BY <2>1, <2>2, <2>3, <2>4
<1>4. CASE EditConf
  <2>1. /\ p \in {1, 5, 9, 13, 17} /\ pc \in 1 .. 34 /\ Script[pc] = OneSizeStep(p)
        /\ Place(pc + 1) = IF pc = 17 THEN 1 ELSE p + 1
    BY <1>3, <1>4, StepsByPlace DEF EditConf
  <2>2. /\ pc' = pc + 1 /\ simulated' = simulated /\ logs' = logs
        /\ conf' = IF conf \in OneSizeStep(p).from THEN OneSizeStep(p).to ELSE conf
    BY <1>4, <2>1 DEF EditConf
  <2>3. LabelsMatch'
    BY <1>1, <2>2 DEF LabelsMatch
  <2> HIDE DEF p
  <2>4. /\ p = 1 => OneSizeStep(p) = Sed(Types, Normal)
        /\ p = 5 => OneSizeStep(p) = Sed({Normal}, 1)
        /\ p = 9 => OneSizeStep(p) = Sed({1}, 2)
        /\ p = 13 => OneSizeStep(p) = Sed({2}, 3)
        /\ p = 17 => OneSizeStep(p) = Sed({3}, 1)
    BY DEF OneSizeStep
  <2>5. \A from, to : Sed(from, to).from = from /\ Sed(from, to).to = to
    BY DEF Sed
  <2>6. /\ p = 1 => conf' = Normal
        /\ p = 5 => conf' = 1
        /\ p = 9 => conf' = 2
        /\ p = 13 => conf' = 3
        /\ p = 17 => conf' = 1
    BY <1>1, <2>2, <2>4, <2>5 DEF Conf, conf_at
  <2>7. conf' \in Conf /\ pc' \in 1 .. 35
    BY <1>2, <2>1, <2>2, <2>6
  <2>8. Place(pc') = (IF pc = 17 THEN 1 ELSE p + 1) /\ (p = 17 => pc \in {17, 34})
    BY <2>1, <2>2 DEF p, Place
  <2>9. Place(pc') \in 2 .. 17 => conf' = conf_at(Place(pc'))
    BY <2>1, <2>6, <2>8 DEF conf_at
  <2>10. Place(pc') \notin {3, 4, 7, 8, 11, 12, 15, 16}
    BY <2>1, <2>8
  <2> QED BY <2>3, <2>7, <2>9, <2>10 DEF LabelInv, Place, conf_at
<1>5. CASE Simulate
  <2>1. /\ p \in {2, 6, 10, 14} /\ pc \in 1 .. 34 /\ pc # 17 /\ Place(pc + 1) = p + 1
    BY <1>3, <1>5, StepsByPlace DEF Simulate, Place
  <2>2. pc' = pc + 1 /\ conf' = conf /\ simulated' = conf /\ logs' = logs
    BY <1>5 DEF Simulate
  <2>3. LabelsMatch'
    BY <1>1, <2>2 DEF LabelsMatch
  <2> QED BY <1>1, <2>1, <2>2, <2>3 DEF LabelInv, Place, conf_at
<1>6. CASE FixLog
  <2>1. /\ p \in {3, 7, 11, 15} /\ pc \in 1 .. 34 /\ pc # 17 /\ Place(pc + 1) = p + 1
    BY <1>3, <1>6, StepsByPlace DEF FixLog, Place
  <2>2. pc' = pc + 1 /\ conf' = conf /\ simulated' = simulated /\ logs' = logs
    BY <1>6 DEF FixLog
  <2>3. LabelsMatch'
    BY <1>1, <2>2 DEF LabelsMatch
  <2> QED BY <1>1, <2>1, <2>2, <2>3 DEF LabelInv, Place, conf_at
<1>7. CASE CopyLog
  <2>1. /\ p \in {4, 8, 12, 16} /\ pc \in 1 .. 34 /\ pc # 17 /\ Place(pc + 1) = p + 1
        /\ Script[pc] = OneSizeStep(p)
    BY <1>3, <1>7, StepsByPlace DEF CopyLog, Place
  <2>2. /\ pc' = pc + 1 /\ conf' = conf /\ simulated' = simulated
        /\ logs' = IF simulated = NoLog THEN logs
                   ELSE logs \cup {[scenario |-> Script[pc].scenario, attack |-> simulated]}
    BY <1>7 DEF CopyLog
  <2>3. simulated = attack_of(Script[pc].scenario)
    <3>1. simulated = conf_at(p)
      BY <1>1, <2>1
    <3>2. \A scenario : Save(scenario).scenario = scenario
      BY DEF Save
    <3>3. Script[pc] = CASE p = 4 -> Save("normal") [] p = 8 -> Save("rank")
                         [] p = 12 -> Save("version") [] p = 16 -> Save("flood")
      BY <2>1 DEF OneSizeStep
    <3> HIDE DEF p
    <3> QED BY <2>1, <3>1, <3>2, <3>3 DEF conf_at, attack_of
  <2>4. LabelsMatch'
    BY <1>1, <2>2, <2>3 DEF LabelsMatch
  <2> QED BY <1>1, <2>1, <2>2, <2>4 DEF LabelInv, Place, conf_at
<1>8. CASE StartAgain
  BY <1>1, <1>8 DEF StartAgain, LabelInv, LabelsMatch, Place, conf_at
<1>9. CASE UNCHANGED <<pc, conf, simulated, logs>>
  BY <1>9 DEF LabelInv, LabelsMatch, Place, conf_at
<1> QED BY <1>4, <1>5, <1>6, <1>7, <1>8, <1>9 DEF GenNext, genVars, SimulatorPrints

(* Every log that gen_size_data.sh keeps is of the attack it is labelled     *)
(* with, whatever project-conf.h said at first and wherever an earlier run   *)
(* was interrupted.                                                         *)
THEOREM LabelsSafe ==
  ASSUME Program = "gen_size"
  PROVE  GenSpec => []LabelsMatch
<1>1. GenInit => LabelInv
  BY GenerationAssumption DEF GenInit, LabelInv, LabelsMatch, Place, Conf
<1>2. LabelInv /\ [GenNext]_genVars => LabelInv'
  BY GenLabelInv
<1>3. LabelInv => LabelsMatch
  BY DEF LabelInv
<1> QED BY <1>1, <1>2, <1>3, PTL DEF GenSpec
=============================================================================
