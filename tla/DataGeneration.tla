---------------------------- MODULE DataGeneration ----------------------------
(***************************************************************************)
(* The scripts that generate the labelled logs, gen_more_data.sh and       *)
(* gen_size_data.sh: each edits the attack type in project-conf.h with     *)
(* sed, simulates, converts the simulator's log (FeatureLog) and copies it *)
(* to a file named for the scenario.  Both may be interrupted at any point *)
(* and started again; what they left in project-conf.h and in the log of   *)
(* the simulator stays.                                                    *)
(*                                                                         *)
(* External: the simulator builds what project-conf.h says before it runs  *)
(* (the commands of the .csc files), so build() of the scripts, whose      *)
(* result they ignore, decides nothing here.  A simulation that fails and  *)
(* leaves the log of the one before it in place is left out.               *)
(***************************************************************************)
EXTENDS FeatureLog

CONSTANTS
  Program,        \* the script that is run: gen_more or gen_size
  FirstTypes      \* what RPL_ATTACK_TYPE may be in project-conf.h before the first run

Types == 0 .. 9             \* #define RPL_ATTACK_TYPE with one digit

Normal == 10                \* the comment NORMAL in place of the #define

NoLog == 11                 \* there is no COOJA.testlog yet

ASSUME GenerationAssumption ==
  Program \in {"gen_more", "gen_size"} /\ FirstTypes \subseteq Types \cup {Normal}

VARIABLES
  pc,             \* the next step of the script
  conf,           \* the attack type in project-conf.h
  simulated,      \* the attack of the simulation that COOJA.testlog is from
  logs            \* the labelled logs: scenario and attack of each

genVars == <<log, pc, conf, simulated, logs>>
------------------------------------------------------------------------------
(* Steps of the scripts *)

Sed(from, to)  == [op |-> "sed", from |-> from, to |-> to]
Simulation     == [op |-> "simulate"]
Fix            == [op |-> "fix"]
Save(scenario) == [op |-> "save", scenario |-> scenario]

(* A scenario is run with several seeds, one of them here. *)
run_sim(scenario) == <<Simulation, Fix, Save(scenario)>>

gen_more ==
  <<Sed({9}, Normal)>> \o run_sim("normal") \o <<Sed({Normal}, 1)>>
  \o <<Sed({1}, 1)>> \o run_sim("rank")
  \o <<Sed({1}, 2)>> \o run_sim("version")
  \o <<Sed({2}, 3)>> \o run_sim("flood")

(* Faulty: replaces one attack type only, as gen_more does. *)
gen_one_size_from_9 ==
  <<Sed({9}, Normal)>> \o run_sim("normal") \o <<Sed({Normal}, 1)>>
  \o run_sim("rank")
  \o <<Sed({1}, 2)>> \o run_sim("version")
  \o <<Sed({2}, 3)>> \o run_sim("flood") \o <<Sed({3}, 1)>>

gen_one_size ==
  <<Sed(Types, Normal)>> \o run_sim("normal") \o <<Sed({Normal}, 1)>>
  \o run_sim("rank")
  \o <<Sed({1}, 2)>> \o run_sim("version")
  \o <<Sed({2}, 3)>> \o run_sim("flood") \o <<Sed({3}, 1)>>

(* For 20 nodes and for 40. *)
gen_size == gen_one_size \o gen_one_size

Script == IF Program = "gen_more" THEN gen_more ELSE gen_size
------------------------------------------------------------------------------
GenInit ==
  log = <<>> /\ pc = 1 /\ conf \in FirstTypes /\ simulated = NoLog /\ logs = {}

At(op) == pc <= Len(Script) /\ Script[pc].op = op

(* sed changes nothing when its pattern does not occur. *)
EditConf ==
  /\ At("sed") /\ pc' = pc + 1
  /\ conf' = IF conf \in Script[pc].from THEN Script[pc].to ELSE conf
  /\ UNCHANGED <<log, simulated, logs>>

(* A simulation starts a log of its own, which it writes until the next step. *)
Simulate ==
  /\ At("simulate") /\ pc' = pc + 1
  /\ log' = <<>> /\ simulated' = conf
  /\ UNCHANGED <<conf, logs>>

SimulatorPrints(i, us) == At("fix") /\ PrintLine(i, us) /\ UNCHANGED <<pc, conf, simulated, logs>>

FixLog == At("fix") /\ pc' = pc + 1 /\ FixTime /\ UNCHANGED <<conf, simulated, logs>>

(* cp fails when there is no log. *)
CopyLog ==
  /\ At("save") /\ pc' = pc + 1
  /\ logs' = IF simulated = NoLog THEN logs
             ELSE logs \cup {[scenario |-> Script[pc].scenario, attack |-> simulated]}
  /\ UNCHANGED <<log, conf, simulated>>

(* The script is started again, after its end or an interruption. *)
StartAgain == pc' = 1 /\ UNCHANGED <<log, conf, simulated, logs>>

GenNext ==
  \/ EditConf \/ Simulate \/ FixLog \/ CopyLog \/ StartAgain
  \/ \E i \in Mote, us \in Instants : SimulatorPrints(i, us)

GenSpec == GenInit /\ [][GenNext]_genVars
------------------------------------------------------------------------------
(* The attack whose log a scenario's file should hold; the labels 0 to 3 of  *)
(* the data set follow the file names.                                       *)
attack_of(scenario) ==
  CASE scenario = "normal" -> Normal
    [] scenario = "rank" -> 1
    [] scenario = "version" -> 2
    [] scenario = "flood" -> 3

(* Every log is kept under the scenario it was simulated with, whatever the  *)
(* attack type was at first and wherever an earlier run was interrupted:     *)
(* "per-scenario Cooja FEATURES logs" (README.md).                           *)
LabelsMatch == \A saved \in logs : saved.attack = attack_of(saved.scenario)
=============================================================================
