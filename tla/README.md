# A verification of the RPL implementation and its data pipeline

This directory holds TLA+ models of the RPL routing code of this repository, the
TLC configurations that check them, and theorems about them checked by TLAPS.
The code is `src/contiki-modifications/rpl-dag.c` and `rpl-icmp6.c`, the two
files of Contiki-NG's RPL Lite that the repository changes to inject attacks,
together with the application, the scripts and the programs that turn
simulations into a data set.

## 1. Inventory

| part | state | operations | interacts with |
|---|---|---|---|
| DAG state (`rpl-dag.c`) | `curr_instance` (membership, version, rank, parent, DAG state, lifetime, DAO counters), `rpl_neighbors` | join, leave, poison, local and global repair, become root, state update, the processing of each message | called by the timers, by message input and by the application; calls the timers, the neighbor table, the objective function and message output |
| Routes at the root (`rpl_process_dao`, the acknowledgement timer) | the source-routing table, the acknowledgement owed | enter, withdraw, acknowledge, expire | DAOs of every node, acknowledgements back |
| Versions across the network | the version at every node and in every DIO on its way | global repair, adoption of newer versions, reboots | DIOs between neighbors |
| Messages (`rpl-icmp6.c`) | none but counters | `*_input` parse and hand over; `*_output` bring the state up to date and send | calls back into `rpl_dag_update_state` before every message |
| Attacks (`RPL_ATTACK_TYPE`, in both files and `udp-client.c`) | none | decreased rank (1), inflated version (2), floods (3, 8, 9), worst parent (4), sinkhole (7) | change parent, rank, version or the number of messages of the nodes in `RPL_ATTACKER_ID_MIN..MAX` |
| Timers, neighbor table, objective function | armed timers; rank and DTSN of each neighbor; link estimates | arm, disarm, expire; add, remove; choose a parent | Contiki-NG, not in this repository |
| UDP client (`udp-client.c`) | message counters, last rank | periodic send, FEATURES line, floods | reads `curr_instance`, asks whether the node is reachable |
| UDP server (`udp-server.c`) | none | starts the root, echoes | `root_start` |
| Data generation (`gen_*.sh`) | `project-conf.h`, the log, `raw-logs/` | set attack, build, simulate, copy | the simulator |
| Feature extraction (`feature-extraction/`) | windows of counters per node | parse, window, aggregate, write | logs to data set |
| Machine learning (`machine-learning/`) | none | train, score | data set |

What is hard in this code:

* *Handlers call each other.* Every message output updates the state first, and
  the update may switch the parent, change the DAG state and arm or disarm
  timers in the middle of a handler that goes on with what it read before.
* *Three places arm the leave timer, one disarms it*; whether a node stays in the
  DAG without a parent depends on the order of repairs, updates and timers.
* *Messages are lost, delayed and reordered*: DIOs of old and new versions,
  acknowledgements of earlier DAOs, data packets with stale ranks.
* *Nodes and the root reboot*, and the network keeps what it knew.
* *Counters wrap* (version, DTSN, DAO sequence number) and are only ordered
  within a window.
* *Initialisation may fail half way* (unsupported mode of operation or objective
  function, full tables).

What makes each part correct:

* DAG state: a node has a parent exactly when it counts as joined; without one it
  is about to leave; the parent is in the table; ranks and versions do not run
  away; what the root and the neighbors believe is corrected in time.
* Routes at the root: the root knows the parent of every node it can reach, and
  learns it again after losing it.
* Versions: members only move to newer versions that the root issued, and all end
  up on one.
* Messages: what is sent is up to date.
* UDP client: counters agree with what happened; FEATURES lines are regular.
* Data generation: a log carries the label of the attack it was built with.
* Feature extraction: windows are disjoint, ordered, and attributed to the right
  node and label.

## 2. Modules

| module | contents |
|---|---|
| `Lollipop` | sequence counters (external, RFC 6550 7.2): `Increment`, `Greater` |
| `RplDag` | the functional core: one operator per C function |
| `RplNode` | one node in an arbitrary network: state machine, properties |
| `RplDao` | that node, the root's routing table, and the messages between them |
| `VersionSpread` | abstract specification: what versions do |
| `RplNetwork` | a root and members that exchange DIOs; implements `VersionSpread` |
| `UdpClient` | counters, FEATURES lines, floods and data packets over `RplNode` |
| `FeatureLog` | stamps of a log and the windows cut from it |
| `DataGeneration` | the scripts that simulate and label, over `FeatureLog` |
| `MCRplNode`, `MCRplDao`, `MCRplNetwork`, `MCUdpClient`, `MCDataGeneration` | the inputs of the instances TLC checks |
| `RplDagProofs` | the order of counters at every value; what each operator of `RplDag` does to the first invariant |
| `RplDagUpkeep` | the same for the second, and for the version |
| `RplDagCounters` | the same for the third; what each operator leaves to be told to the root and to the neighbors |
| `RplNodeProofs` | the inductive invariants and the theorems of `RplNode` |
| `RplDaoProofs` | `RplDao` implements `RplNode` |
| `RplNetworkProofs` | `RplNetwork` implements `VersionSpread`; the root is ahead of its members |
| `UdpClientProofs` | the counters of the client, and its FEATURES line behind a flood of any length |
| `DataGenerationProofs` | windows and rows of logs of any length; the labels |

### RplDag: a function of the code is an operator

The state of a node is a record (`NodeState`): the fields of `curr_instance` and
`curr_instance.dag` that decide anything, the neighbor table (`nbrs`, `nbr_rank`,
`nbr_dtsn`), which timers are armed, and the messages sent by the handler that
runs. A C function `f` is an operator `f(n, ...)` that gives the state after the
call. `rpl_dag_update_state` depends on link estimates that the code here cannot
see, so its value, and that of every function that calls it, is the *set* of
states it may end in: every assignment of link costs, and among the acceptable
neighbors any choice, since hysteresis and freshness are the objective
function's business.

Kept: every state change, guard, early return and the order of calls inside a
handler. `rpl_icmp6_dao_output` reads the parent before it updates the state,
`rpl_dag_leave` sends before it clears, `global_repair_non_root` ignores the
result of `process_dio_init_dag`, `process_dio_from_current_dag` repairs before it
finds out whether the sender fits into the table. Abstracted: byte layout and
logging; prefix, metric container, `better_parent_since`, `dio_counter` (whether it
suppresses a DIO is a choice), `dao_last_acked_seqno` (nothing reads it); leaf-only
mode is off, as in this build.

Operators marked *external* stand for Contiki-NG functions. What they promise,
read off their use in `src/`:

* a timer is armed or not, and an armed timer may expire at any later time; the
  DAO timer is one timer, armed for a new DAO, a retransmission or a refresh, and
  arming it for one replaces the others;
* resetting the DIO timer has an effect only on a node that may advertise;
* `rpl_neighbor_set_preferred_parent` notes a change in
  `unprocessed_parent_switch`; `rpl_neighbor_remove_all` also drops the parent;
* the objective function only returns neighbors whose rank is at least the
  root's, whose path has a finite rank, and that do not exceed
  `lowest_rank + max_rankinc`; without a parent it may return none although there
  is a candidate.

Operators marked *faulty* are plausible mistakes in the operator that follows
each. No specification uses them; `PROJECT.json` pairs each with the property that
notices when it takes the place of the original.

### RplNode: a handler is an action

Contiki is cooperative: a handler runs to its end before the next one starts.
Each action picks one of the states a handler may end in (`Becomes`).

| action | code |
|---|---|
| `ReceiveDio`, `ReceiveDis`, `ReceiveDaoAck`, `ReceiveHbh` | `dio_input`, `dis_input`, `dao_ack_input`, `rpl_process_hbh` |
| `StateUpdateTimer`, `LeaveTimer`, `DioTimer`, `UnicastDioTimer`, `DisTimer`, `NewDaoTimer`, `ResendDaoTimer`, `Periodic` | the timers of `rpl-timers.c` and the functions here that they call |
| `RootStart` | `udp_server_process` -> `rpl_dag_init_root` |
| `PoisonAndLeave`, `LocalRepair`, `GlobalRepair`, `RefreshRoutes` | the public functions of `rpl-dag.c` |
| `Reboot` | `rpl_dag_init` |

The network is the most general one: any DIO of the set `Dios`, from any neighbor,
at any time, any number of times, so loss, delay, duplication and reordering are
all included. Two inputs are restricted, to what can reach a node: a DIO of its
*own* DAG is only heard while it is the root (at boot `root_start` runs before
the network is up; `rpl_process_dio` would let a root that was asked to poison and
has left join its own DAG again, but nothing under `src/` asks a root to), and no
acknowledgement carries `SeqnoInit`: a DAO's first
number follows it (only the DAO flood, type 8, sends without incrementing).
`RplDao` shows that a real root respects the second restriction.

`told`, `heard` and `floor` are observers: they record what the root and the
neighbors were told and the lowest rank of a membership, and no guard reads them.

### RplDao: a node, the root's table and what is between them

`RplDao` extends `RplNode` with the DAOs and acknowledgements on their way, the
root's entry for the node (`link`), and the acknowledgement the root owes
(`owed`; the code has one timer and one pending number). Messages are sets, so
they are lost (a handler's DAO is kept or not), delayed and reordered. `NodeStep`
has one action per handler of `RplNode`, `RootStep` those of the root:

| action | code |
|---|---|
| `DaoArrives` (`rpl_process_dao`) | `dao_input`, `rpl_process_dao` |
| `AckTimer`, `AckArrives` | `rpl_icmp6_dao_ack_output`, `dao_ack_input` with `rpl_process_dao_ack` |
| `RouteExpires`, `RootRestarts` | external: `uip-sr.c`; a reboot of `udp-server.c` |

`NodeIsRplNode` is the refinement: hiding the network, `RplDao` implements
`RplNode`. It is what makes the theorems about the node hold in this composition.

### RplNetwork and VersionSpread: versions

`VersionSpread` is an abstract specification without ranks, parents or timers: a
root issues versions, overtakes a version it hears, or forgets its own; members
join, adopt a *newer* version, or leave; messages carry versions that somebody is
on. `RplNetwork` is the composition of one `RplDag` record per node: handlers of
`rpl-dag.c` and `rpl-icmp6.c` at every node, DIOs in `dios` with sender, receiver
and content (a multicast reaches any subset of the neighbors, a unicast its receiver
or nobody), full neighbor tables, reboots of members and of the root. `VersionsSpread` is the refinement mapping (`issued` is the
root's version, a member in no DAG is `Outside`, `air` the versions in `dios`).
What decides only *when* a DIO or DIS is sent is dropped between handlers (`rest`): a
node that may advertise may do so at any time (`Multicast`), and any member may answer
a unicast DIS or a packet that was on a loop at any time (`Unicast`). Of the number of
the last DAO, `rest` keeps whether there was one: no guard here asks for more.

### UdpClient: the application

`UdpClient` puts `udp-client.c` on top of `RplNode`. `Period` is the body of the
`while(1)` loop: the flood (each message brings the state up to date), the
question whether the node is reachable, `print_features` and the request, or the
missed period. The server's echo and the replies are `Echo` and `ReceiveReply`;
`RoutingStep` is any handler of `RplNode` in between, `ClientReboot` loses the
counters but not what is on its way. Whether a poisoning node counts as reachable
is not visible here (external), so both are possible. Energy and message
statistics are left out: nothing reads them back.

### DataGeneration and FeatureLog: from simulations to rows

`DataGeneration` runs `gen_size_data.sh` or `gen_more_data.sh` step by step over
`project-conf.h`, the simulator's log and the labelled logs. Scripts are
sequences of steps (`sed`, simulate, fix, save) taken from the files; `StartAgain`
interrupts one anywhere and starts it again. `FeatureLog` is the log itself:
`stamp` is the arithmetic of `fix_time.py` (minutes taken off first, the rest
rounded to milliseconds when formatted, lines that are fixed skipped), `windows`,
`window_recs` and `latest` are those of `make_network_dataset.py`, in whole seconds.
The statistics of a row are a library's and left out; of the seeds of a scenario
there is one; a simulation that fails and leaves the old log is left out (the
script would then copy the old log under the new label, by its text).

## 3. What the runs show

Each property is stated in words above its definition.

| run | properties | instance |
|---|---|---|
| `membership` | `TypeOK`, `LeaveTimerMeansNoParent`, `OrphanWillLeave`, `JoinedMeansParent`, `ParentSwitchIsReported`, `NoRouteInExpiredDag`, `LeftMeansForgotten`, `SignificantRankIsAdvertised`, `RankAboveParent`, `JoinedIsAnnouncing` | node `n`, root `r`, neighbor `b`; DIOs of rank 1 (root), 2 and 5 (infinite), two versions; lifetime of one period; threshold 0; ACKs and NACKs; full tables |
| `repair` | `RankIncreaseIsBounded`, `RootStaysRoot`, `VersionOnlyAdvances` | one neighbor; `n` may be the root; a counter of six values (window 2), every version; ranks 0 to 3; lifetime of two periods |
| `liveness` | `OrphanIsResolved`, `SwitchIsReported` | a worst-parent attacker, one version; two possible parents; acknowledgements of any DAO, positive and negative; 48,072 states |
| `exchange` | `DaoTypeOK`, `NodeIsRplNode`, `RouteIsRefreshed` | `n` and the root; one DAO and one acknowledgement on their way; a root with and without room; a counter of three values; 366,560 states |
| `versions` | `NetTypeOK`, `NobodyAheadOfRoot`, `VersionsSpread`, `VersionsConverge` | root and one member; one DIO on its way; two repairs and one reboot of the root; a counter of six values, which the root takes from the stick to 0; 225,268 states |
| `counters` | `ClientTypeOK`, `RepliesAnswerRequests`, `CountedChangesHappened`, `FeaturesOfMember` | a DAO flood of ten messages, two periods, one packet on its way; 1,136,153 states |
| `size` | `LabelsMatch`, `EveryLineInOneWindow`, `RowsAreUpToDate`, `WindowIsRight` | `gen_size_data.sh`, six attack types at first, two nodes, four lines at six instants around a window and a minute boundary; 381,559 states |
| `dao` (violated) | `DaoNamesCurrentParent` | as `membership` |
| `nopath` (violated) | `LeavingTakesRouteBack` | as `membership` |
| `unsupported` (violated) | `OrphanWillLeave` | one supported DIO, and unsupported ones with the same or a newer version |
| `stale` (violated) | `ReachableMeansNoted` | node, root, a second neighbor; one message of each kind on its way |
| `more` (violated) | `LabelsMatch` | `gen_more_data.sh` from the type in `project-conf.h` |

The bounds and why they suffice:

* *Nodes.* One node and one or two neighbors. A parent switch needs two
  neighbors; no handler distinguishes a third. In `repair`, the version and rank
  logic looks at one DIO at a time, so one neighbor with every rank and version
  replaces several. In `versions`, a root and one member are enough for every pair
  of versions to meet; a chain of three exceeds what TLC finishes with liveness,
  and `NetImplementsSpread` (section 4) covers every set of nodes and links.
* *Ranks.* Below the root, the root, a router, infinite. `MaxRankInc` and
  `SignificantChange` are chosen so that both sides of each comparison occur.
* *Counters.* In `membership` a counter has two values, the second newer than the
  first: a DIO has the node's version, an older or a newer one. In `repair` and
  `versions` it has a stick, a circle of three and a window of two, so counters
  leave the stick, wrap, and there are pairs that are not ordered. With the two repairs
  of `versions` the root's version goes from 4 through 5 to 0, and further when the root
  reboots and overtakes the version of a member. In `exchange`
  numbers of DAOs repeat after two.
* *Lifetime.* One period in `membership` (joined, expired) and two in `repair`.
  `DisThreshold` lies above it, so the unicast DIS is sent too.
* *Retransmissions.* `DaoMaxRtx` = 2: one retransmission, then the repair.
* *Messages on their way* (`MaxInFlight`): one of each kind. It is enough for one
  that is late by a membership, a reboot or a parent, which the findings and the
  liveness properties are about; the theorems hold for any number. `exchange` has one
  possible parent, so no DAO of an *earlier* parent overwrites the root's entry in it
  (with two parents the state space is too large for liveness). What the node does about
  such an entry is to send its next DAO: that the DAO timer is always armed is
  `JoinedIsAnnouncing`, proved for every instance, and that what it says last is right
  is `SwitchIsReported`.
* *Repairs and reboots of the root* (`MaxRepairs`, `MaxRestarts`): two and one, so
  that a root that has issued a version forgets it while a member is on it; two repairs
  are as many as the window is wide, and take the counter through its wrap.
* *Periods, lines*: two periods have a reply and a miss between them; a row needs
  three lines of two nodes, and one more line to be out of date.

No state constraint is used: every counter in a state is finite or bounded in a
guard. `CHECK_DEADLOCK` is left on everywhere.

*Fairness.*

* `FairSpec` (`liveness`) assumes only that the state-update timer, the leave timer
  and the DAO timer (in its two uses) expire if they stay armed: these are one-shot
  event timers of the operating system. Nothing is assumed of the network or of the objective function, so a
  node may go without a parent for ever; `OrphanIsResolved` says it then leaves.
  Its premise, that retransmissions of DAOs stop running out, is needed: the
  handler that gives up a DAO may find a parent (disarming the leave timer) and
  drop it again in the repair, each time around.
  Acknowledgements are not assumed to arrive, and not assumed to stay away: any of
  them may come at any time and put the DAO timer off, and `SwitchIsReported` says that
  the node reports its parent all the same.
* `FairDaoSpec` (`exchange`) assumes the state-update timer and the two uses of
  the DAO timer. Every DAO and acknowledgement may be lost: `RouteIsRefreshed`
  then holds because a node whose DAOs do not arrive gives its parent up.
* `FairNetSpec` (`versions`) adds, per pair of neighbors, that what is on its way
  arrives (weakly fair) and that of the DIOs one *can* send to the other some get
  through (strongly fair: the DIO timer of a node that may advertise always
  expires again, and a link that loses everything is no link). Without the second
  a root and a member could stay on two versions for ever, in the code as well.

Every property has a *mutant* in `PROJECT.json`: a plausible mistake in one
modelled definition with which the same run fails.

### Where the code differs from what it says

1. *A DAO can name the parent the node has just left* (`dao`). The address is read
   at `rpl-icmp6.c:631`, three lines above "Make sure we're up-to-date before
   sending data out". `ParentSwitchIsReported` holds: a further DAO is pending, and
   only an acknowledgement of the DAO before can put it off until the refresh; in the
   end the root is told (`SwitchIsReported`).
2. *The no-path DAO of `rpl_dag_leave` is not sent* (`nopath`). A node whose leave
   timer expires has no parent, and without one `rpl_icmp6_dao_output` returns. The
   root keeps the route until it expires. The parent may even be found in that
   very call, and the node leaves all the same.
3. *A DIO that cannot be joined can strand a node* (`unsupported`).
   `global_repair_non_root` has stopped the timers when `process_dio_init_dag`
   refuses the DIO; a node that had no parent before stays in the DAG with neither the
   leave timer nor a state update armed. It is left to another message, to its next
   periodic DIS (whose state update may find a parent) or to the expiry of the DAG.
4. *An acknowledgement of an earlier membership makes a node reachable* (`stale`).
   `rpl-dag.c:707` asks "Is this an ACK for our last DAO?" and compares numbers,
   but `init_dag` starts them from the same value at every join. The root need not
   know the new parent; `RouteIsRefreshed` says it will, at the refresh.
5. *`gen_more_data.sh` does not switch the attack off* (`more`). Its first `sed`
   looks for type 9, `project-conf.h` has type 1: the logs saved as "normal" are
   those of the decreased-rank attack. `gen_size_data.sh` replaces any digit, and
   `size` shows that its labels are right from every first type and after every
   interruption.

Noticed on the way, without a run of their own: a flooding attacker also sends its
data packet (`udp-client.c:158-163`), where `attack-implementations/README.md:51`
says "instead of its normal single data packet"; `fix_time.py:29` writes a time
just below a minute as 60 seconds (harmless for the windows: `WindowIsRight`).

## 4. What is proved

TLAPS checks every proof below for *all* values of the constants that satisfy the
named assumptions of the modules (`LollipopAssumption`, `NodeAssumption`,
`RankAssumption`, `BoundsAssumption`, `InputAssumption`, `DaoAssumption`,
`NetworkAssumption`, `ClientAssumption`, `LogAssumption`, `GenerationAssumption`):
any set of nodes and attackers, any ranks, link costs and lifetimes, any DIOs, any
number of messages on their way, floods and logs of any length. With them every
safety property and every action property of a passing run is proved; only the
four liveness properties are not.

| theorem | states | in addition assumes |
|---|---|---|
| `TypeCorrect` | `Spec => []TypeOK` | |
| `LeaveTimerSafe` | `Spec => []LeaveTimerMeansNoParent` | |
| `JoinedSafe` | `Spec => []JoinedMeansParent` | |
| `ParentInTable` | `Spec => []ParentIsNeighbor` | |
| `RootSafe` | `Spec => []RootStaysRoot` | |
| `VersionSafe` | `Spec => VersionOnlyAdvances` | |
| `RankSafe` | `Spec => []RankAboveParent` | |
| `AnnouncingSafe` | `Spec => []JoinedIsAnnouncing` | |
| `OrphanSafe` | `Spec => []OrphanWillLeave` | every DIO can be joined |
| `ExpirySafe` | `Spec => []NoRouteInExpiredDag` | every DIO can be joined |
| `ForgottenSafe` | `Spec => []LeftMeansForgotten` | every DIO can be joined |
| `RankBounded` | `Spec => []RankIncreaseIsBounded` | no STORING DIO, `Self` no attacker |
| `SwitchSafe` | `Spec => ParentSwitchIsReported` | |
| `RankAdvertised` | `Spec => []SignificantRankIsAdvertised` | `~DioRedundancy` |
| `DaoTypeCorrect` | `DaoSpec => []DaoTypeOK` | no STORING DIO |
| `DaoImplementsNode` | `DaoSpec => NodeIsRplNode` | no STORING DIO |
| `NetImplementsSpread` | `NetSpec => VersionsSpread` | `AttackType # 2` |
| `NetTypes` | `NetSpec => []NetTypeOK` | `IsFiniteSet(Node)` |
| `RootIsAhead` | `NetSpec => []NobodyAheadOfRoot` | `AttackType # 2`, `MaxRepairs <= SequenceWindow` |
| `RepliesSafe` | `ClientSpec => []RepliesAnswerRequests` | |
| `ChangesSafe` | `ClientSpec => []CountedChangesHappened` | |
| `ClientTypes` | `ClientSpec => []ClientTypeOK` | |
| `FeaturesSafe` | `ClientSpec => FeaturesOfMember` | `~StartsRoot`, `Self` no attacker of type 4 |
| `LinesSafe` | `GenSpec => []EveryLineInOneWindow` | |
| `RowsSafe` | `GenSpec => []RowsAreUpToDate` | |
| `WindowsSafe` | `GenSpec => []WindowIsRight` | |
| `LabelsSafe` | `GenSpec => []LabelsMatch` | `Program = "gen_size"` |
| `NewerIsAsymmetric` | of two counters, at most one is newer | |
| `IncrementIsNewer` | an incremented counter is newer | window of 2 or more |
| `InflatedIsNewer` | the version of the version attack is newer than the attacker's | window of 6 or more |

The additional assumptions are needed. With a DIO that cannot be joined,
`OrphanWillLeave` fails (run `unsupported`) and so do the other two. A STORING DIO
of a newer version takes a node's parent without starting a new membership, so
`lowest_rank` and the DAO counter are those of the old one. An attacker of types 1 and 7 sets
its rank, and one that inflates versions sends some that nobody issued.
`MaxRepairs` bounds the global repairs of a run: with one more than the window is
wide, a DIO from before them all looks newer than the root's version (TLC shows it
with a window of 2 and 3 repairs), so `RootIsAhead` is as strong as it can be. The
redundancy counter of the DIO timer (`RPL_DIO_REDUNDANCY`, which `project-conf.h`
leaves at Contiki-NG's default of 0) keeps DIOs back after the node has noted their rank as advertised: then
neighbors may hear nothing of a change. An attacker of type 4 takes a parent below
the root's rank, and then prints such a rank. `gen_more_data.sh` does mislabel (run
`more`). `NetTypes` counts messages with `Cardinality`, of finite sets only.

**The node** has four inductive invariants, each about the record that the
operators of `RplDag` change, and each proved function by function and then with
one step per action of `Next`.

* `Inv` (`NodeInv`, in `RplDagProofs`): the type; leave timer armed only without a
  parent; parent in the table; joined only with a parent; a node in no DAG has
  neither parent nor leave timer; a root that does not poison has the root's rank
  and no parent. The last two are the strengthening the others need: a node that
  becomes root out of nothing inherits its leave timer. Inside
  `rpl_dag_update_state` the invariant is broken, between selecting a parent and
  processing the switch; there `Reselected` and `ProcessSwitch` carry the fact
  that makes it good again: a parent that changed is noted as unprocessed.
  Likewise a global repair passes through states outside the invariant, and
  `LocalRepairInv` is stated for them. What a function leaves alone is
  `SameMembership`, `SameButTimers` or `SameOrNewer`, from which `VersionSafe` follows.
* `Upkeep` (`Settled` and `Kept`, in `RplDagUpkeep`): rank above the parent's, the
  DAO timer beside the DAG state, and, where every DIO can be joined, what is left
  of a membership and what makes an orphan leave. These hold only *between*
  handlers: the rank of a neighbor is overwritten before the update that makes up
  for it. `OrphanWillLeave` is not inductive: an orphan with no leave timer must
  also have an unprocessed parent switch and a finite rank, or its next state
  update would not arm one.
* `Bounds` (`Counted`, in `RplDagCounters`): `lowest_rank` is at most `floor` and
  within `MaxRankInc` of the rank, and the number of the last DAO is one that the
  counter has moved on to (`Numbers`: values that incrementing reaches).
* `InTouch` (`Shown`, in `RplDagCounters`): `SignificantRankIsAdvertised` compares
  `rank` with `heard`, and the code compares it with `last_advertised_rank`, which
  may have been noted before the update that gave the DIO its rank. Hence two
  steps of the threshold: with the DIO timer not reset, `last_advertised_rank` is
  within it of `heard`, and `rank` within it of `last_advertised_rank`. Every
  function but the DIO timer's then either multicasts nothing and keeps that for
  every rank that may have been heard (`Shows`), or resets the timer (`Showing`).
  `MemberTracks` is the heart: a rank that appears where there was none comes with
  a first parent, whose handling resets the timer, so no update makes the rank
  significant in silence.

`ParentSwitchIsReported` is an action property and needs no invariant of its own,
only that no message of an earlier handler is left (`Silent`): every function either
leaves a DAO pending (`Reporting`) or keeps parent and timer and sends no DAO
(`Quiet`). Only the acknowledgement does neither. The case that is easy to get
wrong is a DAO that switches the parent while it is sent: `DaoOutputReports` shows
that the timer armed before it stays armed.

**`RplDao`**: `DaoInv` is `Inv`, `Bounds` and that no number on its way is
`SeqnoInit`; that is the guard of `ReceiveDaoAck`, so every step is one of `RplNode`
or leaves the node alone.

**`RplNetwork`**: `NetInv` says that `NodeInv` holds of every node, that every member
is in the root's DAG and that only DIOs of that DAG are on their way. Every handler
is then mapped by what it does to the version: nothing, what `ProcessDioMoves` says of
a DIO, or, when it sends DIOs, what `SendsDio` says of their versions. `RootIsAhead` adds `InOrder`: as long as the root
has not rebooted, its version is the start value incremented once per repair, and
every version a member holds or a DIO carries is the start value incremented at
most as often. `NthInOrder` says that of two such values within a window the
earlier is never the newer, and `Limited` is the bound on repairs that keeps all of
them within one.

**`UdpClient`**: `CountersInv` needs that the changes counted, *plus one while the
rank differs from the one last printed*, are at most those that happened. `RouteInv`
is the node's `Inv` and `Upkeep` under the client's steps, the data packets included.
`FeaturesSafe` goes by induction over the length of the flood: each of its messages
may switch or lose the parent, and `FloodWeathered` says that the node is as settled
after any number of them as it was before. A line is printed only by a node that is
reachable or poisoning (`LinePrinted`), and a node that never becomes root
(`StaysMember`) has a parent when it is reachable, and its rank is above the parent's.

**`DataGeneration`**: `LogInv` says that the lines of a log are in the order of their
instants and that a stamp is the rounding of one, which is monotone; so windows cut
by stamps partition the log, the last line of a node in a window is its newest, and
rounding moves a line by at most one window, at a boundary. The maximum of the
stamps, which bounds the last window, exists by induction. `LabelInv` says at each
step of `gen_size_data.sh` what `project-conf.h` holds and of which attack the log
is, from whatever content an interrupted run left.

Only model-checked: liveness (`OrphanIsResolved`, `SwitchIsReported`,
`RouteIsRefreshed`, `VersionsConverge`), which is out of the prover's reach: it needs `ENABLED` of the
fair actions. Induction theorems with an operator as parameter cannot be used
either; where the proofs above need induction over the naturals, it is over a set
of them (`Induction` in `DataGenerationProofs` and `UdpClientProofs`), from the
well-foundedness of `<`.

## 5. Not modelled

* *The machine-learning scripts*: straight-line numerical code around a library,
  without state.
* *The Cooja scenarios, logs and data sets*: data.
* *Parsing and layout of ICMPv6 messages*: `dio_input` and the others are modelled
  by the record that results and the checks on the node's state.
* *Contiki-NG*: timers, neighbor table, objective function, `uip-sr.c`; external,
  modelled as `src/` uses them. Time is the order in which timers expire.
* *A third level of nodes*: what a poison that is not multicast
  (`rpl-dag.c:395`) or a missed DTSN refresh (`rpl-dag.c:521`) means to the
  children of the node.
* *`VersionsConverge` under the version attack*: it moves the counter to values of
  the stick that are not ordered with a rebooted root's, by the definition of the
  counters.

Possible continuations: `RplNetwork` with three levels and routes, and theorems that
carry the properties of one node over to every node of it.
