# A verification of ns3-project

ns3-project simulates collaborative downloads among vehicles (ns-3 3.26, SUMO
0.22). It consists of a *virtual layer* that makes the vehicles of a road region
act as one virtual node, of the routing protocols *IBR* and *AODV*, of *SCMA*, the
state machine by which a vehicle hands parts of a download to others, and of
*AppDescarga*, an application that does the same on top of AODV. This directory
holds TLA+ models of that code, the TLC configurations that check them and the
proofs TLAPS checks. Paths below are relative to `src/` of the repository's tree
(its modules are in `src/src/`, its simulations in `src/scratch/`).

## 1. The system and its components

All of it runs in one discrete-event simulator: a callback (socket, timer, device)
runs to its end before the next one starts. The concurrency is that of *vehicles*:
their callbacks interleave, their packets are lost, delayed and reordered, and
each one keeps timers that race with the packets. Nothing is persisted.

| Component | State | Operations | Talks to |
|---|---|---|---|
| **AppDescarga** `app-descarga/model` | `appState`, chunk table, list of collaborators, `lastChunkRequested`, resend count, part and employer, four timers | `StateMachine`, `Timeout*`, `RecvPkt` | AODV (UDP), by messages of `app-message-header` |
| **ScmaStateMachine** `scma-statemachine/model` | `nodeState`, `RecvMsg`, flags (`IntersectionFlag`, `FinishFlag`, `DistributionFlag`, insufficient, agreed), counters, host table, `responseIp`, seven timers | `StateMachine`, `State*`, `SetState`, `Timeout*`, `RecvPkt`, `Send*` | the net device calls it; IBR fills its host table |
| **VirtualLayerPlus** `virtual-layer-plus/model` | region, leader/non-leader state, backup table and level, host, leader and neighbour-leader tables, queue of supported packets, eight timers | `DoSend`, `ReceiveFromDevice`, `Timer*Expire`, `Recv{LeaderElection,Synchronization,Hello}`, table operations | mobility (position), IBR, SCMA, the radio |
| **IBR** `ibr/model` | way segment, direction, host lists in discovery, ping-pong timers | `PingPongStart`, `RecvIbr`, `RecvPacket`, `TimerSyncHostTable`, `TimerIncomingPacket` | reads the device's tables, writes SCMA's host table |
| **AODV** `aodv/model` | routing table, request queue, id cache, neighbours, duplicate cache, rate limits, a timer per address | `RouteOutput/Input`, `Send/Recv{Request,Reply,ReplyAck,Error,Hello}` | carries AppDescarga; a region check was added to it |
| **VNR** `vnr/model` | as AODV, per region | as AODV | installed by no simulation |
| **Headers** | - | `Serialize`, `Deserialize` | all of the above |
| **Simulations** `scratch/` | - | set up vehicles, leaders, mobility | configure all |
| **data-analysis** | counters per node, dictionaries per download | `getInfoNode`, `procesaArchivo` of four scripts | reads the logs that SCMA, IBR and AppDescarga write |
| **SUMO-Generator** | files | an offline script | none |

Two stacks are configured. `simulador-ups` runs VirtualLayerPlus + IBR + SCMA, with
one *fixed* leader in each region (`SetLeader(true)`) and vehicles that are never
leaders. `simulador-base` and `simulador-single-node-download` run VirtualLayerPlus
+ AODV + AppDescarga, where the vehicles with `nodeId % 10 == 0` download.

What is hard, and what makes each part correct:

* **AppDescarga.** Reports, acks and tasks carry no mark of the download they
  belong to; the ack is taken in any state; a node in TASKWAIT may still be
  resending. Correct when: only chunks of the file are asked for; a chunk is
  counted only if it was asked for in this download (which fails); the app node always has a step
  scheduled; the roles of app node and collaborator never mix; a download is given
  up only when complete; resending ends; a report means the chunk is downloaded.
* **ScmaStateMachine.** `SetState` calls the new state's function and *returns* into
  the old one; `RecvMsg` remembers the last packet whatever the state was; members
  keep their values from round to round; a region change calls the state function at
  any time. Correct when: no timer is scheduled while it runs (ns-3 aborts); no
  wait is without its timer; the recursion is bounded; collaborations end;
  a requester goes on asking; a task is finished only when its hosts have reported.
* **VirtualLayerPlus.** Region changes race with elections and with the
  synchronisation of backups; table entries expire by timers; vehicles are known by their Hellos, which
  they begin to send in three regions only (`SCMA_DEBUG_REGION` and the two before it). Correct when: a region
  has at most one leader, backups have distinct levels, tables have no duplicates
  and no expired entries, a relinquishing leader is replaced.
* **IBR.** One packet carries the host lists along the way segment and back; its
  loss must not stop the exchange; a packet overheard from the wrong neighbour must
  not turn it round; the lists must contain each host once.
* **data-analysis.** Counters are kept under keys that an earlier line of the log has made, in dictionaries
  that several names share. Correct when: no lookup fails on a log the simulation can write; two scripts find
  the same in one log; the download times fit into it; the totals of a node are its own (which fails).
* **AODV.** Sequence numbers are monotonic, routes are loop-free, a request is
  answered or given up after its retries, queued packets are sent or dropped.

PROJECT.json lists the hazards one by one, each at its line.

## 2. Modules

| Module | Contents |
|---|---|
| `AppDescarga`, `MCAppDescarga` | the application, all callbacks |
| `CollabDownload` | what a collaborative download promises, without messages, collaborators or timers |
| `AppDescargaProofs` | types, roles, timers, what is under way in a download, the nominal network and the progress of one download of AppDescarga |
| `AppDescargaRefinement` | AppDescarga implements CollabDownload |
| `ScmaStateMachine`, `MCScma` | the state machine, all callbacks, its call stack, its lines in the log |
| `ScmaProofs` | the timer of a waiting requester |
| `ScmaControlProofs` | the call stack, the nested state functions and five properties that rest on them; no timer is scheduled while it runs |
| `IbrPingPong`, `MCIbr` | way segment table and the exchange of host lists, under loss |
| `IbrPingPongProofs` | one list travels; an intersection's table names no vehicle twice; the lists stay short |
| `VnBackup`, `MCBackup` | heartbeats and the synchronisation of backups, host tables, region changes, loss |
| `VnBackupProofs` | four invariants of VnBackup |
| `LogAnalysis`, `MCLog` | what the scripts keep while they read a log |
| `SumLemmas` | induction on the natural numbers, recursion along a list, sums over finite sets |
| `LogAnalysisProofs` | five invariants of LogAnalysis |

How they fit together: `VnBackup` and the region changes of `ScmaStateMachine` are two views of the
net device, and meet in `TimerGetLocationExpire`. `IbrPingPong` makes the host tables from which the leaders
of `ScmaStateMachine` answer (`HostTables`). `ScmaStateMachine` and `AppDescarga` write the logs that
`LogAnalysis` reads: it takes for granted what `FinishFollowsDistribution` and the actions of AppDescarga
establish, that a node logs the end only of what it has begun. No module composes two
others by INSTANCE except `AppDescarga`, which takes `CollabDownload`: the interfaces are single values, and
the state space of a product is beyond TLC's reach (a run of SCMA alone has half a million states).

The modules are written to be proved about: constants with a named assumption, one action per
callback, no RECURSIVE operator.

## 3. AppDescarga

One action per callback. State is a function of the node for each member of the class
(`appState`, `chunks` for `myChunks`, `collabs` for `myCollabs`, `lastChunk`,
`countSend`, `part`, `respTo`), `tX` says whether timer X is running, and `net` is the
bag of packets in flight. `asked` and `latest` are history variables.

| Action | Code |
|---|---|
| `TimeoutDownloadStart`, `StartDownload` | `TimeoutDownloadStart` and the `StateMachine` call in it |
| `DistributeTasks`, `RestartDownload` | `TimeoutResourceRequest`: the two branches |
| `TimeoutDownloadSimulatorTimer` | the callback that reports a chunk |
| `ResendReport`, `GiveUp` | `TimeoutCompleteTaskAck` |
| `Recv...` | the cases of `RecvPkt`; `RecvIgnored` is the state test that fails |
| `Lose` | the radio (external) |

Points that may surprise:

* The loop that looks for the next missing chunk is an assignment `f` of a cell to each
  collaborator, each value being where the scan from the one before ends. The scan
  leaves the table (section 9), so the table has `Slack` bits behind the last chunk
  (`vector<bool>` is sized in words) with arbitrary content, and one more cell,
  `Foreign`, for all memory behind them.
* `myChunks.reserve` does not resize the vector; `StateMachine` then writes the
  first `Chunks` bits only, which is `ResetTable`.
* A TaskInfo is handed to the socket twice, so `TaskInfos` puts two into the bag.
* The number of collaborators used is computed in floating point and truncated; the
  model divides integers, which agrees for a percentage and a small number of nodes.

**Time.** Timers are facts, not clocks. Three facts about durations are used, and
the last two are constants that can be turned off. `Started`: applications start together, at
1 s, and the download 3 s later. `Prompt`: a packet and a download take
less than a retry period of 0.5 s, so such a timer does not overtake them.
`~LateDelivery`: packets do not outlive the 10 s window in which collaborators are
looked for, in which the last retries (at most 2.4 s) die out as well.
Only runs that say so use `Prompt` or `~LateDelivery`.

The last of these is not what the code guarantees. AODV keeps a packet for up to 30 s (`MaxQueueTime`) while it looks for
a route, and with the `TtlStart` of 2 that the simulations set its search takes 0.32 + 0.48 + 0.64 s of rings, then 2.8 s and
5.6 s, about 9.8 s (aodv-routing-protocol.cc:1072-1087, 1817-1840). A task delayed so long, the download, and a retry or
two of its report exceed the window together, without any packet that takes 10 s by itself. A report of the last download
then counts in the next one (section 9): that this does not happen is an assumption of `Implements`, not a result. Types, roles,
timers and `NeverAbandoned` are proved without it, for `LateDelivery` too; the runs keep packets within the window, since `Implements` needs that.

`MaxInFlight` bounds the state space: rounds, restarts and resends are fired while at most so many packets are on their way.
With 1, as in `AppLossy`, each of them may overtake a task, a report or an ack in flight, and with `AppNominal`'s 2 `Prompt` is the stricter.
`AppRange`, which only has to find its counterexample, has 0.

**Fairness** (`FairSpec`). Every armed timer fires and every packet not lost is
delivered, as the simulator's event queue guarantees. The timers that wait for
packets of their period get strong fairness, since packets in flight postpone but
never cancel them. Fairness is never assumed of `Lose`, and losses are not bounded.

### Runs

| Run | Instance | What it shows |
|---|---|---|
| `AppNominal` | one app node, two vehicles, three chunks, no loss, `Prompt`; fair | The download completes (`DownloadCompletes`), asks for chunks of the file only (`RequestsInRange`), an ack that stops a resending is for a recorded chunk (`AckedIsRecorded`), a report is sent after its download (`ReportsAreDownloaded`). More chunks than vehicles and more vehicles than one: rounds wrap and the last one is partial |
| `AppLossy` | one app node, one vehicle, two chunks, loss, no `Prompt`, `~LateDelivery`, one packet in flight when a timer fires; fair; 84 000 states | `TypeOK`; the app node is never without a timer (`AppNodesArmed`); a busy node is downloading (`BusyIsDownloading`); no download is dropped half way (`NeverAbandoned`); each resending ends (`RetriesEnd`): four reports at most, then INITIAL; each download is one of CollabDownload (`Implements`), whatever is lost, resent or reordered within it. The safety properties are proved for any number of vehicles and packets in flight |
| `AppRange` | one app node, two vehicles, two chunks | `RequestsInRange` is violated (section 9) |
| `AppPremature` | one app node, one vehicle, loss, no `Prompt` | `ReportsAreDownloaded` is violated (section 9) |

Two or three chunks suffice: a chunk counts only as asked, recorded or missing, and
the scan needs one behind it, one under it and the end of the table. Two collaborators
are the least for which one round can be of different lengths for each.
`Slack` 0 in `AppLossy` leaves one cell behind the table, where the scan may end. Two app nodes in one run with loss are too many
states for fairness; what is at stake between them, that neither works for the other, is `RolesAreDisjoint` below, for any number of them.

### The abstract specification

`CollabDownload` knows a phase, the chunks wanted, those of the latest round and those counted, for each downloader. It promises
that a download asks for chunks it does not have, counts only chunks asked for *in this download*, and begins
anew only before its first round or when the file is complete. The refinement mapping takes the phase from the timers
(`tDownloadStart`, `tResRequest`), what is counted from the chunk table, and `wanted` and `round` from the history
variables `asked` and `latest`. That indices outside the file may be asked for is left open: that is
what AppRange finds. Retries, acks, collaborators and everything they do are stuttering steps.

### Theorems (`AppDescargaProofs`, `AppDescargaRefinement`)

All are for any set of nodes and app nodes, number of chunks, slack and percentage,
under `ConstantsOK`, and for any loss and any order of packets.

* `TypeCorrect`: `Spec => []TypeOK`. The resend count stays within 0..3 because the only action
  that raises it tests it; `lastChunk` stays within the cells because a scan ends at
  `Foreign` at the latest.
* `RolesAreDisjoint`: by `RolesInvariant`, which strengthens `RolesDisjoint` by what keeps the
  messages away from an app node: nobody's list of collaborators contains an app node,
  no ResourceInfoFromCN comes from one, no TaskInfo goes to one, and no ack
  reaches one since no CompleteTask came from one. An ack is taken in
  *any* state, so without the last part the invariant is not inductive.
* `AppNodesAreArmed`, `BusyNodesDownload`: by `TimersInvariant`. The second needs
  `RolesInvariant` too, as an app node's states are set by other callbacks.
* `DownloadsAreNotAbandoned`: an action property. `Timers` says that some collaborator
  can be used while `tResRequest` is "round": only `DistributeTasks` sets it, under that
  condition, and the list only shrinks in a restart. So a restart means that the file is complete.

* `DownloadsImplement`: for `~LateDelivery`, `Spec => Download!Spec`. A restart maps to `Begin`: from a window it may, and
  from a round it has the complete file, by `Timers`. A round maps to `Ask`, since the scan stops at missing chunks
  only. A report maps to `Get` if its chunk is missing, and stutters otherwise; that the chunk was asked for
  in this download is the lemma `FreshInvariant`: every task or report in flight, and every download or resending under
  way, is for a chunk the addressee has asked for in its present download. A restart preserves it since it happens
  either from a window in which everything has settled or from a round, where the file is complete or nobody is used. It is
  no result of its own: its hypothesis is what keeps late reports out.

* `ReportsFollowDownloads`: `Spec => ReportsAreDownloaded` for `Prompt` and `~Lossy`, with any number of app nodes that share
  their collaborators; without either hypothesis the property fails (`AppPremature`). By `NominalInvariant`: a node that
  waits for an ack has its report or the ack in flight, and whoever a task, a download or a report is for is in
  TASKRECEPTION, so that the report will be acked. When a retry period has passed nothing is in flight, hence nobody
  waits and nothing is resent. `net` being a bag is part of the invariant, as the property counts copies: the lemmas
  `BagAdded` and `BagTaken` say what sending and taking do to them.

* `RequestsStayInRange`, `AcksAreOfRecordedChunks`: `Spec => []RequestsInRange` and `Spec => AckedIsRecorded`, for any
  number of collaborators, chunks and slack bits and any percentage, for `Prompt`, `~Lossy`, `~LateDelivery` and one
  app node. TLC finds the first violated with loss (`AppRange`), the second with a second app node or without `Prompt`:
  two app nodes share collaborators, and a task that a busy one refuses is lost like a packet. The inductive invariant is
  `Progress`: a chunk asked for is recorded, or on its way in a task that its collaborator will take, in a download or
  in a report (`NoneForgotten`); a collaborator's tasks, download, report and ack are all of one chunk (`OneTaskEach`), which
  is why an ack may do without its number; it is on the list once, since it makes one offer in its life (`Offers`); and
  the chunks asked for are the first ones of the file, or all (`Prefix`). A round begins when nothing is in flight and nobody
  downloads (`RoundsBeginQuiet`), so that what has been asked for is recorded; the scan then starts at
  the first missing chunk, and `RoundAsks` shows, by induction over the collaborators, that
  it never leaves the file, also when it begins again at its front.

Only model-checked is liveness (`DownloadCompletes`, `RetriesEnd`).

## 4. ScmaStateMachine

A record `sm[n]` holds the members of each vehicle's object, under their names.
The call stack is explicit: a state function is a list of blocks (an `if` of the
code, its condition and its effect), a frame remembers the next block, `Execute` runs the
next block whose condition holds *now*, and `Return` pops a frame. So the tests
that remain after an inner `SetState` see the members it left, as in the code. `Execute`
and `Return` model `StateMachine`, `SetState` and the five `State*` functions;
`Timeout...` the seven callbacks; `RecvPkt`'s cases are actions of their own;
`EnterIntersection`, `LeaveIntersection` and `EnterDebugRegion` are what
`TimerGetLocationExpire` of the net device does to the state machine.

* **Timers.** `armed` are those with a delay, `due` those scheduled with none, which
  fire first and in order. `Timer::Schedule` on a running timer is a fatal
  error in ns-3: `fatal` then stops the model as it stops the simulation.
  Delays are not compared with one another: armed timers fire in any order, but
  only when no packet is on its way, a packet's flight being far shorter than the
  least delay, 0.1 s.
* **Packets.** `net[src][dst]` is a FIFO queue per pair: one hop within a way segment.
  A broadcast reaches all vehicles of the segment; a leader acts on requests only.
* **Leaders.** An intersection leader answers with one of `HostTables`, which IBR
  may have given it. A leader's own state machine never leaves INITIAL and is not
  modelled. With two leaders, both answer.
* **Uninitialised members.** `Distribution`, `ExpireReception` and
  `CompleteTaskCounter` have no initial value: `Garbage` is the set tried.
  `nodeUsePercent` has none either: `Percent`. `CompleteTaskCounter` is capped by `CounterCap`,
  above which the code does not tell values apart.
* **Bounds.** `MaxMoves` region changes in all; a leader answers while no pair has more than
  `MaxQueue` packets waiting, which is needed because a host table with only the requester
  makes rounds repeat in no time (CloudRelease, InsufficientResources, next request).
* **Deadlock** is not checked in the runs without fairness: vehicles stop moving after `MaxMoves`, a vehicle
  may be INITIAL with nothing scheduled, and a fatal error ends the simulation.

**Fairness** (`FairSpec`): weak for the code and for packets and due timers (`Runs`), strong for
four timers with delays, which a busy network postpones. Movement and loss are unfair.

### Runs

| Run | Instance | What it shows |
|---|---|---|
| `ScmaCrossing` | two requesters that work for one another, one driving through an intersection, two region changes, tables with both, one or none of them | `TypeOK`, whose last part bounds the recursion of `SetState` at five frames (`StackDepth`); the waits in RESOURCEREQUEST and TASKRECEPTION have their timers when the code is at rest (`RequestIsTimed`, `ReceptionIsTimed`); no timer is scheduled twice (`NeverFatal`), no distribution is pending at rest (`NoDistributionWaits`), two branches are dead (`DeadBranches`): `RecvPkt` has dealt with their data before; a vehicle logs TaskFinished only after a TaskDistribution of its own that it has not finished (`FinishFollowsDistribution`), which is what the scripts of section 7 rest on |
| `ScmaLossy` | requester, host, one leader, loss, `Distribution` and the counter uninitialised; fair | A requester that has handed out tasks asks for the next ones whatever is lost (`AugmentationGoesOn`); no timer is scheduled while it runs (`NeverFatal`), on an instance that meets the hypotheses of the theorem `NoTimerRunsTwice` |
| `ScmaFatal` | requester, host, a table that empties, loss | `NeverFatal` is violated (section 9) |
| `ScmaUntimed` | as ScmaLossy, without fairness | `CollaborationIsTimed` is violated (section 9) |
| `ScmaFinished` | requester, two hosts, no loss | `FinishedIsReported`, by the history `reported`, is violated (section 9) |

Two vehicles suffice for what the runs show, since a vehicle reacts to a message by its own state and
the sender's address only; the recursion, the flags and the timers are local. That a task may be counted
twice needs two hosts. `MaxMoves` 2 allows a vehicle to enter an intersection and leave
it during one job.

### Theorems (`ScmaProofs`, `ScmaControlProofs`)

`RequestsAreTimed`: `Spec => []RequestIsTimed`, for any vehicles, leaders, tables, initial values and
bounds, with or without loss. `RequestIsTimed` speaks of the code at rest, which is not inductive:
`SetState` is called from within state functions, and the timer is started several blocks after the state
changes hands. The invariant `IInv` holds between any two blocks as well: a vehicle whose `nodeState` is
RESOURCEREQUEST has T_ResourceRequest armed or due. At rest no timer is due (`Settled`), so it is armed.
The lemmas say what `Cancel`, `Schedule`, `ScheduleNow` and `Rearm` keep of the timers, then, one lemma
each, that the blocks of every state function, every callback and every message keep the invariant.
The theorem is about the timer being scheduled; whether a second `Schedule` can abort the
simulation is the subject of `NoTimerRunsTwice`, below.

The other properties of `ScmaCrossing` depend on *which* function runs and what it will find when
an inner one returns. `ControlHolds` proves the inductive invariant `Control` for any vehicles, leaders, tables, losses, region changes and
initial values. Its parts:

* `Network`, `Vehicles`, `Rounds`: the types, and what `nodeState` says of the other members of a vehicle,
  whether or not one of its functions runs (`Ready`).
* `Stack`. All frames are of one vehicle. Only the innermost function can be before its first block, and
  then it is that of `nodeState` (`Fresh`); TASKRECEPTION leaves its state only after it has counted the tasks, when the
  distribution below it is handed out (`Receiving`); TASKDISTRIBUTION never calls itself (`OneDistribution`) and is resumed with
  nothing to wait for (`Resumed`). `Height` is the number of frames that a function can still put on the stack,
  given the vehicle's flags; for every frame its depth and its height stay within `StackDepth` (`Shallow`). That a block never
  raises the height of a function below it (`HeightFalls`) is why the recursion ends.
* `Waits`: a reception without its timer is about to end, in the innermost frame (`Ending`); a distribution goes on
  by T_TaskDistribution, or is being handed out (`Handing`).

Each is needed for another to be inductive: the depth depends on the flags found by a resumed function, these on what the inner one
was called for. The proof takes one block of a state function at a time; a block that calls pushes a frame (`FramesAfter`),
the others only advance one. From it follow

* `TypesAndDepth` (`TypeOK`), `DeadBranchesHold` (`DeadBranches`), `ReceptionsAreTimed` (`ReceptionIsTimed`) and the action
  property `FinishesFollow` (`FinishFollowsDistribution`), without further hypotheses;
* `DistributionsEnd` (`NoDistributionWaits`) if `Distribution` starts at 3 at most. It has no initial value, and above 3
  T_TaskDistribution is not started again (section 9).

`NoTimerRunsTwice`: `Spec => []NeverFatal`, for host tables that are not empty and name no requester when there is
another (one requester per way segment may be in all of them). Vehicles, leaders, losses, crossings, initial values and
bounds are arbitrary. Both hypotheses are needed. With an empty table a CloudRelease is broadcast, which `ScmaFatal`
turns into an abort. With two requesters in one table, loss and two region changes TLC finds another abort: a requester that
collaborates for the other drives into SCMA_DEBUG_REGION while its T_CompleteTaskAck runs, ends up in INITIAL with the timer
still running, takes a new task and schedules T_CompleteTaskAck when that is downloaded. `ScmaCrossing`, which has both kinds
of tables, does not lose packets, and TLC finds no abort there, so the hypotheses are sufficient, not exact; `ScmaLossy`
meets them.

The invariant is `Control /\ Lone`. Under the hypotheses each vehicle keeps to one of two roles, which `Lone` describes:

* A requester is never sent a task (`Asking`): it never collaborates, and only the timers of a request and of a reception can be
  armed. The danger is in the nested functions. TASKDISTRIBUTION schedules T_ResourceRequest and T_TaskReception without a
  test, possibly after an inner function has run, so `AskingFrame` says for each block that a frame may still reach
  which of them do not run yet, or that the vehicle is in an intersection, where that block leaves early.
* The others are sent tasks only (`Helping`): they are in INITIAL or COLLABORATION. T_CompleteTaskAck runs in COLLABORATION
  only, and never together with T_Download, since a task is taken in INITIAL only; so the end of a download finds it
  stopped. T_IncompleteTaskAck, the only timer that is ever due there, is scheduled by the innermost COLLABORATION that sees the
  intersection and by none below it (`HelpingFrame`). A download that has ended, or an
  intersection entered, is noticed at once, before the vehicle can do anything else (`Noticing`).
* Nobody releases the cloud, tasks go to vehicles that do not ask, and the tables are those of the leaders (`Fine`).

The proof has lemmas for the blocks of each function and role (`BlockAsks`, `BlockHelps`), one per role that the frames below keep what they rely on
(`LowerAsks`, `LowerHelps`), and one per callback and message.

Only model-checked is the liveness property `AugmentationGoesOn`.

## 5. IbrPingPong

One leader per region, as in `simulador-ups`; a region's leader is named by its region.
`WsTable` is the way segment table in the form the code looks it up, so that an intersection
may have an entry per way segment.

| Action | Code |
|---|---|
| `TimerPingPongStart` | the callback 1 s after the start; `Starters` are the regions whose node IBR_DEBUG_PINGPONG_NODE admits |
| `TimerSyncHostTable` | the callback and `SendSyncHostTable` |
| `TimerIncomingPacket` | the watchdog; `Watchdog` says whether IBR_DEBUG_PINGPONG_NODE is UINT32_MAX |
| `RecvIbr` | the socket's callback and the IbrDiscovery case of `RecvPacket` |
| `PutHost`, `QuitHost` | the virtual layer's host table, which the leader copies into the list |
| `Move`, `Lose` | mobility and radio (external) |

Points that may surprise:

* `TimerSyncHostTable` makes entries with leader and host address exchanged (and the
  leader's, `ibr_ip`, never set: `NoIp`); the intersection exchanges them back and compares
  accordingly. So `Merged` compares a received `leaderIp` with a stored `hostIp`.
* `Erase` is the loop that erases at the iterator and then increments it. It skips the entry
  after an erased one, so two neighbouring entries of one region do not both go. After
  the last one it increments the end iterator, which is undefined; libstdc++'s list is
  a ring, and the loop starts again at the beginning.
* An intersection does not take part: it learns the list from what the region
  next to it broadcasts *after* turning round, so in the direction away from it. The code
  that would add the intersection's own hosts never runs, since it reads
  `ibr_hostsTable`, which only `TimerSyncHostTable` assigns.

**Time.** A packet's flight is far shorter than the least timer (1 s), so timers fire, and host tables
change, when nothing is on its way (`Quiet`; receptions do not read the host tables). The
receptions of one broadcast concern one leader each and commute: they happen in the order
of the regions. The watchdog's 5 s are longer than the second a list is held.

**Fairness**: timers fire, tables follow the vehicles, packets arrive or are lost. Strong, since a
packet on its way postpones timers. `[]<>(net = {})` stands for the delivery of packets.

**Run** `IbrExchange`: the shipped layout of three regions per way segment, one segment,
two vehicles that start in the same region, so that neighbouring entries exist; one changes
region at any time (to an intersection, or on along the segment), one packet is lost at any time. 85 000 states. It shows:
`TypeOK`, by which no list has more entries of one region than `MaxList`, twice the number of vehicles, although erasing skips entries; one list travels (`OneList`);
it goes on for ever unless the packet that hands it on is lost (`ExchangeGoesOn`); in the end both
intersections know the vehicles between them, also after losing a copy for an intersection (`TablesConverge`), and never
one twice (`NoHostTwice`). The run does not check for deadlock: after the loss of the list the
system stops. One segment is enough for the exchange, as leaders ignore packets of other
segments; an intersection with several is not covered.

### Theorems (`IbrPingPongProofs`)

`OneListTravels`: `Spec => []OneList` for any layout (of the assumptions below), hosts, losses and moves, provided the watchdog is
off and one region at most starts an exchange; with either, two lists are what the code allows. The
invariant: as long as no exchange has begun nothing is on its way and only the starter can hold the list
(`Unstarted`); two holders, leaders whose timer runs or to whom a packet goes that they will hand
on, are always the same (`OneHolder`).
That a broadcast is taken up by one leader only needs `WaySegmentsArePaths`: no two regions
between the intersections of a segment have the same neighbour on the same side. It is an assumption of the module,
which TLC evaluates on the run's layout.

`NoHostIsNamedTwice`: `Spec => []NoHostTwice` under the same hypotheses. The loops that erase from a list may skip
entries, and the list that travels may name a vehicle twice, so this takes three things:

* What the loops do to a list of any length. `PassThins`, `EraseThins` and `UniqueThins`: what is left are
  entries of the list, and no host is named twice if none was before; where all doomed entries are of one host and
  no host is named twice, a pass leaves none (`PassFrees`), as it skips an entry only behind one of the same host. Hence
  `MergedDistinct`: merging into a list that names no host twice gives another, *whatever* is received. The
  recursive functions of the module are shown to exist, and their values to keep these properties, by the lemmas
  `RecursionExists` and `InductionUpTo` of `SumLemmas`.
* That an intersection never takes over a received list as its own (`IntersectionsOnlyHear`): that one may name
  a vehicle twice. `Way` says that a leader holds or sends the list only in a direction in which no intersection would accept
  it from there. It starts so (`StartsInward`), and remains so since the regions next to intersections turn the list round
  (`HandedOnInward`).
* That all lists consist of entries, with the host as `leaderIp` where a leader between the intersections has made them
  (`Sent`) and as `hostIp` where an intersection has (`Noted`): part of `Typed`.

`ListsStayShort`: `Spec => []TypeOK` under the same hypotheses, for any number of region changes. A leader that replaces what
the list says of its region erases in a loop that skips the entry behind an erased one. So what is left of its region is not
nothing, but half of it at most (`Halves`, an induction along the list that counts the entry erased last; `PassThins` and
`EraseThins` have it as `Halved`), and the number of the other regions' entries does not grow. To at most half of
`MaxList` the leader adds its own hosts, each vehicle once (`Once`), that is half of `MaxList` at most, and
`MaxList` is never exceeded (`RefreshedSparse`). An intersection's table names each of its entries by the host, and no host
twice, so that it is no longer than there are vehicles (`NotedSparse`).

The inductive invariant `TInv` is `IInv`, `Way`, `Typed`, that the intersections' lists and all tables name
no host twice (`Tables`), and that no list has more than `MaxList` entries of a region, no host table a vehicle twice (`Bounds`). `Way` needs of the layout what `IntersectionsEndWays` states: only an intersection has several
entries, or a side where its segment ends; neighbours at an end of a segment know each other; a region next to an
intersection has level 2, and no second intersection on its other side. The grids that `simulador-ups` builds, with
three regions between intersections, have these properties, and TLC evaluates the assumption on the run's layout.

Liveness stays with TLC.

## 6. VnBackup

The backups of the leaders: a leader broadcasts heartbeats that say how many backups it has and needs, vehicles ask
for a place, receive the leader's data (SyncData) and acknowledge it (SyncAck); who has not acknowledged is purged;
and a leader that has lost its table gets it back from its first backup. A region is named by
its leader, which is fixed, so `Regions` stands for the leaders and a vehicle is NONLEADER for ever.

| Action | Code |
|---|---|
| `TimerHeartbeatExpire` | the callback of a fixed leader |
| `TimerBackUpRequestExpire`, `TimerPurgeExpire` | one timer, which a vehicle uses to wait for its turn to ask and a leader to purge |
| `RecvHeartbeat` | the heartbeat's case in `RecvLeaderElection`, for a NONLEADER |
| `RecvSyncRequest`, `RecvSyncData`, `RecvSyncTable`, `RecvSyncAck` | the cases of `RecvSynchronization`; a SyncData to a leader carries a table |
| `Drop` | a packet of another region |
| `Move` | the region change of `TimerGetLocationExpire`, and the test for `HelloRegions` in it |
| `Hello`, `TimerLifeHostEntryExpire` | `TimerHelloExpire` and `RecvHello`: the host table of the leaders, from which `BackUpsNeeded` is computed |
| `Lose` | the radio (external) |

Points that may surprise:

* A backup table is a set. The code's list is kept in the order of `CompareBackUpEntries` (synced entries
  first, then by priority), and `TablesInOrder` says that priorities are distinct, so the set determines the list; `Front` is its first entry.
* `PutBackUp` removes the entry of *equal priority*, synced or not, before it looks whether the vehicle is listed.
  Vehicles that heard the same heartbeat ask with the same priority unless one hears the other's request in time.
* A region change resets nothing of this: state, table, priority and a running timer go along.
* A vehicle starts its Hello timer only when it enters `SCMA_DEBUG_REGION` (543) or one of the two regions before it
  (virtual-layer-plus-net-device.cc:3366-3372); from then on the timer restarts itself for ever, and nobody cancels it. `HelloRegions`
  are those regions and `helloing` the vehicles whose timer runs. As `m_region` starts at 0, a vehicle's first
  location is a region change too, hence `Init`. Elsewhere a vehicle that never was in `HelloRegions` is in no
  host table, `BackUpsNeeded` is 0 and nobody asks to be a backup, however long it stays.
* The LeaderRequest that is sent with the first Hello, and its answer, restart heartbeats and change no backup. A leader's heartbeats begin
  with its first region change, so the leader of region 0 would have none; the model has no such region.

**Time.** Packets arrive, and the random wait of a request (up to 0.5 s) ends, long before a heartbeat (2 s) or
a purge (1 s): the two timers of a region's leader wait for `Quiet`. Within that, requests and packets of
several vehicles interleave in any order. A packet that a region change has overtaken is still delivered or dropped.

**Fairness**: weak, for each leader's timers, each vehicle's timer, the Hello of a vehicle *whose Hello timer runs*, and the packets
of each region, as the simulator's event queue guarantees: none of these is postponed for ever by what happens in another
region. A vehicle that is not in `helloing` sends none. Movement and loss are unfair.

**Run** `VnBackup`: a vehicle that stays in region A, one that starts in C, where Hellos do not begin, and drives to B and on to A at any
time, also in the middle of its synchronisation in B, one packet lost at any time; `HelloRegions` are A and B. 112 000 states. It shows: the types, and that a vehicle which asks
for a place or has one knows its priority (`TypeOK`); no table names a vehicle or a priority twice (`TablesInOrder`);
who is listed as synced anywhere has received a leader's data (`SyncedAreSync`); what is not synced is due to be purged
(`PendingIsPurged`); and a region of `HelloRegions` in which a vehicle stays has a synced backup for good from some moment on (`RegionIsBackedUp`), whatever the loss:
a lost SyncAck is repaired by the table that the vehicle sends at the next heartbeat. Two vehicles are the least that compete for
a priority; with two hosts one backup is needed, so one of them is turned away. The run does not check for deadlock: nothing depends on it, as heartbeats never stop.

`RegionIsBackedUp` says nothing of the other regions, where it is false for the reason above. It is about vehicles that arrive and stay. With vehicles that leave and return it fails (section 9).

### Theorems (`VnBackupProofs`)

For any number of vehicles and regions, any map and any losses, under `BackupConstantsOK`. `IInv` is `TypeOK`,
`TablesInOrder`, `SyncedAreSync`, `PendingIsPurged` and *packets tell the truth*: a SyncAck on its way comes from a vehicle in SYNC,
a table on its way is in order and names synced vehicles only. Without the last part the reception of either breaks
the others. That vehicles never leave SYNC is not assumed: `GiveUp` happens in REQUESTING only. The lemmas on `PutBackUp` and `SyncBackUp`
(`PutKeepsOrder`, `SyncKeepsOrder`, `PutAndSync`) carry the argument on tables, and each action has a lemma of its own.
`TypeCorrect`, `TablesStayInOrder`, `SyncedReceivedTheData` and `PendingEntriesArePurged` follow. `RegionIsBackedUp` is only model-checked.

## 7. LogAnalysis

The scripts read a log line by line and keep counters. The log is generated and read in one step: an action is a
line that a node may write at this time together with what each script does with it. `sim` chooses whether the log is one of
the SCMA simulation, read by `procesaNodo` and `procesa` at once so that their results can be compared, or one of
the AODV simulation, read by `procesaVnAodv` (`procesaDirecta` reads lines in the same way).

* A leader writes only its CloudResourceInfo packets; a vehicle writes everything else, TaskFinished or
  M_DownloadComplete only if it has begun and not ended (`begun`), which is what section 4 establishes for SCMA.
* `eventos` and `infos` model Python's references: `eventos[nodo]` is replaced by a *new* dictionary, while the old
  one lives on in `evtTaskFinished`. `TOTALES` is *one* dictionary under all keys of `procesa`'s `datosNodo`.
* `eventoInt` is set by transmissions only and is looked at by receptions, of whatever node.
* Bytes move with packets; a packet counts one. `logPackets`, by which `procesa` prints lines, is left out.

**Run** `LogScripts`: two vehicles and a leader, every log of six lines. It shows: `TypeOK`, by which no download takes a negative time;
no lookup fails before the end of the file (`NoKeyError`); the download times of a node fit into the log (`TimesFitTheLog`); the two scripts find
the same downloads and the same total time, though one keeps references to what it goes on changing (`ScriptsAgree`);
a leader's answers count once in a whole log (`LeadersCountOnce`).
Six lines allow two complete downloads with packets in between, by one vehicle or both. Deadlock is not checked: a script ends.

### Theorems (`LogAnalysisProofs`)

For any nodes, any times and any length of the log, under `LogConstantsOK`. The invariant `IInv` adds to `TypeOK`, `NoKeyError` and `TimesFitTheLog` that
a node that has begun has a start time and a dictionary and that its past times end before that start; so the next
one is added to a sum that fits before it. `TypeCorrect`, `NeverAKeyError` and `DownloadTimesFit`
follow. `AnswersCountOnce` rests on a second invariant: the flag of a leader is set by its first answer, and only lines of vehicles clear flags,
their own.

`ScriptsAgree` is about sums over nodes and noted downloads. `SumLemmas` proves for the sums of the module
Functions that the order of the elements does not matter: how a sum changes with one summand (`SumOneChanges`) and with one more element (`SumAppends`).
They are inductions, on the natural numbers (`Induction`) and on the subsets of a finite set (`SubsetInduction`); the library's induction theorems take an operator
as a parameter, so these are derived from the existence of a least element of a set of numbers (`Least`), that is from
`NatLessThanWellFounded`. With them `ScriptsAlwaysAgree` (`ScriptsAgree`) follows from the invariant `AgreeInv`. A node with something begun has a dictionary
that no other node with something begun has and that is not in `evtTaskFinished` (`Separate`); so the end of a task, which changes a dictionary through
a reference, changes none that has been noted, and adds the same time to both sums. That there are finitely many nodes is
the first part of `LogConstantsOK`.

## 8. Mutants

Every property of a passing run has a faulty definition, `Mut_X`, placed above the
one it replaces: a dropped test, an off-by-one, a reset or a re-arming forgotten. The property fails with it.
They show which piece of the code each property depends on.

## 9. Where the code departs from what it says

With a run (PROJECT.json, "findings"):

* `AppRange`. `TimeoutResourceRequest` tests for the end of the table
  *before* it scans for a missing chunk. With fewer missing chunks than collaborators the scan runs off
  the end and tasks are handed out for chunks that do not exist.
* `AppPremature`. The retry timer of the last report is not cancelled when
  a new task is accepted; when it fires it reports the *new* chunk, whose download is still running,
  and leaves EXECUTINGTASK.
* `ScmaFatal`. A vehicle that noted a CloudRelease while it downloads schedules
  T_IncompleteTaskAck in the inner `StateCollaboration` and again when that returns.
* `ScmaUntimed`. A task refused during a download stays in `RecvMsg`; back in INITIAL
  the vehicle takes it for a new one, goes to COLLABORATION with no timer running, and
  refuses everything from then on. Driving through an intersection during
  a download leads to the same state.
* `ScmaFinished`. A host reports with two messages: `RecvPkt` counts its ResourceInfoFromCN (:668), and `StateTaskReception` its
  CompleteTask (:326). So a task for two hosts counts as finished when one of them has reported.

Met while modelling, and not given a run:

* AppDescarga: a CompleteTask does not say which download it answers, and it is recorded in any TASKRECEPTION. One that arrives after
  the next window fills a chunk of the new table that nobody has been asked for, and `isDownloadComplete` counts it (section 3 has
  the times by which this can happen). A late ack of an earlier report stops the resending of the present one
  (`AckedIsRecorded` fails without `Prompt`). An app node lists a vehicle twice if, during its window, the
  vehicle gives up and answers the other app node's next request; it then sends it tasks for two chunks per round, one of which is
  refused. A collaborator that answered and got no task stays in TASKWAIT, since T_StopCollabotarion is never started. An app node
  whose collaborators have all given up sends them tasks for ever, the list
  being emptied by a restart only.
* SCMA: with two requesters in one table a second abort is possible (end of section 4). A refused task replaces
  `responseIp`, to which the present download is then reported. `Distribution` stays 3 after the
  first round, so later rounds run T_ResourceRequest during the reception, which ends it
  after 4 s. With an uninitialised `Distribution` above 3 and no usable host, TASKDISTRIBUTION
  is never left. The ack of a report sent before a vehicle became a requester cancels its own
  reception. `CompleteTaskCounter` (scma-statemachine.h:55) is never initialised and keeps what a round that `ExpireReception` ended had counted.
* IBR: the comment on TIME_INCOMING_PACKET says "restart pingpong as watchdog", but with
  IBR_DEBUG_PINGPONG_NODE set to 555 `TimerIncomingPacket` does nothing, and the exchange ends
  with the first list lost (so `listLost` in `ExchangeGoesOn` and `TablesConverge`). With UINT32_MAX
  the 5 s are less than a round trip: further lists are started (`OneList` fails with `Watchdog`),
  and since every leader in range takes over the direction of any list, they may turn each other round.
* Backups: `PutBackUp` erases a synced entry of equal priority, though its own comment says that synced entries have
  priority over the others ("Los sincronizados tienen prioridad"); two requests of equal priority erase each other's entry. A
  region change keeps state, table and a running timer, so an entry's priority need not be the one its vehicle has. When vehicles leave
  and return, one may be in SYNC but listed nowhere, its own entry erased by one of equal priority; and a departed vehicle's
  entry at the front of a table keeps the others from asking: `RegionIsBackedUp` fails. A leader never
  drops the entry of a vehicle that has left (BackUpLeft is sent by commented-out code only), so a synced backup may be out of
  reach. `PurgeBackUp` and `PutBackUp` step back from the first element of a list after erasing it, which is undefined.
* Scripts: `procesa.py` stores one and the same dictionary under every node, where its comment says "sumamos los totales por nodo"
  (l. 28), so it reports the total of all nodes for each. What it notes at a TaskDistribution are the counts *before* the
  download. The end of any node's download ends the printing of lines for all. In `procesaNodo.py` whether a reception is counted depends on
  the last transmission of any node; before the first one the name is unbound. A leader's answers count once
  per log. Without a finished download the averages fail: a lookup in an empty dictionary, or a division by
  zero. `procesaVnAodv.py` divides integers (l. 163) and converts afterwards. `procesaDirecta.py` looks up
  'app-overhead' (l. 268), whose assignment is commented out.

## 10. What is not modelled

* VirtualLayerPlus: the election of leaders, relinquishment and multiple leaders, which the simulations switch off (`SetLeader(true)` fixes the leaders and
  vehicles never ask for the lead); the queue and forwarding of data packets, positions.
* AODV: third-party code (ns-3), adapted to check regions. AppDescarga sees it as packets that are lost, delayed and
  reordered; that it delivers at all is assumed where fairness says so.
* VNR: no simulation installs it. Headers: byte layouts; messages are records of the fields
  that are read. `ibr-header` and `ibr-routing-table` are not used by the protocol.
* IBR: moving leaders; the packet types IbrHostToIntersection and IbrResourceRequest, which nothing originates.
* Mobility, radio, IP fragmentation of the simulated traffic, statistics; the averages that the scripts print.
* `generador.py`, which writes configuration files and runs programs one after the other; helpers, examples.
* The generated Python bindings (`modulegen__gcc_*.py`, `callbacks_list.py`). They are most of the repository's Python, but they
  only list class and method names for a binding generator: there is no behaviour to model.
* uint8_t loop counters over collaborators (256 vehicles in range) and the width of the counters, which
  no simulated scenario comes near.
