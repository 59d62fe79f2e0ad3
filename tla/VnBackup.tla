------------------------------ MODULE VnBackup ------------------------------
(***************************************************************************)
(* Backups of the region leaders, as the virtual layer of                  *)
(* virtual-layer-plus-net-device.cc keeps them in the simulations: every   *)
(* region has a fixed leader (SetLeader), a vehicle is NONLEADER for ever  *)
(* (TimerHeartbeatExpire resets m_expires, so it never asks for the lead), *)
(* Multiple_Leaders is false, and no node sends a BackUpLeft.              *)
(*                                                                         *)
(* A region stands for its leader.  A backup table is a set: the list of   *)
(* the code is in the order of CompareBackUpEntries, synced entries first  *)
(* and by priority within, since PutBackUp inserts there and SyncBackUp    *)
(* sorts; with distinct priorities the set determines it.                  *)
(*                                                                         *)
(* Time: packets arrive long before a heartbeat period (2 s) or the purge  *)
(* of a table (1 s) is over, the random wait of a request (up to 0.5 s)    *)
(* has ended by then too, but two waits may end while a packet is on its   *)
(* way.                                                                    *)
(*                                                                         *)
(* A definition Mut_X is a faulty version of the one below it.             *)
(***************************************************************************)
EXTENDS Integers, FiniteSets

CONSTANTS
    Vehicles,
    Regions,
    Home,          \* the region each vehicle starts in
    HelloRegions,  \* SCMA_DEBUG_REGION and the two before it, where Hellos begin
    Roads,         \* bound: the moves <<from, to>> between regions
    Drivers,       \* bound: the vehicles that move
    MaxLosses      \* bound: the packets that get lost

ASSUME BackupConstantsOK ==
    /\ Vehicles \cap Regions = {}
    /\ IsFiniteSet(Vehicles)
    /\ Home \in [Vehicles -> Regions]
    /\ HelloRegions \subseteq Regions
    /\ Roads \subseteq Regions \X Regions
    /\ Drivers \subseteq Vehicles
    /\ MaxLosses \in Nat

Nodes == Vehicles \cup Regions

VARIABLES
    region,          \* m_region of each vehicle
    backUpTable,     \* m_backUpTable of each node
    backUpState,     \* m_backUpState of each vehicle
    backUpPriority,  \* m_backUpPriority of each vehicle
    waiting,         \* the leader whose heartbeat scheduled m_timerBackUpRequest of a vehicle
    purging,         \* the leaders whose m_timerBackUpRequest runs
    helloing,        \* the vehicles whose m_timerHello runs
    hosts,           \* m_hostsTable of each leader
    net,             \* the packets in flight, one for each receiver
    losses

vars == <<region, backUpTable, backUpState, backUpPriority, waiting, purging, helloing, hosts,
          net, losses>>

-----------------------------------------------------------------------------
Unset == -1       \* UINT32_MAX
Nobody == "nobody"

Entry == [ip : Vehicles, isSynced : BOOLEAN, priority : Nat]

Packet ==
    [type : {"Heartbeat"}, to : Vehicles, region : Regions, numBackUp : Nat, backUpsNeeded : Nat]
    \cup [type : {"SyncRequest", "SyncAck"}, to : Nodes, src : Vehicles, region : Regions, priority : Nat]
    \cup [type : {"SyncData"}, to : Vehicles, region : Regions]
    \cup [type : {"SyncTable"}, to : Regions, region : Regions, table : SUBSET Entry]

\* The types; a vehicle that asks for a place or has one knows its priority.
TypeOK ==
    /\ region \in [Vehicles -> Regions]
    /\ backUpTable \in [Nodes -> SUBSET Entry]
    /\ backUpState \in [Vehicles -> {"NONE", "REQUESTING", "SYNC"}]
    /\ backUpPriority \in [Vehicles -> Nat \cup {Unset}]
    /\ \A v \in Vehicles : backUpState[v] # "NONE" => backUpPriority[v] \in Nat
    /\ waiting \in [Vehicles -> Regions \cup {Nobody}]
    /\ purging \subseteq Regions
    /\ helloing \subseteq Vehicles
    /\ hosts \in [Regions -> SUBSET Vehicles]
    /\ net \subseteq Packet
    /\ losses \in 0 .. MaxLosses

\* m_region starts at 0, so the first location is a region change for a vehicle.
Init ==
    /\ region = Home
    /\ helloing = {v \in Vehicles : Home[v] \in HelloRegions}
    /\ backUpTable = [n \in Nodes |-> {}]
    /\ backUpState = [v \in Vehicles |-> "NONE"]
    /\ backUpPriority = [v \in Vehicles |-> Unset]
    /\ waiting = [v \in Vehicles |-> Nobody]
    /\ purging = {} /\ net = {} /\ losses = 0
    /\ hosts = [r \in Regions |-> {}]

-----------------------------------------------------------------------------
(* The backup table.                                                       *)

\* An entry of the same priority goes, synced or not; a known vehicle keeps its entry.
Mut_AnyPriority(t, p) == t
WithoutPriority(t, p) == {e \in t : e.priority # p}

Mut_PutSynced(t, v, p) ==
    IF \E e \in t : e.ip = v THEN WithoutPriority(t, p)
    ELSE WithoutPriority(t, p) \cup {[ip |-> v, isSynced |-> TRUE, priority |-> p]}
PutBackUp(t, v, p) ==
    LET rest == WithoutPriority(t, p)
    IN  IF \E e \in rest : e.ip = v THEN rest
        ELSE rest \cup {[ip |-> v, isSynced |-> FALSE, priority |-> p]}

SyncBackUp(t, v) == {IF e.ip = v THEN [e EXCEPT !.isSynced = TRUE] ELSE e : e \in t}

Mut_LoadsNothing(t, received) == t
LoadBackUpTable(t, received) == received

PurgeBackUp(t) == {e \in t : e.isSynced}

\* The front of the list: CompareBackUpEntries.
Front(t, e) ==
    /\ e \in t
    /\ \A f \in t : \/ e.isSynced /\ ~f.isSynced
                    \/ e.isSynced = f.isSynced /\ e.priority <= f.priority

-----------------------------------------------------------------------------
\* SetBackUpsNeeded: half of the hosts, rounded up.  The leader table of a fixed
\* leader is empty.
BackUpsNeeded(r) == (Cardinality(hosts[r]) + 1) \div 2

\* A broadcast in region r by one of its vehicles.
Others(v) == {n \in Vehicles \ {v} : region[n] = region[v]} \cup {region[v]}

\* No packet of region r is on its way.
Quiet(r) == \A p \in net : p.region # r

TimerHeartbeatExpire(r) ==
    /\ Quiet(r) /\ r \notin purging /\ \A v \in Vehicles : waiting[v] # r
    /\ net' = net \cup {[type |-> "Heartbeat", to |-> v, region |-> r,
                numBackUp |-> Cardinality(backUpTable[r]), backUpsNeeded |-> BackUpsNeeded(r)]
               : v \in {u \in Vehicles : region[u] = r}}
    /\ UNCHANGED <<region, backUpTable, backUpState, backUpPriority, waiting, purging, helloing,
                   hosts, losses>>

\* The vehicle asks to be a backup, unless it has been told in the meantime.
TimerBackUpRequestExpire(v) ==
    /\ waiting[v] # Nobody
    /\ waiting' = [waiting EXCEPT ![v] = Nobody]
    /\ net' = IF backUpState[v] # "REQUESTING" THEN net
              ELSE net \cup [type : {"SyncRequest"}, to : Others(v), src : {v},
                             region : {region[v]}, priority : {backUpPriority[v]}]
    /\ UNCHANGED <<region, backUpTable, backUpState, backUpPriority, purging, helloing, hosts,
                   losses>>

\* The leader forgets who has not acknowledged.
TimerPurgeExpire(r) ==
    /\ r \in purging /\ Quiet(r) /\ \A v \in Vehicles : waiting[v] # r
    /\ purging' = purging \ {r}
    /\ backUpTable' = [backUpTable EXCEPT ![r] = PurgeBackUp(@)]
    /\ UNCHANGED <<region, backUpState, backUpPriority, waiting, helloing, hosts, net,
                   losses>>

-----------------------------------------------------------------------------
(* Reception.  A packet of another region is dropped.                      *)

Where(n) == IF n \in Vehicles THEN region[n] ELSE n

Arrives(p, types) ==
    /\ p \in net /\ p.type \in types /\ Where(p.to) = p.region
    /\ UNCHANGED <<region, helloing, hosts, losses>>

Drop(p) ==
    /\ p \in net /\ Where(p.to) # p.region
    /\ net' = net \ {p}
    /\ UNCHANGED <<region, backUpTable, backUpState, backUpPriority, waiting, purging, helloing,
                   hosts, losses>>

\* The synced priority backup restores the table of a leader that has none.
MaySync(v) == \E e \in backUpTable[v] : Front(backUpTable[v], e) /\ e.isSynced

Mut_KeepsAsking(v) ==
    /\ backUpPriority' = [backUpPriority EXCEPT ![v] = Unset]
    /\ waiting' = [waiting EXCEPT ![v] = Nobody]
    /\ UNCHANGED backUpState
GiveUp(v) ==
    /\ backUpState' = [backUpState EXCEPT ![v] = "NONE"]
    /\ backUpPriority' = [backUpPriority EXCEPT ![v] = Unset]
    /\ waiting' = [waiting EXCEPT ![v] = Nobody]

RecvHeartbeat(p) ==
    LET v == p.to
    IN  /\ Arrives(p, {"Heartbeat"})
        /\ \/ /\ p.numBackUp = 0 /\ MaySync(v)
              /\ net' = (net \ {p}) \cup
                    (IF \E e \in backUpTable[v] : Front(backUpTable[v], e) /\ e.ip = v
                     THEN {[type |-> "SyncTable", to |-> p.region, region |-> p.region,
                            table |-> backUpTable[v]]}
                     ELSE {})
              /\ UNCHANGED <<backUpState, backUpPriority, waiting>>
           \/ /\ ~(p.numBackUp = 0 /\ MaySync(v))
              /\ net' = net \ {p}
              /\ IF p.numBackUp < p.backUpsNeeded
                 THEN IF backUpState[v] = "SYNC"
                      THEN UNCHANGED <<backUpState, backUpPriority, waiting>>
                      ELSE /\ backUpState' = [backUpState EXCEPT ![v] = "REQUESTING"]
                           /\ backUpPriority' = [backUpPriority EXCEPT ![v] = p.numBackUp]
                           /\ waiting' = [waiting EXCEPT ![v] = p.region]
                 ELSE IF backUpState[v] # "REQUESTING"
                      THEN UNCHANGED <<backUpState, backUpPriority, waiting>>
                      ELSE GiveUp(v)
        /\ UNCHANGED <<backUpTable, purging>>

\* A leader that needs it takes the vehicle in and starts its purge anew.
Mut_NeverPurges(r) == purging
Purges(r) == purging \cup {r}

RecvSyncRequest(p) ==
    /\ Arrives(p, {"SyncRequest"})
    /\ \/ /\ p.to \in Regions /\ Cardinality(backUpTable[p.to]) < BackUpsNeeded(p.to)
          /\ backUpTable' = [backUpTable EXCEPT ![p.to] = PutBackUp(@, p.src, p.priority)]
          /\ net' = (net \ {p}) \cup {[type |-> "SyncData", to |-> p.src, region |-> p.region]}
          /\ purging' = Purges(p.to)
          /\ UNCHANGED backUpPriority
       \/ /\ p.to \in Regions /\ Cardinality(backUpTable[p.to]) >= BackUpsNeeded(p.to)
          /\ net' = net \ {p}
          /\ UNCHANGED <<backUpTable, purging, backUpPriority>>
       \* A vehicle that is about to ask too takes the next priority.
       \/ /\ p.to \in Vehicles
          /\ backUpPriority' = IF backUpState[p.to] = "REQUESTING" /\ waiting[p.to] # Nobody
                               THEN [backUpPriority EXCEPT ![p.to] = @ + 1] ELSE backUpPriority
          /\ net' = net \ {p}
          /\ UNCHANGED <<backUpTable, purging>>
    /\ UNCHANGED <<backUpState, waiting>>

RecvSyncData(p) ==
    LET v == p.to
    IN  /\ Arrives(p, {"SyncData"})
        /\ IF backUpState[v] = "REQUESTING"
           THEN /\ backUpState' = [backUpState EXCEPT ![v] = "SYNC"]
                /\ backUpTable' = [backUpTable EXCEPT
                                     ![v] = SyncBackUp(PutBackUp(@, v, backUpPriority[v]), v)]
                /\ net' = (net \ {p}) \cup [type : {"SyncAck"}, to : Others(v), src : {v},
                                            region : {region[v]}, priority : {backUpPriority[v]}]
           ELSE net' = net \ {p} /\ UNCHANGED <<backUpState, backUpTable>>
        /\ UNCHANGED <<backUpPriority, waiting, purging>>

\* The table of the leader's backup replaces its own.
RecvSyncTable(p) ==
    /\ Arrives(p, {"SyncTable"})
    /\ backUpTable' = [backUpTable EXCEPT ![p.to] = LoadBackUpTable(@, p.table)]
    /\ net' = net \ {p}
    /\ UNCHANGED <<backUpState, backUpPriority, waiting, purging>>

RecvSyncAck(p) ==
    /\ Arrives(p, {"SyncAck"})
    /\ backUpTable' = [backUpTable EXCEPT
                         ![p.to] = SyncBackUp(PutBackUp(@, p.src, p.priority), p.src)]
    /\ net' = net \ {p}
    /\ UNCHANGED <<backUpState, backUpPriority, waiting, purging>>

-----------------------------------------------------------------------------
\* A vehicle in another region keeps all it had, its running timers too.  Only in
\* HelloRegions does it begin to send Hellos, and it never ceases.
Move(v, r) ==
    /\ v \in Drivers /\ <<region[v], r>> \in Roads
    /\ region' = [region EXCEPT ![v] = r]
    /\ helloing' = IF r \in HelloRegions THEN helloing \cup {v} ELSE helloing
    /\ UNCHANGED <<backUpTable, backUpState, backUpPriority, waiting, purging, hosts, net, losses>>

\* A Hello puts the vehicle in the table of its leader and out of all others; one
\* that is lost is followed by another within seconds.
Hello(v) ==
    /\ v \in helloing
    /\ hosts' = [r \in Regions |-> IF region[v] = r THEN hosts[r] \cup {v} ELSE hosts[r] \ {v}]
    /\ UNCHANGED <<region, backUpTable, backUpState, backUpPriority, waiting, purging, helloing,
                   net, losses>>

\* A vehicle that has gone out of range of its old leader.
TimerLifeHostEntryExpire(r, v) ==
    /\ v \in hosts[r] /\ region[v] # r
    /\ hosts' = [hosts EXCEPT ![r] = @ \ {v}]
    /\ UNCHANGED <<region, backUpTable, backUpState, backUpPriority, waiting, purging, helloing,
                   net, losses>>

Lose(p) ==
    /\ losses < MaxLosses /\ p \in net
    /\ net' = net \ {p} /\ losses' = losses + 1
    /\ UNCHANGED <<region, backUpTable, backUpState, backUpPriority, waiting, purging, helloing,
                   hosts>>

RecvPkt(p) ==
    \/ RecvHeartbeat(p) \/ RecvSyncRequest(p) \/ RecvSyncData(p)
    \/ RecvSyncTable(p) \/ RecvSyncAck(p) \/ Drop(p)

Next ==
    \/ \E r \in Regions : TimerHeartbeatExpire(r) \/ TimerPurgeExpire(r)
    \/ \E v \in Vehicles : TimerBackUpRequestExpire(v) \/ Hello(v)
    \/ \E v \in Vehicles, r \in Regions : Move(v, r) \/ TimerLifeHostEntryExpire(r, v)
    \/ \E p \in net : RecvPkt(p) \/ Lose(p)

Spec == Init /\ [][Next]_vars

\* Timers expire, packets that are not lost arrive, and vehicles that have begun to
\* send Hellos go on.
Fairness ==
    /\ \A r \in Regions :
          /\ WF_vars(TimerHeartbeatExpire(r)) /\ WF_vars(TimerPurgeExpire(r))
          /\ WF_vars(\E p \in net : p.region = r /\ RecvPkt(p))
    /\ \A v \in Vehicles : WF_vars(TimerBackUpRequestExpire(v)) /\ WF_vars(Hello(v))

FairSpec == Spec /\ Fairness

-----------------------------------------------------------------------------
InOrder(t) == \A e, f \in t : e.ip = f.ip \/ e.priority = f.priority => e = f

\* No table names a vehicle twice or gives two vehicles the same priority.
TablesInOrder == \A n \in Nodes : InOrder(backUpTable[n])

\* Whoever is listed as synced has received the leader's data.
SyncedAreSync ==
    \A n \in Nodes : \A e \in backUpTable[n] : e.isSynced => backUpState[e.ip] = "SYNC"

\* An entry that is not synced will be purged; a vehicle has none.
PendingIsPurged ==
    \A n \in Nodes : \A e \in backUpTable[n] : ~e.isSynced => n \in purging

\* A region that vehicles stay in gets a synced backup, and keeps having one, if it
\* is one in which Hellos begin: in others the leader may never hear of a vehicle.
RegionIsBackedUp ==
    \A r \in HelloRegions :
       (\E v \in Vehicles \ Drivers : Home[v] = r) =>
          <>[](\E e \in backUpTable[r] : e.isSynced)
=============================================================================
