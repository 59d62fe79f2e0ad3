--------------------------- MODULE VnBackupProofs ---------------------------
(* Proofs about VnBackup, for every set of vehicles, regions, roads and     *)
(* number of losses.                                                        *)
EXTENDS VnBackup, FiniteSetTheorems, TLAPS

-----------------------------------------------------------------------------
(* The operations on a table.                                              *)

\* Putting a vehicle in a table keeps the table in order; no other entry is new.
LEMMA PutKeepsOrder ==
    ASSUME NEW t \in SUBSET Entry, InOrder(t), NEW v \in Vehicles, NEW p \in Nat
    PROVE  /\ PutBackUp(t, v, p) \in SUBSET Entry
           /\ InOrder(PutBackUp(t, v, p))
           /\ \A e \in PutBackUp(t, v, p) : e \in t \/ (e.ip = v /\ ~e.isSynced)
<1>. DEFINE new == [ip |-> v, isSynced |-> FALSE, priority |-> p]
            rest == WithoutPriority(t, p)
<1>1. /\ rest \in SUBSET Entry /\ InOrder(rest) /\ rest \subseteq t
      /\ \A e \in rest : e.priority # p
  BY DEF WithoutPriority, InOrder
<1>2. new \in Entry /\ new.ip = v /\ ~new.isSynced /\ new.priority = p
  BY DEF Entry
<1>3. PutBackUp(t, v, p) = IF \E e \in rest : e.ip = v THEN rest ELSE rest \cup {new}
  BY DEF PutBackUp
<1>. HIDE DEF new, rest
<1>4. CASE \E e \in rest : e.ip = v
  BY <1>1, <1>3, <1>4
<1>5. CASE ~\E e \in rest : e.ip = v
  <2>1. InOrder(rest \cup {new})
    BY <1>1, <1>2, <1>5 DEF InOrder
  <2> QED
    BY <2>1, <1>1, <1>2, <1>3, <1>5
<1> QED
  BY <1>4, <1>5

\* Marking a vehicle as synced keeps the table in order and leaves the others alone.
LEMMA SyncKeepsOrder ==
    ASSUME NEW t \in SUBSET Entry, InOrder(t), NEW v \in Vehicles
    PROVE  /\ SyncBackUp(t, v) \in SUBSET Entry
           /\ InOrder(SyncBackUp(t, v))
           /\ \A e \in SyncBackUp(t, v) : (e.ip = v /\ e.isSynced) \/ (e.ip # v /\ e \in t)
<1>. DEFINE s(e) == IF e.ip = v THEN [e EXCEPT !.isSynced = TRUE] ELSE e
<1>1. \A e \in t : /\ s(e) \in Entry /\ s(e).ip = e.ip /\ s(e).priority = e.priority
                   /\ e.ip = v => s(e).isSynced
                   /\ e.ip # v => s(e) = e
  BY DEF Entry
<1>2. SyncBackUp(t, v) = {s(e) : e \in t}
  BY DEF SyncBackUp
<1>. HIDE DEF s
<1>3. InOrder({s(e) : e \in t})
  <2>. SUFFICES ASSUME NEW e \in t, NEW f \in t,
                       s(e).ip = s(f).ip \/ s(e).priority = s(f).priority
                PROVE  s(e) = s(f)
    BY DEF InOrder
  <2> QED
    BY <1>1 DEF InOrder
<1> QED
  BY <1>1, <1>2, <1>3

\* What SyncAck and SyncData do to a table: the vehicle is in as synced.
LEMMA PutAndSync ==
    ASSUME NEW t \in SUBSET Entry, InOrder(t), NEW v \in Vehicles, NEW p \in Nat
    PROVE  /\ SyncBackUp(PutBackUp(t, v, p), v) \in SUBSET Entry
           /\ InOrder(SyncBackUp(PutBackUp(t, v, p), v))
           /\ \A e \in SyncBackUp(PutBackUp(t, v, p), v) :
                 (e.isSynced /\ e.ip = v) \/ e \in t
<1>. DEFINE put == PutBackUp(t, v, p)
<1>1. /\ put \in SUBSET Entry /\ InOrder(put)
      /\ \A e \in put : e \in t \/ (e.ip = v /\ ~e.isSynced)
  BY PutKeepsOrder
<1>. HIDE DEF put
<1>2. /\ SyncBackUp(put, v) \in SUBSET Entry /\ InOrder(SyncBackUp(put, v))
      /\ \A e \in SyncBackUp(put, v) : (e.ip = v /\ e.isSynced) \/ (e.ip # v /\ e \in put)
  BY <1>1, SyncKeepsOrder
<1> QED
  BY <1>1, <1>2 DEF put

\* A table in order is finite, as the vehicles are.
LEMMA FiniteTable ==
    ASSUME NEW t \in SUBSET Entry, InOrder(t)
    PROVE  IsFiniteSet(t) /\ Cardinality(t) \in Nat
<1>. DEFINE f == [e \in t |-> e.ip]
<1>1. f \in Injection(t, Vehicles)
  BY DEF Injection, IsInjective, InOrder, Entry
<1>2. IsFiniteSet(t)
  BY <1>1, BackupConstantsOK, FS_Injection
<1> QED
  BY <1>2, FS_CardinalityType

LEMMA NeededIsNat ==
    ASSUME TypeOK, NEW r \in Regions
    PROVE  BackUpsNeeded(r) \in Nat
<1>1. hosts[r] \in SUBSET Vehicles
  BY DEF TypeOK
<1>2. Cardinality(hosts[r]) \in Nat
  BY <1>1, BackupConstantsOK, FS_Subset, FS_CardinalityType
<1>3. \A n \in Nat : (n + 1) \div 2 \in Nat
  BY SMT
<1> QED
  BY <1>2, <1>3 DEF BackUpsNeeded

-----------------------------------------------------------------------------
(***************************************************************************)
(* The inductive invariant: the packets on their way tell the truth too.   *)
(* An acknowledgement is from a synced vehicle, and a table sent to a      *)
(* leader is in order and names synced vehicles only.                      *)
(***************************************************************************)
Tells(p) ==
    /\ p.type = "SyncAck" => backUpState[p.src] = "SYNC"
    /\ p.type = "SyncTable" =>
          /\ InOrder(p.table)
          /\ \A e \in p.table : e.isSynced /\ backUpState[e.ip] = "SYNC"

IInv ==
    /\ TypeOK
    /\ TablesInOrder
    /\ SyncedAreSync
    /\ PendingIsPurged
    /\ \A p \in net : Tells(p)

\* The fields of a packet, by its type.
LEMMA PacketFields ==
    ASSUME NEW p \in Packet
    PROVE  /\ p.region \in Regions
           /\ p.type \in {"Heartbeat", "SyncRequest", "SyncAck", "SyncData", "SyncTable"}
           /\ p.type = "Heartbeat" => p.to \in Vehicles /\ p.numBackUp \in Nat
           /\ p.type = "SyncRequest" => p.to \in Nodes /\ p.src \in Vehicles /\ p.priority \in Nat
           /\ p.type = "SyncAck" => p.to \in Nodes /\ p.src \in Vehicles /\ p.priority \in Nat
           /\ p.type = "SyncData" => p.to \in Vehicles
           /\ p.type = "SyncTable" => p.to \in Regions /\ p.table \in SUBSET Entry
BY DEF Packet

\* No step takes a vehicle out of SYNC.
Kept == \A v \in Vehicles : backUpState[v] = "SYNC" => backUpState'[v] = "SYNC"

\* A step that leaves the tables alone.
LEMMA SameTables ==
    ASSUME IInv, TypeOK', Kept, UNCHANGED <<backUpTable, purging>>,
           \A p \in net' : p \in net \/ Tells(p)'
    PROVE  IInv'
<1>1. \A n \in Nodes : \A e \in backUpTable[n] : e.ip \in Vehicles
  BY DEF IInv, TypeOK, Entry
<1>2. TablesInOrder' /\ SyncedAreSync' /\ PendingIsPurged'
  BY <1>1 DEF IInv, TablesInOrder, SyncedAreSync, PendingIsPurged, Kept
<1>3. ASSUME NEW p \in net PROVE Tells(p)'
  <2>1. Tells(p) /\ p \in Packet
    BY DEF IInv, TypeOK
  <2>2. p.type = "SyncTable" => \A e \in p.table : e.ip \in Vehicles
    BY <2>1, PacketFields DEF Entry
  <2> QED
    BY <2>1, <2>2, PacketFields DEF Tells, Kept
<1> QED
  BY <1>2, <1>3 DEF IInv

\* A step that writes one table.
LEMMA OneTable ==
    ASSUME IInv, TypeOK', Kept, purging \subseteq purging',
           NEW n \in Nodes, NEW t \in SUBSET Entry, InOrder(t),
           backUpTable' = [backUpTable EXCEPT ![n] = t],
           \A e \in t : IF e.isSynced THEN backUpState'[e.ip] = "SYNC" ELSE n \in purging',
           \A p \in net' : p \in net \/ Tells(p)'
    PROVE  IInv'
<1>1. \A x \in Nodes : \A e \in backUpTable[x] : e.ip \in Vehicles
  BY DEF IInv, TypeOK, Entry
<1>2. \A x \in Nodes : backUpTable'[x] = IF x = n THEN t ELSE backUpTable[x]
  BY DEF IInv, TypeOK
<1>3. TablesInOrder'
  BY <1>2 DEF IInv, TablesInOrder
<1>4. SyncedAreSync'
  BY <1>1, <1>2 DEF IInv, SyncedAreSync, Kept
<1>5. PendingIsPurged'
  BY <1>2 DEF IInv, PendingIsPurged
<1>6. ASSUME NEW p \in net PROVE Tells(p)'
  <2>1. Tells(p) /\ p \in Packet
    BY DEF IInv, TypeOK
  <2>2. p.type = "SyncTable" => \A e \in p.table : e.ip \in Vehicles
    BY <2>1, PacketFields DEF Entry
  <2> QED
    BY <2>1, <2>2, PacketFields DEF Tells, Kept
<1> QED
  BY <1>3, <1>4, <1>5, <1>6 DEF IInv

-----------------------------------------------------------------------------
(* The timers, the vehicles and the network.                               *)

LEMMA HeartbeatStep ==
    ASSUME IInv, NEW r \in Regions, TimerHeartbeatExpire(r)
    PROVE  IInv'
<1>. DEFINE sent == {[type |-> "Heartbeat", to |-> v, region |-> r,
                      numBackUp |-> Cardinality(backUpTable[r]), backUpsNeeded |-> BackUpsNeeded(r)]
                     : v \in {u \in Vehicles : region[u] = r}}
<1>1. Cardinality(backUpTable[r]) \in Nat
  BY FiniteTable DEF IInv, TypeOK, TablesInOrder, Nodes
<1>2. BackUpsNeeded(r) \in Nat
  BY NeededIsNat DEF IInv
<1>3. sent \subseteq Packet /\ \A p \in sent : p.type = "Heartbeat"
  BY <1>1, <1>2 DEF Packet
<1>4. net' = net \cup sent
  BY DEF TimerHeartbeatExpire
<1>. HIDE DEF sent
<1>5. TypeOK'
  BY <1>3, <1>4 DEF IInv, TypeOK, TimerHeartbeatExpire
<1>6. \A p \in sent : Tells(p)'
  BY <1>3 DEF Tells
<1> QED
  BY <1>4, <1>5, <1>6, SameTables DEF TimerHeartbeatExpire, Kept

LEMMA RequestStep ==
    ASSUME IInv, NEW v \in Vehicles, TimerBackUpRequestExpire(v)
    PROVE  IInv'
<1>. DEFINE sent == [type : {"SyncRequest"}, to : Others(v), src : {v},
                     region : {region[v]}, priority : {backUpPriority[v]}]
<1>1. Others(v) \subseteq Nodes /\ region[v] \in Regions
  BY DEF IInv, TypeOK, Others, Nodes
<1>2. backUpState[v] = "REQUESTING" => sent \subseteq Packet
  BY <1>1 DEF IInv, TypeOK, Packet
<1>3. \A p \in sent : p.type = "SyncRequest"
  OBVIOUS
<1>4. net' = net \/ (backUpState[v] = "REQUESTING" /\ net' = net \cup sent)
  BY DEF TimerBackUpRequestExpire
<1>. HIDE DEF sent
<1>5. TypeOK'
  BY <1>2, <1>4 DEF IInv, TypeOK, TimerBackUpRequestExpire
<1>6. \A p \in net' : p \in net \/ Tells(p)'
  BY <1>3, <1>4 DEF Tells
<1> QED
  BY <1>5, <1>6, SameTables DEF TimerBackUpRequestExpire, Kept

LEMMA PurgeStep ==
    ASSUME IInv, NEW r \in Regions, TimerPurgeExpire(r)
    PROVE  IInv'
<1>1. TypeOK'
  BY DEF IInv, TypeOK, TimerPurgeExpire, PurgeBackUp, Nodes
<1>2. \A n \in Nodes : backUpTable'[n] = IF n = r THEN PurgeBackUp(backUpTable[r]) ELSE backUpTable[n]
  BY DEF IInv, TypeOK, TimerPurgeExpire, Nodes
<1>3. TablesInOrder'
  BY <1>2 DEF IInv, TablesInOrder, InOrder, PurgeBackUp
<1>4. SyncedAreSync'
  BY <1>2 DEF IInv, SyncedAreSync, PurgeBackUp, TimerPurgeExpire
<1>5. PendingIsPurged'
  <2>. SUFFICES ASSUME NEW n \in Nodes, NEW e \in backUpTable'[n], ~e.isSynced
                PROVE  n \in purging'
    BY DEF PendingIsPurged
  <2>1. n # r
    BY <1>2 DEF PurgeBackUp
  <2>2. e \in backUpTable[n]
    BY <1>2, <2>1
  <2>3. n \in purging
    BY <2>2 DEF IInv, PendingIsPurged
  <2> QED
    BY <2>1, <2>3 DEF TimerPurgeExpire
<1>6. \A p \in net' : Tells(p)'
  BY DEF IInv, Tells, TimerPurgeExpire
<1> QED
  BY <1>1, <1>3, <1>4, <1>5, <1>6 DEF IInv

\* Vehicles that drive or say hello, host entries that expire and packets that
\* are dropped or lost.
LEMMA SurroundingsStep ==
    ASSUME IInv,
           \/ \E v \in Vehicles : Hello(v)
           \/ \E v \in Vehicles, r \in Regions : Move(v, r) \/ TimerLifeHostEntryExpire(r, v)
           \/ \E p \in net : Drop(p) \/ Lose(p)
    PROVE  IInv'
<1>1. ASSUME NEW v \in Vehicles, Hello(v) PROVE IInv'
  <2>1. TypeOK'
    BY <1>1 DEF IInv, TypeOK, Hello
  <2> QED
    BY <1>1, <2>1, SameTables DEF Hello, Kept
<1>2. ASSUME NEW v \in Vehicles, NEW r \in Regions, Move(v, r) PROVE IInv'
  <2>1. TypeOK'
    BY <1>2 DEF IInv, TypeOK, Move
  <2> QED
    BY <1>2, <2>1, SameTables DEF Move, Kept
<1>3. ASSUME NEW v \in Vehicles, NEW r \in Regions, TimerLifeHostEntryExpire(r, v) PROVE IInv'
  <2>1. TypeOK'
    BY <1>3 DEF IInv, TypeOK, TimerLifeHostEntryExpire
  <2> QED
    BY <1>3, <2>1, SameTables DEF TimerLifeHostEntryExpire, Kept
<1>4. ASSUME NEW p \in net, Drop(p) PROVE IInv'
  <2>1. TypeOK'
    BY <1>4 DEF IInv, TypeOK, Drop
  <2> QED
    BY <1>4, <2>1, SameTables DEF Drop, Kept
<1>5. ASSUME NEW p \in net, Lose(p) PROVE IInv'
  <2>1. TypeOK'
    BY <1>5, BackupConstantsOK DEF IInv, TypeOK, Lose
  <2> QED
    BY <1>5, <2>1, SameTables DEF Lose, Kept
<1> QED
  BY <1>1, <1>2, <1>3, <1>4, <1>5

-----------------------------------------------------------------------------
(* Reception.                                                              *)

LEMMA RecvHeartbeatStep ==
    ASSUME IInv, NEW p \in net, RecvHeartbeat(p)
    PROVE  IInv'
<1>. DEFINE v == p.to
            table == [type |-> "SyncTable", to |-> p.region, region |-> p.region,
                      table |-> backUpTable[v]]
<1>1. p \in Packet /\ v \in Vehicles /\ p.region \in Regions /\ p.numBackUp \in Nat
  BY PacketFields DEF IInv, TypeOK, RecvHeartbeat, Arrives
<1>2. UNCHANGED <<region, helloing, hosts, losses, backUpTable, purging>>
  BY DEF RecvHeartbeat, Arrives
<1>3. CASE p.numBackUp = 0 /\ MaySync(v)
  <2>1. net' \subseteq net \cup {table} /\ UNCHANGED <<backUpState, backUpPriority, waiting>>
    BY <1>3 DEF RecvHeartbeat
  <2>2. \A e \in backUpTable[v] : e.isSynced
    BY <1>1, BackupConstantsOK DEF IInv, PendingIsPurged, TypeOK, Nodes
  <2>3. table \in Packet
    BY <1>1 DEF IInv, TypeOK, Packet, Nodes
  <2>4. InOrder(backUpTable[v]) /\ \A e \in backUpTable[v] : backUpState[e.ip] = "SYNC"
    BY <1>1, <2>2 DEF IInv, TablesInOrder, SyncedAreSync, Nodes
  <2>5. ASSUME NEW q, q = table PROVE Tells(q)'
    BY <2>5, <1>2, <2>1, <2>2, <2>4 DEF Tells
  <2>. HIDE DEF table
  <2>6. TypeOK'
    BY <1>2, <2>1, <2>3 DEF IInv, TypeOK
  <2>7. \A q \in net' : q \in net \/ Tells(q)'
    <3>. SUFFICES ASSUME NEW q \in net', q \notin net PROVE Tells(q)'
      OBVIOUS
    <3>1. q = table
      BY <2>1
    <3> QED
      BY <2>5, <3>1
  <2>8. Kept
    BY <2>1 DEF Kept
  <2> QED
    BY <1>2, <2>6, <2>7, <2>8, SameTables
<1>4. CASE ~(p.numBackUp = 0 /\ MaySync(v))
  <2>1. net' = net \ {p}
    BY <1>4 DEF RecvHeartbeat
  <2>2. \/ UNCHANGED <<backUpState, backUpPriority, waiting>>
        \/ /\ backUpState[v] # "SYNC"
           /\ backUpState' = [backUpState EXCEPT ![v] = "REQUESTING"]
           /\ backUpPriority' = [backUpPriority EXCEPT ![v] = p.numBackUp]
           /\ waiting' = [waiting EXCEPT ![v] = p.region]
        \/ backUpState[v] = "REQUESTING" /\ GiveUp(v)
    BY <1>4 DEF RecvHeartbeat
  <2>3. TypeOK'
    BY <1>1, <1>2, <2>1, <2>2 DEF IInv, TypeOK, GiveUp
  <2>4. Kept
    BY <2>2 DEF Kept, IInv, TypeOK, GiveUp
  <2> QED
    BY <1>2, <2>1, <2>3, <2>4, SameTables
<1> QED
  BY <1>3, <1>4

LEMMA RecvSyncRequestStep ==
    ASSUME IInv, NEW p \in net, RecvSyncRequest(p)
    PROVE  IInv'
<1>1. /\ p \in Packet /\ p.to \in Nodes /\ p.src \in Vehicles
      /\ p.region \in Regions /\ p.priority \in Nat
  BY PacketFields DEF IInv, TypeOK, RecvSyncRequest, Arrives
<1>2. UNCHANGED <<region, helloing, hosts, losses, backUpState, waiting>>
  BY DEF RecvSyncRequest, Arrives
<1>3. CASE /\ p.to \in Regions
           /\ backUpTable' = [backUpTable EXCEPT ![p.to] = PutBackUp(@, p.src, p.priority)]
           /\ net' = (net \ {p}) \cup {[type |-> "SyncData", to |-> p.src, region |-> p.region]}
           /\ purging' = Purges(p.to)
           /\ UNCHANGED backUpPriority
  <2>. DEFINE t == PutBackUp(backUpTable[p.to], p.src, p.priority)
              data == [type |-> "SyncData", to |-> p.src, region |-> p.region]
  <2>1. backUpTable[p.to] \in SUBSET Entry /\ InOrder(backUpTable[p.to])
    BY <1>1 DEF IInv, TypeOK, TablesInOrder
  <2>2. /\ t \in SUBSET Entry /\ InOrder(t)
        /\ \A e \in t : e \in backUpTable[p.to] \/ (e.ip = p.src /\ ~e.isSynced)
    BY <1>1, <2>1, PutKeepsOrder
  <2>3. data \in Packet /\ data.type = "SyncData"
    BY <1>1 DEF Packet
  <2>4. backUpTable' = [backUpTable EXCEPT ![p.to] = t] /\ net' = (net \ {p}) \cup {data}
    BY <1>3
  <2>. HIDE DEF t, data
  <2>5. purging' = purging \cup {p.to}
    BY <1>3 DEF Purges
  <2>6. TypeOK'
    BY <1>1, <1>2, <1>3, <2>2, <2>3, <2>4, <2>5 DEF IInv, TypeOK
  <2>7. Tells(data)'
    BY <2>3 DEF Tells
  <2>8. \A e \in t : IF e.isSynced THEN backUpState'[e.ip] = "SYNC" ELSE p.to \in purging'
    BY <1>1, <1>2, <2>2, <2>5 DEF IInv, SyncedAreSync
  <2> QED
    BY <1>1, <1>2, <2>2, <2>4, <2>5, <2>6, <2>7, <2>8, OneTable DEF Kept
<1>4. CASE /\ UNCHANGED <<backUpTable, purging>> /\ net' = net \ {p}
           /\ \/ UNCHANGED backUpPriority
              \/ /\ backUpState[p.to] = "REQUESTING" /\ p.to \in Vehicles
                 /\ backUpPriority' = [backUpPriority EXCEPT ![p.to] = @ + 1]
  <2>1. TypeOK'
    BY <1>2, <1>4 DEF IInv, TypeOK
  <2> QED
    BY <1>2, <1>4, <2>1, SameTables DEF Kept
<1> QED
  BY <1>3, <1>4 DEF RecvSyncRequest

\* What an acknowledged place does to a table.
LEMMA SyncedPlace ==
    ASSUME IInv, TypeOK', Kept, NEW n \in Nodes, NEW v \in Vehicles, NEW q \in Nat,
           backUpTable' = [backUpTable EXCEPT ![n] = SyncBackUp(PutBackUp(@, v, q), v)],
           UNCHANGED purging, backUpState'[v] = "SYNC",
           \A p \in net' : p \in net \/ Tells(p)'
    PROVE  IInv'
<1>. DEFINE t == SyncBackUp(PutBackUp(backUpTable[n], v, q), v)
<1>1. backUpTable[n] \in SUBSET Entry /\ InOrder(backUpTable[n])
  BY DEF IInv, TypeOK, TablesInOrder
<1>2. /\ t \in SUBSET Entry /\ InOrder(t)
      /\ \A e \in t : (e.isSynced /\ e.ip = v) \/ e \in backUpTable[n]
  BY <1>1, PutAndSync
<1>. HIDE DEF t
<1>3. ASSUME NEW e \in t
      PROVE  IF e.isSynced THEN backUpState'[e.ip] = "SYNC" ELSE n \in purging'
  <2>1. CASE e.isSynced /\ e.ip = v
    BY <2>1
  <2>2. CASE e \in backUpTable[n]
    <3>1. e.ip \in Vehicles
      BY <1>2 DEF Entry
    <3> QED
      BY <2>2, <3>1 DEF IInv, SyncedAreSync, PendingIsPurged, Kept
  <2> QED
    BY <1>2, <2>1, <2>2
<1>4. backUpTable' = [backUpTable EXCEPT ![n] = t]
  BY DEF t
<1> QED
  BY <1>2, <1>3, <1>4, OneTable

\* The type of a table after an acknowledged place.
LEMMA SyncedPlaceType ==
    ASSUME IInv, NEW n \in Nodes, NEW v \in Vehicles, NEW q \in Nat
    PROVE  [backUpTable EXCEPT ![n] = SyncBackUp(PutBackUp(@, v, q), v)] \in [Nodes -> SUBSET Entry]
<1>. DEFINE t == SyncBackUp(PutBackUp(backUpTable[n], v, q), v)
<1>1. backUpTable[n] \in SUBSET Entry /\ InOrder(backUpTable[n])
  BY DEF IInv, TypeOK, TablesInOrder
<1>2. t \in SUBSET Entry
  BY <1>1, PutAndSync
<1>. HIDE DEF t
<1>3. [backUpTable EXCEPT ![n] = t] \in [Nodes -> SUBSET Entry]
  BY <1>2 DEF IInv, TypeOK
<1> QED
  BY <1>3 DEF t

LEMMA RecvSyncAckStep ==
    ASSUME IInv, NEW p \in net, RecvSyncAck(p)
    PROVE  IInv'
<1>1. p \in Packet /\ p.to \in Nodes /\ p.src \in Vehicles /\ p.priority \in Nat
  BY PacketFields DEF IInv, TypeOK, RecvSyncAck, Arrives
<1>2. backUpState[p.src] = "SYNC"
  BY DEF IInv, Tells, RecvSyncAck, Arrives
<1>3. /\ UNCHANGED <<region, helloing, hosts, losses, backUpState, backUpPriority, waiting, purging>>
      /\ net' = net \ {p}
      /\ backUpTable' = [backUpTable EXCEPT ![p.to] = SyncBackUp(PutBackUp(@, p.src, p.priority), p.src)]
  BY DEF RecvSyncAck, Arrives
<1>4. TypeOK'
  <2>1. backUpTable' \in [Nodes -> SUBSET Entry]
    BY <1>1, <1>3, SyncedPlaceType
  <2> QED
    BY <1>3, <2>1 DEF IInv, TypeOK
<1> QED
  BY <1>1, <1>2, <1>3, <1>4, SyncedPlace DEF Kept

LEMMA RecvSyncDataStep ==
    ASSUME IInv, NEW p \in net, RecvSyncData(p)
    PROVE  IInv'
<1>. DEFINE v == p.to
            sent == [type : {"SyncAck"}, to : Others(v), src : {v},
                     region : {region[v]}, priority : {backUpPriority[v]}]
<1>1. p \in Packet /\ v \in Vehicles /\ v \in Nodes
  BY PacketFields DEF IInv, TypeOK, RecvSyncData, Arrives, Nodes
<1>2. UNCHANGED <<region, helloing, hosts, losses, backUpPriority, waiting, purging>>
  BY DEF RecvSyncData, Arrives
<1>3. CASE backUpState[v] # "REQUESTING"
  <2>1. net' = net \ {p} /\ UNCHANGED <<backUpState, backUpTable>>
    BY <1>3 DEF RecvSyncData
  <2>2. TypeOK'
    BY <1>2, <2>1 DEF IInv, TypeOK
  <2> QED
    BY <1>2, <2>1, <2>2, SameTables DEF Kept
<1>4. CASE backUpState[v] = "REQUESTING"
  <2>1. /\ backUpState' = [backUpState EXCEPT ![v] = "SYNC"]
        /\ backUpTable' = [backUpTable EXCEPT ![v] = SyncBackUp(PutBackUp(@, v, backUpPriority[v]), v)]
        /\ net' = (net \ {p}) \cup sent
    BY <1>4 DEF RecvSyncData
  <2>2. backUpPriority[v] \in Nat
    BY <1>1, <1>4 DEF IInv, TypeOK
  <2>3. Others(v) \subseteq Nodes /\ region[v] \in Regions
    BY <1>1 DEF IInv, TypeOK, Others, Nodes
  <2>4. sent \subseteq Packet /\ \A q \in sent : q.type = "SyncAck" /\ q.src = v
    BY <1>1, <2>2, <2>3 DEF Packet
  <2>. HIDE DEF sent
  <2>5. backUpState'[v] = "SYNC" /\ Kept
    BY <1>1, <2>1 DEF IInv, TypeOK, Kept
  <2>6. TypeOK'
    <3>1. backUpTable' \in [Nodes -> SUBSET Entry]
      BY <1>1, <2>1, <2>2, SyncedPlaceType
    <3>2. /\ backUpState' \in [Vehicles -> {"NONE", "REQUESTING", "SYNC"}]
          /\ \A x \in Vehicles : backUpState'[x] # "NONE" => backUpPriority[x] \in Nat
      BY <1>1, <2>1, <2>2 DEF IInv, TypeOK
    <3> QED
      BY <1>2, <2>1, <2>4, <3>1, <3>2 DEF IInv, TypeOK
  <2>7. \A q \in sent : Tells(q)'
    BY <2>4, <2>5 DEF Tells
  <2> QED
    BY <1>1, <1>2, <2>1, <2>2, <2>5, <2>6, <2>7, SyncedPlace
<1> QED
  BY <1>3, <1>4

LEMMA RecvSyncTableStep ==
    ASSUME IInv, NEW p \in net, RecvSyncTable(p)
    PROVE  IInv'
<1>1. p \in Packet /\ p.to \in Nodes /\ p.table \in SUBSET Entry
  BY PacketFields DEF IInv, TypeOK, RecvSyncTable, Arrives, Nodes
<1>2. InOrder(p.table) /\ \A e \in p.table : e.isSynced /\ backUpState[e.ip] = "SYNC"
  BY DEF IInv, Tells, RecvSyncTable, Arrives
<1>3. /\ UNCHANGED <<region, helloing, hosts, losses, backUpState, backUpPriority, waiting, purging>>
      /\ net' = net \ {p} /\ backUpTable' = [backUpTable EXCEPT ![p.to] = p.table]
  BY DEF RecvSyncTable, LoadBackUpTable, Arrives
<1>4. TypeOK'
  BY <1>1, <1>3 DEF IInv, TypeOK
<1> QED
  BY <1>1, <1>2, <1>3, <1>4, OneTable DEF Kept

-----------------------------------------------------------------------------
LEMMA IInvInit == Init => IInv
BY BackupConstantsOK DEF Init, IInv, TypeOK, TablesInOrder, InOrder, SyncedAreSync,
                         PendingIsPurged, Nodes

LEMMA IInvNext == IInv /\ [Next]_vars => IInv'
<1>. SUFFICES ASSUME IInv, [Next]_vars PROVE IInv'
  OBVIOUS
<1>1. CASE UNCHANGED vars
  BY <1>1 DEF vars, IInv, TypeOK, TablesInOrder, SyncedAreSync, PendingIsPurged, Tells
<1>2. CASE Next
  <2>1. ASSUME NEW p \in net, RecvPkt(p) PROVE IInv'
    BY <2>1, RecvHeartbeatStep, RecvSyncRequestStep, RecvSyncDataStep, RecvSyncTableStep,
       RecvSyncAckStep, SurroundingsStep DEF RecvPkt
  <2> QED
    BY <1>2, <2>1, HeartbeatStep, PurgeStep, RequestStep, SurroundingsStep DEF Next
<1> QED
  BY <1>1, <1>2

\* The inductive invariant holds: tables and packets on their way agree with what
\* the vehicles have become, through losses and region changes.
THEOREM IInvHolds == Spec => []IInv
<1> QED
  BY IInvInit, IInvNext, PTL DEF Spec

\* The types are right, and whoever asks for a place or has one knows its priority.
THEOREM TypeCorrect == Spec => []TypeOK
<1>1. IInv => TypeOK
  BY DEF IInv
<1> QED
  BY <1>1, IInvHolds, PTL

\* No backup table names a vehicle twice or gives two vehicles the same priority,
\* so the list of the code has one order.
THEOREM TablesStayInOrder == Spec => []TablesInOrder
<1>1. IInv => TablesInOrder
  BY DEF IInv
<1> QED
  BY <1>1, IInvHolds, PTL

\* Whoever a leader or a vehicle lists as synced has received the leader's data.
THEOREM SyncedReceivedTheData == Spec => []SyncedAreSync
<1>1. IInv => SyncedAreSync
  BY DEF IInv
<1> QED
  BY <1>1, IInvHolds, PTL

\* Every entry that is not synced is a leader's, and that leader's purge is due.
THEOREM PendingEntriesArePurged == Spec => []PendingIsPurged
<1>1. IInv => PendingIsPurged
  BY DEF IInv
<1> QED
  BY <1>1, IInvHolds, PTL
=============================================================================
