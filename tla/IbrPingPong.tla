----------------------------- MODULE IbrPingPong -----------------------------
(***************************************************************************)
(* The host discovery of src/src/ibr: the "ping-pong" by which the fixed   *)
(* leaders of a way segment pass the list of its hosts from one end to the *)
(* other and back, one region per second, so that the leaders of the two   *)
(* intersections at its ends know them.  A leader that accepts the list    *)
(* arms a timer; when it fires the leader puts its own hosts into the list *)
(* and broadcasts it with the direction it travels in.  A region next to   *)
(* an intersection (level 2) turns it round.                               *)
(***************************************************************************)
EXTENDS Integers, Sequences, FiniteSets, Functions

CONSTANTS
    WsTable,     \* the IbrWaysegmentTable: a sequence of wayMembers
    Starters,    \* the regions whose leaders may start (all, or IBR_DEBUG_PINGPONG_NODE's)
    Watchdog,    \* TRUE: IBR_DEBUG_PINGPONG_NODE is UINT32_MAX
    Hosts,       \* the vehicles
    Places,      \* where they are in the beginning
    NoIp,        \* ibr_ip, which nothing assigns
    MaxMoves,    \* bound: the vehicles change regions so often
    MaxLosses    \* bound: the radio loses so many packets

None == -1

ASSUME IbrConstants ==
    /\ \A i \in DOMAIN WsTable : DOMAIN WsTable[i] = {"region", "level", "ws", "prev", "next"}
    /\ Watchdog \in BOOLEAN
    /\ IsFiniteSet(Hosts) /\ NoIp \notin Hosts
    /\ Places \subseteq {WsTable[i].region : i \in DOMAIN WsTable}
    /\ {MaxMoves, MaxLosses} \subseteq Nat

VARIABLES
    started,    \* TimerPingPongStart has run in the region
    dir,        \* hostListSyncDirection: TRUE towards the previous regions
    discovery,  \* ibr_hostsTableDiscovery
    tSync,      \* m_timerSyncHostsRegion is running
    tIncoming,  \* m_timerIncomingPacket is running
    net,        \* the packets on their way, one for each that hears a broadcast
    known,      \* the table ReceiveHostsTableIbr was given last
    hosts,      \* the virtual layer's ibr_hostsTable
    at,         \* where each vehicle is
    moves,      \* so many region changes so far
    lost,       \* so many packets lost so far
    listLost    \* the packet that was to hand the list on was one of them

radio == <<net, known, lost, listLost>>
road  == <<hosts, at, moves>>
vars  == <<started, dir, discovery, tSync, tIncoming, radio, road>>

-----------------------------------------------------------------------------
(* IbrWaysegmentTable.  An intersection has an entry for each of its way    *)
(* segments; a lookup by region alone finds the first.                     *)

Regions == {WsTable[i].region : i \in DOMAIN WsTable}

Entries(r) == {i \in DOMAIN WsTable : WsTable[i].region = r}
First(r) == WsTable[CHOOSE i \in Entries(r) : \A j \in Entries(r) : i <= j]

getRegionLevel(r) == First(r).level
getWaySegment(r) == First(r).ws

GetRxSourceRegion(d, r) == IF d THEN First(r).next ELSE First(r).prev

isL2Region(r, d) ==
    \E i \in Entries(r) :
        /\ WsTable[i].level = 2
        /\ LET n == IF d THEN WsTable[i].next ELSE WsTable[i].prev
           IN  n \in Regions /\ getRegionLevel(n) = 1

IsIntersectionNeighbour(r, s, d) ==
    \E i \in Entries(r) :
        \/ ~d /\ WsTable[i].next = s /\ WsTable[i].prev = None
        \/ d /\ WsTable[i].prev = s /\ WsTable[i].next = None

isRegionInWaySegment(r, ws) == \E i \in Entries(r) : WsTable[i].ws = ws

\* Between the intersections of a way segment no two regions have the same neighbour
\* on the same side.
ASSUME WaySegmentsArePaths ==
    \A d \in BOOLEAN : \A s, t \in Regions :
        /\ getRegionLevel(s) > 1 /\ getRegionLevel(t) > 1
        /\ getWaySegment(s) = getWaySegment(t)
        /\ GetRxSourceRegion(d, s) = GetRxSourceRegion(d, t)
        /\ GetRxSourceRegion(d, s) \in Regions
        => s = t

\* All entries of a region have its level, and only an intersection, of level 1, has
\* several of them, or a side where its way segment ends.  What lies beyond one end of
\* a region between intersections, and is one, has the region on that side; such a
\* region has level 2, and no intersection at its other end.
ASSUME IntersectionsEndWays ==
    /\ \A i \in DOMAIN WsTable :
          /\ WsTable[i].level = getRegionLevel(WsTable[i].region)
          /\ WsTable[i].level > 1 => WsTable[i] = First(WsTable[i].region)
          /\ None \in {WsTable[i].prev, WsTable[i].next} => WsTable[i].level = 1
    /\ \A r, q \in Regions, d \in BOOLEAN :
          getRegionLevel(r) > 1 /\ getRegionLevel(q) = 1 =>
          /\ getWaySegment(q) = getWaySegment(r) /\ GetRxSourceRegion(d, q) = r
             => GetRxSourceRegion(~d, r) = q
          /\ GetRxSourceRegion(d, r) = q
             => /\ getRegionLevel(r) = 2
                /\ \A s \in Regions : GetRxSourceRegion(~d, r) = s => getRegionLevel(s) # 1

-----------------------------------------------------------------------------
(* The host lists.                                                         *)

HostEntry(ws, region, leaderIp, hostIp) ==
    [ws |-> ws, region |-> region, leaderIp |-> leaderIp, hostIp |-> hostIp]

Swapped(e) == [e EXCEPT !.leaderIp = e.hostIp, !.hostIp = e.leaderIp]

OfRegion(list, r) == {e \in Range(list) : e.region = r}
OfSegment(list, ws) == {e \in Range(list) : e.ws = ws}
OfHost(list, ip) == {e \in Range(list) : e.hostIp = ip}

(* for (i = begin; i != end; ++i) if (doomed(i)) i = erase(i);  skips what  *)
(* follows an erased entry.  One pass, and whether it erased the last one: *)
(* then ++i, undefined, takes libstdc++ from the end to the beginning.     *)
Pass(list, doomed) ==
    LET gone[i \in DOMAIN list] == list[i] \in doomed /\ (i = 1 \/ ~gone[i - 1])
        kept[i \in 0 .. Len(list)] ==
            IF i = 0 THEN <<>> ELSE IF gone[i] THEN kept[i - 1] ELSE Append(kept[i - 1], list[i])
    IN  [list |-> kept[Len(list)], again |-> list # <<>> /\ gone[Len(list)]]

Erase(list, doomed) ==
    LET after[k \in 0 .. Len(list)] ==
            IF k = 0 THEN [list |-> list, again |-> TRUE]
            ELSE LET last == after[k - 1]
                 IN  IF last.again THEN Pass(last.list, doomed) ELSE last
    IN  after[Len(list)].list

\* std::list::unique with operator==, which compares the host addresses.
Unique(list) ==
    LET kept[i \in 0 .. Len(list)] ==
            IF i = 0 THEN <<>>
            ELSE IF i > 1 /\ list[i].hostIp = list[i - 1].hostIp THEN kept[i - 1]
            ELSE Append(kept[i - 1], list[i])
    IN  kept[Len(list)]

-----------------------------------------------------------------------------
Init ==
    /\ started = [r \in Regions |-> FALSE]
    /\ dir = [r \in Regions |-> FALSE]
    /\ discovery = [r \in Regions |-> <<>>]
    /\ tSync = [r \in Regions |-> FALSE]
    /\ tIncoming = [r \in Regions |-> FALSE]
    /\ net = {}
    /\ known = [r \in Regions |-> <<>>]
    /\ hosts = [r \in Regions |-> <<>>]
    /\ at \in [Hosts -> Places]
    /\ moves = 0
    /\ lost = 0
    /\ listLost = FALSE

\* All timers started with the simulation fire at 1 s, before the first list is sent.
Started == \A r \in Regions : started[r]

\* A packet takes far less than any of the timers.
Quiet == Started /\ net = {}

\* PingPongStart; its timer takes one to two seconds.
PingPongStart(r) == tSync' = [tSync EXCEPT ![r] = @ \/ r \in Starters]

TimerPingPongStart(r) ==
    /\ ~started[r]
    /\ started' = [started EXCEPT ![r] = TRUE]
    /\ IF isL2Region(r, TRUE)
       THEN PingPongStart(r) /\ tIncoming' = [tIncoming EXCEPT ![r] = r \in Starters]
       ELSE UNCHANGED <<tSync, tIncoming>>
    /\ UNCHANGED <<dir, discovery, radio, road>>

\* The watchdog, 5 s after the last list: a timer armed by that list has fired.
TimerIncomingPacket(r) ==
    /\ Quiet /\ tIncoming[r] /\ ~tSync[r]
    /\ IF Watchdog THEN PingPongStart(r) /\ UNCHANGED tIncoming
                   ELSE tIncoming' = [tIncoming EXCEPT ![r] = FALSE] /\ UNCHANGED tSync
    /\ UNCHANGED <<started, dir, discovery, radio, road>>

\* The leader's own hosts.  The call that makes an entry swaps the two addresses.
OwnEntries(r) ==
    [i \in DOMAIN hosts[r] |-> HostEntry(getWaySegment(r), r, hosts[r][i], NoIp)]

\* What it passes on: the list without what it said of this region before.
Mut_AddedAgain(r) == discovery[r] \o OwnEntries(r)
Refreshed(r) == Erase(discovery[r], OfRegion(discovery[r], r)) \o OwnEntries(r)

Mut_TurnsAtIntersection(r) == getRegionLevel(r) = 1
TurnsRound(r) == getRegionLevel(r) = 2

TimerSyncHostTable(r) ==
    /\ Quiet /\ tSync[r]
    /\ tSync' = [tSync EXCEPT ![r] = FALSE]
    /\ LET list == Refreshed(r)
           d == dir[r] # TurnsRound(r)
       IN  /\ discovery' = [discovery EXCEPT ![r] = list]
           /\ dir' = [dir EXCEPT ![r] = d]
           /\ net' = {[dst |-> s, ws |-> getWaySegment(r), region |-> r, dir |-> d, hosts |-> list]
                        : s \in Regions \ {r}}
    /\ UNCHANGED <<started, tIncoming, known, lost, listLost, road>>

-----------------------------------------------------------------------------
(* RecvIbr and RecvPacket.                                                 *)

\* The list comes along the way segment from the region before this one.
Mut_FromBothSides(m) ==
    /\ getWaySegment(m.dst) = m.ws
    /\ m.region \in {GetRxSourceRegion(d, m.dst) : d \in BOOLEAN}

Accepted(m) ==
    /\ getWaySegment(m.dst) = m.ws
    /\ m.region = GetRxSourceRegion(m.dir, m.dst)

\* The leaders between the intersections pass it on.
HandsOn(m) == Accepted(m) /\ getRegionLevel(m.dst) > 1

Mut_SegmentKept(list, m) == list
WithoutSegment(list, m) == Erase(list, OfSegment(list, m.ws))

Mut_HostKept(list, ip) == list
WithoutHost(list, ip) == Erase(list, OfHost(list, ip))

\* An intersection's list with the received one in place of what it had of that
\* segment.  ibr_hostsTable, which would add the intersection's own hosts, is only
\* assigned by TimerSyncHostTable, and so empty here.
Merged(list, m) ==
    LET after[i \in 0 .. Len(m.hosts)] ==
            IF i = 0 THEN WithoutSegment(list, m)
            ELSE Append(WithoutHost(after[i - 1], m.hosts[i].leaderIp), Swapped(m.hosts[i]))
        all == after[Len(m.hosts)]
    IN  Unique(Erase(all, OfRegion(all, m.dst)))

RecvPacket(m) ==
    /\ dir' = [dir EXCEPT ![m.dst] = m.dir]
    /\ tSync' = [tSync EXCEPT ![m.dst] = @ \/ HandsOn(m)]
    /\ LET list == IF Accepted(m) THEN m.hosts ELSE discovery[m.dst]
       IN  IF IsIntersectionNeighbour(m.dst, m.region, m.dir)
           THEN /\ discovery' = [discovery EXCEPT ![m.dst] = Merged(list, m)]
                /\ known' = [known EXCEPT ![m.dst] = Merged(list, m)]
           ELSE /\ discovery' = [discovery EXCEPT ![m.dst] = list]
                /\ UNCHANGED known

RecvIbr(m) ==
    /\ net' = net \ {m}
    /\ IF isRegionInWaySegment(m.dst, m.ws)
       THEN RecvPacket(m)
       ELSE UNCHANGED <<dir, discovery, tSync, known>>
    /\ UNCHANGED <<started, tIncoming, lost, listLost, road>>

\* The radio loses a packet (external).
Lose(m) ==
    /\ lost < MaxLosses
    /\ lost' = lost + 1
    /\ listLost' = (listLost \/ HandsOn(m))
    /\ net' = net \ {m}
    /\ UNCHANGED <<started, dir, discovery, tSync, tIncoming, known, road>>

-----------------------------------------------------------------------------
(* The virtual layer's host table.  No packet's reception reads it, so what *)
(* changes it need not be interleaved with receptions.                     *)

Listed(r, h) == \E i \in DOMAIN hosts[r] : hosts[r][i] = h

PutHost(r, h) ==
    /\ Quiet /\ at[h] = r /\ ~Listed(r, h)
    /\ hosts' = [hosts EXCEPT ![r] = Append(@, h)]
    /\ UNCHANGED <<started, dir, discovery, tSync, tIncoming, radio, at, moves>>

\* The entry of a vehicle that is no longer heard expires: the first of its address.
QuitHost(r, h) ==
    /\ Quiet /\ at[h] # r
    /\ \E i \in DOMAIN hosts[r] :
          /\ hosts[r][i] = h /\ \A j \in 1 .. i - 1 : hosts[r][j] # h
          /\ hosts' = [hosts EXCEPT ![r] = SubSeq(@, 1, i - 1) \o SubSeq(@, i + 1, Len(@))]
    /\ UNCHANGED <<started, dir, discovery, tSync, tIncoming, radio, at, moves>>

\* A vehicle drives into a neighbouring region (external).
Move(h, r) ==
    /\ Quiet /\ moves < MaxMoves
    /\ \E i \in Entries(at[h]) : r \in {WsTable[i].prev, WsTable[i].next} \cap Regions
    /\ at' = [at EXCEPT ![h] = r]
    /\ moves' = moves + 1
    /\ UNCHANGED <<started, dir, discovery, tSync, tIncoming, radio, hosts>>

-----------------------------------------------------------------------------
\* The receptions of one broadcast touch one region each and commute: in one order.
IsNext(m) == \A n \in net : m.dst <= n.dst

Next ==
    \/ \E r \in Regions :
          TimerPingPongStart(r) \/ TimerIncomingPacket(r) \/ TimerSyncHostTable(r)
    \/ \E m \in net : IsNext(m) /\ (RecvIbr(m) \/ Lose(m))
    \/ \E r \in Regions, h \in Hosts : PutHost(r, h) \/ QuitHost(r, h) \/ Move(h, r)

Spec == Init /\ [][Next]_vars

\* Timers fire, hosts are heard and forgotten, and what is on its way arrives or is
\* lost; vehicles need not move and packets need not get lost.
Fairness ==
    /\ WF_vars(\E r \in Regions : TimerPingPongStart(r))
    /\ SF_vars(\E r \in Regions : TimerSyncHostTable(r))
    /\ SF_vars(\E r \in Regions : TimerIncomingPacket(r))
    /\ SF_vars(\E r \in Regions, h \in Hosts : PutHost(r, h) \/ QuitHost(r, h))
    /\ []<>(net = {})

FairSpec == Spec /\ Fairness

-----------------------------------------------------------------------------
\* Type invariant: a leader replaces what the list said of its region, so that the list
\* cannot grow from round to round.  The loop that erases it leaves every other one of
\* adjacent entries, hence MaxList entries of a region, not one of each vehicle.
MaxList == 2 * Cardinality(Hosts)

EntriesOf(list, q) == {i \in DOMAIN list : list[i].region = q}

TypeOK ==
    /\ {started, dir, tSync, tIncoming} \subseteq [Regions -> BOOLEAN]
    /\ \A r, q \in Regions : Cardinality(EntriesOf(discovery[r], q)) <= MaxList
    /\ \A r \in Regions : Len(known[r]) <= Cardinality(Hosts)

\* The leaders that hold the list, or are about to accept it.
Holders ==
    {r \in Regions : tSync[r]} \cup
    {m.dst : m \in {n \in net : HandsOn(n)}}

\* One list travels in the way segment: RecvPacket takes it from the side it comes
\* from only, so no broadcast is passed on by both neighbours of its sender.
OneList == Cardinality(Holders) <= 1

\* The list travels for ever, unless the packet that hands it on is lost: each end gets
\* it again and again, as TimerSyncHostTable turns it round there.
ExchangeGoesOn ==
    \A r \in Regions : getRegionLevel(r) = 2 => []<>(tSync[r] \/ listLost)

\* The hosts in the way segment between the intersections.
OnTheWay == {h \in Hosts : getRegionLevel(at[h]) > 1}
KnownHosts(r) == {known[r][i].hostIp : i \in DOMAIN known[r]}

\* When the vehicles stop, both intersections come to know all that are between them,
\* whatever else is lost, unless the list stopped.
TablesConverge ==
    \A r \in Regions : getRegionLevel(r) = 1 => <>[](KnownHosts(r) = OnTheWay \/ listLost)

\* An intersection's table names no vehicle twice, though two regions may list it while
\* it moves: RecvPacket erases what it had of each host it adds.
NoHostTwice ==
    \A r \in Regions : Len(known[r]) = Cardinality(KnownHosts(r))
=============================================================================
