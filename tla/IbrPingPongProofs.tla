-------------------------- MODULE IbrPingPongProofs --------------------------
(* Proofs about the exchange of host lists, for any layout of way segments, *)
(* any vehicles and any losses.                                            *)
EXTENDS IbrPingPong, SumLemmas, SequenceTheorems

\* The packets that a leader accepts and hands on.
Carriers == {m \in net : HandsOn(m)}

(***************************************************************************)
(* The inductive invariant.  Before the first list nothing is on its way   *)
(* and only a starter holds the list.  From then on the packets on their   *)
(* way are those of one broadcast, and the list is held by one leader or   *)
(* carried by one of them.                                                 *)
(***************************************************************************)
Unstarted ==
    ~Started => /\ net = {}
                /\ \A r \in Regions : tSync[r] => r \in Starters

OneHolder == \A r, s \in Holders : r = s

IInv ==
    /\ tSync \in [Regions -> BOOLEAN]
    /\ started \in [Regions -> BOOLEAN]
    /\ \A m \in net : m.dst \in Regions
    /\ Unstarted
    /\ OneHolder

\* Who holds the list: where a timer runs, or where a carrier goes.
LEMMA HolderOf ==
    ASSUME NEW x
    PROVE  x \in Holders <=> \/ x \in Regions /\ tSync[x]
                             \/ \E m \in net : HandsOn(m) /\ m.dst = x
BY DEF Holders

\* The same in the next state; HandsOn(m) depends on the layout only.
LEMMA HolderOfNext ==
    ASSUME NEW x
    PROVE  x \in Holders' <=> \/ x \in Regions /\ tSync'[x]
                              \/ \E m \in net' : HandsOn(m) /\ m.dst = x
BY DEF Holders, HandsOn, Accepted

\* A step that makes no new holder keeps the list in one place.
LEMMA NoNewHolder ==
    ASSUME OneHolder, Holders' \subseteq Holders
    PROVE  OneHolder'
BY DEF OneHolder

-----------------------------------------------------------------------------
\* At the start nobody holds a list; a starter may then.
LEMMA StartStep ==
    ASSUME IInv, Cardinality(Starters) <= 1, IsFiniteSet(Starters),
           NEW r \in Regions, TimerPingPongStart(r)
    PROVE  IInv'
<1>1. ~Started /\ net = {} /\ net' = {}
  BY DEF IInv, Unstarted, TimerPingPongStart, Started, radio
<1>2. tSync' \in [Regions -> BOOLEAN] /\ started' \in [Regions -> BOOLEAN]
  BY DEF IInv, TimerPingPongStart, PingPongStart
<1>3. \A s \in Regions : tSync'[s] => s \in Starters
  BY <1>1 DEF IInv, Unstarted, TimerPingPongStart, PingPongStart
<1>4. \A x \in Holders' : x \in Starters
  BY <1>1, <1>3, HolderOfNext
<1>5. \A x, y \in Starters : x = y
  BY FS_EmptySet, FS_Singleton, FS_CardinalityType, FS_RemoveElement
<1> QED
  BY <1>1, <1>2, <1>3, <1>4, <1>5 DEF IInv, Unstarted, OneHolder

\* The list is handed on: of all that hear the broadcast one accepts it.
LEMMA BroadcastStep ==
    ASSUME IInv, NEW r \in Regions, TimerSyncHostTable(r)
    PROVE  IInv'
<1>. DEFINE d == dir[r] # TurnsRound(r)
<1>1. Started /\ net = {} /\ tSync[r]
  BY DEF TimerSyncHostTable, Quiet
<1>2. tSync' = [tSync EXCEPT ![r] = FALSE] /\ UNCHANGED started
  BY DEF TimerSyncHostTable
<1>3. \A m \in net' : m.dst \in Regions /\ m.ws = getWaySegment(r) /\ m.region = r /\ m.dir = d
  BY DEF TimerSyncHostTable
<1>4. \A s \in Regions : ~tSync'[s]
  <2>1. \A s \in Regions : tSync[s] => s = r
    BY <1>1, HolderOf DEF IInv, OneHolder
  <2> QED
    BY <1>2, <2>1 DEF IInv
<1>5. \A m \in net' : HandsOn(m) => /\ getRegionLevel(m.dst) > 1
                                    /\ getWaySegment(m.dst) = getWaySegment(r)
                                    /\ GetRxSourceRegion(d, m.dst) = r
  BY <1>3 DEF HandsOn, Accepted
<1>6. \A m, n \in net' : HandsOn(m) /\ HandsOn(n) => m.dst = n.dst
  BY <1>3, <1>5, WaySegmentsArePaths
<1>7. \A x \in Holders' : \E m \in net' : HandsOn(m) /\ m.dst = x
  BY <1>4, HolderOfNext
<1>8. OneHolder'
  BY <1>6, <1>7 DEF OneHolder
<1> QED
  BY <1>1, <1>2, <1>3, <1>8 DEF IInv, Unstarted, Started

\* A leader that accepts the list holds it instead of the packet.
LEMMA ReceptionStep ==
    ASSUME IInv, NEW m \in net, RecvIbr(m)
    PROVE  IInv'
<1>1. m.dst \in Regions /\ Started /\ UNCHANGED started /\ net' = net \ {m}
  BY DEF IInv, Unstarted, RecvIbr
<1>2. \/ tSync' = [tSync EXCEPT ![m.dst] = @ \/ HandsOn(m)]
      \/ tSync' = tSync
  BY DEF RecvIbr, RecvPacket
<1>3. tSync' \in [Regions -> BOOLEAN]
  BY <1>1, <1>2 DEF IInv
<1>4. \A s \in Regions : tSync'[s] => tSync[s] \/ (HandsOn(m) /\ m.dst = s)
  BY <1>1, <1>2 DEF IInv
<1>5. Holders' \subseteq Holders
  BY <1>1, <1>4, HolderOf, HolderOfNext
<1>6. OneHolder'
  BY <1>5, NoNewHolder DEF IInv
<1> QED
  BY <1>1, <1>3, <1>6 DEF IInv, Unstarted, Started

\* What leaves the timers alone and sends nothing makes no holder.
LEMMA OtherStep ==
    ASSUME IInv, UNCHANGED <<tSync, started>>, net' \subseteq net
    PROVE  IInv'
<1>1. Holders' \subseteq Holders
  BY HolderOf, HolderOfNext
<1>2. OneHolder'
  BY <1>1, NoNewHolder DEF IInv
<1> QED
  BY <1>2 DEF IInv, Unstarted, Started

-----------------------------------------------------------------------------
\* Nobody holds a list in the beginning.
LEMMA InitIInv == Init => IInv
<1> SUFFICES ASSUME Init PROVE IInv
  OBVIOUS
<1>1. Holders = {}
  BY DEF Init, Holders
<1> QED
  BY <1>1 DEF Init, IInv, Unstarted, OneHolder

\* One step per action.
LEMMA NextIInv ==
    ASSUME ~Watchdog, IsFiniteSet(Starters), Cardinality(Starters) <= 1
    PROVE  IInv /\ [Next]_vars => IInv'
<1> SUFFICES ASSUME IInv, [Next]_vars PROVE IInv'
  OBVIOUS
<1>1. CASE \E r \in Regions : TimerPingPongStart(r)
  BY <1>1, StartStep
<1>2. CASE \E r \in Regions : TimerIncomingPacket(r)
  BY <1>2, OtherStep DEF TimerIncomingPacket, radio
<1>3. CASE \E r \in Regions : TimerSyncHostTable(r)
  BY <1>3, BroadcastStep
<1>4. CASE \E m \in net : RecvIbr(m)
  BY <1>4, ReceptionStep
<1>5. CASE \E m \in net : Lose(m)
  BY <1>5, OtherStep DEF Lose
<1>6. CASE \E r \in Regions, h \in Hosts : PutHost(r, h) \/ QuitHost(r, h) \/ Move(h, r)
  BY <1>6, OtherStep DEF PutHost, QuitHost, Move, radio
<1>7. CASE UNCHANGED vars
  BY <1>7, OtherStep DEF vars, radio
<1> QED
  BY <1>1, <1>2, <1>3, <1>4, <1>5, <1>6, <1>7 DEF Next

(***************************************************************************)
(* One list travels (OneList), as long as the watchdog is off and one      *)
(* region starts: as configured, IBR_DEBUG_PINGPONG_NODE names one node.   *)
(***************************************************************************)
THEOREM OneListTravels ==
    ASSUME ~Watchdog, IsFiniteSet(Starters), Cardinality(Starters) <= 1
    PROVE  Spec => []OneList
<1>1. IInv => OneList
  <2> SUFFICES ASSUME OneHolder PROVE OneList
    BY DEF IInv
  <2>1. CASE Holders = {}
    BY <2>1, FS_EmptySet DEF OneList
  <2>2. CASE \E x \in Holders : TRUE
    <3>1. PICK x \in Holders : TRUE
      BY <2>2
    <3>2. Holders = {x}
      BY <3>1 DEF OneHolder
    <3>3. Cardinality(Holders) = 1
      BY <3>2, FS_Singleton, Zenon
    <3> QED
      BY <3>3 DEF OneList
  <2> QED
    BY <2>1, <2>2
<1>2. IInv /\ [Next]_vars => IInv'
  BY NextIInv
<1> QED
  BY <1>1, <1>2, InitIInv, PTL DEF Spec

-----------------------------------------------------------------------------
(***************************************************************************)
(* The host lists.  What the loops over std::list do to a list is proved   *)
(* by induction along it.  Distinct says that no host is named twice.      *)
(***************************************************************************)
Distinct(list) == \A i, j \in DOMAIN list : list[i].hostIp = list[j].hostIp => i = j

\* out has entries of list only, and names no host twice if list does not.
Thins(out, list, E) ==
    /\ out \in Seq(E)
    /\ Distinct(list) => Distinct(out)
    /\ \A k \in DOMAIN out : \E j \in DOMAIN list : out[k] = list[j]

\* The first i steps of a loop over list have kept some of its first i entries.
Keeps(out, list, i, E) ==
    /\ out \in Seq(E)
    /\ Distinct(list) => Distinct(out)
    /\ \A k \in DOMAIN out : \E j \in 1 .. i : out[k] = list[j]

LEMMA KeepsOn ==
    ASSUME NEW E, NEW list \in Seq(E), NEW i \in 1 .. Len(list), NEW out,
           Keeps(out, list, i - 1, E)
    PROVE  Keeps(out, list, i, E)
BY DEF Keeps

LEMMA KeepsOne ==
    ASSUME NEW E, NEW list \in Seq(E), NEW i \in 1 .. Len(list), NEW out,
           Keeps(out, list, i - 1, E)
    PROVE  Keeps(Append(out, list[i]), list, i, E)
<1>. DEFINE new == Append(out, list[i])
            l == Len(out)
<1>1. /\ out \in Seq(E) /\ list[i] \in E
      /\ Distinct(list) => Distinct(out)
      /\ \A k \in DOMAIN out : \E j \in 1 .. i - 1 : out[k] = list[j]
      /\ DOMAIN list = 1 .. Len(list) /\ Len(list) \in Nat
  BY DEF Keeps
<1>2. /\ l \in Nat /\ DOMAIN out = 1 .. l /\ DOMAIN new = 1 .. l + 1
      /\ \A k \in 1 .. l : new[k] = out[k]
      /\ new[l + 1] = list[i]
      /\ new \in Seq(E)
  BY <1>1
<1>. HIDE DEF new, l
<1>3. ASSUME NEW k \in DOMAIN new PROVE \E j \in 1 .. i : new[k] = list[j]
  <2>1. CASE k = l + 1
    BY <1>2, <2>1
  <2>2. CASE k \in 1 .. l
    <3>1. PICK j \in 1 .. i - 1 : out[k] = list[j]
      BY <1>1, <1>2, <2>2
    <3>2. j \in 1 .. i
      OBVIOUS
    <3> QED
      BY <1>2, <2>2, <3>1, <3>2
  <2> QED
    BY <1>2, <2>1, <2>2
<1>4. ASSUME Distinct(list) PROVE Distinct(new)
  <2>1. ASSUME NEW k \in 1 .. l PROVE new[k].hostIp # new[l + 1].hostIp
    <3>1. PICK j \in 1 .. i - 1 : out[k] = list[j]
      BY <1>1, <1>2
    <3>2. j \in DOMAIN list /\ i \in DOMAIN list /\ j # i
      BY <1>1
    <3>3. list[j].hostIp # list[i].hostIp
      BY <1>4, <3>2 DEF Distinct
    <3> QED
      BY <1>2, <3>1, <3>3
  <2>2. \A k, j \in 1 .. l : new[k].hostIp = new[j].hostIp => k = j
    BY <1>1, <1>2, <1>4 DEF Distinct
  <2>3. \A k \in DOMAIN new : k \in 1 .. l \/ k = l + 1
    BY <1>2
  <2> QED
    BY <2>1, <2>2, <2>3 DEF Distinct
<1> QED
  BY <1>2, <1>3, <1>4 DEF Keeps, new

-----------------------------------------------------------------------------
(***************************************************************************)
(* How many entries of a list are in a set: of its first i entries (Upto), *)
(* and of all (CountIn).                                                   *)
(***************************************************************************)
Upto(list, i, D) == {j \in 1 .. i : list[j] \in D}
CountIn(list, D) == Cardinality(Upto(list, Len(list), D))

LEMMA UptoNone == \A list, D : Cardinality(Upto(list, 0, D)) = 0
<1>1. \A list, D : Upto(list, 0, D) = {}
  BY DEF Upto
<1> QED
  BY <1>1, FS_EmptySet, Zenon

LEMMA UptoNext ==
    ASSUME NEW list, NEW D, NEW i \in Nat \ {0}
    PROVE  /\ Cardinality(Upto(list, i - 1, D)) \in Nat
           /\ Cardinality(Upto(list, i, D)) =
                 Cardinality(Upto(list, i - 1, D)) + (IF list[i] \in D THEN 1 ELSE 0)
<1>. DEFINE S == Upto(list, i - 1, D)
<1>1. IsFiniteSet(1 .. i - 1)
  BY FS_Interval
<1>2. S \in SUBSET (1 .. i - 1) /\ i \notin S
  BY DEF Upto
<1>3. IsFiniteSet(S)
  BY <1>1, <1>2, FS_Subset, Zenon
<1>4. Upto(list, i, D) = IF list[i] \in D THEN S \cup {i} ELSE S
  BY DEF Upto
<1>. HIDE DEF S
<1>5. Cardinality(S) \in Nat
  BY <1>3, FS_CardinalityType
<1>6. Cardinality(S \cup {i}) = Cardinality(S) + 1
  BY <1>2, <1>3, FS_AddElement, Zenon
<1>7. Cardinality(Upto(list, i, D)) = Cardinality(S) + (IF list[i] \in D THEN 1 ELSE 0)
  BY <1>4, <1>5, <1>6
<1> QED
  BY <1>5, <1>7 DEF S

LEMMA CountAppend ==
    ASSUME NEW E, NEW out \in Seq(E), NEW e \in E, NEW D
    PROVE  /\ CountIn(out, D) \in Nat
           /\ CountIn(Append(out, e), D) = CountIn(out, D) + (IF e \in D THEN 1 ELSE 0)
<1>. DEFINE new == Append(out, e)
            l == Len(out)
<1>1. /\ l \in Nat /\ l + 1 \in Nat \ {0} /\ Len(new) = l + 1 /\ new[l + 1] = e
      /\ \A k \in 1 .. l : new[k] = out[k]
  OBVIOUS
<1>. HIDE DEF new, l
<1>2. Upto(new, (l + 1) - 1, D) = Upto(out, l, D)
  BY <1>1 DEF Upto
<1>3. /\ Cardinality(Upto(new, (l + 1) - 1, D)) \in Nat
      /\ Cardinality(Upto(new, l + 1, D)) =
            Cardinality(Upto(new, (l + 1) - 1, D)) + (IF new[l + 1] \in D THEN 1 ELSE 0)
  BY <1>1, UptoNext
<1>4. /\ CountIn(out, D) = Cardinality(Upto(out, l, D))
      /\ CountIn(new, D) = Cardinality(Upto(new, l + 1, D))
  BY <1>1 DEF CountIn, l
<1>5. CountIn(out, D) \in Nat /\ CountIn(new, D) = CountIn(out, D) + (IF e \in D THEN 1 ELSE 0)
  BY <1>1, <1>2, <1>3, <1>4
<1> QED
  BY <1>5 DEF new

\* A loop has kept no more of anything than was in the first i entries; and of what it
\* erases no more than half, counting the entry it erased last, if it is the i-th.
Halves(out, list, i, doomed, last) ==
    /\ \A D : CountIn(out, D) <= Cardinality(Upto(list, i, D))
    /\ 2 * CountIn(out, doomed) + (IF last THEN 1 ELSE 0) <= Cardinality(Upto(list, i, doomed))

LEMMA HalvesOn ==
    ASSUME NEW E, NEW list \in Seq(E), NEW i \in 1 .. Len(list), NEW out \in Seq(E), NEW doomed,
           NEW before \in BOOLEAN, NEW last \in BOOLEAN,
           last <=> list[i] \in doomed /\ ~before,
           Halves(out, list, i - 1, doomed, before)
    PROVE  Halves(IF last THEN out ELSE Append(out, list[i]), list, i, doomed, last)
<1>. DEFINE new == IF last THEN out ELSE Append(out, list[i])
<1>1. i \in Nat \ {0} /\ list[i] \in E
  OBVIOUS
<1>. HIDE DEF new
<1>2. ASSUME NEW D
      PROVE  /\ CountIn(out, D) \in Nat /\ Cardinality(Upto(list, i - 1, D)) \in Nat
             /\ CountIn(new, D) =
                   CountIn(out, D) + (IF ~last /\ list[i] \in D THEN 1 ELSE 0)
             /\ Cardinality(Upto(list, i, D)) =
                   Cardinality(Upto(list, i - 1, D)) + (IF list[i] \in D THEN 1 ELSE 0)
  <2>1. /\ CountIn(out, D) \in Nat
        /\ CountIn(Append(out, list[i]), D) = CountIn(out, D) + (IF list[i] \in D THEN 1 ELSE 0)
    BY <1>1, CountAppend
  <2>2. /\ Cardinality(Upto(list, i - 1, D)) \in Nat
        /\ Cardinality(Upto(list, i, D)) =
              Cardinality(Upto(list, i - 1, D)) + (IF list[i] \in D THEN 1 ELSE 0)
    BY <1>1, UptoNext
  <2>3. CASE last
    BY <2>1, <2>2, <2>3 DEF new
  <2>4. CASE ~last
    BY <2>1, <2>2, <2>4 DEF new
  <2> QED
    BY <2>3, <2>4
<1>3. ASSUME NEW D PROVE CountIn(new, D) <= Cardinality(Upto(list, i, D))
  <2>1. CountIn(out, D) <= Cardinality(Upto(list, i - 1, D))
    BY DEF Halves
  <2> QED
    BY <1>2, <2>1
<1>4. 2 * CountIn(new, doomed) + (IF last THEN 1 ELSE 0) <= Cardinality(Upto(list, i, doomed))
  <2>1. 2 * CountIn(out, doomed) + (IF before THEN 1 ELSE 0)
           <= Cardinality(Upto(list, i - 1, doomed))
    BY DEF Halves
  <2> QED
    BY <1>2, <2>1
<1>5. Halves(new, list, i, doomed, last)
  BY <1>3, <1>4 DEF Halves
<1> QED
  BY <1>5 DEF new

LEMMA HalvesNone ==
    ASSUME NEW list, NEW doomed
    PROVE  Halves(<<>>, list, 0, doomed, FALSE)
<1>1. \A D : CountIn(<<>>, D) = 0
  BY UptoNone DEF CountIn
<1>2. \A D : Cardinality(Upto(list, 0, D)) = 0
  BY UptoNone, Zenon
<1> QED
  BY <1>1, <1>2 DEF Halves

LEMMA CountNat ==
    ASSUME NEW E, NEW list \in Seq(E)
    PROVE  \A D : CountIn(list, D) \in Nat
<1> SUFFICES ASSUME NEW D PROVE CountIn(list, D) \in Nat
  OBVIOUS
<1>1. Len(list) \in Nat
  OBVIOUS
<1>2. IsFiniteSet(1 .. Len(list))
  BY <1>1, FS_Interval
<1>3. Upto(list, Len(list), D) \in SUBSET (1 .. Len(list))
  BY DEF Upto
<1> QED
  BY <1>2, <1>3, FS_Subset, FS_CardinalityType DEF CountIn

\* out has no more of anything than list, and half of what is doomed.
Halved(out, list, doomed) ==
    /\ \A D : CountIn(out, D) <= CountIn(list, D)
    /\ 2 * CountIn(out, doomed) <= CountIn(list, doomed)

LEMMA HalvedOn ==
    ASSUME NEW E, NEW list \in Seq(E), NEW mid \in Seq(E), NEW out \in Seq(E), NEW doomed,
           mid = list \/ Halved(mid, list, doomed), Halved(out, mid, doomed)
    PROVE  Halved(out, list, doomed)
<1>1. CASE mid = list
  BY <1>1
<1>2. CASE Halved(mid, list, doomed)
  <2>1. \A D : CountIn(out, D) \in Nat /\ CountIn(mid, D) \in Nat /\ CountIn(list, D) \in Nat
    BY CountNat, Zenon
  <2>2. ASSUME NEW D PROVE CountIn(out, D) <= CountIn(list, D)
    <3>1. CountIn(out, D) <= CountIn(mid, D) /\ CountIn(mid, D) <= CountIn(list, D)
      BY <1>2 DEF Halved
    <3> QED
      BY <2>1, <3>1
  <2>3. 2 * CountIn(out, doomed) <= CountIn(list, doomed)
    <3>1. /\ 2 * CountIn(out, doomed) <= CountIn(mid, doomed)
          /\ CountIn(mid, doomed) <= CountIn(list, doomed)
      BY <1>2 DEF Halved
    <3> QED
      BY <2>1, <3>1
  <2> QED
    BY <2>2, <2>3 DEF Halved
<1> QED
  BY <1>1, <1>2

-----------------------------------------------------------------------------
(* One pass of the loop that erases.                                       *)

\* Which entries it erases: none that follows an erased one.
LEMMA GoneExists ==
    ASSUME NEW E, NEW list \in Seq(E), NEW doomed
    PROVE  \E f : f = [i \in DOMAIN list |-> list[i] \in doomed /\ (i = 1 \/ ~f[i - 1])]
<1>. DEFINE n == Len(list)
            G == [p \in (1 .. n) \X BOOLEAN |-> list[p[1]] \in doomed /\ ~p[2]]
<1>1. n \in Nat /\ DOMAIN list = 1 .. n
  OBVIOUS
<1>. HIDE DEF n
<1>2. G \in [(1 .. n) \X BOOLEAN -> BOOLEAN]
  OBVIOUS
<1>3. \A i \in 1 .. n, b \in BOOLEAN : G[<<i, b>>] <=> list[i] \in doomed /\ ~b
  OBVIOUS
<1>. HIDE DEF G
<1>4. FALSE \in BOOLEAN
  OBVIOUS
<1>5. PICK f : Follows(f, FALSE, G, n, BOOLEAN)
  BY <1>1, <1>2, <1>4, RecursionExists, Zenon
<1>6. f \in [0 .. n -> BOOLEAN] /\ f[0] = FALSE /\ \A i \in 1 .. n : f[i] = G[<<i, f[i - 1]>>]
  BY <1>5 DEF Follows
<1>. DEFINE e == [i \in 1 .. n |-> f[i]]
<1>7. e \in [1 .. n -> BOOLEAN]
  BY <1>6
<1>8. ASSUME NEW i \in 1 .. n
      PROVE  e[i] <=> list[i] \in doomed /\ (i = 1 \/ ~e[i - 1])
  <2>1. i \in 0 .. n /\ i # 0 /\ i - 1 \in 0 .. n /\ f[i - 1] \in BOOLEAN
    BY <1>1, <1>6
  <2>2. f[i] = G[<<i, f[i - 1]>>]
    BY <1>6, <2>1
  <2>3. f[i] <=> list[i] \in doomed /\ ~f[i - 1]
    BY <1>3, <2>1, <2>2
  <2>4. CASE i = 1
    <3>1. f[0] = FALSE
      BY <1>1, <1>6
    <3> QED
      BY <2>3, <2>4, <3>1
  <2>5. CASE i # 1
    <3>1. i - 1 \in 1 .. n
      BY <1>1, <2>5
    <3>2. e[i - 1] = f[i - 1]
      BY <3>1
    <3> QED
      BY <2>3, <2>5, <3>2
  <2> QED
    BY <2>4, <2>5
<1>. HIDE DEF e
<1>9. e = [i \in 1 .. n |-> list[i] \in doomed /\ (i = 1 \/ ~e[i - 1])]
  BY <1>7, <1>8
<1>10. e = [i \in DOMAIN list |-> list[i] \in doomed /\ (i = 1 \/ ~e[i - 1])]
  BY <1>1, <1>9, Zenon
<1> QED
  BY <1>10, Zenon

\* What is left of list: entries that are not doomed, or follow a doomed one.
LEMMA PassThins ==
    ASSUME NEW E, NEW list \in Seq(E), NEW doomed
    PROVE  /\ Thins(Pass(list, doomed).list, list, E)
           /\ Pass(list, doomed) \in [list : Seq(E), again : BOOLEAN]
           /\ Halved(Pass(list, doomed).list, list, doomed)
           /\ \A k \in DOMAIN Pass(list, doomed).list : \E j \in DOMAIN list :
                 /\ Pass(list, doomed).list[k] = list[j]
                 /\ list[j] \in doomed => j - 1 \in DOMAIN list /\ list[j - 1] \in doomed
<1>. DEFINE gone == CHOOSE f : f = [i \in DOMAIN list |-> list[i] \in doomed /\ (i = 1 \/ ~f[i - 1])]
            kept == CHOOSE f : f = [i \in 0 .. Len(list) |->
                       IF i = 0 THEN <<>> ELSE IF gone[i] THEN f[i - 1] ELSE Append(f[i - 1], list[i])]
            n == Len(list)
<1>1. Pass(list, doomed) = [list |-> kept[n], again |-> list # <<>> /\ gone[n]]
  BY Zenon DEF Pass
<1>2. n \in Nat /\ DOMAIN list = 1 .. n /\ (list # <<>> => n \in 1 .. n)
  OBVIOUS
<1>3. gone = [i \in DOMAIN list |-> list[i] \in doomed /\ (i = 1 \/ ~gone[i - 1])]
  BY GoneExists, Zenon
<1>. HIDE DEF gone
<1>. HIDE DEF n
<1>4. /\ \A i \in 1 .. n :
            gone[i] \in BOOLEAN /\ (gone[i] <=> list[i] \in doomed /\ (i = 1 \/ ~gone[i - 1]))
      /\ \A i \in 1 .. n : list[i] \in doomed /\ ~gone[i] => i - 1 \in 1 .. n /\ list[i - 1] \in doomed
  <2>1. ASSUME NEW i \in 1 .. n
        PROVE  gone[i] \in BOOLEAN /\ (gone[i] <=> list[i] \in doomed /\ (i = 1 \/ ~gone[i - 1]))
    BY <1>2, <1>3
  <2>2. ASSUME NEW i \in 1 .. n, list[i] \in doomed, ~gone[i]
        PROVE  i - 1 \in 1 .. n /\ list[i - 1] \in doomed
    <3>1. i # 1 /\ gone[i - 1]
      BY <2>1, <2>2
    <3>2. i - 1 \in 1 .. n
      BY <1>2, <3>1
    <3> QED
      BY <2>1, <3>1, <3>2
  <2> QED
    BY <2>1, <2>2
<1>. DEFINE G == [p \in (1 .. n) \X Seq(E) |->
                    IF gone[p[1]] THEN p[2] ELSE Append(p[2], list[p[1]])]
<1>5. G \in [(1 .. n) \X Seq(E) -> Seq(E)]
  BY <1>2
<1>6. \A i \in 1 .. n, l \in Seq(E) : G[<<i, l>>] = IF gone[i] THEN l ELSE Append(l, list[i])
  OBVIOUS
<1>7. <<>> \in Seq(E)
  OBVIOUS
<1>. HIDE DEF G
<1>8. PICK f : Follows(f, <<>>, G, n, Seq(E))
  BY <1>2, <1>5, <1>7, RecursionExists, Zenon
<1>9. f \in [0 .. n -> Seq(E)] /\ f[0] = <<>> /\ \A i \in 1 .. n : f[i] = G[<<i, f[i - 1]>>]
  BY <1>8 DEF Follows
<1>10. f = [i \in 0 .. n |->
             IF i = 0 THEN <<>> ELSE IF gone[i] THEN f[i - 1] ELSE Append(f[i - 1], list[i])]
  <2>1. ASSUME NEW i \in 0 .. n
        PROVE  f[i] = IF i = 0 THEN <<>>
                      ELSE IF gone[i] THEN f[i - 1] ELSE Append(f[i - 1], list[i])
    <3>1. CASE i = 0
      BY <1>9, <3>1
    <3>2. CASE i # 0
      <4>1. i \in 1 .. n /\ i - 1 \in 0 .. n
        BY <1>2, <3>2
      <4> QED
        BY <1>6, <1>9, <3>2, <4>1
    <3> QED
      BY <3>1, <3>2
  <2> QED
    BY <1>9, <2>1
<1>11. kept = [i \in 0 .. n |->
             IF i = 0 THEN <<>> ELSE IF gone[i] THEN kept[i - 1] ELSE Append(kept[i - 1], list[i])]
  BY <1>10, Zenon DEF n
<1>. HIDE DEF kept
<1>. DEFINE Left(out, i) == \A k \in DOMAIN out : \E j \in 1 .. i : out[k] = list[j] /\ ~gone[j]
            Last(i) == i # 0 /\ gone[i]
            Q == {i \in 0 .. n : /\ Keeps(kept[i], list, i, E) /\ Left(kept[i], i)
                                 /\ Halves(kept[i], list, i, doomed, Last(i))}
<1>12. 0 \in Q
  <2>1. kept[0] = <<>> /\ 0 \in 0 .. n
    BY <1>2, <1>11
  <2>2. Keeps(<<>>, list, 0, E) /\ Left(<<>>, 0)
    BY DEF Keeps, Distinct
  <2>3. Halves(<<>>, list, 0, doomed, Last(0))
    BY HalvesNone
  <2> QED
    BY <2>1, <2>2, <2>3
<1>13. ASSUME NEW i \in 1 .. n, i - 1 \in Q PROVE i \in Q
  <2>. DEFINE last == kept[i - 1]
  <2>1. i \in 0 .. n /\ i # 0 /\ i \in 1 .. Len(list)
    BY <1>2 DEF n
  <2>2. /\ Keeps(last, list, i - 1, E) /\ Left(last, i - 1)
        /\ Halves(last, list, i - 1, doomed, Last(i - 1))
    BY <1>13
  <2>3. kept[i] = IF gone[i] THEN last ELSE Append(last, list[i])
    BY <1>11, <2>1
  <2>4. Halves(kept[i], list, i, doomed, Last(i))
    <3>. DEFINE before == Last(i - 1)
                now == Last(i)
    <3>1. before \in BOOLEAN /\ now \in BOOLEAN /\ (now <=> list[i] \in doomed /\ ~before)
      BY <1>4, <2>1
    <3>2. last \in Seq(E) /\ (now <=> gone[i])
      BY <2>1, <2>2 DEF Keeps
    <3>3. Halves(last, list, i - 1, doomed, before)
      BY <2>2
    <3>. HIDE DEF last, before, now
    <3>4. Halves(IF now THEN last ELSE Append(last, list[i]), list, i, doomed, now)
      BY <2>1, <3>1, <3>2, <3>3, HalvesOn
    <3> QED
      BY <2>3, <3>2, <3>4 DEF now
  <2>. HIDE DEF last, Last
  <2>5. CASE gone[i]
    <3>1. Keeps(last, list, i, E)
      BY <2>1, <2>2, KeepsOn
    <3>2. Left(last, i)
      BY <1>2, <2>2
    <3> QED
      BY <2>1, <2>3, <2>5, <2>4, <3>1, <3>2
  <2>6. CASE ~gone[i]
    <3>1. Keeps(Append(last, list[i]), list, i, E)
      BY <2>1, <2>2, KeepsOne
    <3>2. Left(Append(last, list[i]), i)
      <4>1. last \in Seq(E) /\ list[i] \in E
        BY <1>2, <2>2 DEF Keeps
      <4>2. \A k \in DOMAIN Append(last, list[i]) :
               \/ k \in DOMAIN last /\ Append(last, list[i])[k] = last[k]
               \/ Append(last, list[i])[k] = list[i]
        BY <4>1
      <4>3. i \in 1 .. i /\ \A j \in 1 .. i - 1 : j \in 1 .. i
        BY <1>2
      <4> QED
        BY <2>2, <2>6, <4>2, <4>3
    <3> QED
      BY <2>1, <2>3, <2>6, <2>4, <3>1, <3>2
  <2> QED
    BY <2>5, <2>6
<1>14. n \in Q
  <2>1. Q \in SUBSET (0 .. n) /\ n \in 0 .. n
    BY <1>2
  <2>. HIDE DEF Q
  <2> QED
    BY <1>2, <1>12, <1>13, <2>1, InductionUpTo
<1>15. /\ Keeps(kept[n], list, n, E) /\ Left(kept[n], n)
       /\ Halves(kept[n], list, n, doomed, Last(n))
  BY <1>14
<1>. DEFINE out == Pass(list, doomed).list
<1>16. out = kept[n] /\ Pass(list, doomed) \in [list : Seq(E), again : BOOLEAN]
  <2>1. kept[n] \in Seq(E) /\ (list # <<>> /\ gone[n]) \in BOOLEAN
    BY <1>15 DEF Keeps
  <2> QED
    BY <1>1, <2>1
<1>17. Thins(out, list, E)
  BY <1>2, <1>15, <1>16 DEF Keeps, Thins
<1>18. ASSUME NEW k \in DOMAIN out
       PROVE  \E j \in DOMAIN list :
                 /\ out[k] = list[j]
                 /\ list[j] \in doomed => j - 1 \in DOMAIN list /\ list[j - 1] \in doomed
  <2>1. PICK j \in 1 .. n : out[k] = list[j] /\ ~gone[j]
    BY <1>15, <1>16
  <2> QED
    BY <1>2, <1>4, <2>1
<1>19. Halved(out, list, doomed)
  <2>1. /\ \A D : CountIn(out, D) <= CountIn(list, D)
        /\ 2 * CountIn(out, doomed) + (IF Last(n) THEN 1 ELSE 0) <= CountIn(list, doomed)
    BY <1>15, <1>16 DEF Halves, CountIn, n
  <2>2. CountIn(out, doomed) \in Nat /\ CountIn(list, doomed) \in Nat
    BY <1>17, CountNat, Zenon DEF Thins
  <2>. HIDE DEF out, Last
  <2>3. 2 * CountIn(out, doomed) <= CountIn(list, doomed)
    BY <2>1, <2>2
  <2> QED
    BY <2>1, <2>3 DEF Halved
<1> QED
  BY <1>16, <1>17, <1>18, <1>19

\* Where no host is named twice and one host is doomed, one pass erases it.
OneHost(doomed) == \A a, b \in doomed : a.hostIp = b.hostIp
Free(list, doomed) == \A k \in DOMAIN list : list[k] \notin doomed

LEMMA PassFrees ==
    ASSUME NEW E, NEW list \in Seq(E), NEW doomed, Distinct(list), OneHost(doomed)
    PROVE  Free(Pass(list, doomed).list, doomed)
<1>. DEFINE out == Pass(list, doomed).list
<1>1. \A k \in DOMAIN out : \E j \in DOMAIN list :
         /\ out[k] = list[j]
         /\ list[j] \in doomed => j - 1 \in DOMAIN list /\ list[j - 1] \in doomed
  BY PassThins, Zenon
<1>. HIDE DEF out
<1>2. ASSUME NEW k \in DOMAIN out, out[k] \in doomed PROVE FALSE
  <2>1. PICK j \in DOMAIN list :
         /\ out[k] = list[j]
         /\ list[j] \in doomed => j - 1 \in DOMAIN list /\ list[j - 1] \in doomed
    BY <1>1
  <2>2. j - 1 \in DOMAIN list /\ list[j - 1].hostIp = list[j].hostIp
    BY <1>2, <2>1 DEF OneHost
  <2>3. j - 1 = j
    BY <2>1, <2>2 DEF Distinct
  <2>4. j \in Nat
    OBVIOUS
  <2> QED
    BY <2>3, <2>4
<1>3. \A k \in DOMAIN out : out[k] \notin doomed
  BY <1>2
<1> QED
  BY <1>3, Zenon DEF Free, out

LEMMA ThinsOn ==
    ASSUME NEW E, NEW list, NEW mid, NEW out, Thins(mid, list, E), Thins(out, mid, E)
    PROVE  Thins(out, list, E)
BY DEF Thins

(***************************************************************************)
(* The loop that erases leaves some of the entries in their order.  It may *)
(* skip one that it ought to erase, though no more than it erases, and not *)
(* where one host is doomed and the list names no host twice.              *)
(***************************************************************************)
LEMMA EraseThins ==
    ASSUME NEW E, NEW list \in Seq(E), NEW doomed
    PROVE  /\ Thins(Erase(list, doomed), list, E)
           /\ Distinct(list) /\ OneHost(doomed) => Free(Erase(list, doomed), doomed)
           /\ Halved(Erase(list, doomed), list, doomed)
<1>. DEFINE n == Len(list)
            S == [list : Seq(E), again : BOOLEAN]
            x0 == [list |-> list, again |-> TRUE]
            after == CHOOSE f : f = [k \in 0 .. Len(list) |->
                        IF k = 0 THEN [list |-> list, again |-> TRUE]
                        ELSE LET last == f[k - 1]
                             IN  IF last.again THEN Pass(last.list, doomed) ELSE last]
            G == [p \in (1 .. n) \X S |-> IF p[2].again THEN Pass(p[2].list, doomed) ELSE p[2]]
<1>1. Erase(list, doomed) = after[n].list
  BY Zenon DEF Erase
<1>2. n \in Nat /\ x0 \in S
  OBVIOUS
<1>3. \A p \in S : Pass(p.list, doomed) \in S
  <2>1. ASSUME NEW p \in S PROVE Pass(p.list, doomed) \in S
    <3>1. p.list \in Seq(E)
      OBVIOUS
    <3> QED
      BY <3>1, PassThins, Zenon
  <2> QED
    BY <2>1
<1>. HIDE DEF n
<1>. HIDE DEF S
<1>4. G \in [(1 .. n) \X S -> S]
  BY <1>3
<1>5. \A i \in 1 .. n, x \in S : G[<<i, x>>] = IF x.again THEN Pass(x.list, doomed) ELSE x
  OBVIOUS
<1>. HIDE DEF G, x0
<1>6. PICK f : Follows(f, x0, G, n, S)
  BY <1>2, <1>4, RecursionExists, Zenon
<1>7. f \in [0 .. n -> S] /\ f[0] = x0 /\ \A i \in 1 .. n : f[i] = G[<<i, f[i - 1]>>]
  BY <1>6 DEF Follows
<1>8. f = [k \in 0 .. n |->
             IF k = 0 THEN x0
             ELSE IF f[k - 1].again THEN Pass(f[k - 1].list, doomed) ELSE f[k - 1]]
  <2>1. ASSUME NEW k \in 0 .. n
        PROVE  f[k] = IF k = 0 THEN x0
                      ELSE IF f[k - 1].again THEN Pass(f[k - 1].list, doomed) ELSE f[k - 1]
    <3>1. CASE k = 0
      BY <1>7, <3>1
    <3>2. CASE k # 0
      <4>1. k \in 1 .. n /\ k - 1 \in 0 .. n
        BY <1>2, <3>2
      <4>2. f[k] = G[<<k, f[k - 1]>>] /\ f[k - 1] \in S
        BY <1>7, <4>1
      <4> QED
        BY <1>5, <3>2, <4>1, <4>2
    <3> QED
      BY <3>1, <3>2
  <2> QED
    BY <1>7, <2>1
<1>9. after = [k \in 0 .. n |->
             IF k = 0 THEN x0
             ELSE IF after[k - 1].again THEN Pass(after[k - 1].list, doomed) ELSE after[k - 1]]
  BY <1>8, Zenon DEF n, x0
<1>. HIDE DEF after
<1>. DEFINE Clear(l) == Distinct(list) /\ OneHost(doomed) => Free(l, doomed)
            Good(k) == /\ after[k] \in S
                       /\ Thins(after[k].list, list, E)
                       /\ k = 0 => after[k].again /\ after[k].list = list
                       /\ k # 0 => Clear(after[k].list) /\ Halved(after[k].list, list, doomed)
            Q == {k \in 0 .. n : Good(k)}
<1>10. 0 \in Q
  <2>1. after[0] = x0 /\ 0 \in 0 .. n
    BY <1>2, <1>9
  <2>2. x0.again /\ x0.list = list
    BY DEF x0
  <2>3. Thins(list, list, E)
    BY DEF Thins
  <2> QED
    BY <1>2, <2>1, <2>2, <2>3
<1>11. ASSUME NEW k \in 1 .. n, k - 1 \in Q PROVE k \in Q
  <2>. DEFINE last == after[k - 1]
  <2>1. k \in 0 .. n /\ k # 0
    BY <1>2
  <2>2. /\ last \in S /\ Thins(last.list, list, E)
        /\ k - 1 = 0 => last.again /\ last.list = list
        /\ k - 1 # 0 => Clear(last.list) /\ Halved(last.list, list, doomed)
    BY <1>11
  <2>3. after[k] = IF last.again THEN Pass(last.list, doomed) ELSE last
    BY <1>9, <2>1
  <2>. HIDE DEF last
  <2>4. CASE last.again
    <3>. DEFINE out == Pass(last.list, doomed)
    <3>1. last.list \in Seq(E)
      BY <2>2 DEF Thins
    <3>2. Thins(out.list, last.list, E)
      BY <3>1, PassThins, Zenon
    <3>3. Thins(out.list, list, E)
      BY <2>2, <3>2, ThinsOn, Zenon
    <3>4. Clear(out.list)
      <4> SUFFICES ASSUME Distinct(list), OneHost(doomed) PROVE Free(out.list, doomed)
        OBVIOUS
      <4>1. Distinct(last.list)
        BY <2>2 DEF Thins
      <4> QED
        BY <3>1, <4>1, PassFrees, Zenon
    <3>5. out \in S /\ after[k] = out
      BY <1>3, <2>2, <2>3, <2>4
    <3>6. Halved(out.list, list, doomed)
      <4>1. Halved(out.list, last.list, doomed)
        BY <3>1, PassThins, Zenon
      <4>2. last.list = list \/ Halved(last.list, list, doomed)
        BY <2>2
      <4>3. out.list \in Seq(E)
        BY <3>2 DEF Thins
      <4>. HIDE DEF out
      <4> QED
        BY <3>1, <4>1, <4>2, <4>3, HalvedOn
    <3>. HIDE DEF out
    <3> QED
      BY <2>1, <3>3, <3>4, <3>5, <3>6
  <2>5. CASE ~last.again
    <3>1. after[k] = last /\ k - 1 # 0
      BY <2>2, <2>3, <2>5
    <3> QED
      BY <2>1, <2>2, <3>1
  <2> QED
    BY <2>4, <2>5
<1>12. n \in Q
  <2>1. Q \in SUBSET (0 .. n)
    OBVIOUS
  <2>. HIDE DEF Q
  <2> QED
    BY <1>2, <1>10, <1>11, <2>1, InductionUpTo
<1>13. Good(n)
  BY <1>12
<1>14. CASE n # 0
  BY <1>1, <1>13, <1>14
<1>15. CASE n = 0
  <2>1. list = <<>>
    BY <1>15 DEF n
  <2>2. after[n].list = list
    BY <1>2, <1>9, <1>15 DEF x0
  <2>3. Free(list, doomed)
    BY <2>1 DEF Free
  <2>4. Len(list) = 0
    BY <2>1
  <2>5. \A D : CountIn(list, D) = 0
    BY <2>4, UptoNone DEF CountIn
  <2>6. Halved(list, list, doomed)
    BY <2>5 DEF Halved
  <2> QED
    BY <1>1, <1>13, <2>2, <2>3, <2>6
<1> QED
  BY <1>14, <1>15

\* std::list::unique leaves some of the entries in their order.
LEMMA UniqueThins ==
    ASSUME NEW E, NEW list \in Seq(E)
    PROVE  Thins(Unique(list), list, E)
<1>. DEFINE n == Len(list)
            Same(i) == i > 1 /\ list[i].hostIp = list[i - 1].hostIp
            G == [p \in (1 .. n) \X Seq(E) |-> IF Same(p[1]) THEN p[2] ELSE Append(p[2], list[p[1]])]
            kept == CHOOSE f : f = [i \in 0 .. Len(list) |->
                       IF i = 0 THEN <<>>
                       ELSE IF i > 1 /\ list[i].hostIp = list[i - 1].hostIp THEN f[i - 1]
                       ELSE Append(f[i - 1], list[i])]
<1>1. Unique(list) = kept[n]
  BY Zenon DEF Unique
<1>2. n \in Nat /\ DOMAIN list = 1 .. n
  OBVIOUS
<1>. HIDE DEF n
<1>3. G \in [(1 .. n) \X Seq(E) -> Seq(E)]
  <2>. HIDE DEF Same
  <2> QED
    BY <1>2
<1>4. \A i \in 1 .. n, l \in Seq(E) : G[<<i, l>>] = IF Same(i) THEN l ELSE Append(l, list[i])
  OBVIOUS
<1>5. <<>> \in Seq(E)
  OBVIOUS
<1>. HIDE DEF G
<1>6. PICK f : Follows(f, <<>>, G, n, Seq(E))
  BY <1>2, <1>3, <1>5, RecursionExists, Zenon
<1>7. f \in [0 .. n -> Seq(E)] /\ f[0] = <<>> /\ \A i \in 1 .. n : f[i] = G[<<i, f[i - 1]>>]
  BY <1>6 DEF Follows
<1>8. f = [i \in 0 .. n |->
             IF i = 0 THEN <<>> ELSE IF Same(i) THEN f[i - 1] ELSE Append(f[i - 1], list[i])]
  <2>. HIDE DEF Same
  <2>1. ASSUME NEW i \in 0 .. n
        PROVE  f[i] = IF i = 0 THEN <<>>
                      ELSE IF Same(i) THEN f[i - 1] ELSE Append(f[i - 1], list[i])
    <3>1. CASE i = 0
      BY <1>7, <3>1
    <3>2. CASE i # 0
      <4>1. i \in 1 .. n /\ i - 1 \in 0 .. n
        BY <1>2, <3>2
      <4> QED
        BY <1>4, <1>7, <3>2, <4>1
    <3> QED
      BY <3>1, <3>2
  <2> QED
    BY <1>7, <2>1
<1>9. kept = [i \in 0 .. n |->
             IF i = 0 THEN <<>> ELSE IF Same(i) THEN kept[i - 1] ELSE Append(kept[i - 1], list[i])]
  BY <1>8, Zenon DEF n
<1>. HIDE DEF kept, Same
<1>. DEFINE Q == {i \in 0 .. n : Keeps(kept[i], list, i, E)}
<1>10. 0 \in Q
  <2>1. kept[0] = <<>> /\ 0 \in 0 .. n
    BY <1>2, <1>9
  <2>2. Keeps(<<>>, list, 0, E)
    BY DEF Keeps, Distinct
  <2> QED
    BY <2>1, <2>2
<1>11. ASSUME NEW i \in 1 .. n, i - 1 \in Q PROVE i \in Q
  <2>. DEFINE last == kept[i - 1]
  <2>1. i \in 0 .. n /\ i # 0 /\ i \in 1 .. Len(list)
    BY <1>2 DEF n
  <2>2. Keeps(last, list, i - 1, E)
    BY <1>11
  <2>3. kept[i] = IF Same(i) THEN last ELSE Append(last, list[i])
    BY <1>9, <2>1
  <2>. HIDE DEF last
  <2>4. Keeps(last, list, i, E)
    BY <2>1, <2>2, KeepsOn
  <2>5. Keeps(Append(last, list[i]), list, i, E)
    BY <2>1, <2>2, KeepsOne
  <2> QED
    BY <2>1, <2>3, <2>4, <2>5
<1>12. n \in Q
  <2>1. Q \in SUBSET (0 .. n)
    OBVIOUS
  <2>. HIDE DEF Q
  <2> QED
    BY <1>2, <1>10, <1>11, <2>1, InductionUpTo
<1>13. Keeps(kept[n], list, n, E)
  BY <1>12
<1> QED
  BY <1>1, <1>2, <1>13 DEF Keeps, Thins

-----------------------------------------------------------------------------
(* An intersection's table.                                                *)

\* WithoutHost leaves no entry of the host in a list that names none twice.
LEMMA WithoutHostFrees ==
    ASSUME NEW E, NEW list \in Seq(E), Distinct(list), NEW ip
    PROVE  /\ WithoutHost(list, ip) \in Seq(E)
           /\ Distinct(WithoutHost(list, ip))
           /\ \A k \in DOMAIN WithoutHost(list, ip) : WithoutHost(list, ip)[k].hostIp # ip
<1>. DEFINE doomed == OfHost(list, ip)
            out == Erase(list, doomed)
<1>1. out = WithoutHost(list, ip)
  BY DEF WithoutHost
<1>2. OneHost(doomed)
  BY DEF OneHost, OfHost
<1>3. \A j \in DOMAIN list : list[j].hostIp = ip => list[j] \in doomed
  BY DEF OfHost, Range
<1>. HIDE DEF doomed
<1>4. Thins(out, list, E) /\ Free(out, doomed)
  BY <1>2, EraseThins, Zenon
<1>. HIDE DEF out
<1>5. ASSUME NEW k \in DOMAIN out PROVE out[k].hostIp # ip
  <2>1. PICK j \in DOMAIN list : out[k] = list[j]
    BY <1>4 DEF Thins
  <2> QED
    BY <1>3, <1>4, <2>1 DEF Free
<1> QED
  BY <1>1, <1>4, <1>5 DEF Thins

\* An entry of a host that is not named may be added.
LEMMA AppendNew ==
    ASSUME NEW E, NEW list \in Seq(E), Distinct(list), NEW e \in E,
           \A k \in DOMAIN list : list[k].hostIp # e.hostIp
    PROVE  Append(list, e) \in Seq(E) /\ Distinct(Append(list, e))
<1>. DEFINE l == Len(list)
            new == Append(list, e)
<1>1. /\ l \in Nat /\ DOMAIN list = 1 .. l /\ DOMAIN new = 1 .. l + 1
      /\ \A k \in 1 .. l : new[k] = list[k]
      /\ new[l + 1] = e
      /\ new \in Seq(E)
  OBVIOUS
<1>. HIDE DEF l, new
<1>2. ASSUME NEW i \in DOMAIN new, NEW j \in DOMAIN new, new[i].hostIp = new[j].hostIp
      PROVE  i = j
  <2>1. (i \in 1 .. l \/ i = l + 1) /\ (j \in 1 .. l \/ j = l + 1)
    BY <1>1
  <2> QED
    BY <1>1, <1>2, <2>1 DEF Distinct
<1>3. Distinct(new)
  BY <1>2 DEF Distinct
<1> QED
  BY <1>1, <1>3 DEF new

\* The table that RecvPacket makes of a list that names no host twice names none twice,
\* whatever it receives.
LEMMA MergedDistinct ==
    ASSUME NEW E, NEW list \in Seq(E), Distinct(list), NEW M, NEW m, m.hosts \in Seq(M),
           \A e \in M : Swapped(e) \in E /\ Swapped(e).hostIp = e.leaderIp
    PROVE  Merged(list, m) \in Seq(E) /\ Distinct(Merged(list, m))
<1>. DEFINE n == Len(m.hosts)
            x0 == WithoutSegment(list, m)
            S == {l \in Seq(E) : Distinct(l)}
            With(l, i) == Append(WithoutHost(l, m.hosts[i].leaderIp), Swapped(m.hosts[i]))
            G == [p \in (1 .. n) \X S |-> With(p[2], p[1])]
            after == CHOOSE f : f = [i \in 0 .. Len(m.hosts) |->
                        IF i = 0 THEN WithoutSegment(list, m)
                        ELSE Append(WithoutHost(f[i - 1], m.hosts[i].leaderIp), Swapped(m.hosts[i]))]
<1>1. Merged(list, m) = Unique(Erase(after[n], OfRegion(after[n], m.dst)))
  BY Zenon DEF Merged
<1>2. n \in Nat /\ \A i \in 1 .. n : m.hosts[i] \in M
  OBVIOUS
<1>3. x0 \in S
  <2>1. Thins(x0, list, E)
    BY EraseThins, Zenon DEF WithoutSegment
  <2> QED
    BY <2>1 DEF Thins
<1>4. ASSUME NEW i \in 1 .. n, NEW l \in S PROVE With(l, i) \in S
  <2>. DEFINE e == Swapped(m.hosts[i])
              left == WithoutHost(l, m.hosts[i].leaderIp)
  <2>1. e \in E /\ e.hostIp = m.hosts[i].leaderIp
    BY <1>2
  <2>2. l \in Seq(E) /\ Distinct(l)
    OBVIOUS
  <2>3. /\ left \in Seq(E) /\ Distinct(left)
        /\ \A k \in DOMAIN left : left[k].hostIp # m.hosts[i].leaderIp
    BY <2>2, WithoutHostFrees, Zenon
  <2>. HIDE DEF e, left
  <2>4. Append(left, e) \in Seq(E) /\ Distinct(Append(left, e))
    BY <2>1, <2>3, AppendNew
  <2> QED
    BY <2>4 DEF e, left
<1>. HIDE DEF S, With, x0
<1>5. G \in [(1 .. n) \X S -> S]
  BY <1>4
<1>6. \A i \in 1 .. n, l \in S : G[<<i, l>>] = With(l, i)
  OBVIOUS
<1>. HIDE DEF n, G
<1>7. PICK f : Follows(f, x0, G, n, S)
  BY <1>2, <1>3, <1>5, RecursionExists, Zenon
<1>8. f \in [0 .. n -> S] /\ f[0] = x0 /\ \A i \in 1 .. n : f[i] = G[<<i, f[i - 1]>>]
  BY <1>7 DEF Follows
<1>9. f = [i \in 0 .. n |-> IF i = 0 THEN x0 ELSE With(f[i - 1], i)]
  <2>1. ASSUME NEW i \in 0 .. n
        PROVE  f[i] = IF i = 0 THEN x0 ELSE With(f[i - 1], i)
    <3>1. CASE i = 0
      BY <1>8, <3>1
    <3>2. CASE i # 0
      <4>1. i \in 1 .. n /\ i - 1 \in 0 .. n
        BY <1>2, <3>2
      <4> QED
        BY <1>6, <1>8, <3>2, <4>1
    <3> QED
      BY <3>1, <3>2
  <2> QED
    BY <1>8, <2>1
<1>10. after = [i \in 0 .. n |-> IF i = 0 THEN x0 ELSE With(after[i - 1], i)]
  BY <1>9, Zenon DEF n, x0, With
<1>. HIDE DEF after
<1>. DEFINE Q == {i \in 0 .. n : after[i] \in S}
<1>11. 0 \in Q
  BY <1>2, <1>3, <1>10
<1>12. ASSUME NEW i \in 1 .. n, i - 1 \in Q PROVE i \in Q
  <2>1. i \in 0 .. n /\ i # 0 /\ after[i - 1] \in S
    BY <1>2, <1>12
  <2>2. after[i] = With(after[i - 1], i)
    BY <1>10, <2>1
  <2> QED
    BY <1>4, <2>1, <2>2
<1>13. n \in Q
  <2>1. Q \in SUBSET (0 .. n)
    OBVIOUS
  <2>. HIDE DEF Q
  <2> QED
    BY <1>2, <1>11, <1>12, <2>1, InductionUpTo
<1>14. after[n] \in Seq(E) /\ Distinct(after[n])
  BY <1>13 DEF S
<1>. DEFINE all == after[n]
            rest == Erase(all, OfRegion(all, m.dst))
<1>15. Thins(rest, all, E)
  BY <1>14, EraseThins, Zenon
<1>16. Thins(Unique(rest), rest, E)
  BY <1>15, UniqueThins, Zenon DEF Thins
<1>17. Unique(rest) \in Seq(E) /\ Distinct(Unique(rest))
  <2>. HIDE DEF all, rest
  <2> QED
    BY <1>14, <1>15, <1>16 DEF Thins, all
<1> QED
  BY <1>1, <1>17, Zenon

-----------------------------------------------------------------------------
(***************************************************************************)
(* The direction of the list.  Behind(r, d): an intersection of r's way    *)
(* segment would accept the list from r in direction d.  The list leaves   *)
(* a region only in the direction it is not Behind in: a region next to an *)
(* intersection turns it round, and it starts in one.  So no intersection  *)
(* accepts the list as its own; it only merges what it hears.              *)
(***************************************************************************)
Behind(r, d) ==
    \E q \in Regions : /\ getRegionLevel(q) = 1
                       /\ getWaySegment(q) = getWaySegment(r)
                       /\ GetRxSourceRegion(d, q) = r

LeavesInward(r, d) == getRegionLevel(r) > 1 /\ ~Behind(r, d)

DirIn(r) == dir[r] # TurnsRound(r)

Way ==
    /\ dir \in [Regions -> BOOLEAN]
    /\ ~Started => \A r \in Regions : ~dir[r]
    /\ \A r \in Regions : tSync[r] => LeavesInward(r, DirIn(r))
    /\ \A m \in net : /\ ~tSync[m.dst]
                      /\ \A n \in net : m.dst = n.dst => m = n
                      /\ m.region \in Regions /\ m.ws = getWaySegment(m.region)
                      /\ m.dir \in BOOLEAN
                      /\ LeavesInward(m.region, m.dir)

\* IntersectionsEndWays, for the two directions d and e.
LEMMA EndOfWay ==
    ASSUME NEW r \in Regions, NEW q \in Regions, NEW d \in BOOLEAN, NEW e \in BOOLEAN, e # d,
           getRegionLevel(r) > 1, getRegionLevel(q) = 1
    PROVE  /\ getWaySegment(q) = getWaySegment(r) /\ GetRxSourceRegion(d, q) = r
              => GetRxSourceRegion(e, r) = q
           /\ GetRxSourceRegion(d, r) = q
              => /\ getRegionLevel(r) = 2
                 /\ \A s \in Regions : GetRxSourceRegion(e, r) = s => getRegionLevel(s) # 1
<1>1. e = ~d
  OBVIOUS
<1> QED
  BY <1>1, IntersectionsEndWays, Zenon

\* Where the list starts, it goes away from the intersection.
LEMMA StartsInward ==
    ASSUME NEW r \in Regions, isL2Region(r, TRUE)
    PROVE  LeavesInward(r, FALSE # TurnsRound(r))
<1>1. PICK i \in Entries(r) : /\ WsTable[i].level = 2
                              /\ WsTable[i].next \in Regions /\ getRegionLevel(WsTable[i].next) = 1
  BY DEF isL2Region
<1>2. i \in DOMAIN WsTable /\ WsTable[i].region = r
  BY DEF Entries
<1>3. getRegionLevel(r) = 2 /\ WsTable[i] = First(r)
  BY <1>1, <1>2, IntersectionsEndWays
<1>. DEFINE n == GetRxSourceRegion(TRUE, r)
<1>4. n \in Regions /\ getRegionLevel(n) = 1
  BY <1>1, <1>3 DEF GetRxSourceRegion
<1>. HIDE DEF n
<1>5. TRUE \in BOOLEAN /\ FALSE \in BOOLEAN /\ FALSE # TRUE /\ getRegionLevel(r) > 1
  BY <1>3
<1>6. \A s \in Regions : GetRxSourceRegion(FALSE, r) = s => getRegionLevel(s) # 1
  BY <1>4, <1>5, EndOfWay, Zenon DEF n
<1>7. ~Behind(r, TRUE)
  <2> SUFFICES ASSUME NEW q \in Regions, getRegionLevel(q) = 1,
                      getWaySegment(q) = getWaySegment(r), GetRxSourceRegion(TRUE, q) = r
               PROVE  FALSE
    BY DEF Behind
  <2>1. GetRxSourceRegion(FALSE, r) = q
    BY <1>5, EndOfWay, Zenon
  <2> QED
    BY <1>6, <2>1
<1>8. (FALSE # TurnsRound(r)) = TRUE
  BY <1>3 DEF TurnsRound
<1> QED
  BY <1>7, <1>8, <1>5, Zenon DEF LeavesInward

\* Where it is handed on, it goes away from an intersection, too.
LEMMA HandedOnInward ==
    ASSUME NEW s \in Regions, NEW r \in Regions, NEW d \in BOOLEAN,
           getRegionLevel(s) > 1, getRegionLevel(r) > 1, GetRxSourceRegion(d, s) = r
    PROVE  LeavesInward(s, d # TurnsRound(s))
<1> SUFFICES ASSUME NEW q \in Regions, getRegionLevel(q) = 1,
                    getWaySegment(q) = getWaySegment(s),
                    GetRxSourceRegion(d # TurnsRound(s), q) = s
             PROVE  FALSE
  BY DEF Behind, LeavesInward
<1>1. CASE TurnsRound(s)
  <2>. DEFINE e == d # TurnsRound(s)
  <2>1. e \in BOOLEAN /\ e # d
    BY <1>1
  <2>2. GetRxSourceRegion(d, s) = q
    BY <2>1, EndOfWay
  <2>3. q = r
    BY <2>2
  <2> QED
    BY <2>3
<1>2. CASE ~TurnsRound(s)
  <2>. DEFINE e == ~d
  <2>1. (d # TurnsRound(s)) = d /\ e \in BOOLEAN /\ e # d
    BY <1>2 DEF TurnsRound
  <2>2. GetRxSourceRegion(d, q) = s
    BY <2>1
  <2>. HIDE DEF e
  <2>3. GetRxSourceRegion(e, s) = q
    BY <2>1, <2>2, EndOfWay
  <2>4. getRegionLevel(s) = 2
    BY <2>1, <2>3, EndOfWay
  <2> QED
    BY <1>2, <2>4 DEF TurnsRound
<1> QED
  BY <1>1, <1>2

\* No intersection accepts the list.
LEMMA IntersectionsOnlyHear ==
    ASSUME Way, NEW m \in net, m.dst \in Regions, getRegionLevel(m.dst) = 1
    PROVE  ~Accepted(m)
BY DEF Way, LeavesInward, Behind, Accepted

LEMMA StartWay ==
    ASSUME IInv, Way, NEW r \in Regions, TimerPingPongStart(r)
    PROVE  Way'
<1>1. ~Started /\ net = {} /\ net' = {} /\ UNCHANGED dir
  BY DEF IInv, Unstarted, TimerPingPongStart, Started, radio
<1>2. \A s \in Regions : tSync'[s] => tSync[s] \/ (s = r /\ isL2Region(r, TRUE))
  BY DEF IInv, TimerPingPongStart, PingPongStart
<1>3. dir \in [Regions -> BOOLEAN] /\ \A s \in Regions : ~dir[s]
  BY <1>1 DEF Way
<1>4. ASSUME NEW s \in Regions, tSync'[s]
      PROVE  LeavesInward(s, DirIn(s)')
  <2>1. DirIn(s)' = DirIn(s)
    BY <1>1 DEF DirIn, TurnsRound
  <2>2. CASE tSync[s]
    BY <2>1, <2>2 DEF Way
  <2>3. CASE s = r /\ isL2Region(r, TRUE)
    <3>1. dir[r] = FALSE
      BY <1>3
    <3>2. DirIn(r) = (FALSE # TurnsRound(r))
      BY <3>1 DEF DirIn
    <3> QED
      BY <2>1, <2>3, <3>2, StartsInward
  <2> QED
    BY <1>2, <1>4, <2>2, <2>3
<1>5. \A s \in Regions : tSync'[s] => LeavesInward(s, DirIn(s))'
  BY <1>4 DEF LeavesInward, Behind
<1> QED
  BY <1>1, <1>3, <1>5 DEF Way

LEMMA BroadcastWay ==
    ASSUME IInv, Way, NEW r \in Regions, TimerSyncHostTable(r)
    PROVE  Way'
<1>. DEFINE d == dir[r] # TurnsRound(r)
<1>1. Started /\ Started' /\ net = {} /\ tSync[r]
  BY DEF TimerSyncHostTable, Quiet, Started
<1>2. /\ tSync' = [tSync EXCEPT ![r] = FALSE]
      /\ dir' = [dir EXCEPT ![r] = d]
  BY DEF TimerSyncHostTable
<1>3. \A m \in net' : m.dst \in Regions /\ m.ws = getWaySegment(r) /\ m.region = r /\ m.dir = d
  BY DEF TimerSyncHostTable
<1>4. \A m, n \in net' : m.dst = n.dst => m = n
  BY DEF TimerSyncHostTable
<1>5. \A s \in Regions : ~tSync'[s]
  <2>1. \A s \in Regions : tSync[s] => s = r
    BY <1>1, HolderOf DEF IInv, OneHolder
  <2> QED
    BY <1>2, <2>1 DEF IInv
<1>6. LeavesInward(r, d)
  BY <1>1 DEF Way, DirIn
<1>7. d \in BOOLEAN /\ dir' \in [Regions -> BOOLEAN]
  BY <1>2 DEF Way
<1>. HIDE DEF d
<1>8. \A m \in net' : /\ m.region \in Regions /\ m.ws = getWaySegment(m.region)
                      /\ m.dir \in BOOLEAN /\ LeavesInward(m.region, m.dir)
  BY <1>3, <1>6, <1>7
<1> QED
  BY <1>1, <1>3, <1>4, <1>5, <1>7, <1>8 DEF Way, LeavesInward, Behind

LEMMA ReceptionWay ==
    ASSUME IInv, Way, NEW m \in net, RecvIbr(m)
    PROVE  Way'
<1>1. m.dst \in Regions /\ Started /\ Started' /\ net' = net \ {m}
  BY DEF IInv, Unstarted, RecvIbr, Started
<1>2. CASE UNCHANGED <<dir, tSync>>
  BY <1>1, <1>2 DEF Way, DirIn, LeavesInward, Behind
<1>3. CASE /\ dir' = [dir EXCEPT ![m.dst] = m.dir]
           /\ tSync' = [tSync EXCEPT ![m.dst] = @ \/ HandsOn(m)]
  <2>1. /\ dir' \in [Regions -> BOOLEAN]
        /\ dir'[m.dst] = m.dir /\ \A s \in Regions : s # m.dst => dir'[s] = dir[s]
    BY <1>1, <1>3 DEF Way
  <2>2. /\ tSync'[m.dst] => HandsOn(m)
        /\ \A s \in Regions : s # m.dst => tSync'[s] = tSync[s]
    BY <1>1, <1>3 DEF Way, IInv
  <2>3. ASSUME NEW s \in Regions, tSync'[s] PROVE LeavesInward(s, DirIn(s)')
    <3>1. CASE s # m.dst
      BY <2>1, <2>2, <2>3, <3>1 DEF Way, DirIn, TurnsRound
    <3>2. CASE s = m.dst
      <4>1. HandsOn(m)
        BY <2>2, <2>3, <3>2
      <4>2. /\ getRegionLevel(s) > 1 /\ getRegionLevel(m.region) > 1 /\ m.region \in Regions
            /\ m.dir \in BOOLEAN /\ GetRxSourceRegion(m.dir, s) = m.region
        BY <3>2, <4>1 DEF HandsOn, Accepted, Way, LeavesInward
      <4>3. LeavesInward(s, m.dir # TurnsRound(s))
        BY <4>2, HandedOnInward
      <4>4. DirIn(s)' = (m.dir # TurnsRound(s))
        BY <2>1, <3>2 DEF DirIn, TurnsRound
      <4> QED
        BY <4>3, <4>4
    <3> QED
      BY <3>1, <3>2
  <2>4. ASSUME NEW n \in net' PROVE n \in net /\ ~tSync'[n.dst]
    <3>1. n \in net /\ n # m /\ n.dst \in Regions
      BY <1>1 DEF IInv
    <3>2. n.dst # m.dst /\ ~tSync[n.dst]
      BY <3>1 DEF Way
    <3> QED
      BY <2>2, <3>1, <3>2
  <2>5. \A s \in Regions : tSync'[s] => LeavesInward(s, DirIn(s))'
    BY <2>3 DEF LeavesInward, Behind
  <2>6. \A n \in net' : LeavesInward(n.region, n.dir)'
    BY <2>4 DEF Way, LeavesInward, Behind
  <2> QED
    BY <1>1, <2>1, <2>4, <2>5, <2>6 DEF Way
<1> QED
  BY <1>2, <1>3 DEF RecvIbr, RecvPacket

LEMMA OtherWay ==
    ASSUME Way, UNCHANGED <<tSync, started, dir>>, net' \subseteq net
    PROVE  Way'
BY DEF Way, Started, DirIn, LeavesInward, Behind

-----------------------------------------------------------------------------
(***************************************************************************)
(* The lists.  A leader between the intersections sends, and keeps, a list *)
(* that names its hosts as leaderIp; an intersection keeps one that names  *)
(* them as hostIp, and no host twice.  Between the intersections a list    *)
(* may name a vehicle twice, as two regions may have it in their host      *)
(* tables, and have entries of a region that the leader failed to erase,   *)
(* but no more than MaxList of a region.                                   *)
(***************************************************************************)
Addresses == Hosts \cup {NoIp}
EntryOf(L, H) == [ws : {getWaySegment(r) : r \in Regions}, region : Regions,
                  leaderIp : L, hostIp : H]

Entry == EntryOf(Addresses, Addresses)
Sent  == EntryOf(Hosts, {NoIp})
Noted == EntryOf({NoIp}, Hosts)

Kept(r) == IF getRegionLevel(r) = 1 THEN Noted ELSE Sent

Typed ==
    /\ hosts \in [Regions -> Seq(Hosts)]
    /\ discovery \in [Regions -> Seq(Entry)]
    /\ \A r \in Regions : discovery[r] \in Seq(Kept(r))
    /\ known \in [Regions -> Seq(Noted)]
    /\ \A m \in net : m.hosts \in Seq(Sent)
    /\ tIncoming \in [Regions -> BOOLEAN]

Tables ==
    \A r \in Regions : /\ Distinct(known[r])
                       /\ getRegionLevel(r) = 1 => Distinct(discovery[r])

InRegion(q) == {e \in Entry : e.region = q}
Sparse(list) == \A q \in Regions : CountIn(list, InRegion(q)) <= MaxList
Once(list) == \A i, j \in DOMAIN list : list[i] = list[j] => i = j

Bounds ==
    /\ \A r \in Regions : Once(hosts[r]) /\ Sparse(discovery[r])
    /\ \A m \in net : Sparse(m.hosts)

TInv == IInv /\ Way /\ Typed /\ Tables /\ Bounds

LEMMA EntryTypes == Sent \subseteq Entry /\ Noted \subseteq Entry /\ \A r : Kept(r) \subseteq Entry
BY DEF Sent, Noted, Kept, Entry, EntryOf, Addresses

\* A list of some of the entries is a list of entries.
LEMMA WiderList == \A A, B : A \subseteq B => Seq(A) \subseteq Seq(B)
OBVIOUS

LEMMA SwappedEntry == \A e \in Sent : Swapped(e) \in Noted /\ Swapped(e).hostIp = e.leaderIp
BY DEF Sent, Noted, EntryOf, Swapped

LEMMA HostsCounted ==
    /\ IsFiniteSet(Hosts) /\ Cardinality(Hosts) \in Nat
    /\ MaxList = 2 * Cardinality(Hosts)
BY IbrConstants, FS_CardinalityType DEF MaxList

\* A list that has no element twice is no longer than there are elements.
LEMMA OnceLength ==
    ASSUME NEW S, IsFiniteSet(S), NEW list \in Seq(S), Once(list)
    PROVE  Len(list) <= Cardinality(S)
<1>. DEFINE n == Len(list)
            f == [i \in 1 .. n |-> list[i]]
<1>1. n \in Nat /\ DOMAIN list = 1 .. n /\ \A i \in 1 .. n : list[i] \in S
  OBVIOUS
<1>. HIDE DEF n
<1>2. f \in Injection(1 .. n, S)
  BY <1>1 DEF Injection, IsInjective, Once
<1>3. Cardinality(1 .. n) = n
  BY <1>1, FS_Interval
<1>. HIDE DEF f
<1>4. Cardinality(1 .. n) <= Cardinality(S)
  BY <1>2, FS_Injection, Zenon
<1> QED
  BY <1>3, <1>4 DEF n

LEMMA DistinctBound ==
    ASSUME NEW E, NEW list \in Seq(E), Distinct(list),
           NEW S, IsFiniteSet(S), \A e \in E : e.hostIp \in S
    PROVE  Len(list) <= Cardinality(S)
<1>. DEFINE names == [i \in 1 .. Len(list) |-> list[i].hostIp]
<1>1. Len(list) \in Nat /\ DOMAIN list = 1 .. Len(list) /\ \A i \in 1 .. Len(list) : list[i] \in E
  OBVIOUS
<1>2. names \in Seq(S) /\ Len(names) = Len(list)
  BY <1>1
<1>3. Once(names)
  BY <1>1 DEF Once, Distinct
<1>. HIDE DEF names
<1> QED
  BY <1>2, <1>3, OnceLength

LEMMA CountLength ==
    ASSUME NEW E, NEW list \in Seq(E), NEW D
    PROVE  CountIn(list, D) <= Len(list)
<1>. DEFINE n == Len(list)
<1>1. n \in Nat
  OBVIOUS
<1>2. Upto(list, n, D) \in SUBSET (1 .. n)
  BY DEF Upto
<1>. HIDE DEF n
<1>3. IsFiniteSet(1 .. n) /\ Cardinality(1 .. n) = n
  BY <1>1, FS_Interval
<1>4. Cardinality(Upto(list, n, D)) <= Cardinality(1 .. n)
  BY <1>2, <1>3, FS_Subset, Zenon
<1> QED
  BY <1>3, <1>4 DEF CountIn, n

\* How many entries of a list are in a set, when another is put behind it.
LEMMA CountConcat ==
    ASSUME NEW E, NEW a \in Seq(E), NEW b \in Seq(E), NEW D
    PROVE  /\ CountIn(a \o b, D) <= CountIn(a, D) + Len(b)
           /\ Free(b, D) => CountIn(a \o b, D) = CountIn(a, D)
<1>. DEFINE k == Len(a)
            l == Len(b)
            all == a \o b
            A == Upto(a, k, D)
            B == k + 1 .. k + l
<1>1. /\ k \in Nat /\ l \in Nat /\ Len(all) = k + l /\ DOMAIN b = 1 .. l
      /\ \A i \in 1 .. k : all[i] = a[i]
      /\ \A i \in k + 1 .. k + l : all[i] = b[i - k] /\ i - k \in 1 .. l
  OBVIOUS
<1>2. CountIn(all, D) = Cardinality(Upto(all, k + l, D)) /\ CountIn(a, D) = Cardinality(A)
  BY <1>1 DEF CountIn
<1>. HIDE DEF k, l, all
<1>3. Upto(all, k + l, D) \in SUBSET (A \cup B)
  BY <1>1 DEF Upto
<1>4. IsFiniteSet(A) /\ IsFiniteSet(B) /\ Cardinality(B) = l
  <2>1. IsFiniteSet(1 .. k) /\ A \in SUBSET (1 .. k)
    BY <1>1, FS_Interval DEF Upto
  <2>2. IsFiniteSet(A)
    BY <2>1, FS_Subset, Zenon
  <2>3. IsFiniteSet(B) /\ Cardinality(B) = l
    BY <1>1, FS_Interval
  <2> QED
    BY <2>2, <2>3
<1>. HIDE DEF A, B
<1>5. /\ IsFiniteSet(A \cup B)
      /\ Cardinality(A \cup B) = Cardinality(A) + Cardinality(B) - Cardinality(A \cap B)
  BY <1>4, FS_Union
<1>6. Cardinality(A) \in Nat /\ Cardinality(A \cap B) \in Nat /\ Cardinality(A \cup B) \in Nat
  BY <1>4, <1>5, FS_Intersection, FS_CardinalityType
<1>7. Cardinality(Upto(all, k + l, D)) <= Cardinality(A \cup B)
  BY <1>3, <1>5, FS_Subset, Zenon
<1>8. Cardinality(Upto(all, k + l, D)) \in Nat
  BY <1>3, <1>5, FS_Subset, FS_CardinalityType, Zenon
<1>9. ASSUME Free(b, D) PROVE Upto(all, k + l, D) = A
  <2>1. \A i \in k + 1 .. k + l : all[i] \notin D
    BY <1>1, <1>9 DEF Free
  <2>2. \A i \in 1 .. k + l : i \in 1 .. k \/ i \in k + 1 .. k + l
    BY <1>1
  <2>3. 1 .. k \subseteq 1 .. k + l
    BY <1>1
  <2>4. \A i : i \in Upto(all, k + l, D) <=> i \in A
    BY <1>1, <2>1, <2>2, <2>3 DEF Upto, A
  <2> QED
    BY <2>4
<1>10. CountIn(all, D) <= CountIn(a, D) + l
  BY <1>1, <1>2, <1>4, <1>5, <1>6, <1>7, <1>8
<1>11. Free(b, D) => CountIn(all, D) = CountIn(a, D)
  BY <1>2, <1>9
<1> QED
  BY <1>10, <1>11 DEF all, l

\* What a leader between the intersections sends.
LEMMA RefreshedSparse ==
    ASSUME Typed, Bounds, NEW r \in Regions, getRegionLevel(r) # 1
    PROVE  Refreshed(r) \in Seq(Sent) /\ Sparse(Refreshed(r))
<1>. DEFINE list == discovery[r]
            doomed == OfRegion(list, r)
            left == Erase(list, doomed)
            own == OwnEntries(r)
<1>1. list \in Seq(Sent) /\ Sparse(list)
  BY DEF Typed, Bounds, Kept
<1>2. Thins(left, list, Sent) /\ Halved(left, list, doomed)
  BY <1>1, EraseThins, Zenon
<1>3. left \in Seq(Sent)
  BY <1>2 DEF Thins
<1>4. /\ own \in Seq(Sent) /\ Len(own) = Len(hosts[r])
      /\ \A i \in DOMAIN own : own[i].region = r
  <2>. DEFINE e(i) == HostEntry(getWaySegment(r), r, hosts[r][i], NoIp)
  <2>1. hosts[r] \in Seq(Hosts)
    BY DEF Typed
  <2>2. \A i \in DOMAIN hosts[r] : e(i) \in Sent /\ e(i).region = r
    BY <2>1 DEF HostEntry, Sent, EntryOf
  <2>3. Len(hosts[r]) \in Nat /\ DOMAIN hosts[r] = 1 .. Len(hosts[r])
    BY <2>1
  <2>4. own = [i \in DOMAIN hosts[r] |-> e(i)]
    BY DEF OwnEntries
  <2>. HIDE DEF e, own
  <2> QED
    BY <2>2, <2>3, <2>4
<1>5. Len(own) <= Cardinality(Hosts)
  <2>1. hosts[r] \in Seq(Hosts) /\ Once(hosts[r])
    BY DEF Typed, Bounds
  <2> QED
    BY <1>4, <2>1, HostsCounted, OnceLength
<1>6. Refreshed(r) = left \o own
  BY DEF Refreshed
<1>7. \A i \in DOMAIN list : list[i] \in doomed <=> list[i] \in InRegion(r)
  <2>1. \A i \in DOMAIN list : list[i] \in Entry
    BY <1>1, EntryTypes
  <2> QED
    BY <2>1 DEF OfRegion, Range, InRegion
<1>. HIDE DEF list, doomed, left, own
<1>8. CountIn(list, doomed) = CountIn(list, InRegion(r))
  <2>1. Upto(list, Len(list), doomed) = Upto(list, Len(list), InRegion(r))
    BY <1>1, <1>7 DEF Upto
  <2> QED
    BY <2>1 DEF CountIn
<1>9. CountIn(left, doomed) = CountIn(left, InRegion(r))
  <2>1. \A i \in DOMAIN left : left[i] \in doomed <=> left[i] \in InRegion(r)
    BY <1>2, <1>7 DEF Thins
  <2>2. Upto(left, Len(left), doomed) = Upto(left, Len(left), InRegion(r))
    BY <1>3, <2>1 DEF Upto
  <2> QED
    BY <2>2 DEF CountIn
<1>10. ASSUME NEW q \in Regions
       PROVE  CountIn(left \o own, InRegion(q)) <= MaxList
  <2>1. CountIn(list, InRegion(q)) <= MaxList
    BY <1>1 DEF Sparse
  <2>2. /\ CountIn(left \o own, InRegion(q)) <= CountIn(left, InRegion(q)) + Len(own)
        /\ Free(own, InRegion(q)) => CountIn(left \o own, InRegion(q)) = CountIn(left, InRegion(q))
    BY <1>3, <1>4, CountConcat, Zenon
  <2>3. CountIn(left \o own, InRegion(q)) \in Nat
    <3>1. left \o own \in Seq(Sent)
      BY <1>3, <1>4
    <3> QED
      BY <3>1, CountNat, Zenon
  <2>4. CountIn(left, InRegion(q)) \in Nat /\ CountIn(list, InRegion(q)) \in Nat /\ Len(own) \in Nat
    BY <1>1, <1>3, <1>4, CountNat
  <2>5. CASE q = r
    <3>1. 2 * CountIn(left, InRegion(q)) <= CountIn(list, InRegion(q))
      BY <1>2, <1>8, <1>9, <2>5 DEF Halved
    <3> QED
      BY <1>5, <2>1, <2>2, <2>3, <2>4, <3>1, HostsCounted
  <2>6. CASE q # r
    <3>1. Free(own, InRegion(q))
      BY <1>4, <2>6 DEF Free, InRegion
    <3>2. CountIn(left, InRegion(q)) <= CountIn(list, InRegion(q))
      BY <1>2 DEF Halved
    <3> QED
      BY <2>1, <2>2, <2>3, <2>4, <3>1, <3>2, HostsCounted
  <2> QED
    BY <2>5, <2>6
<1>11. left \o own \in Seq(Sent)
  BY <1>3, <1>4
<1> QED
  BY <1>6, <1>10, <1>11 DEF Sparse

\* The table of an intersection is short.
LEMMA NotedSparse ==
    ASSUME NEW list \in Seq(Noted), Distinct(list)
    PROVE  Len(list) <= Cardinality(Hosts) /\ Sparse(list)
<1>1. \A e \in Noted : e.hostIp \in Hosts
  BY DEF Noted, EntryOf
<1>2. Len(list) <= Cardinality(Hosts)
  BY <1>1, HostsCounted, DistinctBound
<1>3. ASSUME NEW q \in Regions PROVE CountIn(list, InRegion(q)) <= MaxList
  <2>1. CountIn(list, InRegion(q)) \in Nat /\ Len(list) \in Nat
    BY CountNat
  <2>2. CountIn(list, InRegion(q)) <= Len(list)
    BY CountLength
  <2> QED
    BY <1>2, <2>1, <2>2, HostsCounted
<1> QED
  BY <1>2, <1>3 DEF Sparse

\* What is left of the host table when an entry expires.
LEMMA RemovedOnce ==
    ASSUME NEW E, NEW list \in Seq(E), Once(list), NEW i \in DOMAIN list
    PROVE  /\ SubSeq(list, 1, i - 1) \o SubSeq(list, i + 1, Len(list)) \in Seq(E)
           /\ Once(SubSeq(list, 1, i - 1) \o SubSeq(list, i + 1, Len(list)))
<1>. DEFINE n == Len(list)
            a == SubSeq(list, 1, i - 1)
            b == SubSeq(list, i + 1, n)
            rest == a \o b
<1>1. n \in Nat /\ DOMAIN list = 1 .. n /\ i \in 1 .. n /\ \A j \in 1 .. n : list[j] \in E
  OBVIOUS
<1>. HIDE DEF n
<1>2. a \in Seq(E) /\ Len(a) = i - 1 /\ \A j \in 1 .. i - 1 : a[j] = list[j]
  <2>1. \A j \in 1 .. i - 1 : list[j] \in E
    BY <1>1
  <2> QED
    BY <1>1, <2>1, SubSeqProperties
<1>3. b \in Seq(E) /\ Len(b) = n - i /\ \A j \in 1 .. n - i : b[j] = list[i + j]
  <2>1. \A j \in i + 1 .. n : list[j] \in E
    BY <1>1
  <2> QED
    BY <1>1, <2>1, SubSeqProperties
<1>. HIDE DEF a, b
<1>4. /\ rest \in Seq(E) /\ DOMAIN rest = 1 .. n - 1
      /\ \A j \in 1 .. i - 1 : rest[j] = list[j]
      /\ \A j \in i .. n - 1 : rest[j] = list[j + 1]
  <2>1. rest \in Seq(E) /\ Len(rest) = n - 1 /\ DOMAIN rest = 1 .. n - 1
    <3>1. rest \in Seq(E) /\ Len(rest) = Len(a) + Len(b)
      <4>1. a \in Seq(E) /\ b \in Seq(E)
        BY <1>2, <1>3
      <4> QED
        BY <4>1, ConcatProperties
    <3>2. Len(rest) = n - 1
      BY <1>1, <1>2, <1>3, <3>1
    <3>. HIDE DEF rest
    <3> QED
      BY <3>1, <3>2
  <2>2. \A j \in 1 .. i - 1 : rest[j] = list[j]
    BY <1>1, <1>2, <1>3
  <2>3. ASSUME NEW j \in i .. n - 1 PROVE rest[j] = list[j + 1]
    <3>1. rest[j] = b[j - (i - 1)]
      BY <1>1, <1>2, <1>3
    <3>2. j - (i - 1) \in 1 .. n - i /\ i + (j - (i - 1)) = j + 1
      BY <1>1
    <3> QED
      BY <1>3, <3>1, <3>2
  <2> QED
    BY <2>1, <2>2, <2>3
<1>. HIDE DEF rest
<1>5. ASSUME NEW j \in 1 .. n - 1, NEW k \in 1 .. n - 1, rest[j] = rest[k] PROVE j = k
  <2>. DEFINE Old(x) == IF x < i THEN x ELSE x + 1
  <2>1. /\ Old(j) \in DOMAIN list /\ Old(k) \in DOMAIN list
        /\ rest[j] = list[Old(j)] /\ rest[k] = list[Old(k)]
    BY <1>1, <1>4
  <2>2. Old(j) = Old(k)
    BY <1>5, <2>1 DEF Once
  <2> QED
    BY <1>1, <2>2
<1>6. Once(rest)
  BY <1>4, <1>5 DEF Once
<1> QED
  BY <1>4, <1>6 DEF rest, a, b, n

\* A vehicle that is not listed may be added.
LEMMA AddedOnce ==
    ASSUME NEW E, NEW list \in Seq(E), Once(list), NEW e \in E, \A i \in DOMAIN list : list[i] # e
    PROVE  Append(list, e) \in Seq(E) /\ Once(Append(list, e))
<1>. DEFINE l == Len(list)
            new == Append(list, e)
<1>1. /\ l \in Nat /\ DOMAIN list = 1 .. l /\ DOMAIN new = 1 .. l + 1
      /\ \A k \in 1 .. l : new[k] = list[k]
      /\ new[l + 1] = e
      /\ new \in Seq(E)
  OBVIOUS
<1>. HIDE DEF l, new
<1>2. \A k \in DOMAIN new : k \in 1 .. l \/ k = l + 1
  BY <1>1
<1>3. Once(new)
  BY <1>1, <1>2 DEF Once
<1> QED
  BY <1>1, <1>3 DEF new

-----------------------------------------------------------------------------
LEMMA BroadcastTables ==
    ASSUME TInv, NEW r \in Regions, TimerSyncHostTable(r)
    PROVE  Typed' /\ Tables' /\ Bounds'
<1>1. /\ discovery' = [discovery EXCEPT ![r] = Refreshed(r)]
      /\ \A m \in net' : m.hosts = Refreshed(r)
      /\ UNCHANGED <<known, hosts, tIncoming>>
  BY DEF TimerSyncHostTable, road
<1>2. getRegionLevel(r) # 1
  BY DEF TInv, Way, LeavesInward, TimerSyncHostTable
<1>3. Refreshed(r) \in Seq(Sent) /\ Sparse(Refreshed(r))
  BY <1>2, RefreshedSparse DEF TInv
<1>4. Refreshed(r) \in Seq(Entry) /\ Refreshed(r) \in Seq(Kept(r))
  BY <1>2, <1>3, EntryTypes, WiderList DEF Kept
<1>5. /\ \A s \in Regions : s # r => discovery'[s] = discovery[s]
      /\ discovery'[r] = Refreshed(r) /\ discovery' \in [Regions -> Seq(Entry)]
  BY <1>1, <1>4 DEF TInv, Typed
<1>. DEFINE sent == Refreshed(r)
<1>6. sent \in Seq(Sent) /\ sent \in Seq(Kept(r)) /\ Sparse(sent) /\ discovery'[r] = sent
      /\ \A m \in net' : m.hosts = sent
  BY <1>1, <1>3, <1>4, <1>5
<1>. HIDE DEF sent
<1>7. Typed'
  <2>1. \A s \in Regions : discovery'[s] \in Seq(Kept(s))
    BY <1>5, <1>6 DEF TInv, Typed
  <2> QED
    BY <1>1, <1>5, <1>6, <2>1
    DEF TInv, Typed, Entry, Sent, Noted, Kept, EntryOf, Addresses
<1>8. Tables'
  BY <1>1, <1>2, <1>5 DEF TInv, Tables
<1>9. Bounds'
  <2>1. \A s \in Regions : Sparse(discovery'[s])
    BY <1>5, <1>6 DEF TInv, Bounds
  <2>2. \A m \in net' : Sparse(m.hosts)
    BY <1>6
  <2>3. \A s \in Regions : Once(hosts'[s])
    BY <1>1 DEF TInv, Bounds
  <2> QED
    BY <2>1, <2>2, <2>3 DEF Bounds, Sparse, InRegion, Entry, EntryOf, MaxList
<1> QED
  BY <1>7, <1>8, <1>9

\* An intersection merges what it hears into a list that names no host twice; it never
\* accepts one.
LEMMA ReceptionTables ==
    ASSUME TInv, NEW m \in net, RecvIbr(m)
    PROVE  Typed' /\ Tables' /\ Bounds'
<1>. DEFINE s == m.dst
            list == IF Accepted(m) THEN m.hosts ELSE discovery[s]
            Near == IsIntersectionNeighbour(s, m.region, m.dir)
            merged == Merged(list, m)
<1>1. /\ s \in Regions /\ m.hosts \in Seq(Sent) /\ Sparse(m.hosts)
      /\ discovery[s] \in Seq(Kept(s)) /\ Sparse(discovery[s])
  BY DEF TInv, IInv, Typed, Bounds
<1>2. getRegionLevel(s) = 1 => ~Accepted(m)
  BY <1>1, IntersectionsOnlyHear DEF TInv
<1>3. list \in Seq(Kept(s)) /\ Sparse(list) /\ (getRegionLevel(s) = 1 => Distinct(list))
  BY <1>1, <1>2 DEF TInv, Tables, Kept
<1>4. Near => getRegionLevel(s) = 1
  BY IntersectionsEndWays DEF IsIntersectionNeighbour, Entries
<1>5. UNCHANGED <<hosts, tIncoming>> /\ net' \subseteq net
  BY DEF RecvIbr, road
<1>6. \/ UNCHANGED <<discovery, known>>
      \/ /\ Near
         /\ discovery' = [discovery EXCEPT ![s] = merged]
         /\ known' = [known EXCEPT ![s] = merged]
      \/ /\ discovery' = [discovery EXCEPT ![s] = list]
         /\ UNCHANGED known
  BY DEF RecvIbr, RecvPacket
<1>7. ASSUME Near PROVE merged \in Seq(Noted) /\ Distinct(merged) /\ Sparse(merged)
  <2>1. list \in Seq(Noted) /\ Distinct(list)
    BY <1>3, <1>4, <1>7 DEF Kept
  <2>. HIDE DEF list
  <2>2. merged \in Seq(Noted) /\ Distinct(merged)
    <3>1. m.hosts \in Seq(Sent)
      BY <1>1
    <3> QED
      BY <2>1, <3>1, SwappedEntry, MergedDistinct
  <2>. HIDE DEF merged
  <2> QED
    BY <2>2, NotedSparse
<1>8. Near => merged \in Seq(Kept(s))
  BY <1>4, <1>7 DEF Kept
<1>9. list \in Seq(Entry) /\ (Near => merged \in Seq(Entry))
  BY <1>3, <1>8, EntryTypes, WiderList
<1>. HIDE DEF s, list, Near, merged
<1>10. discovery \in [Regions -> Seq(Entry)] /\ known \in [Regions -> Seq(Noted)]
  BY DEF TInv, Typed
<1>11. discovery' \in [Regions -> Seq(Entry)] /\ known' \in [Regions -> Seq(Noted)]
  BY <1>1, <1>6, <1>7, <1>9, <1>10
<1>12. ASSUME NEW q \in Regions
       PROVE  /\ discovery'[q] \in Seq(Kept(q)) /\ Sparse(discovery'[q])
              /\ Distinct(known'[q])
              /\ getRegionLevel(q) = 1 => Distinct(discovery'[q])
  <2>1. /\ discovery[q] \in Seq(Kept(q)) /\ Sparse(discovery[q])
        /\ Distinct(known[q]) /\ (getRegionLevel(q) = 1 => Distinct(discovery[q]))
    BY DEF TInv, Typed, Tables, Bounds
  <2>2. CASE q # s
    <3>1. discovery'[q] = discovery[q] /\ known'[q] = known[q]
      BY <1>6, <1>10, <2>2
    <3> QED
      BY <2>1, <3>1
  <2>3. CASE q = s
    <3>1. \/ discovery'[q] = discovery[q] /\ known'[q] = known[q]
          \/ Near /\ discovery'[q] = merged /\ known'[q] = merged
          \/ discovery'[q] = list /\ known'[q] = known[q]
      BY <1>1, <1>6, <1>10, <2>3
    <3> QED
      BY <1>3, <1>7, <1>8, <2>1, <2>3, <3>1
  <2> QED
    BY <2>2, <2>3
<1>13. Typed'
  <2>1. \A n \in net' : n.hosts \in Seq(Sent)
    BY <1>5 DEF TInv, Typed
  <2>2. hosts' \in [Regions -> Seq(Hosts)] /\ tIncoming' \in [Regions -> BOOLEAN]
    BY <1>5 DEF TInv, Typed
  <2> QED
    BY <1>11, <1>12, <2>1, <2>2 DEF Typed, Entry, Sent, Noted, Kept, EntryOf, Addresses
<1>14. Tables'
  BY <1>12 DEF Tables
<1>15. Bounds'
  <2>1. \A n \in net' : Sparse(n.hosts)
    BY <1>5 DEF TInv, Bounds
  <2>2. \A q \in Regions : Once(hosts'[q])
    BY <1>5 DEF TInv, Bounds
  <2> QED
    BY <1>12, <2>1, <2>2 DEF Bounds, Sparse, InRegion, Entry, EntryOf, MaxList
<1> QED
  BY <1>13, <1>14, <1>15

\* What changes no list but the virtual layer's.
LEMMA OtherTables ==
    ASSUME TInv, UNCHANGED <<discovery, known>>, net' \subseteq net,
           hosts' \in [Regions -> Seq(Hosts)], \A r \in Regions : Once(hosts'[r]),
           tIncoming' \in [Regions -> BOOLEAN]
    PROVE  Typed' /\ Tables' /\ Bounds'
<1>1. Typed'
  BY DEF TInv, Typed, Entry, Sent, Noted, Kept, EntryOf, Addresses
<1>2. Tables'
  BY DEF TInv, Tables
<1>3. Bounds'
  <2>1. (\A m \in net' : Sparse(m.hosts)) /\ \A r \in Regions : Sparse(discovery'[r])
    BY DEF TInv, Bounds
  <2> QED
    BY <2>1 DEF Bounds, Sparse, InRegion, Entry, EntryOf, MaxList
<1> QED
  BY <1>1, <1>2, <1>3

LEMMA InitTInv == Init => TInv
<1> SUFFICES ASSUME Init PROVE TInv
  OBVIOUS
<1>1. IInv
  BY InitIInv
<1>2. Way
  BY DEF Init, Way
<1>3. Typed /\ Tables
  BY DEF Init, Typed, Tables, Distinct
<1>4. Bounds
  <2>1. \A D : CountIn(<<>>, D) = 0
    BY UptoNone DEF CountIn
  <2>2. Sparse(<<>>) /\ Once(<<>>)
    BY <2>1, HostsCounted DEF Sparse, Once
  <2> QED
    BY <2>2 DEF Init, Bounds
<1> QED
  BY <1>1, <1>2, <1>3, <1>4 DEF TInv

\* One step per action.
LEMMA NextTInv ==
    ASSUME ~Watchdog, IsFiniteSet(Starters), Cardinality(Starters) <= 1
    PROVE  TInv /\ [Next]_vars => TInv'
<1> SUFFICES ASSUME TInv, [Next]_vars PROVE TInv'
  OBVIOUS
<1>1. IInv' /\ IInv /\ Way
  BY NextIInv DEF TInv
<1>2. /\ hosts \in [Regions -> Seq(Hosts)] /\ tIncoming \in [Regions -> BOOLEAN]
      /\ \A r \in Regions : Once(hosts[r])
  BY DEF TInv, Typed, Bounds
<1>3. CASE \E r \in Regions : TimerPingPongStart(r)
  <2>1. PICK r \in Regions : TimerPingPongStart(r)
    BY <1>3
  <2>2. UNCHANGED <<discovery, known, net, hosts>> /\ tIncoming' \in [Regions -> BOOLEAN]
    <3>1. \/ UNCHANGED tIncoming
          \/ \E b \in BOOLEAN : tIncoming' = [tIncoming EXCEPT ![r] = b]
      <4>. DEFINE b == r \in Starters
      <4>1. b \in BOOLEAN
        OBVIOUS
      <4>2. UNCHANGED tIncoming \/ tIncoming' = [tIncoming EXCEPT ![r] = b]
        BY <2>1 DEF TimerPingPongStart
      <4>. HIDE DEF b
      <4> QED
        BY <4>1, <4>2
    <3>2. UNCHANGED <<discovery, known, net, hosts>>
      BY <2>1 DEF TimerPingPongStart, radio, road
    <3> QED
      BY <1>2, <3>1, <3>2
  <2> QED
    BY <1>1, <1>2, <2>1, <2>2, StartWay, OtherTables DEF TInv
<1>4. CASE \E r \in Regions : TimerIncomingPacket(r)
  <2>1. /\ UNCHANGED <<discovery, known, net, hosts, tSync, started, dir>>
        /\ tIncoming' \in [Regions -> BOOLEAN]
    BY <1>2, <1>4 DEF TimerIncomingPacket, radio, road
  <2> QED
    BY <1>1, <1>2, <2>1, OtherWay, OtherTables DEF TInv
<1>5. CASE \E r \in Regions : TimerSyncHostTable(r)
  BY <1>1, <1>5, BroadcastWay, BroadcastTables DEF TInv
<1>6. CASE \E m \in net : RecvIbr(m)
  BY <1>1, <1>6, ReceptionWay, ReceptionTables DEF TInv
<1>7. CASE \E m \in net : Lose(m)
  <2>1. /\ UNCHANGED <<discovery, known, hosts, tSync, started, dir, tIncoming>>
        /\ net' \subseteq net
    BY <1>7 DEF Lose, road
  <2> QED
    BY <1>1, <1>2, <2>1, OtherWay, OtherTables DEF TInv
<1>8. CASE \E r \in Regions, h \in Hosts : PutHost(r, h) \/ QuitHost(r, h) \/ Move(h, r)
  <2>1. PICK r \in Regions, h \in Hosts : PutHost(r, h) \/ QuitHost(r, h) \/ Move(h, r)
    BY <1>8
  <2>2. UNCHANGED <<discovery, known, net, tSync, started, dir, tIncoming>>
    BY <2>1 DEF PutHost, QuitHost, Move, radio
  <2>3. hosts[r] \in Seq(Hosts) /\ Once(hosts[r])
    BY <1>2
  <2>4. hosts' = hosts \/ \E list \in Seq(Hosts) : Once(list) /\ hosts' = [hosts EXCEPT ![r] = list]
    <3>1. CASE PutHost(r, h)
      <4>1. hosts' = [hosts EXCEPT ![r] = Append(hosts[r], h)] /\ ~Listed(r, h)
        BY <3>1 DEF PutHost
      <4>2. Append(hosts[r], h) \in Seq(Hosts) /\ Once(Append(hosts[r], h))
        BY <2>3, <4>1, AddedOnce DEF Listed
      <4> QED
        BY <4>1, <4>2, Zenon
    <3>2. CASE QuitHost(r, h)
      <4>. DEFINE rest(i) == SubSeq(hosts[r], 1, i - 1) \o SubSeq(hosts[r], i + 1, Len(hosts[r]))
      <4>1. PICK i \in DOMAIN hosts[r] : hosts' = [hosts EXCEPT ![r] = rest(i)]
        BY <3>2 DEF QuitHost
      <4>2. rest(i) \in Seq(Hosts) /\ Once(rest(i))
        BY <2>3, RemovedOnce
      <4>. HIDE DEF rest
      <4> QED
        BY <4>1, <4>2, Zenon
    <3>3. Move(h, r) => hosts' = hosts
      BY DEF Move
    <3> QED
      BY <2>1, <3>1, <3>2, <3>3
  <2>5. hosts' \in [Regions -> Seq(Hosts)] /\ \A s \in Regions : Once(hosts'[s])
    <3>1. CASE hosts' = hosts
      BY <1>2, <3>1
    <3>2. ASSUME NEW list \in Seq(Hosts), Once(list), hosts' = [hosts EXCEPT ![r] = list]
          PROVE  hosts' \in [Regions -> Seq(Hosts)] /\ \A s \in Regions : Once(hosts'[s])
      <4>1. hosts' \in [Regions -> Seq(Hosts)]
        BY <1>2, <3>2
      <4>2. ASSUME NEW s \in Regions PROVE Once(hosts'[s])
        <5>1. hosts'[s] = list \/ hosts'[s] = hosts[s]
          BY <1>2, <3>2
        <5> QED
          BY <1>2, <3>2, <5>1
      <4> QED
        BY <4>1, <4>2
    <3> QED
      BY <2>4, <3>1, <3>2
  <2> QED
    BY <1>1, <1>2, <2>2, <2>5, OtherWay, OtherTables DEF TInv
<1>9. CASE UNCHANGED vars
  BY <1>1, <1>2, <1>9, OtherWay, OtherTables DEF TInv, vars, radio, road
<1> QED
  BY <1>3, <1>4, <1>5, <1>6, <1>7, <1>8, <1>9 DEF Next

\* A list that names no host twice is as long as it names hosts.
LEMMA DistinctLength ==
    ASSUME NEW E, NEW list \in Seq(E), Distinct(list)
    PROVE  Len(list) = Cardinality({list[i].hostIp : i \in DOMAIN list})
<1>. DEFINE n == Len(list)
            named == {list[i].hostIp : i \in DOMAIN list}
            f == [i \in 1 .. n |-> list[i].hostIp]
<1>1. n \in Nat /\ DOMAIN list = 1 .. n
  OBVIOUS
<1>2. f \in Bijection(1 .. n, named)
  <2>1. f \in [1 .. n -> named] /\ \A i \in 1 .. n : f[i] = list[i].hostIp
    BY <1>1
  <2>2. \A x \in named : \E i \in 1 .. n : f[i] = x
    BY <1>1
  <2>. HIDE DEF f
  <2>3. \A i, j \in 1 .. n : f[i] = f[j] => i = j
    BY <1>1, <2>1 DEF Distinct
  <2>. HIDE DEF named
  <2> QED
    BY <2>1, <2>2, <2>3 DEF Bijection, Injection, Surjection, IsInjective
<1>. HIDE DEF f, named, n
<1>3. IsFiniteSet(1 .. n) /\ Cardinality(1 .. n) = n
  BY <1>1, FS_Interval
<1>4. ExistsBijection(1 .. n, named)
  BY <1>2 DEF ExistsBijection
<1>5. Cardinality(named) = n
  BY <1>3, <1>4, FS_Bijection
<1> QED
  BY <1>5 DEF n, named

(***************************************************************************)
(* An intersection's table names no vehicle twice (NoHostTwice), as long   *)
(* as the watchdog is off and one region starts, for any grid of ways and  *)
(* any movement of the vehicles: the list is turned round before an        *)
(* intersection can accept it as its own, and RecvPacket erases what the   *)
(* table has of each host that it adds.                                    *)
(***************************************************************************)
THEOREM NoHostIsNamedTwice ==
    ASSUME ~Watchdog, IsFiniteSet(Starters), Cardinality(Starters) <= 1
    PROVE  Spec => []NoHostTwice
<1>1. TInv => NoHostTwice
  <2> SUFFICES ASSUME TInv, NEW r \in Regions
               PROVE  Len(known[r]) = Cardinality(KnownHosts(r))
    BY DEF NoHostTwice
  <2>1. known[r] \in Seq(Noted) /\ Distinct(known[r])
    BY DEF TInv, Typed, Tables
  <2> QED
    BY <2>1, DistinctLength DEF KnownHosts
<1>2. TInv /\ [Next]_vars => TInv'
  BY NextTInv
<1> QED
  BY <1>1, <1>2, InitTInv, PTL DEF Spec

(***************************************************************************)
(* The lists stay short (TypeOK), under the same conditions, however long  *)
(* they travel and however often the vehicles move: no list has more than  *)
(* MaxList entries of one region, though the leader that replaces what it  *)
(* said of its region leaves every other one of adjacent entries, and no   *)
(* intersection's table is longer than there are vehicles.                 *)
(***************************************************************************)
THEOREM ListsStayShort ==
    ASSUME ~Watchdog, IsFiniteSet(Starters), Cardinality(Starters) <= 1
    PROVE  Spec => []TypeOK
<1>1. TInv => TypeOK
  <2> SUFFICES ASSUME TInv PROVE TypeOK
    OBVIOUS
  <2>1. {started, dir, tSync, tIncoming} \subseteq [Regions -> BOOLEAN]
    BY DEF TInv, IInv, Way, Typed
  <2>2. ASSUME NEW r \in Regions, NEW q \in Regions
        PROVE  Cardinality(EntriesOf(discovery[r], q)) <= MaxList
    <3>1. discovery[r] \in Seq(Entry)
      BY DEF TInv, Typed
    <3>2. EntriesOf(discovery[r], q) = Upto(discovery[r], Len(discovery[r]), InRegion(q))
      BY <3>1 DEF EntriesOf, Upto, InRegion
    <3>3. CountIn(discovery[r], InRegion(q)) <= MaxList
      BY DEF TInv, Bounds, Sparse
    <3> QED
      BY <3>2, <3>3 DEF CountIn
  <2>3. ASSUME NEW r \in Regions PROVE Len(known[r]) <= Cardinality(Hosts)
    <3>1. known[r] \in Seq(Noted) /\ Distinct(known[r])
      BY DEF TInv, Typed, Tables
    <3> QED
      BY <3>1, NotedSparse
  <2> QED
    BY <2>1, <2>2, <2>3 DEF TypeOK
<1>2. TInv /\ [Next]_vars => TInv'
  BY NextTInv
<1> QED
  BY <1>1, <1>2, InitTInv, PTL DEF Spec
=============================================================================
