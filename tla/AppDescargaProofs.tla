------------------------- MODULE AppDescargaProofs -------------------------
(* Proofs about AppDescarga, for every set of nodes, number of chunks,      *)
(* percentage and timing.                                                  *)
EXTENDS AppDescarga, SumLemmas

-----------------------------------------------------------------------------
(* The bag of packets in flight.                                           *)

LEMMA InFlightSent ==
    ASSUME NEW B, NEW C
    PROVE  BagToSet(B (+) C) = BagToSet(B) \cup BagToSet(C)
BY DEF BagToSet, (+)

LEMMA InFlightTaken ==
    ASSUME NEW B, NEW C
    PROVE  BagToSet(B (-) C) \subseteq BagToSet(B)
BY DEF BagToSet, (-)

LEMMA InFlightSet ==
    ASSUME NEW S
    PROVE  BagToSet(SetToBag(S)) = S
BY DEF BagToSet, SetToBag

LEMMA InFlightTake ==
    ASSUME NEW m
    PROVE  BagToSet(Take(m)) \subseteq InFlight
BY InFlightTaken DEF Take, InFlight

LEMMA InFlightTasks ==
    ASSUME NEW a, NEW k, NEW f
    PROVE  BagToSet(TaskInfos(a, k, f))
             = {Packet("TaskInfo", a, collabs[a][i], f[i]) : i \in 1 .. k}
BY DEF BagToSet, TaskInfos

\* The collaborators used are among those that answered.
LEMMA CollabNodesBound ==
    ASSUME TypeOK, NEW a \in Nodes
    PROVE  collabNodes(a) \in 0 .. Len(collabs[a])
<1>1. Len(collabs[a]) \in Nat /\ Percent \in 0 .. 100
  BY ConstantsOK DEF TypeOK
<1>2. \A n \in Nat, p \in 0 .. 100 : n * p \in 0 .. n * 100
  OBVIOUS
<1>3. \A q \in Nat, n \in Nat : q \in 0 .. n * 100 => q \div 100 \in 0 .. n
  OBVIOUS
<1>4. ASSUME NEW n \in Nat, NEW p \in 0 .. 100
      PROVE  (n * p) \div 100 \in 0 .. n
  <2>. DEFINE q == n * p
  <2>1. q \in Nat /\ q \in 0 .. n * 100
    BY <1>2
  <2>. HIDE DEF q
  <2>2. q \div 100 \in 0 .. n
    BY <1>3, <2>1
  <2> QED
    BY <2>2 DEF q
<1> QED
  BY <1>1, <1>4, Zenon DEF collabNodes

-----------------------------------------------------------------------------
(* Type correctness.                                                       *)

LEMMA PacketType ==
    ASSUME NEW t \in MsgTypes, NEW x \in Nodes, NEW y \in Nodes, NEW p \in Cells
    PROVE  Packet(t, x, y, p) \in Message
BY DEF Packet, Message

LEMMA ZeroCell == 0 \in Cells
BY ConstantsOK DEF Cells, Foreign

LEMMA BroadcastType ==
    ASSUME NEW t \in MsgTypes, NEW x \in Nodes
    PROVE  BagToSet(Broadcast(t, x)) \subseteq Message
BY InFlightSet, PacketType, ZeroCell DEF Broadcast

LEMMA StartDownloadType ==
    ASSUME TypeOK, NEW a \in Nodes, StartDownload(a)
    PROVE  /\ appState' \in [Nodes -> States]
           /\ chunks' \in [Nodes -> [Table -> BOOLEAN]]
           /\ collabs' \in [Nodes -> Seq(Nodes)]
           /\ tDownloadStart' \in [Nodes -> BOOLEAN]
           /\ tResRequest' \in [Nodes -> {"off", "window", "round"}]
           /\ InFlight' \subseteq Message
           /\ asked' \in [Nodes -> SUBSET Cells]
           /\ latest' \in [Nodes -> SUBSET Cells]
           /\ UNCHANGED <<tAck, part, respTo, tDownload>>
<1>1. InFlight' \subseteq Message
  BY BroadcastType, InFlightSent DEF TypeOK, InFlight, StartDownload, MsgTypes
<1>2. chunks' \in [Nodes -> [Table -> BOOLEAN]]
  BY DEF TypeOK, StartDownload, ResetTable
<1> QED
  BY <1>1, <1>2 DEF TypeOK, StartDownload, States, workVars

LEMMA DistributeTasksType ==
    ASSUME TypeOK, NEW a \in Nodes, DistributeTasks(a)
    PROVE  TypeOK'
<1>. DEFINE k == collabNodes(a)
<1>1. k \in 1 .. Len(collabs[a])
  BY CollabNodesBound, ConstantsOK DEF DistributeTasks, TypeOK
<1>2. PICK f \in [1 .. k -> Cells] :
          /\ lastChunk' = [lastChunk EXCEPT ![a] = f[k] + 1]
          /\ net' = net (+) TaskInfos(a, k, f)
          /\ asked' = [asked EXCEPT ![a] = @ \cup {f[i] : i \in 1 .. k}]
          /\ latest' = [latest EXCEPT ![a] = {f[i] : i \in 1 .. k}]
  BY DEF DistributeTasks
<1>. HIDE DEF k
<1>3. f[k] \in Cells
  BY <1>1
<1>4. \A i \in 1 .. k : Packet("TaskInfo", a, collabs[a][i], f[i]) \in Message
  <2>. SUFFICES ASSUME NEW i \in 1 .. k
                PROVE  Packet("TaskInfo", a, collabs[a][i], f[i]) \in Message
    OBVIOUS
  <2>1. collabs[a] \in Seq(Nodes) /\ i \in 1 .. Len(collabs[a])
    BY <1>1 DEF TypeOK
  <2>2. collabs[a][i] \in Nodes /\ f[i] \in Cells
    BY <2>1
  <2> QED
    BY <2>2, PacketType DEF MsgTypes
<1>5. InFlight' \subseteq Message
  <2>0. BagToSet(TaskInfos(a, k, f))
          = {Packet("TaskInfo", a, collabs[a][i], f[i]) : i \in 1 .. k}
    BY DEF BagToSet, TaskInfos
  <2>1. BagToSet(TaskInfos(a, k, f)) \subseteq Message
    BY <1>4, <2>0, Zenon
  <2>2. BagToSet(net') = InFlight \cup BagToSet(TaskInfos(a, k, f))
    BY <1>2, InFlightSent DEF InFlight
  <2> QED
    BY <2>1, <2>2 DEF TypeOK, InFlight
<1>6. lastChunk' \in [Nodes -> 0 .. Foreign + 1]
  BY <1>2, <1>3, ConstantsOK DEF TypeOK, Cells, Foreign
<1>7. asked' \in [Nodes -> SUBSET Cells] /\ latest' \in [Nodes -> SUBSET Cells]
  BY <1>2 DEF TypeOK
<1> QED
  BY <1>5, <1>6, <1>7 DEF TypeOK, DistributeTasks, States, workVars, RearmRound

LEMMA SendReportType ==
    ASSUME TypeOK, NEW n \in Nodes, SendReport(n)
    PROVE  /\ InFlight' \subseteq Message
           /\ appState' \in [Nodes -> States]
           /\ tAck' \in [Nodes -> BOOLEAN]
<1>1. Packet("CompleteTask", n, respTo[n], part[n]) \in Message
  BY PacketType DEF TypeOK, MsgTypes
<1>2. InFlight' \subseteq Message
  BY <1>1, InFlightSent, InFlightSet DEF TypeOK, InFlight, SendReport, One
<1> QED
  BY <1>2 DEF TypeOK, SendReport, States

LEMMA RecvPktType ==
    ASSUME TypeOK, NEW m \in InFlight, RecvPkt(m) \/ Lose(m)
    PROVE  TypeOK'
<1>. USE DEF TypeOK, States, appVars, workVars
<1>1. /\ m \in Message /\ m.dst \in Nodes /\ m.src \in Nodes /\ m.part \in Cells
      /\ BagToSet(Take(m)) \subseteq Message
  BY InFlightTake DEF Message
<1>2. CASE RecvResourceRequest(m)
  <2>1. BagToSet(net') \subseteq Message
    BY <1>1, <1>2, InFlightSent, BroadcastType DEF RecvResourceRequest, MsgTypes
  <2> QED
    BY <1>1, <1>2, <2>1 DEF RecvResourceRequest, InFlight
<1>3. CASE RecvResourceInfoFromCN(m)
  <2>1. collabs' \in [Nodes -> Seq(Nodes)]
    BY <1>1, <1>3 DEF RecvResourceInfoFromCN
  <2> QED
    BY <1>1, <1>3, <2>1 DEF RecvResourceInfoFromCN, InFlight
<1>4. CASE RecvTaskInfo(m)
  BY <1>1, <1>4 DEF RecvTaskInfo, StartDownloadTask, InFlight
<1>5. CASE RecvCompleteTask(m)
  <2>1. Packet("CompleteTaskAck", m.dst, m.src, 0) \in Message
    BY <1>1, PacketType, ZeroCell DEF MsgTypes
  <2>2. BagToSet(net') \subseteq Message
    BY <1>1, <1>5, <2>1, InFlightSent, InFlightSet DEF RecvCompleteTask, One
  <2>3. chunks' \in [Nodes -> [Table -> BOOLEAN]]
    BY <1>1, <1>5 DEF RecvCompleteTask, Recorded
  <2> QED
    BY <1>5, <2>2, <2>3 DEF RecvCompleteTask, InFlight
<1>6. CASE RecvCompleteTaskAck(m)
  BY <1>1, <1>6 DEF RecvCompleteTaskAck, InFlight
<1>7. CASE RecvIgnored(m) \/ Lose(m)
  BY <1>1, <1>7 DEF RecvIgnored, Lose, InFlight
<1> QED
  BY <1>2, <1>3, <1>4, <1>5, <1>6, <1>7 DEF RecvPkt

\* Every variable keeps its type: every index the app node asks for and every
\* write to the table stays within the cells the model follows.
THEOREM TypeCorrect == Spec => []TypeOK
<1>1. Init => TypeOK
  <2>. SUFFICES ASSUME Init PROVE TypeOK
    OBVIOUS
  <2>1. InFlight = {}
    BY InFlightSet DEF Init, EmptyBag, InFlight
  <2>2. chunks \in [Nodes -> [Table -> BOOLEAN]]
    BY DEF Init
  <2>3. lastChunk \in [Nodes -> 0 .. Foreign + 1]
    BY ConstantsOK DEF Init, Foreign
  <2>4. part \in [Nodes -> Cells]
    BY ZeroCell DEF Init
  <2> QED
    BY <2>1, <2>2, <2>3, <2>4 DEF Init, TypeOK, States
<1>2. TypeOK /\ [Next]_vars => TypeOK'
  <2>. SUFFICES ASSUME TypeOK, [Next]_vars PROVE TypeOK'
    OBVIOUS
  <2>1. ASSUME NEW n \in Nodes, TimeoutDownloadStart(n) PROVE TypeOK'
    BY <2>1, StartDownloadType DEF TimeoutDownloadStart, TypeOK
  <2>2. ASSUME NEW n \in Nodes, DistributeTasks(n) PROVE TypeOK'
    BY <2>2, DistributeTasksType
  <2>3. ASSUME NEW n \in Nodes, RestartDownload(n) PROVE TypeOK'
    <3>1. /\ lastChunk' \in [Nodes -> 0 .. Foreign + 1]
          /\ countSend' \in [Nodes -> 0 .. 3]
      BY <2>3, ConstantsOK DEF RestartDownload, TypeOK, Foreign
    <3> QED
      BY <2>3, <3>1, StartDownloadType DEF RestartDownload, TypeOK
  <2>4. ASSUME NEW n \in Nodes, TimeoutDownloadSimulatorTimer(n) PROVE TypeOK'
    <3>1. /\ SendReport(n)
          /\ tDownload' \in [Nodes -> BOOLEAN]
          /\ UNCHANGED <<chunks, countSend, appVars, part, respTo>>
      BY <2>4 DEF TimeoutDownloadSimulatorTimer, TypeOK
    <3> QED
      BY <3>1, SendReportType DEF TypeOK, appVars
  <2>5. ASSUME NEW n \in Nodes, ResendReport(n) PROVE TypeOK'
    <3>1. /\ SendReport(n)
          /\ UNCHANGED <<chunks, appVars, workVars>>
          /\ countSend[n] < 3
          /\ countSend' = [countSend EXCEPT ![n] = @ + 1]
      BY <2>5, Zenon DEF ResendReport, MayResend, CountResend
    <3>2. countSend \in [Nodes -> 0 .. 3]
      BY DEF TypeOK
    <3>3. countSend' \in [Nodes -> 0 .. 3]
      BY <3>1, <3>2
    <3> QED
      BY <3>1, <3>3, SendReportType DEF TypeOK, appVars, workVars
  <2>6. ASSUME NEW n \in Nodes, GiveUp(n) PROVE TypeOK'
    BY <2>6 DEF GiveUp, TypeOK, appVars, workVars, States, InFlight
  <2>7. ASSUME NEW m \in InFlight, RecvPkt(m) \/ Lose(m) PROVE TypeOK'
    BY <2>7, RecvPktType
  <2>8. CASE UNCHANGED vars
    BY <2>8 DEF vars, appVars, workVars, TypeOK, InFlight
  <2> QED
    BY <2>1, <2>2, <2>3, <2>4, <2>5, <2>6, <2>7, <2>8
       DEF Next, TimeoutResourceRequest, TimeoutCompleteTaskAck
<1> QED
  BY <1>1, <1>2, PTL DEF Spec

-----------------------------------------------------------------------------
(***************************************************************************)
(* The inductive invariant.  RolesDisjoint is kept by what can be in       *)
(* flight: tasks and acks go only to collaborators, offers and reports     *)
(* come only from them.  NoStaleChunk is kept by the freshness of every    *)
(* task, report and retry of a node whose 10 s window is over, which holds *)
(* only while no packet outlives the window.                               *)
(***************************************************************************)
Roles ==
    /\ RolesDisjoint
    /\ \A n \in Nodes \ AppNodes : tResRequest[n] = "off" /\ ~tDownloadStart[n]
    /\ \A m \in InFlight :
          /\ m.type \in {"TaskInfo", "CompleteTaskAck"} => m.dst \notin AppNodes
          /\ m.type \in {"ResourceInfoFromCN", "CompleteTask"} => m.src \notin AppNodes
    /\ \A n \in Nodes : \A i \in 1 .. Len(collabs[n]) : collabs[n][i] \notin AppNodes

Timers ==
    /\ AppNodesArmed
    /\ BusyIsDownloading
    /\ \A n \in Nodes :
          /\ tDownloadStart[n] => tResRequest[n] = "off"
          /\ appState[n] = "RESOURCEREQUEST" => tResRequest[n] = "window"
          /\ appState[n] = "TASKRECEPTION" => tResRequest[n] = "round"
          /\ tResRequest[n] = "round" => collabNodes(n) > 0

\* All that is under way for a was asked for in a's present download.
FreshFor(a) ==
    /\ \A m \in InFlight :
          \/ m.type = "TaskInfo" /\ m.src = a
          \/ m.type = "CompleteTask" /\ m.dst = a
          => m.part \in asked[a]
    /\ \A n \in Nodes :
          (tDownload[n] \/ tAck[n]) /\ respTo[n] = a => part[n] \in asked[a]

\* A chunk counted in a download was asked for in that download.
NoStaleChunk ==
    \A a \in Nodes, c \in Parts : chunks[a][c] => c \in asked[a]

Fresh ==
    /\ NoStaleChunk
    /\ \A a \in Nodes : tResRequest[a] # "window" => FreshFor(a)

-----------------------------------------------------------------------------
(* What each step puts in flight.                                          *)

LEMMA StartDownloadSends ==
    ASSUME NEW a, StartDownload(a), NEW m \in InFlight'
    PROVE  m \in InFlight \/ m.type = "ResourceRequest"
BY InFlightSent, InFlightSet DEF StartDownload, InFlight, Broadcast, Packet

LEMMA DistributeTasksSends ==
    ASSUME TypeOK, NEW a \in Nodes, DistributeTasks(a), NEW m \in InFlight'
    PROVE  \/ m \in InFlight
           \/ /\ m.type = "TaskInfo"
              /\ m.src = a
              /\ m.part \in asked'[a]
              /\ \E i \in 1 .. Len(collabs[a]) : m.dst = collabs[a][i]
<1>. DEFINE k == collabNodes(a)
<1>1. k \in 0 .. Len(collabs[a])
  BY CollabNodesBound
<1>2. PICK f \in [1 .. k -> Cells] :
          /\ net' = net (+) TaskInfos(a, k, f)
          /\ asked' = [asked EXCEPT ![a] = @ \cup {f[i] : i \in 1 .. k}]
  BY DEF DistributeTasks
<1>. HIDE DEF k
<1>3. BagToSet(TaskInfos(a, k, f))
        = {Packet("TaskInfo", a, collabs[a][i], f[i]) : i \in 1 .. k}
  BY DEF BagToSet, TaskInfos
<1>4. InFlight' = InFlight \cup {Packet("TaskInfo", a, collabs[a][i], f[i]) : i \in 1 .. k}
  BY <1>2, <1>3, InFlightSent DEF InFlight
<1>5. CASE m \in InFlight
  BY <1>5
<1>6. CASE m \notin InFlight
  <2>1. PICK i \in 1 .. k : m = Packet("TaskInfo", a, collabs[a][i], f[i])
    BY <1>4, <1>6
  <2>2. i \in 1 .. Len(collabs[a])
    BY <1>1, <2>1 DEF TypeOK
  <2>3. f[i] \in asked'[a]
    BY <1>2, <2>1 DEF TypeOK
  <2> QED
    BY <2>1, <2>2, <2>3 DEF Packet
<1> QED
  BY <1>5, <1>6

LEMMA SendReportSends ==
    ASSUME NEW n, SendReport(n), NEW m \in InFlight'
    PROVE  m \in InFlight \/ m = Packet("CompleteTask", n, respTo[n], part[n])
BY InFlightSent, InFlightSet DEF SendReport, InFlight, One

\* A reception sends at most an answer to the packet it takes.
LEMMA RecvPktSends ==
    ASSUME NEW m \in InFlight, RecvPkt(m) \/ Lose(m), NEW x \in InFlight'
    PROVE  \/ x \in InFlight
           \/ /\ RecvResourceRequest(m)
              /\ x.type = "ResourceInfoFromCN" /\ x.src = m.dst
           \/ /\ RecvCompleteTask(m)
              /\ x.type = "CompleteTaskAck" /\ x.dst = m.src
<1>1. CASE RecvResourceRequest(m)
  <2>1. x \in InFlight \/ x \in {Packet("ResourceInfoFromCN", m.dst, n, 0) : n \in Nodes \ {m.dst}}
    BY <1>1, InFlightSent, InFlightTake, InFlightSet DEF RecvResourceRequest, InFlight, Broadcast
  <2> QED
    BY <1>1, <2>1 DEF Packet
<1>2. CASE RecvCompleteTask(m)
  <2>1. x \in InFlight \/ x = Packet("CompleteTaskAck", m.dst, m.src, 0)
    BY <1>2, InFlightSent, InFlightTake, InFlightSet DEF RecvCompleteTask, InFlight, One
  <2> QED
    BY <1>2, <2>1 DEF Packet
<1>3. CASE net' = Take(m)
  BY <1>3, InFlightTake DEF InFlight
<1> QED
  BY <1>1, <1>2, <1>3 DEF RecvPkt, Lose, RecvResourceInfoFromCN, RecvTaskInfo,
     RecvCompleteTaskAck, RecvIgnored

-----------------------------------------------------------------------------
(* The roles of the nodes.                                                 *)

LEMMA RolesStart ==
    ASSUME TypeOK, Roles, NEW a \in AppNodes, StartDownload(a),
           \A n \in Nodes \ AppNodes : tResRequest[n] = "off" /\ ~tDownloadStart[n]
    PROVE  Roles'
<1>. USE DEF TypeOK, Roles, RolesDisjoint
<1>1. AppNodes \subseteq Nodes
  BY ConstantsOK
<1>2. RolesDisjoint'
  BY <1>1 DEF StartDownload, workVars
<1>3. (\A n \in Nodes \ AppNodes : tResRequest[n] = "off" /\ ~tDownloadStart[n])'
  BY <1>1 DEF StartDownload
<1>4. \A n \in Nodes : \A i \in 1 .. Len(collabs'[n]) : collabs'[n][i] \notin AppNodes
  BY <1>1 DEF StartDownload
<1>5. \A m \in InFlight' : m \in InFlight \/ m.type = "ResourceRequest"
  BY StartDownloadSends
<1> QED
  BY <1>2, <1>3, <1>4, <1>5

LEMMA RolesRecv ==
    ASSUME TypeOK, Roles, NEW m \in InFlight, RecvPkt(m) \/ Lose(m)
    PROVE  Roles'
<1>. USE DEF TypeOK, Roles, RolesDisjoint, appVars, workVars
<1>1. /\ AppNodes \subseteq Nodes
      /\ m \in Message /\ m.dst \in Nodes /\ m.src \in Nodes
  BY ConstantsOK DEF Message
<1>2. CASE Started /\ RecvResourceRequest(m)
  <2>1. m.dst \notin AppNodes
    BY <1>1, <1>2 DEF RecvResourceRequest, Accepts, Started, AcceptedIn
  <2>2. UNCHANGED <<tAck, appVars, workVars>> /\ appState' = [appState EXCEPT ![m.dst] = "TASKWAIT"]
    BY <1>2 DEF RecvResourceRequest
  <2>3. RolesDisjoint'
    BY <1>1, <2>1, <2>2
  <2>4. m.type = "ResourceRequest" /\ ~RecvCompleteTask(m)
    BY <1>2 DEF RecvResourceRequest, RecvCompleteTask
  <2>5. \A x \in InFlight' : x \in InFlight \/ (x.type = "ResourceInfoFromCN" /\ x.src = m.dst)
    BY <2>4, RecvPktSends
  <2> QED
    BY <2>1, <2>2, <2>3, <2>5
<1>3. CASE RecvResourceInfoFromCN(m)
  <2>1. m.src \notin AppNodes
    BY <1>3 DEF RecvResourceInfoFromCN
  <2>2. /\ collabs' = [collabs EXCEPT ![m.dst] = Append(@, m.src)]
        /\ UNCHANGED <<appState, tAck, tDownload, tDownloadStart, tResRequest>>
        /\ \A x \in InFlight' : x \in InFlight
    BY <1>3, InFlightTake DEF RecvResourceInfoFromCN, InFlight
  <2>3. ASSUME NEW n \in Nodes, NEW i \in 1 .. Len(collabs'[n])
        PROVE  collabs'[n][i] \notin AppNodes
    <3>1. CASE n # m.dst
      BY <1>1, <2>2, <3>1
    <3>2. CASE n = m.dst
      <4>1. collabs[n] \in Seq(Nodes) /\ collabs'[n] = Append(collabs[n], m.src)
        BY <1>1, <2>2, <3>2
      <4>2. \A j \in 1 .. Len(collabs[n]) : collabs[n][j] \notin AppNodes
        OBVIOUS
      <4> QED
        BY <1>1, <2>1, <4>1, <4>2
    <3> QED
      BY <3>1, <3>2
  <2>4. RolesDisjoint' /\ \A n \in Nodes \ AppNodes : tResRequest'[n] = "off" /\ ~tDownloadStart'[n]
    BY <2>2
  <2> QED
    BY <2>2, <2>3, <2>4, Zenon
<1>4. CASE RecvTaskInfo(m)
  <2>1. m.dst \notin AppNodes
    BY <1>4 DEF RecvTaskInfo, StartDownloadTask
  <2>2. \A x \in InFlight' : x \in InFlight
    BY <1>4, InFlightTake DEF RecvTaskInfo, StartDownloadTask, InFlight
  <2> QED
    BY <1>1, <1>4, <2>1, <2>2 DEF RecvTaskInfo, StartDownloadTask
<1>5. CASE RecvCompleteTask(m)
  <2>1. m.src \notin AppNodes
    BY <1>5 DEF RecvCompleteTask
  <2>2. UNCHANGED <<appState, tAck, appVars, workVars>>
    BY <1>5 DEF RecvCompleteTask
  <2>3. m.type = "CompleteTask" /\ ~RecvResourceRequest(m)
    BY <1>5 DEF RecvResourceRequest, RecvCompleteTask
  <2>4. \A x \in InFlight' : x \in InFlight \/ (x.type = "CompleteTaskAck" /\ x.dst = m.src)
    BY <2>3, RecvPktSends
  <2> QED
    BY <2>1, <2>2, <2>4
<1>6. CASE RecvCompleteTaskAck(m)
  <2>1. m.dst \notin AppNodes
    BY <1>6 DEF RecvCompleteTaskAck
  <2>2. \A x \in InFlight' : x \in InFlight
    BY <1>6, InFlightTake DEF RecvCompleteTaskAck, InFlight
  <2> QED
    BY <1>1, <1>6, <2>1, <2>2 DEF RecvCompleteTaskAck
<1>7. CASE RecvIgnored(m) \/ Lose(m)
  <2>1. \A x \in InFlight' : x \in InFlight
    BY <1>7, InFlightTake DEF RecvIgnored, Lose, InFlight
  <2>2. UNCHANGED <<appState, tAck, appVars, workVars>>
    BY <1>7 DEF RecvIgnored, Lose
  <2> QED
    BY <2>1, <2>2
<1> QED
  BY <1>2, <1>3, <1>4, <1>5, <1>6, <1>7 DEF RecvPkt

\* App nodes and collaborators stay apart: no packet can put an app node to work.
THEOREM RolesInvariant == Spec => []Roles
<1>1. Init => Roles
  <2>. SUFFICES ASSUME Init PROVE Roles
    OBVIOUS
  <2>1. InFlight = {}
    BY InFlightSet DEF Init, EmptyBag, InFlight
  <2>2. \A n \in Nodes : /\ appState[n] = "INITIAL" /\ tResRequest[n] = "off"
                         /\ collabs[n] = <<>>
    BY DEF Init
  <2>3. \A n \in Nodes : (tDownloadStart[n] <=> n \in AppNodes) /\ ~tDownload[n] /\ ~tAck[n]
    BY Zenon DEF Init
  <2>4. RolesDisjoint
    BY <2>2, <2>3, ConstantsOK DEF RolesDisjoint
  <2> QED
    BY <2>1, <2>2, <2>3, <2>4 DEF Roles
<1>2. TypeOK /\ Roles /\ [Next]_vars => Roles'
  <2>. SUFFICES ASSUME TypeOK, Roles, [Next]_vars PROVE Roles'
    OBVIOUS
  <2>. USE DEF Roles, RolesDisjoint, appVars, workVars
  <2>1. ASSUME NEW n \in Nodes, TimeoutDownloadStart(n) PROVE Roles'
    <3>1. n \in AppNodes /\ StartDownload(n)
      BY <2>1 DEF TimeoutDownloadStart
    <3> QED
      BY <3>1, RolesStart
  <2>2. ASSUME NEW n \in Nodes, DistributeTasks(n) PROVE Roles'
    <3>1. /\ n \in AppNodes
          /\ appState' = [appState EXCEPT ![n] = "TASKRECEPTION"]
          /\ tResRequest' = [tResRequest EXCEPT ![n] = "round"]
          /\ UNCHANGED <<collabs, tDownloadStart, tAck, tDownload>>
      BY <2>2 DEF DistributeTasks, RearmRound
    <3>2. ~tDownloadStart[n]
      BY <2>2, <3>1 DEF DistributeTasks, Elapsed, Started
    <3>3. RolesDisjoint'
      BY <3>1, <3>2, ConstantsOK DEF TypeOK
    <3>4. \A m \in InFlight' :
            m \in InFlight \/ (m.type = "TaskInfo" /\ m.dst \notin AppNodes)
      BY <2>2, DistributeTasksSends
    <3> QED
      BY <3>1, <3>3, <3>4 DEF TypeOK
  <2>3. ASSUME NEW n \in Nodes, RestartDownload(n) PROVE Roles'
    <3>1. n \in AppNodes /\ StartDownload(n)
      BY <2>3 DEF RestartDownload
    <3> QED
      BY <3>1, RolesStart
  <2>4. ASSUME NEW n \in Nodes, SendReport(n), n \notin AppNodes,
               \A x \in Nodes : tDownload'[x] => tDownload[x],
               UNCHANGED appVars
        PROVE  Roles'
    <3>1. \A m \in InFlight' : m \in InFlight \/ (m.type = "CompleteTask" /\ m.src = n)
      BY <2>4, SendReportSends DEF Packet
    <3>2. RolesDisjoint'
      BY <2>4, ConstantsOK DEF SendReport, TypeOK
    <3> QED
      BY <2>4, <3>1, <3>2 DEF SendReport
  <2>5. ASSUME NEW n \in Nodes, TimeoutDownloadSimulatorTimer(n) PROVE Roles'
    <3>1. n \notin AppNodes /\ SendReport(n) /\ UNCHANGED appVars
      BY <2>5, Zenon DEF TimeoutDownloadSimulatorTimer
    <3>2. \A x \in Nodes : tDownload'[x] => tDownload[x]
      BY <2>5 DEF TimeoutDownloadSimulatorTimer, TypeOK
    <3> QED
      BY <2>4, <3>1, <3>2
  <2>6. ASSUME NEW n \in Nodes, ResendReport(n) PROVE Roles'
    <3>1. n \notin AppNodes /\ SendReport(n) /\ UNCHANGED <<appVars, workVars>>
      BY <2>6, Zenon DEF ResendReport
    <3> QED
      BY <2>4, <3>1
  <2>7. ASSUME NEW n \in Nodes, GiveUp(n) PROVE Roles'
    <3>1. n \notin AppNodes /\ UNCHANGED <<net, appVars, workVars>>
      BY <2>7, Zenon DEF GiveUp
    <3>2. RolesDisjoint'
      BY <2>7, <3>1, ConstantsOK DEF GiveUp, TypeOK
    <3> QED
      BY <3>1, <3>2 DEF InFlight
  <2>8. ASSUME NEW m \in InFlight, RecvPkt(m) \/ Lose(m) PROVE Roles'
    BY <2>8, RolesRecv
  <2>9. CASE UNCHANGED vars
    BY <2>9 DEF vars, InFlight
  <2> QED
    BY <2>1, <2>2, <2>3, <2>5, <2>6, <2>7, <2>8, <2>9
       DEF Next, TimeoutResourceRequest, TimeoutCompleteTaskAck
<1> QED
  BY <1>1, <1>2, TypeCorrect, PTL DEF Spec

\* A node that downloads never works for another one, whatever is lost or late.
THEOREM RolesAreDisjoint == Spec => []RolesDisjoint
<1>1. Roles => RolesDisjoint
  BY DEF Roles
<1> QED
  BY <1>1, RolesInvariant, PTL

-----------------------------------------------------------------------------
(* The timers.                                                             *)

LEMMA TimersRecv ==
    ASSUME TypeOK, Roles, Timers, NEW m \in InFlight, RecvPkt(m) \/ Lose(m)
    PROVE  Timers'
<1>. USE DEF TypeOK, Timers, AppNodesArmed, BusyIsDownloading, appVars, workVars, collabNodes
<1>1. /\ AppNodes \subseteq Nodes
      /\ m \in Message /\ m.dst \in Nodes /\ m.src \in Nodes
  BY ConstantsOK DEF Message
<1>2. CASE RecvResourceRequest(m)
  BY <1>1, <1>2 DEF RecvResourceRequest
<1>3. CASE RecvResourceInfoFromCN(m)
  <2>1. /\ tResRequest[m.dst] = "window"
        /\ collabs' = [collabs EXCEPT ![m.dst] = Append(@, m.src)]
        /\ UNCHANGED <<appState, tDownload, tDownloadStart, tResRequest>>
    BY <1>1, <1>3 DEF RecvResourceInfoFromCN, Accepts, AcceptedIn
  <2>2. \A n \in Nodes : n # m.dst => collabs'[n] = collabs[n]
    BY <2>1
  <2> QED
    BY <1>1, <2>1, <2>2
<1>4. CASE RecvTaskInfo(m)
  BY <1>1, <1>4 DEF RecvTaskInfo, StartDownloadTask
<1>5. CASE RecvCompleteTask(m)
  BY <1>5 DEF RecvCompleteTask
<1>6. CASE RecvCompleteTaskAck(m)
  BY <1>1, <1>6 DEF RecvCompleteTaskAck
<1>7. CASE RecvIgnored(m) \/ Lose(m)
  BY <1>7 DEF RecvIgnored, Lose
<1> QED
  BY <1>2, <1>3, <1>4, <1>5, <1>6, <1>7 DEF RecvPkt

\* The next step of every node is always scheduled, and the periods agree with
\* the states.
THEOREM TimersInvariant == Spec => []Timers
<1>1. Init => Timers
  BY ConstantsOK DEF Init, Timers, AppNodesArmed, BusyIsDownloading
<1>2. TypeOK /\ Roles /\ Timers /\ [Next]_vars => Timers'
  <2>. SUFFICES ASSUME TypeOK, Roles, Timers, [Next]_vars PROVE Timers'
    OBVIOUS
  <2>. USE DEF TypeOK, Timers, AppNodesArmed, BusyIsDownloading, appVars, workVars, collabNodes
  <2>1. ASSUME NEW n \in Nodes, StartDownload(n) PROVE Timers'
    BY <2>1, ConstantsOK DEF StartDownload
  <2>2. ASSUME NEW n \in Nodes, DistributeTasks(n) PROVE Timers'
    BY <2>2, ConstantsOK DEF DistributeTasks, RearmRound
  <2>3. ASSUME NEW n \in Nodes, TimeoutDownloadSimulatorTimer(n) PROVE Timers'
    BY <2>3 DEF TimeoutDownloadSimulatorTimer, SendReport
  <2>4. ASSUME NEW n \in Nodes, ResendReport(n) PROVE Timers'
    BY <2>4 DEF ResendReport, SendReport
  <2>5. ASSUME NEW n \in Nodes, GiveUp(n) PROVE Timers'
    BY <2>5 DEF GiveUp
  <2>6. ASSUME NEW m \in InFlight, RecvPkt(m) \/ Lose(m) PROVE Timers'
    BY <2>6, TimersRecv
  <2>7. CASE UNCHANGED vars
    BY <2>7 DEF vars
  <2> QED
    BY <2>1, <2>2, <2>3, <2>4, <2>5, <2>6, <2>7
       DEF Next, TimeoutDownloadStart, TimeoutResourceRequest, RestartDownload,
           TimeoutCompleteTaskAck
<1> QED
  BY <1>1, <1>2, TypeCorrect, RolesInvariant, PTL DEF Spec

\* An app node never runs out of scheduled steps.
THEOREM AppNodesAreArmed == Spec => []AppNodesArmed
<1>1. Timers => AppNodesArmed
  BY DEF Timers
<1> QED
  BY <1>1, TimersInvariant, PTL

\* A busy collaborator is always downloading: EXECUTINGTASK always ends.
THEOREM BusyNodesDownload == Spec => []BusyIsDownloading
<1>1. Timers => BusyIsDownloading
  BY DEF Timers
<1> QED
  BY <1>1, TimersInvariant, PTL

-----------------------------------------------------------------------------
(* The chunks.                                                             *)

LEMMA FreshRecv ==
    ASSUME TypeOK, Timers, Fresh, NEW m \in InFlight, RecvPkt(m) \/ Lose(m)
    PROVE  Fresh'
<1>. USE DEF TypeOK, Fresh, FreshFor, NoStaleChunk
<1>1. m \in Message /\ m.dst \in Nodes /\ m.src \in Nodes
  BY DEF Message
<1>2. asked' = asked /\ tResRequest' = tResRequest
  BY DEF RecvPkt, Lose, RecvResourceRequest, RecvResourceInfoFromCN, RecvTaskInfo,
         RecvCompleteTask, RecvCompleteTaskAck, RecvIgnored, appVars
<1>3. \A x \in InFlight' : x \in InFlight \/ x.type \notin {"TaskInfo", "CompleteTask"}
  BY RecvPktSends
<1>4. CASE RecvTaskInfo(m)
  <2>1. /\ \A n \in Nodes \ {m.dst} : respTo'[n] = respTo[n] /\ part'[n] = part[n]
        /\ respTo'[m.dst] = m.src /\ part'[m.dst] = m.part
        /\ UNCHANGED chunks
        /\ m.type = "TaskInfo"
    BY <1>1, <1>4 DEF RecvTaskInfo, StartDownloadTask
  <2>2. \A n \in Nodes \ {m.dst} : tDownload'[n] \/ tAck'[n] => tDownload[n] \/ tAck[n]
    BY <1>4 DEF RecvTaskInfo, StartDownloadTask
  <2>3. NoStaleChunk'
    BY <1>2, <2>1
  <2>4. ASSUME NEW a \in Nodes, tResRequest[a] # "window" PROVE FreshFor(a)'
    <3>1. m.src = a => m.part \in asked[a]
      BY <1>1, <2>1, <2>4
    <3>2. \A n \in Nodes \ {m.dst} :
             (tDownload'[n] \/ tAck'[n]) /\ respTo'[n] = a => part'[n] \in asked[a]
      BY <2>1, <2>2, <2>4
    <3>3. \A x \in InFlight' :
             \/ x.type = "TaskInfo" /\ x.src = a
             \/ x.type = "CompleteTask" /\ x.dst = a
             => x.part \in asked[a]
      BY <1>3, <2>4
    <3> QED
      BY <1>2, <2>1, <3>1, <3>2, <3>3
  <2> QED
    BY <1>2, <2>3, <2>4
<1>5. CASE RecvCompleteTask(m)
  <2>1. m.type = "CompleteTask" /\ tResRequest[m.dst] = "round"
    BY <1>1, <1>5 DEF RecvCompleteTask, Accepts, Timers, AcceptedIn
  <2>2. m.part \in asked[m.dst]
    BY <1>1, <2>1
  <2>3. NoStaleChunk'
    <3>1. Parts \subseteq Table
      BY ConstantsOK DEF Parts, Table, Foreign
    <3>2. chunks' = [chunks EXCEPT ![m.dst] = Recorded(m.dst, m.part)]
      BY <1>5 DEF RecvCompleteTask
    <3>3. \A a \in Nodes, c \in Parts :
             chunks'[a][c] => (a = m.dst /\ c = m.part) \/ chunks[a][c]
      BY <1>1, <3>1, <3>2 DEF Recorded
    <3> QED
      BY <1>2, <2>2, <3>3
  <2>4. UNCHANGED <<tAck, workVars>>
    BY <1>5 DEF RecvCompleteTask
  <2> QED
    BY <1>2, <1>3, <2>3, <2>4 DEF workVars
<1>6. CASE ~RecvTaskInfo(m) /\ ~RecvCompleteTask(m)
  <2>1. UNCHANGED <<chunks, part, respTo, tDownload>>
    BY <1>6 DEF RecvPkt, Lose, RecvResourceRequest, RecvResourceInfoFromCN,
                RecvCompleteTaskAck, RecvIgnored, workVars
  <2>2. \A n \in Nodes : tAck'[n] => tAck[n]
    BY <1>1, <1>6 DEF RecvPkt, Lose, RecvResourceRequest, RecvResourceInfoFromCN,
                      RecvCompleteTaskAck, RecvIgnored
  <2> QED
    BY <1>2, <1>3, <2>1, <2>2
<1> QED
  BY <1>4, <1>5, <1>6

LEMMA FreshReport ==
    ASSUME TypeOK, Fresh, NEW n \in Nodes, SendReport(n), tDownload[n] \/ tAck[n],
           UNCHANGED <<chunks, appVars, part, respTo>>,
           \A x \in Nodes : tDownload'[x] => tDownload[x]
    PROVE  Fresh'
<1>. USE DEF TypeOK, Fresh, FreshFor, NoStaleChunk
<1>1. asked' = asked /\ tResRequest' = tResRequest
  BY DEF appVars
<1>2. \A x \in Nodes : tDownload'[x] \/ tAck'[x] => tDownload[x] \/ tAck[x]
  BY DEF SendReport
<1>3. \A m \in InFlight' :
         m \in InFlight \/ m = Packet("CompleteTask", n, respTo[n], part[n])
  BY SendReportSends
<1>4. \A a \in Nodes :
         tResRequest[a] # "window" /\ respTo[n] = a => part[n] \in asked[a]
  OBVIOUS
<1> QED
  BY <1>1, <1>2, <1>3, <1>4 DEF Packet

LEMMA FreshDistribute ==
    ASSUME TypeOK, Fresh, ~LateDelivery, NEW a \in Nodes, DistributeTasks(a)
    PROVE  Fresh'
<1>1. /\ UNCHANGED <<chunks, part, respTo, tDownload, tAck>>
      /\ tResRequest' = [tResRequest EXCEPT ![a] = "round"]
      /\ tResRequest[a] # "off"
      /\ tResRequest[a] = "window" => Settled(a)
  BY DEF DistributeTasks, ResRequestElapsed, workVars, RearmRound
<1>2. /\ asked[a] \subseteq asked'[a]
      /\ \A n \in Nodes \ {a} : asked'[n] = asked[n]
  BY DEF DistributeTasks, TypeOK
<1>3. \A m \in InFlight' :
         m \in InFlight \/ (m.type = "TaskInfo" /\ m.src = a /\ m.part \in asked'[a])
  BY DistributeTasksSends
<1>4. FreshFor(a)
  BY <1>1 DEF Fresh, FreshFor, Settled
<1>5. FreshFor(a)'
  BY <1>1, <1>2, <1>3, <1>4 DEF FreshFor
<1>6. \A n \in Nodes \ {a} : tResRequest'[n] # "window" => FreshFor(n)'
  BY <1>1, <1>2, <1>3 DEF Fresh, FreshFor, TypeOK
<1>7. NoStaleChunk'
  BY <1>1, <1>2 DEF Fresh, NoStaleChunk
<1> QED
  BY <1>5, <1>6, <1>7 DEF Fresh

LEMMA FreshStart ==
    ASSUME TypeOK, Fresh, NEW a \in Nodes, StartDownload(a)
    PROVE  Fresh'
<1>1. NoStaleChunk'
  <2>1. Parts \subseteq Table
    BY ConstantsOK DEF Parts, Table, Foreign
  <2> QED
    BY <2>1 DEF StartDownload, NoStaleChunk, Fresh, TypeOK, ResetTable
<1>2. \A m \in InFlight' : m \in InFlight \/ m.type = "ResourceRequest"
  BY StartDownloadSends
<1> QED
  BY <1>1, <1>2 DEF StartDownload, Fresh, FreshFor, TypeOK, workVars

\* Only if no packet outlives the 10 s window, which AODV does not guarantee, all that
\* is under way for a node in its rounds was asked for in its present download: a
\* report carries no mark of its own.  The refinement and the progress of a
\* download rest on this hypothesis.
LEMMA FreshInvariant ==
    ASSUME ~LateDelivery
    PROVE  Spec => []Fresh
<1>1. Init => Fresh
  <2>. SUFFICES ASSUME Init PROVE Fresh
    OBVIOUS
  <2>1. InFlight = {}
    BY InFlightSet DEF Init, EmptyBag, InFlight
  <2>2. \A n \in Nodes : ~tDownload[n] /\ ~tAck[n]
    BY Zenon DEF Init
  <2>3. NoStaleChunk
    <3>1. Parts \subseteq Table
      BY ConstantsOK DEF Parts, Table, Foreign
    <3> QED
      BY <3>1 DEF Init, NoStaleChunk
  <2> QED
    BY <2>1, <2>2, <2>3 DEF Fresh, FreshFor
<1>2. TypeOK /\ Timers /\ Fresh /\ [Next]_vars => Fresh'
  <2>. SUFFICES ASSUME TypeOK, Timers, Fresh, [Next]_vars PROVE Fresh'
    OBVIOUS
  <2>1. ASSUME NEW n \in Nodes, StartDownload(n) PROVE Fresh'
    BY <2>1, FreshStart
  <2>2. ASSUME NEW n \in Nodes, DistributeTasks(n) PROVE Fresh'
    BY <2>2, FreshDistribute
  <2>3. ASSUME NEW n \in Nodes, TimeoutDownloadSimulatorTimer(n) PROVE Fresh'
    <3>1. \A x \in Nodes : tDownload'[x] => tDownload[x]
      BY <2>3 DEF TimeoutDownloadSimulatorTimer, TypeOK
    <3>2. /\ SendReport(n) /\ tDownload[n]
          /\ UNCHANGED <<chunks, appVars, part, respTo>>
      BY <2>3, Zenon DEF TimeoutDownloadSimulatorTimer
    <3> QED
      BY <3>1, <3>2, FreshReport
  <2>4. ASSUME NEW n \in Nodes, ResendReport(n) PROVE Fresh'
    <3>1. SendReport(n) /\ tAck[n] /\ UNCHANGED <<chunks, appVars, workVars>>
      BY <2>4, Zenon DEF ResendReport
    <3> QED
      BY <3>1, FreshReport DEF workVars
  <2>5. ASSUME NEW n \in Nodes, GiveUp(n) PROVE Fresh'
    <3>1. /\ UNCHANGED <<chunks, net, appVars, workVars>>
          /\ tAck' = [tAck EXCEPT ![n] = FALSE]
      BY <2>5, Zenon DEF GiveUp
    <3> QED
      BY <3>1 DEF Fresh, FreshFor, NoStaleChunk, TypeOK, InFlight, appVars, workVars
  <2>6. ASSUME NEW m \in InFlight, RecvPkt(m) \/ Lose(m) PROVE Fresh'
    BY <2>6, FreshRecv
  <2>7. CASE UNCHANGED vars
    BY <2>7 DEF vars, appVars, workVars, Fresh, FreshFor, NoStaleChunk, InFlight
  <2> QED
    BY <2>1, <2>2, <2>3, <2>4, <2>5, <2>6, <2>7
       DEF Next, TimeoutDownloadStart, TimeoutResourceRequest, RestartDownload,
           TimeoutCompleteTaskAck
<1> QED
  BY <1>1, <1>2, TypeCorrect, TimersInvariant, PTL DEF Spec

\* A download that has handed out a chunk ends only when all its chunks are in:
\* its collaborators stay on the list, so the restart for want of them is left
\* to downloads that never had any.
THEOREM DownloadsAreNotAbandoned == Spec => NeverAbandoned
<1>. DEFINE Kept == \A a \in Nodes : tResRequest[a] = "round" /\ tResRequest'[a] = "window"
                                         => \A c \in Parts : chunks[a][c]
<1>1. TypeOK /\ Timers /\ [Next]_vars => [Kept]_vars
  <2>. SUFFICES ASSUME TypeOK, Timers, Next PROVE Kept
    OBVIOUS
  <2>1. ASSUME NEW n \in Nodes, TimeoutDownloadStart(n) PROVE Kept
    BY <2>1 DEF TimeoutDownloadStart, StartDownload, TypeOK, Timers
  <2>2. ASSUME NEW n \in Nodes, RestartDownload(n) PROVE Kept
    <3>1. /\ tResRequest' = [tResRequest EXCEPT ![n] = "window"]
          /\ (collabNodes(n) = 0 \/ isDownloadComplete(n))
      BY <2>2 DEF RestartDownload, StartDownload
    <3>2. tResRequest[n] = "round" => collabNodes(n) > 0
      BY DEF Timers
    <3> QED
      BY <3>1, <3>2 DEF TypeOK, isDownloadComplete
  <2>3. ASSUME NEW n \in Nodes, DistributeTasks(n) PROVE Kept
    BY <2>3 DEF DistributeTasks, TypeOK, RearmRound
  <2>4. CASE UNCHANGED tResRequest
    BY <2>4
  <2> QED
    BY <2>1, <2>2, <2>3, <2>4
       DEF Next, TimeoutResourceRequest, TimeoutDownloadSimulatorTimer,
           TimeoutCompleteTaskAck, ResendReport, GiveUp, RecvPkt, Lose,
           RecvResourceRequest, RecvResourceInfoFromCN, RecvTaskInfo,
           RecvCompleteTask, RecvCompleteTaskAck, RecvIgnored, appVars
<1> QED
  BY <1>1, TypeCorrect, TimersInvariant, PTL DEF Spec, NeverAbandoned

-----------------------------------------------------------------------------
(***************************************************************************)
(* Nothing lost, nothing slower than a retry period.  A report is then     *)
(* answered before its retry, so no report is resent: the only one sent    *)
(* for a chunk is the one at the end of its download.  The invariant: a    *)
(* node that waits for an ack has its report or the ack in flight, and     *)
(* whoever a task, a download or a report is for still waits for reports.  *)
(***************************************************************************)
Answering(n) ==
    \E m \in InFlight : \/ m.type = "CompleteTask" /\ m.src = n
                        \/ m.type = "CompleteTaskAck" /\ m.dst = n

Nominal ==
    /\ IsABag(net)
    /\ \A n \in Nodes : tAck[n] => Answering(n)
    /\ \A m \in InFlight :
          /\ m.type = "TaskInfo" => appState[m.src] = "TASKRECEPTION"
          /\ m.type = "CompleteTask" => appState[m.dst] = "TASKRECEPTION"
    /\ \A n \in Nodes : tDownload[n] => appState[respTo[n]] = "TASKRECEPTION"

\* The copies of m in flight.
LEMMA BagAdded ==
    ASSUME NEW B, NEW C, IsABag(B), IsABag(C)
    PROVE  /\ IsABag(B (+) C)
           /\ \A m \in BagToSet(B (+) C) : m \notin BagToSet(C) =>
                 m \in BagToSet(B) /\ (B (+) C)[m] = B[m]
BY DEF IsABag, BagToSet, (+)

LEMMA BagTaken ==
    ASSUME NEW B, NEW x, IsABag(B)
    PROVE  /\ IsABag(B (-) One(x))
           /\ BagToSet(B) \ {x} \subseteq BagToSet(B (-) One(x))
           /\ \A m \in BagToSet(B (-) One(x)) :
                 m \in BagToSet(B) /\ (B (-) One(x))[m] <= B[m]
<1>. DEFINE C == One(x)
            D == [e \in DOMAIN B |-> IF e \in DOMAIN C THEN B[e] - C[e] ELSE B[e]]
<1>1. DOMAIN C = {x} /\ C[x] = 1
  BY DEF One, SetToBag
<1>2. B (-) C = [e \in {d \in DOMAIN D : D[d] > 0} |-> D[e]]
  BY DEF (-)
<1>3. \A e \in DOMAIN B : B[e] \in Nat /\ B[e] > 0
  BY DEF IsABag
<1>4. \A e \in DOMAIN B : D[e] = IF e = x THEN B[e] - 1 ELSE B[e]
  BY <1>1
<1>5. DOMAIN D = DOMAIN B
  OBVIOUS
<1>. HIDE DEF C, D
<1>6. IsABag(B (-) C)
  BY <1>2, <1>3, <1>4, <1>5 DEF IsABag
<1>7. BagToSet(B) \ {x} \subseteq BagToSet(B (-) C)
  BY <1>2, <1>3, <1>4, <1>5 DEF BagToSet
<1>8. \A m \in BagToSet(B (-) C) : m \in BagToSet(B) /\ (B (-) C)[m] <= B[m]
  BY <1>2, <1>3, <1>4, <1>5 DEF BagToSet
<1> QED
  BY <1>6, <1>7, <1>8 DEF C

LEMMA BagOnce ==
    ASSUME NEW S
    PROVE  IsABag(SetToBag(S))
BY DEF IsABag, SetToBag

LEMMA TaskInfosBag ==
    ASSUME NEW a, NEW k \in Nat, NEW f
    PROVE  IsABag(TaskInfos(a, k, f))
<1>. DEFINE sent == [i \in 1 .. k |-> Packet("TaskInfo", a, collabs[a][i], f[i])]
            copies(m) == {i \in 1 .. k : sent[i] = m}
<1>1. TaskInfos(a, k, f) = [m \in {sent[i] : i \in 1 .. k} |-> 2 * Cardinality(copies(m))]
  BY DEF TaskInfos
<1>2. ASSUME NEW j \in 1 .. k
      PROVE  Cardinality(copies(sent[j])) \in Nat \ {0}
  <2>1. IsFiniteSet(1 .. k)
    BY FS_Interval
  <2>2. IsFiniteSet(copies(sent[j]))
    BY <2>1, FS_Subset
  <2>3. j \in copies(sent[j])
    OBVIOUS
  <2> QED
    BY <2>2, <2>3, FS_EmptySet, FS_CardinalityType
<1>. HIDE DEF sent, copies
<1>3. \A m \in {sent[i] : i \in 1 .. k} : 2 * Cardinality(copies(m)) \in {n \in Nat : n > 0}
  BY <1>2
<1> QED
  BY <1>1, <1>3 DEF IsABag

\* A step that is no report: it keeps the bag a bag and adds no copy of a report.
NoReport ==
    /\ IsABag(net')
    /\ \A m \in InFlight' :
          m.type = "CompleteTask" => m \in InFlight /\ net'[m] <= net[m]

LEMMA NothingSent ==
    ASSUME IsABag(net), UNCHANGED net
    PROVE  NoReport
BY DEF NoReport, IsABag, InFlight, BagToSet

LEMMA NoReportSent ==
    ASSUME IsABag(net), NEW C, IsABag(C), net' = net (+) C,
           \A m \in BagToSet(C) : m.type # "CompleteTask"
    PROVE  NoReport
<1>1. \A m \in InFlight' : m.type = "CompleteTask" => m \in InFlight /\ net'[m] = net[m]
  BY BagAdded DEF InFlight
<1>2. \A m \in InFlight : net[m] \in Nat
  BY DEF IsABag, InFlight, BagToSet
<1> QED
  BY <1>1, <1>2, BagAdded DEF NoReport

LEMMA NoReportAnswered ==
    ASSUME IsABag(net), NEW x, NEW C, IsABag(C), net' = Take(x) (+) C,
           \A m \in BagToSet(C) : m.type # "CompleteTask"
    PROVE  NoReport /\ InFlight \ {x} \subseteq InFlight'
<1>1. IsABag(Take(x)) /\ BagToSet(net) \ {x} \subseteq BagToSet(Take(x))
  BY BagTaken DEF Take
<1>2. \A m \in BagToSet(Take(x)) : m \in InFlight /\ Take(x)[m] <= net[m]
  BY BagTaken DEF Take, InFlight
<1>3. IsABag(net') /\ \A m \in InFlight' : m.type = "CompleteTask" =>
                         m \in BagToSet(Take(x)) /\ net'[m] = Take(x)[m]
  BY <1>1, BagAdded DEF InFlight
<1>4. InFlight \ {x} \subseteq InFlight'
  BY <1>1, InFlightSent DEF InFlight
<1> QED
  BY <1>2, <1>3, <1>4 DEF NoReport

LEMMA NoReportTaken ==
    ASSUME IsABag(net), NEW x, net' = Take(x)
    PROVE  NoReport /\ InFlight \ {x} \subseteq InFlight'
BY BagTaken DEF Take, InFlight, NoReport

-----------------------------------------------------------------------------
LEMMA StartDownloadNoReport ==
    ASSUME IsABag(net), NEW a, StartDownload(a)
    PROVE  NoReport /\ InFlight \subseteq InFlight'
<1>1. \A m \in BagToSet(Broadcast("ResourceRequest", a)) : m.type # "CompleteTask"
  BY InFlightSet DEF Broadcast, Packet
<1>2. IsABag(Broadcast("ResourceRequest", a))
  BY BagOnce DEF Broadcast
<1>3. net' = net (+) Broadcast("ResourceRequest", a)
  BY DEF StartDownload
<1> QED
  BY <1>1, <1>2, <1>3, NoReportSent, InFlightSent DEF InFlight

LEMMA DistributeTasksNoReport ==
    ASSUME TypeOK, IsABag(net), NEW a \in Nodes, DistributeTasks(a)
    PROVE  NoReport /\ InFlight \subseteq InFlight'
<1>. DEFINE k == collabNodes(a)
<1>1. k \in Nat
  BY CollabNodesBound DEF TypeOK
<1>2. PICK f \in [1 .. k -> Cells] : net' = net (+) TaskInfos(a, k, f)
  BY DEF DistributeTasks
<1>. HIDE DEF k
<1>3. IsABag(TaskInfos(a, k, f))
  BY <1>1, TaskInfosBag
<1>4. \A m \in BagToSet(TaskInfos(a, k, f)) : m.type # "CompleteTask"
  BY InFlightTasks DEF Packet
<1> QED
  BY <1>2, <1>3, <1>4, NoReportSent, InFlightSent DEF InFlight

LEMMA RecvPktNoReport ==
    ASSUME IsABag(net), NEW m \in InFlight, RecvPkt(m) \/ Lose(m)
    PROVE  NoReport /\ InFlight \ {m} \subseteq InFlight'
<1>1. CASE RecvResourceRequest(m)
  <2>1. \A x \in BagToSet(Broadcast("ResourceInfoFromCN", m.dst)) : x.type # "CompleteTask"
    BY InFlightSet DEF Broadcast, Packet
  <2>2. IsABag(Broadcast("ResourceInfoFromCN", m.dst))
    BY BagOnce DEF Broadcast
  <2>3. net' = Take(m) (+) Broadcast("ResourceInfoFromCN", m.dst)
    BY <1>1 DEF RecvResourceRequest
  <2> QED
    BY <2>1, <2>2, <2>3, NoReportAnswered
<1>2. CASE RecvCompleteTask(m)
  <2>. DEFINE C == One(Packet("CompleteTaskAck", m.dst, m.src, 0))
  <2>1. \A x \in BagToSet(C) : x.type # "CompleteTask"
    BY InFlightSet DEF One, Packet
  <2>2. IsABag(C)
    BY BagOnce DEF One
  <2>3. net' = Take(m) (+) C
    BY <1>2 DEF RecvCompleteTask
  <2> QED
    BY <2>1, <2>2, <2>3, NoReportAnswered
<1>3. CASE net' = Take(m)
  BY <1>3, NoReportTaken
<1> QED
  BY <1>1, <1>2, <1>3 DEF RecvPkt, Lose, RecvResourceInfoFromCN, RecvTaskInfo,
     RecvCompleteTaskAck, RecvIgnored

\* The only step that may resend a report finds nobody waiting for an ack.
LEMMA NothingResent ==
    ASSUME Prompt, Nominal, NEW n \in Nodes, tAck[n], Elapsed
    PROVE  FALSE
BY DEF Nominal, Answering, Elapsed

-----------------------------------------------------------------------------
\* A step of an app node: it takes nothing from the air and hands out no report.
LEMMA NominalApp ==
    ASSUME TypeOK, Roles, Timers, Prompt, Nominal, NEW a \in Nodes,
           \/ TimeoutDownloadStart(a)
           \/ TimeoutResourceRequest(a)
    PROVE  Nominal' /\ NoReport
<1>. USE DEF TypeOK, Nominal
<1>1. CASE DistributeTasks(a)
  <2>1. NoReport /\ InFlight \subseteq InFlight'
    BY <1>1, DistributeTasksNoReport
  <2>2. /\ appState' = [appState EXCEPT ![a] = "TASKRECEPTION"]
        /\ UNCHANGED <<tAck, respTo, tDownload>>
    BY <1>1 DEF DistributeTasks, workVars
  <2>3. \A m \in InFlight' : m \in InFlight \/ (m.type = "TaskInfo" /\ m.src = a)
    BY <1>1, DistributeTasksSends
  <2>4. \A x \in Nodes : appState[x] = "TASKRECEPTION" => appState'[x] = "TASKRECEPTION"
    BY <2>2
  <2>5. \A n \in Nodes : tAck'[n] => Answering(n)'
    BY <2>1, <2>2 DEF Answering
  <2>6. \A m \in InFlight : m.src \in Nodes /\ m.dst \in Nodes
    BY DEF Message
  <2> QED
    BY <2>1, <2>2, <2>3, <2>4, <2>5, <2>6 DEF NoReport
<1>2. CASE StartDownload(a) /\ (tDownloadStart[a] \/ RestartDownload(a))
  <2>1. NoReport /\ InFlight \subseteq InFlight'
    BY <1>2, StartDownloadNoReport
  <2>2. /\ appState' = [appState EXCEPT ![a] = "RESOURCEREQUEST"]
        /\ UNCHANGED <<tAck, respTo, tDownload>>
    BY <1>2 DEF StartDownload, workVars
  <2>3. \A m \in InFlight' : m \in InFlight \/ m.type = "ResourceRequest"
    BY <1>2, StartDownloadSends
  <2>4. CASE appState[a] # "TASKRECEPTION"
    <3>1. \A x \in Nodes : appState[x] = "TASKRECEPTION" => appState'[x] = "TASKRECEPTION"
      BY <2>2, <2>4
    <3>2. \A n \in Nodes : tAck'[n] => Answering(n)'
      BY <2>1, <2>2 DEF Answering
    <3>3. \A m \in InFlight : m.src \in Nodes /\ m.dst \in Nodes
      BY DEF Message
    <3> QED
      BY <2>1, <2>2, <2>3, <3>1, <3>2, <3>3 DEF NoReport
  <2>5. CASE appState[a] = "TASKRECEPTION"
    <3>1. tResRequest[a] = "round" /\ ~tDownloadStart[a]
      BY <2>5 DEF Timers
    <3>2. InFlight = {} /\ \A n \in Nodes : ~tDownload[n]
      BY <1>2, <3>1 DEF RestartDownload, Elapsed, ResRequestElapsed
    <3>3. \A n \in Nodes : ~tAck[n]
      BY <3>2 DEF Answering
    <3> QED
      BY <2>1, <2>2, <2>3, <3>2, <3>3 DEF NoReport
  <2> QED
    BY <2>4, <2>5
<1> QED
  BY <1>1, <1>2 DEF TimeoutDownloadStart, TimeoutResourceRequest, RestartDownload

\* The report at the end of a download.
LEMMA NominalReport ==
    ASSUME TypeOK, Roles, Timers, Nominal, NEW n \in Nodes,
           TimeoutDownloadSimulatorTimer(n)
    PROVE  Nominal' /\ ~tDownload'[n] /\
           \A m \in InFlight' : m.type = "CompleteTask" /\ m.src # n =>
                                   m \in InFlight /\ net'[m] <= net[m]
<1>. USE DEF TypeOK, Nominal
<1>. DEFINE r == Packet("CompleteTask", n, respTo[n], part[n])
<1>1. /\ net' = net (+) One(r)
      /\ appState' = [appState EXCEPT ![n] = "TASKWAIT"]
      /\ tAck' = [tAck EXCEPT ![n] = TRUE]
      /\ tDownload' = [tDownload EXCEPT ![n] = FALSE]
      /\ UNCHANGED <<part, respTo>>
      /\ tDownload[n]
  BY DEF TimeoutDownloadSimulatorTimer, SendReport
<1>2. IsABag(One(r)) /\ BagToSet(One(r)) = {r}
  BY BagOnce, InFlightSet DEF One
<1>3. r.type = "CompleteTask" /\ r.src = n /\ r.dst = respTo[n]
  BY DEF Packet
<1>. HIDE DEF r
<1>4. InFlight' = InFlight \cup {r}
  BY <1>1, <1>2, InFlightSent DEF InFlight
<1>5. n \notin AppNodes /\ appState[n] # "TASKRECEPTION"
  <2>1. n \notin AppNodes
    BY <1>1 DEF Roles, RolesDisjoint
  <2>2. tResRequest[n] = "off"
    BY <2>1 DEF Roles
  <2> QED
    BY <2>1, <2>2 DEF Timers
<1>6. \A x \in Nodes : appState[x] = "TASKRECEPTION" => appState'[x] = "TASKRECEPTION"
  BY <1>1, <1>5
<1>7. \A m \in InFlight : m.src \in Nodes /\ m.dst \in Nodes
  BY DEF Message
<1>8. \A x \in Nodes : tAck'[x] => Answering(x)'
  BY <1>1, <1>3, <1>4 DEF Answering
<1>9. \A m \in InFlight' : m.type = "CompleteTask" /\ m.src # n =>
                              m \in InFlight /\ net'[m] <= net[m]
  <2>1. \A m \in InFlight' : m # r => m \in InFlight /\ net'[m] = net[m]
    BY <1>1, <1>2, BagAdded DEF InFlight
  <2>2. \A m \in InFlight : net[m] \in Nat
    BY DEF IsABag, InFlight, BagToSet
  <2> QED
    BY <1>3, <2>1, <2>2
<1>10. IsABag(net')
  BY <1>1, <1>2, BagAdded
<1> QED
  BY <1>1, <1>3, <1>4, <1>6, <1>7, <1>8, <1>9, <1>10

LEMMA NominalRecv ==
    ASSUME TypeOK, Roles, Timers, ~Lossy, Nominal, NEW m \in InFlight, RecvPkt(m) \/ Lose(m)
    PROVE  Nominal' /\ NoReport
<1>. USE DEF TypeOK
<1>1. NoReport /\ InFlight \ {m} \subseteq InFlight'
  BY RecvPktNoReport DEF Nominal
<1>2. m \in Message /\ m.dst \in Nodes /\ m.src \in Nodes
  BY DEF Message
<1>3. \A x \in InFlight' : x \in InFlight \/ x.type \in {"ResourceInfoFromCN", "CompleteTaskAck"}
  BY RecvPktSends
<1>4. \A x \in InFlight : x.src \in Nodes /\ x.dst \in Nodes
  BY DEF Message
\* What every reception has to show: nobody stops waiting for reports, a task
\* taken is from somebody who does, a report taken is acked.
<1>5. ASSUME \A x \in Nodes : appState[x] = "TASKRECEPTION" => appState'[x] = "TASKRECEPTION",
             \A x \in Nodes : tAck'[x] => tAck[x],
             m.type = "CompleteTask" => Answering(m.src)',
             m.type = "CompleteTaskAck" => ~tAck'[m.dst],
             \A x \in Nodes : tDownload'[x] =>
                respTo'[x] \in Nodes /\ appState[respTo'[x]] = "TASKRECEPTION"
      PROVE  Nominal'
  <2>1. IsABag(net')
    BY <1>1 DEF NoReport
  <2>2. ASSUME NEW n \in Nodes, tAck'[n] PROVE Answering(n)'
    <3>1. PICK x \in InFlight : \/ x.type = "CompleteTask" /\ x.src = n
                                \/ x.type = "CompleteTaskAck" /\ x.dst = n
      BY <1>5, <2>2 DEF Nominal, Answering
    <3>2. CASE x # m
      BY <1>1, <3>1, <3>2 DEF Answering
    <3>3. CASE x = m
      BY <1>5, <2>2, <3>1, <3>3
    <3> QED
      BY <3>2, <3>3
  <2>3. \A x \in InFlight' :
           /\ x.type = "TaskInfo" => appState'[x.src] = "TASKRECEPTION"
           /\ x.type = "CompleteTask" => appState'[x.dst] = "TASKRECEPTION"
    BY <1>3, <1>4, <1>5 DEF Nominal
  <2>4. \A x \in Nodes : tDownload'[x] => appState'[respTo'[x]] = "TASKRECEPTION"
    BY <1>5
  <2> QED
    BY <2>1, <2>2, <2>3, <2>4 DEF Nominal
<1>6. \A x \in Nodes : tDownload[x] => respTo[x] \in Nodes /\ appState[respTo[x]] = "TASKRECEPTION"
  BY DEF Nominal
<1>7. CASE RecvResourceRequest(m)
  BY <1>1, <1>2, <1>5, <1>6, <1>7 DEF RecvResourceRequest, Accepts, AcceptedIn, workVars
<1>8. CASE RecvResourceInfoFromCN(m)
  BY <1>1, <1>2, <1>5, <1>6, <1>8 DEF RecvResourceInfoFromCN, workVars
<1>9. CASE RecvTaskInfo(m)
  <2>1. /\ m.type = "TaskInfo" /\ appState[m.dst] = "TASKWAIT"
        /\ appState' = [appState EXCEPT ![m.dst] = "EXECUTINGTASK"]
        /\ respTo' = [respTo EXCEPT ![m.dst] = m.src]
        /\ tDownload' = [tDownload EXCEPT ![m.dst] = TRUE]
        /\ UNCHANGED tAck
    BY <1>9 DEF RecvTaskInfo, Accepts, AcceptedIn, StartDownloadTask
  <2>2. appState[m.src] = "TASKRECEPTION"
    BY <2>1 DEF Nominal
  <2>3. \A x \in Nodes : tDownload'[x] =>
           respTo'[x] \in Nodes /\ appState[respTo'[x]] = "TASKRECEPTION"
    BY <1>2, <1>6, <2>1, <2>2
  <2> QED
    BY <1>1, <1>2, <1>5, <2>1, <2>3
<1>10. CASE RecvCompleteTask(m)
  <2>1. /\ m.type = "CompleteTask"
        /\ net' = Take(m) (+) One(Packet("CompleteTaskAck", m.dst, m.src, 0))
        /\ UNCHANGED <<appState, tAck, respTo, tDownload>>
    BY <1>10 DEF RecvCompleteTask, workVars
  <2>2. Packet("CompleteTaskAck", m.dst, m.src, 0) \in InFlight'
    BY <2>1, InFlightSent, InFlightSet DEF InFlight, One
  <2>3. Answering(m.src)'
    BY <2>2 DEF Answering, Packet
  <2> QED
    BY <1>1, <1>5, <1>6, <2>1, <2>3
<1>11. CASE RecvCompleteTaskAck(m)
  <2>1. /\ m.type = "CompleteTaskAck"
        /\ tAck' = [tAck EXCEPT ![m.dst] = FALSE]
        /\ appState' = [appState EXCEPT ![m.dst] = "TASKWAIT"]
        /\ UNCHANGED <<respTo, tDownload>>
    BY <1>11 DEF RecvCompleteTaskAck, workVars
  <2>2. m.dst \notin AppNodes
    BY <2>1 DEF Roles
  <2>3. appState[m.dst] # "TASKRECEPTION"
    BY <1>2, <2>2 DEF Roles, Timers
  <2> QED
    BY <1>1, <1>2, <1>5, <1>6, <2>1, <2>3
<1>12. CASE RecvIgnored(m)
  <2>1. m.type # "CompleteTask" /\ m.type # "CompleteTaskAck"
    BY <1>2, <1>12 DEF RecvIgnored, Accepts, AcceptedIn, Nominal
  <2> QED
    BY <1>1, <1>5, <1>6, <1>12, <2>1 DEF RecvIgnored, workVars
<1> QED
  BY <1>1, <1>7, <1>8, <1>9, <1>10, <1>11, <1>12 DEF RecvPkt, Lose

LEMMA NominalStep ==
    ASSUME Prompt, ~Lossy, TypeOK, Roles, Timers, Nominal, [Next]_vars
    PROVE  Nominal'
<1>1. ASSUME NEW n \in Nodes, TimeoutDownloadStart(n) \/ TimeoutResourceRequest(n)
      PROVE  Nominal'
  BY <1>1, NominalApp
<1>2. ASSUME NEW n \in Nodes, TimeoutDownloadSimulatorTimer(n) PROVE Nominal'
  BY <1>2, NominalReport
<1>3. ASSUME NEW n \in Nodes, TimeoutCompleteTaskAck(n) PROVE Nominal'
  BY <1>3, NothingResent DEF TimeoutCompleteTaskAck, ResendReport, GiveUp
<1>4. ASSUME NEW m \in InFlight, RecvPkt(m) \/ Lose(m) PROVE Nominal'
  BY <1>4, NominalRecv
<1>5. CASE UNCHANGED vars
  BY <1>5 DEF vars, workVars, Nominal, Answering, InFlight, IsABag
<1> QED
  BY <1>1, <1>2, <1>3, <1>4, <1>5 DEF Next

THEOREM NominalInvariant ==
    ASSUME Prompt, ~Lossy
    PROVE  Spec => []Nominal
<1>1. Init => Nominal
  <2>. SUFFICES ASSUME Init PROVE Nominal
    OBVIOUS
  <2>1. InFlight = {}
    BY InFlightSet DEF Init, EmptyBag, InFlight
  <2>2. \A n \in Nodes : ~tDownload[n] /\ ~tAck[n]
    BY Zenon DEF Init
  <2>3. IsABag(net)
    BY BagOnce DEF Init, EmptyBag
  <2> QED
    BY <2>1, <2>2, <2>3 DEF Nominal
<1>2. TypeOK /\ Roles /\ Timers /\ Nominal /\ [Next]_vars => Nominal'
  BY NominalStep
<1> QED
  BY <1>1, <1>2, TypeCorrect, RolesInvariant, TimersInvariant, PTL DEF Spec

\* With nothing lost and nothing slower than a retry period, a chunk is never
\* reported before it is downloaded: no second report can carry the number of a
\* chunk whose download has begun since the first.
THEOREM ReportsFollowDownloads ==
    ASSUME Prompt, ~Lossy
    PROVE  Spec => ReportsAreDownloaded
<1>. DEFINE Reported(n) == \E m \in BagToSet(net') :
                              /\ m.type = "CompleteTask" /\ m.src = n
                              /\ net'[m] > (IF m \in InFlight THEN net[m] ELSE 0)
            Ended == \A n \in Nodes : Reported(n) => ~tDownload'[n]
<1>1. TypeOK /\ Roles /\ Timers /\ Nominal /\ [Next]_vars => [Ended]_vars
  <2>. SUFFICES ASSUME TypeOK, Roles, Timers, Nominal, Next PROVE Ended
    OBVIOUS
  <2>1. \A m \in InFlight : net[m] \in Nat
    BY DEF Nominal, IsABag, InFlight, BagToSet
  <2>2. Nominal'
    BY NominalStep
  <2>3. \A m \in InFlight' : net'[m] \in Nat
    BY <2>2 DEF Nominal, IsABag, InFlight, BagToSet
  <2>4. ASSUME NoReport PROVE Ended
    BY <2>1, <2>3, <2>4 DEF NoReport, InFlight
  <2>5. ASSUME NEW n \in Nodes, TimeoutDownloadStart(n) \/ TimeoutResourceRequest(n)
        PROVE  NoReport
    BY <2>5, NominalApp
  <2>6. ASSUME NEW n \in Nodes, TimeoutDownloadSimulatorTimer(n) PROVE Ended
    <3>1. ~tDownload'[n]
      BY <2>6, NominalReport
    <3>2. \A m \in InFlight' : m.type = "CompleteTask" /\ m.src # n =>
                                  m \in InFlight /\ net'[m] <= net[m]
      BY <2>6, NominalReport
    <3>3. \A x \in Nodes : Reported(x) => x = n
      BY <2>1, <2>3, <3>2 DEF InFlight
    <3> QED
      BY <3>1, <3>3
  <2>7. ASSUME NEW n \in Nodes, TimeoutCompleteTaskAck(n) PROVE FALSE
    BY <2>7, NothingResent DEF TimeoutCompleteTaskAck, ResendReport, GiveUp
  <2>8. ASSUME NEW m \in InFlight, RecvPkt(m) \/ Lose(m) PROVE NoReport
    BY <2>8, NominalRecv
  <2> QED
    BY <2>4, <2>5, <2>6, <2>7, <2>8 DEF Next
<1> QED
  BY <1>1, TypeCorrect, RolesInvariant, TimersInvariant, NominalInvariant, PTL
     DEF Spec, ReportsAreDownloaded

-----------------------------------------------------------------------------
(***************************************************************************)
(* One download, nothing lost, nothing slower than a retry period: every   *)
(* round begins when the chunks of the rounds before are in, so the chunks *)
(* asked for are the first ones of the file and the scan for the next one  *)
(* ends within it.  The invariant follows a chunk from the task through    *)
(* the download and the report to the table, and says that a collaborator  *)
(* works for one chunk at a time: an ack finds that chunk recorded.        *)
(***************************************************************************)
OneAppNode == \A a, b \in AppNodes : a = b

\* A collaborator that answered a request is never INITIAL again.
Serving(n) == appState[n] \in {"TASKWAIT", "EXECUTINGTASK"}

\* Each collaborator is on the list once: it sends one offer in its life.
Offers ==
    /\ \A a \in AppNodes :
          /\ \A i, j \in 1 .. Len(collabs[a]) : collabs[a][i] = collabs[a][j] => i = j
          /\ \A i \in 1 .. Len(collabs[a]) : Serving(collabs[a][i])
    /\ \A m \in InFlight : m.type = "ResourceInfoFromCN" =>
          /\ net[m] = 1 /\ m.part = 0
          /\ Serving(m.src)
          /\ m.dst \in AppNodes =>
                \A i \in 1 .. Len(collabs[m.dst]) : collabs[m.dst][i] # m.src

\* The chunks asked for are the first ones, or all.
Prefix ==
    \A a \in AppNodes :
        /\ tDownloadStart[a] => InFlight = {} /\ asked[a] = {} /\ lastChunk[a] = 0
        /\ \/ asked[a] = Parts
           \/ lastChunk[a] \in 0 .. Chunks /\ asked[a] = 0 .. lastChunk[a] - 1

\* Chunk p is with a collaborator of a, or on the way to one or back.
Underway(a, p) ==
    \/ \E m \in InFlight :
          m.type = "TaskInfo" /\ m.src = a /\ m.part = p /\ appState[m.dst] = "TASKWAIT"
    \/ \E n \in Nodes : tDownload[n] /\ respTo[n] = a /\ part[n] = p
    \/ \E m \in InFlight : m.type = "CompleteTask" /\ m.dst = a /\ m.part = p

NoneForgotten ==
    \A a \in AppNodes : \A p \in asked[a] : isChunkDownloaded(a, p) \/ Underway(a, p)

\* n downloads its chunk, or has reported it and no ack has come.
Engaged(n) == tDownload[n] \/ Answering(n)

OneTaskEach ==
    /\ \A m \in InFlight : m.type = "TaskInfo" =>
          /\ \A o \in InFlight : o.type = "TaskInfo" /\ o.dst = m.dst => o.part = m.part
          /\ Engaged(m.dst) => part[m.dst] = m.part /\ respTo[m.dst] = m.src
    /\ \A m \in InFlight :
          /\ m.type = "CompleteTask" => m.part = part[m.src] /\ m.dst = respTo[m.src]
          /\ m.type = "CompleteTaskAck" => isChunkDownloaded(respTo[m.dst], part[m.dst])

Progress == Offers /\ Prefix /\ NoneForgotten /\ OneTaskEach

-----------------------------------------------------------------------------
(* The scan of a round.                                                    *)

\* When the first l chunks are recorded and no other, the scan from s ends at the
\* first chunk that is neither before s nor before l.
LEMMA ScanFinds ==
    ASSUME TypeOK, NEW a \in Nodes, NEW l \in Parts, NEW s \in Parts, NEW c \in Cells,
           \A d \in Parts : chunks[a][d] <=> d < l,
           ScanEnds(a, s, c)
    PROVE  c \in Parts /\ c = IF s <= l THEN l ELSE s
<1>1. /\ Chunks \in Nat /\ Slack \in Nat
      /\ Parts \subseteq Table /\ l \in Nat /\ s \in Nat /\ c \in Nat
  BY ConstantsOK DEF Parts, Table, Foreign, Cells
<1>2. \A d \in Parts : isChunkDownloaded(a, d) <=> d < l
  BY <1>1 DEF isChunkDownloaded
<1>3. s <= c /\ ~isChunkDownloaded(a, c) /\ \A d \in s .. c - 1 : isChunkDownloaded(a, d)
  BY DEF ScanEnds
<1>. DEFINE e == IF s <= l THEN l ELSE s
<1>4. e \in Parts /\ s <= e /\ ~(e < l)
  BY <1>1
<1>5. ~isChunkDownloaded(a, e)
  BY <1>2, <1>4
<1>6. c <= e
  BY <1>1, <1>3, <1>4, <1>5 DEF Parts
<1>7. c \in Parts
  BY <1>1, <1>4, <1>6 DEF Parts
<1>8. ~(c < l)
  BY <1>2, <1>3, <1>7
<1> QED
  BY <1>1, <1>3, <1>4, <1>6, <1>7, <1>8

\* The chunks of the first k entries of a round's assignment.
Wanted(f, k) == {f[j] : j \in 1 .. k}

\* So the loop over the collaborators asks for the chunks from l on, and, should it
\* come to the end of the file, from l on again.
LEMMA RoundAsks ==
    ASSUME TypeOK, NEW a \in Nodes, NEW l \in Parts, lastChunk[a] = l,
           \A d \in Parts : chunks[a][d] <=> d < l,
           NEW k \in Nat \ {0}, NEW f \in [1 .. k -> Cells], IsAssignment(a, k, f)
    PROVE  /\ f[k] \in l .. Chunks - 1
           /\ \/ Wanted(f, k) = l .. f[k]
              \/ Wanted(f, k) = l .. Chunks - 1
<1>. DEFINE S(i) == Wanted(f, i)
            Good(i) == /\ f[i] \in l .. Chunks - 1
                       /\ S(i) = l .. f[i] \/ S(i) = l .. Chunks - 1
            Q == {i \in 0 .. k : i > 0 => Good(i)}
<1>1. Chunks \in Nat \ {0} /\ l \in Nat /\ l < Chunks /\ \A d \in l .. Chunks - 1 : d \in Parts
  BY ConstantsOK DEF Parts
<1>2. Good(1)
  <2>1. ScanEnds(a, Wrap(lastChunk[a]), f[1]) /\ f[1] \in Cells
    BY DEF IsAssignment
  <2>2. Wrap(lastChunk[a]) = l
    BY <1>1 DEF Wrap
  <2>3. f[1] = l
    BY <2>1, <2>2, ScanFinds
  <2>4. S(1) = {f[1]}
    BY DEF Wanted
  <2> QED
    BY <1>1, <2>3, <2>4
<1>3. ASSUME NEW i \in 1 .. k, i > 1, Good(i - 1) PROVE Good(i)
  <2>. DEFINE s == Wrap(f[i - 1] + 1)
  <2>1. ScanEnds(a, s, f[i]) /\ f[i] \in Cells
    BY <1>3 DEF IsAssignment
  <2>2. f[i - 1] \in l .. Chunks - 1
    BY <1>3
  <2>3. s = IF f[i - 1] = Chunks - 1 THEN 0 ELSE f[i - 1] + 1
    BY <1>1, <2>2 DEF Wrap
  <2>4. s \in Parts
    BY <1>1, <2>2, <2>3 DEF Parts
  <2>. HIDE DEF s
  <2>5. f[i] = IF s <= l THEN l ELSE s
    BY <2>1, <2>4, ScanFinds
  <2>6. f[i] = IF f[i - 1] = Chunks - 1 THEN l ELSE f[i - 1] + 1
    BY <1>1, <2>2, <2>3, <2>5
  <2>7. S(i) = S(i - 1) \cup {f[i]}
    BY <1>3 DEF Wanted
  <2>8. S(i - 1) = l .. f[i - 1] \/ S(i - 1) = l .. Chunks - 1
    BY <1>3
  <2>. HIDE DEF S
  <2>9. f[i] \in l .. Chunks - 1
    BY <1>1, <2>2, <2>6
  <2>10. CASE f[i - 1] = Chunks - 1
    BY <1>1, <2>6, <2>7, <2>8, <2>9, <2>10
  <2>11. CASE f[i - 1] # Chunks - 1 /\ S(i - 1) = l .. f[i - 1]
    BY <1>1, <2>2, <2>6, <2>7, <2>9, <2>11
  <2>12. CASE S(i - 1) = l .. Chunks - 1
    BY <2>7, <2>9, <2>12
  <2> QED
    BY <2>8, <2>9, <2>10, <2>11, <2>12
<1>. HIDE DEF Good
<1>4. Q \in SUBSET (0 .. k) /\ 0 \in Q
  OBVIOUS
<1>5. \A i \in 1 .. k : i - 1 \in Q => i \in Q
  BY <1>2, <1>3
<1>6. k \in Q
  <2>. HIDE DEF Q
  <2> QED
    BY <1>4, <1>5, InductionUpTo
<1>7. Good(k)
  BY <1>6
<1> QED
  BY <1>7 DEF Good

-----------------------------------------------------------------------------
\* Nothing is in the air and nobody downloads.
Quiet == InFlight = {} /\ \A n \in Nodes : ~tDownload[n]

\* When a round or a download begins, whatever the last one asked for is in.
LEMMA RoundsBeginQuiet ==
    ASSUME TypeOK, Roles, Timers, Nominal, Prompt, OneAppNode, NEW a \in Nodes,
           tResRequest[a] # "off", Elapsed, ResRequestElapsed(a)
    PROVE  Quiet
<1>1. InFlight = {}
  BY DEF Elapsed
<1>2. ASSUME NEW n \in Nodes, tDownload[n] PROVE FALSE
  <2>1. respTo[n] \in Nodes /\ tResRequest[respTo[n]] = "round"
    BY <1>2 DEF Nominal, TypeOK, Timers
  <2>2. respTo[n] \in AppNodes /\ a \in AppNodes
    BY <2>1 DEF Roles
  <2>3. tResRequest[a] = "round"
    BY <2>1, <2>2 DEF OneAppNode
  <2> QED
    BY <1>2, <2>3 DEF ResRequestElapsed
<1> QED
  BY <1>1, <1>2 DEF Quiet

LEMMA StartsBeginQuiet ==
    ASSUME TypeOK, Roles, Timers, Nominal, Prefix, OneAppNode, NEW a \in Nodes,
           tDownloadStart[a]
    PROVE  Quiet /\ lastChunk[a] = 0
<1>1. a \in AppNodes
  BY DEF Roles
<1>2. InFlight = {} /\ lastChunk[a] = 0 /\ tResRequest[a] = "off"
  BY <1>1 DEF Prefix, Timers
<1>3. ASSUME NEW n \in Nodes, tDownload[n] PROVE FALSE
  <2>1. respTo[n] \in Nodes /\ tResRequest[respTo[n]] = "round"
    BY <1>3 DEF Nominal, TypeOK, Timers
  <2>2. respTo[n] \in AppNodes
    BY <2>1 DEF Roles
  <2> QED
    BY <1>1, <1>2, <2>1, <2>2 DEF OneAppNode
<1> QED
  BY <1>2, <1>3 DEF Quiet

LEMMA ProgressStart ==
    ASSUME TypeOK, OneAppNode, Quiet, NEW a \in AppNodes, StartDownload(a), lastChunk'[a] = 0
    PROVE  Progress'
<1>1. a \in Nodes /\ AppNodes = {a}
  BY ConstantsOK DEF OneAppNode
<1>2. \A m \in InFlight' : m.type = "ResourceRequest"
  BY StartDownloadSends DEF Quiet
<1>3. /\ collabs'[a] = <<>> /\ asked'[a] = {} /\ ~tDownloadStart'[a]
      /\ UNCHANGED tDownload
  BY <1>1 DEF StartDownload, TypeOK, workVars
<1>4. Offers'
  BY <1>1, <1>2, <1>3 DEF Offers
<1>5. Prefix'
  <2>1. 0 \in 0 .. Chunks /\ 0 .. 0 - 1 = {}
    BY ConstantsOK
  <2>2. lastChunk'[a] \in 0 .. Chunks /\ asked'[a] = 0 .. lastChunk'[a] - 1
    BY <1>3, <2>1
  <2> QED
    BY <1>1, <1>3, <2>2 DEF Prefix
<1>6. NoneForgotten'
  BY <1>1, <1>3 DEF NoneForgotten
<1>7. OneTaskEach'
  BY <1>2 DEF OneTaskEach
<1> QED
  BY <1>4, <1>5, <1>6, <1>7 DEF Progress

\* At the beginning of a round the chunks asked for are those recorded.
LEMMA AskedAreRecorded ==
    ASSUME TypeOK, NoStaleChunk, Quiet, Progress, NEW a \in AppNodes
    PROVE  \A c \in Parts : chunks[a][c] <=> c \in asked[a]
<1>1. a \in Nodes
  BY ConstantsOK
<1>2. ASSUME NEW c \in Parts, c \in asked[a] PROVE chunks[a][c]
  <2>1. ~Underway(a, c)
    BY DEF Quiet, Underway
  <2> QED
    BY <1>2, <2>1 DEF Progress, NoneForgotten, isChunkDownloaded
<1> QED
  BY <1>1, <1>2 DEF NoStaleChunk

LEMMA ProgressDistribute ==
    ASSUME TypeOK, Roles, Timers, NoStaleChunk, OneAppNode, Quiet, Progress,
           NEW a \in AppNodes, DistributeTasks(a)
    PROVE  Progress'
<1>1. a \in Nodes /\ AppNodes = {a} /\ Chunks \in Nat \ {0}
  BY ConstantsOK DEF OneAppNode
<1>2. PICK k \in Nat \ {0} :
         k = collabNodes(a) /\ k <= Len(collabs[a]) /\ Len(collabs[a]) \in Nat
  BY <1>1, CollabNodesBound DEF TypeOK, DistributeTasks
<1>3. PICK f \in [1 .. k -> Cells] :
         /\ IsAssignment(a, k, f)
         /\ lastChunk' = [lastChunk EXCEPT ![a] = f[k] + 1]
         /\ net' = net (+) TaskInfos(a, k, f)
         /\ asked' = [asked EXCEPT ![a] = @ \cup {f[i] : i \in 1 .. k}]
  BY <1>2, Zenon DEF DistributeTasks
<1>4. /\ UNCHANGED <<chunks, collabs, tDownloadStart, tDownload, respTo, part>>
      /\ appState' = [appState EXCEPT ![a] = "TASKRECEPTION"]
      /\ ~isDownloadComplete(a)
  BY DEF DistributeTasks, workVars
<1>5. InFlight' = {Packet("TaskInfo", a, collabs[a][i], f[i]) : i \in 1 .. k}
  <2>1. BagToSet(net') = BagToSet(net) \cup BagToSet(TaskInfos(a, k, f))
    BY <1>3, InFlightSent
  <2> QED
    BY <2>1, InFlightTasks DEF InFlight, Quiet
<1>6. PICK l \in Parts : lastChunk[a] = l /\ asked[a] = 0 .. l - 1
  <2>1. asked[a] # Parts
    BY <1>4, AskedAreRecorded DEF isDownloadComplete
  <2> QED
    BY <1>1, <2>1 DEF Progress, Prefix, Parts
<1>7. \A d \in Parts : chunks[a][d] <=> d < l
  BY <1>6, AskedAreRecorded DEF Parts
<1>8. /\ f[k] \in l .. Chunks - 1
      /\ \/ Wanted(f, k) = l .. f[k]
         \/ Wanted(f, k) = l .. Chunks - 1
  <2>1. IsAssignment(a, k, f) /\ lastChunk[a] = l
    BY <1>3, <1>6
  <2>2. a \in Nodes /\ k \in Nat \ {0}
    BY <1>1, <1>2
  <2> QED
    BY <1>7, <2>1, <2>2, RoundAsks
<1>9. asked'[a] = asked[a] \cup Wanted(f, k) /\ lastChunk'[a] = f[k] + 1
  BY <1>1, <1>3 DEF TypeOK, Wanted
<1>10. \A i \in 1 .. k : /\ collabs[a][i] \in Nodes /\ collabs[a][i] # a
                         /\ appState[collabs[a][i]] = "TASKWAIT"
  <2>. SUFFICES ASSUME NEW i \in 1 .. k
                PROVE  /\ collabs[a][i] \in Nodes /\ collabs[a][i] # a
                       /\ appState[collabs[a][i]] = "TASKWAIT"
    OBVIOUS
  <2>1. i \in 1 .. Len(collabs[a])
    BY <1>2
  <2>2. collabs[a][i] \in Nodes /\ collabs[a][i] \notin AppNodes
    BY <1>1, <2>1 DEF TypeOK, Roles
  <2>3. Serving(collabs[a][i])
    BY <2>1 DEF Progress, Offers
  <2> QED
    BY <2>2, <2>3 DEF Serving, Quiet, Timers, BusyIsDownloading
<1>11. Offers'
  <2>1. \A x \in Nodes : Serving(x) /\ x # a => Serving(x)'
    BY <1>4 DEF Serving, TypeOK
  <2>2. ASSUME NEW i \in 1 .. Len(collabs[a]) PROVE Serving(collabs[a][i])'
    <3>1. PICK n \in Nodes : n = collabs[a][i] /\ n # a
      BY <1>1 DEF TypeOK, Roles
    <3>2. Serving(n)
      BY <3>1 DEF Progress, Offers
    <3>3. Serving(n)' /\ collabs'[a][i] = n
      BY <1>4, <2>1, <3>1, <3>2
    <3> QED
      BY <3>3 DEF Serving
  <2>3. \A m \in InFlight' : m.type = "TaskInfo"
    BY <1>5 DEF Packet
  <2> QED
    BY <1>1, <1>4, <2>2, <2>3 DEF Progress, Offers
<1>12. Prefix'
  <2>1. ~tDownloadStart'[a]
    BY <1>4 DEF DistributeTasks, Elapsed, Started
  <2>2. CASE Wanted(f, k) = l .. f[k]
    <3>1. asked'[a] = 0 .. f[k]
      BY <1>1, <1>6, <1>8, <1>9, <2>2 DEF Parts
    <3> QED
      BY <1>1, <1>6, <1>8, <1>9, <2>1, <3>1 DEF Prefix, Parts
  <2>3. CASE Wanted(f, k) = l .. Chunks - 1
    <3>1. asked'[a] = Parts
      BY <1>1, <1>6, <1>9, <2>3 DEF Parts
    <3> QED
      BY <1>1, <2>1, <3>1 DEF Prefix
  <2> QED
    BY <1>8, <2>2, <2>3
<1>13. NoneForgotten'
  <2>1. ASSUME NEW p \in asked'[a] PROVE isChunkDownloaded(a, p)' \/ Underway(a, p)'
    <3>1. CASE p \in asked[a]
      <4>1. isChunkDownloaded(a, p)
        BY <3>1 DEF Progress, NoneForgotten, Quiet, Underway
      <4> QED
        BY <1>4, <4>1 DEF isChunkDownloaded
    <3>2. CASE p \notin asked[a]
      <4>1. PICK i \in 1 .. k : p = f[i]
        BY <1>9, <2>1, <3>2 DEF Wanted
      <4>. DEFINE m == Packet("TaskInfo", a, collabs[a][i], f[i])
      <4>2. m \in InFlight'
        BY <1>5
      <4>3. m.type = "TaskInfo" /\ m.src = a /\ m.part = p /\ m.dst = collabs[a][i]
        BY <4>1 DEF Packet
      <4>. HIDE DEF m
      <4>4. appState'[m.dst] = "TASKWAIT"
        BY <1>4, <1>10, <4>3 DEF TypeOK
      <4> QED
        BY <4>2, <4>3, <4>4 DEF Underway
    <3> QED
      BY <3>1, <3>2
  <2> QED
    BY <1>1, <2>1 DEF NoneForgotten
<1>14. OneTaskEach'
  <2>1. \A m \in InFlight' : m.type = "TaskInfo"
    BY <1>5 DEF Packet
  <2>2. \A n \in Nodes : ~Engaged(n)'
    BY <1>4, <2>1 DEF Engaged, Answering, Quiet
  <2>3. \A m \in InFlight' : m.dst \in Nodes
    BY <1>5, <1>10 DEF Packet
  <2>4. ASSUME NEW m \in InFlight', NEW o \in InFlight', o.dst = m.dst PROVE o.part = m.part
    <3>1. PICK i \in 1 .. k : m = Packet("TaskInfo", a, collabs[a][i], f[i])
      BY <1>5
    <3>2. PICK j \in 1 .. k : o = Packet("TaskInfo", a, collabs[a][j], f[j])
      BY <1>5
    <3>3. collabs[a][i] = collabs[a][j]
      BY <2>4, <3>1, <3>2 DEF Packet
    <3>4. i = j
      BY <1>2, <3>3 DEF Progress, Offers
    <3> QED
      BY <3>1, <3>2, <3>4
  <2> QED
    BY <2>1, <2>2, <2>3, <2>4 DEF OneTaskEach
<1> QED
  BY <1>11, <1>12, <1>13, <1>14 DEF Progress

-----------------------------------------------------------------------------
(* The copies in flight.                                                   *)

\* No packet but those of the bag C gets more copies.
LEMMA CopiesAnswered ==
    ASSUME IsABag(net), NEW x, NEW C, IsABag(C), net' = Take(x) (+) C
    PROVE  /\ IsABag(net')
           /\ \A m \in InFlight' : m \notin BagToSet(C) => m \in InFlight /\ net'[m] <= net[m]
<1>1. /\ IsABag(Take(x))
      /\ \A m \in BagToSet(Take(x)) : m \in InFlight /\ Take(x)[m] <= net[m]
  BY BagTaken DEF Take, InFlight
<1>2. IsABag(net') /\ \A m \in InFlight' : m \notin BagToSet(C) =>
                         m \in BagToSet(Take(x)) /\ net'[m] = Take(x)[m]
  BY <1>1, BagAdded DEF InFlight
<1> QED
  BY <1>1, <1>2

LEMMA CopiesTaken ==
    ASSUME IsABag(net), NEW x, net' = Take(x)
    PROVE  /\ IsABag(net')
           /\ \A m \in InFlight' : m \in InFlight /\ net'[m] <= net[m]
           /\ x \in InFlight /\ net[x] = 1 => x \notin InFlight'
<1>1. x \in BagToSet(net) /\ net[x] = 1 => x \notin BagToSet(net (-) One(x))
  <2>. DEFINE C == One(x)
              D == [e \in DOMAIN net |-> IF e \in DOMAIN C THEN net[e] - C[e] ELSE net[e]]
  <2>1. DOMAIN C = {x} /\ C[x] = 1
    BY DEF One, SetToBag
  <2>2. net (-) C = [e \in {d \in DOMAIN D : D[d] > 0} |-> D[e]]
    BY DEF (-)
  <2>3. x \in DOMAIN net /\ net[x] = 1 => D[x] = 0
    BY <2>1
  <2>. HIDE DEF C, D
  <2>4. x \in DOMAIN net /\ net[x] = 1 => x \notin DOMAIN (net (-) C)
    BY <2>2, <2>3
  <2> QED
    BY <2>4 DEF BagToSet, C
<1> QED
  BY <1>1, BagTaken DEF Take, InFlight

\* A bag of packets that are not in flight, each of them once.
LEMMA CopiesSent ==
    ASSUME NEW B, NEW S, \A m \in S : m \notin BagToSet(B)
    PROVE  \A m \in S : (B (+) SetToBag(S))[m] = 1
BY DEF BagToSet, SetToBag, (+)

-----------------------------------------------------------------------------
(* What a step that asks for no chunk has to keep.                         *)

ChunksKept == \A a \in Nodes, p \in Cells :
                 isChunkDownloaded(a, p) => isChunkDownloaded(a, p)'

LEMMA OffersKept ==
    ASSUME TypeOK, Offers, IsABag(net'), UNCHANGED collabs,
           \A n \in Nodes : Serving(n) => Serving(n)',
           \A m \in InFlight' : m.type = "ResourceInfoFromCN" => m \in InFlight /\ net'[m] <= net[m]
    PROVE  Offers'
<1>1. ASSUME NEW a \in AppNodes, NEW i \in 1 .. Len(collabs[a]) PROVE Serving(collabs[a][i])'
  <2>1. PICK n \in Nodes : n = collabs[a][i]
    BY ConstantsOK DEF TypeOK
  <2>2. Serving(n)'
    BY <2>1 DEF Offers
  <2> QED
    BY <2>1, <2>2 DEF Serving
<1>2. ASSUME NEW m \in InFlight', m.type = "ResourceInfoFromCN"
      PROVE  /\ net'[m] = 1 /\ m.part = 0 /\ Serving(m.src)'
             /\ m.dst \in AppNodes => \A i \in 1 .. Len(collabs[m.dst]) : collabs[m.dst][i] # m.src
  <2>1. m \in InFlight /\ m \in Message /\ net'[m] <= net[m]
    BY <1>2 DEF TypeOK
  <2>2. net'[m] \in Nat /\ net'[m] > 0
    BY DEF IsABag, InFlight, BagToSet
  <2>3. m.src \in Nodes /\ Serving(m.src)
    BY <1>2, <2>1 DEF Message, Offers
  <2>4. Serving(m.src)'
    BY <2>3
  <2>5. net[m] = 1
    BY <1>2, <2>1 DEF Offers
  <2> QED
    BY <1>2, <2>1, <2>2, <2>4, <2>5 DEF Offers
<1> QED
  BY <1>1, <1>2 DEF Offers

LEMMA PrefixKept ==
    ASSUME Prefix, UNCHANGED <<asked, lastChunk, tDownloadStart>>,
           \A a \in AppNodes : ~tDownloadStart[a]
    PROVE  Prefix'
BY DEF Prefix

LEMMA NoneForgottenKept ==
    ASSUME TypeOK, NoneForgotten, UNCHANGED asked, ChunksKept,
           \A a \in AppNodes : \A p \in asked[a] :
              Underway(a, p) => isChunkDownloaded(a, p)' \/ Underway(a, p)'
    PROVE  NoneForgotten'
<1>1. \A a \in AppNodes : a \in Nodes /\ asked[a] \subseteq Cells
  BY ConstantsOK DEF TypeOK
<1> QED
  BY <1>1 DEF NoneForgotten, ChunksKept

LEMMA OneTaskEachKept ==
    ASSUME TypeOK, OneTaskEach, ChunksKept,
           \A n \in Nodes : Engaged(n)' => /\ Engaged(n)
                                           /\ part'[n] = part[n] /\ respTo'[n] = respTo[n],
           \A m \in InFlight' : m.type = "TaskInfo" => m \in InFlight,
           \A m \in InFlight' : m.type = "CompleteTask" =>
              m.src \in Nodes /\
              (m \in InFlight \/ (m.part = part[m.src] /\ m.dst = respTo[m.src])),
           \A m \in InFlight' : m.type = "CompleteTaskAck" =>
              m.dst \in Nodes /\
              (m \in InFlight \/ isChunkDownloaded(respTo[m.dst], part[m.dst])')
    PROVE  OneTaskEach'
<1>1. ASSUME NEW m \in InFlight', m.type = "TaskInfo"
      PROVE  /\ \A o \in InFlight' : o.type = "TaskInfo" /\ o.dst = m.dst => o.part = m.part
             /\ Engaged(m.dst)' => part'[m.dst] = m.part /\ respTo'[m.dst] = m.src
  <2>1. m \in InFlight /\ m.dst \in Nodes
    BY <1>1 DEF TypeOK, Message
  <2> QED
    BY <1>1, <2>1 DEF OneTaskEach
<1>2. ASSUME NEW m \in InFlight', m.type = "CompleteTask"
      PROVE  m.part = part'[m.src] /\ m.dst = respTo'[m.src]
  <2>1. m.src \in Nodes /\ Engaged(m.src)'
    BY <1>2 DEF Engaged, Answering
  <2>2. m.part = part[m.src] /\ m.dst = respTo[m.src]
    BY <1>2 DEF OneTaskEach
  <2> QED
    BY <2>1, <2>2
<1>3. ASSUME NEW m \in InFlight', m.type = "CompleteTaskAck"
      PROVE  isChunkDownloaded(respTo[m.dst], part[m.dst])'
  <2>1. m.dst \in Nodes /\ Engaged(m.dst)'
    BY <1>3 DEF Engaged, Answering
  <2>2. part'[m.dst] = part[m.dst] /\ respTo'[m.dst] = respTo[m.dst]
    BY <2>1
  <2>3. respTo[m.dst] \in Nodes /\ part[m.dst] \in Cells
    BY <2>1 DEF TypeOK
  <2> QED
    BY <1>3, <2>2, <2>3 DEF OneTaskEach, ChunksKept, isChunkDownloaded
<1> QED
  BY <1>1, <1>2, <1>3 DEF OneTaskEach

-----------------------------------------------------------------------------
(* The collaborator's steps.                                               *)

\* The report at the end of a download.
LEMMA ProgressReport ==
    ASSUME TypeOK, Roles, Timers, Nominal, OneAppNode, Progress, NEW n \in Nodes,
           TimeoutDownloadSimulatorTimer(n)
    PROVE  Progress'
<1>. DEFINE r == Packet("CompleteTask", n, respTo[n], part[n])
<1>1. /\ net' = net (+) One(r) /\ tDownload[n]
      /\ appState' = [appState EXCEPT ![n] = "TASKWAIT"]
      /\ tDownload' = [tDownload EXCEPT ![n] = FALSE]
      /\ UNCHANGED <<part, respTo, chunks, collabs, lastChunk, asked, tDownloadStart>>
  BY DEF TimeoutDownloadSimulatorTimer, SendReport, appVars
<1>2. /\ r.type = "CompleteTask" /\ r.src = n /\ r.dst = respTo[n] /\ r.part = part[n]
      /\ IsABag(One(r)) /\ BagToSet(One(r)) = {r}
  BY BagOnce, InFlightSet DEF Packet, One
<1>. HIDE DEF r
<1>3. InFlight' = InFlight \cup {r}
  BY <1>1, <1>2, InFlightSent DEF InFlight
<1>4. \A x \in Nodes : Engaged(x)' => Engaged(x)
  BY <1>1, <1>2, <1>3 DEF Engaged, Answering, TypeOK
<1>5. ChunksKept
  BY <1>1 DEF ChunksKept, isChunkDownloaded
<1>6. Offers'
  <2>1. \A x \in Nodes : Serving(x) => Serving(x)'
    BY <1>1 DEF Serving, TypeOK
  <2>2. IsABag(net') /\ \A m \in InFlight' : m # r => m \in InFlight /\ net'[m] = net[m]
    BY <1>1, <1>2, BagAdded DEF InFlight, Nominal
  <2>3. \A m \in InFlight : net[m] \in Nat
    BY DEF IsABag, InFlight, BagToSet, Nominal
  <2>4. \A m \in InFlight' : m.type = "ResourceInfoFromCN" => m \in InFlight /\ net'[m] <= net[m]
    BY <1>2, <2>2, <2>3
  <2> QED
    BY <1>1, <2>1, <2>2, <2>4, OffersKept DEF Progress
<1>7. Prefix'
  <2>1. \A a \in AppNodes : ~tDownloadStart[a]
    BY <1>1, StartsBeginQuiet, ConstantsOK DEF Quiet, Progress
  <2> QED
    BY <1>1, <2>1, PrefixKept DEF Progress
<1>8. NoneForgotten'
  <2>1. ASSUME NEW a \in AppNodes, NEW p \in asked[a], Underway(a, p)
        PROVE  Underway(a, p)'
    <3>1. ASSUME NEW m \in InFlight, m.type = "TaskInfo", m.src = a, m.part = p,
                 appState[m.dst] = "TASKWAIT"
          PROVE  Underway(a, p)'
      <4>1. m \in InFlight' /\ m.dst \in Nodes
        BY <1>3 DEF TypeOK, Message
      <4>2. appState'[m.dst] = "TASKWAIT"
        BY <1>1, <3>1, <4>1 DEF TypeOK
      <4> QED
        BY <3>1, <4>1, <4>2 DEF Underway
    <3>2. ASSUME NEW x \in Nodes, tDownload[x], respTo[x] = a, part[x] = p
          PROVE  Underway(a, p)'
      <4>1. CASE x = n
        BY <1>2, <1>3, <3>2, <4>1 DEF Underway
      <4>2. CASE x # n
        BY <1>1, <3>2, <4>2 DEF Underway, TypeOK
      <4> QED
        BY <4>1, <4>2
    <3>3. ASSUME NEW m \in InFlight, m.type = "CompleteTask", m.dst = a, m.part = p
          PROVE  Underway(a, p)'
      BY <1>3, <3>3 DEF Underway
    <3> QED
      BY <2>1, <3>1, <3>2, <3>3 DEF Underway
  <2> QED
    BY <1>1, <1>5, <2>1, NoneForgottenKept DEF Progress
<1>9. OneTaskEach'
  <2>1. \A m \in InFlight : m.src \in Nodes /\ m.dst \in Nodes
    BY DEF TypeOK, Message
  <2>2. \A x \in Nodes : Engaged(x)' =>
           Engaged(x) /\ part'[x] = part[x] /\ respTo'[x] = respTo[x]
    BY <1>1, <1>4
  <2>3. \A m \in InFlight' : m \in InFlight \/ m = r
    BY <1>3
  <2>4. /\ \A m \in InFlight' : m.type = "TaskInfo" => m \in InFlight
        /\ \A m \in InFlight' : m.type = "CompleteTask" =>
              m.src \in Nodes /\
              (m \in InFlight \/ (m.part = part[m.src] /\ m.dst = respTo[m.src]))
        /\ \A m \in InFlight' : m.type = "CompleteTaskAck" =>
              m.dst \in Nodes /\ m \in InFlight
    BY <1>2, <2>1, <2>3
  <2> QED
    BY <1>5, <2>2, <2>4, OneTaskEachKept DEF Progress
<1> QED
  BY <1>6, <1>7, <1>8, <1>9 DEF Progress

-----------------------------------------------------------------------------
(* The receptions.                                                         *)

\* A node that takes an offer, or waits for a report, downloads.
LEMMA DownloaderIsAppNode ==
    ASSUME TypeOK, Roles, Timers, NEW n \in Nodes,
           appState[n] \in {"RESOURCEREQUEST", "TASKRECEPTION"}
    PROVE  n \in AppNodes
<1>1. tResRequest[n] # "off"
  BY DEF Timers
<1> QED
  BY <1>1 DEF Roles

\* What every reception keeps, the answers and the states of the nodes aside.
LEMMA RecvKeeps ==
    ASSUME TypeOK, Progress, NEW m \in InFlight, RecvPkt(m) \/ Lose(m)
    PROVE  /\ UNCHANGED <<asked, lastChunk, tDownloadStart>>
           /\ Prefix'
<1>1. UNCHANGED <<asked, lastChunk, tDownloadStart>>
  BY DEF RecvPkt, Lose, RecvResourceRequest, RecvResourceInfoFromCN, RecvTaskInfo,
         RecvCompleteTask, RecvCompleteTaskAck, RecvIgnored, appVars
<1>2. \A a \in AppNodes : ~tDownloadStart[a]
  BY DEF Progress, Prefix
<1> QED
  BY <1>1, <1>2, PrefixKept DEF Progress

\* A chunk stays on its way when its packet and its collaborator are left alone.
LEMMA UnderwayKept ==
    ASSUME TypeOK, NEW a, NEW p, Underway(a, p), NEW x \in InFlight,
           InFlight \ {x} \subseteq InFlight',
           \A n \in Nodes : tDownload[n] =>
              tDownload'[n] /\ respTo'[n] = respTo[n] /\ part'[n] = part[n],
           \A n \in Nodes : n # x.dst \/ x.type # "TaskInfo" =>
              (appState[n] = "TASKWAIT" => appState'[n] = "TASKWAIT"),
           x.type = "TaskInfo" /\ x.src = a /\ x.part = p => Underway(a, p)',
           ~(x.type = "CompleteTask" /\ x.dst = a /\ x.part = p),
           \A m \in InFlight : x.type = "TaskInfo" /\ m.type = "TaskInfo" /\ m.dst = x.dst
                                  => m.part = x.part /\ m.src = x.src
    PROVE  Underway(a, p)'
<1>1. \A m \in InFlight : m.dst \in Nodes
  BY DEF TypeOK, Message
<1>2. ASSUME NEW m \in InFlight, m.type = "TaskInfo", m.src = a, m.part = p,
             appState[m.dst] = "TASKWAIT"
      PROVE  Underway(a, p)'
  <2>1. CASE x.type = "TaskInfo" /\ m.dst = x.dst
    <3>1. x.src = a /\ x.part = p
      BY <1>2, <2>1
    <3> QED
      BY <2>1, <3>1
  <2>2. CASE ~(x.type = "TaskInfo" /\ m.dst = x.dst)
    <3>1. m # x /\ m \in InFlight'
      BY <1>2, <2>2
    <3>2. appState'[m.dst] = "TASKWAIT"
      BY <1>1, <1>2, <2>2
    <3> QED
      BY <1>2, <3>1, <3>2 DEF Underway
  <2> QED
    BY <2>1, <2>2
<1>3. ASSUME NEW n \in Nodes, tDownload[n], respTo[n] = a, part[n] = p
      PROVE  Underway(a, p)'
  BY <1>3 DEF Underway
<1>4. ASSUME NEW m \in InFlight, m.type = "CompleteTask", m.dst = a, m.part = p
      PROVE  Underway(a, p)'
  <2>1. m # x /\ m \in InFlight'
    BY <1>4
  <2> QED
    BY <1>4, <2>1 DEF Underway
<1> QED
  BY <1>2, <1>3, <1>4 DEF Underway


\* Receptions of anything but a task: who was engaged stays so for the same chunk.
LEMMA EngagedKept ==
    ASSUME UNCHANGED workVars, NEW m \in InFlight, m.src \in Nodes, m.dst \in Nodes,
           \A x \in InFlight' : x.type = "CompleteTask" => x \in InFlight,
           \A x \in InFlight' : x.type = "CompleteTaskAck" =>
              x \in InFlight \/ (m.type = "CompleteTask" /\ x.dst = m.src)
    PROVE  \A n \in Nodes : Engaged(n)' =>
              Engaged(n) /\ part'[n] = part[n] /\ respTo'[n] = respTo[n]
BY DEF Engaged, Answering, workVars

LEMMA ProgressResourceRequest ==
    ASSUME TypeOK, Roles, Timers, Nominal, Progress, NEW m \in InFlight, Started,
           RecvResourceRequest(m)
    PROVE  Progress'
<1>. DEFINE S == {Packet("ResourceInfoFromCN", m.dst, n, 0) : n \in Nodes \ {m.dst}}
<1>1. /\ m.type = "ResourceRequest" /\ m.dst \in Nodes /\ m.src \in Nodes
      /\ appState[m.dst] = "INITIAL"
      /\ net' = Take(m) (+) SetToBag(S)
      /\ appState' = [appState EXCEPT ![m.dst] = "TASKWAIT"]
      /\ UNCHANGED <<chunks, collabs, workVars>>
  BY DEF RecvResourceRequest, Accepts, AcceptedIn, Broadcast, TypeOK, Message, appVars
<1>2. \A x \in S : /\ x.type = "ResourceInfoFromCN" /\ x.src = m.dst /\ x.part = 0
                   /\ x.dst \in Nodes
  BY DEF Packet
<1>. HIDE DEF S
<1>3. BagToSet(SetToBag(S)) = S /\ IsABag(SetToBag(S)) /\ IsABag(net)
  BY InFlightSet, BagOnce DEF Nominal
<1>4. /\ IsABag(net')
      /\ \A x \in InFlight' : x \notin S => x \in InFlight /\ net'[x] <= net[x]
      /\ InFlight \ {m} \subseteq InFlight'
  BY <1>1, <1>3, CopiesAnswered, NoReportAnswered, RecvPktNoReport DEF RecvPkt
<1>5. ~Serving(m.dst)
  BY <1>1 DEF Serving
<1>6. \A x \in Nodes : Serving(x) => Serving(x)'
  BY <1>1 DEF Serving, TypeOK
<1>7. Serving(m.dst)'
  BY <1>1 DEF Serving, TypeOK
<1>8. \A x \in S : net'[x] = 1
  <2>1. \A x \in S : x \notin InFlight
    BY <1>2, <1>5 DEF Progress, Offers
  <2>2. \A x \in S : x \notin BagToSet(Take(m))
    BY <2>1, InFlightTake
  <2> QED
    BY <1>1, <2>2, CopiesSent
<1>9. ASSUME NEW a \in AppNodes, NEW i \in 1 .. Len(collabs[a])
      PROVE  Serving(collabs[a][i])' /\ collabs[a][i] # m.dst
  <2>1. PICK n \in Nodes : n = collabs[a][i]
    BY ConstantsOK DEF TypeOK
  <2>2. Serving(n) /\ Serving(n)'
    BY <1>6, <2>1 DEF Progress, Offers
  <2> QED
    BY <1>1, <1>5, <2>1, <2>2 DEF Serving
<1>10. ASSUME NEW x \in InFlight', x.type = "ResourceInfoFromCN"
       PROVE  /\ net'[x] = 1 /\ x.part = 0 /\ Serving(x.src)'
              /\ x.dst \in AppNodes => \A i \in 1 .. Len(collabs[x.dst]) : collabs[x.dst][i] # x.src
  <2>1. CASE x \in S
    BY <1>2, <1>7, <1>8, <1>9, <2>1
  <2>2. CASE x \notin S
    <3>1. x \in InFlight /\ net'[x] <= net[x]
      BY <1>4, <2>2
    <3>2. net'[x] \in Nat /\ net'[x] > 0
      BY <1>4 DEF IsABag, InFlight, BagToSet
    <3>3. x.src \in Nodes /\ Serving(x.src) /\ net[x] = 1 /\ x.part = 0
      BY <1>10, <3>1 DEF Progress, Offers, TypeOK, Message
    <3>4. Serving(x.src)'
      BY <1>6, <3>3
    <3> QED
      BY <1>10, <3>1, <3>2, <3>3, <3>4 DEF Progress, Offers
  <2> QED
    BY <2>1, <2>2
<1>11. Offers'
  BY <1>1, <1>9, <1>10 DEF Progress, Offers
<1>12. ChunksKept
  BY <1>1 DEF ChunksKept, isChunkDownloaded
<1>13. NoneForgotten'
  <2>1. \A a \in AppNodes : \A p \in asked[a] : Underway(a, p) => Underway(a, p)'
    BY <1>1, <1>4, UnderwayKept DEF TypeOK, workVars
  <2> QED
    BY <1>12, <2>1, RecvKeeps, NoneForgottenKept DEF Progress, RecvPkt
<1>14. OneTaskEach'
  <2>1. \A x \in InFlight' : x.type # "ResourceInfoFromCN" => x \in InFlight
    BY <1>2, <1>4
  <2>2. \A x \in InFlight : x.src \in Nodes /\ x.dst \in Nodes
    BY DEF TypeOK, Message
  <2>3. \A n \in Nodes : Engaged(n)' =>
           Engaged(n) /\ part'[n] = part[n] /\ respTo'[n] = respTo[n]
    BY <1>1, <2>1, EngagedKept
  <2>4. \A x \in InFlight' : x.type \in {"TaskInfo", "CompleteTask", "CompleteTaskAck"} =>
           x \in InFlight /\ x.src \in Nodes /\ x.dst \in Nodes
    BY <2>1, <2>2
  <2> QED
    BY <1>12, <2>3, <2>4, OneTaskEachKept DEF Progress
<1> QED
  BY <1>11, <1>13, <1>14, RecvKeeps DEF Progress, RecvPkt


\* An offer joins the list of the node that gathers collaborators.
LEMMA ProgressResourceInfo ==
    ASSUME TypeOK, Roles, Timers, Nominal, Progress, NEW m \in InFlight, Started,
           RecvResourceInfoFromCN(m)
    PROVE  Progress'
<1>1. /\ m.type = "ResourceInfoFromCN" /\ m.dst \in Nodes /\ m.src \in Nodes
      /\ m \in Message /\ appState[m.dst] = "RESOURCEREQUEST"
      /\ net' = Take(m)
      /\ collabs' = [collabs EXCEPT ![m.dst] = Append(@, m.src)]
      /\ UNCHANGED <<appState, chunks, workVars>>
  BY DEF RecvResourceInfoFromCN, Accepts, AcceptedIn, TypeOK, Message
<1>2. m.dst \in AppNodes
  BY <1>1, DownloaderIsAppNode
<1>3. /\ net[m] = 1 /\ m.part = 0 /\ Serving(m.src)
      /\ \A i \in 1 .. Len(collabs[m.dst]) : collabs[m.dst][i] # m.src
  BY <1>1, <1>2 DEF Progress, Offers
<1>4. /\ IsABag(net') /\ m \notin InFlight'
      /\ \A x \in InFlight' : x \in InFlight /\ net'[x] <= net[x]
      /\ InFlight \ {m} \subseteq InFlight'
  BY <1>1, <1>3, CopiesTaken, NoReportTaken DEF Nominal
<1>5. /\ collabs[m.dst] \in Seq(Nodes)
      /\ collabs'[m.dst] = Append(collabs[m.dst], m.src)
      /\ \A a \in Nodes \ {m.dst} : collabs'[a] = collabs[a]
  BY <1>1 DEF TypeOK
<1>6. /\ Len(collabs'[m.dst]) = Len(collabs[m.dst]) + 1 /\ Len(collabs[m.dst]) \in Nat
      /\ \A i \in 1 .. Len(collabs[m.dst]) : collabs'[m.dst][i] = collabs[m.dst][i]
      /\ collabs'[m.dst][Len(collabs[m.dst]) + 1] = m.src
  BY <1>1, <1>5
<1>7. ASSUME NEW a \in AppNodes
      PROVE  /\ \A i, j \in 1 .. Len(collabs'[a]) : collabs'[a][i] = collabs'[a][j] => i = j
             /\ \A i \in 1 .. Len(collabs'[a]) : Serving(collabs'[a][i])
  <2>1. /\ \A i, j \in 1 .. Len(collabs[a]) : collabs[a][i] = collabs[a][j] => i = j
        /\ \A i \in 1 .. Len(collabs[a]) : Serving(collabs[a][i])
    BY DEF Progress, Offers
  <2>2. CASE a # m.dst
    BY <1>5, <2>1, <2>2, ConstantsOK
  <2>3. CASE a = m.dst
    <3>1. \A i \in 1 .. Len(collabs'[a]) :
             \/ i \in 1 .. Len(collabs[a]) /\ collabs'[a][i] = collabs[a][i]
             \/ i = Len(collabs[a]) + 1 /\ collabs'[a][i] = m.src
      BY <1>6, <2>3
    <3>2. \A i \in 1 .. Len(collabs[a]) : collabs[a][i] # m.src
      BY <1>3, <2>3
    <3> QED
      BY <1>3, <2>1, <3>1, <3>2
  <2> QED
    BY <2>2, <2>3
<1>8. ASSUME NEW x \in InFlight', x.type = "ResourceInfoFromCN"
      PROVE  /\ net'[x] = 1 /\ x.part = 0 /\ Serving(x.src)
             /\ x.dst \in AppNodes => \A i \in 1 .. Len(collabs'[x.dst]) : collabs'[x.dst][i] # x.src
  <2>1. x \in InFlight /\ net'[x] <= net[x] /\ x \in Message /\ x # m
    BY <1>4 DEF TypeOK
  <2>2. net'[x] \in Nat /\ net'[x] > 0
    BY <1>4 DEF IsABag, InFlight, BagToSet
  <2>3. net[x] = 1 /\ x.part = 0 /\ Serving(x.src)
    BY <1>8, <2>1 DEF Progress, Offers
  <2>4. ASSUME x.dst \in AppNodes, NEW i \in 1 .. Len(collabs'[x.dst])
        PROVE  collabs'[x.dst][i] # x.src
    <3>1. \A j \in 1 .. Len(collabs[x.dst]) : collabs[x.dst][j] # x.src
      BY <1>8, <2>1, <2>4 DEF Progress, Offers
    <3>2. CASE x.dst # m.dst
      BY <1>5, <2>4, <3>1, <3>2, ConstantsOK
    <3>3. CASE x.dst = m.dst
      <4>1. x.src # m.src
        BY <1>1, <1>3, <1>8, <2>1, <2>3, <3>3 DEF Message
      <4>2. \/ i \in 1 .. Len(collabs[x.dst]) /\ collabs'[x.dst][i] = collabs[x.dst][i]
            \/ collabs'[x.dst][i] = m.src
        BY <1>6, <2>4, <3>3
      <4> QED
        BY <3>1, <4>1, <4>2
    <3> QED
      BY <3>2, <3>3
  <2> QED
    BY <2>1, <2>2, <2>3, <2>4
<1>9. Offers'
  BY <1>1, <1>7, <1>8 DEF Offers, Serving
<1>10. ChunksKept
  BY <1>1 DEF ChunksKept, isChunkDownloaded
<1>11. NoneForgotten'
  <2>1. \A a \in AppNodes : \A p \in asked[a] : Underway(a, p) => Underway(a, p)'
    BY <1>1, <1>4, UnderwayKept DEF workVars
  <2> QED
    BY <1>10, <2>1, RecvKeeps, NoneForgottenKept DEF Progress, RecvPkt
<1>12. OneTaskEach'
  <2>1. \A x \in InFlight' : x \in InFlight /\ x.src \in Nodes /\ x.dst \in Nodes
    BY <1>4 DEF TypeOK, Message
  <2>2. \A n \in Nodes : Engaged(n)' =>
           Engaged(n) /\ part'[n] = part[n] /\ respTo'[n] = respTo[n]
    BY <1>1, <2>1, EngagedKept
  <2> QED
    BY <1>10, <2>1, <2>2, OneTaskEachKept DEF Progress
<1> QED
  BY <1>9, <1>11, <1>12, RecvKeeps DEF Progress, RecvPkt

\* Receptions that take a packet and answer nothing, the offers aside.
LEMMA ProgressTaken ==
    ASSUME TypeOK, Nominal, Progress, NEW m \in InFlight, RecvPkt(m), net' = Take(m),
           UNCHANGED <<chunks, collabs>>,
           \A n \in Nodes : Serving(n) => Serving(n)'
    PROVE  Offers' /\ Prefix' /\ ChunksKept /\ InFlight \ {m} \subseteq InFlight'
           /\ \A x \in InFlight' : x \in InFlight /\ x.src \in Nodes /\ x.dst \in Nodes
<1>1. /\ IsABag(net')
      /\ \A x \in InFlight' : x \in InFlight /\ net'[x] <= net[x]
      /\ InFlight \ {m} \subseteq InFlight'
  BY CopiesTaken, NoReportTaken DEF Nominal
<1>2. Offers'
  BY <1>1, OffersKept DEF Progress
<1>3. ChunksKept
  BY DEF ChunksKept, isChunkDownloaded
<1> QED
  BY <1>1, <1>2, <1>3, RecvKeeps DEF TypeOK, Message

\* A task, its first copy or its second: the download for it begins.
LEMMA ProgressTask ==
    ASSUME TypeOK, Roles, Timers, Nominal, OneAppNode, Progress, NEW m \in InFlight, Started,
           RecvTaskInfo(m)
    PROVE  Progress'
<1>1. /\ m.type = "TaskInfo" /\ m.dst \in Nodes /\ m.src \in Nodes /\ m \in Message
      /\ appState[m.dst] = "TASKWAIT"
      /\ net' = Take(m)
      /\ appState' = [appState EXCEPT ![m.dst] = "EXECUTINGTASK"]
      /\ respTo' = [respTo EXCEPT ![m.dst] = m.src]
      /\ part' = [part EXCEPT ![m.dst] = m.part]
      /\ tDownload' = [tDownload EXCEPT ![m.dst] = TRUE]
      /\ UNCHANGED <<chunks, collabs>>
  BY DEF RecvTaskInfo, Accepts, AcceptedIn, StartDownloadTask, TypeOK, Message, appVars
<1>2. \A n \in Nodes : Serving(n) => Serving(n)'
  BY <1>1 DEF Serving, TypeOK
<1>3. /\ Offers' /\ Prefix' /\ ChunksKept /\ InFlight \ {m} \subseteq InFlight'
      /\ \A x \in InFlight' : x \in InFlight /\ x.src \in Nodes /\ x.dst \in Nodes
  BY <1>1, <1>2, ProgressTaken DEF RecvPkt
<1>4. /\ part'[m.dst] = m.part /\ respTo'[m.dst] = m.src /\ tDownload'[m.dst]
      /\ \A n \in Nodes \ {m.dst} : /\ part'[n] = part[n] /\ respTo'[n] = respTo[n]
                                    /\ tDownload'[n] = tDownload[n]
                                    /\ appState'[n] = appState[n]
  BY <1>1 DEF TypeOK
\* The other tasks for the same collaborator are for the same chunk.
<1>5. \A x \in InFlight : x.type = "TaskInfo" /\ x.dst = m.dst => x.part = m.part
  BY <1>1 DEF Progress, OneTaskEach
<1>6. \A x \in InFlight : x.type = "TaskInfo" => x.src = m.src
  <2>1. \A x \in InFlight : x.type = "TaskInfo" => x.src \in AppNodes
    BY DownloaderIsAppNode DEF Nominal, TypeOK, Message
  <2> QED
    BY <1>1, <2>1 DEF OneAppNode
<1>7. \A n \in Nodes : Engaged(n) => part'[n] = part[n] /\ respTo'[n] = respTo[n]
  BY <1>1, <1>4 DEF Progress, OneTaskEach
<1>8. NoneForgotten'
  <2>1. ASSUME NEW a \in AppNodes, NEW p \in asked[a], Underway(a, p)
        PROVE  Underway(a, p)'
    <3>1. m.src = a /\ m.part = p => Underway(a, p)'
      BY <1>1, <1>4 DEF Underway
    <3>2. \A n \in Nodes : tDownload[n] =>
             tDownload'[n] /\ respTo'[n] = respTo[n] /\ part'[n] = part[n]
      BY <1>4, <1>7 DEF Engaged
    <3>3. \A n \in Nodes : n # m.dst => (appState[n] = "TASKWAIT" => appState'[n] = "TASKWAIT")
      BY <1>4
    <3> QED
      BY <1>1, <1>3, <1>5, <1>6, <2>1, <3>1, <3>2, <3>3, UnderwayKept
  <2> QED
    BY <1>3, <2>1, RecvKeeps, NoneForgottenKept DEF Progress, RecvPkt
<1>9. OneTaskEach'
  <2>1. \A n \in Nodes \ {m.dst} : Engaged(n)' => Engaged(n)
    BY <1>3, <1>4 DEF Engaged, Answering
  <2>2. ASSUME NEW x \in InFlight', x.type = "TaskInfo"
        PROVE  /\ \A o \in InFlight' : o.type = "TaskInfo" /\ o.dst = x.dst => o.part = x.part
               /\ Engaged(x.dst)' => part'[x.dst] = x.part /\ respTo'[x.dst] = x.src
    <3>1. x \in InFlight /\ x.dst \in Nodes
      BY <1>3
    <3>2. \A o \in InFlight' : o.type = "TaskInfo" /\ o.dst = x.dst => o.part = x.part
      BY <1>3, <2>2, <3>1 DEF Progress, OneTaskEach
    <3>3. CASE x.dst = m.dst
      BY <1>4, <1>5, <1>6, <2>2, <3>1, <3>2, <3>3
    <3>4. CASE x.dst # m.dst
      BY <1>4, <2>1, <2>2, <3>1, <3>2, <3>4 DEF Progress, OneTaskEach
    <3> QED
      BY <3>3, <3>4
  <2>3. ASSUME NEW x \in InFlight', x.type = "CompleteTask"
        PROVE  x.part = part'[x.src] /\ x.dst = respTo'[x.src]
    <3>1. x \in InFlight /\ x.src \in Nodes /\ Engaged(x.src)
      BY <1>3, <2>3 DEF Engaged, Answering
    <3> QED
      BY <1>7, <2>3, <3>1 DEF Progress, OneTaskEach
  <2>4. ASSUME NEW x \in InFlight', x.type = "CompleteTaskAck"
        PROVE  isChunkDownloaded(respTo[x.dst], part[x.dst])'
    <3>1. x \in InFlight /\ x.dst \in Nodes /\ Engaged(x.dst)
      BY <1>3, <2>4 DEF Engaged, Answering
    <3>2. isChunkDownloaded(respTo[x.dst], part[x.dst])
      BY <2>4, <3>1 DEF Progress, OneTaskEach
    <3> QED
      BY <1>1, <1>7, <3>1, <3>2 DEF isChunkDownloaded
  <2> QED
    BY <2>2, <2>3, <2>4 DEF OneTaskEach
<1> QED
  BY <1>3, <1>8, <1>9 DEF Progress


\* A report: the chunk is recorded, and the ack that goes back says so.
LEMMA ProgressCompleteTask ==
    ASSUME TypeOK, Roles, Timers, Fresh, Nominal, OneAppNode, Progress, NEW m \in InFlight,
           Started, RecvCompleteTask(m)
    PROVE  Progress'
<1>. DEFINE r == Packet("CompleteTaskAck", m.dst, m.src, 0)
<1>1. /\ m.type = "CompleteTask" /\ m.dst \in Nodes /\ m.src \in Nodes /\ m.part \in Cells
      /\ appState[m.dst] = "TASKRECEPTION"
      /\ net' = Take(m) (+) One(r)
      /\ chunks' = [chunks EXCEPT ![m.dst] = Recorded(m.dst, m.part)]
      /\ UNCHANGED <<appState, collabs, workVars>>
  BY DEF RecvCompleteTask, Accepts, AcceptedIn, TypeOK, Message, appVars
<1>2. /\ r.type = "CompleteTaskAck" /\ r.dst = m.src
      /\ IsABag(One(r)) /\ BagToSet(One(r)) = {r}
  BY BagOnce, InFlightSet DEF Packet, One
<1>. HIDE DEF r
<1>3. /\ IsABag(net')
      /\ \A x \in InFlight' : x # r => x \in InFlight /\ net'[x] <= net[x]
      /\ InFlight \ {m} \subseteq InFlight'
  BY <1>1, <1>2, CopiesAnswered, RecvPktNoReport DEF RecvPkt, Nominal
<1>4. m.dst \in AppNodes
  BY <1>1, DownloaderIsAppNode
<1>5. m.part \in Parts
  <2>1. tResRequest[m.dst] = "round"
    BY <1>1 DEF Timers
  <2>2. m.part \in asked[m.dst]
    BY <1>1, <2>1 DEF Fresh, FreshFor
  <2>3. asked[m.dst] \subseteq Parts
    BY <1>4, ConstantsOK DEF Progress, Prefix, Parts
  <2> QED
    BY <2>2, <2>3
<1>6. ChunksKept
  BY <1>1, ConstantsOK DEF ChunksKept, isChunkDownloaded, Recorded, TypeOK
<1>7. isChunkDownloaded(m.dst, m.part)'
  <2>1. m.part \in Table
    BY <1>5, ConstantsOK DEF Parts, Table, Foreign
  <2> QED
    BY <1>1, <2>1 DEF isChunkDownloaded, Recorded, TypeOK
<1>8. Offers'
  <2>1. \A n \in Nodes : Serving(n) => Serving(n)'
    BY <1>1 DEF Serving
  <2>2. \A x \in InFlight' : x.type = "ResourceInfoFromCN" => x \in InFlight /\ net'[x] <= net[x]
    BY <1>2, <1>3
  <2> QED
    BY <1>1, <1>3, <2>1, <2>2, OffersKept DEF Progress
<1>9. NoneForgotten'
  <2>1. ASSUME NEW a \in AppNodes, NEW p \in asked[a], Underway(a, p)
        PROVE  isChunkDownloaded(a, p)' \/ Underway(a, p)'
    <3>1. CASE m.dst = a /\ m.part = p
      BY <1>7, <3>1
    <3>2. CASE ~(m.dst = a /\ m.part = p)
      BY <1>1, <1>3, <2>1, <3>2, UnderwayKept DEF workVars
    <3> QED
      BY <3>1, <3>2
  <2> QED
    BY <1>6, <2>1, RecvKeeps, NoneForgottenKept DEF Progress, RecvPkt
<1>10. OneTaskEach'
  <2>1. \A x \in InFlight' : (x \in InFlight /\ x.src \in Nodes /\ x.dst \in Nodes) \/ x = r
    BY <1>3 DEF TypeOK, Message
  <2>2. \A n \in Nodes : Engaged(n)' =>
           Engaged(n) /\ part'[n] = part[n] /\ respTo'[n] = respTo[n]
    BY <1>1, <1>2, <2>1, EngagedKept
  <2>3. m.dst = respTo[m.src] /\ m.part = part[m.src]
    BY <1>1 DEF Progress, OneTaskEach
  <2>4. isChunkDownloaded(respTo[m.src], part[m.src])'
    BY <1>1, <1>7, <2>3 DEF isChunkDownloaded, workVars
  <2>5. /\ \A x \in InFlight' : x.type = "TaskInfo" => x \in InFlight
        /\ \A x \in InFlight' : x.type = "CompleteTask" => x \in InFlight /\ x.src \in Nodes
        /\ \A x \in InFlight' : x.type = "CompleteTaskAck" =>
              x.dst \in Nodes /\
              (x \in InFlight \/ isChunkDownloaded(respTo[x.dst], part[x.dst])')
    <3>1. \A x \in InFlight' : x.type = "CompleteTaskAck" =>
              x.dst \in Nodes /\ (x \in InFlight \/ x.dst = m.src)
      BY <1>1, <1>2, <2>1
    <3> QED
      BY <1>2, <2>1, <2>4, <3>1
  <2> QED
    BY <1>6, <2>2, <2>5, OneTaskEachKept DEF Progress
<1> QED
  BY <1>8, <1>9, <1>10, RecvKeeps DEF Progress, RecvPkt

\* An ack, or a packet that no state lets in: a collaborator that waits for a task
\* goes on waiting, and would have taken it.
LEMMA ProgressAckOrIgnored ==
    ASSUME TypeOK, Roles, Timers, Nominal, Progress, NEW m \in InFlight, Started,
           RecvCompleteTaskAck(m) \/ RecvIgnored(m)
    PROVE  Progress'
<1>1. /\ net' = Take(m) /\ m.dst \in Nodes /\ m.src \in Nodes /\ m \in Message
      /\ UNCHANGED <<chunks, collabs, workVars>>
      /\ appState' = appState \/ appState' = [appState EXCEPT ![m.dst] = "TASKWAIT"]
  BY DEF RecvCompleteTaskAck, RecvIgnored, TypeOK, Message, appVars
<1>2. \A n \in Nodes : /\ Serving(n) => Serving(n)'
                       /\ appState[n] = "TASKWAIT" => appState'[n] = "TASKWAIT"
  BY <1>1 DEF Serving, TypeOK
<1>3. /\ Offers' /\ Prefix' /\ ChunksKept /\ InFlight \ {m} \subseteq InFlight'
      /\ \A x \in InFlight' : x \in InFlight /\ x.src \in Nodes /\ x.dst \in Nodes
  BY <1>1, <1>2, ProgressTaken DEF RecvPkt
<1>4. m.type # "CompleteTask"
  BY DEF RecvCompleteTaskAck, RecvIgnored, Accepts, AcceptedIn, Nominal
<1>5. m.type = "TaskInfo" => appState[m.dst] # "TASKWAIT"
  BY DEF RecvCompleteTaskAck, RecvIgnored, Accepts, AcceptedIn
<1>6. NoneForgotten'
  <2>1. ASSUME NEW a \in AppNodes, NEW p \in asked[a], Underway(a, p)
        PROVE  Underway(a, p)'
    <3>1. \A x \in InFlight : x.type = "TaskInfo" /\ appState[x.dst] = "TASKWAIT" =>
             x \in InFlight' /\ appState'[x.dst] = "TASKWAIT"
      BY <1>2, <1>3, <1>5 DEF TypeOK, Message
    <3>2. \A x \in InFlight : x.type = "CompleteTask" => x \in InFlight'
      BY <1>3, <1>4
    <3> QED
      BY <1>1, <2>1, <3>1, <3>2 DEF Underway, workVars
  <2> QED
    BY <1>3, <2>1, RecvKeeps, NoneForgottenKept DEF Progress, RecvPkt
<1>7. OneTaskEach'
  <2>1. \A n \in Nodes : Engaged(n)' =>
           Engaged(n) /\ part'[n] = part[n] /\ respTo'[n] = respTo[n]
    BY <1>1, <1>3, EngagedKept
  <2> QED
    BY <1>3, <2>1, OneTaskEachKept DEF Progress
<1> QED
  BY <1>3, <1>6, <1>7 DEF Progress

-----------------------------------------------------------------------------
LEMMA ProgressStep ==
    ASSUME Prompt, ~Lossy, OneAppNode,
           TypeOK, Roles, Timers, Fresh, Nominal, Progress, [Next]_vars
    PROVE  Progress'
<1>1. ASSUME NEW n \in Nodes, TimeoutDownloadStart(n) PROVE Progress'
  <2>1. n \in AppNodes /\ Quiet /\ StartDownload(n) /\ lastChunk'[n] = 0
    BY <1>1, StartsBeginQuiet DEF TimeoutDownloadStart, Roles, Progress
  <2> QED
    BY <2>1, ProgressStart
<1>2. ASSUME NEW n \in Nodes, TimeoutResourceRequest(n) PROVE Progress'
  <2>1. n \in AppNodes /\ Quiet
    BY <1>2, RoundsBeginQuiet DEF TimeoutResourceRequest, DistributeTasks, RestartDownload, Roles
  <2>2. CASE DistributeTasks(n)
    BY <2>1, <2>2, ProgressDistribute DEF Fresh
  <2>3. CASE RestartDownload(n)
    <3>1. lastChunk'[n] = 0 /\ StartDownload(n)
      BY <1>2, <2>3 DEF RestartDownload, TypeOK
    <3> QED
      BY <2>1, <3>1, ProgressStart
  <2> QED
    BY <1>2, <2>2, <2>3 DEF TimeoutResourceRequest
<1>3. ASSUME NEW n \in Nodes, TimeoutDownloadSimulatorTimer(n) PROVE Progress'
  BY <1>3, ProgressReport
<1>4. ASSUME NEW n \in Nodes, TimeoutCompleteTaskAck(n) PROVE Progress'
  BY <1>4, NothingResent DEF TimeoutCompleteTaskAck, ResendReport, GiveUp
<1>5. ASSUME NEW m \in InFlight, RecvPkt(m) \/ Lose(m) PROVE Progress'
  BY <1>5, ProgressResourceRequest, ProgressResourceInfo, ProgressTask, ProgressCompleteTask,
     ProgressAckOrIgnored DEF RecvPkt, Lose
<1>6. CASE UNCHANGED vars
  BY <1>6 DEF vars, appVars, workVars, Progress, Offers, Prefix, NoneForgotten, OneTaskEach,
     Underway, Engaged, Answering, Serving, isChunkDownloaded, InFlight
<1> QED
  BY <1>1, <1>2, <1>3, <1>4, <1>5, <1>6 DEF Next

THEOREM ProgressInvariant ==
    ASSUME Prompt, ~Lossy, ~LateDelivery, OneAppNode
    PROVE  Spec => []Progress
<1>1. Init => Progress
  <2>. SUFFICES ASSUME Init PROVE Progress
    OBVIOUS
  <2>1. InFlight = {}
    BY InFlightSet DEF Init, EmptyBag, InFlight
  <2>2. \A a \in AppNodes : collabs[a] = <<>> /\ asked[a] = {} /\ lastChunk[a] = 0
    BY ConstantsOK DEF Init
  <2>3. 0 \in 0 .. Chunks /\ 0 .. 0 - 1 = {}
    BY ConstantsOK
  <2>4. Prefix
    <3>1. \A a \in AppNodes : lastChunk[a] \in 0 .. Chunks /\ asked[a] = 0 .. lastChunk[a] - 1
      BY <2>2, <2>3
    <3> QED
      BY <2>1, <2>2, <3>1 DEF Prefix
  <2>5. Offers
    BY <2>1, <2>2 DEF Offers
  <2> QED
    BY <2>1, <2>2, <2>4, <2>5 DEF Progress, NoneForgotten, OneTaskEach
<1>2. TypeOK /\ Roles /\ Timers /\ Fresh /\ Nominal /\ Progress /\ [Next]_vars => Progress'
  BY ProgressStep
<1> QED
  BY <1>1, <1>2, TypeCorrect, RolesInvariant, TimersInvariant, FreshInvariant,
     NominalInvariant, PTL DEF Spec

\* With one download, nothing lost and nothing slower than a retry period, only
\* chunks of the file are asked for: the scan never runs past the end of the table,
\* whatever the bits there are.
THEOREM RequestsStayInRange ==
    ASSUME Prompt, ~Lossy, ~LateDelivery, OneAppNode
    PROVE  Spec => []RequestsInRange
<1>. DEFINE Idle == \A n \in Nodes \ AppNodes : asked[n] = {}
<1>1. Init => Idle
  BY DEF Init
<1>2. TypeOK /\ Roles /\ Idle /\ [Next]_vars => Idle'
  <2>. SUFFICES ASSUME TypeOK, Roles, Idle, [Next]_vars PROVE Idle'
    OBVIOUS
  <2>1. ASSUME NEW n \in Nodes, StartDownload(n) PROVE Idle'
    BY <2>1 DEF StartDownload, TypeOK
  <2>2. ASSUME NEW n \in Nodes, DistributeTasks(n) PROVE Idle'
    <3>1. n \in AppNodes
      BY <2>2 DEF DistributeTasks, Roles
    <3> QED
      BY <2>2, <3>1 DEF DistributeTasks, TypeOK
  <2>3. CASE UNCHANGED asked
    BY <2>3
  <2> QED
    BY <2>1, <2>2, <2>3
       DEF Next, TimeoutDownloadStart, TimeoutResourceRequest, RestartDownload,
           TimeoutDownloadSimulatorTimer, TimeoutCompleteTaskAck, ResendReport, GiveUp,
           RecvPkt, Lose, RecvResourceRequest, RecvResourceInfoFromCN, RecvTaskInfo,
           RecvCompleteTask, RecvCompleteTaskAck, RecvIgnored, appVars, vars
<1>3. Progress /\ Idle => RequestsInRange
  <2>. SUFFICES ASSUME Progress, Idle, NEW a \in Nodes PROVE asked[a] \subseteq Parts
    BY DEF RequestsInRange
  <2>1. CASE a \in AppNodes
    BY <2>1, ConstantsOK DEF Progress, Prefix, Parts
  <2>2. CASE a \notin AppNodes
    BY <2>2
  <2> QED
    BY <2>1, <2>2
<1> QED
  BY <1>1, <1>2, <1>3, TypeCorrect, RolesInvariant, ProgressInvariant, PTL DEF Spec

\* Then an ack, which carries no chunk number, also stops the retries of the right
\* report: the chunk its collaborator reported is in the table.
THEOREM AcksAreOfRecordedChunks ==
    ASSUME Prompt, ~Lossy, ~LateDelivery, OneAppNode
    PROVE  Spec => AckedIsRecorded
<1>. DEFINE Acked == \A n \in Nodes : tAck[n] /\ ~tAck'[n] /\ appState'[n] = "TASKWAIT"
                                         => isChunkDownloaded(respTo[n], part[n])
<1>1. TypeOK /\ Progress /\ Nominal /\ [Next]_vars => [Acked]_vars
  <2>. SUFFICES ASSUME TypeOK, Progress, Nominal, Next PROVE Acked
    OBVIOUS
  <2>1. ASSUME NEW m \in InFlight, RecvCompleteTaskAck(m) PROVE Acked
    <3>1. isChunkDownloaded(respTo[m.dst], part[m.dst])
      BY <2>1 DEF RecvCompleteTaskAck, Progress, OneTaskEach
    <3> QED
      BY <2>1, <3>1 DEF RecvCompleteTaskAck, TypeOK
  <2>2. ASSUME NEW n \in Nodes, SendReport(n) PROVE Acked
    BY <2>2 DEF SendReport, TypeOK
  <2>3. ASSUME NEW n \in Nodes, TimeoutCompleteTaskAck(n) PROVE FALSE
    BY <2>3, NothingResent DEF TimeoutCompleteTaskAck, ResendReport, GiveUp
  <2>4. CASE UNCHANGED tAck
    BY <2>4
  <2> QED
    BY <2>1, <2>2, <2>3, <2>4
       DEF Next, TimeoutDownloadStart, StartDownload, TimeoutResourceRequest, DistributeTasks,
           RestartDownload, TimeoutDownloadSimulatorTimer, RecvPkt, Lose, RecvResourceRequest,
           RecvResourceInfoFromCN, RecvTaskInfo, RecvCompleteTask, RecvIgnored
<1> QED
  BY <1>1, TypeCorrect, ProgressInvariant, NominalInvariant, PTL DEF Spec, AckedIsRecorded
=============================================================================
