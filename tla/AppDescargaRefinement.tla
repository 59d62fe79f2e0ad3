----------------------- MODULE AppDescargaRefinement -----------------------
(* The proof that AppDescarga implements CollabDownload.                    *)
EXTENDS AppDescargaProofs

Inv == TypeOK /\ Roles /\ Timers /\ Fresh

\* The chunks a node counts, as CollabDownload sees them.
Have(a) == {c \in Parts : chunks[a][c]}

LEMMA PartsInTable == Parts \subseteq Table /\ Parts \subseteq Cells
BY ConstantsOK DEF Parts, Table, Cells, Foreign

\* A complete file.
LEMMA CompleteHave ==
    ASSUME NEW a
    PROVE  isDownloadComplete(a) <=> Have(a) = Parts
BY DEF isDownloadComplete, Have

\* A callback that leaves the downloads alone is a stuttering step.
LEMMA DownloadStutters ==
    ASSUME UNCHANGED <<chunks, tDownloadStart, tResRequest, asked, latest>>
    PROVE  UNCHANGED Download!vars
BY DEF Download!vars, Phase

\* A fresh download begins; one in its rounds does so only with all its chunks.
LEMMA StartBegins ==
    ASSUME Inv, NEW a \in AppNodes, StartDownload(a),
           Phase(a) = "rounds" => Have(a) = Parts
    PROVE  Download!Begin(a)
<1>1. AppNodes \subseteq Nodes
  BY ConstantsOK
<1>2. /\ tDownloadStart' = [tDownloadStart EXCEPT ![a] = FALSE]
      /\ tResRequest' = [tResRequest EXCEPT ![a] = "window"]
      /\ asked' = [asked EXCEPT ![a] = {}]
      /\ latest' = [latest EXCEPT ![a] = {}]
      /\ chunks' = [chunks EXCEPT ![a] = ResetTable(a)]
  BY DEF StartDownload
<1>3. [x \in AppNodes |-> Phase(x)]' = [[x \in AppNodes |-> Phase(x)] EXCEPT ![a] = "gathering"]
  BY <1>1, <1>2 DEF Phase, Inv, TypeOK
<1>4. Have(a)' = {}
  BY <1>1, <1>2, PartsInTable DEF Have, ResetTable, Inv, TypeOK
<1>5. \A x \in AppNodes \ {a} : Have(x)' = Have(x)
  BY <1>1, <1>2 DEF Have, Inv, TypeOK
<1>6. [x \in AppNodes |-> Have(x)]' = [[x \in AppNodes |-> Have(x)] EXCEPT ![a] = {}]
  BY <1>4, <1>5
<1>7. /\ [x \in AppNodes |-> asked[x]]' = [[x \in AppNodes |-> asked[x]] EXCEPT ![a] = {}]
      /\ [x \in AppNodes |-> latest[x]]' = [[x \in AppNodes |-> latest[x]] EXCEPT ![a] = {}]
  BY <1>1, <1>2 DEF Inv, TypeOK
<1> QED
  BY <1>3, <1>6, <1>7 DEF Download!Begin, Have

\* A round asks for chunks that are not there.
LEMMA DistributeAsks ==
    ASSUME Inv, NEW a \in AppNodes, DistributeTasks(a)
    PROVE  Download!Ask(a)
<1>. DEFINE k == collabNodes(a)
<1>1. a \in Nodes
  BY ConstantsOK
<1>2. k \in Nat /\ k >= 1
  BY <1>1, CollabNodesBound DEF Inv, TypeOK, DistributeTasks
<1>3. PICK f \in [1 .. k -> Cells] :
          /\ IsAssignment(a, k, f)
          /\ asked' = [asked EXCEPT ![a] = @ \cup {f[i] : i \in 1 .. k}]
          /\ latest' = [latest EXCEPT ![a] = {f[i] : i \in 1 .. k}]
  BY DEF DistributeTasks
<1>. HIDE DEF k
<1>. DEFINE S == {f[i] : i \in 1 .. k}
<1>4. \A i \in 1 .. k : f[i] \notin Have(a)
  BY <1>3, PartsInTable DEF IsAssignment, ScanEnds, isChunkDownloaded, Have
<1>5. S \in SUBSET (Cells \ Have(a)) /\ S # {}
  <2>1. f[1] \in S
    BY <1>2
  <2> QED
    BY <1>3, <1>4, <2>1
<1>6. /\ tResRequest[a] # "off" /\ ~isDownloadComplete(a)
      /\ tResRequest' = [tResRequest EXCEPT ![a] = "round"]
      /\ UNCHANGED <<chunks, tDownloadStart>>
  BY DEF DistributeTasks, RearmRound
<1>7. ~tDownloadStart[a]
  BY <1>1, <1>6 DEF Inv, Timers
<1>8. /\ Phase(a) \in {"gathering", "rounds"}
      /\ [x \in AppNodes |-> Phase(x)]' = [[x \in AppNodes |-> Phase(x)] EXCEPT ![a] = "rounds"]
  BY <1>1, <1>6, <1>7, ConstantsOK DEF Phase, Inv, TypeOK
<1>9. Have(a) # Parts
  BY <1>6, CompleteHave
<1>10. /\ [x \in AppNodes |-> asked[x]]' = [[x \in AppNodes |-> asked[x]] EXCEPT ![a] = @ \cup S]
       /\ [x \in AppNodes |-> latest[x]]' = [[x \in AppNodes |-> latest[x]] EXCEPT ![a] = S]
  BY <1>1, <1>3, ConstantsOK DEF Inv, TypeOK
<1>11. [x \in AppNodes |-> Have(x)]' = [x \in AppNodes |-> Have(x)]
  BY <1>6 DEF Have
<1>. HIDE DEF S
<1> QED
  BY <1>5, <1>8, <1>9, <1>10, <1>11 DEF Download!Ask, Have

\* A report adds a chunk that was asked for, or one that is there already.
LEMMA ReportGets ==
    ASSUME Inv, NEW m \in InFlight, RecvCompleteTask(m)
    PROVE  (\E a \in AppNodes : Download!Get(a)) \/ UNCHANGED Download!vars
<1>. DEFINE a == m.dst
<1>1. m.dst \in Nodes /\ m.part \in Cells /\ m.type = "CompleteTask"
  BY DEF Inv, TypeOK, Message, RecvCompleteTask
<1>2. tResRequest[a] = "round"
  BY <1>1 DEF RecvCompleteTask, Accepts, AcceptedIn, Inv, Timers
<1>3. a \in AppNodes /\ ~tDownloadStart[a]
  BY <1>1, <1>2 DEF Inv, Roles, Timers
<1>4. m.part \in asked[a]
  BY <1>1, <1>2 DEF Inv, Fresh, FreshFor
<1>5. /\ chunks' = [chunks EXCEPT ![a] = Recorded(a, m.part)]
      /\ UNCHANGED <<tDownloadStart, tResRequest, asked, latest>>
  BY DEF RecvCompleteTask, appVars
<1>6. Have(a)' = Have(a) \cup ({m.part} \cap Parts)
  BY <1>1, <1>5, PartsInTable DEF Have, Recorded, Inv, TypeOK
<1>7. \A x \in AppNodes \ {a} : Have(x)' = Have(x)
  BY <1>1, <1>5, ConstantsOK DEF Have, Inv, TypeOK
<1>8. UNCHANGED <<[x \in AppNodes |-> Phase(x)], [x \in AppNodes |-> asked[x]],
                  [x \in AppNodes |-> latest[x]]>>
  BY <1>5 DEF Phase
<1>9. CASE m.part \in Parts \ Have(a)
  <2>1. [x \in AppNodes |-> Have(x)]'
          = [[x \in AppNodes |-> Have(x)] EXCEPT ![a] = @ \cup {m.part}]
    BY <1>3, <1>6, <1>7, <1>9
  <2>2. Phase(a) = "rounds"
    BY <1>2, <1>3 DEF Phase
  <2>3. m.part \in (asked[a] \cap Parts) \ Have(a)
    BY <1>4, <1>9
  <2>4. Download!Get(a)
    BY <1>3, <1>8, <2>1, <2>2, <2>3 DEF Download!Get, Have
  <2> QED
    BY <1>3, <2>4
<1>10. CASE m.part \notin Parts \ Have(a)
  <2>1. [x \in AppNodes |-> Have(x)]' = [x \in AppNodes |-> Have(x)]
    BY <1>6, <1>7, <1>10
  <2> QED
    BY <1>8, <2>1 DEF Download!vars, Have
<1> QED
  BY <1>9, <1>10

\* When no packet outlives the 10 s window, every behaviour of the application
\* is one of CollabDownload for each of its app nodes, whatever is lost,
\* repeated or reordered.
THEOREM DownloadsImplement ==
    ASSUME ~LateDelivery
    PROVE  Spec => Implements
<1>1. Init => Download!Init
  <2>. SUFFICES ASSUME Init PROVE Download!Init
    OBVIOUS
  <2>1. AppNodes \subseteq Nodes
    BY ConstantsOK
  <2>2. \A a \in AppNodes : Phase(a) = "waiting" /\ asked[a] = {} /\ latest[a] = {}
    BY <2>1 DEF Init, Phase
  <2>3. \A a \in AppNodes : {c \in Parts : chunks[a][c]} = {}
    BY <2>1, PartsInTable DEF Init
  <2> QED
    BY <2>2, <2>3 DEF Download!Init
<1>2. Inv /\ [Next]_vars => [Download!Next]_(Download!vars)
  <2>. SUFFICES ASSUME Inv, [Next]_vars PROVE Download!Next \/ UNCHANGED Download!vars
    OBVIOUS
  <2>1. ASSUME NEW n \in Nodes, TimeoutDownloadStart(n) PROVE Download!Next
    <3>1. n \in AppNodes /\ Phase(n) = "waiting" /\ StartDownload(n)
      BY <2>1 DEF TimeoutDownloadStart, Inv, Roles, Phase
    <3> QED
      BY <3>1, StartBegins DEF Download!Next
  <2>2. ASSUME NEW n \in Nodes, RestartDownload(n) PROVE Download!Next
    <3>1. /\ StartDownload(n) /\ tResRequest[n] # "off"
          /\ collabNodes(n) = 0 \/ isDownloadComplete(n)
      BY <2>2 DEF RestartDownload
    <3>2. n \in AppNodes
      BY <3>1 DEF Inv, Roles
    <3>3. Phase(n) = "rounds" => tResRequest[n] = "round"
      BY <3>1 DEF Phase, Inv, TypeOK
    <3>4. tResRequest[n] = "round" => collabNodes(n) > 0
      BY DEF Inv, Timers
    <3>5. Phase(n) = "rounds" => Have(n) = Parts
      BY <3>1, <3>3, <3>4, CompleteHave
    <3> QED
      BY <3>1, <3>2, <3>5, StartBegins DEF Download!Next
  <2>3. ASSUME NEW n \in Nodes, DistributeTasks(n) PROVE Download!Next
    <3>1. n \in AppNodes
      BY <2>3 DEF DistributeTasks, Inv, Roles
    <3> QED
      BY <2>3, <3>1, DistributeAsks DEF Download!Next
  <2>4. ASSUME NEW m \in InFlight, RecvCompleteTask(m)
        PROVE  Download!Next \/ UNCHANGED Download!vars
    BY <2>4, ReportGets DEF Download!Next
  <2>5. CASE UNCHANGED <<chunks, tDownloadStart, tResRequest, asked, latest>>
    BY <2>5, DownloadStutters
  <2>6. ASSUME NEW m \in InFlight, RecvPkt(m) \/ Lose(m), ~RecvCompleteTask(m)
        PROVE  UNCHANGED <<chunks, tDownloadStart, tResRequest, asked, latest>>
    BY <2>6 DEF RecvPkt, Lose, RecvResourceRequest, RecvResourceInfoFromCN, RecvTaskInfo,
                RecvCompleteTaskAck, RecvIgnored, appVars
  <2>7. ASSUME NEW n \in Nodes, TimeoutDownloadSimulatorTimer(n) \/ TimeoutCompleteTaskAck(n)
        PROVE  UNCHANGED <<chunks, tDownloadStart, tResRequest, asked, latest>>
    BY <2>7 DEF TimeoutDownloadSimulatorTimer, TimeoutCompleteTaskAck, ResendReport, GiveUp,
                appVars
  <2>8. CASE UNCHANGED vars
    BY <2>8, DownloadStutters DEF vars, appVars
  <2> QED
    BY <2>1, <2>2, <2>3, <2>4, <2>5, <2>6, <2>7, <2>8 DEF Next, TimeoutResourceRequest
<1> QED
  BY <1>1, <1>2, TypeCorrect, RolesInvariant, TimersInvariant, FreshInvariant, PTL
     DEF Spec, Inv, Implements, Download!Spec
=============================================================================
