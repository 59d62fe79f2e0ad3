---------------------------- MODULE AppDescarga ----------------------------
(***************************************************************************)
(* The collaborative download application of src/src/app-descarga.  An app *)
(* node cuts a file into chunks, finds collaborators by a broadcast        *)
(* ResourceRequest, hands every collaborator one chunk per round           *)
(* (TaskInfo), and records a chunk when its CompleteTask comes back.  A    *)
(* collaborator reports a chunk when its simulated download ends, and      *)
(* resends the report at most three times while no CompleteTaskAck comes.  *)
(*                                                                         *)
(* One action per socket or timer callback; every callback of the          *)
(* simulator runs to its end before the next one starts.  A timer is the   *)
(* fact that it is running.  Messages are a bag, delivered in any order,   *)
(* and lost when Lossy.                                                    *)
(*                                                                         *)
(* A definition Mut_X is a faulty version of the one below it, for checking *)
(* that the properties notice the fault; nothing else refers to it.         *)
(***************************************************************************)
EXTENDS Integers, Sequences, FiniteSets, Bags

CONSTANTS
    Nodes,         \* the vehicles that run the application
    AppNodes,      \* those with nodeId % 10 == 0, which start a download
    Chunks,        \* DOWNLOAD_CHUNKS
    Slack,         \* bits the chunk table's allocation has past DOWNLOAD_CHUNKS
    Percent,       \* the attribute PercentageCollabs
    Lossy,         \* TRUE: the radio may lose a packet
    Prompt,        \* TRUE: packets and downloads take less than any retry period
    LateDelivery,  \* TRUE: a packet may outlive the 10 s resource window
    MaxInFlight    \* bound: a periodic timer fires with at most so many packets in flight

ASSUME ConstantsOK ==
    /\ AppNodes \subseteq Nodes
    /\ Chunks \in Nat \ {0}
    /\ Slack \in Nat
    /\ Percent \in 0 .. 100
    /\ {Lossy, Prompt, LateDelivery} \subseteq BOOLEAN
    /\ MaxInFlight \in Nat

VARIABLES
    appState,        \* AppState of each node
    chunks,          \* myChunks: the bits of the table's allocation
    collabs,         \* myCollabs, in order of arrival
    lastChunk,       \* lastChunkRequested
    countSend,       \* countSendCompleteTask
    part,            \* downloadPartId
    respTo,          \* responseIp
    tDownloadStart,  \* T_DownloadStart is running
    tResRequest,     \* T_ResRequest: off, armed for 10 s (window) or 0.5 s (round)
    tDownload,       \* T_DownloadSimulationTimer is running
    tAck,            \* T_CompleteTaskAck is running
    net,             \* the bag of packets in flight
    asked,           \* history: the chunks the node asked for in this download
    latest           \* history: those it asked for in its latest round

appVars  == <<collabs, lastChunk, tDownloadStart, tResRequest, asked, latest>>
workVars == <<part, respTo, tDownload>>
vars == <<appState, chunks, countSend, tAck, net, appVars, workVars>>

-----------------------------------------------------------------------------
(* The chunk table.  vector<bool>::reserve sizes the allocation, not the    *)
(* vector, so indices past Chunks reach first the slack of the last word,   *)
(* then foreign memory.  One index, Foreign, stands for all of the latter:  *)
(* the scan ends there at the latest, and nothing written there is tracked. *)

Foreign == Chunks + Slack
Cells   == 0 .. Foreign
Table   == 0 .. Foreign - 1
Parts   == 0 .. Chunks - 1

isChunkDownloaded(a, c) == c \in Table /\ chunks[a][c]

Mut_AllButLast(a) == \A c \in Parts \ {Chunks - 1} : chunks[a][c]
isDownloadComplete(a) == \A c \in Parts : chunks[a][c]

\* StateMachine resets the chunks, and only them.
ResetTable(a) == [c \in Table |-> c \notin Parts /\ chunks[a][c]]

Mut_NotRecorded(a, p) == chunks[a]
Recorded(a, p) == [c \in Table |-> c = p \/ chunks[a][c]]

-----------------------------------------------------------------------------
MsgTypes == {"ResourceRequest", "ResourceInfoFromCN", "TaskInfo",
             "CompleteTask", "CompleteTaskAck"}

Message == [type : MsgTypes, src : Nodes, dst : Nodes, part : Cells]

Packet(type, src, dst, p) == [type |-> type, src |-> src, dst |-> dst, part |-> p]

One(m) == SetToBag({m})
Broadcast(type, src) == SetToBag({Packet(type, src, n, 0) : n \in Nodes \ {src}})

InFlight == BagToSet(net)

States == {"INITIAL", "RESOURCEREQUEST", "TASKRECEPTION", "TASKWAIT", "EXECUTINGTASK"}

TypeOK ==
    /\ appState \in [Nodes -> States]
    /\ chunks \in [Nodes -> [Table -> BOOLEAN]]
    /\ collabs \in [Nodes -> Seq(Nodes)]
    /\ lastChunk \in [Nodes -> 0 .. Foreign + 1]
    /\ countSend \in [Nodes -> 0 .. 3]
    /\ part \in [Nodes -> Cells]
    /\ respTo \in [Nodes -> Nodes]
    /\ tDownloadStart \in [Nodes -> BOOLEAN]
    /\ tResRequest \in [Nodes -> {"off", "window", "round"}]
    /\ tDownload \in [Nodes -> BOOLEAN]
    /\ tAck \in [Nodes -> BOOLEAN]
    /\ InFlight \subseteq Message
    /\ asked \in [Nodes -> SUBSET Cells]
    /\ latest \in [Nodes -> SUBSET Cells]

-----------------------------------------------------------------------------
(* What the environment's timing allows.                                   *)

\* Every application starts at 1 s and every T_DownloadStart fires 3 s later,
\* all in one instant: no packet arrives before the last of them.
Started == \A a \in AppNodes : ~tDownloadStart[a]

\* A retry period (0.5 s) has passed: with Prompt, whatever was in flight arrived.
Mut_NoPeriod == Started
Elapsed == Started /\ (Prompt => InFlight = {})

\* The bound on the state space: a round, a restart or a resend is fired while at
\* most MaxInFlight packets are on their way.
Room == BagCardinality(net) <= MaxInFlight

\* Nothing of a's last download is under way: no task, report or retry for it.
Settled(a) ==
    /\ \A m \in InFlight : /\ m.type = "TaskInfo" => m.src # a
                           /\ m.type = "CompleteTask" => m.dst # a
    /\ \A n \in Nodes : tDownload[n] \/ tAck[n] => respTo[n] # a

\* T_ResRequest expires.  In the 10 s window the last download's retries (2.4 s
\* at most) have died out, unless packets are held back longer than that.
ResRequestElapsed(a) ==
    /\ tResRequest[a] = "window" => (LateDelivery \/ Settled(a))
    /\ tResRequest[a] = "round" => (Prompt => \A n \in Nodes : ~tDownload[n])

-----------------------------------------------------------------------------
Init ==
    /\ appState = [n \in Nodes |-> "INITIAL"]
    /\ \E bits \in [AppNodes -> [Table \ Parts -> BOOLEAN]] : \* not initialised
          chunks = [n \in Nodes |-> [c \in Table |-> n \in AppNodes /\ c \notin Parts
                                                     /\ bits[n][c]]]
    /\ collabs = [n \in Nodes |-> <<>>]
    /\ lastChunk = [n \in Nodes |-> 0]
    /\ countSend = [n \in Nodes |-> 0]
    /\ part = [n \in Nodes |-> 0]
    /\ respTo = [n \in Nodes |-> n]
    /\ tDownloadStart = [n \in Nodes |-> n \in AppNodes]
    /\ tResRequest = [n \in Nodes |-> "off"]
    /\ tDownload = [n \in Nodes |-> FALSE]
    /\ tAck = [n \in Nodes |-> FALSE]
    /\ net = EmptyBag
    /\ asked = [n \in Nodes |-> {}]
    /\ latest = [n \in Nodes |-> {}]

(* The body of TimeoutDownloadStart, StateMachine included: a fresh table,  *)
(* no collaborators, a ResourceRequest to everybody, the 10 s window.       *)
StartDownload(a) ==
    /\ appState' = [appState EXCEPT ![a] = "RESOURCEREQUEST"]
    /\ chunks' = [chunks EXCEPT ![a] = ResetTable(a)]
    /\ collabs' = [collabs EXCEPT ![a] = <<>>]
    /\ tDownloadStart' = [tDownloadStart EXCEPT ![a] = FALSE]
    /\ tResRequest' = [tResRequest EXCEPT ![a] = "window"]
    /\ net' = net (+) Broadcast("ResourceRequest", a)
    /\ asked' = [asked EXCEPT ![a] = {}]
    /\ latest' = [latest EXCEPT ![a] = {}]
    /\ UNCHANGED <<tAck, workVars>>

TimeoutDownloadStart(a) ==
    /\ tDownloadStart[a]
    /\ StartDownload(a)
    /\ UNCHANGED <<lastChunk, countSend>>

-----------------------------------------------------------------------------
(* TimeoutResourceRequest: the app node's round.                           *)

collabNodes(a) == (Len(collabs[a]) * Percent) \div 100

\* The scan `while (isChunkDownloaded(last)) last++` started at l ends at c.
Mut_NoScan(a, l, c) == c = l
ScanEnds(a, l, c) ==
    /\ l <= c
    /\ ~isChunkDownloaded(a, c)
    /\ \A d \in l .. c - 1 : isChunkDownloaded(a, d)

Mut_WrapLate(l) == IF l > Chunks THEN 0 ELSE l
Wrap(l) == IF l >= Chunks THEN 0 ELSE l

\* The chunks the loop over the first k collaborators asks for.
IsAssignment(a, k, f) ==
    \A i \in 1 .. k : ScanEnds(a, Wrap(IF i = 1 THEN lastChunk[a] ELSE f[i - 1] + 1), f[i])

\* Each TaskInfo is handed to the socket twice.
TaskInfos(a, k, f) ==
    LET sent == [i \in 1 .. k |-> Packet("TaskInfo", a, collabs[a][i], f[i])]
    IN  [m \in {sent[i] : i \in 1 .. k} |-> 2 * Cardinality({i \in 1 .. k : sent[i] = m})]

\* Every task sent re-arms T_ResRequest.
Mut_NotRearmed(a) == tResRequest' = [tResRequest EXCEPT ![a] = "off"]
RearmRound(a) == tResRequest' = [tResRequest EXCEPT ![a] = "round"]

DistributeTasks(a) ==
    /\ tResRequest[a] # "off" /\ Elapsed /\ ResRequestElapsed(a)
    /\ collabNodes(a) > 0 /\ ~isDownloadComplete(a)
    /\ Room
    /\ LET k == collabNodes(a)
       IN  \E f \in [1 .. k -> Cells] :
              /\ IsAssignment(a, k, f)
              /\ lastChunk' = [lastChunk EXCEPT ![a] = f[k] + 1]
              /\ net' = net (+) TaskInfos(a, k, f)
              /\ latest' = [latest EXCEPT ![a] = {f[i] : i \in 1 .. k}]
              /\ asked' = [asked EXCEPT ![a] = @ \cup {f[i] : i \in 1 .. k}]
    /\ appState' = [appState EXCEPT ![a] = "TASKRECEPTION"]
    /\ RearmRound(a)
    /\ UNCHANGED <<chunks, collabs, countSend, tDownloadStart, tAck, workVars>>

\* The file is complete, or nobody can be used: a new download starts at once.
RestartDownload(a) ==
    /\ tResRequest[a] # "off" /\ Elapsed /\ ResRequestElapsed(a)
    /\ collabNodes(a) = 0 \/ isDownloadComplete(a)
    /\ Room
    /\ lastChunk' = [lastChunk EXCEPT ![a] = 0]
    /\ countSend' = [countSend EXCEPT ![a] = 0]
    /\ StartDownload(a)

TimeoutResourceRequest(a) == DistributeTasks(a) \/ RestartDownload(a)

-----------------------------------------------------------------------------
(* The collaborator's timers.                                              *)

\* TimeoutDownloadSimulatorTimer, called by its timer and by the ack timeout.
Mut_StillBusy(n) ==
    /\ net' = net (+) One(Packet("CompleteTask", n, respTo[n], part[n]))
    /\ tAck' = [tAck EXCEPT ![n] = TRUE]
    /\ UNCHANGED appState
SendReport(n) ==
    /\ net' = net (+) One(Packet("CompleteTask", n, respTo[n], part[n]))
    /\ appState' = [appState EXCEPT ![n] = "TASKWAIT"]
    /\ tAck' = [tAck EXCEPT ![n] = TRUE]

TimeoutDownloadSimulatorTimer(n) ==
    /\ tDownload[n]
    /\ SendReport(n)
    /\ tDownload' = [tDownload EXCEPT ![n] = FALSE]
    /\ UNCHANGED <<chunks, countSend, appVars, part, respTo>>

Mut_OneMore(n) == countSend[n] <= 3
MayResend(n) == countSend[n] < 3

Mut_NotCounted(n) == countSend' = countSend
CountResend(n) == countSend' = [countSend EXCEPT ![n] = @ + 1]

ResendReport(n) ==
    /\ tAck[n] /\ Elapsed
    /\ MayResend(n)
    /\ Room
    /\ SendReport(n)
    /\ CountResend(n)
    /\ UNCHANGED <<chunks, appVars, workVars>>

GiveUp(n) ==
    /\ tAck[n] /\ Elapsed
    /\ ~MayResend(n)
    /\ appState' = [appState EXCEPT ![n] = "INITIAL"]
    /\ tAck' = [tAck EXCEPT ![n] = FALSE]
    /\ countSend' = [countSend EXCEPT ![n] = 0]
    /\ UNCHANGED <<chunks, net, appVars, workVars>>

TimeoutCompleteTaskAck(n) == ResendReport(n) \/ GiveUp(n)

-----------------------------------------------------------------------------
(* RecvPkt: one action per message type.  Take(m) removes m from the net.  *)

Take(m) == net (-) One(m)

\* The states in which RecvPkt acts on a message; none is checked for an ack.
AcceptedIn ==
    [ResourceRequest |-> {"INITIAL"}, ResourceInfoFromCN |-> {"RESOURCEREQUEST"},
     TaskInfo |-> {"TASKWAIT"}, CompleteTask |-> {"TASKRECEPTION"}, CompleteTaskAck |-> States]

Accepts(m) == appState[m.dst] \in AcceptedIn[m.type]

RecvResourceRequest(m) ==
    /\ m.type = "ResourceRequest"
    /\ Accepts(m)
    /\ net' = Take(m) (+) Broadcast("ResourceInfoFromCN", m.dst)
    /\ countSend' = [countSend EXCEPT ![m.dst] = 0]
    /\ appState' = [appState EXCEPT ![m.dst] = "TASKWAIT"]
    /\ UNCHANGED <<chunks, tAck, appVars, workVars>>

RecvResourceInfoFromCN(m) ==
    /\ m.type = "ResourceInfoFromCN"
    /\ Accepts(m)
    /\ net' = Take(m)
    /\ collabs' = [collabs EXCEPT ![m.dst] = Append(@, m.src)]
    /\ UNCHANGED <<appState, chunks, countSend, tAck, workVars, lastChunk,
                   tDownloadStart, tResRequest, asked, latest>>

Mut_NoDownload(n, p) == part' = [part EXCEPT ![n] = p] /\ UNCHANGED tDownload
StartDownloadTask(n, p) ==
    /\ part' = [part EXCEPT ![n] = p]
    /\ tDownload' = [tDownload EXCEPT ![n] = TRUE]

RecvTaskInfo(m) ==
    /\ m.type = "TaskInfo"
    /\ Accepts(m)
    /\ net' = Take(m)
    /\ appState' = [appState EXCEPT ![m.dst] = "EXECUTINGTASK"]
    /\ respTo' = [respTo EXCEPT ![m.dst] = m.src]
    /\ StartDownloadTask(m.dst, m.part)
    /\ UNCHANGED <<chunks, countSend, tAck, appVars>>

RecvCompleteTask(m) ==
    /\ m.type = "CompleteTask"
    /\ Accepts(m)
    /\ net' = Take(m) (+) One(Packet("CompleteTaskAck", m.dst, m.src, 0))
    /\ chunks' = [chunks EXCEPT ![m.dst] = Recorded(m.dst, m.part)]
    /\ UNCHANGED <<appState, countSend, tAck, appVars, workVars>>

\* An ack always ends in TASKWAIT.
RecvCompleteTaskAck(m) ==
    /\ m.type = "CompleteTaskAck"
    /\ Accepts(m)
    /\ net' = Take(m)
    /\ tAck' = [tAck EXCEPT ![m.dst] = FALSE]
    /\ countSend' = [countSend EXCEPT ![m.dst] = 0]
    /\ appState' = [appState EXCEPT ![m.dst] = "TASKWAIT"]
    /\ UNCHANGED <<chunks, appVars, workVars>>

RecvIgnored(m) ==
    /\ ~Accepts(m)
    /\ net' = Take(m)
    /\ UNCHANGED <<appState, chunks, countSend, tAck, appVars, workVars>>

RecvPkt(m) ==
    /\ Started
    /\ \/ RecvResourceRequest(m) \/ RecvResourceInfoFromCN(m)
       \/ RecvTaskInfo(m) \/ RecvCompleteTask(m)
       \/ RecvCompleteTaskAck(m) \/ RecvIgnored(m)

\* The radio loses a packet (external).
Lose(m) ==
    /\ Lossy
    /\ net' = Take(m)
    /\ UNCHANGED <<appState, chunks, countSend, tAck, appVars, workVars>>

-----------------------------------------------------------------------------
Next ==
    \/ \E n \in Nodes : \/ TimeoutDownloadStart(n)
                        \/ TimeoutResourceRequest(n)
                        \/ TimeoutDownloadSimulatorTimer(n)
                        \/ TimeoutCompleteTaskAck(n)
    \/ \E m \in InFlight : RecvPkt(m) \/ Lose(m)

Spec == Init /\ [][Next]_vars


(***************************************************************************)
(* The simulator runs every armed timer and delivers every packet that is  *)
(* not lost.  Strong fairness for the timers that wait for the packets of  *)
(* a period: packets in flight postpone such a timer, they never stop it.  *)
(***************************************************************************)
Fairness ==
    /\ \A n \in Nodes : /\ WF_vars(TimeoutDownloadStart(n))
                        /\ SF_vars(TimeoutResourceRequest(n))
                        /\ WF_vars(TimeoutDownloadSimulatorTimer(n))
                        /\ SF_vars(TimeoutCompleteTaskAck(n))
    /\ WF_vars(\E m \in InFlight : RecvPkt(m))

FairSpec == Spec /\ Fairness

-----------------------------------------------------------------------------
(* Safety.                                                                 *)

\* A node that downloads never works for another one: it answers no request,
\* runs no task, and so no ack (which RecvPkt takes in any state) can throw it
\* out of its download.
RolesDisjoint ==
    \A a \in AppNodes :
        /\ appState[a] \in {"INITIAL", "RESOURCEREQUEST", "TASKRECEPTION"}
        /\ appState[a] = "INITIAL" <=> tDownloadStart[a]
        /\ ~tDownload[a] /\ ~tAck[a]

\* An app node always has its next step scheduled: no path through the
\* callbacks leaves it without T_DownloadStart or T_ResRequest.
AppNodesArmed ==
    \A a \in AppNodes : tDownloadStart[a] \/ tResRequest[a] # "off"

\* A collaborator that refuses tasks because it is busy is downloading one.
BusyIsDownloading ==
    \A n \in Nodes : appState[n] = "EXECUTINGTASK" => tDownload[n]

\* A download that has handed out a chunk ends only when all its chunks are in.
NeverAbandoned ==
    [][\A a \in Nodes : tResRequest[a] = "round" /\ tResRequest'[a] = "window"
                            => \A c \in Parts : chunks[a][c]]_vars

\* Only chunks of the file are asked for.
RequestsInRange ==
    \A a \in Nodes : asked[a] \subseteq Parts

\* An ack that stops the retries of a report stops them for a recorded chunk.
AckedIsRecorded ==
    [][\A n \in Nodes : tAck[n] /\ ~tAck'[n] /\ appState'[n] = "TASKWAIT"
                            => isChunkDownloaded(respTo[n], part[n])]_vars

\* Every report sent is of a chunk whose download has ended.
ReportsAreDownloaded ==
    [][\A n \in Nodes :
          (\E m \in BagToSet(net') : /\ m.type = "CompleteTask" /\ m.src = n
                                     /\ net'[m] > (IF m \in InFlight THEN net[m] ELSE 0))
             => ~tDownload'[n]]_vars

-----------------------------------------------------------------------------
(* What it implements.                                                     *)

Phase(a) ==
    IF tDownloadStart[a] THEN "waiting"
    ELSE IF tResRequest[a] = "window" THEN "gathering" ELSE "rounds"

Download == INSTANCE CollabDownload WITH
    Downloaders <- AppNodes,
    File <- Parts,
    Indices <- Cells,
    phase <- [a \in AppNodes |-> Phase(a)],
    wanted <- [a \in AppNodes |-> asked[a]],
    round <- [a \in AppNodes |-> latest[a]],
    have <- [a \in AppNodes |-> {c \in Parts : chunks[a][c]}]

\* Behind lost reports, retries and the rounds of several app nodes, each of them
\* sees the download of CollabDownload: no chunk is asked for that is there, none
\* counts that was not asked for, no file is given up half-way.
Implements == Download!Spec

-----------------------------------------------------------------------------
(* Liveness.                                                               *)

\* A download in which a chunk was handed out completes.
DownloadCompletes ==
    \A a \in AppNodes : tResRequest[a] = "round" ~> tResRequest[a] = "window"

\* A collaborator does not resend a report for ever.
RetriesEnd ==
    \A n \in Nodes : tAck[n] ~> ~tAck[n]
=============================================================================
