---------------------------- MODULE LogAnalysis ----------------------------
(***************************************************************************)
(* The scripts of src/data-analysis, reading one log line by line:         *)
(* procesaNodo.py and procesa.py the same log of the SCMA simulation, or   *)
(* procesaVnAodv.py (and procesaDirecta.py, which reads alike) a log of    *)
(* the AODV simulation.  A line is written by a node and read at once,     *)
(* since no script looks ahead.                                            *)
(*                                                                         *)
(* A packet counts one: the bytes move with the packets.  What the code    *)
(* writes into a log, and in which order, is what ScmaStateMachine and     *)
(* AppDescarga are checked for: no TaskFinished or M_DownloadComplete      *)
(* without an own TaskDistribution or M_NewDownload since the last one.    *)
(*                                                                         *)
(* A definition Mut_X is a faulty version of the one below it.             *)
(***************************************************************************)
EXTENDS Integers, Sequences, FiniteSets, Functions

CONSTANTS
    Vehicles,  \* the nodes that ask, distribute and finish
    Leaders,   \* the intersection leaders, which send nothing but CloudResourceInfo
    Pauses,    \* the times between two lines of the log
    MaxLines   \* bound: the length of the log

ASSUME LogConstantsOK ==
    /\ IsFiniteSet(Vehicles \cup Leaders)
    /\ Vehicles \cap Leaders = {}
    /\ Pauses \subseteq Nat
    /\ MaxLines \in Nat

Nodes == Vehicles \cup Leaders

VARIABLES
    sim,             \* the simulation the log is of
    now, lines,      \* the time of the last line, the number of lines
    begun,           \* the vehicles whose last distribution or download is unfinished
    status,          \* of the scripts: reading, failed on a line, done, or empty-handed
    datosNodo,       \* procesaNodo, procesaVnAodv: the counters of each node
    totalDescargas,  \* procesaNodo, procesaVnAodv
    flags,           \* procesaNodo: which of m_sendTask, m_cloudResourceTx and
                     \* m_cloudResourceRx are set for each node
    eventoInt,       \* procesaNodo: the message of the last PktTx of any node
    TOTALES,         \* procesa: the dictionary that is every entry of its datosNodo
    nodosApp,        \* procesa
    infos,           \* procesa: the dictionaries made for TaskDistribution, in order
    eventos,         \* procesa: the index in infos of each node's dictionary, or 0
    evtTaskFinished  \* procesa: the indices of those that finished

nodoVars == <<datosNodo, totalDescargas, flags, eventoInt>>
procesaVars == <<TOTALES, nodosApp, infos, eventos, evtTaskFinished>>
vars == <<sim, now, lines, begun, status, nodoVars, procesaVars>>

-----------------------------------------------------------------------------
Unset == -1

Layers == {"own", "routing"}  \* scma and ibr, or app and vnaodv
Dirs == {"Tx", "Rx"}

Datos == [augmentation : Nat, insufficient : Nat, nubes : Nat, descargas : Nat,
          t_start : Nat \cup {Unset}, t_descarga : Nat, packets : [Layers \X Dirs -> Nat]]

Info == [Time_0 : Nat, Time_Download : Nat \cup {Unset}]

TypeOK ==
    /\ sim \in {"scma", "aodv"}
    /\ now \in Nat /\ lines \in 0 .. MaxLines
    /\ begun \subseteq Vehicles
    /\ status \in {"reading", "failed", "done", "empty"}
    /\ datosNodo \in [Nodes -> Datos]
    /\ totalDescargas \in Nat
    /\ flags \in [Nodes -> SUBSET {"sendTask", "cloudTx", "cloudRx"}]
    /\ eventoInt \in {"none", "CloudResourceInfo", "SendTaskToCN", "other"}
    /\ TOTALES \in [Dirs -> Nat]
    /\ nodosApp \subseteq Vehicles
    /\ infos \in Seq(Info)
    /\ eventos \in [Nodes -> 0 .. Len(infos)]
    /\ evtTaskFinished \in Seq(1 .. Len(infos))

Init ==
    /\ sim \in {"scma", "aodv"}
    /\ now = 0 /\ lines = 0 /\ begun = {} /\ status = "reading"
    /\ datosNodo = [n \in Nodes |->
          [augmentation |-> 0, insufficient |-> 0, nubes |-> 0, descargas |-> 0,
           t_start |-> Unset, t_descarga |-> 0, packets |-> [x \in Layers \X Dirs |-> 0]]]
    /\ totalDescargas = 0
    /\ flags = [n \in Nodes |-> {}]
    /\ eventoInt = "none"
    /\ TOTALES = [d \in Dirs |-> 0]
    /\ nodosApp = {} /\ infos = <<>> /\ evtTaskFinished = <<>>
    /\ eventos = [n \in Nodes |-> 0]

-----------------------------------------------------------------------------
(* The lines.                                                              *)

\* The next line is one of simulation s, some time after the last one.
Line(s) ==
    /\ sim = s /\ status = "reading" /\ lines < MaxLines
    /\ lines' = lines + 1
    /\ \E p \in Pauses : now' = now + p
    /\ UNCHANGED sim

\* A packet is counted for its node, in a layer and a direction.
Counted(n, layer, dir) == [datosNodo EXCEPT ![n].packets[<<layer, dir>>] = @ + 1]

\* procesa counts it in the one dictionary that is the value of all its nodes.
Total(layer, dir) == [TOTALES EXCEPT ![dir] = @ + 1]

IbrPacket(n, dir) ==
    /\ Line("scma")
    /\ datosNodo' = Counted(n, "routing", dir)
    /\ TOTALES' = Total("routing", dir)
    /\ UNCHANGED <<begun, status, totalDescargas, flags, eventoInt,
                   nodosApp, infos, eventos, evtTaskFinished>>

\* Of the tasks or the CloudResourceInfo that a node sends only the first is
\* counted, until the node itself begins or finishes a download.
ScmaPktTx(n, msg) ==
    /\ Line("scma")
    /\ n \in Leaders <=> msg = "CloudResourceInfo"
    /\ msg = "SendTaskToCN" => n \in begun
    /\ eventoInt' = msg
    /\ LET flag == [CloudResourceInfo |-> {"cloudTx"}, SendTaskToCN |-> {"sendTask"}, other |-> {}][msg]
       IN  /\ datosNodo' = IF flag # {} /\ flag \subseteq flags[n] THEN datosNodo
                           ELSE Counted(n, "own", "Tx")
           /\ flags' = [flags EXCEPT ![n] = @ \cup flag]
    /\ TOTALES' = Total("own", "Tx")
    /\ UNCHANGED <<begun, status, totalDescargas, nodosApp, infos, eventos, evtTaskFinished>>

\* A reception assigns its message to evento and looks at eventoInt, the message
\* of the last transmission of whatever node.
ScmaPktRx(n) ==
    /\ Line("scma") /\ eventoInt # "none"
    /\ LET flag == IF eventoInt = "CloudResourceInfo" THEN {"cloudRx"} ELSE {}
       IN  /\ datosNodo' = IF flag # {} /\ flag \subseteq flags[n] THEN datosNodo
                           ELSE Counted(n, "own", "Rx")
           /\ flags' = [flags EXCEPT ![n] = @ \cup flag]
    /\ TOTALES' = Total("own", "Rx")
    /\ UNCHANGED <<begun, status, totalDescargas, eventoInt, nodosApp, infos, eventos,
                   evtTaskFinished>>

AugmentationRequest(n) ==
    /\ Line("scma")
    /\ datosNodo' = [datosNodo EXCEPT ![n].augmentation = @ + 1]
    /\ UNCHANGED <<begun, status, totalDescargas, flags, eventoInt, procesaVars>>

\* The flags of the node that begins or finishes.
Mut_AllFlags(n) == [x \in Nodes |-> {}]
Cleared(n) == [flags EXCEPT ![n] = {}]

\* The clock of a download starts anew with every TaskDistribution.
Mut_FirstStart(n) == IF datosNodo[n].t_start = Unset THEN now' ELSE datosNodo[n].t_start
Start(n) == now'

\* eventos[nodo] becomes a new dictionary; those of earlier downloads stay.
Mut_SameDictionary(n) ==
    IF eventos[n] = 0
    THEN /\ infos' = Append(infos, [Time_0 |-> now', Time_Download |-> Unset])
         /\ eventos' = [eventos EXCEPT ![n] = Len(infos')]
    ELSE /\ infos' = [infos EXCEPT ![eventos[n]].Time_0 = now']
         /\ UNCHANGED eventos
NewDictionary(n) ==
    /\ infos' = Append(infos, [Time_0 |-> now', Time_Download |-> Unset])
    /\ eventos' = [eventos EXCEPT ![n] = Len(infos')]

TaskDistribution(n) ==
    /\ Line("scma")
    /\ begun' = begun \cup {n}
    /\ datosNodo' = [datosNodo EXCEPT ![n].nubes = @ + 1, ![n].t_start = Start(n)]
    /\ flags' = Cleared(n)
    /\ nodosApp' = nodosApp \cup {n}
    /\ NewDictionary(n)
    /\ UNCHANGED <<status, totalDescargas, eventoInt, TOTALES, evtTaskFinished>>

\* A node logs the end of what it has begun.
Mut_EndsUnbegun(n) == TRUE
MayEnd(n) == n \in begun

\* t_end - t_start.
Mut_Negative(n) == datosNodo[n].t_start - now'
Took(n) == now' - datosNodo[n].t_start

Ended(n) == [datosNodo EXCEPT ![n].descargas = @ + 1, ![n].t_descarga = @ + Took(n)]

TaskFinished(n) ==
    /\ Line("scma") /\ MayEnd(n)
    /\ begun' = begun \ {n}
    /\ IF datosNodo[n].t_start = Unset \/ eventos[n] = 0
       THEN /\ status' = "failed"  \* KeyError
            /\ UNCHANGED <<datosNodo, totalDescargas, infos, evtTaskFinished>>
       ELSE /\ datosNodo' = Ended(n)
            /\ totalDescargas' = totalDescargas + 1
            /\ infos' = [infos EXCEPT ![eventos[n]].Time_Download = now' - infos[eventos[n]].Time_0]
            /\ evtTaskFinished' = Append(evtTaskFinished, eventos[n])
            /\ UNCHANGED status
    /\ flags' = Cleared(n)
    /\ UNCHANGED <<eventoInt, TOTALES, nodosApp, eventos>>

-----------------------------------------------------------------------------
(* procesaVnAodv.                                                          *)

AodvPacket(n, layer, dir) ==
    /\ Line("aodv")
    /\ datosNodo' = Counted(n, layer, dir)
    /\ UNCHANGED <<begun, status, totalDescargas, flags, eventoInt, procesaVars>>

NewDownload(n) ==
    /\ Line("aodv")
    /\ begun' = begun \cup {n}
    /\ datosNodo' = [datosNodo EXCEPT ![n].augmentation = @ + 1, ![n].t_start = Start(n)]
    /\ UNCHANGED <<status, totalDescargas, flags, eventoInt, procesaVars>>

InsufficientResources(n) ==
    /\ Line("aodv")
    /\ datosNodo' = [datosNodo EXCEPT ![n].insufficient = @ + 1]
    /\ UNCHANGED <<begun, status, totalDescargas, flags, eventoInt, procesaVars>>

DownloadComplete(n) ==
    /\ Line("aodv") /\ MayEnd(n)
    /\ begun' = begun \ {n}
    /\ IF datosNodo[n].t_start = Unset
       THEN status' = "failed" /\ UNCHANGED <<datosNodo, totalDescargas>>  \* KeyError
       ELSE /\ datosNodo' = Ended(n)
            /\ totalDescargas' = totalDescargas + 1
            /\ UNCHANGED status
    /\ UNCHANGED <<flags, eventoInt, procesaVars>>

-----------------------------------------------------------------------------
\* The end of the file.  The averages are taken over the nodes that finished a
\* download: without any, they are looked up in an empty dictionary (or divided
\* by zero, in procesaVnAodv).
totalesNodo == {n \in Nodes : datosNodo[n].descargas > 0}

EndOfFile ==
    /\ status = "reading"
    /\ status' = IF totalesNodo = {} THEN "empty" ELSE "done"
    /\ UNCHANGED <<sim, now, lines, begun, nodoVars, procesaVars>>

Next ==
    \/ \E n \in Nodes, dir \in Dirs : IbrPacket(n, dir)
    \/ \E n \in Nodes, msg \in {"CloudResourceInfo", "SendTaskToCN", "other"} : ScmaPktTx(n, msg)
    \/ \E n \in Nodes : ScmaPktRx(n)
    \/ \E n \in Vehicles : \/ AugmentationRequest(n) \/ TaskDistribution(n) \/ TaskFinished(n)
                           \/ NewDownload(n) \/ InsufficientResources(n) \/ DownloadComplete(n)
    \/ \E n \in Vehicles, layer \in Layers, dir \in Dirs : AodvPacket(n, layer, dir)
    \/ EndOfFile

Spec == Init /\ [][Next]_vars

-----------------------------------------------------------------------------
\* No line makes a script fail: the dictionaries it looks into have been filled by
\* an earlier line of the same node.
NoKeyError == status # "failed"

\* The download times of a node do not overlap: their sum is no longer than the log.
TimesFitTheLog == \A n \in Nodes : datosNodo[n].t_descarga <= now

\* procesa and procesaNodo find the same downloads and the same total time in a
\* log, although one keeps references to dictionaries that it goes on changing.
ScriptsAgree ==
    sim = "scma" =>
       /\ Len(evtTaskFinished) = totalDescargas
       /\ SumFunction([n \in Nodes |-> datosNodo[n].t_descarga])
             = SumFunction([i \in DOMAIN evtTaskFinished |-> infos[evtTaskFinished[i]].Time_Download])

\* All the answers of a leader count as one packet in procesaNodo, whoever begins
\* and finishes downloads in between.
LeadersCountOnce == \A n \in Leaders : datosNodo[n].packets[<<"own", "Tx">>] <= 1
=============================================================================
