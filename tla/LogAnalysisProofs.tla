------------------------- MODULE LogAnalysisProofs -------------------------
(* Proofs about LogAnalysis, for every set of nodes and length of the log.  *)
EXTENDS LogAnalysis, SumLemmas, SequenceTheorems

-----------------------------------------------------------------------------
(* The counters.                                                           *)

LEMMA CountedType ==
    ASSUME datosNodo \in [Nodes -> Datos], NEW n \in Nodes,
           NEW layer \in Layers, NEW dir \in Dirs
    PROVE  /\ Counted(n, layer, dir) \in [Nodes -> Datos]
           /\ \A x \in Nodes : /\ Counted(n, layer, dir)[x].t_start = datosNodo[x].t_start
                               /\ Counted(n, layer, dir)[x].t_descarga = datosNodo[x].t_descarga
<1>. DEFINE p == [datosNodo[n].packets EXCEPT ![<<layer, dir>>] = @ + 1]
<1>1. datosNodo[n] \in Datos
  OBVIOUS
<1>2. p \in [Layers \X Dirs -> Nat]
  BY <1>1 DEF Datos
<1>. DEFINE d == [datosNodo[n] EXCEPT !.packets = p]
<1>3. d \in Datos /\ d.t_start = datosNodo[n].t_start /\ d.t_descarga = datosNodo[n].t_descarga
  <2>. HIDE DEF p
  <2> QED
    BY <1>1, <1>2 DEF Datos
<1>4. Counted(n, layer, dir) = [datosNodo EXCEPT ![n] = d]
  BY DEF Counted
<1>. HIDE DEF d
<1> QED
  BY <1>3, <1>4

LEMMA LineTime ==
    ASSUME TypeOK, NEW s, Line(s)
    PROVE  /\ now' \in Nat /\ now' >= now
           /\ lines' \in 0 .. MaxLines
           /\ sim' = sim /\ sim = s /\ status = "reading"
BY LogConstantsOK DEF TypeOK, Line

-----------------------------------------------------------------------------
(***************************************************************************)
(* The inductive invariant: a vehicle with something begun has a start     *)
(* time, and in a log of SCMA a dictionary with the same one, and its      *)
(* earlier downloads fit before that start.                                *)
(***************************************************************************)
Begun(n) ==
    /\ datosNodo[n].t_start \in 0 .. now
    /\ datosNodo[n].t_descarga <= datosNodo[n].t_start
    /\ sim = "scma" => /\ eventos[n] # 0
                      /\ infos[eventos[n]].Time_0 = datosNodo[n].t_start

IInv ==
    /\ TypeOK
    /\ NoKeyError
    /\ TimesFitTheLog
    /\ \A n \in begun : Begun(n)

\* A line that only counts packets or requests keeps the invariant.
LEMMA CountingLine ==
    ASSUME IInv, NEW s, Line(s), UNCHANGED <<begun, status, totalDescargas, infos, eventos, evtTaskFinished, nodosApp>>,
           datosNodo' \in [Nodes -> Datos],
           \A x \in Nodes : /\ datosNodo'[x].t_start = datosNodo[x].t_start
                            /\ datosNodo'[x].t_descarga = datosNodo[x].t_descarga,
           flags' \in [Nodes -> SUBSET {"sendTask", "cloudTx", "cloudRx"}],
           eventoInt' \in {"none", "CloudResourceInfo", "SendTaskToCN", "other"},
           TOTALES' \in [Dirs -> Nat]
    PROVE  IInv'
<1>1. /\ now' \in Nat /\ now' >= now /\ now \in Nat
      /\ lines' \in 0 .. MaxLines
      /\ sim' = sim
  BY LineTime DEF IInv, TypeOK
<1>2. TypeOK'
  BY <1>1 DEF IInv, TypeOK
<1>3. \A x \in Nodes : datosNodo[x].t_descarga \in Nat
  BY DEF IInv, TypeOK, Datos
<1>4. TimesFitTheLog'
  BY <1>1, <1>3 DEF IInv, TimesFitTheLog
<1>5. \A n \in begun : n \in Nodes /\ Begun(n)
  BY DEF IInv, TypeOK, Nodes
<1>6. \A n \in begun' : Begun(n)'
  BY <1>1, <1>5 DEF Begun
<1> QED
  BY <1>2, <1>4, <1>6 DEF IInv, NoKeyError

LEMMA TotalType ==
    ASSUME TypeOK, NEW layer, NEW dir \in Dirs
    PROVE  Total(layer, dir) \in [Dirs -> Nat]
BY DEF TypeOK, Total

-----------------------------------------------------------------------------
(* Each line keeps the invariant.                                          *)

LEMMA IbrPacketKeeps ==
    ASSUME IInv, NEW n \in Nodes, NEW dir \in Dirs, IbrPacket(n, dir)
    PROVE  IInv'
<1>1. "routing" \in Layers /\ datosNodo \in [Nodes -> Datos] /\ TypeOK
  BY DEF Layers, IInv, TypeOK
<1>2. /\ datosNodo' \in [Nodes -> Datos]
      /\ \A x \in Nodes : /\ datosNodo'[x].t_start = datosNodo[x].t_start
                           /\ datosNodo'[x].t_descarga = datosNodo[x].t_descarga
  BY <1>1, CountedType DEF IbrPacket
<1>3. TOTALES' \in [Dirs -> Nat]
  BY <1>1, TotalType DEF IbrPacket
<1>4. /\ Line("scma")
      /\ UNCHANGED <<begun, status, totalDescargas, flags, eventoInt,
                     nodosApp, infos, eventos, evtTaskFinished>>
  BY DEF IbrPacket
<1> QED
  BY <1>1, <1>2, <1>3, <1>4, CountingLine DEF TypeOK

LEMMA ScmaPktTxKeeps ==
    ASSUME IInv, NEW n \in Nodes,
           NEW msg \in {"CloudResourceInfo", "SendTaskToCN", "other"}, ScmaPktTx(n, msg)
    PROVE  IInv'
<1>1. /\ "own" \in Layers /\ "Tx" \in Dirs
      /\ datosNodo \in [Nodes -> Datos]
      /\ flags \in [Nodes -> SUBSET {"sendTask", "cloudTx", "cloudRx"}]
      /\ TypeOK
  BY DEF Layers, Dirs, IInv, TypeOK
<1>2. datosNodo' = datosNodo \/ datosNodo' = Counted(n, "own", "Tx")
  BY DEF ScmaPktTx
<1>3. /\ datosNodo' \in [Nodes -> Datos]
      /\ \A x \in Nodes : /\ datosNodo'[x].t_start = datosNodo[x].t_start
                           /\ datosNodo'[x].t_descarga = datosNodo[x].t_descarga
  BY <1>1, <1>2, CountedType
<1>4. TOTALES' \in [Dirs -> Nat]
  BY <1>1, TotalType DEF ScmaPktTx
<1>5. flags' \in [Nodes -> SUBSET {"sendTask", "cloudTx", "cloudRx"}]
  <2>. DEFINE flag == [CloudResourceInfo |-> {"cloudTx"}, SendTaskToCN |-> {"sendTask"}, other |-> {}][msg]
  <2>1. flag \in SUBSET {"sendTask", "cloudTx", "cloudRx"}
    OBVIOUS
  <2>2. flags' = [flags EXCEPT ![n] = @ \cup flag]
    BY DEF ScmaPktTx
  <2>. HIDE DEF flag
  <2> QED
    BY <1>1, <2>1, <2>2
<1>6. eventoInt' \in {"none", "CloudResourceInfo", "SendTaskToCN", "other"}
  BY DEF ScmaPktTx
<1>7. /\ Line("scma")
      /\ UNCHANGED <<begun, status, totalDescargas, nodosApp, infos, eventos, evtTaskFinished>>
  BY DEF ScmaPktTx
<1> QED
  BY <1>3, <1>4, <1>5, <1>6, <1>7, CountingLine

LEMMA ScmaPktRxKeeps ==
    ASSUME IInv, NEW n \in Nodes, ScmaPktRx(n)
    PROVE  IInv'
<1>1. /\ "own" \in Layers /\ "Rx" \in Dirs
      /\ datosNodo \in [Nodes -> Datos]
      /\ flags \in [Nodes -> SUBSET {"sendTask", "cloudTx", "cloudRx"}]
      /\ TypeOK
  BY DEF Layers, Dirs, IInv, TypeOK
<1>2. datosNodo' = datosNodo \/ datosNodo' = Counted(n, "own", "Rx")
  BY DEF ScmaPktRx
<1>3. /\ datosNodo' \in [Nodes -> Datos]
      /\ \A x \in Nodes : /\ datosNodo'[x].t_start = datosNodo[x].t_start
                           /\ datosNodo'[x].t_descarga = datosNodo[x].t_descarga
  BY <1>1, <1>2, CountedType
<1>4. TOTALES' \in [Dirs -> Nat]
  BY <1>1, TotalType DEF ScmaPktRx
<1>5. flags' \in [Nodes -> SUBSET {"sendTask", "cloudTx", "cloudRx"}]
  <2>. DEFINE flag == IF eventoInt = "CloudResourceInfo" THEN {"cloudRx"} ELSE {}
  <2>1. flags' = [flags EXCEPT ![n] = @ \cup flag]
    BY DEF ScmaPktRx
  <2> QED
    BY <1>1, <2>1
<1>6. /\ Line("scma")
      /\ UNCHANGED <<begun, status, totalDescargas, eventoInt, nodosApp, infos, eventos,
                     evtTaskFinished>>
  BY DEF ScmaPktRx
<1> QED
  BY <1>1, <1>3, <1>4, <1>5, <1>6, CountingLine DEF TypeOK

LEMMA AodvPacketKeeps ==
    ASSUME IInv, NEW n \in Vehicles, NEW layer \in Layers, NEW dir \in Dirs,
           AodvPacket(n, layer, dir)
    PROVE  IInv'
<1>1. n \in Nodes /\ datosNodo \in [Nodes -> Datos] /\ TypeOK
  BY DEF Nodes, IInv, TypeOK
<1>2. /\ datosNodo' \in [Nodes -> Datos]
      /\ \A x \in Nodes : /\ datosNodo'[x].t_start = datosNodo[x].t_start
                           /\ datosNodo'[x].t_descarga = datosNodo[x].t_descarga
  BY <1>1, CountedType DEF AodvPacket
<1>3. /\ Line("aodv")
      /\ UNCHANGED <<begun, status, totalDescargas, flags, eventoInt, procesaVars>>
  BY DEF AodvPacket
<1> QED
  BY <1>1, <1>2, <1>3, CountingLine DEF TypeOK, procesaVars

\* Requests and missing resources.
LEMMA RequestsKeep ==
    ASSUME IInv, NEW n \in Vehicles, AugmentationRequest(n) \/ InsufficientResources(n)
    PROVE  IInv'
<1>0. datosNodo[n] \in Datos
  BY DEF Nodes, IInv, TypeOK
<1>1. n \in Nodes /\ datosNodo \in [Nodes -> Datos] /\ TypeOK
  BY DEF Nodes, IInv, TypeOK
<1>2. PICK e \in Datos : /\ e.t_start = datosNodo[n].t_start
                         /\ e.t_descarga = datosNodo[n].t_descarga
                         /\ datosNodo' = [datosNodo EXCEPT ![n] = e]
  <2>1. CASE AugmentationRequest(n)
    <3>. DEFINE d == [datosNodo[n] EXCEPT !.augmentation = @ + 1]
    <3>1. d \in Datos /\ d.t_start = datosNodo[n].t_start /\ d.t_descarga = datosNodo[n].t_descarga
      BY <1>0 DEF Datos
    <3>2. datosNodo' = [datosNodo EXCEPT ![n] = d]
      BY <2>1, <1>1 DEF AugmentationRequest
    <3>. HIDE DEF d
    <3> QED
      BY <3>1, <3>2
  <2>2. CASE InsufficientResources(n)
    <3>. DEFINE d == [datosNodo[n] EXCEPT !.insufficient = @ + 1]
    <3>1. d \in Datos /\ d.t_start = datosNodo[n].t_start /\ d.t_descarga = datosNodo[n].t_descarga
      BY <1>0 DEF Datos
    <3>2. datosNodo' = [datosNodo EXCEPT ![n] = d]
      BY <2>2, <1>1 DEF InsufficientResources
    <3>. HIDE DEF d
    <3> QED
      BY <3>1, <3>2
  <2> QED
    BY <2>1, <2>2
<1>3. /\ datosNodo' \in [Nodes -> Datos]
      /\ \A x \in Nodes : /\ datosNodo'[x].t_start = datosNodo[x].t_start
                           /\ datosNodo'[x].t_descarga = datosNodo[x].t_descarga
  BY <1>1, <1>2
<1>4. /\ \E s : Line(s)
      /\ UNCHANGED <<begun, status, totalDescargas, flags, eventoInt, procesaVars>>
  BY DEF AugmentationRequest, InsufficientResources
<1> QED
  BY <1>1, <1>3, <1>4, CountingLine DEF TypeOK, procesaVars

LEMMA StartsKeep ==
    ASSUME IInv, NEW n \in Vehicles, NEW s, Line(s), NEW d \in Datos,
           d.t_start = now', d.t_descarga = datosNodo[n].t_descarga,
           datosNodo' = [datosNodo EXCEPT ![n] = d],
           begun' = begun \cup {n}, UNCHANGED <<status, totalDescargas, eventoInt, TOTALES>>,
           flags' = flags \/ flags' = Cleared(n),
           nodosApp' \subseteq Vehicles,
           \/ s # "scma" /\ UNCHANGED <<infos, eventos, evtTaskFinished>>
           \/ NewDictionary(n) /\ UNCHANGED evtTaskFinished
    PROVE  IInv'
<1>1. /\ now' \in Nat /\ now' >= now /\ now \in Nat
      /\ lines' \in 0 .. MaxLines
      /\ sim' = sim /\ sim = s
  BY LineTime DEF IInv, TypeOK
<1>2. n \in Nodes /\ \A x \in Nodes : datosNodo[x] \in Datos /\ datosNodo[x].t_descarga \in Nat
  BY DEF IInv, TypeOK, Datos, Nodes
<1>3. /\ datosNodo' \in [Nodes -> Datos]
      /\ datosNodo'[n] = d
      /\ \A x \in Nodes \ {n} : datosNodo'[x] = datosNodo[x]
  BY <1>2 DEF IInv, TypeOK
<1>4. flags' \in [Nodes -> SUBSET {"sendTask", "cloudTx", "cloudRx"}]
  BY DEF IInv, TypeOK, Cleared
<1>5. /\ infos' \in Seq(Info)
      /\ eventos' \in [Nodes -> 0 .. Len(infos')]
      /\ evtTaskFinished' \in Seq(1 .. Len(infos'))
      /\ \A x \in Nodes \ {n} : eventos'[x] = eventos[x]
      /\ \A i \in 1 .. Len(infos) : infos'[i] = infos[i]
      /\ s = "scma" => eventos'[n] # 0 /\ infos'[eventos'[n]].Time_0 = now'
  <2>1. CASE s # "scma" /\ UNCHANGED <<infos, eventos, evtTaskFinished>>
    BY <2>1 DEF IInv, TypeOK
  <2>2. CASE NewDictionary(n) /\ UNCHANGED evtTaskFinished
    <3>1. /\ infos \in Seq(Info) /\ eventos \in [Nodes -> 0 .. Len(infos)]
          /\ evtTaskFinished \in Seq(1 .. Len(infos))
      BY DEF IInv, TypeOK
    <3>2. /\ infos' \in Seq(Info) /\ Len(infos') = Len(infos) + 1 /\ Len(infos) \in Nat
          /\ infos'[Len(infos')].Time_0 = now'
          /\ \A i \in 1 .. Len(infos) : infos'[i] = infos[i]
      <4>. DEFINE new == [Time_0 |-> now', Time_Download |-> Unset]
      <4>1. new \in Info /\ new.Time_0 = now'
        BY <1>1 DEF Info
      <4>2. infos' = Append(infos, new)
        BY <2>2 DEF NewDictionary
      <4>. HIDE DEF new
      <4> QED
        BY <3>1, <4>1, <4>2, AppendProperties, LenProperties
    <3>3. eventos' = [eventos EXCEPT ![n] = Len(infos')]
      BY <2>2 DEF NewDictionary
    <3>4. 1 .. Len(infos) \subseteq 1 .. Len(infos')
      BY <3>2
    <3>5. evtTaskFinished' \in Seq(1 .. Len(infos'))
      BY <2>2, <3>1, <3>4, SeqMonotonic
    <3>6. eventos' \in [Nodes -> 0 .. Len(infos')]
      <4>1. \A x \in Nodes : eventos[x] \in 0 .. Len(infos')
        BY <3>1, <3>2
      <4>2. Len(infos') \in 0 .. Len(infos')
        BY <3>2
      <4> QED
        BY <3>1, <3>3, <4>1, <4>2
    <3>7. eventos'[n] # 0 /\ eventos'[n] = Len(infos') /\ \A x \in Nodes \ {n} : eventos'[x] = eventos[x]
      BY <1>2, <3>1, <3>2, <3>3
    <3> QED
      BY <3>2, <3>5, <3>6, <3>7
  <2> QED
    BY <2>1, <2>2
<1>6. TypeOK'
  BY <1>1, <1>3, <1>4, <1>5 DEF IInv, TypeOK
<1>7. TimesFitTheLog'
  BY <1>1, <1>2, <1>3 DEF IInv, TimesFitTheLog
<1>8. \A x \in begun' : Begun(x)'
  <2>1. Begun(n)'
    BY <1>1, <1>2, <1>3, <1>5 DEF Begun, IInv, TimesFitTheLog
  <2>2. \A x \in begun \ {n} : x \in Nodes /\ Begun(x) /\ eventos[x] \in 0 .. Len(infos)
    BY DEF IInv, TypeOK, Nodes
  <2>3. Len(infos) \in Nat
    BY LenProperties DEF IInv, TypeOK
  <2>4. \A x \in begun \ {n} : eventos[x] # 0 => infos'[eventos'[x]] = infos[eventos[x]]
    BY <1>5, <2>2, <2>3
  <2>5. ASSUME NEW x \in begun \ {n}
        PROVE  Begun(x)'
    <3>1. x \in Nodes /\ Begun(x)
      BY <2>2
    <3>2. datosNodo'[x] = datosNodo[x]
      BY <1>1, <1>3, <3>1
    <3>3. eventos[x] # 0 /\ sim = "scma" =>
             eventos'[x] = eventos[x] /\ infos'[eventos'[x]] = infos[eventos[x]]
      BY <1>5, <2>4, <3>1
    <3>4. sim' = sim /\ \A i \in 0 .. now : i \in 0 .. now'
      BY <1>1
    <3> QED
      BY <3>1, <3>2, <3>3, <3>4 DEF Begun
  <2> QED
    BY <2>1, <2>5
<1> QED
  BY <1>6, <1>7, <1>8 DEF IInv, NoKeyError

LEMMA TaskDistributionKeeps ==
    ASSUME IInv, NEW n \in Vehicles, TaskDistribution(n)
    PROVE  IInv'
<1>. DEFINE d == [datosNodo[n] EXCEPT !.nubes = @ + 1, !.t_start = now']
<1>1. n \in Nodes /\ datosNodo \in [Nodes -> Datos]
  BY DEF Nodes, IInv, TypeOK
<1>2. d \in Datos /\ d.t_start = now' /\ d.t_descarga = datosNodo[n].t_descarga
  <2>1. datosNodo[n] \in Datos /\ now' \in Nat
    BY <1>1, LineTime DEF IInv, TaskDistribution
  <2>. DEFINE e == [datosNodo[n] EXCEPT !.nubes = @ + 1]
  <2>2. e \in Datos /\ e.t_descarga = datosNodo[n].t_descarga
    BY <2>1 DEF Datos
  <2>3. d = [e EXCEPT !.t_start = now']
    BY <2>1 DEF Datos
  <2>. HIDE DEF d, e
  <2> QED
    BY <2>1, <2>2, <2>3 DEF Datos
<1>3. datosNodo' = [datosNodo EXCEPT ![n] = d]
  BY <1>1 DEF TaskDistribution, Start
<1>4. nodosApp' \subseteq Vehicles
  BY DEF IInv, TypeOK, TaskDistribution
<1>5. /\ Line("scma")
      /\ begun' = begun \cup {n}
      /\ flags' = Cleared(n)
      /\ NewDictionary(n)
      /\ UNCHANGED <<status, totalDescargas, eventoInt, TOTALES, evtTaskFinished>>
  BY DEF TaskDistribution
<1>. HIDE DEF d
<1> QED
  BY <1>2, <1>3, <1>4, <1>5, StartsKeep

LEMMA NewDownloadKeeps ==
    ASSUME IInv, NEW n \in Vehicles, NewDownload(n)
    PROVE  IInv'
<1>. DEFINE d == [datosNodo[n] EXCEPT !.augmentation = @ + 1, !.t_start = now']
<1>1. n \in Nodes /\ datosNodo \in [Nodes -> Datos]
  BY DEF Nodes, IInv, TypeOK
<1>2. d \in Datos /\ d.t_start = now' /\ d.t_descarga = datosNodo[n].t_descarga
  <2>1. datosNodo[n] \in Datos /\ now' \in Nat
    BY <1>1, LineTime DEF IInv, NewDownload
  <2>. DEFINE e == [datosNodo[n] EXCEPT !.augmentation = @ + 1]
  <2>2. e \in Datos /\ e.t_descarga = datosNodo[n].t_descarga
    BY <2>1 DEF Datos
  <2>3. d = [e EXCEPT !.t_start = now']
    BY <2>1 DEF Datos
  <2>. HIDE DEF d, e
  <2> QED
    BY <2>1, <2>2, <2>3 DEF Datos
<1>3. datosNodo' = [datosNodo EXCEPT ![n] = d]
  BY <1>1 DEF NewDownload, Start
<1>4. /\ Line("aodv")
      /\ begun' = begun \cup {n}
      /\ UNCHANGED <<status, totalDescargas, flags, eventoInt, procesaVars>>
  BY DEF NewDownload
<1>5. nodosApp' \subseteq Vehicles
  BY <1>4 DEF IInv, TypeOK, procesaVars
<1>6. /\ "aodv" # "scma"
      /\ UNCHANGED <<status, totalDescargas, eventoInt, TOTALES>>
      /\ UNCHANGED <<infos, eventos, evtTaskFinished>>
      /\ flags' = flags
  BY <1>4 DEF procesaVars
<1>. HIDE DEF d
<1> QED
  BY <1>2, <1>3, <1>4, <1>5, <1>6, StartsKeep

\* The download time of a node that ends what it has begun grows by the time
\* since its last start.
LEMMA EndedTime ==
    ASSUME IInv, NEW n \in Vehicles, n \in begun, NEW s, Line(s)
    PROVE  /\ Ended(n) \in [Nodes -> Datos]
           /\ Ended(n)[n].t_descarga <= now'
           /\ \A x \in Nodes \ {n} : Ended(n)[x] = datosNodo[x]
<1>1. n \in Nodes /\ datosNodo \in [Nodes -> Datos]
  BY DEF Nodes, IInv, TypeOK
<1>2. datosNodo[n] \in Datos
  BY <1>1
<1>3. now' \in Nat /\ now' >= now /\ now \in Nat
  BY LineTime DEF IInv, TypeOK
<1>4. /\ datosNodo[n].t_start \in 0 .. now
      /\ datosNodo[n].t_descarga <= datosNodo[n].t_start
  BY DEF IInv, Begun
<1>5. /\ datosNodo[n].t_descarga \in Nat /\ datosNodo[n].descargas \in Nat
      /\ Took(n) \in Nat
      /\ datosNodo[n].t_descarga + Took(n) <= now'
  BY <1>2, <1>3, <1>4 DEF Datos, Took
<1>. DEFINE c == [datosNodo[n] EXCEPT !.descargas = @ + 1]
            d == [c EXCEPT !.t_descarga = @ + Took(n)]
<1>6. c \in Datos /\ c.t_descarga = datosNodo[n].t_descarga
  BY <1>2, <1>5 DEF Datos
<1>7. d \in Datos /\ d.t_descarga <= now'
  <2>. HIDE DEF c
  <2> QED
    BY <1>5, <1>6 DEF Datos
<1>8. Ended(n) = [datosNodo EXCEPT ![n] = d]
  BY <1>1 DEF Ended
<1>. HIDE DEF c, d
<1> QED
  BY <1>1, <1>7, <1>8

\* The parts of the invariant that the two endings have in common.
LEMMA EndingKeeps ==
    ASSUME IInv, NEW n \in Vehicles, n \in begun, NEW s, Line(s),
           datosNodo' = datosNodo \/ datosNodo' = Ended(n),
           begun' = begun \ {n}, UNCHANGED eventos,
           \A i \in 1 .. Len(infos) : infos'[i].Time_0 = infos[i].Time_0
    PROVE  /\ datosNodo' \in [Nodes -> Datos]
           /\ TimesFitTheLog'
           /\ \A x \in begun' : Begun(x)'
<1>1. /\ now' \in Nat /\ now' >= now /\ now \in Nat
      /\ sim' = sim
  BY LineTime DEF IInv, TypeOK
<1>2. n \in Nodes /\ datosNodo \in [Nodes -> Datos]
  BY DEF IInv, TypeOK, Nodes
<1>3. \A x \in Nodes : datosNodo[x].t_descarga \in Nat /\ datosNodo[x].t_descarga <= now
  BY DEF IInv, TypeOK, TimesFitTheLog, Datos
<1>4. /\ datosNodo' \in [Nodes -> Datos]
      /\ datosNodo'[n].t_descarga <= now'
      /\ \A x \in Nodes \ {n} : datosNodo'[x] = datosNodo[x]
  BY <1>1, <1>2, <1>3, EndedTime
<1>5. TimesFitTheLog'
  BY <1>1, <1>3, <1>4 DEF TimesFitTheLog
<1>6. \A x \in begun' : x \in Nodes \ {n} /\ Begun(x) /\ eventos[x] \in 0 .. Len(infos)
  BY DEF IInv, TypeOK, Nodes
<1>7. Len(infos) \in Nat
  BY LenProperties DEF IInv, TypeOK
<1>8. \A x \in begun' : eventos[x] # 0 => infos'[eventos'[x]].Time_0 = infos[eventos[x]].Time_0
  BY <1>6, <1>7
<1>9. \A x \in begun' : Begun(x)'
  BY <1>1, <1>4, <1>6, <1>8 DEF Begun
<1> QED
  BY <1>4, <1>5, <1>9

LEMMA TaskFinishedKeeps ==
    ASSUME IInv, NEW n \in Vehicles, TaskFinished(n)
    PROVE  IInv'
<1>1. /\ n \in begun /\ Line("scma") /\ begun' = begun \ {n}
      /\ UNCHANGED <<eventoInt, TOTALES, nodosApp, eventos>>
      /\ flags' = Cleared(n)
  BY DEF TaskFinished, MayEnd
<1>2. /\ now' \in Nat /\ now' >= now /\ now \in Nat
      /\ lines' \in 0 .. MaxLines
      /\ sim' = sim /\ sim = "scma"
  BY <1>1, LineTime DEF IInv, TypeOK
<1>3. n \in Nodes /\ datosNodo[n].t_start # Unset /\ eventos[n] # 0
  BY <1>1, <1>2 DEF IInv, Begun, Nodes, Unset, TypeOK
<1>4. /\ datosNodo' = Ended(n) /\ totalDescargas' = totalDescargas + 1
      /\ infos' = [infos EXCEPT ![eventos[n]].Time_Download = now' - infos[eventos[n]].Time_0]
      /\ evtTaskFinished' = Append(evtTaskFinished, eventos[n])
      /\ status' = status
  BY <1>3 DEF TaskFinished
<1>5. /\ infos \in Seq(Info) /\ eventos \in [Nodes -> 0 .. Len(infos)]
      /\ evtTaskFinished \in Seq(1 .. Len(infos))
  BY DEF IInv, TypeOK
<1>6. Len(infos) \in Nat /\ eventos[n] \in 1 .. Len(infos)
  BY <1>3, <1>5, LenProperties
<1>. DEFINE old == infos[eventos[n]]
            new == [old EXCEPT !.Time_Download = now' - old.Time_0]
<1>7. old \in Info
  BY <1>5, <1>6, ElementOfSeq
<1>8. old.Time_0 \in 0 .. now
  BY <1>1, <1>2 DEF IInv, Begun
<1>9. new \in Info /\ new.Time_0 = old.Time_0
  <2>. HIDE DEF old
  <2> QED
    BY <1>2, <1>7, <1>8 DEF Info
<1>10. infos' = [infos EXCEPT ![eventos[n]] = new]
  BY <1>4, <1>5, <1>6
<1>11. /\ infos' \in Seq(Info) /\ Len(infos') = Len(infos)
       /\ \A i \in 1 .. Len(infos) : infos'[i] = IF i = eventos[n] THEN new ELSE infos[i]
  <2>. HIDE DEF old, new
  <2> QED
    BY <1>5, <1>6, <1>9, <1>10, ExceptSeq, LenProperties
<1>12. \A i \in 1 .. Len(infos) : infos'[i].Time_0 = infos[i].Time_0
  <2>. HIDE DEF new
  <2> QED
    BY <1>9, <1>11
<1>13. evtTaskFinished' \in Seq(1 .. Len(infos'))
  BY <1>4, <1>5, <1>6, <1>11, AppendProperties
<1>14. /\ datosNodo' \in [Nodes -> Datos]
       /\ TimesFitTheLog'
       /\ \A x \in begun' : Begun(x)'
  BY <1>1, <1>4, <1>12, EndingKeeps
<1>15. /\ flags' \in [Nodes -> SUBSET {"sendTask", "cloudTx", "cloudRx"}]
       /\ totalDescargas' \in Nat
       /\ begun' \subseteq Vehicles
  <2>1. /\ flags \in [Nodes -> SUBSET {"sendTask", "cloudTx", "cloudRx"}]
        /\ totalDescargas \in Nat /\ begun \subseteq Vehicles
    BY DEF IInv, TypeOK
  <2>2. flags' \in [Nodes -> SUBSET {"sendTask", "cloudTx", "cloudRx"}]
    BY <1>1, <2>1 DEF Cleared
  <2> QED
    BY <1>1, <1>4, <2>1, <2>2
<1>16. TypeOK'
  BY <1>1, <1>2, <1>4, <1>5, <1>11, <1>13, <1>14, <1>15 DEF IInv, TypeOK
<1> QED
  BY <1>4, <1>14, <1>16 DEF IInv, NoKeyError

LEMMA DownloadCompleteKeeps ==
    ASSUME IInv, NEW n \in Vehicles, DownloadComplete(n)
    PROVE  IInv'
<1>1. /\ n \in begun /\ Line("aodv") /\ begun' = begun \ {n}
      /\ UNCHANGED <<flags, eventoInt, procesaVars>>
  BY DEF DownloadComplete, MayEnd
<1>2. /\ now' \in Nat
      /\ lines' \in 0 .. MaxLines
      /\ sim' = sim
  BY <1>1, LineTime DEF IInv, TypeOK
<1>3. datosNodo[n].t_start # Unset
  BY <1>1 DEF IInv, Begun, Unset, TypeOK
<1>4. /\ datosNodo' = Ended(n) /\ totalDescargas' = totalDescargas + 1
      /\ status' = status
  BY <1>3 DEF DownloadComplete
<1>5. UNCHANGED <<TOTALES, nodosApp, infos, eventos, evtTaskFinished>>
  BY <1>1 DEF procesaVars
<1>6. /\ datosNodo' \in [Nodes -> Datos]
      /\ TimesFitTheLog'
      /\ \A x \in begun' : Begun(x)'
  BY <1>1, <1>4, <1>5, EndingKeeps
<1>7. TypeOK'
  BY <1>1, <1>2, <1>4, <1>5, <1>6 DEF IInv, TypeOK
<1> QED
  BY <1>4, <1>6, <1>7 DEF IInv, NoKeyError

LEMMA EndOfFileKeeps ==
    ASSUME IInv, EndOfFile
    PROVE  IInv'
<1>1. /\ UNCHANGED <<sim, now, lines, begun, datosNodo, totalDescargas, flags, eventoInt,
                     TOTALES, nodosApp, infos, eventos, evtTaskFinished>>
      /\ status' \in {"empty", "done"}
  BY DEF EndOfFile, nodoVars, procesaVars
<1> QED
  BY <1>1 DEF IInv, TypeOK, NoKeyError, TimesFitTheLog, Begun

LEMMA Stutters ==
    ASSUME IInv, UNCHANGED vars
    PROVE  IInv'
BY DEF IInv, TypeOK, NoKeyError, TimesFitTheLog, Begun, vars, nodoVars, procesaVars

LEMMA InitIInv == Init => IInv
<1>. SUFFICES ASSUME Init PROVE IInv
  OBVIOUS
<1>1. datosNodo \in [Nodes -> Datos] /\ \A n \in Nodes : datosNodo[n].t_descarga = 0
  <2>. DEFINE d == [augmentation |-> 0, insufficient |-> 0, nubes |-> 0, descargas |-> 0,
                    t_start |-> Unset, t_descarga |-> 0, packets |-> [x \in Layers \X Dirs |-> 0]]
  <2>1. d \in Datos /\ d.t_descarga = 0
    BY DEF Datos
  <2>2. datosNodo = [n \in Nodes |-> d]
    BY DEF Init
  <2>. HIDE DEF d
  <2> QED
    BY <2>1, <2>2
<1>2. infos = <<>> /\ Len(infos) = 0 /\ infos \in Seq(Info) /\ evtTaskFinished \in Seq(1 .. Len(infos))
  BY EmptySeq DEF Init
<1>3. flags \in [Nodes -> SUBSET {"sendTask", "cloudTx", "cloudRx"}]
  BY DEF Init
<1>4. eventos \in [Nodes -> 0 .. Len(infos)] /\ TOTALES \in [Dirs -> Nat]
  BY <1>2 DEF Init
<1>5. TypeOK
  BY <1>1, <1>2, <1>3, <1>4, LogConstantsOK DEF Init, TypeOK
<1> QED
  BY <1>1, <1>5 DEF Init, IInv, NoKeyError, TimesFitTheLog

LEMMA NextIInv == IInv /\ [Next]_vars => IInv'
<1>. SUFFICES ASSUME IInv, [Next]_vars PROVE IInv'
  OBVIOUS
<1>1. CASE \E n \in Nodes, dir \in Dirs : IbrPacket(n, dir)
  BY <1>1, IbrPacketKeeps
<1>2. CASE \E n \in Nodes, msg \in {"CloudResourceInfo", "SendTaskToCN", "other"} : ScmaPktTx(n, msg)
  BY <1>2, ScmaPktTxKeeps
<1>3. CASE \E n \in Nodes : ScmaPktRx(n)
  BY <1>3, ScmaPktRxKeeps
<1>4. CASE \E n \in Vehicles : \/ AugmentationRequest(n) \/ TaskDistribution(n) \/ TaskFinished(n)
                               \/ NewDownload(n) \/ InsufficientResources(n) \/ DownloadComplete(n)
  BY <1>4, RequestsKeep, TaskDistributionKeeps, TaskFinishedKeeps, NewDownloadKeeps,
     DownloadCompleteKeeps
<1>5. CASE \E n \in Vehicles, layer \in Layers, dir \in Dirs : AodvPacket(n, layer, dir)
  BY <1>5, AodvPacketKeeps
<1>6. CASE EndOfFile
  BY <1>6, EndOfFileKeeps
<1>7. CASE UNCHANGED vars
  BY <1>7, Stutters
<1> QED
  BY <1>1, <1>2, <1>3, <1>4, <1>5, <1>6, <1>7 DEF Next

\* The strengthening holds in every state of every log.
THEOREM IInvHolds == Spec => []IInv
<1>1. Init => IInv
  BY InitIInv
<1>2. IInv /\ [Next]_vars => IInv'
  BY NextIInv
<1> QED
  BY <1>1, <1>2, PTL DEF Spec

\* The variables keep their types: no packet, download or time is ever negative.
THEOREM TypeCorrect == Spec => []TypeOK
<1>1. IInv => TypeOK
  BY DEF IInv
<1> QED
  BY <1>1, IInvHolds, PTL

\* No line of a log, however the downloads of the nodes are mixed in it, makes a
\* script look up an entry that is not there.
THEOREM NeverAKeyError == Spec => []NoKeyError
<1>1. IInv => NoKeyError
  BY DEF IInv
<1> QED
  BY <1>1, IInvHolds, PTL

\* The sum of the download times of a node is at most the length of the log,
\* however many downloads it began without ending.
THEOREM DownloadTimesFit == Spec => []TimesFitTheLog
<1>1. IInv => TimesFitTheLog
  BY DEF IInv
<1> QED
  BY <1>1, IInvHolds, PTL

-----------------------------------------------------------------------------
(***************************************************************************)
(* A leader's answers.  The flag that keeps the second one from counting   *)
(* is set by the first, and cleared only by the lines of downloads, which  *)
(* leaders do not write.                                                   *)
(***************************************************************************)
Sent(n) == datosNodo[n].packets[<<"own", "Tx">>]

Once(n) == Sent(n) \in {0, 1} /\ ("cloudTx" \notin flags[n] => Sent(n) = 0)

OnceInv == \A n \in Leaders : Once(n)

\* Counting a packet changes one counter of one node.
LEMMA CountedPackets ==
    ASSUME datosNodo \in [Nodes -> Datos], NEW n \in Nodes, NEW m \in Nodes,
           NEW layer \in Layers, NEW dir \in Dirs, datosNodo' = Counted(n, layer, dir)
    PROVE  IF m = n /\ <<layer, dir>> = <<"own", "Tx">>
           THEN Sent(m)' = Sent(m) + 1 ELSE Sent(m)' = Sent(m)
<1>. DEFINE p == [datosNodo[n].packets EXCEPT ![<<layer, dir>>] = @ + 1]
<1>1. \A x \in Nodes : datosNodo[x].packets \in [Layers \X Dirs -> Nat]
  BY DEF Datos
<1>2. datosNodo' = [datosNodo EXCEPT ![n] = [@ EXCEPT !.packets = p]]
  BY DEF Counted
<1>3. datosNodo'[m].packets = IF m = n THEN p ELSE datosNodo[m].packets
  <2>1. datosNodo[n] \in Datos
    OBVIOUS
  <2>2. [datosNodo[n] EXCEPT !.packets = p].packets = p
    <3>. HIDE DEF p
    <3> QED
      BY <2>1 DEF Datos
  <2>. HIDE DEF p
  <2> QED
    BY <1>2, <2>2
<1>4. <<"own", "Tx">> \in Layers \X Dirs /\ <<layer, dir>> \in Layers \X Dirs
  BY DEF Layers, Dirs
<1>5. p[<<"own", "Tx">>] = IF <<layer, dir>> = <<"own", "Tx">>
                           THEN datosNodo[n].packets[<<"own", "Tx">>] + 1
                           ELSE datosNodo[n].packets[<<"own", "Tx">>]
  BY <1>1, <1>4
<1>. HIDE DEF p
<1> QED
  BY <1>3, <1>5 DEF Sent

\* The lines of vehicles change nothing of a leader.
LEMMA VehiclesOnly ==
    ASSUME TypeOK, NEW n \in Vehicles, NEW m \in Leaders,
           \/ AugmentationRequest(n) \/ TaskDistribution(n) \/ TaskFinished(n)
           \/ NewDownload(n) \/ InsufficientResources(n) \/ DownloadComplete(n)
           \/ \E layer \in Layers, dir \in Dirs : AodvPacket(n, layer, dir)
    PROVE  datosNodo'[m] = datosNodo[m] /\ flags'[m] = flags[m]
<1>1. m # n /\ m \in Nodes /\ n \in Nodes
  BY LogConstantsOK DEF Nodes
<1>2. \/ datosNodo' = datosNodo
      \/ \E d : datosNodo' = [datosNodo EXCEPT ![n] = d]
  <2>1. CASE AugmentationRequest(n)
    BY <2>1 DEF AugmentationRequest
  <2>2. CASE TaskDistribution(n)
    BY <2>2 DEF TaskDistribution
  <2>3. CASE TaskFinished(n)
    BY <2>3 DEF TaskFinished, Ended
  <2>4. CASE NewDownload(n)
    BY <2>4 DEF NewDownload
  <2>5. CASE InsufficientResources(n)
    BY <2>5 DEF InsufficientResources
  <2>6. CASE DownloadComplete(n)
    BY <2>6 DEF DownloadComplete, Ended
  <2>7. CASE \E layer \in Layers, dir \in Dirs : AodvPacket(n, layer, dir)
    BY <2>7 DEF AodvPacket, Counted
  <2> QED
    BY <2>1, <2>2, <2>3, <2>4, <2>5, <2>6, <2>7
<1>3. flags' = flags \/ flags' = Cleared(n)
  BY DEF AugmentationRequest, TaskDistribution, TaskFinished, NewDownload,
         InsufficientResources, DownloadComplete, AodvPacket
<1>4. datosNodo'[m] = datosNodo[m]
  BY <1>1, <1>2 DEF TypeOK
<1>5. flags'[m] = flags[m]
  BY <1>1, <1>3 DEF TypeOK, Cleared
<1> QED
  BY <1>4, <1>5

LEMMA OnceStep ==
    ASSUME TypeOK, OnceInv, [Next]_vars, NEW m \in Leaders
    PROVE  Once(m)'
<1>1. /\ m \in Nodes /\ Once(m)
      /\ datosNodo \in [Nodes -> Datos]
      /\ "own" \in Layers /\ "routing" \in Layers /\ "Tx" \in Dirs /\ "Rx" \in Dirs
  BY DEF Nodes, OnceInv, TypeOK, Layers, Dirs
<1>2. ASSUME NEW n \in Nodes, NEW dir \in Dirs, IbrPacket(n, dir)
      PROVE  Once(m)'
  <2>1. datosNodo' = Counted(n, "routing", dir) /\ flags' = flags
    BY <1>2 DEF IbrPacket
  <2>2. Sent(m)' = Sent(m)
    BY <1>1, <2>1, CountedPackets
  <2> QED
    BY <1>1, <2>1, <2>2 DEF Once
<1>3. ASSUME NEW n \in Nodes, NEW msg \in {"CloudResourceInfo", "SendTaskToCN", "other"},
             ScmaPktTx(n, msg)
      PROVE  Once(m)'
  <2>1. CASE n # m
    <3>1. Sent(m)' = Sent(m)
      BY <1>1, <1>3, <2>1, CountedPackets DEF ScmaPktTx, Sent
    <3>2. flags'[m] = flags[m]
      BY <1>1, <1>3, <2>1 DEF ScmaPktTx, TypeOK
    <3> QED
      BY <1>1, <3>1, <3>2 DEF Once
  <2>2. CASE n = m
    <3>1. msg = "CloudResourceInfo"
      BY <1>3, <2>2 DEF ScmaPktTx
    <3>2. flags' = [flags EXCEPT ![m] = @ \cup {"cloudTx"}]
      BY <1>3, <2>2, <3>1 DEF ScmaPktTx
    <3>3. "cloudTx" \in flags'[m]
      BY <1>1, <3>2 DEF TypeOK
    <3>4. CASE "cloudTx" \in flags[m]
      <4>1. datosNodo' = datosNodo
        BY <1>3, <2>2, <3>1, <3>4 DEF ScmaPktTx
      <4> QED
        BY <1>1, <3>3, <4>1 DEF Once, Sent
    <3>5. CASE "cloudTx" \notin flags[m]
      <4>1. datosNodo' = Counted(m, "own", "Tx")
        BY <1>3, <2>2, <3>1, <3>5 DEF ScmaPktTx
      <4>2. Sent(m) = 0 /\ Sent(m)' = Sent(m) + 1
        BY <1>1, <3>5, <4>1, CountedPackets DEF Once
      <4> QED
        BY <3>3, <4>2 DEF Once
    <3> QED
      BY <3>4, <3>5
  <2> QED
    BY <2>1, <2>2
<1>4. ASSUME NEW n \in Nodes, ScmaPktRx(n)
      PROVE  Once(m)'
  <2>1. datosNodo' = datosNodo \/ datosNodo' = Counted(n, "own", "Rx")
    BY <1>4 DEF ScmaPktRx
  <2>2. Sent(m)' = Sent(m)
    BY <1>1, <2>1, CountedPackets DEF Sent
  <2>3. "cloudTx" \notin flags'[m] => "cloudTx" \notin flags[m]
    BY <1>1, <1>4 DEF ScmaPktRx, TypeOK
  <2> QED
    BY <1>1, <2>2, <2>3 DEF Once
<1>5. ASSUME NEW n \in Vehicles,
             \/ AugmentationRequest(n) \/ TaskDistribution(n) \/ TaskFinished(n)
             \/ NewDownload(n) \/ InsufficientResources(n) \/ DownloadComplete(n)
             \/ \E layer \in Layers, dir \in Dirs : AodvPacket(n, layer, dir)
      PROVE  Once(m)'
  BY <1>1, <1>5, VehiclesOnly DEF Once, Sent
<1>6. CASE EndOfFile \/ UNCHANGED vars
  BY <1>1, <1>6 DEF EndOfFile, vars, nodoVars, Once, Sent
<1> QED
  BY <1>2, <1>3, <1>4, <1>5, <1>6 DEF Next

\* All the answers of a leader count as one packet, in a log of any length: the
\* downloads of vehicles never clear a leader's flag.
THEOREM AnswersCountOnce == Spec => []LeadersCountOnce
<1>1. Init => OnceInv
  <2>1. ASSUME Init, NEW n \in Leaders PROVE Once(n)
    <3>1. n \in Nodes /\ <<"own", "Tx">> \in Layers \X Dirs
      BY DEF Nodes, Layers, Dirs
    <3> QED
      BY <2>1, <3>1 DEF Init, Once, Sent
  <2> QED
    BY <2>1 DEF OnceInv
<1>2. TypeOK /\ OnceInv /\ [Next]_vars => OnceInv'
  BY OnceStep DEF OnceInv
<1>3. OnceInv => LeadersCountOnce
  BY DEF OnceInv, Once, Sent, LeadersCountOnce
<1> QED
  BY <1>1, <1>2, <1>3, TypeCorrect, PTL DEF Spec

-----------------------------------------------------------------------------
(***************************************************************************)
(* The download times that the two scripts of SCMA find.  procesa's are in *)
(* dictionaries it keeps references to: none of those in evtTaskFinished   *)
(* is changed any more, as a node that has something begun has a           *)
(* dictionary that is not among them, and no node has that of another.     *)
(***************************************************************************)
Times == [n \in Nodes |-> datosNodo[n].t_descarga]

NotedTimes == [i \in DOMAIN evtTaskFinished |-> infos[evtTaskFinished[i]].Time_Download]

Separate ==
    /\ \A n \in begun : \A i \in DOMAIN evtTaskFinished : evtTaskFinished[i] # eventos[n]
    /\ \A m, n \in Nodes : eventos[m] = eventos[n] /\ eventos[n] # 0 => m = n

AgreeInv == ScriptsAgree /\ (sim = "scma" => Separate)

LEMMA SumsFollow ==
    /\ SumFunction(Times)' = SumFunction(Times')
    /\ SumFunction(NotedTimes)' = SumFunction(NotedTimes')
BY DEF SumFunction, SumFunctionOnSet, FoldFunctionOnSet, MapThenFoldSet

\* A line without a start or an end of a download.
LEMMA AgreeSame ==
    ASSUME IInv, AgreeInv, sim' = sim, UNCHANGED <<begun, totalDescargas, infos, eventos, evtTaskFinished>>,
           \A n \in Nodes : datosNodo'[n].t_descarga = datosNodo[n].t_descarga
    PROVE  AgreeInv'
<1>1. Times' = Times /\ NotedTimes' = NotedTimes
  BY DEF Times, NotedTimes
<1>2. ScriptsAgree'
  <2>1. SumFunction(Times)' = SumFunction(Times) /\ SumFunction(NotedTimes)' = SumFunction(NotedTimes)
    BY <1>1, SumsFollow
  <2> QED
    BY <2>1 DEF AgreeInv, ScriptsAgree, Times, NotedTimes
<1>3. sim = "scma" => Separate'
  BY DEF AgreeInv, Separate
<1> QED
  BY <1>2, <1>3 DEF AgreeInv

\* A start makes a new dictionary.
LEMMA AgreeStarts ==
    ASSUME IInv, AgreeInv, NEW n \in Vehicles, TaskDistribution(n)
    PROVE  AgreeInv'
<1>1. /\ n \in Nodes /\ datosNodo \in [Nodes -> Datos]
      /\ infos \in Seq(Info) /\ evtTaskFinished \in Seq(1 .. Len(infos))
      /\ eventos \in [Nodes -> 0 .. Len(infos)]
      /\ begun \subseteq Nodes
      /\ sim = "scma" /\ sim' = sim /\ Separate
  BY DEF Nodes, IInv, TypeOK, TaskDistribution, Line, AgreeInv
<1>. DEFINE new == [Time_0 |-> now', Time_Download |-> Unset]
<1>2. /\ begun' = begun \cup {n} /\ infos' = Append(infos, new)
      /\ eventos' = [eventos EXCEPT ![n] = Len(infos')]
      /\ UNCHANGED <<totalDescargas, evtTaskFinished>>
  BY DEF TaskDistribution, NewDictionary
<1>. HIDE DEF new
<1>3. /\ Len(infos) \in Nat /\ Len(infos') = Len(infos) + 1
      /\ \A i \in 1 .. Len(infos) : infos'[i] = infos[i]
  BY <1>1, <1>2
<1>4. \A i \in DOMAIN evtTaskFinished : evtTaskFinished[i] \in 1 .. Len(infos)
  BY <1>1
<1>5. NotedTimes' = NotedTimes
  BY <1>2, <1>3, <1>4 DEF NotedTimes
<1>6. Times' = Times
  <2>. DEFINE d == [datosNodo[n] EXCEPT !.nubes = @ + 1, !.t_start = Start(n)]
  <2>1. d.t_descarga = datosNodo[n].t_descarga
    BY <1>1 DEF Datos
  <2>2. datosNodo' = [datosNodo EXCEPT ![n] = d]
    BY <1>1 DEF TaskDistribution
  <2>. HIDE DEF d
  <2>3. \A m \in Nodes : datosNodo'[m].t_descarga = datosNodo[m].t_descarga
    BY <1>1, <2>1, <2>2
  <2> QED
    BY <2>3 DEF Times
<1>7. ScriptsAgree'
  <2>1. SumFunction(Times)' = SumFunction(Times) /\ SumFunction(NotedTimes)' = SumFunction(NotedTimes)
    BY <1>5, <1>6, SumsFollow
  <2> QED
    BY <1>1, <1>2, <2>1 DEF AgreeInv, ScriptsAgree, Times, NotedTimes
<1>8. \A m \in Nodes : eventos'[m] = IF m = n THEN Len(infos) + 1 ELSE eventos[m]
  BY <1>1, <1>2, <1>3
<1>9. Separate'
  <2>1. ASSUME NEW m \in begun', NEW i \in DOMAIN evtTaskFinished'
        PROVE  evtTaskFinished'[i] # eventos'[m]
    BY <1>1, <1>2, <1>3, <1>4, <1>8 DEF Separate
  <2>2. ASSUME NEW m \in Nodes, NEW k \in Nodes, eventos'[m] = eventos'[k], eventos'[k] # 0
        PROVE  m = k
    <3>1. eventos[m] \in 0 .. Len(infos) /\ eventos[k] \in 0 .. Len(infos)
      BY <1>1
    <3> QED
      BY <1>1, <1>3, <1>8, <2>2, <3>1 DEF Separate
  <2> QED
    BY <2>1, <2>2 DEF Separate
<1> QED
  BY <1>7, <1>9 DEF AgreeInv

\* An end adds the same time to both sums: the node's clock and the dictionary
\* have the same start.
LEMMA AgreeEnds ==
    ASSUME IInv, AgreeInv, NEW n \in Vehicles, TaskFinished(n)
    PROVE  AgreeInv'
<1>1. /\ n \in Nodes /\ datosNodo \in [Nodes -> Datos] /\ datosNodo[n] \in Datos
      /\ infos \in Seq(Info) /\ evtTaskFinished \in Seq(1 .. Len(infos))
      /\ eventos \in [Nodes -> 0 .. Len(infos)]
      /\ begun \subseteq Nodes /\ n \in begun
      /\ now \in Nat /\ now' \in Nat /\ totalDescargas \in Nat
      /\ sim = "scma" /\ sim' = sim /\ Separate
  BY LineTime DEF Nodes, IInv, TypeOK, TaskFinished, MayEnd, Line, AgreeInv
<1>2. /\ datosNodo[n].t_start \in 0 .. now
      /\ eventos[n] # 0
      /\ infos[eventos[n]].Time_0 = datosNodo[n].t_start
  BY <1>1 DEF IInv, Begun
<1>. DEFINE e == eventos[n]
            took == now' - datosNodo[n].t_start
<1>3. /\ datosNodo' = Ended(n)
      /\ totalDescargas' = totalDescargas + 1
      /\ infos' = [infos EXCEPT ![e].Time_Download = now' - infos[e].Time_0]
      /\ evtTaskFinished' = Append(evtTaskFinished, e)
      /\ begun' = begun \ {n} /\ eventos' = eventos
  BY <1>1, <1>2 DEF TaskFinished, Unset
<1>4. /\ e \in 1 .. Len(infos) /\ took \in Int
      /\ infos'[e].Time_Download = took
      /\ \A i \in 1 .. Len(infos) : i # e => infos'[i] = infos[i]
  <2>1. e \in 1 .. Len(infos) /\ DOMAIN infos = 1 .. Len(infos)
    BY <1>1, <1>2
  <2>2. infos[e] \in Info
    BY <1>1, <2>1
  <2>. DEFINE d == [infos[e] EXCEPT !.Time_Download = now' - infos[e].Time_0]
  <2>3. d.Time_Download = took
    BY <1>2, <2>2 DEF Info
  <2>4. infos' = [infos EXCEPT ![e] = d]
    BY <1>3, <2>1
  <2>. HIDE DEF d
  <2> QED
    BY <1>1, <1>2, <2>1, <2>3, <2>4
<1>. HIDE DEF e
<1>5. \A m \in Nodes : Times'[m] = IF m = n THEN Times[m] + took ELSE Times[m]
  <2>. DEFINE d == [datosNodo[n] EXCEPT !.descargas = @ + 1, !.t_descarga = @ + took]
  <2>1. d.t_descarga = datosNodo[n].t_descarga + took
    <3>. HIDE DEF took
    <3> QED
      BY <1>1 DEF Datos
  <2>2. datosNodo' = [datosNodo EXCEPT ![n] = d]
    BY <1>1, <1>3 DEF Ended, Took
  <2>. HIDE DEF d, took
  <2> QED
    BY <1>1, <2>1, <2>2 DEF Times
<1>. HIDE DEF took
<1>. DEFINE k == Len(evtTaskFinished)
<1>6. /\ k \in Nat /\ Len(evtTaskFinished') = k + 1
      /\ DOMAIN evtTaskFinished = 1 .. k /\ DOMAIN evtTaskFinished' = 1 .. k + 1
      /\ \A i \in 1 .. k : evtTaskFinished'[i] = evtTaskFinished[i] /\ evtTaskFinished[i] \in 1 .. Len(infos)
      /\ evtTaskFinished'[k + 1] = e
  BY <1>1, <1>3, <1>4
<1>. HIDE DEF k
<1>7. /\ \A i \in 1 .. k : NotedTimes'[i] = NotedTimes[i]
      /\ NotedTimes'[k + 1] = took
  <2>1. \A i \in 1 .. k : evtTaskFinished[i] # e
    BY <1>1, <1>6 DEF Separate, e
  <2>2. /\ \A i \in 1 .. k : NotedTimes[i] = infos[evtTaskFinished[i]].Time_Download
        /\ \A i \in 1 .. k + 1 : NotedTimes'[i] = infos'[evtTaskFinished'[i]].Time_Download
    BY <1>6 DEF NotedTimes
  <2>3. k + 1 \in 1 .. k + 1 /\ \A i \in 1 .. k : i \in 1 .. k + 1
    BY <1>6
  <2>4. \A i \in 1 .. k : infos'[evtTaskFinished'[i]] = infos[evtTaskFinished[i]]
    BY <1>4, <1>6, <2>1
  <2>5. ASSUME NEW i \in 1 .. k
        PROVE  NotedTimes'[i] = NotedTimes[i]
    <3>1. NotedTimes[i] = infos[evtTaskFinished[i]].Time_Download
      BY <2>2
    <3>2. NotedTimes'[i] = infos'[evtTaskFinished'[i]].Time_Download
      BY <2>2, <2>3
    <3>3. infos'[evtTaskFinished'[i]] = infos[evtTaskFinished[i]]
      BY <2>4
    <3> QED
      BY <3>1, <3>2, <3>3
  <2>6. infos'[e].Time_Download = took
    BY <1>4
  <2>7. NotedTimes'[k + 1] = took
    BY <1>6, <2>2, <2>3, <2>6, Zenon
  <2> QED
    BY <2>5, <2>7
<1>8. \A i \in 1 .. k : NotedTimes[i] \in Int
  <2>1. \A j \in 1 .. Len(infos) : infos[j].Time_Download \in Int
    <3>1. \A x \in Info : x.Time_Download \in Int
      BY DEF Info, Unset
    <3>2. \A j \in 1 .. Len(infos) : infos[j] \in Info
      BY <1>1
    <3> QED
      BY <3>1, <3>2
  <2> QED
    BY <1>6, <2>1 DEF NotedTimes
<1>. DEFINE t == Times
            u == Times'
            f == NotedTimes
            g == NotedTimes'
<1>9. \A m \in Nodes : Times[m] \in Int
  BY <1>1 DEF Times, Datos
<1>10. DOMAIN t = Nodes /\ DOMAIN u = Nodes /\ DOMAIN f = 1 .. k /\ DOMAIN g = 1 .. k + 1
  BY <1>6 DEF Times, NotedTimes
<1>11. /\ \A m \in Nodes : t[m] \in Int /\ u[m] = IF m = n THEN t[m] + took ELSE t[m]
       /\ \A i \in 1 .. k : f[i] \in Int /\ g[i] = f[i]
       /\ g[k + 1] = took
  BY <1>5, <1>7, <1>8, <1>9
<1>12. SumFunction(t) = SumFunction(f) /\ k = totalDescargas
  BY <1>1 DEF AgreeInv, ScriptsAgree, Times, NotedTimes, k
<1>. HIDE DEF t, u, f, g
<1>13. IsFiniteSet(Nodes) /\ IsFiniteSet(1 .. k)
  BY <1>6, LogConstantsOK, FS_Interval DEF Nodes
<1>14. Sum(u, Nodes) = Sum(t, Nodes) + u[n] - t[n] /\ Sum(t, Nodes) \in Int
  <2>1. IntegerOn(t, Nodes) /\ IntegerOn(u, Nodes)
    BY <1>4, <1>11 DEF IntegerOn
  <2> QED
    BY <1>1, <1>11, <1>13, <2>1, SumOneChanges, SumInteger
<1>15. Sum(g, 1 .. k + 1) = Sum(f, 1 .. k) + g[k + 1] /\ Sum(f, 1 .. k) \in Int
  <2>1. IntegerOn(g, 1 .. k + 1) /\ IntegerOn(f, 1 .. k)
    <3>1. \A i \in 1 .. k + 1 : i \in 1 .. k \/ i = k + 1
      BY <1>6
    <3> QED
      BY <1>4, <1>11, <3>1 DEF IntegerOn
  <2> QED
    BY <1>6, <1>11, <1>13, <2>1, SumAppends, SumInteger
<1>16. SumFunction(u) = SumFunction(g)
  <2>1. Sum(t, Nodes) = Sum(f, 1 .. k)
    BY <1>10, <1>12 DEF SumFunction, Sum
  <2>2. u[n] = t[n] + took /\ t[n] \in Int /\ g[k + 1] = took
    BY <1>1, <1>11
  <2>3. Sum(u, Nodes) = Sum(g, 1 .. k + 1)
    BY <1>4, <1>14, <1>15, <2>1, <2>2
  <2> QED
    BY <1>10, <2>3 DEF SumFunction, Sum
<1>17. ScriptsAgree'
  <2>1. SumFunction(Times)' = SumFunction(NotedTimes)'
    BY <1>16 DEF u, g, SumFunction, SumFunctionOnSet, FoldFunctionOnSet, MapThenFoldSet
  <2>2. Len(evtTaskFinished') = totalDescargas'
    BY <1>3, <1>6, <1>12
  <2> QED
    BY <2>1, <2>2 DEF ScriptsAgree, Times, NotedTimes
<1>18. Separate'
  <2>1. ASSUME NEW m \in begun', NEW i \in DOMAIN evtTaskFinished'
        PROVE  evtTaskFinished'[i] # eventos'[m]
    <3>1. m \in begun /\ m # n /\ m \in Nodes
      BY <1>1, <1>3
    <3>2. eventos[m] # e
      BY <1>1, <1>2, <3>1 DEF Separate, e
    <3>3. i \in 1 .. k \/ i = k + 1
      BY <1>6
    <3> QED
      BY <1>1, <1>3, <1>6, <3>1, <3>2, <3>3 DEF Separate
  <2> QED
    BY <1>1, <1>3, <2>1 DEF Separate
<1> QED
  BY <1>17, <1>18 DEF AgreeInv

LEMMA AgreeStep ==
    ASSUME IInv, AgreeInv, [Next]_vars
    PROVE  AgreeInv'
<1>1. datosNodo \in [Nodes -> Datos] /\ "own" \in Layers /\ "routing" \in Layers
      /\ "Tx" \in Dirs /\ "Rx" \in Dirs
  BY DEF IInv, TypeOK, Layers, Dirs
<1>2. ASSUME NEW n \in Nodes, NEW layer \in Layers, NEW d \in Dirs,
             datosNodo' = datosNodo \/ datosNodo' = Counted(n, layer, d)
      PROVE  \A m \in Nodes : datosNodo'[m].t_descarga = datosNodo[m].t_descarga
  BY <1>1, <1>2, CountedType
<1>3. ASSUME NEW n \in Nodes, NEW d \in Dirs, IbrPacket(n, d) PROVE AgreeInv'
  <2>1. datosNodo' = Counted(n, "routing", d)
    BY <1>3 DEF IbrPacket
  <2>2. \A m \in Nodes : datosNodo'[m].t_descarga = datosNodo[m].t_descarga
    BY <1>1, <1>2, <2>1
  <2> QED
    BY <1>3, <2>2, AgreeSame DEF IbrPacket, Line
<1>4. ASSUME NEW n \in Nodes, NEW msg \in {"CloudResourceInfo", "SendTaskToCN", "other"},
             ScmaPktTx(n, msg)
      PROVE  AgreeInv'
  <2>1. datosNodo' = datosNodo \/ datosNodo' = Counted(n, "own", "Tx")
    BY <1>4 DEF ScmaPktTx
  <2>2. \A m \in Nodes : datosNodo'[m].t_descarga = datosNodo[m].t_descarga
    BY <1>1, <1>2, <2>1
  <2>3. UNCHANGED <<begun, totalDescargas, infos, eventos, evtTaskFinished, sim>>
    BY <1>4 DEF ScmaPktTx, Line
  <2> QED
    BY <2>2, <2>3, AgreeSame
<1>5. ASSUME NEW n \in Nodes, ScmaPktRx(n) PROVE AgreeInv'
  <2>1. datosNodo' = datosNodo \/ datosNodo' = Counted(n, "own", "Rx")
    BY <1>5 DEF ScmaPktRx
  <2>2. \A m \in Nodes : datosNodo'[m].t_descarga = datosNodo[m].t_descarga
    BY <1>1, <1>2, <2>1
  <2>3. UNCHANGED <<begun, totalDescargas, infos, eventos, evtTaskFinished, sim>>
    BY <1>5 DEF ScmaPktRx, Line
  <2> QED
    BY <2>2, <2>3, AgreeSame
<1>6. ASSUME NEW n \in Vehicles, AugmentationRequest(n) PROVE AgreeInv'
  <2>. DEFINE d == [datosNodo[n] EXCEPT !.augmentation = @ + 1]
  <2>1. n \in Nodes /\ datosNodo[n] \in Datos
    BY <1>1 DEF Nodes
  <2>2. d.t_descarga = datosNodo[n].t_descarga
    BY <2>1 DEF Datos
  <2>3. datosNodo' = [datosNodo EXCEPT ![n] = d]
    BY <1>1, <1>6, <2>1 DEF AugmentationRequest
  <2>. HIDE DEF d
  <2>4. \A m \in Nodes : datosNodo'[m].t_descarga = datosNodo[m].t_descarga
    BY <1>1, <2>1, <2>2, <2>3
  <2> QED
    BY <1>6, <2>4, AgreeSame DEF AugmentationRequest, Line, procesaVars
<1>7. ASSUME NEW n \in Vehicles,
             \/ NewDownload(n) \/ InsufficientResources(n) \/ DownloadComplete(n)
             \/ \E layer \in Layers, d \in Dirs : AodvPacket(n, layer, d)
      PROVE  AgreeInv'
  <2>1. sim' = "aodv"
    BY <1>7 DEF NewDownload, InsufficientResources, DownloadComplete, AodvPacket, Line
  <2> QED
    BY <2>1 DEF AgreeInv, ScriptsAgree
<1>8. CASE EndOfFile \/ UNCHANGED vars
  BY <1>8, AgreeSame DEF EndOfFile, vars, nodoVars, procesaVars
<1> QED
  BY <1>3, <1>4, <1>5, <1>6, <1>7, <1>8, AgreeStarts, AgreeEnds DEF Next

\* In any log of the SCMA simulation procesa and procesaNodo find the same downloads
\* and the same total time, though procesa keeps references to dictionaries that
\* every TaskFinished changes.
THEOREM ScriptsAlwaysAgree == Spec => []ScriptsAgree
<1>1. Init => AgreeInv
  <2>. SUFFICES ASSUME Init PROVE AgreeInv
    OBVIOUS
  <2>1. Separate
    BY DEF Init, Separate
  <2>. DEFINE f == Times
              g == NotedTimes
  <2>2. DOMAIN f = Nodes /\ \A n \in Nodes : f[n] = 0
    BY DEF Init, Times
  <2>3. DOMAIN g = {} /\ Len(evtTaskFinished) = 0 /\ totalDescargas = 0
    BY DEF Init, NotedTimes
  <2>. HIDE DEF f, g
  <2>4. SumFunction(f) = 0
    <3>1. IsFiniteSet(Nodes)
      BY LogConstantsOK DEF Nodes
    <3>2. Sum(f, Nodes) = 0
      BY <2>2, <3>1, SumZero
    <3> QED
      BY <2>2, <3>2 DEF SumFunction, Sum
  <2>5. SumFunction(g) = 0
    BY <2>3, SumEmpty DEF SumFunction, Sum
  <2>6. ScriptsAgree
    BY <2>3, <2>4, <2>5 DEF ScriptsAgree, f, g, Times, NotedTimes
  <2> QED
    BY <2>1, <2>6 DEF AgreeInv
<1>2. IInv /\ AgreeInv /\ [Next]_vars => AgreeInv'
  BY AgreeStep
<1>3. AgreeInv => ScriptsAgree
  BY DEF AgreeInv
<1> QED
  BY <1>1, <1>2, <1>3, IInvHolds, PTL DEF Spec
=============================================================================
