-------------------------- MODULE ScmaControlProofs --------------------------
(* Proofs about the nested state functions of ScmaStateMachine: what is on  *)
(* the call stack, how deep it gets, and what the members of a vehicle tell *)
(* of the function that runs, for any number of vehicles and leaders, any   *)
(* host tables, initial values, losses and region changes; and that none   *)
(* of its timers is scheduled while it runs, with the host tables for      *)
(* which that is so.                                                       *)
EXTENDS ScmaProofs, FiniteSetTheorems

-----------------------------------------------------------------------------
(* Types.                                                                  *)

MemberNames == {"nodeState", "RecvMsg", "expires", "IntersectionFlag", "FinishFlag",
                "Distribution", "DistributionFlag", "ExpireReception", "CompleteTaskCounter",
                "NTasks", "agreed", "insufficient", "responseIp", "hosts", "armed", "due", "fatal"}

\* Distribution stays up to 3 unless it began above, as nothing initialises it.
Distributions == IF \A g \in Garbage : g <= 3 THEN 0 .. 3 ELSE Nat

Typed(s) ==
    /\ DOMAIN s = MemberNames
    /\ s.nodeState \in States
    /\ s.RecvMsg \in Tested \cup {"Nothing"}
    /\ s.expires \in 0 .. 2
    /\ s.IntersectionFlag \in {0, 1}
    /\ s.FinishFlag \in {0, 1}
    /\ s.Distribution \in Nat /\ s.Distribution \in Distributions
    /\ s.DistributionFlag \in {0, 1}
    /\ s.ExpireReception \in Nat
    /\ s.CompleteTaskCounter \in Nat
    /\ s.NTasks \in Int
    /\ s.hosts \in SUBSET Nodes
    /\ s.armed \in SUBSET Timers
    /\ s.due \in Seq(Timers)

MsgTypes == Tested \cup {"ResourceRequest", "InsufficientResources", "NotAcceptedTaskFromCN",
                       "IncompleteTask", "CompleteTaskAck", "ResourceInfoFromCN"}
Packets == [type : MsgTypes, hosts : SUBSET Nodes]
Sends == [Everyone -> Seq(Packets)]

FrameType == [node : Nodes, fn : Functions, at : 1 .. 6]

-----------------------------------------------------------------------------
(* What a vehicle knows, whatever runs.  o: its last distribution is not   *)
(* finished.                                                               *)
Ready(s, o) ==
    /\ s.nodeState = "RESOURCEREQUEST" => s.RecvMsg # "CloudResourceInfo"
    /\ s.nodeState = "TASKDISTRIBUTION" => ~s.insufficient
    /\ s.nodeState = "TASKDISTRIBUTION" /\ s.DistributionFlag = 1 => s.NTasks <= 0 /\ o
    /\ s.nodeState = "TASKRECEPTION" => o

\* The wait for the tasks has no limit: only on the way out of TASKRECEPTION.
Untimed(s) == s.nodeState = "TASKRECEPTION" /\ "T_ExpireReception" \notin s.armed

\* The frames that fn can still put on the stack, itself included.
Height(fn, s) ==
    CASE fn = "INITIAL" -> IF s.IntersectionFlag = 1 THEN 1 ELSE 2
      [] fn = "RESOURCEREQUEST" -> IF s.IntersectionFlag = 1 THEN 2
                                   ELSE IF s.expires = 2 THEN 3 ELSE 1
      [] fn = "TASKDISTRIBUTION" -> 4
      [] fn = "TASKRECEPTION" -> 3
      [] fn = "COLLABORATION" -> IF s.FinishFlag = 1 THEN 2 ELSE 1
      [] fn = "SendAugmentationRequest" -> 3

\* A vehicle with members s may execute block i of fn, in a frame that is at `at'.
Starts(s, o, fn, at, i) ==
    /\ Typed(s) /\ Ready(s, o)
    /\ at \in 1 .. i
    /\ at = 1 /\ fn # "SendAugmentationRequest" => s.nodeState = fn
    /\ fn = "TASKRECEPTION" /\ at <= 3 => s.nodeState = "TASKRECEPTION"
    /\ fn = "TASKDISTRIBUTION" /\ at <= 4 /\ s.DistributionFlag = 1 => s.NTasks <= 0 /\ o
    /\ Untimed(s) => fn = "TASKRECEPTION" /\ i <= 3 /\ Finished(s)
    /\ s.nodeState = "TASKDISTRIBUTION" /\ s.Distribution = 3 => fn = "TASKDISTRIBUTION" /\ i <= 3

\* Whether the last distribution is unfinished after block i of fn (see Logged).
Unfinished(fn, i, o) ==
    \/ fn = "TASKDISTRIBUTION" /\ i = 5
    \/ o /\ ~(fn = "TASKRECEPTION" /\ i = 3)

\* What the block leaves, with effect e.
Leads(s, o, fn, i, e) ==
    /\ Typed(e.s) /\ Ready(e.s, Unfinished(fn, i, o)) /\ e.send \in Sends
    /\ \/ e.calls = <<>> /\ e.s.nodeState = s.nodeState
       \/ /\ e.calls = <<e.s.nodeState>>
          /\ e.s.nodeState # "TASKDISTRIBUTION"
          /\ fn = "TASKRECEPTION" => i >= 3
          /\ e.s.nodeState = "TASKRECEPTION" => fn = "TASKDISTRIBUTION" /\ i >= 4
          /\ Height(fn, s) > Height(e.s.nodeState, e.s)
    /\ \/ /\ e.s.DistributionFlag = s.DistributionFlag
          /\ e.s.NTasks = s.NTasks
       \/ fn = "TASKDISTRIBUTION" /\ i = 5
       \/ fn = "TASKRECEPTION" /\ i = 3
    /\ e.s.IntersectionFlag = s.IntersectionFlag
    /\ e.s.expires \in {0, s.expires}
    /\ e.s.FinishFlag \in {0, s.FinishFlag}
    /\ Untimed(e.s) => /\ Finished(e.s)
                       /\ e.calls = <<>> => fn = "TASKRECEPTION" /\ i <= 2
    /\ e.s.Distribution = s.Distribution
    /\ e.s.nodeState = "TASKDISTRIBUTION" /\ fn = "TASKDISTRIBUTION" =>
          e.s.due = s.due /\ i = 5 /\ s.Distribution # 3

\* u has the members of s but for those named in X.
AllBut(s, u, X) == \A x \in MemberNames \ X : u[x] = s[x]

-----------------------------------------------------------------------------
LEMMA SendType ==
    ASSUME NEW type \in MsgTypes, NEW hosts \in SUBSET Nodes, NEW dsts
    PROVE  Send(type, hosts, dsts) \in Sends
<1>1. Message(type, hosts) \in Packets
  BY DEF Message, Packets
<1>2. \A m \in Packets : <<m>> \in Seq(Packets)
  OBVIOUS
<1> QED
  BY <1>1, <1>2 DEF Send, Sends

LEMMA SendsType ==
    /\ Nothing \in Sends
    /\ \A type \in MsgTypes : \A x : One(type, x) \in Sends /\ All(type, x) \in Sends
    /\ \A f, g \in Sends : Then(f, g) \in Sends
<1>1. Nothing \in Sends
  BY DEF Nothing, Sends
<1>2. \A type \in MsgTypes : \A x : One(type, x) \in Sends /\ All(type, x) \in Sends
  BY SendType DEF One, All
<1>3. ASSUME NEW f \in Sends, NEW g \in Sends PROVE Then(f, g) \in Sends
  BY <1>3 DEF Then, Sends
<1> QED
  BY <1>1, <1>2, <1>3

LEMMA WithoutType ==
    \A q \in Seq(Timers) : \A t : Without(q, t) \in Seq(Timers)
BY WithoutKeeps

-----------------------------------------------------------------------------
LEMMA InitialBlock ==
    ASSUME NEW n, NEW s, NEW o, NEW at, NEW i \in 1 .. 2, Starts(s, o, "INITIAL", at, i),
           StateInitial(n, s)[i].on
    PROVE  Leads(s, o, "INITIAL", i, StateInitial(n, s)[i].do)
<1>1. CASE i = 1
  <2>. DEFINE u == [[Rearm(s, "T_ResourceRequest") EXCEPT !.RecvMsg = "Nothing", !.expires = 0]
                    EXCEPT !.nodeState = "RESOURCEREQUEST"]
  <2>1. /\ s.IntersectionFlag = 0
        /\ StateInitial(n, s)[1].do = Effect(u, <<"RESOURCEREQUEST">>, All("ResourceRequest", n))
    BY <1>1 DEF StateInitial, Block, SetState
  <2>2. Typed(u)
    BY <2>1, WithoutType DEF Starts, Typed, MemberNames, Timers, States, Rearm, Schedule, Cancel
  <2>3. /\ u.nodeState = "RESOURCEREQUEST" /\ u.RecvMsg = "Nothing" /\ u.expires = 0
        /\ AllBut(s, u, {"nodeState", "RecvMsg", "expires", "armed", "due", "fatal"})
    BY DEF Starts, Typed, MemberNames, AllBut, Rearm, Schedule, Cancel
  <2>. HIDE DEF u
  <2>4. Ready(u, Unfinished("INITIAL", 1, o))
    BY <1>1, <2>1, <2>3 DEF Starts, Ready, Unfinished, MemberNames, AllBut
  <2>5. Leads(s, o, "INITIAL", 1, Effect(u, <<"RESOURCEREQUEST">>, All("ResourceRequest", n)))
    BY <1>1, <2>1, <2>2, <2>3, <2>4, SendsType
       DEF Leads, Starts, Untimed, Height, Effect, MemberNames, AllBut, MsgTypes
  <2> QED
    BY <1>1, <2>1, <2>5
<1>2. CASE i = 2
  <2>. DEFINE u == [[s EXCEPT !.FinishFlag = 0, !.RecvMsg = "Nothing"]
                    EXCEPT !.nodeState = "COLLABORATION"]
  <2>1. /\ s.IntersectionFlag = 0
        /\ StateInitial(n, s)[2].do = Effect(u, <<"COLLABORATION">>, Nothing)
    BY <1>2 DEF StateInitial, Block, SetState
  <2>2. Typed(u)
    BY <2>1, WithoutType DEF Starts, Typed, MemberNames, Timers, States
  <2>3. /\ u.nodeState = "COLLABORATION" /\ u.FinishFlag = 0
        /\ AllBut(s, u, {"nodeState", "RecvMsg", "FinishFlag"})
    BY DEF Starts, Typed, MemberNames, AllBut
  <2>. HIDE DEF u
  <2>4. Ready(u, Unfinished("INITIAL", 2, o))
    BY <1>2, <2>1, <2>3 DEF Starts, Ready, Unfinished, MemberNames, AllBut
  <2>5. Leads(s, o, "INITIAL", 2, Effect(u, <<"COLLABORATION">>, Nothing))
    BY <1>2, <2>1, <2>2, <2>3, <2>4, SendsType
       DEF Leads, Starts, Untimed, Height, Effect, MemberNames, AllBut, MsgTypes
  <2> QED
    BY <1>2, <2>1, <2>5
<1> QED
  BY <1>1, <1>2

LEMMA RequestBlock ==
    ASSUME NEW n, NEW s, NEW o, NEW at, NEW i \in 1 .. 4, Starts(s, o, "RESOURCEREQUEST", at, i),
           StateResourceRequest(n, s)[i].on
    PROVE  Leads(s, o, "RESOURCEREQUEST", i, StateResourceRequest(n, s)[i].do)
<1>1. CASE i = 1
  <2>1. s.RecvMsg = "CloudResourceInfo"
    BY <1>1 DEF StateResourceRequest, Block
  <2>2. at = 1
    BY <1>1 DEF Starts
  <2> QED
    BY <2>1, <2>2 DEF Starts, Ready
<1>2. CASE i = 2
  <2>1. StateResourceRequest(n, s)[2].do = Effect(s, <<>>, All("ResourceRequest", n))
    BY DEF StateResourceRequest, Block, Stay
  <2>2. Leads(s, o, "RESOURCEREQUEST", 2, Effect(s, <<>>, All("ResourceRequest", n)))
    BY SendsType DEF Leads, Starts, Unfinished, Ready, Effect, MsgTypes
  <2> QED
    BY <1>2, <2>1, <2>2
<1>3. CASE i = 3
  <2>. DEFINE u == [s EXCEPT !.nodeState = "INITIAL"]
  <2>1. /\ s.expires = 2
        /\ StateResourceRequest(n, s)[3].do = Effect(u, <<"INITIAL">>, Nothing)
    BY <1>3 DEF StateResourceRequest, Block, SetState
  <2>2. Typed(u)
    BY <2>1, WithoutType DEF Starts, Typed, MemberNames, Timers, States
  <2>3. /\ u.nodeState = "INITIAL"
        /\ AllBut(s, u, {"nodeState"})
    BY DEF Starts, Typed, MemberNames, AllBut
  <2>. HIDE DEF u
  <2>4. Ready(u, Unfinished("RESOURCEREQUEST", 3, o))
    BY <1>3, <2>1, <2>3 DEF Starts, Ready, Unfinished, MemberNames, AllBut
  <2>5. Leads(s, o, "RESOURCEREQUEST", 3, Effect(u, <<"INITIAL">>, Nothing))
    BY <1>3, <2>1, <2>2, <2>3, <2>4, SendsType
       DEF Leads, Starts, Untimed, Height, Effect, MemberNames, AllBut, MsgTypes
  <2> QED
    BY <1>3, <2>1, <2>5
<1>4. CASE i = 4
  <2>. DEFINE u == [s EXCEPT !.nodeState = "INITIAL"]
  <2>1. /\ s.IntersectionFlag = 1
        /\ StateResourceRequest(n, s)[4].do = Effect(u, <<"INITIAL">>, Nothing)
    BY <1>4 DEF StateResourceRequest, Block, SetState
  <2>2. Typed(u)
    BY <2>1, WithoutType DEF Starts, Typed, MemberNames, Timers, States
  <2>3. /\ u.nodeState = "INITIAL"
        /\ AllBut(s, u, {"nodeState"})
    BY DEF Starts, Typed, MemberNames, AllBut
  <2>. HIDE DEF u
  <2>4. Ready(u, Unfinished("RESOURCEREQUEST", 4, o))
    BY <1>4, <2>1, <2>3 DEF Starts, Ready, Unfinished, MemberNames, AllBut
  <2>5. Leads(s, o, "RESOURCEREQUEST", 4, Effect(u, <<"INITIAL">>, Nothing))
    BY <1>4, <2>1, <2>2, <2>3, <2>4, SendsType
       DEF Leads, Starts, Untimed, Height, Effect, MemberNames, AllBut, MsgTypes
  <2> QED
    BY <1>4, <2>1, <2>5
<1> QED
  BY <1>1, <1>2, <1>3, <1>4

LEMMA UsableType ==
    ASSUME NEW s, Typed(s)
    PROVE  usableNodes(s) \in Int
<1>1. IsFiniteSet(s.hosts)
  BY ScmaConstants, FS_Subset DEF Typed
<1>2. Cardinality(s.hosts) \in Nat
  BY <1>1, FS_CardinalityType
<1>3. Percent \in Nat
  BY ScmaConstants
<1>4. \A c \in Nat, p \in Nat : (c - 1) * p \in Int
  OBVIOUS
<1>5. \A x \in Int : x \div 100 \in Int
  OBVIOUS
<1> QED
  BY <1>2, <1>3, <1>4, <1>5 DEF usableNodes

LEMMA DistributionBlock ==
    ASSUME NEW n, NEW s, NEW o, NEW at, NEW i \in 1 .. 5, Starts(s, o, "TASKDISTRIBUTION", at, i),
           StateTaskDistribution(n, s)[i].on
    PROVE  Leads(s, o, "TASKDISTRIBUTION", i, StateTaskDistribution(n, s)[i].do)
<1>1. CASE i = 1
  <2>1. s.insufficient /\ at = 1
    BY <1>1 DEF StateTaskDistribution, Block, Starts
  <2> QED
    BY <2>1 DEF Starts, Ready
<1>2. CASE i = 2
  <2>. DEFINE u == [CancelTimers(s) EXCEPT !.nodeState = "INITIAL"]
  <2>1. /\ s.IntersectionFlag = 1
        /\ StateTaskDistribution(n, s)[2].do = Effect(u, <<"INITIAL">>, Nothing)
    BY <1>2 DEF StateTaskDistribution, Block, SetState
  <2>2. Typed(u)
    BY <2>1, WithoutType DEF Starts, Typed, MemberNames, Timers, States, CancelTimers
  <2>3. /\ u.nodeState = "INITIAL"
        /\ AllBut(s, u, {"nodeState", "armed", "due"})
    BY DEF Starts, Typed, MemberNames, AllBut, CancelTimers
  <2>. HIDE DEF u
  <2>4. Ready(u, Unfinished("TASKDISTRIBUTION", 2, o))
    BY <1>2, <2>1, <2>3 DEF Starts, Ready, Unfinished, MemberNames, AllBut
  <2>5. Leads(s, o, "TASKDISTRIBUTION", 2, Effect(u, <<"INITIAL">>, Nothing))
    BY <1>2, <2>1, <2>2, <2>3, <2>4, SendsType
       DEF Leads, Starts, Untimed, Height, Effect, MemberNames, AllBut, MsgTypes
  <2> QED
    BY <1>2, <2>1, <2>5
<1>3. CASE i = 3
  <2>. DEFINE u == [[ScheduleNow(s, "T_ResourceRequest") EXCEPT !.expires = 0, !.RecvMsg = "Nothing"]
                    EXCEPT !.nodeState = "RESOURCEREQUEST"]
  <2>1. /\ s.Distribution = 3
        /\ StateTaskDistribution(n, s)[3].do = Effect(u, <<"RESOURCEREQUEST">>, Nothing)
    BY <1>3 DEF StateTaskDistribution, Block, SetState
  <2>2. Typed(u)
    BY <2>1, WithoutType DEF Starts, Typed, MemberNames, Timers, States, ScheduleNow
  <2>3. /\ u.nodeState = "RESOURCEREQUEST" /\ u.RecvMsg = "Nothing" /\ u.expires = 0
        /\ AllBut(s, u, {"nodeState", "RecvMsg", "expires", "due", "fatal"})
    BY DEF Starts, Typed, MemberNames, AllBut, ScheduleNow
  <2>. HIDE DEF u
  <2>4. Ready(u, Unfinished("TASKDISTRIBUTION", 3, o))
    BY <1>3, <2>1, <2>3 DEF Starts, Ready, Unfinished, MemberNames, AllBut
  <2>5. Leads(s, o, "TASKDISTRIBUTION", 3, Effect(u, <<"RESOURCEREQUEST">>, Nothing))
    BY <1>3, <2>1, <2>2, <2>3, <2>4, SendsType
       DEF Leads, Starts, Untimed, Height, Effect, MemberNames, AllBut, MsgTypes
  <2> QED
    BY <1>3, <2>1, <2>5
<1>4. CASE i = 4
  <2>. DEFINE u == [ScheduleNow(Cancel(ResetCounters(s), "T_TaskDistribution"), "T_TaskReception")
                    EXCEPT !.nodeState = "TASKRECEPTION"]
  <2>1. /\ s.DistributionFlag = 1
        /\ StateTaskDistribution(n, s)[4].do = Effect(u, <<"TASKRECEPTION">>, Nothing)
    BY <1>4 DEF StateTaskDistribution, Block, SetState
  <2>2. Typed(u)
    BY <2>1, WithoutType DEF Starts, Typed, MemberNames, Timers, States, ScheduleNow, Cancel, ResetCounters
  <2>3. /\ u.nodeState = "TASKRECEPTION" /\ u.CompleteTaskCounter = 0 /\ s.NTasks \in Int
        /\ AllBut(s, u, {"nodeState", "CompleteTaskCounter", "ExpireReception", "due", "armed", "fatal"})
    BY DEF Starts, Typed, MemberNames, AllBut, ScheduleNow, Cancel, ResetCounters
  <2>. HIDE DEF u
  <2>4. Ready(u, Unfinished("TASKDISTRIBUTION", 4, o))
    BY <1>4, <2>1, <2>3 DEF Starts, Ready, Unfinished, MemberNames, AllBut
  <2>5. Leads(s, o, "TASKDISTRIBUTION", 4, Effect(u, <<"TASKRECEPTION">>, Nothing))
    BY <1>4, <2>1, <2>2, <2>3, <2>4, SendsType
       DEF Leads, Starts, Untimed, Height, Effect, MemberNames, AllBut, MsgTypes, Finished
  <2> QED
    BY <1>4, <2>1, <2>5
<1>5. CASE i = 5
  <2>. DEFINE u == [s EXCEPT !.DistributionFlag = 1, !.NTasks = usableNodes(s)]
              v == [Rearm(u, "T_ExpireReception") EXCEPT !.nodeState = "TASKRECEPTION"]
              tasks == Send("SendTaskToCN", {}, s.hosts \ {n})
  <2>1. /\ s.DistributionFlag = 0
        /\ StateTaskDistribution(n, s)[5].do
              = IF usableNodes(s) >= 1 THEN Effect(v, <<"TASKRECEPTION">>, tasks) ELSE Effect(u, <<>>, Nothing)
    BY <1>5 DEF StateTaskDistribution, Block, SendTasks, SetState, Stay
  <2>2. Typed(u) /\ u.DistributionFlag = 1 /\ u.NTasks = usableNodes(s)
    BY UsableType DEF Starts, Typed, MemberNames
  <2>3. AllBut(s, u, {"DistributionFlag", "NTasks"})
    BY DEF Starts, Typed, MemberNames, AllBut
  <2>. HIDE DEF u
  <2>4. Typed(v)
    BY <2>2, WithoutType DEF Typed, MemberNames, Timers, States, Rearm, Schedule, Cancel
  <2>5. /\ v.nodeState = "TASKRECEPTION" /\ "T_ExpireReception" \in v.armed
        /\ AllBut(u, v, {"nodeState", "armed", "due", "fatal"})
    BY <2>2 DEF Typed, MemberNames, AllBut, Rearm, Schedule, Cancel
  <2>. HIDE DEF v
  <2>6. tasks \in Sends
    BY SendType DEF MsgTypes, Tested
  <2>. HIDE DEF tasks
  <2>7. CASE usableNodes(s) >= 1
    <3>1. Leads(s, o, "TASKDISTRIBUTION", 5, Effect(v, <<"TASKRECEPTION">>, tasks))
      BY <2>3, <2>4, <2>5, <2>6
         DEF Leads, Starts, Unfinished, Untimed, Height, Effect, Ready, MemberNames, AllBut
    <3> QED
      BY <1>5, <2>1, <2>7, <3>1
  <2>8. CASE ~(usableNodes(s) >= 1)
    <3>1. usableNodes(s) <= 0
      BY <2>8, UsableType DEF Starts
    <3>2. s.nodeState = "TASKDISTRIBUTION" => s.Distribution # 3
      BY <1>5 DEF Starts
    <3>3. Leads(s, o, "TASKDISTRIBUTION", 5, Effect(u, <<>>, Nothing))
      BY <1>5, <2>2, <2>3, <3>1, <3>2, SendsType
         DEF Leads, Starts, Unfinished, Untimed, Height, Effect, Ready, MemberNames, AllBut
    <3> QED
      BY <1>5, <2>1, <2>8, <3>3
  <2> QED
    BY <2>7, <2>8
<1> QED
  BY <1>1, <1>2, <1>3, <1>4, <1>5

LEMMA ReceptionBlock ==
    ASSUME NEW n, NEW s, NEW o, NEW at, NEW i \in 1 .. 4, Starts(s, o, "TASKRECEPTION", at, i),
           StateTaskReception(n, s)[i].on
    PROVE  Leads(s, o, "TASKRECEPTION", i, StateTaskReception(n, s)[i].do)
<1>1. CASE i = 1
  <2>. DEFINE u == ScheduleNow(Cancel(s, "T_TaskReception"), "T_TaskReception")
  <2>1. /\ s.IntersectionFlag = 1
        /\ StateTaskReception(n, s)[1].do = Effect(u, <<>>, Nothing)
    BY <1>1 DEF StateTaskReception, Block, Stay
  <2>2. Typed(u)
    BY <2>1, WithoutType DEF Starts, Typed, MemberNames, Timers, States, ScheduleNow, Cancel
  <2>3. /\ u.armed = s.armed \ {"T_TaskReception"}
        /\ AllBut(s, u, {"armed", "due", "fatal"})
    BY DEF Starts, Typed, MemberNames, AllBut, ScheduleNow, Cancel
  <2>. HIDE DEF u
  <2>4. Ready(u, Unfinished("TASKRECEPTION", 1, o))
    BY <1>1, <2>1, <2>3 DEF Starts, Ready, Unfinished, MemberNames, AllBut
  <2>5. Leads(s, o, "TASKRECEPTION", 1, Effect(u, <<>>, Nothing))
    BY <1>1, <2>1, <2>2, <2>3, <2>4, SendsType
       DEF Leads, Starts, Untimed, Height, Effect, MemberNames, AllBut, MsgTypes, Finished
  <2> QED
    BY <1>1, <2>1, <2>5
<1>2. CASE i = 2
  <2>. DEFINE u == [s EXCEPT !.CompleteTaskCounter = Bump(@)]
  <2>1. /\ s.RecvMsg = "CompleteTask"
        /\ StateTaskReception(n, s)[2].do = Effect(u, <<>>, Nothing)
    BY <1>2 DEF StateTaskReception, Block, Stay
  <2>2. Typed(u)
    BY <2>1, WithoutType DEF Starts, Typed, MemberNames, Timers, States, Bump
  <2>3. /\ u.CompleteTaskCounter \in Nat /\ s.CompleteTaskCounter \in Nat /\ s.NTasks \in Int
        /\ u.CompleteTaskCounter >= s.CompleteTaskCounter
        /\ AllBut(s, u, {"CompleteTaskCounter"})
    BY DEF Starts, Typed, MemberNames, AllBut, Bump
  <2>. HIDE DEF u
  <2>4. Ready(u, Unfinished("TASKRECEPTION", 2, o))
    BY <1>2, <2>1, <2>3 DEF Starts, Ready, Unfinished, MemberNames, AllBut
  <2>5. Leads(s, o, "TASKRECEPTION", 2, Effect(u, <<>>, Nothing))
    BY <1>2, <2>1, <2>2, <2>3, <2>4, SendsType
       DEF Leads, Starts, Untimed, Height, Effect, MemberNames, AllBut, MsgTypes, Finished
  <2> QED
    BY <1>2, <2>1, <2>5
<1>3. CASE i = 3
  <2>. DEFINE u == [[CancelTimers(ResetCounters(s)) EXCEPT !.RecvMsg = "AugmentationRequest"]
                    EXCEPT !.nodeState = "INITIAL"]
  <2>1. /\ Finished(s)
        /\ StateTaskReception(n, s)[3].do = Effect(u, <<"INITIAL">>, Nothing)
    BY <1>3 DEF StateTaskReception, Block, NewRequest, SetState
  <2>2. Typed(u)
    BY <2>1, WithoutType DEF Starts, Typed, MemberNames, Timers, States, CancelTimers, ResetCounters, Tested
  <2>3. /\ u.nodeState = "INITIAL"
        /\ AllBut(s, u, {"nodeState", "RecvMsg", "CompleteTaskCounter", "ExpireReception", "armed", "due"})
    BY DEF Starts, Typed, MemberNames, AllBut, CancelTimers, ResetCounters, Tested
  <2>. HIDE DEF u
  <2>4. Ready(u, Unfinished("TASKRECEPTION", 3, o))
    BY <1>3, <2>1, <2>3 DEF Starts, Ready, Unfinished, MemberNames, AllBut
  <2>5. Leads(s, o, "TASKRECEPTION", 3, Effect(u, <<"INITIAL">>, Nothing))
    BY <1>3, <2>1, <2>2, <2>3, <2>4, SendsType
       DEF Leads, Starts, Untimed, Height, Effect, MemberNames, AllBut, MsgTypes
  <2> QED
    BY <1>3, <2>1, <2>5
<1>4. CASE i = 4
  <2>. DEFINE u == [s EXCEPT !.nodeState = "INITIAL"]
  <2>1. /\ s.ExpireReception = 3
        /\ StateTaskReception(n, s)[4].do = Effect(u, <<"INITIAL">>, Nothing)
    BY <1>4 DEF StateTaskReception, Block, SetState
  <2>2. Typed(u)
    BY <2>1, WithoutType DEF Starts, Typed, MemberNames, Timers, States
  <2>3. /\ u.nodeState = "INITIAL"
        /\ AllBut(s, u, {"nodeState"})
    BY DEF Starts, Typed, MemberNames, AllBut
  <2>. HIDE DEF u
  <2>4. Ready(u, Unfinished("TASKRECEPTION", 4, o))
    BY <1>4, <2>1, <2>3 DEF Starts, Ready, Unfinished, MemberNames, AllBut
  <2>5. Leads(s, o, "TASKRECEPTION", 4, Effect(u, <<"INITIAL">>, Nothing))
    BY <1>4, <2>1, <2>2, <2>3, <2>4, SendsType
       DEF Leads, Starts, Untimed, Height, Effect, MemberNames, AllBut, MsgTypes
  <2> QED
    BY <1>4, <2>1, <2>5
<1> QED
  BY <1>1, <1>2, <1>3, <1>4

LEMMA CollaborationBlock ==
    ASSUME NEW n, NEW s, NEW o, NEW at, NEW i \in 1 .. 2, Starts(s, o, "COLLABORATION", at, i),
           StateCollaboration(n, s)[i].on
    PROVE  Leads(s, o, "COLLABORATION", i, StateCollaboration(n, s)[i].do)
<1>1. CASE i = 1
  <2>. DEFINE u == [Schedule([s EXCEPT !.FinishFlag = 0], "T_CompleteTaskAck")
                    EXCEPT !.nodeState = "COLLABORATION"]
  <2>1. /\ s.FinishFlag = 1
        /\ StateCollaboration(n, s)[1].do = Effect(u, <<"COLLABORATION">>, Nothing)
    BY <1>1 DEF StateCollaboration, Block, SetState
  <2>2. Typed(u)
    BY <2>1, WithoutType DEF Starts, Typed, MemberNames, Timers, States, Schedule
  <2>3. /\ u.nodeState = "COLLABORATION" /\ u.FinishFlag = 0
        /\ AllBut(s, u, {"nodeState", "FinishFlag", "armed", "fatal"})
    BY DEF Starts, Typed, MemberNames, AllBut, Schedule
  <2>. HIDE DEF u
  <2>4. Ready(u, Unfinished("COLLABORATION", 1, o))
    BY <1>1, <2>1, <2>3 DEF Starts, Ready, Unfinished, MemberNames, AllBut
  <2>5. Leads(s, o, "COLLABORATION", 1, Effect(u, <<"COLLABORATION">>, Nothing))
    BY <1>1, <2>1, <2>2, <2>3, <2>4, SendsType
       DEF Leads, Starts, Untimed, Height, Effect, MemberNames, AllBut, MsgTypes
  <2> QED
    BY <1>1, <2>1, <2>5
<1>2. CASE i = 2
  <2>. DEFINE u == ScheduleNow(s, "T_IncompleteTaskAck")
  <2>1. /\ StateCollaboration(n, s)[2].on
        /\ StateCollaboration(n, s)[2].do = Effect(u, <<>>, One("IncompleteTask", s.responseIp))
    BY <1>2 DEF StateCollaboration, Block, Stay
  <2>2. Typed(u)
    BY <2>1, WithoutType DEF Starts, Typed, MemberNames, Timers, States, ScheduleNow
  <2>3. /\ u.armed = s.armed
        /\ AllBut(s, u, {"due", "fatal"})
    BY DEF Starts, Typed, MemberNames, AllBut, ScheduleNow
  <2>. HIDE DEF u
  <2>4. Ready(u, Unfinished("COLLABORATION", 2, o))
    BY <1>2, <2>1, <2>3 DEF Starts, Ready, Unfinished, MemberNames, AllBut
  <2>5. Leads(s, o, "COLLABORATION", 2, Effect(u, <<>>, One("IncompleteTask", s.responseIp)))
    BY <1>2, <2>1, <2>2, <2>3, <2>4, SendsType
       DEF Leads, Starts, Untimed, Height, Effect, MemberNames, AllBut, MsgTypes
  <2> QED
    BY <1>2, <2>1, <2>5
<1> QED
  BY <1>1, <1>2

LEMMA RequestBeginsBlock ==
    ASSUME NEW n, NEW s, NEW o, NEW at, Starts(s, o, "SendAugmentationRequest", at, 1)
    PROVE  Leads(s, o, "SendAugmentationRequest", 1, NewRequest(s))
<1>. DEFINE u == [[s EXCEPT !.RecvMsg = "AugmentationRequest"] EXCEPT !.nodeState = "INITIAL"]
<1>1. NewRequest(s) = Effect(u, <<"INITIAL">>, Nothing)
  BY DEF NewRequest, SetState
<1>2. Typed(u)
  BY DEF Starts, Typed, MemberNames, Tested, States
<1>3. u.nodeState = "INITIAL" /\ AllBut(s, u, {"nodeState", "RecvMsg"})
  BY DEF Starts, Typed, MemberNames, AllBut
<1>. HIDE DEF u
<1>4. Leads(s, o, "SendAugmentationRequest", 1, Effect(u, <<"INITIAL">>, Nothing))
  BY <1>2, <1>3, SendsType
     DEF Leads, Starts, Unfinished, Untimed, Ready, Height, Effect, MemberNames, AllBut
<1> QED
  BY <1>1, <1>4

\* Any block of any state function.
LEMMA BlockLeads ==
    ASSUME NEW n, NEW fn \in Functions, NEW o, NEW at, NEW i \in 1 .. 5,
           Starts(sm[n], o, fn, at, i), i <= Len(Blocks(n, fn)), Blocks(n, fn)[i].on
    PROVE  Leads(sm[n], o, fn, i, Blocks(n, fn)[i].do)
<1>1. CASE fn = "INITIAL"
  <2>1. Blocks(n, fn) = StateInitial(n, sm[n]) /\ Len(StateInitial(n, sm[n])) = 2
    BY <1>1 DEF Blocks, StateInitial
  <2> QED
    BY <1>1, <2>1, InitialBlock
<1>2. CASE fn = "RESOURCEREQUEST"
  <2>1. Blocks(n, fn) = StateResourceRequest(n, sm[n]) /\ Len(StateResourceRequest(n, sm[n])) = 4
    BY <1>2 DEF Blocks, StateResourceRequest
  <2> QED
    BY <1>2, <2>1, RequestBlock
<1>3. CASE fn = "TASKDISTRIBUTION"
  <2>1. Blocks(n, fn) = StateTaskDistribution(n, sm[n])
    BY <1>3 DEF Blocks
  <2> QED
    BY <1>3, <2>1, DistributionBlock
<1>4. CASE fn = "TASKRECEPTION"
  <2>1. Blocks(n, fn) = StateTaskReception(n, sm[n]) /\ Len(StateTaskReception(n, sm[n])) = 4
    BY <1>4 DEF Blocks, StateTaskReception
  <2> QED
    BY <1>4, <2>1, ReceptionBlock
<1>5. CASE fn = "COLLABORATION"
  <2>1. Blocks(n, fn) = StateCollaboration(n, sm[n]) /\ Len(StateCollaboration(n, sm[n])) = 2
    BY <1>5 DEF Blocks, StateCollaboration
  <2> QED
    BY <1>5, <2>1, CollaborationBlock
<1>6. CASE fn = "SendAugmentationRequest"
  <2>1. Blocks(n, fn) = << Block(TRUE, NewRequest(sm[n])) >>
    BY <1>6 DEF Blocks, SendAugmentationRequest
  <2>2. i = 1 /\ Blocks(n, fn)[1].do = NewRequest(sm[n])
    BY <2>1 DEF Block
  <2> QED
    BY <1>6, <2>2, RequestBeginsBlock
<1> QED
  BY <1>1, <1>2, <1>3, <1>4, <1>5, <1>6 DEF Functions, States

-----------------------------------------------------------------------------
(***************************************************************************)
(* The call stack.  All frames are of one vehicle.  Only the innermost     *)
(* function can be before its first block, and then it is that of          *)
(* nodeState; functions below it have executed the block that called.      *)
(***************************************************************************)
Fresh(st, s) == \A k \in DOMAIN st :
    st[k].at = 1 => \/ k = 1 /\ st[k].fn = s.nodeState
                    \/ st[k].fn = "SendAugmentationRequest"

\* TASKRECEPTION has not left its state before it has counted the tasks, and
\* the distribution it was called from, if any, is handed out.
Receiving(st, s) == \A k \in DOMAIN st :
    st[k].fn = "TASKRECEPTION" /\ st[k].at <= 3 =>
       /\ k = 1 /\ s.nodeState = "TASKRECEPTION"
       /\ \A j \in DOMAIN st : st[j].fn = "TASKDISTRIBUTION" => st[j].at >= 5

\* TASKDISTRIBUTION does not call itself.
OneDistribution(st) == \A j, k \in DOMAIN st :
    st[j].fn = "TASKDISTRIBUTION" /\ st[k].fn = "TASKDISTRIBUTION" => j = k

\* A distribution is resumed with nothing to wait for.
Resumed(st, s, o) == \A k \in DOMAIN st :
    st[k].fn = "TASKDISTRIBUTION" /\ st[k].at <= 4 /\ s.DistributionFlag = 1 => s.NTasks <= 0 /\ o

\* What the frames can still put on the stack stays below its limit.
Shallow(st, s) == \A k \in DOMAIN st : Len(st) - k + Height(st[k].fn, s) <= StackDepth

Stacked(st, s, o) ==
    /\ \A j, k \in DOMAIN st : st[j].node = st[k].node
    /\ Fresh(st, s) /\ Receiving(st, s) /\ OneDistribution(st)
    /\ Resumed(st, s, o) /\ Shallow(st, s)

\* A wait without a limit ends before anything else happens.
Ending(st, n, s) == Untimed(s) =>
    /\ st # <<>> /\ st[1].node = n /\ st[1].fn = "TASKRECEPTION" /\ st[1].at <= 3
    /\ Finished(s)

\* A distribution goes on by T_TaskDistribution, or is being handed out.  A value of
\* Distribution above 3, as nothing initialises it, stops the timer.
Handing(st, n, s) == s.nodeState = "TASKDISTRIBUTION" /\ s.Distribution <= 3 =>
    /\ s.due = <<"T_TaskDistribution">>
    /\ st # <<>> /\ st[1].node = n =>
          Len(st) = 1 /\ st[1].fn = "TASKDISTRIBUTION" /\ st[1].at \in {1, 6}
    /\ s.Distribution = 3 => st # <<>> /\ st[1].node = n /\ st[1].at = 1

(***************************************************************************)
(* The inductive invariant.                                                *)
(***************************************************************************)
Network == net \in [Everyone -> Sends]

Vehicles == /\ DOMAIN sm = Nodes
            /\ \A n \in Nodes : Typed(sm[n]) /\ Ready(sm[n], round[n].open)

Rounds == round \in [Nodes -> [open : BOOLEAN, reported : SUBSET Everyone]]

Stack == /\ stack \in Seq(FrameType)
         /\ \A n \in Nodes : stack # <<>> /\ stack[1].node = n =>
                Stacked(stack, sm[n], round[n].open)

Waits == \A n \in Nodes : Ending(stack, n, sm[n]) /\ Handing(stack, n, sm[n])

Control == Network /\ Vehicles /\ Rounds /\ Stack /\ Waits

-----------------------------------------------------------------------------
(* One block.                                                              *)

\* No block raises a height.
LEMMA HeightFalls ==
    ASSUME NEW s, Typed(s), NEW u, Typed(u), NEW fn \in Functions,
           u.IntersectionFlag = s.IntersectionFlag,
           u.expires \in {0, s.expires}, u.FinishFlag \in {0, s.FinishFlag}
    PROVE  Height(fn, s) \in 1 .. 4 /\ Height(fn, u) \in 1 .. 4 /\ Height(fn, u) <= Height(fn, s)
BY DEF Height, Functions, States

\* The frames after a block that calls nothing.
LEMMA StackedStays ==
    ASSUME NEW st \in Seq(FrameType), st # <<>>, NEW s, NEW o, NEW i \in 1 .. 5, NEW e,
           Stacked(st, s, o), Starts(s, o, st[1].fn, st[1].at, i), Leads(s, o, st[1].fn, i, e),
           e.calls = <<>>,
           NEW t \in Seq(FrameType), Len(t) = Len(st),
           t[1].node = st[1].node, t[1].fn = st[1].fn, t[1].at = i + 1,
           \A k \in 2 .. Len(t) : t[k] = st[k]
    PROVE  Stacked(t, e.s, Unfinished(st[1].fn, i, o))
<1>. DEFINE u == e.s
            p == Unfinished(st[1].fn, i, o)
<1>1. /\ DOMAIN t = 1 .. Len(st) /\ DOMAIN st = 1 .. Len(st) /\ Len(st) \in Nat /\ 1 \in DOMAIN st
      /\ \A k \in DOMAIN st : st[k] \in FrameType /\ t[k] \in FrameType
  OBVIOUS
<1>2. st[1].fn \in Functions /\ st[1].at \in 1 .. i
  BY <1>1 DEF FrameType, Starts
<1>3. t[1].node = st[1].node /\ t[1].fn = st[1].fn /\ t[1].at = i + 1
  OBVIOUS
<1>4. \A k \in DOMAIN st : /\ t[k].node = st[k].node /\ t[k].fn = st[k].fn
                           /\ k # 1 => t[k].at = st[k].at
                           /\ st[k].at \in 1 .. 6
  BY <1>1, <1>3 DEF FrameType
<1>5. u.nodeState = s.nodeState
  BY DEF Leads
<1>. /\ Fresh(st, s) /\ Receiving(st, s) /\ OneDistribution(st)
     /\ Resumed(st, s, o) /\ Shallow(st, s)
  BY DEF Stacked
<1>6. Fresh(t, u)
  <2>. SUFFICES ASSUME NEW k \in DOMAIN t, t[k].at = 1
                PROVE  t[k].fn = "SendAugmentationRequest"
    BY DEF Fresh
  <2>1. k # 1
    BY <1>3
  <2>2. k \in DOMAIN st /\ st[k].at = 1 /\ t[k].fn = st[k].fn
    BY <1>1, <1>4, <2>1
  <2> QED
    BY <2>1, <2>2 DEF Fresh
<1>7. Receiving(t, u)
  <2>. SUFFICES ASSUME NEW k \in DOMAIN t, t[k].fn = "TASKRECEPTION", t[k].at <= 3
                PROVE  /\ k = 1 /\ u.nodeState = "TASKRECEPTION"
                       /\ \A j \in DOMAIN t : t[j].fn = "TASKDISTRIBUTION" => t[j].at >= 5
    BY DEF Receiving
  <2>1. k \in DOMAIN st /\ st[k].fn = "TASKRECEPTION"
    BY <1>1, <1>4
  <2>2. st[k].at <= 3
    BY <1>2, <1>3, <1>4, <2>1
  <2>3. /\ k = 1 /\ s.nodeState = "TASKRECEPTION"
        /\ \A j \in DOMAIN st : st[j].fn = "TASKDISTRIBUTION" => st[j].at >= 5
    BY <2>1, <2>2 DEF Receiving
  <2>4. ASSUME NEW j \in DOMAIN t, t[j].fn = "TASKDISTRIBUTION" PROVE t[j].at >= 5
    <3>1. j \in DOMAIN st /\ st[j].fn = "TASKDISTRIBUTION"
      BY <1>1, <1>4, <2>4
    <3>2. j # 1 /\ st[j].at >= 5
      BY <2>1, <2>3, <3>1
    <3> QED
      BY <1>4, <3>1, <3>2
  <2> QED
    BY <1>5, <2>3, <2>4
<1>8. OneDistribution(t)
  BY <1>1, <1>4 DEF Stacked, OneDistribution
<1>9. Resumed(t, u, p)
  <2>. SUFFICES ASSUME NEW k \in DOMAIN t, t[k].fn = "TASKDISTRIBUTION", t[k].at <= 4,
                       u.DistributionFlag = 1
                PROVE  u.NTasks <= 0 /\ p
    BY DEF Resumed
  <2>1. st[k].fn = "TASKDISTRIBUTION" /\ st[k].at <= 4
    <3>1. k \in DOMAIN st /\ st[k].fn = "TASKDISTRIBUTION"
      BY <1>1, <1>4
    <3> QED
      BY <1>2, <1>3, <1>4, <3>1
  <2>2. ~(st[1].fn = "TASKRECEPTION" /\ i = 3)
    <3>. SUFFICES ASSUME st[1].fn = "TASKRECEPTION", i = 3 PROVE FALSE
      OBVIOUS
    <3>1. st[1].at <= 3
      BY <1>2
    <3>2. st[k].at >= 5 /\ st[k].at \in 1 .. 6
      BY <1>1, <1>4, <2>1, <3>1 DEF Receiving
    <3> QED
      BY <2>1, <3>2
  <2>3. ~(st[1].fn = "TASKDISTRIBUTION" /\ i = 5)
    <3>. SUFFICES ASSUME st[1].fn = "TASKDISTRIBUTION", i = 5 PROVE FALSE
      OBVIOUS
    <3>1. k = 1
      BY <1>1, <2>1 DEF OneDistribution
    <3> QED
      BY <1>3, <3>1
  <2>4. u.DistributionFlag = s.DistributionFlag /\ u.NTasks = s.NTasks
    BY <2>2, <2>3 DEF Leads
  <2>5. s.NTasks <= 0 /\ o
    BY <1>1, <2>1, <2>4 DEF Resumed
  <2> QED
    BY <2>2, <2>4, <2>5 DEF Unfinished
<1>10. Shallow(t, u)
  <2>. SUFFICES ASSUME NEW k \in DOMAIN t
                PROVE  Len(t) - k + Height(t[k].fn, u) <= StackDepth
    BY DEF Shallow
  <2>1. Len(st) - k + Height(st[k].fn, s) <= StackDepth /\ st[k].fn \in Functions
    BY <1>1 DEF Shallow, FrameType
  <2>2. /\ Height(st[k].fn, s) \in 1 .. 4 /\ Height(st[k].fn, u) \in 1 .. 4
        /\ Height(st[k].fn, u) <= Height(st[k].fn, s)
    BY <2>1, HeightFalls DEF Leads, Starts
  <2> QED
    BY <1>1, <1>4, <2>1, <2>2 DEF StackDepth
<1>11. \A j, k \in DOMAIN t : t[j].node = t[k].node
  BY <1>1, <1>4 DEF Stacked
<1> QED
  BY <1>6, <1>7, <1>8, <1>9, <1>10, <1>11 DEF Stacked

\* The frames after a block that calls the function of the new state.
LEMMA StackedCalls ==
    ASSUME NEW st \in Seq(FrameType), st # <<>>, NEW s, NEW o, NEW i \in 1 .. 5, NEW e,
           Stacked(st, s, o), Starts(s, o, st[1].fn, st[1].at, i), Leads(s, o, st[1].fn, i, e),
           e.calls = <<e.s.nodeState>>,
           NEW t \in Seq(FrameType), Len(t) = Len(st) + 1,
           t[1].node = st[1].node, t[1].fn = e.s.nodeState, t[1].at = 1,
           t[2].node = st[1].node, t[2].fn = st[1].fn, t[2].at = i + 1,
           \A k \in 2 .. Len(st) : t[k + 1] = st[k]
    PROVE  Stacked(t, e.s, Unfinished(st[1].fn, i, o))
<1>. DEFINE u == e.s
            p == Unfinished(st[1].fn, i, o)
<1>1. /\ DOMAIN t = 1 .. Len(st) + 1 /\ DOMAIN st = 1 .. Len(st) /\ Len(st) \in Nat /\ 1 \in DOMAIN st
      /\ \A k \in DOMAIN st : st[k] \in FrameType
  OBVIOUS
<1>2. st[1].fn \in Functions /\ st[1].at \in 1 .. i
  BY <1>1 DEF FrameType, Starts
<1>3. t[1].node = st[1].node /\ t[1].fn = u.nodeState /\ t[1].at = 1
  OBVIOUS
<1>4. t[2].node = st[1].node /\ t[2].fn = st[1].fn /\ t[2].at = i + 1
  OBVIOUS
<1>5. \A k \in DOMAIN st : /\ t[k + 1].node = st[k].node /\ t[k + 1].fn = st[k].fn
                           /\ k # 1 => t[k + 1].at = st[k].at
                           /\ st[k].at \in 1 .. 6
  BY <1>1, <1>4 DEF FrameType
<1>6. \A k \in DOMAIN t : k = 1 \/ k = 2 \/ (k - 1 \in DOMAIN st /\ k - 1 # 1 /\ t[k].at = st[k - 1].at)
  BY <1>1, <1>5
<1>7. \A k \in DOMAIN t : k = 1 \/ (k - 1 \in DOMAIN st /\ t[k].fn = st[k - 1].fn /\ t[k].node = st[k - 1].node)
  BY <1>1, <1>5
<1>8. /\ u.nodeState # "TASKDISTRIBUTION"
      /\ st[1].fn = "TASKRECEPTION" => i >= 3
      /\ u.nodeState = "TASKRECEPTION" => st[1].fn = "TASKDISTRIBUTION" /\ i >= 4
      /\ Height(st[1].fn, s) > Height(u.nodeState, u)
  BY DEF Leads
<1>. /\ Fresh(st, s) /\ Receiving(st, s) /\ OneDistribution(st)
     /\ Resumed(st, s, o) /\ Shallow(st, s)
  BY DEF Stacked
<1>9. Fresh(t, u)
  <2>. SUFFICES ASSUME NEW k \in DOMAIN t, t[k].at = 1, k # 1
                PROVE  t[k].fn = "SendAugmentationRequest"
    BY <1>3 DEF Fresh
  <2>1. k # 2
    BY <1>4
  <2>2. k - 1 \in DOMAIN st /\ k - 1 # 1 /\ st[k - 1].at = 1 /\ t[k].fn = st[k - 1].fn
    BY <1>6, <1>7, <2>1
  <2> QED
    BY <2>2 DEF Fresh
<1>10. Receiving(t, u)
  <2>. SUFFICES ASSUME NEW k \in DOMAIN t, t[k].fn = "TASKRECEPTION", t[k].at <= 3
                PROVE  /\ k = 1 /\ u.nodeState = "TASKRECEPTION"
                       /\ \A j \in DOMAIN t : t[j].fn = "TASKDISTRIBUTION" => t[j].at >= 5
    BY DEF Receiving
  <2>1. k = 1
    <3>. SUFFICES ASSUME k # 1 PROVE FALSE
      OBVIOUS
    <3>1. k - 1 \in DOMAIN st /\ st[k - 1].fn = "TASKRECEPTION"
      BY <1>7
    <3>2. CASE k = 2
      BY <1>4, <1>8, <3>2
    <3>3. CASE k # 2
      <4>1. k - 1 # 1 /\ st[k - 1].at <= 3
        BY <1>6, <3>3
      <4> QED
        BY <3>1, <4>1 DEF Receiving
    <3> QED
      BY <3>2, <3>3
  <2>2. st[1].fn = "TASKDISTRIBUTION" /\ i >= 4 /\ u.nodeState = "TASKRECEPTION"
    BY <1>3, <1>8, <2>1
  <2>3. ASSUME NEW j \in DOMAIN t, t[j].fn = "TASKDISTRIBUTION" PROVE t[j].at >= 5
    <3>1. j # 1 /\ j - 1 \in DOMAIN st /\ st[j - 1].fn = "TASKDISTRIBUTION"
      BY <1>3, <1>7, <1>8, <2>3
    <3>2. j - 1 = 1
      BY <1>1, <2>2, <3>1 DEF OneDistribution
    <3>3. j = 2
      BY <1>1, <3>2
    <3> QED
      BY <1>4, <2>2, <3>3
  <2> QED
    BY <2>1, <2>2, <2>3
<1>11. OneDistribution(t)
  <2>. SUFFICES ASSUME NEW j \in DOMAIN t, NEW k \in DOMAIN t,
                       t[j].fn = "TASKDISTRIBUTION", t[k].fn = "TASKDISTRIBUTION"
                PROVE  j = k
    BY DEF OneDistribution
  <2>1. /\ j # 1 /\ j - 1 \in DOMAIN st /\ st[j - 1].fn = "TASKDISTRIBUTION"
        /\ k # 1 /\ k - 1 \in DOMAIN st /\ st[k - 1].fn = "TASKDISTRIBUTION"
    BY <1>3, <1>7, <1>8
  <2>2. j - 1 = k - 1
    BY <2>1 DEF OneDistribution
  <2> QED
    BY <1>1, <2>2
<1>12. Resumed(t, u, p)
  <2>. SUFFICES ASSUME NEW k \in DOMAIN t, t[k].fn = "TASKDISTRIBUTION", t[k].at <= 4,
                       u.DistributionFlag = 1
                PROVE  u.NTasks <= 0 /\ p
    BY DEF Resumed
  <2>1. k # 1 /\ k - 1 \in DOMAIN st /\ st[k - 1].fn = "TASKDISTRIBUTION"
    BY <1>3, <1>7, <1>8
  <2>2. st[k - 1].at <= 4
    <3>1. CASE k = 2
      <4>1. st[k - 1] = st[1]
        BY <3>1
      <4> QED
        BY <1>2, <1>4, <3>1, <4>1
    <3>2. CASE k # 2
      BY <1>6, <2>1, <3>2
    <3> QED
      BY <3>1, <3>2
  <2>3. ~(st[1].fn = "TASKRECEPTION" /\ i = 3)
    <3>. SUFFICES ASSUME st[1].fn = "TASKRECEPTION", i = 3 PROVE FALSE
      OBVIOUS
    <3>1. st[1].at <= 3
      BY <1>2
    <3>2. st[k - 1].at >= 5 /\ st[k - 1].at \in 1 .. 6
      BY <1>1, <1>5, <2>1, <3>1 DEF Receiving
    <3> QED
      BY <2>2, <3>2
  <2>4. ~(st[1].fn = "TASKDISTRIBUTION" /\ i = 5)
    <3>. SUFFICES ASSUME st[1].fn = "TASKDISTRIBUTION", i = 5 PROVE FALSE
      OBVIOUS
    <3>1. k - 1 = 1
      BY <1>1, <2>1 DEF OneDistribution
    <3>2. k = 2
      BY <1>1, <3>1
    <3> QED
      BY <1>4, <3>2
  <2>5. u.DistributionFlag = s.DistributionFlag /\ u.NTasks = s.NTasks
    BY <2>3, <2>4 DEF Leads
  <2>6. s.NTasks <= 0 /\ o
    BY <2>1, <2>2, <2>5 DEF Resumed
  <2> QED
    BY <2>3, <2>5, <2>6 DEF Unfinished
<1>13. Shallow(t, u)
  <2>. SUFFICES ASSUME NEW k \in DOMAIN t
                PROVE  Len(t) - k + Height(t[k].fn, u) <= StackDepth
    BY DEF Shallow
  <2>1. u.nodeState \in Functions
    BY DEF Leads, Typed, Functions
  <2>2. \A fn \in Functions : /\ Height(fn, s) \in 1 .. 4 /\ Height(fn, u) \in 1 .. 4
                               /\ Height(fn, u) <= Height(fn, s)
    BY HeightFalls DEF Leads, Starts
  <2>3. \A j \in DOMAIN st : Len(st) - j + Height(st[j].fn, s) <= StackDepth /\ st[j].fn \in Functions
    BY <1>1 DEF Shallow, FrameType
  <2>4. CASE k = 1
    BY <1>1, <1>3, <1>8, <2>1, <2>2, <2>3, <2>4 DEF StackDepth
  <2>5. CASE k # 1
    <3>1. k - 1 \in DOMAIN st /\ t[k].fn = st[k - 1].fn
      BY <1>7, <2>5
    <3>2. /\ Len(st) - (k - 1) + Height(st[k - 1].fn, s) <= StackDepth
          /\ Height(st[k - 1].fn, u) <= Height(st[k - 1].fn, s)
          /\ Height(st[k - 1].fn, s) \in 1 .. 4 /\ Height(st[k - 1].fn, u) \in 1 .. 4
      BY <2>2, <2>3, <3>1
    <3>. DEFINE a == Height(st[k - 1].fn, s)
                b == Height(st[k - 1].fn, u)
                l == Len(st)
    <3>3. k \in Int /\ l \in Int /\ Len(t) = l + 1
      BY <1>1
    <3>4. l - (k - 1) + a <= 5 /\ b <= a /\ a \in Int /\ b \in Int
      BY <3>2 DEF StackDepth
    <3>5. t[k].fn = st[k - 1].fn
      BY <3>1
    <3>6. l + 1 - k + b <= 5
      <4>. HIDE DEF a, b, l
      <4> QED
        BY <3>3, <3>4
    <3> QED
      BY <3>3, <3>5, <3>6 DEF StackDepth
  <2> QED
    BY <2>4, <2>5
<1>14. \A j, k \in DOMAIN t : t[j].node = t[k].node
  BY <1>1, <1>3, <1>7 DEF Stacked
<1> QED
  BY <1>9, <1>10, <1>11, <1>12, <1>13, <1>14 DEF Stacked

-----------------------------------------------------------------------------
(* The steps.                                                              *)

LEMMA HeadTyped ==
    ASSUME Stack, stack # <<>>
    PROVE  /\ Head(stack) = stack[1] /\ stack[1] \in FrameType /\ stack \in Seq(FrameType)
           /\ stack[1].node \in Nodes /\ stack[1].fn \in Functions /\ stack[1].at \in 1 .. 6
           /\ Len(stack) \in Nat /\ Len(stack) >= 1 /\ 1 \in DOMAIN stack
<1>1. stack \in Seq(FrameType)
  BY DEF Stack
<1>2. Len(stack) >= 1 /\ Len(stack) \in Nat /\ Head(stack) = stack[1] /\ 1 \in DOMAIN stack
  BY <1>1
<1>3. stack[1] \in FrameType
  BY <1>1, <1>2
<1> QED
  BY <1>1, <1>2, <1>3 DEF FrameType

\* The block that is executed may start.
LEMMA ExecutingStarts ==
    ASSUME Control, NEW n \in Nodes, NEW fn, NEW i \in 1 .. 5, Executing(n, fn, i)
    PROVE  /\ stack # <<>> /\ stack[1].node = n /\ stack[1].fn = fn
           /\ i <= Len(Blocks(n, fn)) /\ Blocks(n, fn)[i].on
           /\ Starts(sm[n], round[n].open, fn, stack[1].at, i)
<1>. DEFINE s == sm[n]
            o == round[n].open
            B == Blocks(n, fn)
<1>1. /\ stack # <<>> /\ Head(stack) = stack[1]
      /\ stack[1].node = n /\ stack[1].fn = fn /\ stack[1].at \in 1 .. 6 /\ 1 \in DOMAIN stack
  BY HeadTyped DEF Executing, Control
<1>2. /\ stack[1].at <= i /\ i <= Len(B) /\ B[i].on
      /\ \A j \in stack[1].at .. Len(B) : B[j].on => i <= j
  BY <1>1 DEF Executing, Enabled
<1>3. Stacked(stack, s, o) /\ Ending(stack, n, s) /\ Handing(stack, n, s)
  BY <1>1 DEF Control, Stack, Waits
<1>4. Typed(s) /\ Ready(s, o)
  BY DEF Control, Vehicles
<1>5. stack[1].at = 1 /\ fn # "SendAugmentationRequest" => s.nodeState = fn
  BY <1>1, <1>3 DEF Stacked, Fresh
<1>6. fn = "TASKRECEPTION" /\ stack[1].at <= 3 => s.nodeState = "TASKRECEPTION"
  BY <1>1, <1>3 DEF Stacked, Receiving
<1>7. fn = "TASKDISTRIBUTION" /\ stack[1].at <= 4 /\ s.DistributionFlag = 1 => s.NTasks <= 0 /\ o
  BY <1>1, <1>3 DEF Stacked, Resumed
<1>8. ASSUME Untimed(s) PROVE fn = "TASKRECEPTION" /\ i <= 3 /\ Finished(s)
  <2>1. fn = "TASKRECEPTION" /\ stack[1].at <= 3 /\ Finished(s)
    BY <1>1, <1>3, <1>8 DEF Ending
  <2>2. Len(B) = 4 /\ B[3].on
    BY <2>1 DEF Blocks, StateTaskReception, Block
  <2> QED
    BY <1>1, <1>2, <2>1, <2>2
<1>9. ASSUME s.nodeState = "TASKDISTRIBUTION", s.Distribution = 3
      PROVE  fn = "TASKDISTRIBUTION" /\ i <= 3
  <2>1. fn = "TASKDISTRIBUTION" /\ stack[1].at = 1
    BY <1>1, <1>3, <1>9 DEF Handing
  <2>2. Len(B) = 5 /\ B[3].on
    BY <1>9, <2>1 DEF Blocks, StateTaskDistribution, Block
  <2> QED
    BY <1>2, <2>1, <2>2
<1> QED
  BY <1>1, <1>2, <1>4, <1>5, <1>6, <1>7, <1>8, <1>9 DEF Starts

\* The other vehicles do not notice what runs at n.
LEMMA OthersWait ==
    ASSUME Control, NEW n \in Nodes, NEW m \in Nodes, m # n, sm'[m] = sm[m],
           stack = <<>> \/ stack[1].node = n,
           stack' = <<>> \/ stack'[1].node = n
    PROVE  Ending(stack', m, sm'[m]) /\ Handing(stack', m, sm'[m])
<1>1. Ending(stack, m, sm[m]) /\ Handing(stack, m, sm[m])
  BY DEF Control, Waits
<1> QED
  BY <1>1 DEF Ending, Handing

\* What Logged makes of the history.
LEMMA LoggedOpen ==
    ASSUME NEW fn, NEW i \in 1 .. 5, NEW r \in [open : BOOLEAN, reported : SUBSET Everyone]
    PROVE  /\ Logged(fn, i, r) \in [open : BOOLEAN, reported : SUBSET Everyone]
           /\ Logged(fn, i, r).open = Unfinished(fn, i, r.open)
BY DEF Logged, Unfinished

\* The frames t after block i, by their places.
After(st, n, i, new, t) ==
    /\ t \in Seq(FrameType) /\ t # <<>> /\ t[1].node = n
    /\ new = <<>> =>
          /\ Len(t) = Len(st)
          /\ t[1].fn = st[1].fn /\ t[1].at = i + 1
          /\ \A k \in 2 .. Len(t) : t[k] = st[k]
    /\ \A x \in Functions : new = <<x>> =>
          /\ Len(t) = Len(st) + 1
          /\ t[1].fn = x /\ t[1].at = 1
          /\ t[2].node = n /\ t[2].fn = st[1].fn /\ t[2].at = i + 1
          /\ \A k \in 2 .. Len(st) : t[k + 1] = st[k]

LEMMA FramesAfter ==
    ASSUME NEW st \in Seq(FrameType), st # <<>>, NEW i \in 1 .. 5, NEW n, n = st[1].node,
           NEW new, new = <<>> \/ \E x \in Functions : new = <<x>>,
           NEW t, t = Frames(n, new) \o <<[Head(st) EXCEPT !.at = i + 1]>> \o Tail(st)
    PROVE  After(st, n, i, new, t)
<1>. DEFINE h == [Head(st) EXCEPT !.at = i + 1]
            T == Tail(st)
<1>1. /\ Head(st) = st[1] /\ st[1] \in FrameType /\ Len(st) \in Nat /\ Len(st) >= 1
      /\ T \in Seq(FrameType) /\ Len(T) = Len(st) - 1 /\ \A k \in 1 .. Len(T) : T[k] = st[k + 1]
  OBVIOUS
<1>2. h \in FrameType /\ h.node = st[1].node /\ h.fn = st[1].fn /\ h.at = i + 1
  <2>1. ASSUME NEW g \in FrameType, NEW j \in 1 .. 6
        PROVE  LET c == [g EXCEPT !.at = j]
               IN  c \in FrameType /\ c.node = g.node /\ c.fn = g.fn /\ c.at = j
    BY DEF FrameType
  <2>2. h = [st[1] EXCEPT !.at = i + 1]
    BY <1>1, Zenon
  <2>3. i + 1 \in 1 .. 6
    OBVIOUS
  <2>. HIDE DEF h, T
  <2> QED
    BY <1>1, <2>1, <2>2, <2>3
<1>3. \A x \in Functions : LET f == Frame(n, x)
                          IN  f \in FrameType /\ f.node = n /\ f.fn = x /\ f.at = 1
  BY <1>1 DEF Frame, FrameType
<1>. HIDE DEF h, T
<1>4. CASE new = <<>>
  <2>1. t = <<h>> \o T
    <3>1. Frames(n, new) = <<>>
      BY <1>4 DEF Frames
    <3> QED
      BY <1>1, <1>2, <3>1 DEF h, T
  <2>. DEFINE u == <<h>> \o T
  <2>2. /\ u \in Seq(FrameType) /\ Len(u) = Len(st) /\ u[1] = h
        /\ \A k \in 2 .. Len(u) : u[k] = st[k]
    BY <1>1, <1>2
  <2>3. t # <<>>
    BY <1>1, <2>1, <2>2
  <2>. HIDE DEF u
  <2>4. t = u
    BY <2>1 DEF u
  <2> QED
    BY <1>2, <1>4, <2>2, <2>3, <2>4 DEF After
<1>5. ASSUME NEW x \in Functions, new = <<x>>
      PROVE  /\ t \in Seq(FrameType) /\ t # <<>> /\ t[1].node = n
             /\ Len(t) = Len(st) + 1
             /\ t[1].fn = x /\ t[1].at = 1
             /\ t[2].node = n /\ t[2].fn = st[1].fn /\ t[2].at = i + 1
             /\ \A k \in 2 .. Len(st) : t[k + 1] = st[k]
  <2>. DEFINE f == Frame(n, x)
  <2>1. f \in FrameType /\ f.node = n /\ f.fn = x /\ f.at = 1
    BY <1>3
  <2>2. t = <<f>> \o <<h>> \o T
    <3>1. Frames(n, new) = <<f>>
      BY <1>5 DEF Frames
    <3> QED
      BY <3>1 DEF h, T
  <2>. HIDE DEF f
  <2>. DEFINE u == <<f>> \o <<h>> \o T
  <2>3. /\ u \in Seq(FrameType) /\ Len(u) = Len(st) + 1 /\ u[1] = f /\ u[2] = h
        /\ \A k \in 2 .. Len(st) : u[k + 1] = st[k]
    BY <1>1, <1>2, <2>1
  <2>. HIDE DEF u
  <2>4. u # <<>>
    BY <1>1, <2>3
  <2>5. t = u
    BY <2>2 DEF u
  <2> QED
    BY <1>2, <2>1, <2>3, <2>4, <2>5
<1>6. \A x \in Functions : new = <<x>> => x = new[1] /\ new # <<>>
  OBVIOUS
<1> QED
  BY <1>4, <1>5, <1>6 DEF After

\* Everything about the vehicle that runs a block; what it sends is typed.
LEMMA ExecuteControls ==
    ASSUME Control, NEW n \in Nodes, NEW fn \in Functions, NEW i \in 1 .. 5, Execute(n, fn, i)
    PROVE  Control'
<1>. DEFINE s == sm[n]
            o == round[n].open
            e == Blocks(n, fn)[i].do
            p == Unfinished(fn, i, o)
<1>1. /\ stack # <<>> /\ stack[1].node = n /\ stack[1].fn = fn
      /\ i <= Len(Blocks(n, fn)) /\ Blocks(n, fn)[i].on
      /\ Starts(s, o, fn, stack[1].at, i)
  BY ExecutingStarts DEF Execute
<1>2. Leads(s, o, fn, i, e)
  BY <1>1, BlockLeads
<1>3. /\ sm' = [sm EXCEPT ![n] = e.s]
      /\ stack' = Frames(n, e.calls) \o <<[Head(stack) EXCEPT !.at = i + 1]>> \o Tail(stack)
      /\ net' = [net EXCEPT ![n] = Then(@, e.send)]
      /\ round' = [round EXCEPT ![n] = Logged(fn, i, @)]
  BY DEF Execute
<1>. HIDE DEF e
<1>4. sm'[n] = e.s /\ DOMAIN sm' = Nodes /\ \A m \in Nodes : m # n => sm'[m] = sm[m]
  BY <1>3 DEF Control, Vehicles
<1>5. /\ round' \in [Nodes -> [open : BOOLEAN, reported : SUBSET Everyone]]
      /\ round'[n].open = p /\ \A m \in Nodes : m # n => round'[m] = round[m]
  <2>1. round \in [Nodes -> [open : BOOLEAN, reported : SUBSET Everyone]]
    BY DEF Control, Rounds
  <2>2. /\ Logged(fn, i, round[n]) \in [open : BOOLEAN, reported : SUBSET Everyone]
        /\ Logged(fn, i, round[n]).open = p
    BY <2>1, LoggedOpen
  <2>. HIDE DEF p
  <2> QED
    BY <1>3, <2>1, <2>2
<1>6. Network'
  <2>1. e.send \in Sends /\ n \in Everyone /\ net \in [Everyone -> Sends]
    BY <1>2 DEF Leads, Everyone, Control, Network
  <2>2. Then(net[n], e.send) \in Sends
    BY <2>1, SendsType
  <2> QED
    BY <1>3, <2>1, <2>2 DEF Network
<1>7. Vehicles'
  <2>1. Typed(e.s) /\ Ready(e.s, p)
    BY <1>2 DEF Leads
  <2>2. ASSUME NEW m \in Nodes PROVE Typed(sm'[m]) /\ Ready(sm'[m], round'[m].open)
    BY <1>4, <1>5, <2>1 DEF Control, Vehicles
  <2> QED
    BY <1>4, <2>2 DEF Vehicles
<1>8. stack \in Seq(FrameType) /\ Stacked(stack, s, o)
  BY <1>1 DEF Control, Stack
<1>9. e.calls = <<>> \/ (e.calls = <<e.s.nodeState>> /\ e.s.nodeState \in Functions)
  BY <1>2 DEF Leads, Typed, Functions
<1>10. /\ stack' \in Seq(FrameType) /\ stack' # <<>> /\ stack'[1].node = n
       /\ e.calls = <<>> =>
             /\ Len(stack') = Len(stack)
             /\ stack'[1].fn = fn /\ stack'[1].at = i + 1
             /\ \A k \in 2 .. Len(stack') : stack'[k] = stack[k]
       /\ \A x \in Functions : e.calls = <<x>> =>
             /\ Len(stack') = Len(stack) + 1
             /\ stack'[1].fn = x /\ stack'[1].at = 1
             /\ stack'[2].node = n /\ stack'[2].fn = fn /\ stack'[2].at = i + 1
             /\ \A k \in 2 .. Len(stack) : stack'[k + 1] = stack[k]
  <2>1. e.calls = <<>> \/ \E x \in Functions : e.calls = <<x>>
    BY <1>9
  <2>2. n = stack[1].node /\ stack \in Seq(FrameType) /\ stack # <<>> /\ fn = stack[1].fn
    BY <1>1, <1>8
  <2>3. stack' = Frames(n, e.calls) \o <<[Head(stack) EXCEPT !.at = i + 1]>> \o Tail(stack)
    BY <1>3
  <2>4. After(stack, n, i, e.calls, stack')
    BY <2>1, <2>2, <2>3, FramesAfter
  <2> QED
    BY <2>2, <2>4 DEF After
<1>11. Stacked(stack', e.s, p)
  <2>1. CASE e.calls = <<>>
    BY <1>1, <1>2, <1>8, <1>10, <2>1, StackedStays
  <2>2. CASE e.calls = <<e.s.nodeState>> /\ e.s.nodeState \in Functions
    <3>1. /\ Len(stack') = Len(stack) + 1
          /\ stack'[1].fn = e.s.nodeState /\ stack'[1].at = 1
          /\ stack'[2].node = n /\ stack'[2].fn = fn /\ stack'[2].at = i + 1
          /\ \A k \in 2 .. Len(stack) : stack'[k + 1] = stack[k]
      BY <1>10, <2>2
    <3>2. /\ stack \in Seq(FrameType) /\ stack # <<>> /\ stack[1].node = n /\ stack[1].fn = fn
          /\ stack' \in Seq(FrameType) /\ stack'[1].node = n
          /\ Stacked(stack, s, o) /\ Starts(s, o, fn, stack[1].at, i) /\ Leads(s, o, fn, i, e)
      BY <1>1, <1>2, <1>8, <1>10
    <3>. HIDE DEF s, o, p
    <3>3. Stacked(stack', e.s, Unfinished(fn, i, o))
      BY <2>2, <3>1, <3>2, StackedCalls
    <3> QED
      BY <3>3 DEF p
  <2> QED
    BY <1>9, <2>1, <2>2
<1>12. Stack'
  <2>1. ASSUME NEW m \in Nodes, stack'[1].node = m PROVE Stacked(stack', sm'[m], round'[m].open)
    <3>1. m = n /\ sm'[m] = e.s /\ round'[m].open = p
      BY <1>4, <1>5, <1>10, <2>1
    <3>. HIDE DEF p
    <3> QED
      BY <1>11, <3>1
  <2> QED
    BY <1>10, <2>1 DEF Stack
<1>13. Ending(stack', n, e.s)
  BY <1>2, <1>9, <1>10 DEF Leads, Ending, Untimed
<1>14. Handing(stack', n, e.s)
  <2>. SUFFICES ASSUME e.s.nodeState = "TASKDISTRIBUTION", e.s.Distribution <= 3
                PROVE  /\ e.s.due = <<"T_TaskDistribution">>
                       /\ Len(stack') = 1 /\ stack'[1].fn = "TASKDISTRIBUTION" /\ stack'[1].at = 6
                       /\ e.s.Distribution # 3
    BY <1>10 DEF Handing
  <2>1. e.calls = <<>> /\ s.nodeState = "TASKDISTRIBUTION" /\ s.Distribution <= 3
    BY <1>2 DEF Leads
  <2>2. /\ s.due = <<"T_TaskDistribution">> /\ Len(stack) = 1 /\ fn = "TASKDISTRIBUTION"
    BY <1>1, <2>1 DEF Control, Waits, Handing
  <2>3. e.s.due = s.due /\ i = 5 /\ s.Distribution # 3 /\ e.s.Distribution = s.Distribution
    BY <1>2, <2>2 DEF Leads
  <2> QED
    BY <1>10, <2>1, <2>2, <2>3
<1>15. Waits'
  <2>1. ASSUME NEW m \in Nodes, m # n
        PROVE  Ending(stack', m, sm'[m]) /\ Handing(stack', m, sm'[m])
    BY <1>1, <1>4, <1>10, <2>1, OthersWait
  <2> QED
    BY <1>4, <1>13, <1>14, <2>1 DEF Waits
<1>16. Rounds'
  BY <1>5 DEF Rounds
<1>. HIDE DEF p, o, s
<1> QED
  BY <1>6, <1>7, <1>12, <1>15, <1>16 DEF Control

\* The frames below a function that returns.
LEMMA StackedReturns ==
    ASSUME NEW st \in Seq(FrameType), st # <<>>, NEW s, NEW o, Stacked(st, s, o)
    PROVE  Stacked(Tail(st), s, o)
<1>. DEFINE t == Tail(st)
<1>1. /\ DOMAIN t = 1 .. Len(st) - 1 /\ DOMAIN st = 1 .. Len(st) /\ Len(st) \in Nat
      /\ Len(t) = Len(st) - 1
      /\ \A j \in DOMAIN t : t[j] = st[j + 1] /\ j + 1 \in DOMAIN st /\ j + 1 # 1
  OBVIOUS
<1>. HIDE DEF t
<1>2. Fresh(t, s) /\ Receiving(t, s)
  BY <1>1 DEF Stacked, Fresh, Receiving
<1>3. OneDistribution(t)
  <2>1. \A i, j \in DOMAIN t : i + 1 = j + 1 => i = j
    BY <1>1
  <2> QED
    BY <1>1, <2>1 DEF Stacked, OneDistribution
<1>4. Resumed(t, s, o)
  BY <1>1 DEF Stacked, Resumed
<1>5. Shallow(t, s)
  <2>. SUFFICES ASSUME NEW j \in DOMAIN t
                PROVE  Len(t) - j + Height(t[j].fn, s) <= StackDepth
    BY DEF Shallow
  <2>1. Len(st) - (j + 1) + Height(t[j].fn, s) <= StackDepth
    BY <1>1 DEF Stacked, Shallow
  <2>2. Len(t) - j = Len(st) - (j + 1)
    BY <1>1
  <2> QED
    BY <2>1, <2>2
<1>6. \A i, j \in DOMAIN t : t[i].node = t[j].node
  BY <1>1 DEF Stacked
<1> QED
  BY <1>2, <1>3, <1>4, <1>5, <1>6 DEF Stacked, t

LEMMA ReturnControls ==
    ASSUME Control, Return
    PROVE  Control'
<1>1. /\ stack # <<>> /\ Enabled(stack[1]) = {} /\ stack' = Tail(stack)
      /\ sm' = sm /\ net' = net /\ round' = round
  BY HeadTyped DEF Return, Control
<1>2. /\ stack[1] \in FrameType /\ stack \in Seq(FrameType) /\ stack[1].node \in Nodes
      /\ Len(stack) \in Nat /\ Len(stack) >= 1 /\ 1 \in DOMAIN stack
      /\ stack[1].at \in 1 .. 6
  BY <1>1, HeadTyped DEF Control
<1>3. /\ stack' \in Seq(FrameType)
      /\ Len(stack) = 1 => stack' = <<>>
      /\ stack' # <<>> => stack'[1] = stack[2] /\ 2 \in DOMAIN stack
  BY <1>1, <1>2
<1>4. \A m \in Nodes : stack[1].node = m => Stacked(stack, sm[m], round[m].open)
  BY <1>1 DEF Control, Stack
<1>5. stack' # <<>> => stack'[1].node = stack[1].node
  BY <1>2, <1>3, <1>4 DEF Stacked
<1>6. Stack'
  <2>1. ASSUME NEW m \in Nodes, stack' # <<>>, stack'[1].node = m
        PROVE  Stacked(stack', sm'[m], round'[m].open)
    BY <1>1, <1>2, <1>4, <1>5, <2>1, StackedReturns
  <2> QED
    BY <1>3, <2>1 DEF Stack
<1>7. ASSUME NEW m \in Nodes PROVE Ending(stack', m, sm'[m]) /\ Handing(stack', m, sm'[m])
  <2>. DEFINE s == sm[m]
  <2>1. Ending(stack, m, s) /\ Handing(stack, m, s)
    BY DEF Control, Waits
  <2>2. ~Untimed(s)
    <3>. SUFFICES ASSUME Untimed(s) PROVE FALSE
      OBVIOUS
    <3>1. stack[1].node = m /\ stack[1].fn = "TASKRECEPTION" /\ stack[1].at <= 3 /\ Finished(s)
      BY <2>1 DEF Ending
    <3>2. /\ Len(Blocks(m, "TASKRECEPTION")) = 4
          /\ Blocks(m, "TASKRECEPTION")[3].on
      BY <3>1 DEF Blocks, StateTaskReception, Block
    <3>3. 3 \in Enabled(stack[1])
      BY <1>2, <3>1, <3>2 DEF Enabled
    <3> QED
      BY <1>1, <3>3
  <2>3. Handing(stack', m, s)
    <3>. SUFFICES ASSUME s.nodeState = "TASKDISTRIBUTION", s.Distribution <= 3
                  PROVE  /\ s.due = <<"T_TaskDistribution">>
                         /\ stack' = <<>> \/ stack'[1].node # m
                         /\ s.Distribution # 3
      BY DEF Handing
    <3>1. /\ s.due = <<"T_TaskDistribution">>
          /\ stack[1].node = m => Len(stack) = 1 /\ stack[1].fn = "TASKDISTRIBUTION"
          /\ s.Distribution = 3 => stack[1].node = m /\ stack[1].at = 1
      BY <1>1, <2>1 DEF Handing
    <3>2. ASSUME s.Distribution = 3 PROVE FALSE
      <4>1. stack[1].node = m /\ stack[1].fn = "TASKDISTRIBUTION" /\ stack[1].at = 1
        BY <3>1, <3>2
      <4>2. /\ Len(Blocks(m, "TASKDISTRIBUTION")) = 5
            /\ Blocks(m, "TASKDISTRIBUTION")[3].on
        BY <3>2 DEF Blocks, StateTaskDistribution, Block
      <4>3. 3 \in Enabled(stack[1])
        BY <4>1, <4>2 DEF Enabled
      <4> QED
        BY <1>1, <4>3
    <3> QED
      BY <1>3, <1>5, <3>1, <3>2
  <2> QED
    BY <1>1, <2>2, <2>3 DEF Ending
<1>8. Network' /\ Vehicles' /\ Rounds'
  BY <1>1 DEF Control, Network, Vehicles, Rounds
<1> QED
  BY <1>6, <1>7, <1>8 DEF Control, Waits

-----------------------------------------------------------------------------
(* A timer or a packet.                                                    *)

\* What a callback at a vehicle whose last distribution is unfinished iff o
\* leaves, with effect e.
Begins(o, e) ==
    /\ Typed(e.s) /\ Ready(e.s, o) /\ e.send \in Sends
    /\ ~Untimed(e.s)
    /\ \/ e.calls = <<>>
       \/ e.calls = <<e.s.nodeState>>
       \/ e.calls = <<"SendAugmentationRequest">>
       \/ e.calls = <<e.s.nodeState, "SendAugmentationRequest">>
    /\ e.s.nodeState = "TASKDISTRIBUTION" /\ e.s.Distribution <= 3 =>
          /\ e.s.due = <<"T_TaskDistribution">>
          /\ e.calls = <<"TASKDISTRIBUTION">>

\* The frames of a callback.
LEMMA StackedBegins ==
    ASSUME NEW n \in Nodes, NEW o, NEW e, Begins(o, e)
    PROVE  LET t == Frames(n, e.calls)
           IN  /\ t \in Seq(FrameType) /\ Stacked(t, e.s, o)
               /\ t # <<>> => t[1].node = n
               /\ e.calls = <<"TASKDISTRIBUTION">> =>
                     Len(t) = 1 /\ t # <<>> /\ t[1].fn = "TASKDISTRIBUTION" /\ t[1].at = 1
<1>. DEFINE u == e.s
            d == u.nodeState
            A == "SendAugmentationRequest"
            P(t) == /\ t \in Seq(FrameType) /\ Stacked(t, u, o)
                    /\ t # <<>> => t[1].node = n
                    /\ e.calls = <<"TASKDISTRIBUTION">> =>
                          Len(t) = 1 /\ t # <<>> /\ t[1].fn = "TASKDISTRIBUTION" /\ t[1].at = 1
<1>. SUFFICES P(Frames(n, e.calls))
  OBVIOUS
<1>1. Typed(u) /\ Ready(u, o) /\ d \in States /\ d \in Functions /\ A \in Functions /\ d # A
  BY DEF Begins, Typed, Functions, States
<1>2. \A fn \in Functions : Height(fn, u) \in 1 .. 4
  BY <1>1, HeightFalls DEF Typed
<1>3. Height(A, u) = 3
  BY DEF Height
<1>4. d = "TASKDISTRIBUTION" /\ u.DistributionFlag = 1 => u.NTasks <= 0 /\ o
  BY <1>1 DEF Ready
<1>5. \A fn \in Functions : /\ Frame(n, fn) \in FrameType /\ Frame(n, fn).node = n
                           /\ Frame(n, fn).fn = fn /\ Frame(n, fn).at = 1
  BY DEF Frame, FrameType
<1>. HIDE DEF u, d, A
<1>6. CASE e.calls = <<>>
  <2>1. Frames(n, e.calls) = <<>>
    BY <1>6 DEF Frames
  <2>2. P(<<>>)
    BY <1>6 DEF Stacked, Fresh, Receiving, OneDistribution, Resumed, Shallow
  <2> QED
    BY <2>1, <2>2
<1>7. ASSUME NEW fn \in {d, A}, e.calls = <<fn>> PROVE P(Frames(n, e.calls))
  <2>. DEFINE t == Frames(n, e.calls)
  <2>1. t = <<Frame(n, fn)>>
    BY <1>7 DEF Frames
  <2>2. /\ t \in Seq(FrameType) /\ Len(t) = 1 /\ DOMAIN t = {1} /\ t # <<>>
        /\ t[1].node = n /\ t[1].fn = fn /\ t[1].at = 1
    BY <1>1, <1>5, <2>1
  <2>. HIDE DEF t
  <2>3. Fresh(t, u) /\ Receiving(t, u) /\ OneDistribution(t)
    BY <1>1, <2>2 DEF Fresh, Receiving, OneDistribution, d, A
  <2>4. Resumed(t, u, o)
    BY <1>1, <1>4, <2>2 DEF Resumed, d, A
  <2>5. Shallow(t, u)
    BY <1>1, <1>2, <2>2 DEF Shallow, StackDepth
  <2>6. e.calls = <<"TASKDISTRIBUTION">> => fn = "TASKDISTRIBUTION"
    BY <1>7
  <2> QED
    BY <2>2, <2>3, <2>4, <2>5, <2>6 DEF Stacked, t
<1>8. CASE e.calls = <<d, A>>
  <2>. DEFINE t == Frames(n, e.calls)
  <2>1. t = <<Frame(n, d), Frame(n, A)>>
    BY <1>8 DEF Frames
  <2>2. /\ t \in Seq(FrameType) /\ Len(t) = 2 /\ DOMAIN t = {1, 2} /\ t # <<>>
        /\ t[1].node = n /\ t[1].fn = d /\ t[1].at = 1
        /\ t[2].node = n /\ t[2].fn = A /\ t[2].at = 1
    BY <1>1, <1>5, <2>1
  <2>. HIDE DEF t
  <2>3. Fresh(t, u) /\ Receiving(t, u) /\ OneDistribution(t)
    BY <1>1, <2>2 DEF Fresh, Receiving, OneDistribution, d, A
  <2>4. Resumed(t, u, o)
    BY <1>1, <1>4, <2>2 DEF Resumed, d, A
  <2>5. Shallow(t, u)
    BY <1>1, <1>2, <1>3, <2>2 DEF Shallow, StackDepth
  <2>6. e.calls # <<"TASKDISTRIBUTION">>
    BY <1>8
  <2> QED
    BY <2>2, <2>3, <2>4, <2>5, <2>6 DEF Stacked, t
<1>9. e.calls = <<>> \/ e.calls = <<d>> \/ e.calls = <<A>> \/ e.calls = <<d, A>>
  BY DEF Begins, u, d, A
<1> QED
  BY <1>6, <1>7, <1>8, <1>9

LEMMA ApplyControls ==
    ASSUME Control, Idle, NEW n \in Nodes, NEW e, NEW queues \in [Everyone -> Sends],
           Apply(n, e, queues), Begins(round[n].open, e),
           Rounds', \A m \in Nodes : round'[m].open = round[m].open
    PROVE  Control'
<1>. DEFINE o == round[n].open
<1>1. /\ sm' = [sm EXCEPT ![n] = e.s] /\ stack' = Frames(n, e.calls)
      /\ net' = [queues EXCEPT ![n] = Then(@, e.send)] /\ stack = <<>>
  BY DEF Apply, Idle
<1>2. sm'[n] = e.s /\ DOMAIN sm' = Nodes /\ \A m \in Nodes : m # n => sm'[m] = sm[m]
  BY <1>1 DEF Control, Vehicles
<1>3. Network'
  <2>1. e.send \in Sends /\ n \in Everyone
    BY DEF Begins, Everyone
  <2>2. Then(queues[n], e.send) \in Sends
    BY <2>1, SendsType
  <2> QED
    BY <1>1, <2>1, <2>2 DEF Network
<1>4. Vehicles'
  <2>1. ASSUME NEW m \in Nodes PROVE Typed(sm'[m]) /\ Ready(sm'[m], round'[m].open)
    BY <1>2 DEF Control, Vehicles, Begins
  <2> QED
    BY <1>2, <2>1 DEF Vehicles
<1>5. /\ stack' \in Seq(FrameType) /\ Stacked(stack', e.s, o)
      /\ stack' # <<>> => stack'[1].node = n
      /\ e.calls = <<"TASKDISTRIBUTION">> =>
            Len(stack') = 1 /\ stack' # <<>> /\ stack'[1].fn = "TASKDISTRIBUTION" /\ stack'[1].at = 1
  BY <1>1, StackedBegins
<1>6. Stack'
  <2>1. ASSUME NEW m \in Nodes, stack' # <<>>, stack'[1].node = m
        PROVE  Stacked(stack', sm'[m], round'[m].open)
    <3>1. m = n
      BY <1>5, <2>1
    <3> QED
      BY <1>2, <1>5, <3>1
  <2> QED
    BY <1>5, <2>1 DEF Stack
<1>7. Ending(stack', n, sm'[n]) /\ Handing(stack', n, sm'[n])
  <2>1. Ending(stack', n, sm'[n])
    BY <1>2 DEF Ending, Begins
  <2>2. Handing(stack', n, sm'[n])
    <3>. SUFFICES ASSUME e.s.nodeState = "TASKDISTRIBUTION", e.s.Distribution <= 3
                  PROVE  /\ e.s.due = <<"T_TaskDistribution">>
                         /\ stack' # <<>> /\ stack'[1].node = n
                         /\ Len(stack') = 1 /\ stack'[1].fn = "TASKDISTRIBUTION" /\ stack'[1].at = 1
      BY <1>2 DEF Handing
    <3>1. e.s.due = <<"T_TaskDistribution">> /\ e.calls = <<"TASKDISTRIBUTION">>
      BY DEF Begins
    <3>2. Len(stack') = 1 /\ stack' # <<>> /\ stack'[1].fn = "TASKDISTRIBUTION" /\ stack'[1].at = 1
      BY <1>5, <3>1
    <3> QED
      BY <1>5, <3>1, <3>2
  <2> QED
    BY <2>1, <2>2
<1>8. Waits'
  <2>1. ASSUME NEW m \in Nodes, m # n
        PROVE  Ending(stack', m, sm'[m]) /\ Handing(stack', m, sm'[m])
    BY <1>1, <1>2, <1>5, <2>1, OthersWait
  <2> QED
    BY <1>7, <2>1 DEF Waits
<1> QED
  BY <1>3, <1>4, <1>6, <1>8 DEF Control

\* A callback that leaves the state alone, and no distribution waiting.
LEMMA KeepsBegin ==
    ASSUME NEW s, Typed(s), NEW o, Ready(s, o), ~Untimed(s),
           NEW u, Typed(u), u.nodeState = s.nodeState,
           u.insufficient = s.insufficient, u.DistributionFlag = s.DistributionFlag,
           u.NTasks = s.NTasks,
           u.nodeState = "RESOURCEREQUEST" => u.RecvMsg # "CloudResourceInfo",
           "T_ExpireReception" \in s.armed => "T_ExpireReception" \in u.armed,
           ~(u.nodeState = "TASKDISTRIBUTION" /\ u.Distribution <= 3),
           NEW calls, \/ calls = <<>> \/ calls = <<u.nodeState>>
                      \/ calls = <<"SendAugmentationRequest">>
                      \/ calls = <<u.nodeState, "SendAugmentationRequest">>,
           NEW packets \in Sends
    PROVE  Begins(o, Effect(u, calls, packets))
<1>1. Ready(u, o) /\ ~Untimed(u)
  BY DEF Ready, Untimed
<1> QED
  BY <1>1 DEF Begins, Effect

\* A callback that goes back to INITIAL.
LEMMA InitialBegins ==
    ASSUME NEW o, NEW u, Typed(u), u.nodeState = "INITIAL",
           NEW packets \in Sends
    PROVE  Begins(o, Effect(u, <<"INITIAL">>, packets))
BY DEF Begins, Ready, Untimed, Effect

\* A vehicle between two callbacks.
LEMMA IdleVehicle ==
    ASSUME Control, Idle, NEW n \in Nodes
    PROVE  /\ Typed(sm[n]) /\ Ready(sm[n], round[n].open) /\ ~Untimed(sm[n])
           /\ sm[n].nodeState = "TASKDISTRIBUTION" /\ sm[n].Distribution <= 3 =>
                 sm[n].due = <<"T_TaskDistribution">> /\ sm[n].Distribution < 3
<1>1. stack = <<>> /\ Typed(sm[n]) /\ Ready(sm[n], round[n].open)
  BY DEF Idle, Control, Vehicles
<1>2. Ending(stack, n, sm[n]) /\ Handing(stack, n, sm[n])
  BY DEF Control, Waits
<1>3. sm[n].Distribution \in Nat
  BY <1>1 DEF Typed
<1> QED
  BY <1>1, <1>2, <1>3 DEF Ending, Handing

LEMMA CancelType ==
    ASSUME NEW s, Typed(s), NEW t
    PROVE  /\ Typed(Cancel(s, t)) /\ AllBut(s, Cancel(s, t), {"armed", "due"})
           /\ Cancel(s, t).armed = s.armed \ {t}
           /\ s.due = <<t>> => Cancel(s, t).due = <<>>
<1>1. Without(s.due, t) \in Seq(Timers)
  BY WithoutType DEF Typed
<1>2. ASSUME s.due = <<t>> PROVE Without(s.due, t) = <<>>
  <2>. DEFINE d == s.due
  <2>1. d \in Seq(Timers) /\ DOMAIN d = {1} /\ d[1] = t /\ Len(d) = 1
    BY <1>2 DEF Typed
  <2>. HIDE DEF d
  <2>2. (CHOOSE j \in DOMAIN d : d[j] = t) = 1
    BY <2>1
  <2>3. Without(d, t) = SubSeq(d, 1, 1 - 1) \o SubSeq(d, 1 + 1, Len(d))
    BY <2>1, <2>2 DEF Without
  <2>4. SubSeq(d, 1, 1 - 1) = <<>> /\ SubSeq(d, 1 + 1, Len(d)) = <<>>
    BY <2>1
  <2>5. Without(d, t) = <<>>
    BY <2>3, <2>4
  <2> QED
    BY <2>5 DEF d
<1>3. Typed(Cancel(s, t)) /\ AllBut(s, Cancel(s, t), {"armed", "due"})
  BY <1>1 DEF Typed, MemberNames, AllBut, Cancel
<1> QED
  BY <1>2, <1>3 DEF Cancel, Typed, MemberNames

\* The vehicle whose timer fires.
LEMMA FiresVehicle ==
    ASSUME Control, NEW n \in Nodes, NEW t \in Timers, Fires(n, t)
    PROVE  /\ Idle /\ Typed(sm[n])
           /\ Typed(Fired(n, t)) /\ Ready(Fired(n, t), round[n].open)
           /\ AllBut(sm[n], Fired(n, t), {"armed", "due"})
           /\ t # "T_ExpireReception" => ~Untimed(Fired(n, t))
           /\ Fired(n, t).nodeState = "TASKDISTRIBUTION" /\ Fired(n, t).Distribution <= 3 =>
                 /\ t = "T_TaskDistribution" /\ Fired(n, t).due = <<>>
                 /\ Fired(n, t).Distribution < 3
<1>. DEFINE s == sm[n]
            f == Fired(n, t)
<1>1. Idle
  BY DEF Fires, Settled
<1>2. /\ Typed(s) /\ Ready(s, round[n].open) /\ ~Untimed(s)
      /\ s.nodeState = "TASKDISTRIBUTION" /\ s.Distribution <= 3 =>
            s.due = <<"T_TaskDistribution">> /\ s.Distribution < 3
  BY <1>1, IdleVehicle
<1>3. /\ Typed(f) /\ AllBut(s, f, {"armed", "due"})
      /\ f.armed = s.armed \ {t}
      /\ s.due = <<t>> => f.due = <<>>
  BY <1>2, CancelType DEF Fired
<1>4. ASSUME s.due = <<"T_TaskDistribution">>
      PROVE  t = "T_TaskDistribution"
  <2>1. sm[n].due # <<>> /\ Head(sm[n].due) = "T_TaskDistribution"
    BY <1>4
  <2>2. ~Settled
    BY <2>1 DEF Settled
  <2> QED
    BY <2>1, <2>2 DEF Fires
<1>. HIDE DEF s, f
<1>5. f.nodeState = s.nodeState /\ f.Distribution = s.Distribution
  BY <1>3 DEF AllBut, MemberNames
<1>6. Ready(f, round[n].open)
  BY <1>2, <1>3 DEF Ready, AllBut, MemberNames
<1>7. t # "T_ExpireReception" => ~Untimed(f)
  BY <1>2, <1>3, <1>5 DEF Untimed
<1> QED
  BY <1>1, <1>2, <1>3, <1>4, <1>5, <1>6, <1>7 DEF s, f

LEMMA TimeoutControls ==
    ASSUME Control, NEW n \in Nodes, NEW t \in Timers, NEW e, Timeout(n, t, e),
           Begins(round[n].open, e)
    PROVE  Control'
<1>1. Idle /\ Apply(n, e, net) /\ round' = round
  BY DEF Timeout, Fires, Settled
<1>2. net \in [Everyone -> Sends] /\ Rounds'
  BY <1>1 DEF Control, Network, Rounds
<1> QED
  BY <1>1, <1>2, ApplyControls

LEMMA TimeoutResourceRequestControls ==
    ASSUME Control, NEW n \in Nodes, TimeoutResourceRequest(n)
    PROVE  Control'
<1>. DEFINE t == "T_ResourceRequest"
            f == Fired(n, t)
            u == Schedule([f EXCEPT !.expires = @ + 1], t)
            w == [[CancelTimers(f) EXCEPT !.RecvMsg = "AugmentationRequest"] EXCEPT !.nodeState = "INITIAL"]
            e == IF AsksAgain(f) THEN StateMachine(u, Nothing) ELSE NewRequest(CancelTimers(f))
<1>1. Timeout(n, t, e) /\ Fires(n, t) /\ t \in Timers
  BY DEF TimeoutResourceRequest, Timeout, Timers
<1>2. /\ Typed(f) /\ Ready(f, round[n].open) /\ ~Untimed(f)
      /\ ~(f.nodeState = "TASKDISTRIBUTION" /\ f.Distribution <= 3)
  BY <1>1, FiresVehicle
<1>. HIDE DEF f
<1>3. CASE AsksAgain(f)
  <2>1. e = Effect(u, <<u.nodeState>>, Nothing)
    BY <1>3 DEF StateMachine
  <2>2. Typed(u)
    BY <1>2, <1>3 DEF Typed, MemberNames, Schedule, AsksAgain, Timers
  <2>3. AllBut(f, u, {"expires", "armed", "fatal"}) /\ f.armed \subseteq u.armed
    BY <1>2 DEF Typed, MemberNames, Schedule, AllBut
  <2>. HIDE DEF u
  <2>4. /\ u.nodeState = f.nodeState /\ u.insufficient = f.insufficient
        /\ u.DistributionFlag = f.DistributionFlag /\ u.NTasks = f.NTasks
        /\ u.RecvMsg = f.RecvMsg /\ u.Distribution = f.Distribution
    BY <2>3 DEF AllBut, MemberNames
  <2>5. f.nodeState = "RESOURCEREQUEST" => f.RecvMsg # "CloudResourceInfo"
    BY <1>2 DEF Ready
  <2>6. Begins(round[n].open, Effect(u, <<u.nodeState>>, Nothing))
    BY <1>2, <2>2, <2>3, <2>4, <2>5, SendsType, KeepsBegin
  <2> QED
    BY <1>1, <2>1, <2>6, TimeoutControls
<1>4. CASE ~AsksAgain(f)
  <2>1. e = Effect(w, <<"INITIAL">>, Nothing)
    BY <1>4 DEF NewRequest, SetState
  <2>2. Typed(w) /\ w.nodeState = "INITIAL"
    BY <1>2 DEF Typed, MemberNames, CancelTimers, States, Tested
  <2>. HIDE DEF w
  <2>3. Begins(round[n].open, Effect(w, <<"INITIAL">>, Nothing))
    BY <2>2, SendsType, InitialBegins
  <2> QED
    BY <1>1, <2>1, <2>3, TimeoutControls
<1> QED
  BY <1>3, <1>4

LEMMA TimeoutTaskDistributionControls ==
    ASSUME Control, NEW n \in Nodes, TimeoutTaskDistribution(n)
    PROVE  Control'
<1>. DEFINE t == "T_TaskDistribution"
            f == Fired(n, t)
            u == ScheduleNow([f EXCEPT !.Distribution = @ + 1], t)
            e == IF f.Distribution < 3 THEN StateMachine(u, Nothing) ELSE Stay(f, Nothing)
<1>1. Timeout(n, t, e) /\ Fires(n, t) /\ t \in Timers
  BY DEF TimeoutTaskDistribution, Timeout, Timers
<1>2. /\ Typed(f) /\ Ready(f, round[n].open) /\ ~Untimed(f)
      /\ f.nodeState = "TASKDISTRIBUTION" /\ f.Distribution <= 3 => f.due = <<>> /\ f.Distribution < 3
  BY <1>1, FiresVehicle
<1>. HIDE DEF f
<1>3. f.nodeState = "RESOURCEREQUEST" => f.RecvMsg # "CloudResourceInfo"
  BY <1>2 DEF Ready
<1>4. CASE f.Distribution < 3
  <2>1. e = Effect(u, <<u.nodeState>>, Nothing)
    BY <1>4 DEF StateMachine
  <2>2. Typed(u)
    <3>1. f.Distribution \in Nat /\ f.Distribution + 1 \in Nat /\ f.Distribution + 1 \in Distributions
      BY <1>2, <1>4 DEF Typed, Distributions
    <3> QED
      BY <1>2, <3>1 DEF Typed, MemberNames, ScheduleNow, Timers
  <2>3. AllBut(f, u, {"Distribution", "due", "fatal"}) /\ u.due = Append(f.due, t)
    BY <1>2 DEF Typed, MemberNames, ScheduleNow, AllBut
  <2>. HIDE DEF u
  <2>4. /\ u.nodeState = f.nodeState /\ u.insufficient = f.insufficient
        /\ u.DistributionFlag = f.DistributionFlag /\ u.NTasks = f.NTasks
        /\ u.RecvMsg = f.RecvMsg /\ u.armed = f.armed
    BY <2>3 DEF AllBut, MemberNames
  <2>5. Ready(u, round[n].open) /\ ~Untimed(u)
    BY <1>2, <2>4 DEF Ready, Untimed
  <2>6. u.nodeState = "TASKDISTRIBUTION" => u.due = <<t>>
    <3>1. f.Distribution \in Nat
      BY <1>2 DEF Typed
    <3>2. u.nodeState = "TASKDISTRIBUTION" => f.due = <<>>
      BY <1>2, <1>4, <2>4, <3>1
    <3>3. Append(<<>>, t) = <<t>>
      OBVIOUS
    <3> QED
      BY <2>3, <3>2, <3>3
  <2>7. Begins(round[n].open, Effect(u, <<u.nodeState>>, Nothing))
    BY <2>2, <2>5, <2>6, SendsType DEF Begins, Effect
  <2> QED
    BY <1>1, <2>1, <2>7, TimeoutControls
<1>5. CASE ~(f.Distribution < 3)
  <2>1. e = Effect(f, <<>>, Nothing)
    BY <1>5 DEF Stay
  <2>2. Begins(round[n].open, Effect(f, <<>>, Nothing))
    BY <1>2, <1>3, <1>5, SendsType, KeepsBegin
  <2> QED
    BY <1>1, <2>1, <2>2, TimeoutControls
<1> QED
  BY <1>4, <1>5

LEMMA TimeoutTaskReceptionControls ==
    ASSUME Control, NEW n \in Nodes, TimeoutTaskReception(n)
    PROVE  Control'
<1>. DEFINE t == "T_TaskReception"
            f == Fired(n, t)
            u == ScheduleNow([f EXCEPT !.ExpireReception = @ + 1], t)
            e == IF f.ExpireReception <= 2 THEN StateMachine(u, Nothing) ELSE Stay(f, Nothing)
<1>1. Timeout(n, t, e) /\ Fires(n, t) /\ t \in Timers
  BY DEF TimeoutTaskReception, Timeout, Timers
<1>2. /\ Typed(f) /\ Ready(f, round[n].open) /\ ~Untimed(f)
      /\ ~(f.nodeState = "TASKDISTRIBUTION" /\ f.Distribution <= 3)
  BY <1>1, FiresVehicle
<1>. HIDE DEF f
<1>3. f.nodeState = "RESOURCEREQUEST" => f.RecvMsg # "CloudResourceInfo"
  BY <1>2 DEF Ready
<1>4. CASE f.ExpireReception <= 2
  <2>1. e = Effect(u, <<u.nodeState>>, Nothing)
    BY <1>4 DEF StateMachine
  <2>2. Typed(u)
    BY <1>2 DEF Typed, MemberNames, ScheduleNow, Timers
  <2>3. AllBut(f, u, {"ExpireReception", "due", "fatal"})
    BY <1>2 DEF Typed, MemberNames, ScheduleNow, AllBut
  <2>. HIDE DEF u
  <2>4. /\ u.nodeState = f.nodeState /\ u.insufficient = f.insufficient
        /\ u.DistributionFlag = f.DistributionFlag /\ u.NTasks = f.NTasks
        /\ u.RecvMsg = f.RecvMsg /\ u.Distribution = f.Distribution /\ u.armed = f.armed
    BY <2>3 DEF AllBut, MemberNames
  <2>5. Begins(round[n].open, Effect(u, <<u.nodeState>>, Nothing))
    BY <1>2, <1>3, <2>2, <2>4, SendsType, KeepsBegin
  <2> QED
    BY <1>1, <2>1, <2>5, TimeoutControls
<1>5. CASE ~(f.ExpireReception <= 2)
  <2>1. e = Effect(f, <<>>, Nothing)
    BY <1>5 DEF Stay
  <2>2. Begins(round[n].open, Effect(f, <<>>, Nothing))
    BY <1>2, <1>3, <1>5, SendsType, KeepsBegin
  <2> QED
    BY <1>1, <2>1, <2>2, TimeoutControls
<1> QED
  BY <1>4, <1>5

LEMMA ReportType ==
    ASSUME NEW n \in Nodes
    PROVE  /\ Report(n, "CompleteTask", "ResourceInfoFromCN") \in Sends
           /\ Report(n, "ResourceInfoFromCN", "CompleteTask") \in Sends
BY SendsType DEF Report, MsgTypes, Tested

LEMMA TimeoutCompleteTaskAckControls ==
    ASSUME Control, NEW n \in Nodes, TimeoutCompleteTaskAck(n)
    PROVE  Control'
<1>. DEFINE t == "T_CompleteTaskAck"
            u == [Fired(n, t) EXCEPT !.nodeState = "INITIAL"]
            p == Report(n, "CompleteTask", "ResourceInfoFromCN")
<1>1. Timeout(n, t, Effect(u, <<"INITIAL">>, p)) /\ Fires(n, t) /\ t \in Timers
  BY DEF TimeoutCompleteTaskAck, Timeout, Timers, SetState
<1>2. Typed(Fired(n, t))
  BY <1>1, FiresVehicle
<1>3. Typed(u) /\ u.nodeState = "INITIAL"
  BY <1>2 DEF Typed, MemberNames, States
<1>. HIDE DEF u
<1>4. Begins(round[n].open, Effect(u, <<"INITIAL">>, p))
  BY <1>3, ReportType, InitialBegins
<1> QED
  BY <1>1, <1>4, TimeoutControls

LEMMA TimeoutExpireReceptionControls ==
    ASSUME Control, NEW n \in Nodes, TimeoutExpireReception(n)
    PROVE  Control'
<1>. DEFINE t == "T_ExpireReception"
            u == [[CancelTimers(sm[n]) EXCEPT !.RecvMsg = "AugmentationRequest"]
                  EXCEPT !.nodeState = "INITIAL"]
<1>1. Timeout(n, t, Effect(u, <<"INITIAL">>, Nothing)) /\ Fires(n, t) /\ t \in Timers
  BY DEF TimeoutExpireReception, Timeout, Timers, NewRequest, SetState
<1>2. Typed(sm[n])
  BY <1>1, FiresVehicle
<1>3. Typed(u) /\ u.nodeState = "INITIAL"
  BY <1>2 DEF Typed, MemberNames, States, Tested, CancelTimers
<1>. HIDE DEF u
<1>4. Begins(round[n].open, Effect(u, <<"INITIAL">>, Nothing))
  BY <1>3, SendsType, InitialBegins
<1> QED
  BY <1>1, <1>4, TimeoutControls

LEMMA TimeoutIncompleteTaskAckControls ==
    ASSUME Control, NEW n \in Nodes, TimeoutIncompleteTaskAck(n)
    PROVE  Control'
<1>. DEFINE t == "T_IncompleteTaskAck"
            u == [[CancelTimers(sm[n]) EXCEPT !.RecvMsg = "Nothing"] EXCEPT !.nodeState = "INITIAL"]
<1>1. Timeout(n, t, Effect(u, <<"INITIAL">>, Nothing)) /\ Fires(n, t) /\ t \in Timers
  BY DEF TimeoutIncompleteTaskAck, Timeout, Timers, SetState
<1>2. Typed(sm[n])
  BY <1>1, FiresVehicle
<1>3. Typed(u) /\ u.nodeState = "INITIAL"
  BY <1>2 DEF Typed, MemberNames, States, CancelTimers
<1>. HIDE DEF u
<1>4. Begins(round[n].open, Effect(u, <<"INITIAL">>, Nothing))
  BY <1>3, SendsType, InitialBegins
<1> QED
  BY <1>1, <1>4, TimeoutControls

LEMMA TimeoutDownloadControls ==
    ASSUME Control, NEW n \in Nodes, TimeoutDownload(n)
    PROVE  Control'
<1>. DEFINE t == "T_Download"
            f == Fired(n, t)
            u == [f EXCEPT !.FinishFlag = 1]
            p == Report(n, "ResourceInfoFromCN", "CompleteTask")
<1>1. Timeout(n, t, Effect(u, <<u.nodeState>>, p)) /\ Fires(n, t) /\ t \in Timers
  BY DEF TimeoutDownload, Timeout, Timers, StateMachine
<1>2. /\ Typed(f) /\ Ready(f, round[n].open) /\ ~Untimed(f)
      /\ ~(f.nodeState = "TASKDISTRIBUTION" /\ f.Distribution <= 3)
  BY <1>1, FiresVehicle
<1>. HIDE DEF f
<1>3. f.nodeState = "RESOURCEREQUEST" => f.RecvMsg # "CloudResourceInfo"
  BY <1>2 DEF Ready
<1>4. Typed(u)
  BY <1>2 DEF Typed, MemberNames
<1>5. AllBut(f, u, {"FinishFlag"})
  BY <1>2 DEF Typed, MemberNames, AllBut
<1>. HIDE DEF u
<1>6. /\ u.nodeState = f.nodeState /\ u.insufficient = f.insufficient
      /\ u.DistributionFlag = f.DistributionFlag /\ u.NTasks = f.NTasks
      /\ u.RecvMsg = f.RecvMsg /\ u.Distribution = f.Distribution /\ u.armed = f.armed
  BY <1>5 DEF AllBut, MemberNames
<1>7. Begins(round[n].open, Effect(u, <<u.nodeState>>, p))
  BY <1>2, <1>3, <1>4, <1>6, ReportType, KeepsBegin
<1> QED
  BY <1>1, <1>7, TimeoutControls

-----------------------------------------------------------------------------
(* The packets.                                                            *)

\* A vehicle between two callbacks when no timer is due.
LEMMA SettledVehicle ==
    ASSUME Control, Settled, NEW n \in Nodes
    PROVE  /\ Idle /\ Typed(sm[n]) /\ Ready(sm[n], round[n].open) /\ ~Untimed(sm[n])
           /\ sm[n].due = <<>>
           /\ ~(sm[n].nodeState = "TASKDISTRIBUTION" /\ sm[n].Distribution <= 3)
           /\ sm[n].nodeState = "RESOURCEREQUEST" => sm[n].RecvMsg # "CloudResourceInfo"
<1>1. Idle /\ sm[n].due = <<>>
  BY DEF Settled
<1>2. /\ Typed(sm[n]) /\ Ready(sm[n], round[n].open) /\ ~Untimed(sm[n])
      /\ sm[n].nodeState = "TASKDISTRIBUTION" /\ sm[n].Distribution <= 3 =>
            sm[n].due = <<"T_TaskDistribution">>
  BY <1>1, IdleVehicle
<1>3. <<"T_TaskDistribution">> # <<>>
  OBVIOUS
<1> QED
  BY <1>1, <1>2, <1>3 DEF Ready

LEMMA TakenType ==
    ASSUME Control, NEW src \in Everyone, NEW n \in Everyone, net[src][n] # <<>>
    PROVE  Taken(src, n) \in [Everyone -> Sends] /\ Head(net[src][n]) \in Packets
<1>1. net \in [Everyone -> Sends] /\ net[src] \in Sends
  BY DEF Control, Network
<1>2. net[src][n] \in Seq(Packets)
  BY <1>1 DEF Sends
<1>3. Tail(net[src][n]) \in Seq(Packets) /\ Head(net[src][n]) \in Packets
  BY <1>2
<1>4. [net[src] EXCEPT ![n] = Tail(net[src][n])] \in Sends
  BY <1>1, <1>3 DEF Sends
<1>5. Taken(src, n) = [net EXCEPT ![src] = [net[src] EXCEPT ![n] = Tail(net[src][n])]]
  BY <1>1 DEF Taken, Sends
<1> QED
  BY <1>1, <1>3, <1>4, <1>5

LEMMA RecvControls ==
    ASSUME Control, NEW src \in Everyone, NEW n \in Nodes, NEW type, NEW e, Recv(src, n, type, e),
           Begins(round[n].open, e),
           round' = round \/ round' = [round EXCEPT ![n].reported = @ \cup {src}]
    PROVE  Control'
<1>1. Idle /\ net[src][n] # <<>> /\ Apply(n, e, Taken(src, n)) /\ n \in Everyone
  BY DEF Recv, Arrives, Settled, Everyone
<1>2. Taken(src, n) \in [Everyone -> Sends]
  BY <1>1, TakenType
<1>3. Rounds' /\ \A m \in Nodes : round'[m].open = round[m].open
  <2>1. round \in [Nodes -> [open : BOOLEAN, reported : SUBSET Everyone]]
    BY DEF Control, Rounds
  <2>2. [round[n] EXCEPT !.reported = @ \cup {src}] \in [open : BOOLEAN, reported : SUBSET Everyone]
    BY <2>1
  <2>3. CASE round' = round
    BY <2>1, <2>3 DEF Rounds
  <2>4. CASE round' = [round EXCEPT ![n].reported = @ \cup {src}]
    <3>1. round' = [round EXCEPT ![n] = [round[n] EXCEPT !.reported = @ \cup {src}]]
      BY <2>1, <2>4
    <3>2. Rounds'
      BY <2>1, <2>2, <3>1 DEF Rounds
    <3>3. \A m \in Nodes : round'[m].open = round[m].open
      BY <2>1, <3>1
    <3> QED
      BY <3>2, <3>3
  <2> QED
    BY <2>3, <2>4
<1> QED
  BY <1>1, <1>2, <1>3, ApplyControls

\* A packet that only leaves notes; the state function may be called.
LEMMA NotesBegin ==
    ASSUME Control, Settled, NEW n \in Nodes, NEW u, Typed(u),
           AllBut(sm[n], u, {"RecvMsg", "responseIp", "CompleteTaskCounter"}),
           u.nodeState = "RESOURCEREQUEST" => u.RecvMsg # "CloudResourceInfo",
           NEW calls, calls = <<>> \/ calls = <<u.nodeState>>,
           NEW packets \in Sends
    PROVE  Begins(round[n].open, Effect(u, calls, packets))
<1>. DEFINE s == sm[n]
<1>1. /\ Typed(s) /\ Ready(s, round[n].open) /\ ~Untimed(s)
      /\ ~(s.nodeState = "TASKDISTRIBUTION" /\ s.Distribution <= 3)
  BY SettledVehicle
<1>. HIDE DEF s
<1>2. /\ u.nodeState = s.nodeState /\ u.insufficient = s.insufficient
      /\ u.DistributionFlag = s.DistributionFlag /\ u.NTasks = s.NTasks
      /\ u.Distribution = s.Distribution /\ u.armed = s.armed
  BY DEF AllBut, MemberNames, s
<1> QED
  BY <1>1, <1>2, KeepsBegin

LEMMA RecvCloudResourceInfoControls ==
    ASSUME Control, NEW src \in Everyone, NEW n \in Nodes, RecvCloudResourceInfo(src, n)
    PROVE  Control'
<1>. DEFINE info == Head(net[src][n]).hosts
            note == [sm[n] EXCEPT !.RecvMsg = "CloudResourceInfo"]
            s == [Cancel(note, "T_ResourceRequest") EXCEPT !.hosts = info]
            u == [Distributing(ScheduleNow(s, "T_TaskDistribution")) EXCEPT !.nodeState = "TASKDISTRIBUTION"]
            w == [[s EXCEPT !.insufficient = TRUE, !.RecvMsg = "Nothing"] EXCEPT !.nodeState = "INITIAL"]
            p == Then(All("CloudRelease", n), All("InsufficientResources", n))
            e == IF info # {} THEN Effect(u, <<"TASKDISTRIBUTION">>, Nothing)
                              ELSE Effect(w, <<"INITIAL">>, p)
<1>1. /\ Recv(src, n, "CloudResourceInfo", e) /\ round' = round /\ Settled /\ net[src][n] # <<>>
  <2>1. Noting(n, "CloudResourceInfo") = note
    BY DEF Noting, Noted, Tested
  <2> QED
    BY <2>1 DEF RecvCloudResourceInfo, Arrives, SetState
<1>2. Typed(sm[n]) /\ sm[n].due = <<>>
  BY <1>1, SettledVehicle
<1>3. info \in SUBSET Nodes
  BY <1>1, TakenType DEF Packets, Everyone
<1>4. Typed(note) /\ note.due = <<>>
  BY <1>2 DEF Typed, MemberNames, Tested
<1>. HIDE DEF info, note
<1>5. Typed(s) /\ s.due = <<>>
  <2>1. Typed(Cancel(note, "T_ResourceRequest"))
    BY <1>4, CancelType
  <2>2. Cancel(note, "T_ResourceRequest").due = <<>>
    <3>1. Without(<<>>, "T_ResourceRequest") = <<>>
      BY DEF Without
    <3> QED
      BY <1>4, <3>1 DEF Cancel, Typed, MemberNames
  <2> QED
    BY <1>3, <2>1, <2>2 DEF Typed, MemberNames
<1>. HIDE DEF s
<1>6. CASE info # {}
  <2>1. e = Effect(u, <<"TASKDISTRIBUTION">>, Nothing)
    BY <1>6
  <2>2. Typed(u)
    BY <1>5 DEF Typed, MemberNames, Distributing, ScheduleNow, Timers, States
  <2>3. /\ u.nodeState = "TASKDISTRIBUTION" /\ u.insufficient = FALSE /\ u.DistributionFlag = 0
        /\ u.due = Append(s.due, "T_TaskDistribution")
    BY <1>5 DEF Typed, MemberNames, Distributing, ScheduleNow
  <2>. HIDE DEF u
  <2>4. u.due = <<"T_TaskDistribution">>
    BY <1>5, <2>3
  <2>5. Begins(round[n].open, Effect(u, <<"TASKDISTRIBUTION">>, Nothing))
    BY <2>2, <2>3, <2>4, SendsType DEF Begins, Effect, Ready, Untimed
  <2> QED
    BY <1>1, <2>1, <2>5, RecvControls
<1>7. CASE info = {}
  <2>1. e = Effect(w, <<"INITIAL">>, p)
    BY <1>7
  <2>2. Typed(w) /\ w.nodeState = "INITIAL"
    BY <1>5 DEF Typed, MemberNames, States
  <2>3. p \in Sends
    BY SendsType DEF MsgTypes, Tested
  <2>. HIDE DEF w, p
  <2>4. Begins(round[n].open, Effect(w, <<"INITIAL">>, p))
    BY <2>2, <2>3, InitialBegins
  <2> QED
    BY <1>1, <2>1, <2>4, RecvControls
<1> QED
  BY <1>6, <1>7

LEMMA AcceptTaskControls ==
    ASSUME Control, NEW src \in Everyone, NEW n \in Nodes, AcceptTask(src, n)
    PROVE  Control'
<1>. DEFINE s == [Noting(n, "SendTaskToCN") EXCEPT !.responseIp = src, !.agreed = TRUE]
            u == Rearm(s, "T_Download")
<1>1. /\ Recv(src, n, "SendTaskToCN", Effect(u, <<u.nodeState>>, Nothing)) /\ round' = round
      /\ Settled /\ sm[n].nodeState = "INITIAL"
  BY DEF AcceptTask, Recv, Arrives, StateMachine
<1>2. Typed(sm[n])
  BY <1>1, SettledVehicle
<1>3. Typed(s) /\ s.nodeState = "INITIAL"
  BY <1>1, <1>2 DEF Typed, MemberNames, Noting, Noted, Tested
<1>. HIDE DEF s
<1>4. Typed(u) /\ u.nodeState = "INITIAL"
  BY <1>3, WithoutType DEF Typed, MemberNames, Timers, Rearm, Schedule, Cancel
<1>. HIDE DEF u
<1>5. Begins(round[n].open, Effect(u, <<"INITIAL">>, Nothing))
  BY <1>4, SendsType, InitialBegins
<1> QED
  BY <1>1, <1>4, <1>5, RecvControls

LEMMA RefuseTaskControls ==
    ASSUME Control, NEW src \in Everyone, NEW n \in Nodes, RefuseTask(src, n)
    PROVE  Control'
<1>. DEFINE u == [Noting(n, "SendTaskToCN") EXCEPT !.responseIp = src]
            p == One("NotAcceptedTaskFromCN", src)
<1>1. /\ Recv(src, n, "SendTaskToCN", Effect(u, <<>>, p)) /\ round' = round /\ Settled
  BY DEF RefuseTask, Recv, Arrives, Stay
<1>2. Typed(sm[n])
  BY <1>1, SettledVehicle
<1>3. /\ Typed(u) /\ u.RecvMsg = "SendTaskToCN"
      /\ AllBut(sm[n], u, {"RecvMsg", "responseIp", "CompleteTaskCounter"})
  BY <1>2 DEF Typed, MemberNames, AllBut, Noting, Noted, Tested
<1>4. p \in Sends
  BY SendsType DEF MsgTypes
<1>. HIDE DEF u, p
<1>5. Begins(round[n].open, Effect(u, <<>>, p))
  BY <1>1, <1>3, <1>4, NotesBegin
<1> QED
  BY <1>1, <1>5, RecvControls

LEMMA RecvCompleteTaskAckControls ==
    ASSUME Control, NEW src \in Everyone, NEW n \in Nodes, RecvCompleteTaskAck(src, n)
    PROVE  Control'
<1>. DEFINE s == CancelTimers(sm[n])
            u == [[Cancel(s, "T_Download") EXCEPT !.RecvMsg = "Nothing", !.FinishFlag = 0]
                  EXCEPT !.nodeState = "INITIAL"]
<1>1. /\ Recv(src, n, "CompleteTaskAck", Effect(u, <<"INITIAL">>, Nothing)) /\ round' = round
      /\ Settled
  BY DEF RecvCompleteTaskAck, Recv, Arrives, SetState
<1>2. Typed(sm[n])
  BY <1>1, SettledVehicle
<1>3. Typed(s)
  BY <1>2 DEF Typed, MemberNames, CancelTimers
<1>. HIDE DEF s
<1>4. Typed(u) /\ u.nodeState = "INITIAL"
  BY <1>3, WithoutType DEF Typed, MemberNames, Cancel, States
<1>. HIDE DEF u
<1>5. Begins(round[n].open, Effect(u, <<"INITIAL">>, Nothing))
  BY <1>4, SendsType, InitialBegins
<1> QED
  BY <1>1, <1>5, RecvControls

\* The packets that are noted before the state function is called.
LEMMA CallingPacketsControl ==
    ASSUME Control, NEW src \in Everyone, NEW n \in Nodes,
           \/ RecvCompleteTask(src, n) \/ RecvIncompleteTask(src, n) \/ RecvNotAccepted(src, n)
    PROVE  Control'
<1>. SUFFICES ASSUME NEW type \in {"CompleteTask", "IncompleteTask", "NotAcceptedTaskFromCN"},
                     NEW u, \/ u = Noting(n, type)
                            \/ u = [Noting(n, type) EXCEPT !.responseIp = src],
                     Recv(src, n, type, Effect(u, <<u.nodeState>>, Nothing)),
                     round' = round \/ round' = [round EXCEPT ![n].reported = @ \cup {src}]
              PROVE  Control'
  BY DEF RecvCompleteTask, RecvIncompleteTask, RecvNotAccepted, StateMachine
<1>1. Settled
  BY DEF Recv, Arrives
<1>2. Typed(sm[n])
  BY <1>1, SettledVehicle
<1>3. /\ Typed(u) /\ u.RecvMsg # "CloudResourceInfo"
      /\ AllBut(sm[n], u, {"RecvMsg", "responseIp", "CompleteTaskCounter"})
  <2>1. Noted(type) \in {"CompleteTask", "Nothing"}
    BY DEF Noted, Tested
  <2> QED
    BY <1>2, <2>1 DEF Typed, MemberNames, AllBut, Noting, Tested
<1>4. Begins(round[n].open, Effect(u, <<u.nodeState>>, Nothing))
  BY <1>1, <1>3, SendsType, NotesBegin
<1> QED
  BY <1>4, RecvControls

LEMMA RecvResourceInfoFromCNControls ==
    ASSUME Control, NEW src \in Everyone, NEW n \in Nodes, RecvResourceInfoFromCN(src, n)
    PROVE  Control'
<1>. DEFINE note == Noting(n, "ResourceInfoFromCN")
            s == [note EXCEPT !.CompleteTaskCounter = Bump(@)]
            u == [s EXCEPT !.responseIp = src]
            p == One("CompleteTaskAck", src)
            e == IF s.nodeState = "TASKRECEPTION" THEN Effect(u, <<u.nodeState>>, p)
                                                  ELSE Effect(s, <<>>, Nothing)
<1>1. /\ Recv(src, n, "ResourceInfoFromCN", e) /\ Settled
      /\ round' = [round EXCEPT ![n].reported = @ \cup {src}]
  BY DEF RecvResourceInfoFromCN, Recv, Arrives, StateMachine, Stay
<1>2. Typed(sm[n])
  BY <1>1, SettledVehicle
<1>3. /\ Typed(s) /\ s.RecvMsg = "Nothing"
      /\ AllBut(sm[n], s, {"RecvMsg", "responseIp", "CompleteTaskCounter"})
  <2>1. /\ Typed(note) /\ note.RecvMsg = "Nothing"
        /\ AllBut(sm[n], note, {"RecvMsg"})
    BY <1>2 DEF Typed, MemberNames, AllBut, Noting, Noted, Tested
  <2>. HIDE DEF note
  <2> QED
    BY <2>1 DEF Typed, MemberNames, AllBut, Bump
<1>. HIDE DEF s
<1>4. /\ Typed(u) /\ u.RecvMsg = "Nothing"
      /\ AllBut(sm[n], u, {"RecvMsg", "responseIp", "CompleteTaskCounter"})
  BY <1>3 DEF Typed, MemberNames, AllBut
<1>5. p \in Sends
  BY SendsType DEF MsgTypes
<1>. HIDE DEF u, p
<1>6. /\ Begins(round[n].open, Effect(u, <<u.nodeState>>, p))
      /\ Begins(round[n].open, Effect(s, <<>>, Nothing))
  BY <1>1, <1>3, <1>4, <1>5, SendsType, NotesBegin
<1> QED
  BY <1>1, <1>6, RecvControls

LEMMA RecvNotedControls ==
    ASSUME Control, NEW src \in Everyone, NEW n \in Nodes, RecvNoted(src, n)
    PROVE  Control'
<1>1. PICK type \in {"ResourceRequest", "CloudRelease", "InsufficientResources", "CloudResourceInfo"} :
          /\ type = "CloudResourceInfo" => sm[n].nodeState # "RESOURCEREQUEST"
          /\ Recv(src, n, type, Effect(Noting(n, type), <<>>, Nothing))
  BY DEF RecvNoted, Stay
<1>2. round' = round /\ Settled
  BY <1>1 DEF RecvNoted, Recv, Arrives
<1>. DEFINE u == Noting(n, type)
<1>3. Typed(sm[n])
  BY <1>2, SettledVehicle
<1>4. /\ Typed(u) /\ u.nodeState = sm[n].nodeState
      /\ u.RecvMsg = "CloudResourceInfo" => type = "CloudResourceInfo"
      /\ AllBut(sm[n], u, {"RecvMsg", "responseIp", "CompleteTaskCounter"})
  BY <1>3 DEF Typed, MemberNames, AllBut, Noting, Noted, Tested
<1>. HIDE DEF u
<1>5. Begins(round[n].open, Effect(u, <<>>, Nothing))
  BY <1>1, <1>2, <1>4, SendsType, NotesBegin
<1> QED
  BY <1>1, <1>2, <1>5, RecvControls DEF u

-----------------------------------------------------------------------------
(* The moves, the leaders and the radio.                                   *)

LEMMA MoveControls ==
    ASSUME Control, NEW n \in Nodes, NEW flag \in {0, 1}, NEW calls, Move(n, flag, calls),
           \/ calls = <<sm[n].nodeState>> \/ calls = <<"SendAugmentationRequest">>
           \/ calls = <<sm[n].nodeState, "SendAugmentationRequest">>
    PROVE  Control'
<1>. DEFINE s == sm[n]
            u == [s EXCEPT !.IntersectionFlag = flag]
<1>1. Settled /\ Idle /\ Apply(n, Effect(u, calls, Nothing), net) /\ round' = round
  BY DEF Move, Settled
<1>2. /\ Typed(s) /\ Ready(s, round[n].open) /\ ~Untimed(s)
      /\ ~(s.nodeState = "TASKDISTRIBUTION" /\ s.Distribution <= 3)
      /\ s.nodeState = "RESOURCEREQUEST" => s.RecvMsg # "CloudResourceInfo"
  BY <1>1, SettledVehicle
<1>3. Typed(u) /\ AllBut(s, u, {"IntersectionFlag"})
  BY <1>2 DEF Typed, MemberNames, AllBut
<1>4. calls = <<s.nodeState>> \/ calls = <<"SendAugmentationRequest">>
         \/ calls = <<s.nodeState, "SendAugmentationRequest">>
  OBVIOUS
<1>. HIDE DEF s, u
<1>5. /\ u.nodeState = s.nodeState /\ u.insufficient = s.insufficient
      /\ u.DistributionFlag = s.DistributionFlag /\ u.NTasks = s.NTasks
      /\ u.RecvMsg = s.RecvMsg /\ u.Distribution = s.Distribution /\ u.armed = s.armed
  BY <1>3 DEF AllBut, MemberNames
<1>6. Begins(round[n].open, Effect(u, calls, Nothing))
  BY <1>2, <1>3, <1>4, <1>5, SendsType, KeepsBegin
<1>7. net \in [Everyone -> Sends] /\ Rounds'
  BY <1>1 DEF Control, Network, Rounds
<1> QED
  BY <1>1, <1>6, <1>7, ApplyControls

LEMMA MovesControl ==
    ASSUME Control, NEW n \in Nodes,
           EnterIntersection(n) \/ LeaveIntersection(n) \/ EnterDebugRegion(n)
    PROVE  Control'
BY MoveControls DEF EnterIntersection, LeaveIntersection, EnterDebugRegion

\* A step of the network alone.
LEMMA NetControls ==
    ASSUME Control, net' \in [Everyone -> Sends], UNCHANGED <<sm, stack, round>>
    PROVE  Control'
<1>1. Network' /\ Vehicles' /\ Rounds' /\ Stack'
  BY DEF Control, Network, Vehicles, Rounds, Stack
<1>2. Waits'
  BY DEF Control, Waits
<1> QED
  BY <1>1, <1>2 DEF Control

LEMMA RecvResourceRequestControls ==
    ASSUME Control, NEW src \in Nodes, NEW l \in Leaders, RecvResourceRequest(src, l)
    PROVE  Control'
<1>1. PICK hosts \in HostTables :
          net' = [Taken(src, l) EXCEPT ![l] = Then(@, Send("CloudResourceInfo", hosts, Nodes))]
  BY DEF RecvResourceRequest
<1>2. /\ src \in Everyone /\ l \in Everyone /\ hosts \in SUBSET Nodes /\ net[src][l] # <<>>
      /\ UNCHANGED <<sm, stack, round>>
  BY ScmaConstants DEF Everyone, RecvResourceRequest, Arrives
<1>3. Taken(src, l) \in [Everyone -> Sends]
  BY <1>2, TakenType
<1>4. Then(Taken(src, l)[l], Send("CloudResourceInfo", hosts, Nodes)) \in Sends
  BY <1>2, <1>3, SendType, SendsType DEF MsgTypes, Tested
<1>5. net' \in [Everyone -> Sends]
  BY <1>1, <1>2, <1>3, <1>4
<1> QED
  BY <1>2, <1>5, NetControls

LEMMA LoseControls ==
    ASSUME Control, NEW src \in Everyone, NEW n \in Everyone, Lose(src, n)
    PROVE  Control'
<1>1. net[src][n] # <<>> /\ net' = Taken(src, n) /\ UNCHANGED <<sm, stack, round>>
  BY DEF Lose
<1>2. net' \in [Everyone -> Sends]
  BY <1>1, TakenType
<1> QED
  BY <1>1, <1>2, NetControls

LEMMA InitControl == Init => Control
<1>. SUFFICES ASSUME Init PROVE Control
  OBVIOUS
<1>. DEFINE N == {"Distribution", "ExpireReception", "CompleteTaskCounter"}
<1>1. PICK g \in [Requesters -> [N -> Garbage]] :
          sm = [n \in Nodes |->
                  LET Uninit(x) == IF n \in Requesters THEN g[n][x] ELSE 0
                  IN  [nodeState |-> "INITIAL", RecvMsg |-> "Nothing",
                       expires |-> 0, IntersectionFlag |-> 0, FinishFlag |-> 0,
                       Distribution |-> Uninit("Distribution"), DistributionFlag |-> 0,
                       ExpireReception |-> Uninit("ExpireReception"),
                       CompleteTaskCounter |-> Uninit("CompleteTaskCounter"),
                       NTasks |-> 10, agreed |-> FALSE, insufficient |-> FALSE,
                       responseIp |-> n, hosts |-> {},
                       armed |-> {}, due |-> <<>>, fatal |-> FALSE]]
  BY DEF Init
<1>2. \A n \in Nodes : \A x \in N : /\ (IF n \in Requesters THEN g[n][x] ELSE 0) \in Nat
                                     /\ (IF n \in Requesters THEN g[n][x] ELSE 0) \in Distributions
  <2>1. Garbage \subseteq Nat
    BY ScmaConstants
  <2>2. Garbage \subseteq Distributions /\ 0 \in Distributions
    BY <2>1 DEF Distributions
  <2>. HIDE DEF N
  <2>3. \A n \in Requesters : \A x \in N : g[n][x] \in Garbage
    OBVIOUS
  <2> QED
    BY <2>1, <2>2, <2>3
<1>3. DOMAIN sm = Nodes
  BY <1>1
<1>4. ASSUME NEW n \in Nodes PROVE Typed(sm[n]) /\ sm[n].nodeState = "INITIAL"
  <2>1. PICK a \in Nat \cap Distributions, b \in Nat, c \in Nat :
          sm[n] = [nodeState |-> "INITIAL", RecvMsg |-> "Nothing",
                   expires |-> 0, IntersectionFlag |-> 0, FinishFlag |-> 0,
                   Distribution |-> a, DistributionFlag |-> 0,
                   ExpireReception |-> b, CompleteTaskCounter |-> c,
                   NTasks |-> 10, agreed |-> FALSE, insufficient |-> FALSE,
                   responseIp |-> n, hosts |-> {},
                   armed |-> {}, due |-> <<>>, fatal |-> FALSE]
    BY <1>1, <1>2, <1>4
  <2> QED
    BY <2>1 DEF Typed, MemberNames, States, Timers
<1>5. Vehicles
  BY <1>3, <1>4 DEF Vehicles, Ready
<1>6. stack = <<>>
  BY DEF Init
<1>7. Stack
  BY <1>6 DEF Stack
<1>8. Waits
  BY <1>4 DEF Waits, Ending, Untimed, Handing
<1>9. Network
  BY SendsType DEF Init, Network
<1>10. Rounds
  BY DEF Init, Rounds
<1> QED
  BY <1>5, <1>7, <1>8, <1>9, <1>10 DEF Control

LEMMA NextControl == Control /\ [Next]_vars => Control'
<1>. SUFFICES ASSUME Control, [Next]_vars PROVE Control'
  OBVIOUS
<1>1. ASSUME NEW n \in Nodes, NEW fn \in Functions, NEW i \in 1 .. 5, Execute(n, fn, i)
      PROVE  Control'
  BY <1>1, ExecuteControls
<1>2. CASE Return
  BY <1>2, ReturnControls
<1>3. ASSUME NEW n \in Nodes, TimerStep(n) PROVE Control'
  BY <1>3, TimeoutResourceRequestControls, TimeoutTaskDistributionControls,
     TimeoutTaskReceptionControls, TimeoutCompleteTaskAckControls,
     TimeoutExpireReceptionControls, TimeoutIncompleteTaskAckControls,
     TimeoutDownloadControls DEF TimerStep
<1>4. ASSUME NEW n \in Nodes, EnterIntersection(n) \/ LeaveIntersection(n) \/ EnterDebugRegion(n)
      PROVE  Control'
  BY <1>4, MovesControl
<1>5. ASSUME NEW src \in Everyone, NEW n \in Nodes, RecvPkt(src, n) PROVE Control'
  BY <1>5, RecvCloudResourceInfoControls, AcceptTaskControls, RefuseTaskControls,
     RecvCompleteTaskAckControls, CallingPacketsControl, RecvResourceInfoFromCNControls,
     RecvNotedControls DEF RecvPkt
<1>6. ASSUME NEW src \in Nodes, NEW l \in Leaders, RecvResourceRequest(src, l) PROVE Control'
  BY <1>6, RecvResourceRequestControls
<1>7. ASSUME NEW src \in Everyone, NEW n \in Everyone, Lose(src, n) PROVE Control'
  BY <1>7, LoseControls
<1>8. CASE UNCHANGED vars
  <2>1. net' \in [Everyone -> Sends] /\ UNCHANGED <<sm, stack, round>>
    BY <1>8 DEF vars, Control, Network
  <2> QED
    BY <2>1, NetControls
<1> QED
  BY <1>1, <1>2, <1>3, <1>4, <1>5, <1>6, <1>7, <1>8 DEF Next

\* The inductive invariant, for every value of the constants.
THEOREM ControlHolds == Spec => []Control
<1>1. Init => Control
  BY InitControl
<1>2. Control /\ [Next]_vars => Control'
  BY NextControl
<1> QED
  BY <1>1, <1>2, PTL DEF Spec

-----------------------------------------------------------------------------
(* What the invariant says of the program.                                 *)

\* The members of every vehicle keep to their ranges, and the state functions, which
\* call each other through SetState, are never more than five deep.
THEOREM TypesAndDepth == Spec => []TypeOK
<1>1. Control => TypeOK
  <2>. SUFFICES ASSUME Control PROVE TypeOK
    OBVIOUS
  <2>1. ASSUME NEW n \in Nodes
        PROVE  /\ sm[n].nodeState \in States /\ sm[n].RecvMsg \in Tested \cup {"Nothing"}
               /\ sm[n].expires \in 0 .. 2 /\ sm[n].armed \subseteq Timers
               /\ \A i \in DOMAIN sm[n].due : sm[n].due[i] \in Timers
    <3>1. Typed(sm[n])
      BY DEF Control, Vehicles
    <3> QED
      BY <3>1 DEF Typed
  <2>2. Len(stack) <= StackDepth
    <3>1. CASE stack = <<>>
      BY <3>1 DEF StackDepth
    <3>2. CASE stack # <<>>
      <4>. DEFINE n == stack[1].node
      <4>1. n \in Nodes /\ stack[1].fn \in Functions /\ Len(stack) \in Nat /\ 1 \in DOMAIN stack
        BY <3>2, HeadTyped DEF Control
      <4>2. Typed(sm[n]) /\ Shallow(stack, sm[n])
        BY <3>2, <4>1 DEF Control, Vehicles, Stack, Stacked
      <4>3. Len(stack) - 1 + Height(stack[1].fn, sm[n]) <= StackDepth
        BY <4>1, <4>2 DEF Shallow
      <4>4. Height(stack[1].fn, sm[n]) \in 1 .. 4
        BY <4>1, <4>2, HeightFalls DEF Typed
      <4> QED
        BY <4>1, <4>3, <4>4 DEF StackDepth
    <3> QED
      BY <3>1, <3>2
  <2> QED
    BY <2>1, <2>2 DEF TypeOK
<1> QED
  BY <1>1, ControlHolds, PTL

\* The `if's of StateResourceRequest and StateTaskDistribution that leave the state on
\* data RecvPkt has already dealt with are never entered.
THEOREM DeadBranchesHold == Spec => []DeadBranches
<1>1. Control => DeadBranches
  <2>. SUFFICES ASSUME Control, NEW n \in Nodes,
                       NEW fn \in {"RESOURCEREQUEST", "TASKDISTRIBUTION"}, Executing(n, fn, 1)
                PROVE  FALSE
    BY DEF DeadBranches
  <2>1. Starts(sm[n], round[n].open, fn, stack[1].at, 1) /\ Blocks(n, fn)[1].on
    BY ExecutingStarts
  <2>2. sm[n].nodeState = fn /\ Ready(sm[n], round[n].open)
    BY <2>1 DEF Starts
  <2>3. CASE fn = "RESOURCEREQUEST"
    <3>1. StateResourceRequest(n, sm[n])[1].on
      BY <2>1, <2>3 DEF Blocks
    <3>2. sm[n].RecvMsg = "CloudResourceInfo"
      BY <3>1 DEF StateResourceRequest, Block
    <3> QED
      BY <2>2, <2>3, <3>2 DEF Ready
  <2>4. CASE fn = "TASKDISTRIBUTION"
    <3>1. StateTaskDistribution(n, sm[n])[1].on
      BY <2>1, <2>4 DEF Blocks
    <3>2. sm[n].insufficient
      BY <3>1 DEF StateTaskDistribution, Block
    <3> QED
      BY <2>2, <2>4, <3>2 DEF Ready
  <2> QED
    BY <2>3, <2>4
<1> QED
  BY <1>1, ControlHolds, PTL

\* Whenever the simulator waits, a vehicle in TASKRECEPTION has T_ExpireReception
\* running: the blocks that stop it leave TASKRECEPTION before they return.
THEOREM ReceptionsAreTimed == Spec => []ReceptionIsTimed
<1>1. Control => ReceptionIsTimed
  BY SettledVehicle DEF ReceptionIsTimed, Untimed
<1> QED
  BY <1>1, ControlHolds, PTL

\* No vehicle is left in TASKDISTRIBUTION when the simulator waits: T_TaskDistribution
\* runs StateTaskDistribution until it hands out the tasks or gives up the round.
\* Distribution has no initial value, and above 3 the timer would stop.
THEOREM DistributionsEnd ==
    ASSUME \A g \in Garbage : g <= 3
    PROVE  Spec => []NoDistributionWaits
<1>1. Control => NoDistributionWaits
  <2>. SUFFICES ASSUME Control, Settled, NEW n \in Nodes, sm[n].nodeState = "TASKDISTRIBUTION"
                PROVE  FALSE
    BY DEF NoDistributionWaits
  <2>1. sm[n].Distribution <= 3
    <3>1. sm[n].Distribution \in Distributions
      BY SettledVehicle DEF Typed
    <3> QED
      BY <3>1 DEF Distributions
  <2> QED
    BY <2>1, SettledVehicle
<1> QED
  BY <1>1, ControlHolds, PTL

\* Every TaskFinished that StateTaskReception logs ends the distribution that the
\* vehicle logged last, however the state functions return into each other.
THEOREM FinishesFollow == Spec => FinishFollowsDistribution
<1>1. ASSUME Control, NEW n \in Nodes, Executing(n, "TASKRECEPTION", 3)
      PROVE  round[n].open
  <2>1. Starts(sm[n], round[n].open, "TASKRECEPTION", stack[1].at, 3)
    BY <1>1, ExecutingStarts
  <2> QED
    BY <2>1 DEF Starts, Ready
<1>2. Control => [\A n \in Nodes : Executing(n, "TASKRECEPTION", 3) /\ sm' # sm
                                       => round[n].open]_vars
  BY <1>1
<1> QED
  BY <1>2, ControlHolds, PTL DEF FinishFollowsDistribution

-----------------------------------------------------------------------------
(* No timer runs twice.  With host tables that are not empty and name no   *)
(* other requester, a vehicle keeps to one of two roles: those that ask    *)
(* get no task, and those that get tasks hear nobody's CloudRelease.       *)
(* Active, Asking and Helping say which timers may run in each role, the   *)
(* frames what is left to run, and Lone that all vehicles are in theirs.   *)

\* The timers of s that run.
Active(s) == s.armed \cup {s.due[i] : i \in DOMAIN s.due}

\* No timer runs twice.
Distinct(s) ==
    /\ ~s.fatal
    /\ \A i, j \in DOMAIN s.due : s.due[i] = s.due[j] => i = j
    /\ \A i \in DOMAIN s.due : s.due[i] \notin s.armed

\* A vehicle that asks for hosts and gets no task.  Nothing it is about to start runs when
\* StateTaskDistribution begins.
Asking(s) ==
    /\ ~s.agreed /\ s.nodeState # "COLLABORATION"
    /\ s.hosts \in HostTables \cup {{}}
    /\ s.armed \subseteq {"T_ResourceRequest", "T_ExpireReception"}
    /\ Active(s) \cap {"T_CompleteTaskAck", "T_Download", "T_IncompleteTaskAck"} = {}
    /\ s.nodeState = "TASKDISTRIBUTION" =>
          Active(s) \cap {"T_ResourceRequest", "T_TaskReception"} = {}

\* What is left of fn, from block `at' on, starts none of its timers twice: a distribution
\* resumed before a block that starts one either does not run it yet, or was interrupted.
AskingFrame(fn, at, s) ==
    /\ fn # "COLLABORATION"
    /\ fn = "TASKDISTRIBUTION" =>
          /\ at <= 3 => "T_ResourceRequest" \notin Active(s)
          /\ at \in {2, 3} => s.IntersectionFlag = 1
          /\ at <= 4 => "T_TaskReception" \notin Active(s)

\* A vehicle that gets tasks and asks for none.  It takes a task in INITIAL only, and does
\* not return there while T_CompleteTaskAck runs; it is interrupted by intersections only.
Helping(s) ==
    /\ s.nodeState \in {"INITIAL", "COLLABORATION"}
    /\ s.RecvMsg \notin {"CloudRelease", "AugmentationRequest"}
    /\ s.armed \subseteq {"T_Download", "T_CompleteTaskAck"}
    /\ s.due \in {<<>>, <<"T_IncompleteTaskAck">>}
    /\ s.due # <<>> => s.nodeState = "COLLABORATION" /\ s.IntersectionFlag = 1
    /\ "T_CompleteTaskAck" \in s.armed => s.nodeState = "COLLABORATION" /\ "T_Download" \notin s.armed
    /\ s.nodeState = "COLLABORATION" => s.agreed
    /\ s.nodeState = "COLLABORATION" /\ s.FinishFlag = 1 => s.IntersectionFlag = 0 /\ s.armed = {}

\* In an intersection, the innermost collaboration is the first to notice.
HelpingFrame(fn, at, s) ==
    /\ fn \in {"INITIAL", "COLLABORATION"}
    /\ fn = "COLLABORATION" =>
          /\ s.agreed
          /\ s.IntersectionFlag = 1 /\ at <= 2 => at = 1 /\ s.due = <<>>

\* A collaboration is finished or interrupted and has not started the timer that ends it:
\* then its state function is about to run from its first block.
Unnoticed(s) ==
    /\ s.nodeState = "COLLABORATION"
    /\ s.FinishFlag = 1 \/ (s.IntersectionFlag = 1 /\ s.due = <<>>)
Noticing(st, n, s) == Unnoticed(s) =>
    st # <<>> /\ st[1].node = n /\ st[1].fn = "COLLABORATION" /\ st[1].at = 1

\* What y may get: no host releases the cloud, since no round lacks hosts.
Expected(p, y) ==
    /\ p.type # "CloudRelease"
    /\ p.type = "SendTaskToCN" => y \notin Requesters
    /\ p.type = "CloudResourceInfo" => p.hosts \in HostTables

\* Each vehicle, frame and packet plays its part.
InRole(n, s) == Distinct(s) /\ (IF n \in Requesters THEN Asking(s) ELSE Helping(s))
Suits(n, f, s) ==
    IF n \in Requesters THEN AskingFrame(f.fn, f.at, s) ELSE HelpingFrame(f.fn, f.at, s)
Fine(f) == \A y \in Everyone : \A i \in DOMAIN f[y] : Expected(f[y][i], y)

\* The invariant, inductive together with Control.
Lone ==
    /\ \A n \in Nodes : InRole(n, sm[n])
    /\ \A n \in Nodes \ Requesters : Noticing(stack, n, sm[n])
    /\ \A n \in Nodes : \A k \in DOMAIN stack : stack[1].node = n => Suits(n, stack[k], sm[n])
    /\ \A x \in Everyone : Fine(net[x])

-----------------------------------------------------------------------------
(* No timer runs twice: the operators on timers.                           *)

LEMMA RunningIsActive ==
    ASSUME NEW s, NEW t
    PROVE  Running(s, t) <=> t \in Active(s)
BY DEF Running, Active

\* A queue without its place k.
LEMMA RemoveAt ==
    ASSUME NEW q \in Seq(Timers), NEW k \in 1 .. Len(q)
    PROVE  LET r == SubSeq(q, 1, k - 1) \o SubSeq(q, k + 1, Len(q))
           IN  /\ Len(r) = Len(q) - 1 /\ DOMAIN r = 1 .. Len(r)
               /\ \A i \in 1 .. Len(r) : r[i] = IF i < k THEN q[i] ELSE q[i + 1]
<1>. DEFINE a == SubSeq(q, 1, k - 1)
            b == SubSeq(q, k + 1, Len(q))
            r == a \o b
<1>1. a \in Seq(Timers) /\ Len(a) = k - 1 /\ \A i \in 1 .. k - 1 : a[i] = q[i]
  OBVIOUS
<1>2. b \in Seq(Timers) /\ Len(b) = Len(q) - k /\ \A i \in 1 .. Len(q) - k : b[i] = q[k + i]
  OBVIOUS
<1>. HIDE DEF a, b
<1>3. /\ r \in Seq(Timers) /\ Len(r) = Len(a) + Len(b)
      /\ \A i \in 1 .. Len(r) : r[i] = IF i <= Len(a) THEN a[i] ELSE b[i - Len(a)]
  <2>1. \A x, y \in Seq(Timers) :
           /\ x \o y \in Seq(Timers) /\ Len(x \o y) = Len(x) + Len(y)
           /\ \A i \in 1 .. Len(x) + Len(y) :
                 (x \o y)[i] = IF i <= Len(x) THEN x[i] ELSE y[i - Len(x)]
    OBVIOUS
  <2>2. a \in Seq(Timers) /\ b \in Seq(Timers)
    BY <1>1, <1>2
  <2>3. /\ r \in Seq(Timers) /\ Len(r) = Len(a) + Len(b)
        /\ \A i \in 1 .. Len(a) + Len(b) : r[i] = IF i <= Len(a) THEN a[i] ELSE b[i - Len(a)]
    BY <2>1, <2>2, Zenon
  <2> QED
    BY <2>3, Zenon
<1>. HIDE DEF r
<1>4. ASSUME NEW i \in 1 .. Len(r) PROVE r[i] = IF i < k THEN q[i] ELSE q[i + 1]
  <2>1. CASE i < k
    BY <1>1, <1>2, <1>3, <2>1
  <2>2. CASE ~(i < k)
    <3>1. r[i] = b[i - (k - 1)] /\ i - (k - 1) \in 1 .. Len(q) - k
      BY <1>1, <1>2, <1>3, <2>2
    <3>2. k + (i - (k - 1)) = i + 1
      BY <1>1, <1>2, <1>3
    <3> QED
      BY <1>2, <2>2, <3>1, <3>2
  <2> QED
    BY <2>1, <2>2
<1>5. Len(r) = Len(q) - 1 /\ DOMAIN r = 1 .. Len(r)
  BY <1>1, <1>2, <1>3
<1> QED
  BY <1>4, <1>5 DEF r, a, b

\* A queue without t holds each of the others once.
LEMMA WithoutIsOnce ==
    ASSUME NEW q \in Seq(Timers), NEW t, \A i, j \in DOMAIN q : q[i] = q[j] => i = j
    PROVE  LET r == Without(q, t)
           IN  /\ \A i, j \in DOMAIN r : r[i] = r[j] => i = j
               /\ \A i \in DOMAIN r : r[i] # t /\ \E j \in DOMAIN q : q[j] = r[i]
<1>1. CASE ~\E i \in DOMAIN q : q[i] = t
  BY <1>1 DEF Without
<1>2. CASE \E i \in DOMAIN q : q[i] = t
  <2>. DEFINE k == CHOOSE j \in DOMAIN q : q[j] = t
              a == SubSeq(q, 1, k - 1)
              b == SubSeq(q, k + 1, Len(q))
              r == a \o b
  <2>1. k \in 1 .. Len(q) /\ q[k] = t /\ DOMAIN q = 1 .. Len(q) /\ Len(q) \in Nat
    BY <1>2
  <2>2. Without(q, t) = r
    BY <1>2 DEF Without
  <2>. HIDE DEF k
  <2>3. /\ Len(r) = Len(q) - 1 /\ DOMAIN r = 1 .. Len(r)
        /\ \A i \in 1 .. Len(r) : r[i] = IF i < k THEN q[i] ELSE q[i + 1]
    BY <2>1, RemoveAt
  <2>. HIDE DEF r
  <2>. DEFINE at(i) == IF i < k THEN i ELSE i + 1
  <2>4. \A i \in DOMAIN r : at(i) \in DOMAIN q /\ at(i) # k /\ r[i] = q[at(i)]
    BY <2>1, <2>3
  <2>5. \A i, j \in DOMAIN r : at(i) = at(j) => i = j
    BY <2>1, <2>3
  <2>. HIDE DEF at
  <2>6. /\ \A i, j \in DOMAIN r : r[i] = r[j] => i = j
        /\ \A i \in DOMAIN r : r[i] # t /\ \E j \in DOMAIN q : q[j] = r[i]
    BY <2>1, <2>4, <2>5
  <2> QED
    BY <2>2, <2>6
<1> QED
  BY <1>1, <1>2

LEMMA CancelTimes ==
    ASSUME NEW s, Typed(s), Distinct(s), NEW t
    PROVE  /\ Typed(Cancel(s, t)) /\ Distinct(Cancel(s, t))
           /\ AllBut(s, Cancel(s, t), {"armed", "due"})
           /\ Cancel(s, t).armed = s.armed \ {t}
           /\ Active(Cancel(s, t)) = Active(s) \ {t}
<1>. DEFINE u == Cancel(s, t)
<1>1. /\ DOMAIN u = MemberNames /\ AllBut(s, u, {"armed", "due"})
      /\ u.armed = s.armed \ {t} /\ u.due = Without(s.due, t)
  BY DEF Typed, MemberNames, AllBut, Cancel
<1>2. s.due \in Seq(Timers) /\ \A i, j \in DOMAIN s.due : s.due[i] = s.due[j] => i = j
  BY DEF Typed, Distinct
<1>3. /\ u.due \in Seq(Timers)
      /\ \A i \in DOMAIN s.due : s.due[i] # t => \E j \in DOMAIN u.due : u.due[j] = s.due[i]
  BY <1>1, <1>2, WithoutKeeps
<1>4. /\ \A i, j \in DOMAIN u.due : u.due[i] = u.due[j] => i = j
      /\ \A i \in DOMAIN u.due : u.due[i] # t /\ \E j \in DOMAIN s.due : s.due[j] = u.due[i]
  BY <1>1, <1>2, WithoutIsOnce
<1>. HIDE DEF u
<1>5. Typed(u)
  BY <1>1, <1>3 DEF Typed, AllBut, MemberNames
<1>6. Distinct(u)
  BY <1>1, <1>4 DEF Distinct, AllBut, MemberNames
<1>7. Active(u) = Active(s) \ {t}
  BY <1>1, <1>3, <1>4 DEF Active
<1> QED
  BY <1>1, <1>5, <1>6, <1>7 DEF u

LEMMA ScheduleTimes ==
    ASSUME NEW s, Typed(s), Distinct(s), NEW t \in Timers, t \notin Active(s)
    PROVE  /\ Typed(Schedule(s, t)) /\ Distinct(Schedule(s, t))
           /\ AllBut(s, Schedule(s, t), {"armed", "fatal"})
           /\ Schedule(s, t).armed = s.armed \cup {t}
           /\ Active(Schedule(s, t)) = Active(s) \cup {t}
<1>. DEFINE u == Schedule(s, t)
<1>1. ~Running(s, t) /\ ~s.fatal
  BY RunningIsActive DEF Distinct
<1>2. /\ DOMAIN u = MemberNames /\ AllBut(s, u, {"armed", "fatal"})
      /\ u.armed = s.armed \cup {t} /\ u.due = s.due /\ u.fatal = FALSE
  BY <1>1 DEF Typed, MemberNames, AllBut, Schedule
<1>. HIDE DEF u
<1>3. Typed(u)
  BY <1>2 DEF Typed, AllBut, MemberNames
<1>4. Distinct(u)
  BY <1>2 DEF Distinct, Active
<1>5. Active(u) = Active(s) \cup {t}
  BY <1>2 DEF Active
<1> QED
  BY <1>2, <1>3, <1>4, <1>5 DEF u

LEMMA ScheduleNowTimes ==
    ASSUME NEW s, Typed(s), Distinct(s), NEW t \in Timers, t \notin Active(s)
    PROVE  /\ Typed(ScheduleNow(s, t)) /\ Distinct(ScheduleNow(s, t))
           /\ AllBut(s, ScheduleNow(s, t), {"due", "fatal"})
           /\ ScheduleNow(s, t).due = Append(s.due, t)
           /\ Active(ScheduleNow(s, t)) = Active(s) \cup {t}
<1>. DEFINE u == ScheduleNow(s, t)
<1>1. ~Running(s, t) /\ ~s.fatal
  BY RunningIsActive DEF Distinct
<1>2. /\ DOMAIN u = MemberNames /\ AllBut(s, u, {"due", "fatal"})
      /\ u.armed = s.armed /\ u.due = Append(s.due, t) /\ u.fatal = FALSE
  BY <1>1 DEF Typed, MemberNames, AllBut, ScheduleNow
<1>. HIDE DEF u
<1>3. s.due \in Seq(Timers)
  BY DEF Typed
<1>4. /\ u.due \in Seq(Timers) /\ DOMAIN u.due = DOMAIN s.due \cup {Len(s.due) + 1}
      /\ \A i \in DOMAIN s.due : u.due[i] = s.due[i]
      /\ u.due[Len(s.due) + 1] = t
  BY <1>2, <1>3
<1>5. Typed(u)
  BY <1>2, <1>4 DEF Typed, AllBut, MemberNames
<1>6. Distinct(u)
  BY <1>2, <1>4 DEF Distinct, Active
<1>7. Active(u) = Active(s) \cup {t}
  BY <1>2, <1>4 DEF Active
<1> QED
  BY <1>2, <1>5, <1>6, <1>7 DEF u

LEMMA RearmTimes ==
    ASSUME NEW s, Typed(s), Distinct(s), NEW t \in Timers
    PROVE  /\ Typed(Rearm(s, t)) /\ Distinct(Rearm(s, t))
           /\ AllBut(s, Rearm(s, t), {"armed", "due", "fatal"})
           /\ Rearm(s, t).armed = s.armed \cup {t}
           /\ Active(Rearm(s, t)) = Active(s) \cup {t}
<1>. DEFINE c == Cancel(s, t)
<1>1. /\ Typed(c) /\ Distinct(c) /\ AllBut(s, c, {"armed", "due"})
      /\ c.armed = s.armed \ {t} /\ Active(c) = Active(s) \ {t}
  BY CancelTimes
<1>. HIDE DEF c
<1>2. /\ Typed(Schedule(c, t)) /\ Distinct(Schedule(c, t))
      /\ AllBut(c, Schedule(c, t), {"armed", "fatal"})
      /\ Schedule(c, t).armed = c.armed \cup {t}
      /\ Active(Schedule(c, t)) = Active(c) \cup {t}
  BY <1>1, ScheduleTimes
<1>3. Rearm(s, t) = Schedule(c, t)
  BY DEF Rearm, c
<1> QED
  BY <1>1, <1>2, <1>3 DEF AllBut

LEMMA CancelTimersTimes ==
    ASSUME NEW s, Typed(s), Distinct(s)
    PROVE  /\ Typed(CancelTimers(s)) /\ Distinct(CancelTimers(s))
           /\ AllBut(s, CancelTimers(s), {"armed", "due"})
           /\ CancelTimers(s).armed = s.armed \cap {"T_Download"} /\ CancelTimers(s).due = <<>>
           /\ Active(CancelTimers(s)) = s.armed \cap {"T_Download"}
<1>. DEFINE u == CancelTimers(s)
<1>1. /\ DOMAIN u = MemberNames /\ AllBut(s, u, {"armed", "due"})
      /\ u.armed = s.armed \cap {"T_Download"} /\ u.due = <<>>
  BY DEF Typed, MemberNames, AllBut, CancelTimers
<1>. HIDE DEF u
<1>2. Typed(u)
  BY <1>1 DEF Typed, AllBut, MemberNames
<1>3. Distinct(u) /\ Active(u) = s.armed \cap {"T_Download"}
  BY <1>1 DEF Distinct, Active, AllBut, MemberNames
<1> QED
  BY <1>1, <1>2, <1>3 DEF u

\* Other members have nothing to do with the timers.
LEMMA SameTimes ==
    ASSUME NEW s, NEW u, AllBut(s, u, MemberNames \ {"armed", "due", "fatal"})
    PROVE  (Distinct(s) => Distinct(u)) /\ Active(u) = Active(s)
BY DEF AllBut, MemberNames, Distinct, Active

-----------------------------------------------------------------------------
(* No timer runs twice: the packets.                                       *)

\* No table names another vehicle that asks, and none is empty.
Distributed ==
    /\ {} \notin HostTables
    /\ \A n \in Requesters : \A hosts \in HostTables : hosts \cap Requesters \subseteq {n}

Plain == MsgTypes \ {"CloudRelease", "SendTaskToCN", "CloudResourceInfo"}

LEMMA FineSend ==
    ASSUME NEW type, NEW hosts, NEW dsts, \A y \in dsts : Expected(Message(type, hosts), y)
    PROVE  Fine(Send(type, hosts, dsts))
<1>. SUFFICES ASSUME NEW y \in Everyone, NEW i \in DOMAIN Send(type, hosts, dsts)[y]
              PROVE  Expected(Send(type, hosts, dsts)[y][i], y)
  BY DEF Fine
<1>1. Send(type, hosts, dsts)[y] = IF y \in dsts THEN <<Message(type, hosts)>> ELSE <<>>
  BY DEF Send
<1>2. y \in dsts /\ i = 1
  BY <1>1
<1> QED
  BY <1>1, <1>2

LEMMA FineSends ==
    /\ Fine(Nothing)
    /\ \A type \in Plain : \A x : Fine(One(type, x)) /\ Fine(All(type, x))
    /\ \A f, g \in Sends : Fine(f) /\ Fine(g) => Fine(Then(f, g))
<1>1. Fine(Nothing)
  BY DEF Fine, Nothing
<1>2. ASSUME NEW type \in Plain, NEW x PROVE Fine(One(type, x)) /\ Fine(All(type, x))
  <2>1. \A y : Expected(Message(type, {}), y)
    BY DEF Plain, Expected, Message
  <2> QED
    BY <2>1, FineSend DEF One, All
<1>3. ASSUME NEW f \in Sends, NEW g \in Sends, Fine(f), Fine(g) PROVE Fine(Then(f, g))
  <2>. SUFFICES ASSUME NEW y \in Everyone, NEW i \in DOMAIN Then(f, g)[y]
                PROVE  Expected(Then(f, g)[y][i], y)
    BY DEF Fine
  <2>1. /\ f[y] \in Seq(Packets) /\ g[y] \in Seq(Packets)
        /\ Then(f, g)[y] = f[y] \o g[y]
    BY DEF Sends, Then
  <2>2. ASSUME NEW a \in Seq(Packets), NEW b \in Seq(Packets), NEW j \in DOMAIN (a \o b)
        PROVE  \/ j \in DOMAIN a /\ (a \o b)[j] = a[j]
               \/ j - Len(a) \in DOMAIN b /\ (a \o b)[j] = b[j - Len(a)]
    OBVIOUS
  <2>. DEFINE p == f[y]
              q == g[y]
  <2>3. p \in Seq(Packets) /\ q \in Seq(Packets) /\ Then(f, g)[y] = p \o q /\ i \in DOMAIN (p \o q)
    BY <2>1
  <2>. HIDE DEF p, q
  <2>4. \/ i \in DOMAIN p /\ (p \o q)[i] = p[i]
        \/ i - Len(p) \in DOMAIN q /\ (p \o q)[i] = q[i - Len(p)]
    BY <2>2, <2>3
  <2>5. \/ i \in DOMAIN f[y] /\ Then(f, g)[y][i] = f[y][i]
        \/ i - Len(f[y]) \in DOMAIN g[y] /\ Then(f, g)[y][i] = g[y][i - Len(f[y])]
    BY <2>3, <2>4 DEF p, q
  <2> QED
    BY <1>3, <2>5 DEF Fine
<1> QED
  BY <1>1, <1>2, <1>3

-----------------------------------------------------------------------------
(* No timer runs twice: the state functions of a vehicle that asks.        *)

\* What block i of fn leaves, with effect e.
Asks(s, fn, i, e) ==
    /\ Distinct(e.s) /\ Asking(e.s) /\ Fine(e.send)
    /\ AskingFrame(fn, i + 1, e.s)
    /\ "T_ResourceRequest" \in Active(e.s) =>
          \/ "T_ResourceRequest" \in Active(s)
          \/ fn = "TASKDISTRIBUTION"
          \/ fn = "INITIAL" /\ s.IntersectionFlag = 0
    /\ "T_TaskReception" \in Active(e.s) =>
          \/ "T_TaskReception" \in Active(s)
          \/ fn = "TASKDISTRIBUTION"
          \/ fn = "TASKRECEPTION" /\ i = 1

\* Block i of fn may start, in a frame that is at `at'.
MayAsk(s, o, fn, at, i) ==
    Starts(s, o, fn, at, i) /\ Distinct(s) /\ Asking(s) /\ AskingFrame(fn, at, s)

LEMMA InitialAsks ==
    ASSUME NEW n, NEW s, NEW o, NEW at, NEW i \in 1 .. 2, MayAsk(s, o, "INITIAL", at, i),
           StateInitial(n, s)[i].on
    PROVE  Asks(s, "INITIAL", i, StateInitial(n, s)[i].do)
<1>0. Typed(s) /\ Distinct(s) /\ Asking(s)
  BY DEF MayAsk, Starts
<1>1. CASE i = 1
  <2>. DEFINE v == Rearm(s, "T_ResourceRequest")
              u == [[v EXCEPT !.RecvMsg = "Nothing", !.expires = 0]
                      EXCEPT !.nodeState = "RESOURCEREQUEST"]
              e == Effect(u, <<"RESOURCEREQUEST">>, All("ResourceRequest", n))
  <2>1. s.IntersectionFlag = 0 /\ StateInitial(n, s)[1].do = e
    BY <1>1 DEF StateInitial, Block, SetState
  <2>2. /\ Typed(v) /\ Distinct(v) /\ AllBut(s, v, {"armed", "due", "fatal"})
        /\ v.armed = s.armed \cup {"T_ResourceRequest"}
        /\ Active(v) = Active(s) \cup {"T_ResourceRequest"}
    BY <1>0, RearmTimes DEF Timers
  <2>. HIDE DEF v
  <2>3. u.nodeState = "RESOURCEREQUEST" /\ AllBut(v, u, {"nodeState", "RecvMsg", "expires"})
    BY <2>2 DEF Typed, MemberNames, AllBut
  <2>. HIDE DEF u
  <2>4. Distinct(u) /\ Active(u) = Active(s) \cup {"T_ResourceRequest"}
    BY <2>2, <2>3, SameTimes DEF AllBut, MemberNames
  <2>5. Asking(u)
    BY <1>0, <2>2, <2>3, <2>4 DEF Asking, AllBut, MemberNames
  <2>6. Fine(e.send)
    BY FineSends DEF Effect, Plain, MsgTypes
  <2> QED
    BY <1>1, <2>1, <2>4, <2>5, <2>6 DEF Asks, AskingFrame, Effect
<1>2. CASE i = 2
  BY <1>0, <1>2 DEF StateInitial, Block, Asking
<1> QED
  BY <1>1, <1>2

\* A block that leaves the timers.
LEMMA QuietAsks ==
    ASSUME NEW s, NEW o, NEW fn, NEW at, NEW i \in 1 .. 5, MayAsk(s, o, fn, at, i),
           fn # "TASKDISTRIBUTION" \/ i = 5,
           NEW e, Fine(e.send),
           AllBut(s, e.s, {"nodeState", "RecvMsg", "CompleteTaskCounter", "ExpireReception",
                         "DistributionFlag", "NTasks"}),
           e.s.nodeState \in {s.nodeState, "INITIAL"}
    PROVE  Asks(s, fn, i, e)
<1>1. Distinct(e.s) /\ Active(e.s) = Active(s)
  BY SameTimes DEF AllBut, MemberNames, MayAsk
<1>2. Asking(e.s)
  BY <1>1 DEF Asking, AllBut, MemberNames, MayAsk
<1>3. AskingFrame(fn, i + 1, e.s)
  BY DEF AskingFrame, MayAsk
<1> QED
  BY <1>1, <1>2, <1>3 DEF Asks

LEMMA RequestAsks ==
    ASSUME NEW n, NEW s, NEW o, NEW at, NEW i \in 1 .. 4, MayAsk(s, o, "RESOURCEREQUEST", at, i),
           StateResourceRequest(n, s)[i].on
    PROVE  Asks(s, "RESOURCEREQUEST", i, StateResourceRequest(n, s)[i].do)
<1>. DEFINE e == StateResourceRequest(n, s)[i].do
<1>0. Typed(s)
  BY DEF MayAsk, Starts
<1>1. CASE i = 1
  <2>1. s.RecvMsg = "CloudResourceInfo"
    BY <1>1 DEF StateResourceRequest, Block
  <2> QED
    BY <1>1, <2>1 DEF MayAsk, Starts, Ready
<1>2. CASE i # 1
  <2>1. \/ e = Effect(s, <<>>, All("ResourceRequest", n))
        \/ e = Effect([s EXCEPT !.nodeState = "INITIAL"], <<"INITIAL">>, Nothing)
    BY <1>2 DEF StateResourceRequest, Block, Stay, SetState
  <2>2. Fine(e.send)
    <3>1. Fine(All("ResourceRequest", n)) /\ Fine(Nothing)
      BY FineSends DEF Plain, MsgTypes
    <3>. HIDE DEF e
    <3> QED
      BY <2>1, <3>1 DEF Effect
  <2>3. AllBut(s, e.s, {"nodeState"}) /\ e.s.nodeState \in {s.nodeState, "INITIAL"}
    BY <1>0, <2>1 DEF Effect, Typed, AllBut, MemberNames
  <2>. HIDE DEF e
  <2>4. AllBut(s, e.s, {"nodeState", "RecvMsg", "CompleteTaskCounter", "ExpireReception",
                      "DistributionFlag", "NTasks"})
    BY <2>3 DEF AllBut
  <2>5. Asks(s, "RESOURCEREQUEST", i, e)
    BY <2>2, <2>3, <2>4, QuietAsks
  <2> QED
    BY <2>5 DEF e
<1> QED
  BY <1>1, <1>2

LEMMA DistributionAsks ==
    ASSUME Distributed, NEW n \in Requesters, NEW s, NEW o, NEW at, NEW i \in 1 .. 5,
           MayAsk(s, o, "TASKDISTRIBUTION", at, i), StateTaskDistribution(n, s)[i].on
    PROVE  Asks(s, "TASKDISTRIBUTION", i, StateTaskDistribution(n, s)[i].do)
<1>0. Typed(s) /\ Distinct(s) /\ Asking(s) /\ at \in 1 .. i
  BY DEF MayAsk, Starts
<1>. DEFINE F == "TASKDISTRIBUTION"
<1>1. CASE i = 1
  <2>1. s.insufficient
    BY <1>1 DEF StateTaskDistribution, Block
  <2> QED
    BY <1>1, <2>1 DEF MayAsk, Starts, Ready
<1>2. CASE i = 2
  <2>. DEFINE v == CancelTimers(s)
              u == [v EXCEPT !.nodeState = "INITIAL"]
              e == Effect(u, <<"INITIAL">>, Nothing)
  <2>1. s.IntersectionFlag = 1 /\ StateTaskDistribution(n, s)[2].do = e
    BY <1>2 DEF StateTaskDistribution, Block, SetState
  <2>2. /\ Typed(v) /\ Distinct(v) /\ AllBut(s, v, {"armed", "due"})
        /\ v.armed = {} /\ Active(v) = {}
    BY <1>0, CancelTimersTimes DEF Asking
  <2>. HIDE DEF v
  <2>3. u.nodeState = "INITIAL" /\ AllBut(v, u, {"nodeState"})
    BY <2>2 DEF Typed, MemberNames, AllBut
  <2>. HIDE DEF u
  <2>4. Distinct(u) /\ Active(u) = {}
    BY <2>2, <2>3, SameTimes DEF AllBut, MemberNames
  <2>5. Asking(u) /\ u.IntersectionFlag = 1
    BY <1>0, <2>1, <2>2, <2>3, <2>4 DEF Asking, AllBut, MemberNames
  <2> QED
    BY <1>2, <2>1, <2>4, <2>5, FineSends DEF Asks, AskingFrame, Effect
<1>3. CASE i = 3
  <2>. DEFINE v == ScheduleNow(s, "T_ResourceRequest")
              u == [[v EXCEPT !.expires = 0, !.RecvMsg = "Nothing"]
                      EXCEPT !.nodeState = "RESOURCEREQUEST"]
              e == Effect(u, <<"RESOURCEREQUEST">>, Nothing)
  <2>1. StateTaskDistribution(n, s)[3].do = e
    BY <1>3 DEF StateTaskDistribution, Block, SetState
  <2>2. "T_ResourceRequest" \notin Active(s) /\ "T_TaskReception" \notin Active(s)
    BY <1>0, <1>3 DEF MayAsk, AskingFrame
  <2>3. /\ Typed(v) /\ Distinct(v) /\ AllBut(s, v, {"due", "fatal"})
        /\ Active(v) = Active(s) \cup {"T_ResourceRequest"}
    BY <1>0, <2>2, ScheduleNowTimes DEF Timers
  <2>. HIDE DEF v
  <2>4. u.nodeState = "RESOURCEREQUEST" /\ AllBut(v, u, {"nodeState", "RecvMsg", "expires"})
    BY <2>3 DEF Typed, MemberNames, AllBut
  <2>. HIDE DEF u
  <2>5. Distinct(u) /\ Active(u) = Active(s) \cup {"T_ResourceRequest"}
    BY <2>3, <2>4, SameTimes DEF AllBut, MemberNames
  <2>6. Asking(u)
    BY <1>0, <2>3, <2>4, <2>5 DEF Asking, AllBut, MemberNames
  <2> QED
    BY <1>3, <2>1, <2>2, <2>5, <2>6, FineSends DEF Asks, AskingFrame, Effect
<1>4. CASE i = 4
  <2>. DEFINE c == ResetCounters(s)
              d == Cancel(c, "T_TaskDistribution")
              v == ScheduleNow(d, "T_TaskReception")
              u == [v EXCEPT !.nodeState = "TASKRECEPTION"]
              e == Effect(u, <<"TASKRECEPTION">>, Nothing)
  <2>1. StateTaskDistribution(n, s)[4].do = e
    BY <1>4 DEF StateTaskDistribution, Block, SetState
  <2>2. "T_TaskReception" \notin Active(s)
    BY <1>0, <1>4 DEF MayAsk, AskingFrame
  <2>3. Typed(c) /\ AllBut(s, c, {"CompleteTaskCounter", "ExpireReception"})
    BY <1>0 DEF ResetCounters, Typed, MemberNames, AllBut
  <2>. HIDE DEF c
  <2>4. Distinct(c) /\ Active(c) = Active(s)
    BY <1>0, <2>3, SameTimes DEF AllBut, MemberNames
  <2>5. /\ Typed(d) /\ Distinct(d) /\ AllBut(c, d, {"armed", "due"})
        /\ d.armed = c.armed \ {"T_TaskDistribution"}
        /\ Active(d) = Active(c) \ {"T_TaskDistribution"}
    BY <2>3, <2>4, CancelTimes
  <2>. HIDE DEF d
  <2>6. /\ Typed(v) /\ Distinct(v) /\ AllBut(d, v, {"due", "fatal"})
        /\ Active(v) = Active(d) \cup {"T_TaskReception"}
    BY <2>2, <2>4, <2>5, ScheduleNowTimes DEF Timers
  <2>. HIDE DEF v
  <2>7. u.nodeState = "TASKRECEPTION" /\ AllBut(v, u, {"nodeState"})
    BY <2>6 DEF Typed, MemberNames, AllBut
  <2>. HIDE DEF u
  <2>8. Distinct(u) /\ Active(u) = (Active(s) \ {"T_TaskDistribution"}) \cup {"T_TaskReception"}
    BY <2>4, <2>5, <2>6, <2>7, SameTimes DEF AllBut, MemberNames
  <2>9. /\ u.agreed = s.agreed /\ u.hosts = s.hosts
        /\ u.armed = s.armed \ {"T_TaskDistribution"}
    BY <2>3, <2>5, <2>6, <2>7 DEF AllBut, MemberNames
  <2>10. Asking(u)
    BY <1>0, <2>7, <2>8, <2>9 DEF Asking
  <2> QED
    BY <1>4, <2>1, <2>8, <2>10, FineSends DEF Asks, AskingFrame, Effect
<1>5. CASE i = 5
  <2>. DEFINE c == [s EXCEPT !.DistributionFlag = 1, !.NTasks = usableNodes(s)]
              v == Rearm(c, "T_ExpireReception")
              u == [v EXCEPT !.nodeState = "TASKRECEPTION"]
              tasks == Send("SendTaskToCN", {}, s.hosts \ {n})
              e == Effect(u, <<"TASKRECEPTION">>, tasks)
              g == Effect(c, <<>>, Nothing)
  <2>1. StateTaskDistribution(n, s)[5].do = e \/ StateTaskDistribution(n, s)[5].do = g
    BY DEF StateTaskDistribution, Block, SendTasks, SetState, Stay
  <2>2. Typed(c) /\ AllBut(s, c, {"DistributionFlag", "NTasks"})
    BY <1>0, UsableType DEF Typed, MemberNames, AllBut
  <2>. HIDE DEF c
  <2>3. Distinct(c) /\ Active(c) = Active(s)
    BY <1>0, <2>2, SameTimes DEF AllBut, MemberNames
  <2>4. /\ Typed(v) /\ Distinct(v) /\ AllBut(c, v, {"armed", "due", "fatal"})
        /\ v.armed = c.armed \cup {"T_ExpireReception"}
        /\ Active(v) = Active(c) \cup {"T_ExpireReception"}
    BY <2>2, <2>3, RearmTimes DEF Timers
  <2>. HIDE DEF v
  <2>5. u.nodeState = "TASKRECEPTION" /\ AllBut(v, u, {"nodeState"})
    BY <2>4 DEF Typed, MemberNames, AllBut
  <2>. HIDE DEF u
  <2>6. Distinct(u) /\ Active(u) = Active(s) \cup {"T_ExpireReception"}
    BY <2>3, <2>4, <2>5, SameTimes DEF AllBut, MemberNames
  <2>7. /\ u.agreed = s.agreed /\ u.hosts = s.hosts
        /\ u.armed = s.armed \cup {"T_ExpireReception"}
    BY <2>2, <2>4, <2>5 DEF AllBut, MemberNames
  <2>8. Asking(u)
    BY <1>0, <2>5, <2>6, <2>7 DEF Asking
  <2>9. Fine(tasks)
    <3>1. \A y \in s.hosts \ {n} : Expected(Message("SendTaskToCN", {}), y)
      BY <1>0 DEF Asking, Distributed, Expected, Message
    <3> QED
      BY <3>1, FineSend
  <2>10. Asks(s, F, 5, e)
    BY <2>6, <2>8, <2>9 DEF Asks, AskingFrame, Effect
  <2>11. Asks(s, F, 5, g)
    <3>1. AllBut(s, g.s, {"nodeState", "RecvMsg", "CompleteTaskCounter", "ExpireReception",
                          "DistributionFlag", "NTasks"})
      BY <2>2 DEF AllBut, Effect
    <3>2. g.s.nodeState = s.nodeState /\ Fine(g.send)
      BY <2>2, FineSends DEF AllBut, Effect, MemberNames
    <3>. HIDE DEF g
    <3> QED
      BY <1>5, <3>1, <3>2, QuietAsks
  <2> QED
    BY <1>5, <2>1, <2>10, <2>11
<1> QED
  BY <1>1, <1>2, <1>3, <1>4, <1>5

LEMMA ReceptionAsks ==
    ASSUME NEW n, NEW s, NEW o, NEW at, NEW i \in 1 .. 4,
           MayAsk(s, o, "TASKRECEPTION", at, i), StateTaskReception(n, s)[i].on
    PROVE  Asks(s, "TASKRECEPTION", i, StateTaskReception(n, s)[i].do)
<1>0. Typed(s) /\ Distinct(s) /\ Asking(s) /\ at \in 1 .. i
  BY DEF MayAsk, Starts
<1>1. CASE i = 1
  <2>. DEFINE c == Cancel(s, "T_TaskReception")
              u == ScheduleNow(c, "T_TaskReception")
              e == Effect(u, <<>>, Nothing)
  <2>1. StateTaskReception(n, s)[1].do = e
    BY DEF StateTaskReception, Block, Stay
  <2>2. /\ Typed(c) /\ Distinct(c) /\ AllBut(s, c, {"armed", "due"})
        /\ c.armed = s.armed \ {"T_TaskReception"}
        /\ Active(c) = Active(s) \ {"T_TaskReception"}
    BY <1>0, CancelTimes
  <2>. HIDE DEF c
  <2>3. /\ Distinct(u) /\ AllBut(c, u, {"due", "fatal"})
        /\ Active(u) = Active(c) \cup {"T_TaskReception"}
    BY <2>2, ScheduleNowTimes DEF Timers
  <2>. HIDE DEF u
  <2>4. s.nodeState = "TASKRECEPTION"
    BY <1>0, <1>1 DEF MayAsk, Starts
  <2>5. /\ u.agreed = s.agreed /\ u.hosts = s.hosts /\ u.nodeState = s.nodeState
        /\ u.armed = s.armed \ {"T_TaskReception"}
    BY <2>2, <2>3 DEF AllBut, MemberNames
  <2>6. Asking(u)
    BY <1>0, <2>2, <2>3, <2>4, <2>5 DEF Asking
  <2> QED
    BY <1>1, <2>1, <2>2, <2>3, <2>6, FineSends DEF Asks, AskingFrame, Effect
<1>2. CASE i = 3
  <2>. DEFINE c == ResetCounters(s)
              v == CancelTimers(c)
              u == [[v EXCEPT !.RecvMsg = "AugmentationRequest"] EXCEPT !.nodeState = "INITIAL"]
              e == Effect(u, <<"INITIAL">>, Nothing)
  <2>1. StateTaskReception(n, s)[3].do = e
    BY DEF StateTaskReception, Block, SetState, NewRequest
  <2>2. Typed(c) /\ AllBut(s, c, {"CompleteTaskCounter", "ExpireReception"})
    BY <1>0 DEF ResetCounters, Typed, MemberNames, AllBut
  <2>. HIDE DEF c
  <2>3. Distinct(c) /\ c.armed = s.armed
    BY <1>0, <2>2, SameTimes DEF AllBut, MemberNames
  <2>4. /\ Typed(v) /\ Distinct(v) /\ AllBut(c, v, {"armed", "due"})
        /\ v.armed = {} /\ Active(v) = {}
    BY <1>0, <2>2, <2>3, CancelTimersTimes DEF Asking
  <2>. HIDE DEF v
  <2>5. u.nodeState = "INITIAL" /\ AllBut(v, u, {"nodeState", "RecvMsg"})
    BY <2>4 DEF Typed, MemberNames, AllBut
  <2>. HIDE DEF u
  <2>6. Distinct(u) /\ Active(u) = {} /\ u.armed = {}
    BY <2>4, <2>5, SameTimes DEF AllBut, MemberNames
  <2>7. u.agreed = s.agreed /\ u.hosts = s.hosts
    BY <2>2, <2>4, <2>5 DEF AllBut, MemberNames
  <2>8. Asking(u)
    BY <1>0, <2>5, <2>6, <2>7 DEF Asking
  <2> QED
    BY <1>2, <2>1, <2>6, <2>8, FineSends DEF Asks, AskingFrame, Effect
<1>3. CASE i \in {2, 4}
  <2>. DEFINE e == StateTaskReception(n, s)[i].do
  <2>1. \/ e = Effect([s EXCEPT !.CompleteTaskCounter = Bump(s.CompleteTaskCounter)], <<>>, Nothing)
        \/ e = Effect([s EXCEPT !.nodeState = "INITIAL"], <<"INITIAL">>, Nothing)
    <3>1. i = 2 \/ i = 4
      BY <1>3
    <3>2. /\ StateTaskReception(n, s)[2].do
               = Effect([s EXCEPT !.CompleteTaskCounter = Bump(s.CompleteTaskCounter)], <<>>, Nothing)
          /\ StateTaskReception(n, s)[4].do
               = Effect([s EXCEPT !.nodeState = "INITIAL"], <<"INITIAL">>, Nothing)
      <4>1. [s EXCEPT !.CompleteTaskCounter = Bump(@)]
               = [s EXCEPT !.CompleteTaskCounter = Bump(s.CompleteTaskCounter)]
        OBVIOUS
      <4> QED
        BY <4>1 DEF StateTaskReception, Block, Stay, SetState
    <3> QED
      BY <3>1, <3>2
  <2>2. AllBut(s, e.s, {"nodeState", "CompleteTaskCounter"}) /\ e.s.nodeState \in {s.nodeState, "INITIAL"}
    BY <1>0, <2>1 DEF Effect, Typed, AllBut, MemberNames
  <2>3. e.send = Nothing
    BY <2>1 DEF Effect
  <2>. HIDE DEF e
  <2>4. AllBut(s, e.s, {"nodeState", "RecvMsg", "CompleteTaskCounter", "ExpireReception",
                      "DistributionFlag", "NTasks"})
    BY <2>2 DEF AllBut
  <2>5. Asks(s, "TASKRECEPTION", i, e)
    BY <2>2, <2>3, <2>4, QuietAsks, FineSends
  <2> QED
    BY <2>5 DEF e
<1> QED
  BY <1>1, <1>2, <1>3

LEMMA RequestBeginsAsks ==
    ASSUME NEW n, NEW s, NEW o, NEW at, MayAsk(s, o, "SendAugmentationRequest", at, 1)
    PROVE  Asks(s, "SendAugmentationRequest", 1, SendAugmentationRequest(n, s)[1].do)
<1>. DEFINE u == [[s EXCEPT !.RecvMsg = "AugmentationRequest"] EXCEPT !.nodeState = "INITIAL"]
            e == Effect(u, <<"INITIAL">>, Nothing)
<1>1. Typed(s)
  BY DEF MayAsk, Starts
<1>2. SendAugmentationRequest(n, s)[1].do = e
  BY DEF SendAugmentationRequest, Block, SetState, NewRequest
<1>3. AllBut(s, e.s, {"nodeState", "RecvMsg"}) /\ e.s.nodeState = "INITIAL" /\ e.send = Nothing
  BY <1>1 DEF Effect, Typed, AllBut, MemberNames
<1>. HIDE DEF e
<1>4. AllBut(s, e.s, {"nodeState", "RecvMsg", "CompleteTaskCounter", "ExpireReception",
                    "DistributionFlag", "NTasks"})
  BY <1>3 DEF AllBut
<1>5. Asks(s, "SendAugmentationRequest", 1, e)
  BY <1>3, <1>4, QuietAsks, FineSends
<1> QED
  BY <1>2, <1>5

\* Whatever block of a vehicle that asks.
LEMMA BlockAsks ==
    ASSUME Distributed, NEW n \in Requesters, NEW o, NEW fn \in Functions, NEW at, NEW i \in 1 .. 5,
           MayAsk(sm[n], o, fn, at, i), i <= Len(Blocks(n, fn)), Blocks(n, fn)[i].on
    PROVE  Asks(sm[n], fn, i, Blocks(n, fn)[i].do)
<1>1. CASE fn = "INITIAL"
  <2>1. Blocks(n, fn) = StateInitial(n, sm[n]) /\ i \in 1 .. 2
    BY <1>1 DEF Blocks, StateInitial
  <2> QED
    BY <1>1, <2>1, InitialAsks
<1>2. CASE fn = "RESOURCEREQUEST"
  <2>1. Blocks(n, fn) = StateResourceRequest(n, sm[n]) /\ i \in 1 .. 4
    BY <1>2 DEF Blocks, StateResourceRequest
  <2> QED
    BY <1>2, <2>1, RequestAsks
<1>3. CASE fn = "TASKDISTRIBUTION"
  <2>1. Blocks(n, fn) = StateTaskDistribution(n, sm[n])
    BY <1>3 DEF Blocks
  <2> QED
    BY <1>3, <2>1, DistributionAsks
<1>4. CASE fn = "TASKRECEPTION"
  <2>1. Blocks(n, fn) = StateTaskReception(n, sm[n]) /\ i \in 1 .. 4
    BY <1>4 DEF Blocks, StateTaskReception
  <2> QED
    BY <1>4, <2>1, ReceptionAsks
<1>5. CASE fn = "COLLABORATION"
  BY <1>5 DEF MayAsk, AskingFrame
<1>6. CASE fn = "SendAugmentationRequest"
  <2>1. Blocks(n, fn) = SendAugmentationRequest(n, sm[n])
    BY <1>6 DEF Blocks
  <2>2. Len(SendAugmentationRequest(n, sm[n])) = 1
    BY DEF SendAugmentationRequest
  <2>3. i = 1
    BY <2>1, <2>2
  <2> QED
    BY <1>6, <2>1, <2>3, RequestBeginsAsks
<1> QED
  BY <1>1, <1>2, <1>3, <1>4, <1>5, <1>6 DEF Functions, States

-----------------------------------------------------------------------------
(* No timer runs twice: the state functions of a vehicle that gets tasks.  *)

\* What block i of fn leaves, with effect e.
Helps(s, fn, i, e) ==
    /\ Distinct(e.s) /\ Helping(e.s) /\ Fine(e.send)
    /\ e.s.agreed = s.agreed
    /\ HelpingFrame(fn, i + 1, e.s)
    /\ e.calls # <<>> => HelpingFrame(e.s.nodeState, 1, e.s)
    /\ ~Unnoticed(e.s)

MayHelp(s, o, fn, at, i) ==
    Starts(s, o, fn, at, i) /\ Distinct(s) /\ Helping(s) /\ HelpingFrame(fn, at, s)

LEMMA InitialHelps ==
    ASSUME NEW n, NEW s, NEW o, NEW at, NEW i \in 1 .. 2, MayHelp(s, o, "INITIAL", at, i),
           StateInitial(n, s)[i].on
    PROVE  Helps(s, "INITIAL", i, StateInitial(n, s)[i].do)
<1>0. Typed(s) /\ Distinct(s) /\ Helping(s)
  BY DEF MayHelp, Starts
<1>1. CASE i = 1
  BY <1>0, <1>1 DEF StateInitial, Block, Helping
<1>2. CASE i = 2
  <2>. DEFINE u == [[s EXCEPT !.FinishFlag = 0, !.RecvMsg = "Nothing"]
                      EXCEPT !.nodeState = "COLLABORATION"]
              e == Effect(u, <<"COLLABORATION">>, Nothing)
  <2>1. s.agreed /\ s.IntersectionFlag = 0 /\ StateInitial(n, s)[2].do = e
    BY <1>2 DEF StateInitial, Block, SetState
  <2>2. /\ u.nodeState = "COLLABORATION" /\ u.FinishFlag = 0 /\ u.RecvMsg = "Nothing"
        /\ AllBut(s, u, {"nodeState", "RecvMsg", "FinishFlag"})
    BY <1>0 DEF Typed, MemberNames, AllBut
  <2>. HIDE DEF u
  <2>3. Distinct(u)
    BY <1>0, <2>2, SameTimes DEF AllBut, MemberNames
  <2>4. /\ u.armed = s.armed /\ u.due = s.due /\ u.agreed = s.agreed
        /\ u.IntersectionFlag = 0
    BY <2>1, <2>2 DEF AllBut, MemberNames
  <2>5. Helping(u) /\ ~Unnoticed(u)
    BY <1>0, <2>1, <2>2, <2>4 DEF Helping, Unnoticed
  <2>6. e.s = u /\ e.calls # <<>> /\ Fine(e.send)
    BY FineSends DEF Effect
  <2>. HIDE DEF e
  <2>7. HelpingFrame("INITIAL", 3, u) /\ HelpingFrame("COLLABORATION", 1, u)
    BY <2>1, <2>4 DEF HelpingFrame
  <2>8. Helps(s, "INITIAL", 2, e)
    BY <2>2, <2>3, <2>4, <2>5, <2>6, <2>7 DEF Helps
  <2> QED
    BY <1>2, <2>1, <2>8
<1> QED
  BY <1>1, <1>2

LEMMA CollaborationHelps ==
    ASSUME NEW n, NEW s, NEW o, NEW at, NEW i \in 1 .. 2, MayHelp(s, o, "COLLABORATION", at, i),
           StateCollaboration(n, s)[i].on
    PROVE  Helps(s, "COLLABORATION", i, StateCollaboration(n, s)[i].do)
<1>0. Typed(s) /\ Distinct(s) /\ Helping(s) /\ at \in 1 .. i
  BY DEF MayHelp, Starts
<1>. DEFINE F == "COLLABORATION"
<1>1. CASE i = 1
  <2>. DEFINE c == [s EXCEPT !.FinishFlag = 0]
              v == Schedule(c, "T_CompleteTaskAck")
              u == [v EXCEPT !.nodeState = F]
              e == Effect(u, <<F>>, Nothing)
  <2>1. s.FinishFlag = 1 /\ StateCollaboration(n, s)[1].do = e
    BY <1>1 DEF StateCollaboration, Block, SetState
  <2>2. s.nodeState = F
    BY <1>0, <1>1 DEF MayHelp, Starts
  <2>3. s.IntersectionFlag = 0 /\ s.armed = {} /\ s.due = <<>> /\ s.agreed
    BY <1>0, <2>1, <2>2 DEF Helping
  <2>4. Typed(c) /\ AllBut(s, c, {"FinishFlag"}) /\ c.FinishFlag = 0
    BY <1>0 DEF Typed, MemberNames, AllBut
  <2>. HIDE DEF c
  <2>5. c.armed = {} /\ c.due = <<>>
    BY <2>3, <2>4 DEF AllBut, MemberNames
  <2>6. Distinct(c) /\ Active(c) = {}
    BY <1>0, <2>4, <2>5, SameTimes DEF AllBut, MemberNames, Active
  <2>7. /\ Typed(v) /\ Distinct(v) /\ AllBut(c, v, {"armed", "fatal"})
        /\ v.armed = c.armed \cup {"T_CompleteTaskAck"}
    BY <2>4, <2>5, <2>6, ScheduleTimes DEF Timers
  <2>. HIDE DEF v
  <2>8. u.nodeState = F /\ AllBut(v, u, {"nodeState"})
    BY <2>7 DEF Typed, MemberNames, AllBut
  <2>. HIDE DEF u
  <2>9. Distinct(u)
    BY <2>7, <2>8, SameTimes DEF AllBut, MemberNames
  <2>10. /\ u.armed = {"T_CompleteTaskAck"} /\ u.due = <<>> /\ u.FinishFlag = 0 /\ u.agreed
         /\ u.IntersectionFlag = 0 /\ u.RecvMsg = s.RecvMsg /\ u.agreed = s.agreed
    BY <2>3, <2>4, <2>5, <2>7, <2>8 DEF AllBut, MemberNames
  <2>11. Helping(u) /\ ~Unnoticed(u)
    BY <1>0, <2>8, <2>10 DEF Helping, Unnoticed
  <2>12. e.s = u /\ e.calls # <<>> /\ Fine(e.send)
    BY FineSends DEF Effect
  <2>. HIDE DEF e
  <2>13. HelpingFrame(F, 2, u) /\ HelpingFrame(F, 1, u)
    BY <2>10 DEF HelpingFrame
  <2>14. Helps(s, F, 1, e)
    BY <2>8, <2>9, <2>10, <2>11, <2>12, <2>13 DEF Helps
  <2> QED
    BY <1>1, <2>1, <2>14
<1>2. CASE i = 2
  <2>. DEFINE u == ScheduleNow(s, "T_IncompleteTaskAck")
              p == One("IncompleteTask", s.responseIp)
              e == Effect(u, <<>>, p)
  <2>1. /\ s.IntersectionFlag = 1 \/ s.RecvMsg = "CloudRelease" \/ ~s.agreed
        /\ StateCollaboration(n, s)[2].do = e
    BY <1>2 DEF StateCollaboration, Block, Stay
  <2>2. s.agreed /\ s.IntersectionFlag = 1
    BY <1>0, <2>1 DEF MayHelp, HelpingFrame, Helping
  <2>3. at = 1 /\ s.due = <<>>
    BY <1>0, <1>2, <2>2 DEF MayHelp, HelpingFrame
  <2>4. s.nodeState = F
    BY <2>3 DEF MayHelp, Starts
  <2>5. "T_IncompleteTaskAck" \notin Active(s)
    BY <1>0, <2>3 DEF Helping, Active
  <2>6. /\ Distinct(u) /\ AllBut(s, u, {"due", "fatal"}) /\ u.due = <<"T_IncompleteTaskAck">>
    BY <1>0, <2>3, <2>5, ScheduleNowTimes DEF Timers
  <2>. HIDE DEF u
  <2>7. /\ u.armed = s.armed /\ u.FinishFlag = s.FinishFlag /\ u.agreed = s.agreed
        /\ u.IntersectionFlag = 1 /\ u.RecvMsg = s.RecvMsg /\ u.nodeState = F
    BY <2>2, <2>4, <2>6 DEF AllBut, MemberNames
  <2>8. Helping(u) /\ ~Unnoticed(u)
    BY <1>0, <2>2, <2>4, <2>6, <2>7 DEF Helping, Unnoticed
  <2>9. Fine(p)
    BY FineSends DEF Plain, MsgTypes
  <2>. HIDE DEF p
  <2>10. e.s = u /\ e.calls = <<>> /\ Fine(e.send)
    BY <2>9 DEF Effect
  <2>. HIDE DEF e
  <2>11. HelpingFrame(F, 3, u)
    BY <2>2, <2>7 DEF HelpingFrame
  <2>12. Helps(s, F, 2, e)
    BY <2>6, <2>7, <2>8, <2>10, <2>11 DEF Helps
  <2> QED
    BY <1>2, <2>1, <2>12
<1> QED
  BY <1>1, <1>2

\* Whatever block of a vehicle that gets tasks.
LEMMA BlockHelps ==
    ASSUME NEW n, NEW o, NEW fn \in Functions, NEW at, NEW i \in 1 .. 5,
           MayHelp(sm[n], o, fn, at, i), i <= Len(Blocks(n, fn)), Blocks(n, fn)[i].on
    PROVE  Helps(sm[n], fn, i, Blocks(n, fn)[i].do)
<1>1. fn \in {"INITIAL", "COLLABORATION"}
  BY DEF MayHelp, HelpingFrame
<1>2. CASE fn = "INITIAL"
  <2>1. Blocks(n, fn) = StateInitial(n, sm[n]) /\ i \in 1 .. 2
    BY <1>2 DEF Blocks, StateInitial
  <2> QED
    BY <1>2, <2>1, InitialHelps
<1>3. CASE fn = "COLLABORATION"
  <2>1. Blocks(n, fn) = StateCollaboration(n, sm[n]) /\ i \in 1 .. 2
    BY <1>3 DEF Blocks, StateCollaboration
  <2> QED
    BY <1>3, <2>1, CollaborationHelps
<1> QED
  BY <1>1, <1>2, <1>3

-----------------------------------------------------------------------------
(* No timer runs twice: one block.                                         *)

\* The frames below it keep what they rely on.
LEMMA LowerAsks ==
    ASSUME NEW st \in Seq(FrameType), NEW s, NEW o, Stacked(st, s, o), NEW j \in 2 .. Len(st),
           AskingFrame(st[j].fn, st[j].at, s), NEW i \in 1 .. 5, NEW e,
           st[1].at \in 1 .. i, Asks(s, st[1].fn, i, e),
           e.s.IntersectionFlag = s.IntersectionFlag
    PROVE  AskingFrame(st[j].fn, st[j].at, e.s)
<1>. SUFFICES ASSUME st[j].fn = "TASKDISTRIBUTION"
              PROVE  /\ st[j].at <= 3 => "T_ResourceRequest" \notin Active(e.s)
                     /\ st[j].at \in {2, 3} => e.s.IntersectionFlag = 1
                     /\ st[j].at <= 4 => "T_TaskReception" \notin Active(e.s)
  BY DEF AskingFrame
<1>1. /\ j \in DOMAIN st /\ 1 \in DOMAIN st /\ j # 1 /\ st[j] \in FrameType
      /\ st[j].at \in 1 .. 6
  <2>1. j \in DOMAIN st /\ 1 \in DOMAIN st /\ j # 1 /\ st[j] \in FrameType
    OBVIOUS
  <2> QED
    BY <2>1 DEF FrameType
<1>2. st[1].fn # "TASKDISTRIBUTION" /\ st[j].at # 1
  BY <1>1 DEF Stacked, OneDistribution, Fresh
<1>3. st[1].fn = "TASKRECEPTION" /\ i = 1 => st[j].at >= 5
  BY <1>1 DEF Stacked, Receiving
<1>4. /\ st[j].at <= 3 => "T_ResourceRequest" \notin Active(s)
      /\ st[j].at \in {2, 3} => s.IntersectionFlag = 1
      /\ st[j].at <= 4 => "T_TaskReception" \notin Active(s)
  BY DEF AskingFrame
<1>5. st[j].at <= 3 => s.IntersectionFlag = 1
  BY <1>1, <1>2, <1>4
<1>6. st[j].at <= 4 => ~(st[1].fn = "TASKRECEPTION" /\ i = 1)
  BY <1>1, <1>3
<1> QED
  BY <1>2, <1>4, <1>5, <1>6 DEF Asks

LEMMA LowerHelps ==
    ASSUME NEW st \in Seq(FrameType), NEW s, NEW o, Stacked(st, s, o), NEW j \in 2 .. Len(st),
           HelpingFrame(st[j].fn, st[j].at, s), NEW i, NEW e,
           Helps(s, st[1].fn, i, e), e.s.IntersectionFlag = s.IntersectionFlag
    PROVE  HelpingFrame(st[j].fn, st[j].at, e.s)
<1>1. j \in DOMAIN st /\ j # 1
  OBVIOUS
<1>2. st[j].fn = "COLLABORATION" => st[j].at # 1
  BY <1>1 DEF Stacked, Fresh
<1> QED
  BY <1>2 DEF HelpingFrame, Helps

\* The block's part of Lone.
LEMMA BlockInRole ==
    ASSUME Distributed, Control, Lone, NEW n \in Nodes, NEW fn \in Functions, NEW i \in 1 .. 5,
           Executing(n, fn, i)
    PROVE  LET e == Blocks(n, fn)[i].do
           IN  /\ Leads(sm[n], round[n].open, fn, i, e)
               /\ InRole(n, e.s) /\ Fine(e.send)
               /\ n \notin Requesters => ~Unnoticed(e.s)
               /\ Suits(n, [node |-> n, fn |-> fn, at |-> i + 1], e.s)
               /\ e.calls # <<>> => Suits(n, [node |-> n, fn |-> e.s.nodeState, at |-> 1], e.s)
               /\ \A j \in 2 .. Len(stack) : Suits(n, stack[j], e.s)
<1>. DEFINE s == sm[n]
            o == round[n].open
            e == Blocks(n, fn)[i].do
<1>1. /\ stack # <<>> /\ stack[1].node = n /\ stack[1].fn = fn
      /\ i <= Len(Blocks(n, fn)) /\ Blocks(n, fn)[i].on
      /\ Starts(s, o, fn, stack[1].at, i)
  BY ExecutingStarts
<1>2. Leads(s, o, fn, i, e)
  BY <1>1, BlockLeads
<1>3. /\ stack \in Seq(FrameType) /\ Stacked(stack, s, o) /\ 1 \in DOMAIN stack
      /\ stack[1].at \in 1 .. i
  BY <1>1, HeadTyped DEF Control, Stack, Starts
<1>4. InRole(n, s) /\ \A j \in DOMAIN stack : Suits(n, stack[j], s)
  BY <1>1 DEF Lone
<1>5. e.s.IntersectionFlag = s.IntersectionFlag
      /\ (e.calls # <<>> => e.s.nodeState # "TASKDISTRIBUTION")
  BY <1>2 DEF Leads
<1>6. \A j \in 2 .. Len(stack) : j \in DOMAIN stack
  BY <1>3
<1>. DEFINE f == [node |-> n, fn |-> fn, at |-> i + 1]
            g == [node |-> n, fn |-> e.s.nodeState, at |-> 1]
<1>7. f.fn = fn /\ f.at = i + 1 /\ g.fn = e.s.nodeState /\ g.at = 1
  OBVIOUS
<1>8. CASE n \in Requesters
  <2>1. MayAsk(s, o, fn, stack[1].at, i)
    BY <1>1, <1>3, <1>4, <1>8 DEF MayAsk, InRole, Suits
  <2>2. Asks(s, fn, i, e)
    BY <1>1, <1>8, <2>1, BlockAsks
  <2>. HIDE DEF e, s, o, f, g
  <2>3. Suits(n, f, e.s)
    BY <1>7, <1>8, <2>2 DEF Suits, Asks
  <2>4. e.calls # <<>> => Suits(n, g, e.s)
    BY <1>5, <1>7, <1>8, <2>2 DEF Suits, Asks, Asking, AskingFrame
  <2>5. ASSUME NEW j \in 2 .. Len(stack) PROVE Suits(n, stack[j], e.s)
    <3>1. AskingFrame(stack[j].fn, stack[j].at, s)
      BY <1>4, <1>6, <1>8 DEF Suits
    <3>2. AskingFrame(stack[j].fn, stack[j].at, e.s)
      BY <1>1, <1>3, <1>5, <2>2, <3>1, LowerAsks
    <3> QED
      BY <1>8, <3>2 DEF Suits
  <2>6. InRole(n, e.s) /\ Fine(e.send)
    BY <1>8, <2>2 DEF InRole, Asks
  <2> QED
    BY <1>2, <1>8, <2>3, <2>4, <2>5, <2>6 DEF e, s, o, f, g
<1>9. CASE n \notin Requesters
  <2>1. MayHelp(s, o, fn, stack[1].at, i)
    BY <1>1, <1>3, <1>4, <1>9 DEF MayHelp, InRole, Suits
  <2>2. Helps(s, fn, i, e)
    BY <1>1, <2>1, BlockHelps
  <2>. HIDE DEF e, s, o, f, g
  <2>3. Suits(n, f, e.s)
    BY <1>7, <1>9, <2>2 DEF Suits, Helps
  <2>4. e.calls # <<>> => Suits(n, g, e.s)
    BY <1>7, <1>9, <2>2 DEF Suits, Helps
  <2>5. ASSUME NEW j \in 2 .. Len(stack) PROVE Suits(n, stack[j], e.s)
    <3>1. HelpingFrame(stack[j].fn, stack[j].at, s)
      BY <1>4, <1>6, <1>9 DEF Suits
    <3>2. HelpingFrame(stack[j].fn, stack[j].at, e.s)
      BY <1>1, <1>3, <1>5, <2>2, <3>1, LowerHelps
    <3> QED
      BY <1>9, <3>2 DEF Suits
  <2>6. InRole(n, e.s) /\ Fine(e.send) /\ ~Unnoticed(e.s)
    BY <1>9, <2>2 DEF InRole, Helps
  <2> QED
    BY <1>2, <1>9, <2>3, <2>4, <2>5, <2>6 DEF e, s, o, f, g
<1> QED
  BY <1>8, <1>9

LEMMA ExecuteLone ==
    ASSUME Distributed, Control, Lone,
           NEW n \in Nodes, NEW fn \in Functions, NEW i \in 1 .. 5, Execute(n, fn, i)
    PROVE  Lone'
<1>. DEFINE e == Blocks(n, fn)[i].do
            f == [node |-> n, fn |-> fn, at |-> i + 1]
            g == [node |-> n, fn |-> e.s.nodeState, at |-> 1]
<1>1. /\ Leads(sm[n], round[n].open, fn, i, e)
      /\ InRole(n, e.s) /\ Fine(e.send)
      /\ n \notin Requesters => ~Unnoticed(e.s)
      /\ Suits(n, f, e.s) /\ (e.calls # <<>> => Suits(n, g, e.s))
      /\ \A j \in 2 .. Len(stack) : Suits(n, stack[j], e.s)
  BY BlockInRole DEF Execute
<1>2. /\ stack # <<>> /\ stack[1].node = n /\ stack[1].fn = fn
  BY ExecutingStarts DEF Execute
<1>3. /\ sm' = [sm EXCEPT ![n] = e.s]
      /\ stack' = Frames(n, e.calls) \o <<[Head(stack) EXCEPT !.at = i + 1]>> \o Tail(stack)
      /\ net' = [net EXCEPT ![n] = Then(@, e.send)]
  BY DEF Execute
<1>. HIDE DEF e
<1>4. sm'[n] = e.s /\ \A m \in Nodes : m # n => sm'[m] = sm[m]
  BY <1>3 DEF Control, Vehicles
<1>5. stack \in Seq(FrameType)
  BY DEF Control, Stack
<1>6. e.calls = <<>> \/ (e.calls = <<e.s.nodeState>> /\ e.s.nodeState \in Functions)
  BY <1>1 DEF Leads, Typed, Functions
<1>7. After(stack, n, i, e.calls, stack')
  BY <1>2, <1>3, <1>5, <1>6, FramesAfter
<1>8. stack' \in Seq(FrameType) /\ stack' # <<>> /\ stack'[1].node = n
  BY <1>7 DEF After
<1>9. ASSUME NEW k \in DOMAIN stack' PROVE Suits(n, stack'[k], e.s)
  <2>1. k \in 1 .. Len(stack') /\ Len(stack) \in Nat /\ Len(stack) >= 1
    BY <1>2, <1>5, <1>8
  <2>2. CASE e.calls = <<>>
    <3>1. /\ Len(stack') = Len(stack) /\ stack'[1].fn = fn /\ stack'[1].at = i + 1
          /\ \A j \in 2 .. Len(stack') : stack'[j] = stack[j]
      BY <1>2, <1>7, <2>2 DEF After
    <3>2. CASE k = 1
      BY <1>1, <3>1, <3>2 DEF Suits, f
    <3>3. CASE k # 1
      <4>1. k \in 2 .. Len(stack) /\ stack'[k] = stack[k]
        BY <2>1, <3>1, <3>3
      <4> QED
        BY <1>1, <4>1
    <3> QED
      BY <3>2, <3>3
  <2>3. CASE e.calls = <<e.s.nodeState>> /\ e.s.nodeState \in Functions
    <3>1. /\ Len(stack') = Len(stack) + 1
          /\ stack'[1].fn = e.s.nodeState /\ stack'[1].at = 1
          /\ stack'[2].fn = fn /\ stack'[2].at = i + 1
          /\ \A j \in 2 .. Len(stack) : stack'[j + 1] = stack[j]
      BY <1>2, <1>7, <2>3 DEF After
    <3>2. e.calls # <<>>
      BY <2>3
    <3>3. CASE k = 1
      BY <1>1, <3>1, <3>2, <3>3 DEF Suits, g
    <3>4. CASE k = 2
      BY <1>1, <3>1, <3>4 DEF Suits, f
    <3>5. CASE k \notin {1, 2}
      <4>1. k - 1 \in 2 .. Len(stack) /\ stack'[k] = stack[k - 1]
        <5>1. k - 1 \in 2 .. Len(stack) /\ (k - 1) + 1 = k
          BY <2>1, <3>1, <3>5
        <5> QED
          BY <3>1, <5>1
      <4> QED
        BY <1>1, <4>1
    <3> QED
      BY <3>3, <3>4, <3>5
  <2> QED
    BY <1>6, <2>2, <2>3
<1>10. \A m \in Nodes : InRole(m, sm'[m])
  BY <1>1, <1>4 DEF Lone
<1>11. ASSUME NEW m \in Nodes \ Requesters PROVE Noticing(stack', m, sm'[m])
  <2>1. CASE m = n
    BY <1>1, <1>4, <1>11, <2>1 DEF Noticing
  <2>2. CASE m # n
    BY <1>2, <1>4, <1>8, <2>2 DEF Noticing, Lone
  <2> QED
    BY <2>1, <2>2
<1>12. ASSUME NEW m \in Nodes, NEW k \in DOMAIN stack', stack'[1].node = m
       PROVE  Suits(m, stack'[k], sm'[m])
  <2>1. m = n
    BY <1>8, <1>12
  <2> QED
    BY <1>4, <1>9, <2>1
<1>13. ASSUME NEW x \in Everyone PROVE Fine(net'[x])
  <2>1. n \in Everyone /\ net \in [Everyone -> Sends] /\ e.send \in Sends
    BY <1>1 DEF Everyone, Control, Network, Leads
  <2>2. Fine(net[x]) /\ Fine(net[n])
    BY <2>1 DEF Lone
  <2>3. Fine(Then(net[n], e.send))
    BY <1>1, <2>1, <2>2, FineSends
  <2> QED
    BY <1>3, <2>1, <2>2, <2>3
<1> QED
  BY <1>10, <1>11, <1>12, <1>13 DEF Lone

LEMMA ReturnLone ==
    ASSUME Control, Lone, Return
    PROVE  Lone'
<1>1. /\ stack # <<>> /\ Enabled(stack[1]) = {} /\ stack' = Tail(stack)
      /\ sm' = sm /\ net' = net
  BY HeadTyped DEF Return, Control
<1>2. /\ stack[1] \in FrameType /\ stack \in Seq(FrameType) /\ stack[1].node \in Nodes
      /\ Len(stack) \in Nat /\ Len(stack) >= 1 /\ 1 \in DOMAIN stack
  BY <1>1, HeadTyped DEF Control
<1>3. \A k \in DOMAIN stack' : k + 1 \in DOMAIN stack /\ stack'[k] = stack[k + 1]
  BY <1>1, <1>2
<1>4. \A j, k \in DOMAIN stack : stack[j].node = stack[k].node
  BY <1>1, <1>2 DEF Control, Stack, Stacked
<1>5. ASSUME NEW m \in Nodes \ Requesters PROVE Noticing(stack', m, sm'[m])
  <2>. SUFFICES ASSUME Unnoticed(sm[m]) PROVE FALSE
    BY <1>1 DEF Noticing
  <2>1. stack[1].node = m /\ stack[1].fn = "COLLABORATION" /\ stack[1].at = 1
    BY DEF Lone, Noticing
  <2>2. /\ Len(Blocks(m, "COLLABORATION")) = 2
        /\ Blocks(m, "COLLABORATION")[1].on \/ Blocks(m, "COLLABORATION")[2].on
    BY DEF Blocks, StateCollaboration, Block, Unnoticed
  <2>3. 1 \in Enabled(stack[1]) \/ 2 \in Enabled(stack[1])
    BY <2>1, <2>2 DEF Enabled
  <2> QED
    BY <1>1, <2>3
<1>6. ASSUME NEW m \in Nodes, NEW k \in DOMAIN stack', stack'[1].node = m
      PROVE  Suits(m, stack'[k], sm'[m])
  <2>1. 1 \in DOMAIN stack'
    BY <1>1, <1>2
  <2>2. stack[1].node = m
    BY <1>2, <1>3, <1>4, <1>6, <2>1
  <2> QED
    BY <1>1, <1>3, <2>2 DEF Lone
<1> QED
  BY <1>1, <1>5, <1>6 DEF Lone

-----------------------------------------------------------------------------
(* No timer runs twice: a callback.                                        *)

\* What n runs with members u and these calls.
Callback(n, u, calls) ==
    IF n \in Requesters
    THEN calls \in {<<>>, <<u.nodeState>>, <<"SendAugmentationRequest">>,
                    <<u.nodeState, "SendAugmentationRequest">>}
    ELSE \/ calls = <<u.nodeState>> /\ u.due = <<>>
         \/ calls = <<>> /\ ~Unnoticed(u)

LEMMA CallbackSuits ==
    ASSUME NEW n, NEW u, Typed(u), InRole(n, u), NEW calls, Callback(n, u, calls),
           NEW k \in DOMAIN Frames(n, calls)
    PROVE  Suits(n, Frames(n, calls)[k], u) /\ Frames(n, calls)[k].node = n
<1>1. k \in DOMAIN calls /\ Frames(n, calls)[k] = [node |-> n, fn |-> calls[k], at |-> 1]
  BY DEF Frames, Frame
<1>2. calls[k] \in {u.nodeState, "SendAugmentationRequest"}
      /\ (n \notin Requesters => calls[k] = u.nodeState /\ u.due = <<>>)
  BY <1>1 DEF Callback
<1>3. CASE n \in Requesters
  BY <1>1, <1>2, <1>3 DEF Suits, AskingFrame, InRole, Asking
<1>4. CASE n \notin Requesters
  BY <1>1, <1>2, <1>4 DEF Suits, HelpingFrame, InRole, Helping
<1> QED
  BY <1>3, <1>4

LEMMA ApplyLone ==
    ASSUME Control, Lone, NEW n \in Nodes, NEW e, NEW queues \in [Everyone -> Sends],
           \A x \in Everyone : Fine(queues[x]),
           Idle, Apply(n, e, queues), Typed(e.s), InRole(n, e.s), Callback(n, e.s, e.calls),
           e.send \in Sends, Fine(e.send)
    PROVE  Lone'
<1>1. /\ sm' = [sm EXCEPT ![n] = e.s] /\ stack' = Frames(n, e.calls)
      /\ net' = [queues EXCEPT ![n] = Then(@, e.send)] /\ stack = <<>>
  BY DEF Apply, Idle
<1>2. sm'[n] = e.s /\ \A m \in Nodes : m # n => sm'[m] = sm[m]
  BY <1>1 DEF Control, Vehicles
<1>3. \A k \in DOMAIN stack' : Suits(n, stack'[k], e.s) /\ stack'[k].node = n
  BY <1>1, CallbackSuits
<1>4. \A m \in Nodes : InRole(m, sm'[m])
  BY <1>2 DEF Lone
<1>5. ASSUME NEW m \in Nodes \ Requesters PROVE Noticing(stack', m, sm'[m])
  <2>1. CASE m # n
    BY <1>1, <1>2, <2>1 DEF Noticing, Lone
  <2>2. CASE m = n
    <3>. SUFFICES ASSUME Unnoticed(e.s)
                  PROVE  /\ stack' # <<>> /\ stack'[1].node = n
                         /\ stack'[1].fn = "COLLABORATION" /\ stack'[1].at = 1
      BY <1>2, <2>2 DEF Noticing
    <3>1. e.calls = <<"COLLABORATION">>
      BY <1>5, <2>2 DEF Callback, Unnoticed
    <3>2. /\ DOMAIN Frames(n, e.calls) = DOMAIN e.calls /\ 1 \in DOMAIN e.calls
          /\ Frames(n, e.calls)[1] = [node |-> n, fn |-> "COLLABORATION", at |-> 1]
      BY <3>1 DEF Frames, Frame
    <3> QED
      BY <1>1, <3>2
  <2> QED
    BY <2>1, <2>2
<1>6. ASSUME NEW m \in Nodes, NEW k \in DOMAIN stack', stack'[1].node = m
      PROVE  Suits(m, stack'[k], sm'[m])
  <2>1. 1 \in DOMAIN stack'
    <3>1. DOMAIN stack' = DOMAIN e.calls
      BY <1>1 DEF Frames
    <3>2. 1 \in DOMAIN e.calls \/ e.calls = <<>>
      BY DEF Callback
    <3> QED
      BY <3>1, <3>2
  <2>2. m = n
    BY <1>3, <1>6, <2>1
  <2> QED
    BY <1>2, <1>3, <2>2
<1>7. ASSUME NEW x \in Everyone PROVE Fine(net'[x])
  <2>1. n \in Everyone
    BY DEF Everyone
  <2>2. Fine(Then(queues[n], e.send))
    BY <2>1, FineSends
  <2> QED
    BY <1>1, <2>1, <2>2
<1> QED
  BY <1>4, <1>5, <1>6, <1>7 DEF Lone

\* Whenever the simulator waits, nothing is due and nothing unnoticed.
LEMMA SettledRole ==
    ASSUME Control, Lone, Settled, NEW n \in Nodes
    PROVE  /\ Idle /\ Typed(sm[n]) /\ InRole(n, sm[n]) /\ Distinct(sm[n])
           /\ sm[n].due = <<>> /\ Active(sm[n]) = sm[n].armed
           /\ n \in Requesters => Asking(sm[n])
           /\ n \notin Requesters => Helping(sm[n]) /\ ~Unnoticed(sm[n])
<1>1. Typed(sm[n]) /\ InRole(n, sm[n])
  BY DEF Control, Vehicles, Lone
<1>2. Idle /\ sm[n].due = <<>> /\ stack = <<>>
  BY DEF Settled, Idle
<1>3. Active(sm[n]) = sm[n].armed
  BY <1>2 DEF Active
<1>4. n \notin Requesters => ~Unnoticed(sm[n])
  BY <1>2 DEF Lone, Noticing
<1> QED
  BY <1>1, <1>2, <1>3, <1>4 DEF InRole

\* What is known of a vehicle whose timer fires.
LEMMA FiresRole ==
    ASSUME Control, Lone, NEW n \in Nodes, NEW t, Fires(n, t)
    PROVE  /\ Idle /\ Typed(sm[n]) /\ InRole(n, sm[n]) /\ Distinct(sm[n])
           /\ t \in Active(sm[n])
           /\ n \in Requesters => Asking(sm[n])
           /\ n \notin Requesters => Helping(sm[n]) /\ ~Unnoticed(sm[n])
           /\ t \in sm[n].armed => sm[n].due = <<>>
<1>1. Typed(sm[n]) /\ InRole(n, sm[n])
  BY DEF Control, Vehicles, Lone
<1>2. Idle /\ stack = <<>>
  BY DEF Fires, Settled, Idle
<1>3. \/ t \in sm[n].armed /\ sm[n].due = <<>>
      \/ 1 \in DOMAIN sm[n].due /\ sm[n].due[1] = t
  BY <1>1 DEF Fires, Settled, Typed
<1>4. t \in Active(sm[n])
  BY <1>3 DEF Active
<1>5. t \in sm[n].armed => sm[n].due = <<>>
  BY <1>1, <1>3 DEF InRole, Distinct
<1>6. n \notin Requesters => ~Unnoticed(sm[n])
  BY <1>2 DEF Lone, Noticing
<1> QED
  BY <1>1, <1>2, <1>4, <1>5, <1>6 DEF InRole

\* The timers of the two roles.
LEMMA TimerRole ==
    ASSUME Control, Lone, NEW n \in Nodes, NEW t, Fires(n, t)
    PROVE  /\ t \in {"T_CompleteTaskAck", "T_Download", "T_IncompleteTaskAck"} <=> n \notin Requesters
           /\ t \in {"T_CompleteTaskAck", "T_Download"} =>
                 sm[n].due = <<>> /\ t \in sm[n].armed
<1>1. /\ t \in Active(sm[n])
      /\ n \in Requesters => Asking(sm[n])
      /\ n \notin Requesters => Helping(sm[n])
      /\ t \in sm[n].armed => sm[n].due = <<>>
  BY FiresRole
<1>2. CASE n \in Requesters
  BY <1>1, <1>2 DEF Asking
<1>3. CASE n \notin Requesters
  BY <1>1, <1>3 DEF Helping, Active
<1> QED
  BY <1>2, <1>3

LEMMA TimeoutLone ==
    ASSUME Control, Lone, NEW n \in Nodes, NEW t, NEW e, Timeout(n, t, e),
           Typed(e.s), InRole(n, e.s), Callback(n, e.s, e.calls), e.send \in Sends, Fine(e.send)
    PROVE  Lone'
<1>1. Idle /\ Apply(n, e, net)
  BY FiresRole DEF Timeout
<1>2. net \in [Everyone -> Sends] /\ \A x \in Everyone : Fine(net[x])
  BY DEF Control, Network, Lone
<1> QED
  BY <1>1, <1>2, ApplyLone

\* One that sends nothing.
LEMMA TimeoutQuietLone ==
    ASSUME Control, Lone, NEW n \in Nodes, NEW t, NEW u, NEW calls,
           Timeout(n, t, Effect(u, calls, Nothing)),
           Typed(u), InRole(n, u), Callback(n, u, calls)
    PROVE  Lone'
<1>. DEFINE e == Effect(u, calls, Nothing)
<1>1. e.s = u /\ e.calls = calls /\ e.send = Nothing
  BY DEF Effect
<1>2. Nothing \in Sends /\ Fine(Nothing)
  BY SendsType, FineSends
<1>. HIDE DEF e
<1>3. Typed(e.s) /\ InRole(n, e.s) /\ Callback(n, e.s, e.calls) /\ e.send \in Sends /\ Fine(e.send)
  BY <1>1, <1>2
<1>4. Timeout(n, t, e)
  BY DEF e
<1> QED
  BY <1>3, <1>4, TimeoutLone

LEMMA TimeoutResourceRequestLone ==
    ASSUME Control, Lone, NEW n \in Nodes, TimeoutResourceRequest(n)
    PROVE  Lone'
<1>. DEFINE t == "T_ResourceRequest"
            f == Fired(n, t)
            c == [f EXCEPT !.expires = @ + 1]
            u == Schedule(c, t)
            v == CancelTimers(f)
            w == [[v EXCEPT !.RecvMsg = "AugmentationRequest"] EXCEPT !.nodeState = "INITIAL"]
            e == IF AsksAgain(f) THEN StateMachine(u, Nothing) ELSE NewRequest(v)
<1>1. Timeout(n, t, e) /\ Fires(n, t) /\ t \in Timers
  BY DEF TimeoutResourceRequest, Timeout, Timers
<1>2. n \in Requesters
  BY <1>1, TimerRole
<1>3. Typed(sm[n]) /\ Distinct(sm[n]) /\ Asking(sm[n]) /\ t \in Active(sm[n])
  BY <1>1, <1>2, FiresRole
<1>4. /\ Typed(f) /\ Distinct(f) /\ AllBut(sm[n], f, {"armed", "due"})
      /\ f.armed = sm[n].armed \ {t} /\ Active(f) = Active(sm[n]) \ {t}
  BY <1>3, CancelTimes DEF Fired
<1>. HIDE DEF f
<1>5. f.nodeState # "TASKDISTRIBUTION" /\ f.nodeState = sm[n].nodeState
      /\ f.agreed = sm[n].agreed /\ f.hosts = sm[n].hosts
  BY <1>3, <1>4 DEF Asking, AllBut, MemberNames
<1>6. CASE AsksAgain(f)
  <2>1. e = Effect(u, <<u.nodeState>>, Nothing)
    BY <1>6 DEF StateMachine
  <2>2. Typed(c) /\ AllBut(f, c, {"expires"})
    BY <1>4, <1>6 DEF Typed, MemberNames, AsksAgain, AllBut
  <2>. HIDE DEF c
  <2>3. Distinct(c) /\ Active(c) = Active(f)
    BY <1>4, <2>2, SameTimes DEF AllBut, MemberNames
  <2>4. /\ Typed(u) /\ Distinct(u) /\ AllBut(c, u, {"armed", "fatal"})
        /\ u.armed = c.armed \cup {t} /\ Active(u) = Active(c) \cup {t}
    BY <1>1, <1>4, <2>2, <2>3, ScheduleTimes
  <2>. HIDE DEF u
  <2>5. /\ u.nodeState = f.nodeState /\ u.agreed = f.agreed /\ u.hosts = f.hosts
        /\ u.armed = f.armed \cup {t}
    BY <2>2, <2>4 DEF AllBut, MemberNames
  <2>6. Asking(u)
    BY <1>3, <1>4, <1>5, <2>3, <2>4, <2>5 DEF Asking
  <2>7. InRole(n, u) /\ Callback(n, u, <<u.nodeState>>)
    BY <1>2, <2>4, <2>6 DEF InRole, Callback
  <2>8. Timeout(n, t, Effect(u, <<u.nodeState>>, Nothing))
    BY <1>1, <2>1
  <2> QED
    BY <2>4, <2>7, <2>8, TimeoutQuietLone
<1>7. CASE ~AsksAgain(f)
  <2>1. e = Effect(w, <<"INITIAL">>, Nothing)
    BY <1>7 DEF NewRequest, SetState
  <2>2. /\ Typed(v) /\ Distinct(v) /\ AllBut(f, v, {"armed", "due"})
        /\ v.armed = {} /\ Active(v) = {}
    BY <1>3, <1>4, CancelTimersTimes DEF Asking
  <2>. HIDE DEF v
  <2>3. Typed(w) /\ w.nodeState = "INITIAL" /\ AllBut(v, w, {"RecvMsg", "nodeState"})
    BY <2>2 DEF Typed, MemberNames, AllBut, States, Tested
  <2>. HIDE DEF w
  <2>4. Distinct(w) /\ Active(w) = {} /\ w.armed = {} /\ w.agreed = f.agreed /\ w.hosts = f.hosts
    BY <2>2, <2>3, SameTimes DEF AllBut, MemberNames
  <2>5. InRole(n, w) /\ Callback(n, w, <<"INITIAL">>)
    BY <1>2, <1>3, <1>5, <2>3, <2>4 DEF InRole, Asking, Callback
  <2>6. Timeout(n, t, Effect(w, <<"INITIAL">>, Nothing))
    BY <1>1, <2>1
  <2> QED
    BY <2>3, <2>5, <2>6, TimeoutQuietLone
<1> QED
  BY <1>6, <1>7

\* T_TaskDistribution and T_TaskReception: members c, and due again.
LEMMA CountedLone ==
    ASSUME Control, Lone, NEW n \in Nodes, NEW t \in {"T_TaskDistribution", "T_TaskReception"},
           Fires(n, t), NEW c, Typed(c), AllBut(Fired(n, t), c, {"Distribution", "ExpireReception"})
    PROVE  /\ Timeout(n, t, StateMachine(ScheduleNow(c, t), Nothing)) => Lone'
           /\ Timeout(n, t, Stay(c, Nothing)) => Lone'
<1>. DEFINE f == Fired(n, t)
            u == ScheduleNow(c, t)
<1>1. t \in Timers /\ n \in Requesters
  BY TimerRole DEF Timers
<1>2. Typed(sm[n]) /\ Distinct(sm[n]) /\ Asking(sm[n]) /\ t \in Active(sm[n])
  BY <1>1, FiresRole
<1>3. /\ Typed(f) /\ Distinct(f) /\ AllBut(sm[n], f, {"armed", "due"})
      /\ f.armed = sm[n].armed \ {t} /\ Active(f) = Active(sm[n]) \ {t}
  BY <1>2, CancelTimes DEF Fired
<1>. HIDE DEF f
<1>4. AllBut(f, c, {"Distribution", "ExpireReception"})
  BY DEF f
<1>5. /\ Distinct(c) /\ Active(c) = Active(sm[n]) \ {t} /\ c.armed = sm[n].armed \ {t}
      /\ c.nodeState = sm[n].nodeState /\ c.agreed = sm[n].agreed /\ c.hosts = sm[n].hosts
  BY <1>3, <1>4, SameTimes DEF AllBut, MemberNames
<1>6. Asking(c)
  BY <1>2, <1>5 DEF Asking
<1>7. /\ Typed(u) /\ Distinct(u) /\ AllBut(c, u, {"due", "fatal"})
      /\ Active(u) = Active(c) \cup {t}
  BY <1>1, <1>5, ScheduleNowTimes
<1>. HIDE DEF u
<1>8. /\ u.nodeState = sm[n].nodeState /\ u.agreed = sm[n].agreed /\ u.hosts = sm[n].hosts
      /\ u.armed = sm[n].armed \ {t}
  BY <1>5, <1>7 DEF AllBut, MemberNames
<1>9. t = "T_TaskReception" => sm[n].nodeState # "TASKDISTRIBUTION"
  BY <1>2 DEF Asking
<1>10. Asking(u)
  BY <1>2, <1>5, <1>7, <1>8, <1>9 DEF Asking
<1>11. InRole(n, u) /\ Callback(n, u, <<u.nodeState>>) /\ InRole(n, c) /\ Callback(n, c, <<>>)
  BY <1>1, <1>5, <1>6, <1>7, <1>10 DEF InRole, Callback
<1>12. Timeout(n, t, Effect(u, <<u.nodeState>>, Nothing)) => Lone'
  BY <1>7, <1>11, TimeoutQuietLone
<1>13. Timeout(n, t, Effect(c, <<>>, Nothing)) => Lone'
  BY <1>11, TimeoutQuietLone
<1> QED
  BY <1>12, <1>13 DEF u, StateMachine, Stay

LEMMA CountingTimeoutsLone ==
    ASSUME Control, Lone, NEW n \in Nodes, TimeoutTaskDistribution(n) \/ TimeoutTaskReception(n)
    PROVE  Lone'
<1>1. CASE TimeoutTaskDistribution(n)
  <2>. DEFINE t == "T_TaskDistribution"
              f == Fired(n, t)
              c == [f EXCEPT !.Distribution = @ + 1]
              e == IF f.Distribution < 3 THEN StateMachine(ScheduleNow(c, t), Nothing)
                                         ELSE Stay(f, Nothing)
  <2>1. Timeout(n, t, e) /\ Fires(n, t) /\ t \in Timers
    BY <1>1 DEF TimeoutTaskDistribution, Timeout, Timers
  <2>2. Typed(f)
    BY <2>1, FiresVehicle
  <2>. HIDE DEF f
  <2>3. AllBut(f, f, {"Distribution", "ExpireReception"})
    BY DEF AllBut
  <2>4. CASE f.Distribution < 3
    <3>1. f.Distribution + 1 \in Nat /\ f.Distribution + 1 \in Distributions
      BY <2>2, <2>4 DEF Typed, Distributions
    <3>2. Typed(c) /\ AllBut(f, c, {"Distribution", "ExpireReception"})
      BY <2>2, <3>1 DEF Typed, MemberNames, AllBut
    <3>3. Timeout(n, t, StateMachine(ScheduleNow(c, t), Nothing))
      BY <2>1, <2>4
    <3>. HIDE DEF c
    <3> QED
      BY <2>1, <3>2, <3>3, CountedLone DEF f
  <2>5. CASE ~(f.Distribution < 3)
    <3>1. Timeout(n, t, Stay(f, Nothing))
      BY <2>1, <2>5
    <3> QED
      BY <2>1, <2>2, <2>3, <3>1, CountedLone DEF f
  <2> QED
    BY <2>4, <2>5
<1>2. CASE TimeoutTaskReception(n)
  <2>. DEFINE t == "T_TaskReception"
              f == Fired(n, t)
              c == [f EXCEPT !.ExpireReception = @ + 1]
              e == IF f.ExpireReception <= 2 THEN StateMachine(ScheduleNow(c, t), Nothing)
                                             ELSE Stay(f, Nothing)
  <2>1. Timeout(n, t, e) /\ Fires(n, t) /\ t \in Timers
    BY <1>2 DEF TimeoutTaskReception, Timeout, Timers
  <2>2. Typed(f)
    BY <2>1, FiresVehicle
  <2>. HIDE DEF f
  <2>3. AllBut(f, f, {"Distribution", "ExpireReception"})
    BY DEF AllBut
  <2>4. CASE f.ExpireReception <= 2
    <3>1. Typed(c) /\ AllBut(f, c, {"Distribution", "ExpireReception"})
      BY <2>2 DEF Typed, MemberNames, AllBut
    <3>2. Timeout(n, t, StateMachine(ScheduleNow(c, t), Nothing))
      BY <2>1, <2>4
    <3>. HIDE DEF c
    <3> QED
      BY <2>1, <3>1, <3>2, CountedLone DEF f
  <2>5. CASE ~(f.ExpireReception <= 2)
    <3>1. Timeout(n, t, Stay(f, Nothing))
      BY <2>1, <2>5
    <3> QED
      BY <2>1, <2>2, <2>3, <3>1, CountedLone DEF f
  <2> QED
    BY <2>4, <2>5
<1> QED
  BY <1>1, <1>2

LEMMA TimeoutExpireReceptionLone ==
    ASSUME Control, Lone, NEW n \in Nodes, TimeoutExpireReception(n)
    PROVE  Lone'
<1>. DEFINE t == "T_ExpireReception"
            v == CancelTimers(sm[n])
            u == [[v EXCEPT !.RecvMsg = "AugmentationRequest"] EXCEPT !.nodeState = "INITIAL"]
<1>1. Timeout(n, t, Effect(u, <<"INITIAL">>, Nothing)) /\ Fires(n, t)
  BY DEF TimeoutExpireReception, Timeout, NewRequest, SetState
<1>2. n \in Requesters
  BY <1>1, TimerRole
<1>3. Typed(sm[n]) /\ Distinct(sm[n]) /\ Asking(sm[n])
  BY <1>1, <1>2, FiresRole
<1>4. /\ Typed(v) /\ Distinct(v) /\ AllBut(sm[n], v, {"armed", "due"})
      /\ v.armed = {} /\ Active(v) = {}
  BY <1>3, CancelTimersTimes DEF Asking
<1>. HIDE DEF v
<1>5. Typed(u) /\ u.nodeState = "INITIAL" /\ AllBut(v, u, {"RecvMsg", "nodeState"})
  BY <1>4 DEF Typed, MemberNames, AllBut, States, Tested
<1>. HIDE DEF u
<1>6. /\ Distinct(u) /\ Active(u) = {} /\ u.armed = {}
      /\ u.agreed = sm[n].agreed /\ u.hosts = sm[n].hosts
  BY <1>4, <1>5, SameTimes DEF AllBut, MemberNames
<1>7. InRole(n, u) /\ Callback(n, u, <<"INITIAL">>)
  BY <1>2, <1>3, <1>5, <1>6 DEF InRole, Asking, Callback
<1> QED
  BY <1>1, <1>5, <1>7, TimeoutQuietLone

LEMMA FineReport ==
    ASSUME NEW n \in Nodes
    PROVE  /\ Fine(Report(n, "CompleteTask", "ResourceInfoFromCN"))
           /\ Fine(Report(n, "ResourceInfoFromCN", "CompleteTask"))
<1>1. \A type \in {"CompleteTask", "ResourceInfoFromCN"} : type \in Plain /\ type \in MsgTypes
  BY DEF Plain, MsgTypes, Tested
<1> QED
  BY <1>1, SendsType, FineSends DEF Report

LEMMA TimeoutCompleteTaskAckLone ==
    ASSUME Control, Lone, NEW n \in Nodes, TimeoutCompleteTaskAck(n)
    PROVE  Lone'
<1>. DEFINE t == "T_CompleteTaskAck"
            f == Fired(n, t)
            u == [f EXCEPT !.nodeState = "INITIAL"]
            p == Report(n, "CompleteTask", "ResourceInfoFromCN")
<1>1. Timeout(n, t, Effect(u, <<"INITIAL">>, p)) /\ Fires(n, t)
  BY DEF TimeoutCompleteTaskAck, Timeout, SetState
<1>2. n \notin Requesters /\ sm[n].due = <<>> /\ t \in sm[n].armed
  BY <1>1, TimerRole
<1>3. Typed(sm[n]) /\ Distinct(sm[n]) /\ Helping(sm[n])
  BY <1>1, <1>2, FiresRole
<1>4. /\ Typed(f) /\ Distinct(f) /\ AllBut(sm[n], f, {"armed", "due"})
      /\ f.armed = sm[n].armed \ {t} /\ f.due = <<>>
  <2>1. Without(<<>>, t) = <<>>
    BY DEF Without
  <2>2. f.due = <<>>
    BY <1>2, <1>3, <2>1 DEF Fired, Cancel, Typed, MemberNames
  <2> QED
    BY <1>3, <2>2, CancelTimes DEF Fired
<1>. HIDE DEF f
<1>5. Typed(u) /\ u.nodeState = "INITIAL" /\ AllBut(f, u, {"nodeState"})
  BY <1>4 DEF Typed, MemberNames, AllBut, States
<1>. HIDE DEF u
<1>6. /\ Distinct(u) /\ u.armed = sm[n].armed \ {t} /\ u.due = <<>>
      /\ u.RecvMsg = sm[n].RecvMsg
  BY <1>4, <1>5, SameTimes DEF AllBut, MemberNames
<1>7. Helping(u)
  BY <1>3, <1>5, <1>6 DEF Helping
<1>8. InRole(n, u) /\ Callback(n, u, <<"INITIAL">>)
  BY <1>2, <1>5, <1>6, <1>7 DEF InRole, Callback
<1>9. p \in Sends /\ Fine(p)
  BY ReportType, FineReport
<1>. HIDE DEF p
<1> QED
  BY <1>1, <1>5, <1>8, <1>9, TimeoutLone DEF Effect

LEMMA TimeoutIncompleteTaskAckLone ==
    ASSUME Control, Lone, NEW n \in Nodes, TimeoutIncompleteTaskAck(n)
    PROVE  Lone'
<1>. DEFINE t == "T_IncompleteTaskAck"
            v == CancelTimers(sm[n])
            u == [[v EXCEPT !.RecvMsg = "Nothing"] EXCEPT !.nodeState = "INITIAL"]
<1>1. Timeout(n, t, Effect(u, <<"INITIAL">>, Nothing)) /\ Fires(n, t)
  BY DEF TimeoutIncompleteTaskAck, Timeout, SetState
<1>2. n \notin Requesters
  BY <1>1, TimerRole
<1>3. Typed(sm[n]) /\ Distinct(sm[n]) /\ Helping(sm[n])
  BY <1>1, <1>2, FiresRole
<1>4. /\ Typed(v) /\ Distinct(v) /\ AllBut(sm[n], v, {"armed", "due"})
      /\ v.armed = sm[n].armed \cap {"T_Download"} /\ v.due = <<>>
  BY <1>3, CancelTimersTimes
<1>. HIDE DEF v
<1>5. /\ Typed(u) /\ u.nodeState = "INITIAL" /\ u.RecvMsg = "Nothing"
      /\ AllBut(v, u, {"nodeState", "RecvMsg"})
  BY <1>4 DEF Typed, MemberNames, AllBut, States
<1>. HIDE DEF u
<1>6. Distinct(u) /\ u.armed = sm[n].armed \cap {"T_Download"} /\ u.due = <<>>
  BY <1>4, <1>5, SameTimes DEF AllBut, MemberNames
<1>7. Helping(u)
  BY <1>3, <1>5, <1>6 DEF Helping
<1>8. InRole(n, u) /\ Callback(n, u, <<"INITIAL">>)
  BY <1>2, <1>5, <1>6, <1>7 DEF InRole, Callback
<1> QED
  BY <1>1, <1>5, <1>8, TimeoutQuietLone

LEMMA TimeoutDownloadLone ==
    ASSUME Control, Lone, NEW n \in Nodes, TimeoutDownload(n)
    PROVE  Lone'
<1>. DEFINE t == "T_Download"
            f == Fired(n, t)
            u == [f EXCEPT !.FinishFlag = 1]
            p == Report(n, "ResourceInfoFromCN", "CompleteTask")
<1>1. Timeout(n, t, Effect(u, <<u.nodeState>>, p)) /\ Fires(n, t)
  BY DEF TimeoutDownload, Timeout, StateMachine
<1>2. n \notin Requesters /\ sm[n].due = <<>> /\ t \in sm[n].armed
  BY <1>1, TimerRole
<1>3. Typed(sm[n]) /\ Distinct(sm[n]) /\ Helping(sm[n]) /\ ~Unnoticed(sm[n])
  BY <1>1, <1>2, FiresRole
<1>4. /\ Typed(f) /\ Distinct(f) /\ AllBut(sm[n], f, {"armed", "due"})
      /\ f.armed = sm[n].armed \ {t} /\ f.due = <<>>
  <2>1. Without(<<>>, t) = <<>>
    BY DEF Without
  <2>2. f.due = <<>>
    BY <1>2, <1>3, <2>1 DEF Fired, Cancel, Typed, MemberNames
  <2> QED
    BY <1>3, <2>2, CancelTimes DEF Fired
<1>. HIDE DEF f
<1>5. Typed(u) /\ u.FinishFlag = 1 /\ AllBut(f, u, {"FinishFlag"})
  BY <1>4 DEF Typed, MemberNames, AllBut
<1>. HIDE DEF u
<1>6. /\ Distinct(u) /\ u.armed = sm[n].armed \ {t} /\ u.due = <<>>
      /\ u.RecvMsg = sm[n].RecvMsg /\ u.nodeState = sm[n].nodeState /\ u.agreed = sm[n].agreed
      /\ u.IntersectionFlag = sm[n].IntersectionFlag
  BY <1>4, <1>5, SameTimes DEF AllBut, MemberNames
<1>7. sm[n].nodeState = "COLLABORATION" => sm[n].IntersectionFlag = 0 /\ sm[n].armed \ {t} = {}
  BY <1>2, <1>3 DEF Helping, Unnoticed, Typed
<1>8. Helping(u)
  BY <1>2, <1>3, <1>6, <1>7 DEF Helping
<1>9. InRole(n, u) /\ Callback(n, u, <<u.nodeState>>)
  BY <1>2, <1>6, <1>8 DEF InRole, Callback
<1>10. p \in Sends /\ Fine(p)
  BY ReportType, FineReport
<1>. HIDE DEF p
<1> QED
  BY <1>1, <1>5, <1>9, <1>10, TimeoutLone DEF Effect

\* The packets that are left when n has taken one from src.
LEMMA TakenFine ==
    ASSUME Control, Lone, NEW src \in Everyone, NEW n \in Everyone, net[src][n] # <<>>
    PROVE  /\ Expected(Head(net[src][n]), n)
           /\ Taken(src, n) \in [Everyone -> Sends]
           /\ \A x \in Everyone : Fine(Taken(src, n)[x])
<1>. DEFINE q == net[src][n]
<1>1. /\ net \in [Everyone -> Sends] /\ q \in Seq(Packets) /\ q # <<>>
      /\ Taken(src, n) \in [Everyone -> Sends]
  BY TakenType DEF Control, Network, Sends
<1>2. \A x \in Everyone : \A y \in Everyone : \A i \in DOMAIN net[x][y] : Expected(net[x][y][i], y)
  BY DEF Lone, Fine
<1>3. \A i \in DOMAIN q : Expected(q[i], n)
  BY <1>2
<1>4. /\ Head(q) = q[1] /\ 1 \in DOMAIN q
      /\ \A i \in DOMAIN Tail(q) : i + 1 \in DOMAIN q /\ Tail(q)[i] = q[i + 1]
  <2>. HIDE DEF q
  <2> QED
    BY <1>1
<1>5. \A i \in DOMAIN Tail(q) : Expected(Tail(q)[i], n)
  BY <1>3, <1>4
<1>6. ASSUME NEW x \in Everyone, NEW y \in Everyone
      PROVE  Taken(src, n)[x][y] = IF x = src /\ y = n THEN Tail(q) ELSE net[x][y]
  BY <1>1 DEF Taken, Sends
<1>. HIDE DEF q
<1>7. ASSUME NEW x \in Everyone, NEW y \in Everyone, NEW i \in DOMAIN Taken(src, n)[x][y]
      PROVE  Expected(Taken(src, n)[x][y][i], y)
  BY <1>2, <1>5, <1>6
<1>8. \A x \in Everyone : Fine(Taken(src, n)[x])
  BY <1>7 DEF Fine
<1> QED
  BY <1>1, <1>3, <1>4, <1>8 DEF q

LEMMA RecvLone ==
    ASSUME Control, Lone, NEW src \in Everyone, NEW n \in Nodes, NEW type, NEW e,
           Recv(src, n, type, e),
           Typed(e.s), InRole(n, e.s), Callback(n, e.s, e.calls), e.send \in Sends, Fine(e.send)
    PROVE  Lone'
<1>1. Idle /\ Apply(n, e, Taken(src, n)) /\ net[src][n] # <<>> /\ n \in Everyone
  BY DEF Recv, Arrives, Settled, Everyone
<1>2. Taken(src, n) \in [Everyone -> Sends] /\ \A x \in Everyone : Fine(Taken(src, n)[x])
  BY <1>1, TakenFine
<1> QED
  BY <1>1, <1>2, ApplyLone

\* One that is answered with nothing.
LEMMA RecvQuietLone ==
    ASSUME Control, Lone, NEW src \in Everyone, NEW n \in Nodes, NEW type, NEW u, NEW calls,
           Recv(src, n, type, Effect(u, calls, Nothing)),
           Typed(u), InRole(n, u), Callback(n, u, calls)
    PROVE  Lone'
<1>. DEFINE e == Effect(u, calls, Nothing)
<1>1. e.s = u /\ e.calls = calls /\ e.send = Nothing
  BY DEF Effect
<1>2. Nothing \in Sends /\ Fine(Nothing)
  BY SendsType, FineSends
<1>. HIDE DEF e
<1>3. Typed(e.s) /\ InRole(n, e.s) /\ Callback(n, e.s, e.calls) /\ e.send \in Sends /\ Fine(e.send)
  BY <1>1, <1>2
<1>4. Recv(src, n, type, e)
  BY DEF e
<1> QED
  BY <1>3, <1>4, RecvLone

\* What arrives is expected.
LEMMA RecvExpected ==
    ASSUME Control, Lone, NEW src \in Everyone, NEW n \in Nodes, NEW type, NEW e,
           Recv(src, n, type, e)
    PROVE  /\ Settled /\ type # "CloudRelease"
           /\ type = "SendTaskToCN" => n \notin Requesters
           /\ type = "CloudResourceInfo" => Head(net[src][n]).hosts \in HostTables
<1>1. Settled /\ net[src][n] # <<>> /\ Head(net[src][n]).type = type /\ n \in Everyone
  BY DEF Recv, Arrives, Everyone
<1>2. Expected(Head(net[src][n]), n)
  BY <1>1, TakenFine
<1> QED
  BY <1>1, <1>2 DEF Expected

\* A packet that is noted leaves the role.
LEMMA NotesInRole ==
    ASSUME Control, Lone, Settled, NEW n \in Nodes, NEW u,
           AllBut(sm[n], u, {"RecvMsg", "responseIp", "CompleteTaskCounter"}),
           u.RecvMsg \notin {"CloudRelease", "AugmentationRequest"}
    PROVE  InRole(n, u) /\ Callback(n, u, <<u.nodeState>>) /\ Callback(n, u, <<>>)
<1>. DEFINE s == sm[n]
<1>1. /\ Distinct(s) /\ s.due = <<>>
      /\ n \in Requesters => Asking(s)
      /\ n \notin Requesters => Helping(s) /\ ~Unnoticed(s)
  BY SettledRole
<1>2. /\ u.nodeState = s.nodeState /\ u.agreed = s.agreed /\ u.hosts = s.hosts
      /\ u.armed = s.armed /\ u.due = s.due /\ u.FinishFlag = s.FinishFlag
      /\ u.IntersectionFlag = s.IntersectionFlag
  BY DEF AllBut, MemberNames
<1>3. Distinct(u) /\ Active(u) = Active(s)
  BY <1>1, SameTimes DEF AllBut, MemberNames
<1>. HIDE DEF s
<1>4. CASE n \in Requesters
  BY <1>1, <1>2, <1>3, <1>4 DEF InRole, Asking, Callback
<1>5. CASE n \notin Requesters
  BY <1>1, <1>2, <1>3, <1>5 DEF InRole, Helping, Callback, Unnoticed
<1> QED
  BY <1>4, <1>5

LEMMA RecvCloudResourceInfoLone ==
    ASSUME Distributed, Control, Lone,
           NEW src \in Everyone, NEW n \in Nodes, RecvCloudResourceInfo(src, n)
    PROVE  Lone'
<1>. DEFINE info == Head(net[src][n]).hosts
            t == "T_TaskDistribution"
            note == [sm[n] EXCEPT !.RecvMsg = "CloudResourceInfo"]
            c == Cancel(note, "T_ResourceRequest")
            s == [c EXCEPT !.hosts = info]
            v == ScheduleNow(s, t)
            u == [Distributing(v) EXCEPT !.nodeState = "TASKDISTRIBUTION"]
            e == Effect(u, <<"TASKDISTRIBUTION">>, Nothing)
            w == SetState([s EXCEPT !.insufficient = TRUE, !.RecvMsg = "Nothing"], "INITIAL",
                          Then(All("CloudRelease", n), All("InsufficientResources", n)))
<1>1. /\ Recv(src, n, "CloudResourceInfo", IF info # {} THEN e ELSE w)
      /\ Settled /\ net[src][n] # <<>> /\ sm[n].nodeState = "RESOURCEREQUEST"
  <2>1. Noting(n, "CloudResourceInfo") = note
    BY DEF Noting, Noted, Tested
  <2> QED
    BY <2>1 DEF RecvCloudResourceInfo, Arrives, SetState
<1>2. info \in HostTables
  BY <1>1, RecvExpected
<1>3. Recv(src, n, "CloudResourceInfo", e)
  BY <1>1, <1>2 DEF Distributed
<1>4. info \in SUBSET Nodes
  BY <1>1, TakenType DEF Packets, Everyone
<1>5. /\ Typed(sm[n]) /\ Distinct(sm[n]) /\ sm[n].due = <<>>
      /\ Active(sm[n]) = sm[n].armed
      /\ n \in Requesters => Asking(sm[n])
      /\ n \notin Requesters => Helping(sm[n])
  BY <1>1, SettledRole
<1>6. n \in Requesters /\ Asking(sm[n])
  BY <1>1, <1>5 DEF Helping
<1>7. Typed(note) /\ AllBut(sm[n], note, {"RecvMsg"})
  BY <1>5 DEF Typed, MemberNames, AllBut, Tested
<1>. HIDE DEF note, info
<1>8. Distinct(note) /\ Active(note) = sm[n].armed
  BY <1>5, <1>7, SameTimes DEF AllBut, MemberNames
<1>9. /\ Typed(c) /\ Distinct(c) /\ AllBut(note, c, {"armed", "due"})
      /\ c.armed = note.armed \ {"T_ResourceRequest"}
      /\ Active(c) = Active(note) \ {"T_ResourceRequest"}
  BY <1>7, <1>8, CancelTimes
<1>. HIDE DEF c
<1>10. Typed(s) /\ s.hosts = info /\ AllBut(c, s, {"hosts"})
  BY <1>4, <1>9 DEF Typed, MemberNames, AllBut
<1>. HIDE DEF s
<1>11. Distinct(s) /\ Active(s) = sm[n].armed \ {"T_ResourceRequest"}
  BY <1>8, <1>9, <1>10, SameTimes DEF AllBut, MemberNames
<1>12. s.armed = sm[n].armed \ {"T_ResourceRequest"} /\ s.agreed = sm[n].agreed
  BY <1>7, <1>9, <1>10 DEF AllBut, MemberNames
<1>13. t \notin Active(s)
  BY <1>6, <1>11 DEF Asking
<1>14. /\ Typed(v) /\ Distinct(v) /\ AllBut(s, v, {"due", "fatal"})
       /\ Active(v) = Active(s) \cup {t}
  BY <1>10, <1>11, <1>13, ScheduleNowTimes DEF Timers
<1>. HIDE DEF v
<1>15. /\ Typed(u) /\ u.nodeState = "TASKDISTRIBUTION"
       /\ AllBut(v, u, {"nodeState", "insufficient", "DistributionFlag"})
  BY <1>14 DEF Typed, MemberNames, AllBut, Distributing, States
<1>. HIDE DEF u
<1>16. /\ Distinct(u) /\ Active(u) = (sm[n].armed \ {"T_ResourceRequest"}) \cup {t}
       /\ u.armed = sm[n].armed \ {"T_ResourceRequest"}
       /\ u.hosts = info /\ u.agreed = sm[n].agreed
  BY <1>10, <1>11, <1>12, <1>14, <1>15, SameTimes DEF AllBut, MemberNames
<1>17. Asking(u)
  BY <1>2, <1>6, <1>15, <1>16 DEF Asking
<1>18. InRole(n, u) /\ Callback(n, u, <<"TASKDISTRIBUTION">>)
  BY <1>6, <1>15, <1>16, <1>17 DEF InRole, Callback
<1> QED
  BY <1>3, <1>15, <1>18, RecvQuietLone

LEMMA AcceptTaskLone ==
    ASSUME Control, Lone, NEW src \in Everyone, NEW n \in Nodes, AcceptTask(src, n)
    PROVE  Lone'
<1>. DEFINE c == [Noting(n, "SendTaskToCN") EXCEPT !.responseIp = src, !.agreed = TRUE]
            u == Rearm(c, "T_Download")
<1>1. /\ Recv(src, n, "SendTaskToCN", Effect(u, <<u.nodeState>>, Nothing))
      /\ Settled /\ sm[n].nodeState = "INITIAL"
  BY DEF AcceptTask, Recv, Arrives, StateMachine
<1>2. n \notin Requesters
  BY <1>1, RecvExpected
<1>3. Typed(sm[n]) /\ Distinct(sm[n]) /\ Helping(sm[n]) /\ sm[n].due = <<>>
  BY <1>1, <1>2, SettledRole
<1>4. /\ Typed(c) /\ c.RecvMsg = "SendTaskToCN" /\ AllBut(sm[n], c, {"RecvMsg", "responseIp", "agreed"})
  BY <1>3 DEF Typed, MemberNames, Noting, Noted, Tested, AllBut
<1>. HIDE DEF c
<1>5. Distinct(c)
  BY <1>3, <1>4, SameTimes DEF AllBut, MemberNames
<1>6. /\ Typed(u) /\ Distinct(u) /\ AllBut(c, u, {"armed", "due", "fatal"})
      /\ u.armed = c.armed \cup {"T_Download"}
  BY <1>4, <1>5, RearmTimes DEF Timers
<1>7. u.due = <<>>
  <2>1. Without(<<>>, "T_Download") = <<>>
    BY DEF Without
  <2>2. c.due = <<>>
    BY <1>3, <1>4 DEF AllBut, MemberNames
  <2> QED
    BY <1>4, <2>1, <2>2 DEF Rearm, Schedule, Cancel, Typed, MemberNames
<1>. HIDE DEF u
<1>8. /\ u.nodeState = "INITIAL" /\ u.RecvMsg = "SendTaskToCN"
      /\ u.armed = sm[n].armed \cup {"T_Download"}
  BY <1>1, <1>4, <1>6 DEF AllBut, MemberNames
<1>9. Helping(u)
  BY <1>1, <1>3, <1>7, <1>8 DEF Helping
<1>10. InRole(n, u) /\ Callback(n, u, <<u.nodeState>>)
  BY <1>2, <1>6, <1>7, <1>9 DEF InRole, Callback
<1> QED
  BY <1>1, <1>6, <1>10, RecvQuietLone

LEMMA RefuseTaskLone ==
    ASSUME Control, Lone, NEW src \in Everyone, NEW n \in Nodes, RefuseTask(src, n)
    PROVE  Lone'
<1>. DEFINE u == [Noting(n, "SendTaskToCN") EXCEPT !.responseIp = src]
            p == One("NotAcceptedTaskFromCN", src)
<1>1. Recv(src, n, "SendTaskToCN", Effect(u, <<>>, p)) /\ Settled
  BY DEF RefuseTask, Recv, Arrives, Stay
<1>2. Typed(sm[n])
  BY <1>1, SettledVehicle
<1>3. /\ Typed(u) /\ u.RecvMsg = "SendTaskToCN"
      /\ AllBut(sm[n], u, {"RecvMsg", "responseIp", "CompleteTaskCounter"})
  BY <1>2 DEF Typed, MemberNames, AllBut, Noting, Noted, Tested
<1>4. p \in Sends /\ Fine(p)
  BY SendsType, FineSends DEF MsgTypes, Plain
<1>. HIDE DEF u, p
<1>5. InRole(n, u) /\ Callback(n, u, <<>>)
  BY <1>1, <1>3, NotesInRole
<1> QED
  BY <1>1, <1>3, <1>4, <1>5, RecvLone DEF Effect

LEMMA RecvCompleteTaskAckLone ==
    ASSUME Control, Lone, NEW src \in Everyone, NEW n \in Nodes, RecvCompleteTaskAck(src, n)
    PROVE  Lone'
<1>. DEFINE v == CancelTimers(sm[n])
            c == Cancel(v, "T_Download")
            u == [[c EXCEPT !.RecvMsg = "Nothing", !.FinishFlag = 0] EXCEPT !.nodeState = "INITIAL"]
<1>1. Recv(src, n, "CompleteTaskAck", Effect(u, <<"INITIAL">>, Nothing)) /\ Settled
  BY DEF RecvCompleteTaskAck, Recv, Arrives, SetState
<1>2. /\ Typed(sm[n]) /\ Distinct(sm[n])
      /\ n \in Requesters => Asking(sm[n])
      /\ n \notin Requesters => Helping(sm[n])
  BY <1>1, SettledRole
<1>3. /\ Typed(v) /\ Distinct(v) /\ AllBut(sm[n], v, {"armed", "due"})
      /\ v.armed = sm[n].armed \cap {"T_Download"} /\ v.due = <<>>
  BY <1>2, CancelTimersTimes
<1>. HIDE DEF v
<1>4. /\ Typed(c) /\ Distinct(c) /\ AllBut(v, c, {"armed", "due"})
      /\ c.armed = {} /\ c.due = <<>>
  <2>1. /\ Typed(c) /\ Distinct(c) /\ AllBut(v, c, {"armed", "due"})
        /\ c.armed = v.armed \ {"T_Download"}
    BY <1>3, CancelTimes
  <2>2. Without(<<>>, "T_Download") = <<>>
    BY DEF Without
  <2>3. c.due = <<>>
    BY <1>3, <2>2 DEF Cancel, Typed, MemberNames
  <2> QED
    BY <1>3, <2>1, <2>3
<1>. HIDE DEF c
<1>5. /\ Typed(u) /\ u.nodeState = "INITIAL" /\ u.RecvMsg = "Nothing"
      /\ AllBut(c, u, {"RecvMsg", "FinishFlag", "nodeState"})
  BY <1>4 DEF Typed, MemberNames, AllBut, States
<1>. HIDE DEF u
<1>6. /\ Distinct(u) /\ u.armed = {} /\ u.due = <<>> /\ Active(u) = {}
      /\ u.agreed = sm[n].agreed /\ u.hosts = sm[n].hosts
  BY <1>3, <1>4, <1>5, SameTimes DEF AllBut, MemberNames, Active
<1>7. InRole(n, u)
  BY <1>2, <1>5, <1>6 DEF InRole, Asking, Helping
<1>8. Callback(n, u, <<"INITIAL">>)
  BY <1>5, <1>6 DEF Callback
<1> QED
  BY <1>1, <1>5, <1>7, <1>8, RecvQuietLone

LEMMA CallingPacketsLone ==
    ASSUME Control, Lone, NEW src \in Everyone, NEW n \in Nodes,
           \/ RecvCompleteTask(src, n) \/ RecvIncompleteTask(src, n) \/ RecvNotAccepted(src, n)
    PROVE  Lone'
<1>. SUFFICES ASSUME NEW type \in {"CompleteTask", "IncompleteTask", "NotAcceptedTaskFromCN"},
                     NEW u, \/ u = Noting(n, type)
                            \/ u = [Noting(n, type) EXCEPT !.responseIp = src],
                     Recv(src, n, type, Effect(u, <<u.nodeState>>, Nothing))
              PROVE  Lone'
  BY DEF RecvCompleteTask, RecvIncompleteTask, RecvNotAccepted, StateMachine
<1>1. Settled
  BY DEF Recv, Arrives
<1>2. Typed(sm[n])
  BY <1>1, SettledVehicle
<1>3. /\ Typed(u) /\ u.RecvMsg \notin {"CloudRelease", "AugmentationRequest"}
      /\ AllBut(sm[n], u, {"RecvMsg", "responseIp", "CompleteTaskCounter"})
  <2>1. Noted(type) \in {"CompleteTask", "Nothing"}
    BY DEF Noted, Tested
  <2> QED
    BY <1>2, <2>1 DEF Typed, MemberNames, AllBut, Noting, Tested
<1>4. InRole(n, u) /\ Callback(n, u, <<u.nodeState>>)
  BY <1>1, <1>3, NotesInRole
<1> QED
  BY <1>3, <1>4, RecvQuietLone

LEMMA RecvResourceInfoFromCNLone ==
    ASSUME Control, Lone, NEW src \in Everyone, NEW n \in Nodes, RecvResourceInfoFromCN(src, n)
    PROVE  Lone'
<1>. DEFINE note == Noting(n, "ResourceInfoFromCN")
            s == [note EXCEPT !.CompleteTaskCounter = Bump(@)]
            u == [s EXCEPT !.responseIp = src]
            p == One("CompleteTaskAck", src)
            e == IF s.nodeState = "TASKRECEPTION" THEN Effect(u, <<u.nodeState>>, p)
                                                  ELSE Effect(s, <<>>, Nothing)
<1>1. Recv(src, n, "ResourceInfoFromCN", e) /\ Settled
  BY DEF RecvResourceInfoFromCN, Recv, Arrives, StateMachine, Stay
<1>2. Typed(sm[n])
  BY <1>1, SettledVehicle
<1>3. /\ Typed(s) /\ s.RecvMsg = "Nothing"
      /\ AllBut(sm[n], s, {"RecvMsg", "responseIp", "CompleteTaskCounter"})
  <2>1. /\ Typed(note) /\ note.RecvMsg = "Nothing"
        /\ AllBut(sm[n], note, {"RecvMsg"})
    BY <1>2 DEF Typed, MemberNames, AllBut, Noting, Noted, Tested
  <2>. HIDE DEF note
  <2> QED
    BY <2>1 DEF Typed, MemberNames, AllBut, Bump
<1>. HIDE DEF s
<1>4. /\ Typed(u) /\ u.RecvMsg = "Nothing"
      /\ AllBut(sm[n], u, {"RecvMsg", "responseIp", "CompleteTaskCounter"})
  BY <1>3 DEF Typed, MemberNames, AllBut
<1>5. p \in Sends /\ Fine(p)
  BY SendsType, FineSends DEF MsgTypes, Plain
<1>. HIDE DEF u, p
<1>6. InRole(n, u) /\ Callback(n, u, <<u.nodeState>>) /\ InRole(n, s) /\ Callback(n, s, <<>>)
  BY <1>1, <1>3, <1>4, NotesInRole
<1>7. CASE s.nodeState = "TASKRECEPTION"
  <2>1. Recv(src, n, "ResourceInfoFromCN", Effect(u, <<u.nodeState>>, p))
    BY <1>1, <1>7
  <2> QED
    BY <1>4, <1>5, <1>6, <2>1, RecvLone DEF Effect
<1>8. CASE s.nodeState # "TASKRECEPTION"
  <2>1. Recv(src, n, "ResourceInfoFromCN", Effect(s, <<>>, Nothing))
    BY <1>1, <1>8
  <2> QED
    BY <1>3, <1>6, <2>1, RecvQuietLone
<1> QED
  BY <1>7, <1>8

LEMMA RecvNotedLone ==
    ASSUME Control, Lone, NEW src \in Everyone, NEW n \in Nodes, RecvNoted(src, n)
    PROVE  Lone'
<1>1. PICK type \in {"ResourceRequest", "CloudRelease", "InsufficientResources", "CloudResourceInfo"} :
          Recv(src, n, type, Effect(Noting(n, type), <<>>, Nothing))
  BY DEF RecvNoted, Stay
<1>2. Settled /\ type # "CloudRelease"
  BY <1>1, RecvExpected
<1>. DEFINE u == Noting(n, type)
<1>3. Typed(sm[n])
  BY <1>2, SettledVehicle
<1>4. /\ Typed(u) /\ u.RecvMsg \notin {"CloudRelease", "AugmentationRequest"}
      /\ AllBut(sm[n], u, {"RecvMsg", "responseIp", "CompleteTaskCounter"})
  BY <1>2, <1>3 DEF Typed, MemberNames, AllBut, Noting, Noted, Tested
<1>. HIDE DEF u
<1>5. InRole(n, u) /\ Callback(n, u, <<>>)
  BY <1>2, <1>4, NotesInRole
<1>6. Recv(src, n, type, Effect(u, <<>>, Nothing))
  BY <1>1 DEF u
<1> QED
  BY <1>4, <1>5, <1>6, RecvQuietLone

-----------------------------------------------------------------------------
(* No timer runs twice: the moves, the leaders and the radio.              *)

LEMMA MoveLone ==
    ASSUME Control, Lone, NEW n \in Nodes, NEW flag \in {0, 1}, NEW calls, Move(n, flag, calls),
           \/ calls = <<sm[n].nodeState>>
           \/ /\ n \in Requesters
              /\ \/ calls = <<"SendAugmentationRequest">>
                 \/ calls = <<sm[n].nodeState, "SendAugmentationRequest">>
    PROVE  Lone'
<1>. DEFINE u == [sm[n] EXCEPT !.IntersectionFlag = flag]
            e == Effect(u, calls, Nothing)
<1>1. Settled /\ Idle /\ Apply(n, e, net)
  BY DEF Move, Settled
<1>2. /\ Typed(sm[n]) /\ Distinct(sm[n]) /\ sm[n].due = <<>>
      /\ n \in Requesters => Asking(sm[n])
      /\ n \notin Requesters => Helping(sm[n]) /\ ~Unnoticed(sm[n])
  BY <1>1, SettledRole
<1>3. Typed(u) /\ AllBut(sm[n], u, {"IntersectionFlag"})
  BY <1>2 DEF Typed, MemberNames, AllBut
<1>. HIDE DEF u
<1>4. /\ Distinct(u) /\ Active(u) = Active(sm[n])
      /\ u.nodeState = sm[n].nodeState /\ u.agreed = sm[n].agreed /\ u.hosts = sm[n].hosts
      /\ u.RecvMsg = sm[n].RecvMsg /\ u.FinishFlag = sm[n].FinishFlag
      /\ u.armed = sm[n].armed /\ u.due = sm[n].due
  BY <1>2, <1>3, SameTimes DEF AllBut, MemberNames
<1>5. CASE n \in Requesters
  <2>1. InRole(n, u) /\ Callback(n, u, calls)
    BY <1>2, <1>4, <1>5 DEF InRole, Asking, Callback
  <2> QED
    BY <1>1, <1>3, <2>1, ApplyLone, SendsType, FineSends DEF Effect, Control, Network, Lone
<1>6. CASE n \notin Requesters
  <2>1. u.nodeState = "COLLABORATION" => u.FinishFlag # 1
    BY <1>2, <1>4, <1>6 DEF Unnoticed
  <2>2. InRole(n, u) /\ Callback(n, u, calls)
    BY <1>2, <1>4, <1>6, <2>1 DEF InRole, Helping, Callback
  <2> QED
    BY <1>1, <1>3, <2>2, ApplyLone, SendsType, FineSends DEF Effect, Control, Network, Lone
<1> QED
  BY <1>5, <1>6

LEMMA MovesLone ==
    ASSUME Control, Lone, NEW n \in Nodes,
           EnterIntersection(n) \/ LeaveIntersection(n) \/ EnterDebugRegion(n)
    PROVE  Lone'
BY MoveLone DEF EnterIntersection, LeaveIntersection, EnterDebugRegion

\* A step of the network alone.
LEMMA NetLone ==
    ASSUME Lone, \A x \in Everyone : Fine(net'[x]), UNCHANGED <<sm, stack>>
    PROVE  Lone'
BY DEF Lone

LEMMA RecvResourceRequestLone ==
    ASSUME Control, Lone, NEW src \in Nodes, NEW l \in Leaders, RecvResourceRequest(src, l)
    PROVE  Lone'
<1>1. PICK hosts \in HostTables :
          net' = [Taken(src, l) EXCEPT ![l] = Then(@, Send("CloudResourceInfo", hosts, Nodes))]
  BY DEF RecvResourceRequest
<1>2. /\ src \in Everyone /\ l \in Everyone /\ hosts \in SUBSET Nodes /\ net[src][l] # <<>>
      /\ UNCHANGED <<sm, stack>>
  BY ScmaConstants DEF Everyone, RecvResourceRequest, Arrives
<1>3. Taken(src, l) \in [Everyone -> Sends] /\ \A x \in Everyone : Fine(Taken(src, l)[x])
  BY <1>2, TakenFine
<1>. DEFINE p == Send("CloudResourceInfo", hosts, Nodes)
<1>4. p \in Sends /\ Fine(p)
  <2>1. p \in Sends
    BY <1>2, SendType DEF MsgTypes, Tested
  <2>2. \A y \in Nodes : Expected(Message("CloudResourceInfo", hosts), y)
    BY DEF Expected, Message
  <2> QED
    BY <2>1, <2>2, FineSend
<1>. HIDE DEF p
<1>5. Fine(Then(Taken(src, l)[l], p))
  BY <1>2, <1>3, <1>4, FineSends
<1>6. net' = [Taken(src, l) EXCEPT ![l] = Then(Taken(src, l)[l], p)]
  BY <1>1 DEF p
<1>7. \A x \in Everyone : Fine(net'[x])
  BY <1>2, <1>3, <1>5, <1>6
<1> QED
  BY <1>2, <1>7, NetLone

LEMMA LoseLone ==
    ASSUME Control, Lone, NEW src \in Everyone, NEW n \in Everyone, Lose(src, n)
    PROVE  Lone'
<1>1. net[src][n] # <<>> /\ net' = Taken(src, n) /\ UNCHANGED <<sm, stack>>
  BY DEF Lose
<1>2. \A x \in Everyone : Fine(net'[x])
  BY <1>1, TakenFine
<1> QED
  BY <1>1, <1>2, NetLone

LEMMA InitLone == Init => Lone
<1>. SUFFICES ASSUME Init PROVE Lone
  OBVIOUS
<1>1. ASSUME NEW n \in Nodes
      PROVE  /\ sm[n].nodeState = "INITIAL" /\ sm[n].RecvMsg = "Nothing"
             /\ sm[n].agreed = FALSE /\ sm[n].hosts = {} /\ sm[n].fatal = FALSE
             /\ sm[n].armed = {} /\ sm[n].due = <<>>
  BY DEF Init
<1>2. stack = <<>>
  BY DEF Init
<1>3. \A x \in Everyone : Fine(net[x])
  BY FineSends DEF Init
<1>4. ASSUME NEW n \in Nodes PROVE InRole(n, sm[n]) /\ ~Unnoticed(sm[n])
  <2>. DEFINE s == sm[n]
  <2>1. /\ s.nodeState = "INITIAL" /\ s.RecvMsg = "Nothing"
        /\ s.agreed = FALSE /\ s.hosts = {} /\ s.fatal = FALSE
        /\ s.armed = {} /\ s.due = <<>>
    BY <1>1
  <2>. HIDE DEF s
  <2>2. Distinct(s) /\ Active(s) = {}
    BY <2>1 DEF Distinct, Active
  <2>3. Asking(s) /\ Helping(s) /\ ~Unnoticed(s)
    BY <2>1, <2>2 DEF Asking, Helping, Unnoticed
  <2> QED
    BY <2>2, <2>3 DEF InRole, s
<1>5. \A n \in Nodes \ Requesters : Noticing(stack, n, sm[n])
  BY <1>4 DEF Noticing
<1>6. \A n \in Nodes : \A k \in DOMAIN stack : stack[1].node = n => Suits(n, stack[k], sm[n])
  BY <1>2
<1> QED
  BY <1>3, <1>4, <1>5, <1>6 DEF Lone

LEMMA NextLone ==
    ASSUME Distributed
    PROVE  Control /\ Lone /\ [Next]_vars => Lone'
<1>. SUFFICES ASSUME Control, Lone, [Next]_vars PROVE Lone'
  OBVIOUS
<1>1. ASSUME NEW n \in Nodes, NEW fn \in Functions, NEW i \in 1 .. 5, Execute(n, fn, i)
      PROVE  Lone'
  BY <1>1, ExecuteLone
<1>2. CASE Return
  BY <1>2, ReturnLone
<1>3. ASSUME NEW n \in Nodes, TimerStep(n) PROVE Lone'
  BY <1>3, TimeoutResourceRequestLone, CountingTimeoutsLone, TimeoutCompleteTaskAckLone,
     TimeoutExpireReceptionLone, TimeoutIncompleteTaskAckLone, TimeoutDownloadLone
     DEF TimerStep
<1>4. ASSUME NEW n \in Nodes, EnterIntersection(n) \/ LeaveIntersection(n) \/ EnterDebugRegion(n)
      PROVE  Lone'
  BY <1>4, MovesLone
<1>5. ASSUME NEW src \in Everyone, NEW n \in Nodes, RecvPkt(src, n) PROVE Lone'
  BY <1>5, RecvCloudResourceInfoLone, AcceptTaskLone, RefuseTaskLone,
     RecvCompleteTaskAckLone, CallingPacketsLone, RecvResourceInfoFromCNLone,
     RecvNotedLone DEF RecvPkt
<1>6. ASSUME NEW src \in Nodes, NEW l \in Leaders, RecvResourceRequest(src, l) PROVE Lone'
  BY <1>6, RecvResourceRequestLone
<1>7. ASSUME NEW src \in Everyone, NEW n \in Everyone, Lose(src, n) PROVE Lone'
  BY <1>7, LoseLone
<1>8. CASE UNCHANGED vars
  <2>1. UNCHANGED <<sm, stack>> /\ net' = net
    BY <1>8 DEF vars
  <2>2. \A x \in Everyone : Fine(net'[x])
    BY <2>1 DEF Lone
  <2> QED
    BY <2>1, <2>2, NetLone
<1> QED
  BY <1>1, <1>2, <1>3, <1>4, <1>5, <1>6, <1>7, <1>8 DEF Next

\* No timer is scheduled while it runs, which ns-3 answers with NS_FATAL_ERROR, if no
\* leader answers with an empty table of hosts and no table names a requester when there
\* is another.  Both are needed: ScmaFatal shows the abort after an empty table, and a
\* requester that is another's host, and leaves its collaboration to ask for hosts again,
\* takes a new task while its T_CompleteTaskAck still runs.
THEOREM NoTimerRunsTwice ==
    ASSUME {} \notin HostTables,
           \A hosts \in HostTables : \A x \in hosts \cap Requesters : Requesters = {x}
    PROVE  Spec => []NeverFatal
<1>1. Distributed
  BY DEF Distributed
<1>2. Init => Control /\ Lone
  BY InitControl, InitLone
<1>3. Control /\ Lone /\ [Next]_vars => Control' /\ Lone'
  BY <1>1, NextControl, NextLone
<1>4. Lone => NeverFatal
  BY DEF Lone, InRole, Distinct, NeverFatal, Alive
<1> QED
  BY <1>2, <1>3, <1>4, PTL DEF Spec
=============================================================================
