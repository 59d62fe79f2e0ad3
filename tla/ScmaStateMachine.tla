-------------------------- MODULE ScmaStateMachine --------------------------
(***************************************************************************)
(* The augmentation state machine of src/src/scma-statemachine, one per    *)
(* vehicle of a way segment.  A requester asks the intersection leader for *)
(* the hosts of the segment (RESOURCEREQUEST), sends each a task           *)
(* (TASKDISTRIBUTION), and counts the tasks that come back (TASKRECEPTION) *)
(* before it starts again.  A host runs a task in COLLABORATION.           *)
(*                                                                         *)
(* SetState calls the function of the new state at once and then RETURNS   *)
(* into the function that called it, which goes on with its remaining      *)
(* tests.  So the call stack is part of the state: a state function is a   *)
(* list of blocks, a frame remembers the next one, and an action executes  *)
(* one block.  Messages and timers wait until the stack is empty.          *)
(***************************************************************************)
EXTENDS Integers, Sequences, FiniteSets

CONSTANTS
    Nodes,        \* the vehicles of the way segment
    Leaders,      \* the leaders of its two intersections (level 1 regions)
    Requesters,   \* the vehicles that drive into SCMA_DEBUG_REGION
    Crossers,     \* the vehicles that drive through an intersection
    HostTables,   \* the host tables that IBR may have given the leader
    Percent,      \* nodeUsePercent, which nothing initialises
    Garbage,      \* the values of the counters that nothing initialises
    Lossy,        \* TRUE: the radio may lose a packet
    MaxMoves,     \* bound: so many region changes in all
    MaxQueue      \* bound: no pair has more packets on their way when a leader answers

ASSUME ScmaConstants ==
    /\ IsFiniteSet(Nodes)
    /\ Leaders \cap Nodes = {}
    /\ Requesters \subseteq Nodes
    /\ Crossers \subseteq Nodes
    /\ HostTables \subseteq SUBSET Nodes
    /\ Percent \in Nat
    /\ Garbage \subseteq Nat
    /\ Lossy \in BOOLEAN
    /\ MaxMoves \in Nat
    /\ MaxQueue \in Nat \ {0}

VARIABLES
    sm,        \* the members of each vehicle's ScmaStateMachine
    stack,     \* the state functions being executed, innermost first
    net,       \* net[src][dst]: the packets on their way, in order
    moves,     \* the region changes so far
    round      \* history: each vehicle's last distribution, whether it is unfinished
               \* and who has reported since

vars == <<sm, stack, net, moves, round>>

-----------------------------------------------------------------------------
States == {"INITIAL", "RESOURCEREQUEST", "TASKDISTRIBUTION", "TASKRECEPTION", "COLLABORATION"}

Timers == {"T_ResourceRequest", "T_TaskDistribution", "T_CompleteTaskAck", "T_Download",
           "T_IncompleteTaskAck", "T_ExpireReception", "T_TaskReception"}

\* The messages a state function tests RecvMsg for; any other counts as Nothing.
Tested == {"AugmentationRequest", "SendTaskToCN", "CloudResourceInfo", "CompleteTask",
           "CloudRelease"}
Noted(type) == IF type \in Tested THEN type ELSE "Nothing"

\* What one node sends: to each node, a sequence of messages.
Everyone == Nodes \cup Leaders
Message(type, hosts) == [type |-> type, hosts |-> hosts]
Nothing == [d \in Everyone |-> <<>>]
Send(type, hosts, dsts) ==
    [d \in Everyone |-> IF d \in dsts THEN <<Message(type, hosts)>> ELSE <<>>]
One(type, dst) == Send(type, {}, {dst})
\* A broadcast, to those that do anything with it: a leader only answers requests.
All(type, src) ==
    Send(type, {}, (IF type = "ResourceRequest" THEN Everyone ELSE Nodes) \ {src})
Then(first, second) == [d \in Everyone |-> first[d] \o second[d]]

\* Bound: CompleteTaskCounter is only compared with NTasks, at most this.
CounterCap == (Cardinality(Nodes) * Percent) \div 100
Bump(c) == IF c < CounterCap THEN c + 1 ELSE c

(* Timers.  armed: scheduled with a delay; due: scheduled with none, which  *)
(* fire in this order before anything else happens.  Scheduling a timer     *)
(* that runs aborts the simulation (NS_FATAL_ERROR in ns3::Timer).          *)
Running(s, t) == t \in s.armed \/ \E i \in DOMAIN s.due : s.due[i] = t
Without(q, t) ==
    IF \E i \in DOMAIN q : q[i] = t
    THEN LET i == CHOOSE j \in DOMAIN q : q[j] = t
         IN  SubSeq(q, 1, i - 1) \o SubSeq(q, i + 1, Len(q))
    ELSE q
Cancel(s, t) == [s EXCEPT !.armed = @ \ {t}, !.due = Without(@, t)]
\* Every timer but T_Download, which is never due.
CancelTimers(s) == [s EXCEPT !.armed = @ \cap {"T_Download"}, !.due = <<>>]
Schedule(s, t) == [s EXCEPT !.armed = @ \cup {t}, !.fatal = @ \/ Running(s, t)]
ScheduleNow(s, t) == [s EXCEPT !.due = Append(@, t), !.fatal = @ \/ Running(s, t)]
\* Mutant: the running timer is not cancelled first.
Mut_NotCancelled(s, t) == Schedule(s, t)
Rearm(s, t) == Schedule(Cancel(s, t), t)

\* What a piece of code does: the new members, the calls it ends with, its packets.
Effect(s, calls, packets) == [s |-> s, calls |-> calls, send |-> packets]
SetState(s, new, packets) == Effect([s EXCEPT !.nodeState = new], <<new>>, packets)
StateMachine(s, packets) == Effect(s, <<s.nodeState>>, packets)
Stay(s, packets) == Effect(s, <<>>, packets)

\* Back to INITIAL, to ask for the next tasks there.
NewRequest(s) == SetState([s EXCEPT !.RecvMsg = "AugmentationRequest"], "INITIAL", Nothing)

-----------------------------------------------------------------------------
(* The state functions: each block is an `if' of the code, in its order.   *)

Block(on, do) == [on |-> on, do |-> do]

StateInitial(n, s) == <<
    Block(s.RecvMsg = "AugmentationRequest" /\ s.IntersectionFlag = 0,
          SetState([Rearm(s, "T_ResourceRequest") EXCEPT !.RecvMsg = "Nothing", !.expires = 0],
                   "RESOURCEREQUEST", All("ResourceRequest", n))),
    Block(s.RecvMsg = "SendTaskToCN" /\ s.agreed /\ s.IntersectionFlag = 0,
          SetState([s EXCEPT !.FinishFlag = 0, !.RecvMsg = "Nothing"],
                   "COLLABORATION", Nothing)) >>

StateResourceRequest(n, s) == <<
    Block(s.RecvMsg = "CloudResourceInfo",
          SetState([CancelTimers(s) EXCEPT !.RecvMsg = "Nothing"],
                   "TASKDISTRIBUTION", Nothing)),
    Block(s.expires = 1,
          Stay(s, All("ResourceRequest", n))),
    Block(s.expires = 2, SetState(s, "INITIAL", Nothing)),
    Block(s.IntersectionFlag = 1, SetState(s, "INITIAL", Nothing)) >>

\* The number of hosts whose tasks the requester waits for.
usableNodes(s) == ((Cardinality(s.hosts) - 1) * Percent) \div 100

\* Mutant: the tasks are handed out without a limit to the wait.
Mut_NoLimit(n, s) ==
    LET flagged == [s EXCEPT !.DistributionFlag = 1, !.NTasks = usableNodes(s)]
    IN  IF usableNodes(s) >= 1
        THEN SetState(flagged, "TASKRECEPTION", Send("SendTaskToCN", {}, s.hosts \ {n}))
        ELSE Stay(flagged, Nothing)

\* Every host gets a task, usable or not; with no usable host the state stays.
SendTasks(n, s) ==
    LET flagged == [s EXCEPT !.DistributionFlag = 1, !.NTasks = usableNodes(s)]
    IN  IF usableNodes(s) >= 1
        THEN SetState(Rearm(flagged, "T_ExpireReception"), "TASKRECEPTION",
                      Send("SendTaskToCN", {}, s.hosts \ {n}))
        ELSE Stay(flagged, Nothing)

\* The counters start from zero in the next round.
ResetCounters(s) == [s EXCEPT !.CompleteTaskCounter = 0, !.ExpireReception = 0]

StateTaskDistribution(n, s) == <<
    Block(s.insufficient, NewRequest(CancelTimers(s))),
    Block(s.IntersectionFlag = 1, SetState(CancelTimers(s), "INITIAL", Nothing)),
    Block(s.Distribution = 3,
          SetState([ScheduleNow(s, "T_ResourceRequest") EXCEPT !.expires = 0, !.RecvMsg = "Nothing"],
                   "RESOURCEREQUEST", Nothing)),
    Block(s.DistributionFlag = 1,
          SetState(ScheduleNow(Cancel(ResetCounters(s), "T_TaskDistribution"),
                               "T_TaskReception"),
                   "TASKRECEPTION", Nothing)),
    Block(s.DistributionFlag = 0, SendTasks(n, s)) >>

Finished(s) == s.CompleteTaskCounter >= s.NTasks

StateTaskReception(n, s) == <<
    Block(s.IntersectionFlag = 1,
          Stay(ScheduleNow(Cancel(s, "T_TaskReception"), "T_TaskReception"), Nothing)),
    Block(s.RecvMsg = "CompleteTask",
          Stay([s EXCEPT !.CompleteTaskCounter = Bump(@)], Nothing)),
    Block(Finished(s),
          NewRequest(CancelTimers(ResetCounters(s)))),
    Block(s.ExpireReception = 3, SetState(s, "INITIAL", Nothing)) >>

StateCollaboration(n, s) == <<
    Block(s.FinishFlag = 1,
          SetState(Schedule([s EXCEPT !.FinishFlag = 0], "T_CompleteTaskAck"),
                   "COLLABORATION", Nothing)),
    Block(s.IntersectionFlag = 1 \/ s.RecvMsg = "CloudRelease" \/ ~s.agreed,
          Stay(ScheduleNow(s, "T_IncompleteTaskAck"),
               One("IncompleteTask", s.responseIp))) >>

\* VirtualLayerPlusNetDevice::SendAugmentationRequest, the rest of a region change.
SendAugmentationRequest(n, s) == << Block(TRUE, NewRequest(s)) >>

Blocks(n, fn) ==
    CASE fn = "INITIAL" -> StateInitial(n, sm[n])
      [] fn = "RESOURCEREQUEST" -> StateResourceRequest(n, sm[n])
      [] fn = "TASKDISTRIBUTION" -> StateTaskDistribution(n, sm[n])
      [] fn = "TASKRECEPTION" -> StateTaskReception(n, sm[n])
      [] fn = "COLLABORATION" -> StateCollaboration(n, sm[n])
      [] fn = "SendAugmentationRequest" -> SendAugmentationRequest(n, sm[n])

-----------------------------------------------------------------------------
(* Execution.                                                              *)

Frame(n, fn) == [node |-> n, fn |-> fn, at |-> 1]
Frames(n, calls) == [i \in DOMAIN calls |-> Frame(n, calls[i])]

\* The blocks of frame f that are still to come and whose test holds.
Enabled(f) ==
    LET B == Blocks(f.node, f.fn)
    IN  {i \in f.at .. Len(B) : B[i].on}

\* Block i of fn is the next to execute at n.
Executing(n, fn, i) ==
    /\ stack # <<>>
    /\ Head(stack).node = n /\ Head(stack).fn = fn
    /\ i \in Enabled(Head(stack))
    /\ \A j \in Enabled(Head(stack)) : i <= j

Alive == \A n \in Nodes : ~sm[n].fatal

\* The log's TaskDistribution and TaskFinished: a round begins, a round is over.
Logged(fn, i, r) ==
    CASE fn = "TASKDISTRIBUTION" /\ i = 5 -> [open |-> TRUE, reported |-> {}]
      [] fn = "TASKRECEPTION" /\ i = 3 -> [r EXCEPT !.open = FALSE]
      [] OTHER -> r

Execute(n, fn, i) ==
    /\ Alive
    /\ Executing(n, fn, i)
    /\ LET e == Blocks(n, fn)[i].do
       IN  /\ sm' = [sm EXCEPT ![n] = e.s]
           /\ stack' = Frames(n, e.calls) \o <<[Head(stack) EXCEPT !.at = i + 1]>> \o Tail(stack)
           /\ net' = [net EXCEPT ![n] = Then(@, e.send)]
    /\ round' = [round EXCEPT ![n] = Logged(fn, i, @)]
    /\ UNCHANGED moves

Return ==
    /\ Alive
    /\ stack # <<>>
    /\ Enabled(Head(stack)) = {}
    /\ stack' = Tail(stack)
    /\ UNCHANGED <<sm, net, moves, round>>

\* The code runs to its end, and then the timers that are due, before anything else.
Idle == Alive /\ stack = <<>>
Settled == Idle /\ \A n \in Nodes : sm[n].due = <<>>

\* n runs code with effect e, after the packets in queues were there.
Apply(n, e, queues) ==
    /\ sm' = [sm EXCEPT ![n] = e.s]
    /\ stack' = Frames(n, e.calls)
    /\ net' = [queues EXCEPT ![n] = Then(@, e.send)]

-----------------------------------------------------------------------------
(* Timers.  A packet takes far less than the shortest delay (0.1 s).       *)

Quiet == \A src, dst \in Everyone : net[src][dst] = <<>>

Fires(n, t) ==
    \/ Idle /\ sm[n].due # <<>> /\ Head(sm[n].due) = t
    \/ Settled /\ Quiet /\ t \in sm[n].armed

Timeout(n, t, e) ==
    /\ Fires(n, t)
    /\ Apply(n, e, net)
    /\ UNCHANGED <<moves, round>>

Fired(n, t) == Cancel(sm[n], t)

\* Mutant: one request too many.
Mut_OnceMore(s) == s.expires <= 2
AsksAgain(s) == s.expires < 2

TimeoutResourceRequest(n) ==
    LET s == Fired(n, "T_ResourceRequest")
    IN  Timeout(n, "T_ResourceRequest",
                IF AsksAgain(s)
                THEN StateMachine(Schedule([s EXCEPT !.expires = @ + 1], "T_ResourceRequest"),
                                  Nothing)
                ELSE NewRequest(CancelTimers(s)))

\* Mutant: the timer counts but does not run the state function.
Mut_OnlyCounts(n) ==
    LET s == Fired(n, "T_TaskDistribution")
    IN  Timeout(n, "T_TaskDistribution",
                Stay(IF s.Distribution < 3
                     THEN ScheduleNow([s EXCEPT !.Distribution = @ + 1], "T_TaskDistribution")
                     ELSE s, Nothing))

TimeoutTaskDistribution(n) ==
    LET s == Fired(n, "T_TaskDistribution")
    IN  Timeout(n, "T_TaskDistribution",
                IF s.Distribution < 3
                THEN StateMachine(ScheduleNow([s EXCEPT !.Distribution = @ + 1],
                                              "T_TaskDistribution"), Nothing)
                ELSE Stay(s, Nothing))

TimeoutTaskReception(n) ==
    LET s == Fired(n, "T_TaskReception")
    IN  Timeout(n, "T_TaskReception",
                IF s.ExpireReception <= 2
                THEN StateMachine(ScheduleNow([s EXCEPT !.ExpireReception = @ + 1],
                                              "T_TaskReception"), Nothing)
                ELSE Stay(s, Nothing))

Report(n, first, second) ==
    Then(One(first, sm[n].responseIp), One(second, sm[n].responseIp))

TimeoutCompleteTaskAck(n) ==
    Timeout(n, "T_CompleteTaskAck",
            SetState(Fired(n, "T_CompleteTaskAck"), "INITIAL",
                     Report(n, "CompleteTask", "ResourceInfoFromCN")))

\* Mutant: back to INITIAL, but nothing asks for the next tasks.
Mut_NoRequest(n) ==
    Timeout(n, "T_ExpireReception",
            SetState([CancelTimers(sm[n]) EXCEPT !.RecvMsg = "Nothing"], "INITIAL", Nothing))

TimeoutExpireReception(n) ==
    Timeout(n, "T_ExpireReception", NewRequest(CancelTimers(sm[n])))

TimeoutIncompleteTaskAck(n) ==
    Timeout(n, "T_IncompleteTaskAck",
            SetState([CancelTimers(sm[n]) EXCEPT !.RecvMsg = "Nothing"],
                     "INITIAL", Nothing))

TimeoutDownload(n) ==
    Timeout(n, "T_Download",
            StateMachine([Fired(n, "T_Download") EXCEPT !.FinishFlag = 1],
                         Report(n, "ResourceInfoFromCN", "CompleteTask")))

-----------------------------------------------------------------------------
(* RecvPkt: one action per message type that does more than set RecvMsg.   *)

\* The packets between two nodes arrive in order.
Arrives(src, n, type) ==
    /\ Settled
    /\ net[src][n] # <<>>
    /\ Head(net[src][n]).type = type
Taken(src, n) == [net EXCEPT ![src][n] = Tail(@)]

\* n takes the first packet from src and runs the code with effect e.
Recv(src, n, type, e) ==
    /\ Arrives(src, n, type)
    /\ Apply(n, e, Taken(src, n))
    /\ UNCHANGED moves

Noting(n, type) == [sm[n] EXCEPT !.RecvMsg = Noted(type)]

\* A leader of an intersection answers with the hosts of the segment it knows of
\* at this moment (ReceiveHostsTableIbr puts them there); for the rest, a leader's
\* own state machine never leaves INITIAL and is left out.
RecvResourceRequest(src, l) ==
    /\ Arrives(src, l, "ResourceRequest")
    /\ \A x, y \in Everyone : Len(net[x][y]) <= MaxQueue
    /\ \E hosts \in HostTables :
          net' = [Taken(src, l) EXCEPT ![l] = Then(@, Send("CloudResourceInfo", hosts, Nodes))]
    /\ UNCHANGED <<sm, stack, moves, round>>

\* Mutant: a table that was empty once stays insufficient.
Mut_KeptFlag(s) == [s EXCEPT !.DistributionFlag = 0]

Mut_KeptDistribution(s) == [s EXCEPT !.insufficient = FALSE]

\* The flags of a new distribution.
Distributing(s) == [s EXCEPT !.DistributionFlag = 0, !.insufficient = FALSE]

RecvCloudResourceInfo(src, n) ==
    /\ Arrives(src, n, "CloudResourceInfo")
    /\ sm[n].nodeState = "RESOURCEREQUEST"
    /\ LET info == Head(net[src][n]).hosts
           s == [Cancel(Noting(n, "CloudResourceInfo"), "T_ResourceRequest")
                   EXCEPT !.hosts = info]
       IN  Recv(src, n, "CloudResourceInfo",
                IF info # {}
                THEN SetState(Distributing(ScheduleNow(s, "T_TaskDistribution")),
                              "TASKDISTRIBUTION", Nothing)
                ELSE SetState([s EXCEPT !.insufficient = TRUE, !.RecvMsg = "Nothing"], "INITIAL",
                              Then(All("CloudRelease", n), All("InsufficientResources", n))))
    /\ UNCHANGED round

\* Mutant: a vehicle that runs a task takes another.
Mut_AcceptsAnytime(src, n) ==
    /\ Recv(src, n, "SendTaskToCN",
            StateMachine(Rearm([Noting(n, "SendTaskToCN") EXCEPT !.responseIp = src,
                                                                 !.agreed = TRUE],
                               "T_Download"), Nothing))
    /\ UNCHANGED round

\* The task is downloaded, and a collaboration starts if StateInitial agrees.
AcceptTask(src, n) ==
    /\ sm[n].nodeState = "INITIAL"
    /\ Recv(src, n, "SendTaskToCN",
            StateMachine(Rearm([Noting(n, "SendTaskToCN") EXCEPT !.responseIp = src,
                                                                 !.agreed = TRUE],
                               "T_Download"), Nothing))
    /\ UNCHANGED round

RefuseTask(src, n) ==
    /\ sm[n].nodeState # "INITIAL"
    /\ Recv(src, n, "SendTaskToCN",
            Stay([Noting(n, "SendTaskToCN") EXCEPT !.responseIp = src],
                 One("NotAcceptedTaskFromCN", src)))
    /\ UNCHANGED round

RecvCompleteTask(src, n) ==
    /\ Recv(src, n, "CompleteTask", StateMachine(Noting(n, "CompleteTask"), Nothing))
    /\ round' = [round EXCEPT ![n].reported = @ \cup {src}]

\* Mutant: the ack stops the timers and leaves the state.
Mut_AckOnlyStops(src, n) ==
    /\ Recv(src, n, "CompleteTaskAck",
            Stay([Cancel(CancelTimers(sm[n]), "T_Download")
                    EXCEPT !.RecvMsg = "Nothing", !.FinishFlag = 0], Nothing))
    /\ UNCHANGED round

RecvCompleteTaskAck(src, n) ==
    /\ Recv(src, n, "CompleteTaskAck",
            SetState([Cancel(CancelTimers(sm[n]), "T_Download")
                        EXCEPT !.RecvMsg = "Nothing", !.FinishFlag = 0],
                     "INITIAL", Nothing))
    /\ UNCHANGED round

RecvIncompleteTask(src, n) ==
    /\ Recv(src, n, "IncompleteTask",
            StateMachine([Noting(n, "IncompleteTask") EXCEPT !.responseIp = src], Nothing))
    /\ UNCHANGED round

RecvNotAccepted(src, n) ==
    /\ Recv(src, n, "NotAcceptedTaskFromCN",
            StateMachine(Noting(n, "NotAcceptedTaskFromCN"), Nothing))
    /\ UNCHANGED round

\* The counter counts in every state; the ack and the state function only in TASKRECEPTION.
RecvResourceInfoFromCN(src, n) ==
    /\ LET s == [Noting(n, "ResourceInfoFromCN") EXCEPT !.CompleteTaskCounter = Bump(@)]
       IN  Recv(src, n, "ResourceInfoFromCN",
                IF s.nodeState = "TASKRECEPTION"
                THEN StateMachine([s EXCEPT !.responseIp = src], One("CompleteTaskAck", src))
                ELSE Stay(s, Nothing))
    /\ round' = [round EXCEPT ![n].reported = @ \cup {src}]

\* The messages that only set RecvMsg.
RecvNoted(src, n) ==
    /\ \E type \in {"ResourceRequest", "CloudRelease", "InsufficientResources",
                     "CloudResourceInfo"} :
          /\ type = "CloudResourceInfo" => sm[n].nodeState # "RESOURCEREQUEST"
          /\ Recv(src, n, type, Stay(Noting(n, type), Nothing))
    /\ UNCHANGED round

RecvPkt(src, n) ==
    \/ RecvCloudResourceInfo(src, n) \/ AcceptTask(src, n) \/ RefuseTask(src, n)
    \/ RecvCompleteTask(src, n) \/ RecvCompleteTaskAck(src, n) \/ RecvIncompleteTask(src, n)
    \/ RecvNotAccepted(src, n) \/ RecvResourceInfoFromCN(src, n) \/ RecvNoted(src, n)

\* The radio loses a packet, or its receiver has left the way segment (external).
Lose(src, n) ==
    /\ Lossy /\ Settled
    /\ net[src][n] # <<>>
    /\ net' = Taken(src, n)
    /\ UNCHANGED <<sm, stack, moves, round>>

-----------------------------------------------------------------------------
(* TimerGetLocationExpire: what a region change means to the state machine. *)

Move(n, flag, calls) ==
    /\ Settled /\ moves < MaxMoves
    /\ moves' = moves + 1
    /\ Apply(n, Effect([sm[n] EXCEPT !.IntersectionFlag = flag], calls, Nothing), net)
    /\ UNCHANGED round

EnterIntersection(n) ==
    /\ n \in Crossers /\ sm[n].IntersectionFlag = 0
    /\ Move(n, 1, <<sm[n].nodeState>>)

LeaveIntersection(n) ==
    /\ sm[n].IntersectionFlag = 1
    /\ Move(n, 0, <<sm[n].nodeState>>)

\* A vehicle in its own SCMA_DEBUG_REGION starts an augmentation in any state.
EnterDebugRegion(n) ==
    /\ n \in Requesters
    /\ \/ sm[n].IntersectionFlag = 0 /\ Move(n, 0, <<"SendAugmentationRequest">>)
       \/ /\ sm[n].IntersectionFlag = 1
          /\ Move(n, 0, <<sm[n].nodeState, "SendAugmentationRequest">>)

-----------------------------------------------------------------------------
Init ==
    /\ \E g \in [Requesters -> [{"Distribution", "ExpireReception", "CompleteTaskCounter"}
                                  -> Garbage]] :
          sm = [n \in Nodes |->
                  LET Uninit(x) == IF n \in Requesters THEN g[n][x] ELSE 0
                  IN  [nodeState |-> "INITIAL", RecvMsg |-> "Nothing",
                       expires |-> 0, IntersectionFlag |-> 0, FinishFlag |-> 0,
                       Distribution |-> Uninit("Distribution"), DistributionFlag |-> 0,
                       ExpireReception |-> Uninit("ExpireReception"),
                       CompleteTaskCounter |-> Uninit("CompleteTaskCounter"),
                       NTasks |-> 10, agreed |-> FALSE, insufficient |-> FALSE,
                       responseIp |-> n, hosts |-> {},
                       armed |-> {}, due |-> <<>>, fatal |-> FALSE]]
    /\ stack = <<>>
    /\ net = [src \in Everyone |-> Nothing]
    /\ moves = 0
    /\ round = [n \in Nodes |-> [open |-> FALSE, reported |-> {}]]

TimerStep(n) ==
    \/ TimeoutResourceRequest(n) \/ TimeoutTaskDistribution(n) \/ TimeoutTaskReception(n)
    \/ TimeoutCompleteTaskAck(n) \/ TimeoutExpireReception(n) \/ TimeoutIncompleteTaskAck(n)
    \/ TimeoutDownload(n)

Functions == States \cup {"SendAugmentationRequest"}

Next ==
    \/ \E n \in Nodes, fn \in Functions, i \in 1 .. 5 : Execute(n, fn, i)
    \/ Return
    \/ \E n \in Nodes : TimerStep(n) \/ EnterIntersection(n) \/ LeaveIntersection(n)
                        \/ EnterDebugRegion(n)
    \/ \E src \in Everyone, n \in Nodes : RecvPkt(src, n)
    \/ \E src \in Nodes, l \in Leaders : RecvResourceRequest(src, l)
    \/ \E src, n \in Everyone : Lose(src, n)

Spec == Init /\ [][Next]_vars

\* The simulator runs what is due and delivers what is sent, and a scheduled timer
\* fires; only losses and the vehicles' movements are left to chance.
Runs ==
    \/ \E n \in Nodes, fn \in Functions, i \in 1 .. 5 : Execute(n, fn, i)
    \/ Return
    \/ \E n \in Nodes : TimerStep(n)
    \/ \E src \in Everyone, n \in Nodes : RecvPkt(src, n)
    \/ \E src \in Nodes, l \in Leaders : RecvResourceRequest(src, l)

Fairness ==
    /\ WF_vars(Runs)
    /\ \A n \in Nodes :
          /\ SF_vars(TimeoutResourceRequest(n)) /\ SF_vars(TimeoutExpireReception(n))
          /\ SF_vars(TimeoutCompleteTaskAck(n)) /\ SF_vars(TimeoutDownload(n))

FairSpec == Spec /\ Fairness

-----------------------------------------------------------------------------
(* Type invariant: the members keep to their ranges, and the recursion of   *)
(* state functions through SetState to StackDepth frames.                   *)
StackDepth == 5

TypeOK ==
    /\ \A n \in Nodes :
          /\ sm[n].nodeState \in States
          /\ sm[n].RecvMsg \in Tested \cup {"Nothing"}
          /\ sm[n].expires \in 0 .. 2
          /\ sm[n].armed \subseteq Timers
          /\ \A i \in DOMAIN sm[n].due : sm[n].due[i] \in Timers
    /\ Len(stack) <= StackDepth

\* No timer is scheduled while it runs, which ns-3 answers by aborting.
NeverFatal == Alive

\* A vehicle that waits for an answer has the timer that ends the wait.
RequestIsTimed == Settled => \A n \in Nodes :
    sm[n].nodeState = "RESOURCEREQUEST" => "T_ResourceRequest" \in sm[n].armed

\* A vehicle that waits for its tasks has the timer that ends the wait.
ReceptionIsTimed == Settled => \A n \in Nodes :
    sm[n].nodeState = "TASKRECEPTION" => "T_ExpireReception" \in sm[n].armed

\* A vehicle that runs a task has the timer that ends it.
CollaborationIsTimed == Settled => \A n \in Nodes :
    sm[n].nodeState = "COLLABORATION" =>
       sm[n].armed \cap {"T_Download", "T_CompleteTaskAck"} # {}

\* A distribution is over when the code and the timers that are due have run.
NoDistributionWaits == Settled => \A n \in Nodes : sm[n].nodeState # "TASKDISTRIBUTION"

\* The branches that leave RESOURCEREQUEST and TASKDISTRIBUTION on data that
\* RecvCloudResourceInfo has already dealt with are dead.
DeadBranches ==
    \A n \in Nodes : ~Executing(n, "RESOURCEREQUEST", 1) /\ ~Executing(n, "TASKDISTRIBUTION", 1)

\* A task counts as finished when as many hosts as were waited for have reported.
FinishedIsReported ==
    [][\A n \in Nodes : Executing(n, "TASKRECEPTION", 3) /\ sm' # sm
          => Cardinality(round[n].reported) >= sm[n].NTasks]_vars

\* Every TaskFinished of the log ends the distribution that its vehicle logged last.
FinishFollowsDistribution ==
    [][\A n \in Nodes : Executing(n, "TASKRECEPTION", 3) /\ sm' # sm => round[n].open]_vars

\* A vehicle that has handed out tasks sooner or later asks for the next ones.
AugmentationGoesOn == \A n \in Nodes :
    (sm[n].nodeState = "TASKRECEPTION") ~> (sm[n].nodeState = "RESOURCEREQUEST")
=============================================================================
