------------------------------ MODULE ScmaProofs ------------------------------
(* Proofs about the timers of ScmaStateMachine, for any number of vehicles  *)
(* and leaders, any host tables, losses and region changes.                *)
EXTENDS ScmaStateMachine, TLAPS

\* What the proof needs to know of the members of a vehicle.
Good(s) ==
    /\ {"nodeState", "armed", "due"} \subseteq DOMAIN s
    /\ s.due \in Seq(Timers)

IsRunning(s) ==
    \/ "T_ResourceRequest" \in s.armed
    \/ \E i \in DOMAIN s.due : s.due[i] = "T_ResourceRequest"

\* The wait for an answer has its timer, with a delay or due at once.
Timed(s) == s.nodeState = "RESOURCEREQUEST" => IsRunning(s)

\* Another assignment to members that have nothing to do with it.
Same(s, u) ==
    /\ DOMAIN u = DOMAIN s
    /\ u.nodeState = s.nodeState /\ u.armed = s.armed /\ u.due = s.due

-----------------------------------------------------------------------------
\* What Without leaves of a queue.
LEMMA WithoutKeeps ==
    ASSUME NEW q \in Seq(Timers), NEW t
    PROVE  /\ Without(q, t) \in Seq(Timers)
           /\ \A i \in DOMAIN q : q[i] # t => \E j \in DOMAIN Without(q, t) : Without(q, t)[j] = q[i]
<1>1. CASE ~\E i \in DOMAIN q : q[i] = t
  BY <1>1 DEF Without
<1>2. CASE \E i \in DOMAIN q : q[i] = t
  <2>. DEFINE k == CHOOSE j \in DOMAIN q : q[j] = t
              a == SubSeq(q, 1, k - 1)
              b == SubSeq(q, k + 1, Len(q))
  <2>1. k \in DOMAIN q /\ q[k] = t
    BY <1>2
  <2>2. k \in 1 .. Len(q)
    BY <2>1
  <2>3. Without(q, t) = a \o b
    BY <1>2 DEF Without
  <2>. HIDE DEF k
  <2>4. a \in Seq(Timers) /\ Len(a) = k - 1 /\ \A i \in 1 .. k - 1 : a[i] = q[i]
    BY <2>2
  <2>5. b \in Seq(Timers) /\ Len(b) = Len(q) - k /\ \A i \in 1 .. Len(q) - k : b[i] = q[k + i]
    BY <2>2
  <2>. HIDE DEF a, b
  <2>6. a \o b \in Seq(Timers)
    BY <2>4, <2>5
  <2>7. ASSUME NEW i \in DOMAIN q, q[i] # t
        PROVE  \E j \in DOMAIN (a \o b) : (a \o b)[j] = q[i]
    <3>1. i \in 1 .. Len(q) /\ i # k
      BY <2>1, <2>7
    <3>2. CASE i < k
      <4>1. i \in DOMAIN (a \o b) /\ (a \o b)[i] = q[i]
        BY <2>2, <2>4, <2>5, <3>1, <3>2
      <4> QED
        BY <4>1
    <3>3. CASE i > k
      <4>1. i - 1 \in DOMAIN (a \o b) /\ (a \o b)[i - 1] = b[i - k]
        BY <2>2, <2>4, <2>5, <3>1, <3>3
      <4>2. b[i - k] = q[i]
        BY <2>2, <2>5, <3>1, <3>3
      <4> QED
        BY <4>1, <4>2
    <3> QED
      BY <2>2, <3>1, <3>2, <3>3
  <2> QED
    BY <2>3, <2>6, <2>7
<1> QED
  BY <1>1, <1>2

LEMMA CancelKeeps ==
    ASSUME NEW s, Good(s), NEW t
    PROVE  /\ Good(Cancel(s, t))
           /\ Cancel(s, t).nodeState = s.nodeState
           /\ t # "T_ResourceRequest" /\ IsRunning(s) => IsRunning(Cancel(s, t))
<1>. DEFINE u == Cancel(s, t)
<1>1. /\ DOMAIN u = DOMAIN s /\ u.nodeState = s.nodeState
      /\ u.armed = s.armed \ {t} /\ u.due = Without(s.due, t)
  BY DEF Good, Cancel
<1>. HIDE DEF u
<1>2. s.due \in Seq(Timers)
  BY DEF Good
<1>3. Good(u)
  BY <1>1, <1>2, WithoutKeeps DEF Good
<1>4. ASSUME t # "T_ResourceRequest", IsRunning(s) PROVE IsRunning(u)
  BY <1>1, <1>2, <1>4, WithoutKeeps DEF IsRunning
<1> QED
  BY <1>1, <1>3, <1>4 DEF u

LEMMA ScheduleKeeps ==
    ASSUME NEW s, Good(s), NEW t \in Timers
    PROVE  /\ Good(Schedule(s, t))
           /\ Schedule(s, t).nodeState = s.nodeState
           /\ IsRunning(s) => IsRunning(Schedule(s, t))
           /\ t = "T_ResourceRequest" => IsRunning(Schedule(s, t))
<1>. DEFINE u == Schedule(s, t)
<1>1. /\ DOMAIN u = DOMAIN s /\ u.nodeState = s.nodeState
      /\ u.armed = s.armed \cup {t} /\ u.due = s.due
  BY DEF Good, Schedule
<1>. HIDE DEF u
<1> QED
  BY <1>1 DEF Good, IsRunning, u

LEMMA ScheduleNowKeeps ==
    ASSUME NEW s, Good(s), NEW t \in Timers
    PROVE  /\ Good(ScheduleNow(s, t))
           /\ ScheduleNow(s, t).nodeState = s.nodeState
           /\ IsRunning(s) => IsRunning(ScheduleNow(s, t))
           /\ t = "T_ResourceRequest" => IsRunning(ScheduleNow(s, t))
<1>. DEFINE u == ScheduleNow(s, t)
<1>1. /\ DOMAIN u = DOMAIN s /\ u.nodeState = s.nodeState
      /\ u.armed = s.armed /\ u.due = Append(s.due, t)
  BY DEF Good, ScheduleNow
<1>2. s.due \in Seq(Timers)
  BY DEF Good
<1>. HIDE DEF u
<1>3. /\ u.due \in Seq(Timers)
      /\ \A i \in DOMAIN s.due : i \in DOMAIN u.due /\ u.due[i] = s.due[i]
      /\ Len(s.due) + 1 \in DOMAIN u.due /\ u.due[Len(s.due) + 1] = t
  BY <1>1, <1>2
<1> QED
  BY <1>1, <1>3 DEF Good, IsRunning, u

LEMMA CancelTimersKeeps ==
    ASSUME NEW s, Good(s)
    PROVE  Good(CancelTimers(s)) /\ CancelTimers(s).nodeState = s.nodeState
BY DEF Good, CancelTimers

LEMMA RearmKeeps ==
    ASSUME NEW s, Good(s), NEW t \in Timers
    PROVE  /\ Good(Rearm(s, t))
           /\ Rearm(s, t).nodeState = s.nodeState
           /\ IsRunning(s) => IsRunning(Rearm(s, t))
           /\ t = "T_ResourceRequest" => IsRunning(Rearm(s, t))
<1>1. Good(Cancel(s, t)) /\ Cancel(s, t).nodeState = s.nodeState
  BY CancelKeeps
<1>2. CASE t = "T_ResourceRequest"
  BY <1>1, <1>2, ScheduleKeeps DEF Rearm
<1>3. CASE t # "T_ResourceRequest"
  BY <1>1, <1>3, CancelKeeps, ScheduleKeeps DEF Rearm
<1> QED
  BY <1>2, <1>3

LEMMA SameKeeps ==
    ASSUME NEW s, NEW u, Same(s, u)
    PROVE  /\ Good(s) => Good(u)
           /\ IsRunning(s) => IsRunning(u)
           /\ Timed(s) => Timed(u)
BY DEF Same, Good, IsRunning, Timed

LEMMA NodeStateKeeps ==
    ASSUME NEW s, Good(s), NEW x
    PROVE  LET u == [s EXCEPT !.nodeState = x]
           IN  Good(u) /\ u.nodeState = x /\ (IsRunning(s) => IsRunning(u))
<1>. DEFINE u == [s EXCEPT !.nodeState = x]
<1>1. /\ DOMAIN u = DOMAIN s /\ u.nodeState = x
      /\ u.armed = s.armed /\ u.due = s.due
  BY DEF Good
<1>. HIDE DEF u
<1> QED
  BY <1>1 DEF Good, IsRunning, u

-----------------------------------------------------------------------------
(* The state functions: no block takes the timer from a waiting vehicle.   *)

Fit(s) == Good(s) /\ Timed(s)

\* A change to a state other than RESOURCEREQUEST needs no timer.
LEMMA SetStateFits ==
    ASSUME NEW s, Good(s), NEW x, x # "RESOURCEREQUEST", NEW p
    PROVE  Fit(SetState(s, x, p).s)
BY NodeStateKeeps DEF SetState, Effect, Fit, Timed

LEMMA WaitFits ==
    ASSUME NEW s, Good(s), IsRunning(s), NEW p
    PROVE  Fit(SetState(s, "RESOURCEREQUEST", p).s)
BY NodeStateKeeps DEF SetState, Effect, Fit, Timed

LEMMA NewRequestFits ==
    ASSUME NEW s, Good(s)
    PROVE  Fit(NewRequest(s).s)
<1>. DEFINE u == [s EXCEPT !.RecvMsg = "AugmentationRequest"]
<1>1. Same(s, u)
  BY DEF Good, Same
<1>2. Good(u)
  BY <1>1, SameKeeps
<1> QED
  BY <1>2, SetStateFits DEF NewRequest

LEMMA InitialFits ==
    ASSUME NEW n, NEW s, Fit(s), NEW i \in 1 .. 2
    PROVE  Fit(StateInitial(n, s)[i].do.s)
<1>. DEFINE a == Rearm(s, "T_ResourceRequest")
            b == [a EXCEPT !.RecvMsg = "Nothing", !.expires = 0]
            c == [s EXCEPT !.FinishFlag = 0, !.RecvMsg = "Nothing"]
<1>1. Good(a) /\ IsRunning(a)
  BY RearmKeeps DEF Fit, Timers
<1>2. Same(a, b)
  BY <1>1 DEF Good, Same
<1>3. Good(b) /\ IsRunning(b)
  BY <1>1, <1>2, SameKeeps
<1>4. Same(s, c)
  BY DEF Fit, Good, Same
<1>5. Good(c)
  BY <1>4, SameKeeps DEF Fit
<1>6. CASE i = 1
  <2>1. StateInitial(n, s)[1].do = SetState(b, "RESOURCEREQUEST", All("ResourceRequest", n))
    BY DEF StateInitial, Block
  <2> QED
    BY <1>3, <1>6, <2>1, WaitFits
<1>7. CASE i = 2
  <2>1. StateInitial(n, s)[2].do = SetState(c, "COLLABORATION", Nothing)
    BY DEF StateInitial, Block
  <2> QED
    BY <1>5, <1>7, <2>1, SetStateFits
<1> QED
  BY <1>6, <1>7

LEMMA RequestFits ==
    ASSUME NEW n, NEW s, Fit(s), NEW i \in 1 .. 4
    PROVE  Fit(StateResourceRequest(n, s)[i].do.s)
<1>. DEFINE a == [CancelTimers(s) EXCEPT !.RecvMsg = "Nothing"]
<1>1. Good(CancelTimers(s))
  BY CancelTimersKeeps DEF Fit
<1>2. Same(CancelTimers(s), a)
  BY <1>1 DEF Good, Same
<1>3. Good(a)
  BY <1>1, <1>2, SameKeeps
<1>4. CASE i = 1
  <2>1. StateResourceRequest(n, s)[1].do = SetState(a, "TASKDISTRIBUTION", Nothing)
    BY DEF StateResourceRequest, Block
  <2> QED
    BY <1>3, <1>4, <2>1, SetStateFits
<1>5. CASE i = 2
  <2>1. StateResourceRequest(n, s)[2].do.s = s
    BY DEF StateResourceRequest, Block, Stay, Effect
  <2> QED
    BY <1>5, <2>1
<1>6. CASE i \in 3 .. 4
  <2>1. StateResourceRequest(n, s)[i].do = SetState(s, "INITIAL", Nothing)
    BY <1>6 DEF StateResourceRequest, Block
  <2> QED
    BY <2>1, SetStateFits DEF Fit
<1> QED
  BY <1>4, <1>5, <1>6

\* Handing out tasks stays in TASKDISTRIBUTION or goes on to TASKRECEPTION.
LEMMA SendTasksFits ==
    ASSUME NEW n, NEW s, Fit(s)
    PROVE  Fit(SendTasks(n, s).s)
<1>. DEFINE a == [s EXCEPT !.DistributionFlag = 1, !.NTasks = usableNodes(s)]
<1>1. Same(s, a)
  BY DEF Fit, Good, Same
<1>2. Fit(a)
  BY <1>1, SameKeeps DEF Fit
<1>3. Good(Rearm(a, "T_ExpireReception"))
  BY <1>2, RearmKeeps DEF Fit, Timers
<1>4. CASE usableNodes(s) >= 1
  <2>1. SendTasks(n, s) = SetState(Rearm(a, "T_ExpireReception"), "TASKRECEPTION",
                                   Send("SendTaskToCN", {}, s.hosts \ {n}))
    BY <1>4 DEF SendTasks
  <2> QED
    BY <1>3, <2>1, SetStateFits
<1>5. CASE ~(usableNodes(s) >= 1)
  <2>1. SendTasks(n, s).s = a
    BY <1>5 DEF SendTasks, Stay, Effect
  <2> QED
    BY <1>2, <2>1
<1> QED
  BY <1>4, <1>5

LEMMA DistributionFits ==
    ASSUME NEW n, NEW s, Fit(s), NEW i \in 1 .. 5
    PROVE  Fit(StateTaskDistribution(n, s)[i].do.s)
<1>. DEFINE a == ScheduleNow(s, "T_ResourceRequest")
            b == [a EXCEPT !.expires = 0, !.RecvMsg = "Nothing"]
            c == ResetCounters(s)
            d == ScheduleNow(Cancel(c, "T_TaskDistribution"), "T_TaskReception")
<1>1. Good(CancelTimers(s))
  BY CancelTimersKeeps DEF Fit
<1>2. Good(a) /\ IsRunning(a)
  BY ScheduleNowKeeps DEF Fit, Timers
<1>3. Same(a, b)
  BY <1>2 DEF Good, Same
<1>4. Good(b) /\ IsRunning(b)
  BY <1>2, <1>3, SameKeeps
<1>5. Same(s, c)
  BY DEF Fit, Good, Same, ResetCounters
<1>6. Good(c)
  BY <1>5, SameKeeps DEF Fit
<1>7. Good(d)
  BY <1>6, CancelKeeps, ScheduleNowKeeps DEF Timers
<1>8. CASE i = 1
  <2>1. StateTaskDistribution(n, s)[1].do = NewRequest(CancelTimers(s))
    BY DEF StateTaskDistribution, Block
  <2> QED
    BY <1>1, <1>8, <2>1, NewRequestFits
<1>9. CASE i = 2
  <2>1. StateTaskDistribution(n, s)[2].do = SetState(CancelTimers(s), "INITIAL", Nothing)
    BY DEF StateTaskDistribution, Block
  <2> QED
    BY <1>1, <1>9, <2>1, SetStateFits
<1>10. CASE i = 3
  <2>1. StateTaskDistribution(n, s)[3].do = SetState(b, "RESOURCEREQUEST", Nothing)
    BY DEF StateTaskDistribution, Block
  <2> QED
    BY <1>4, <1>10, <2>1, WaitFits
<1>11. CASE i = 4
  <2>1. StateTaskDistribution(n, s)[4].do = SetState(d, "TASKRECEPTION", Nothing)
    BY DEF StateTaskDistribution, Block
  <2> QED
    BY <1>7, <1>11, <2>1, SetStateFits
<1>12. CASE i = 5
  <2>1. StateTaskDistribution(n, s)[5].do = SendTasks(n, s)
    BY DEF StateTaskDistribution, Block
  <2> QED
    BY <1>12, <2>1, SendTasksFits
<1> QED
  BY <1>8, <1>9, <1>10, <1>11, <1>12

LEMMA ReceptionFits ==
    ASSUME NEW n, NEW s, Fit(s), NEW i \in 1 .. 4
    PROVE  Fit(StateTaskReception(n, s)[i].do.s)
<1>. DEFINE a == Cancel(s, "T_TaskReception")
            b == ScheduleNow(a, "T_TaskReception")
            c == [s EXCEPT !.CompleteTaskCounter = Bump(@)]
            d == ResetCounters(s)
<1>1. Fit(b)
  BY CancelKeeps, ScheduleNowKeeps DEF Fit, Timed, Timers
<1>2. Same(s, c) /\ Same(s, d)
  BY DEF Fit, Good, Same, ResetCounters
<1>3. Fit(c) /\ Good(CancelTimers(d))
  BY <1>2, SameKeeps, CancelTimersKeeps DEF Fit
<1>4. CASE i = 1
  <2>1. StateTaskReception(n, s)[1].do.s = b
    BY DEF StateTaskReception, Block, Stay, Effect
  <2> QED
    BY <1>1, <1>4, <2>1
<1>5. CASE i = 2
  <2>1. StateTaskReception(n, s)[2].do.s = c
    BY DEF StateTaskReception, Block, Stay, Effect
  <2> QED
    BY <1>3, <1>5, <2>1
<1>6. CASE i = 3
  <2>1. StateTaskReception(n, s)[3].do = NewRequest(CancelTimers(d))
    BY DEF StateTaskReception, Block
  <2> QED
    BY <1>3, <1>6, <2>1, NewRequestFits
<1>7. CASE i = 4
  <2>1. StateTaskReception(n, s)[4].do = SetState(s, "INITIAL", Nothing)
    BY DEF StateTaskReception, Block
  <2> QED
    BY <1>7, <2>1, SetStateFits DEF Fit
<1> QED
  BY <1>4, <1>5, <1>6, <1>7

LEMMA CollaborationFits ==
    ASSUME NEW n, NEW s, Fit(s), NEW i \in 1 .. 2
    PROVE  Fit(StateCollaboration(n, s)[i].do.s)
<1>. DEFINE a == [s EXCEPT !.FinishFlag = 0]
            b == ScheduleNow(s, "T_IncompleteTaskAck")
<1>1. Same(s, a)
  BY DEF Fit, Good, Same
<1>2. Good(Schedule(a, "T_CompleteTaskAck"))
  BY <1>1, SameKeeps, ScheduleKeeps DEF Fit, Timers
<1>3. Fit(b)
  BY ScheduleNowKeeps DEF Fit, Timed, Timers
<1>4. CASE i = 1
  <2>1. StateCollaboration(n, s)[1].do
           = SetState(Schedule(a, "T_CompleteTaskAck"), "COLLABORATION", Nothing)
    BY DEF StateCollaboration, Block
  <2> QED
    BY <1>2, <1>4, <2>1, SetStateFits
<1>5. CASE i = 2
  <2>1. StateCollaboration(n, s)[2].do.s = b
    BY DEF StateCollaboration, Block, Stay, Effect
  <2> QED
    BY <1>3, <1>5, <2>1
<1> QED
  BY <1>4, <1>5

-----------------------------------------------------------------------------
(***************************************************************************)
(* The inductive invariant: at any time, also between two blocks of a      *)
(* state function, a vehicle in RESOURCEREQUEST has its timer running.     *)
(***************************************************************************)
IInv == DOMAIN sm = Nodes /\ \A n \in Nodes : Fit(sm[n])

\* A step that changes the members of one vehicle.
LEMMA OneVehicle ==
    ASSUME IInv, NEW n \in Nodes, NEW s, Fit(s), sm' = [sm EXCEPT ![n] = s]
    PROVE  IInv'
BY DEF IInv

LEMMA ApplyStep ==
    ASSUME IInv, NEW n \in Nodes, NEW e, Fit(e.s), NEW q, Apply(n, e, q)
    PROVE  IInv'
BY OneVehicle DEF Apply

LEMMA ExecuteStep ==
    ASSUME IInv, NEW n \in Nodes, NEW fn \in Functions, NEW i \in 1 .. 5, Execute(n, fn, i)
    PROVE  IInv'
<1>1. i <= Len(Blocks(n, fn)) /\ Fit(sm[n])
  BY DEF Execute, Executing, Enabled, IInv
<1>2. Fit(Blocks(n, fn)[i].do.s)
  <2>1. CASE fn = "INITIAL"
    <3>1. Blocks(n, fn) = StateInitial(n, sm[n]) /\ Len(StateInitial(n, sm[n])) = 2
      BY <2>1 DEF Blocks, StateInitial
    <3> QED
      BY <1>1, <3>1, InitialFits
  <2>2. CASE fn = "RESOURCEREQUEST"
    <3>1. Blocks(n, fn) = StateResourceRequest(n, sm[n]) /\ Len(StateResourceRequest(n, sm[n])) = 4
      BY <2>2 DEF Blocks, StateResourceRequest
    <3> QED
      BY <1>1, <3>1, RequestFits
  <2>3. CASE fn = "TASKDISTRIBUTION"
    <3>1. Blocks(n, fn) = StateTaskDistribution(n, sm[n])
      BY <2>3 DEF Blocks
    <3> QED
      BY <1>1, <3>1, DistributionFits
  <2>4. CASE fn = "TASKRECEPTION"
    <3>1. Blocks(n, fn) = StateTaskReception(n, sm[n]) /\ Len(StateTaskReception(n, sm[n])) = 4
      BY <2>4 DEF Blocks, StateTaskReception
    <3> QED
      BY <1>1, <3>1, ReceptionFits
  <2>5. CASE fn = "COLLABORATION"
    <3>1. Blocks(n, fn) = StateCollaboration(n, sm[n]) /\ Len(StateCollaboration(n, sm[n])) = 2
      BY <2>5 DEF Blocks, StateCollaboration
    <3> QED
      BY <1>1, <3>1, CollaborationFits
  <2>6. CASE fn = "SendAugmentationRequest"
    <3>1. Blocks(n, fn) = << Block(TRUE, NewRequest(sm[n])) >>
      BY <2>6 DEF Blocks, SendAugmentationRequest
    <3>2. i = 1
      BY <1>1, <3>1
    <3>3. Blocks(n, fn)[i].do = NewRequest(sm[n])
      BY <3>1, <3>2 DEF Block
    <3> QED
      BY <1>1, <3>3, NewRequestFits DEF Fit
  <2> QED
    BY <2>1, <2>2, <2>3, <2>4, <2>5, <2>6 DEF Functions, States
<1> QED
  BY <1>2, OneVehicle DEF Execute

-----------------------------------------------------------------------------
(* The timers.                                                             *)

LEMMA FiredGood ==
    ASSUME IInv, NEW n \in Nodes, NEW t
    PROVE  /\ Good(Fired(n, t))
           /\ t # "T_ResourceRequest" => Fit(Fired(n, t))
BY CancelKeeps DEF IInv, Fired, Fit, Timed

\* A callback with a fitting effect.
LEMMA TimeoutStep ==
    ASSUME IInv, NEW n \in Nodes, NEW t, NEW e, Fit(e.s), Timeout(n, t, e)
    PROVE  IInv'
BY ApplyStep DEF Timeout

\* T_ResourceRequest itself is scheduled again, or the wait is over.
LEMMA TimeoutResourceRequestStep ==
    ASSUME IInv, NEW n \in Nodes, TimeoutResourceRequest(n)
    PROVE  IInv'
<1>. DEFINE s == Fired(n, "T_ResourceRequest")
            a == [s EXCEPT !.expires = @ + 1]
            b == Schedule(a, "T_ResourceRequest")
<1>1. Good(s)
  BY FiredGood
<1>2. Same(s, a)
  BY <1>1 DEF Good, Same
<1>3. Fit(b)
  BY <1>1, <1>2, SameKeeps, ScheduleKeeps DEF Fit, Timed, Timers
<1>4. Fit(StateMachine(b, Nothing).s)
  BY <1>3 DEF StateMachine, Effect
<1>5. Fit(NewRequest(CancelTimers(s)).s)
  BY <1>1, CancelTimersKeeps, NewRequestFits
<1>6. CASE AsksAgain(s)
  BY <1>4, <1>6, TimeoutStep DEF TimeoutResourceRequest
<1>7. CASE ~AsksAgain(s)
  BY <1>5, <1>7, TimeoutStep DEF TimeoutResourceRequest
<1> QED
  BY <1>6, <1>7

LEMMA TimeoutTaskDistributionStep ==
    ASSUME IInv, NEW n \in Nodes, TimeoutTaskDistribution(n)
    PROVE  IInv'
<1>. DEFINE s == Fired(n, "T_TaskDistribution")
            a == [s EXCEPT !.Distribution = @ + 1]
            b == ScheduleNow(a, "T_TaskDistribution")
<1>1. Fit(s)
  BY FiredGood
<1>2. Same(s, a)
  BY <1>1 DEF Fit, Good, Same
<1>3. Fit(b)
  BY <1>1, <1>2, SameKeeps, ScheduleNowKeeps DEF Fit, Timed, Timers
<1>4. Fit(StateMachine(b, Nothing).s) /\ Fit(Stay(s, Nothing).s)
  BY <1>1, <1>3 DEF StateMachine, Stay, Effect
<1>5. CASE s.Distribution < 3
  BY <1>4, <1>5, TimeoutStep DEF TimeoutTaskDistribution
<1>6. CASE ~(s.Distribution < 3)
  BY <1>4, <1>6, TimeoutStep DEF TimeoutTaskDistribution
<1> QED
  BY <1>5, <1>6

LEMMA TimeoutTaskReceptionStep ==
    ASSUME IInv, NEW n \in Nodes, TimeoutTaskReception(n)
    PROVE  IInv'
<1>. DEFINE s == Fired(n, "T_TaskReception")
            a == [s EXCEPT !.ExpireReception = @ + 1]
            b == ScheduleNow(a, "T_TaskReception")
<1>1. Fit(s)
  BY FiredGood
<1>2. Same(s, a)
  BY <1>1 DEF Fit, Good, Same
<1>3. Fit(b)
  BY <1>1, <1>2, SameKeeps, ScheduleNowKeeps DEF Fit, Timed, Timers
<1>4. Fit(StateMachine(b, Nothing).s) /\ Fit(Stay(s, Nothing).s)
  BY <1>1, <1>3 DEF StateMachine, Stay, Effect
<1>5. CASE s.ExpireReception <= 2
  BY <1>4, <1>5, TimeoutStep DEF TimeoutTaskReception
<1>6. CASE ~(s.ExpireReception <= 2)
  BY <1>4, <1>6, TimeoutStep DEF TimeoutTaskReception
<1> QED
  BY <1>5, <1>6

\* The other callbacks go to INITIAL, or do not touch the timer.
LEMMA OtherTimeoutsStep ==
    ASSUME IInv, NEW n \in Nodes,
           \/ TimeoutCompleteTaskAck(n) \/ TimeoutExpireReception(n)
           \/ TimeoutIncompleteTaskAck(n) \/ TimeoutDownload(n)
    PROVE  IInv'
<1>. DEFINE s == CancelTimers(sm[n])
            a == [s EXCEPT !.RecvMsg = "Nothing"]
            f == Fired(n, "T_Download")
            b == [f EXCEPT !.FinishFlag = 1]
<1>1. Good(s)
  BY CancelTimersKeeps DEF IInv, Fit
<1>2. Same(s, a)
  BY <1>1 DEF Good, Same
<1>3. Good(a)
  BY <1>1, <1>2, SameKeeps
<1>4. Fit(f)
  BY FiredGood
<1>5. Same(f, b)
  BY <1>4 DEF Fit, Good, Same
<1>6. Fit(b)
  BY <1>4, <1>5, SameKeeps DEF Fit
<1>7. CASE TimeoutCompleteTaskAck(n)
  <2>1. Good(Fired(n, "T_CompleteTaskAck"))
    BY FiredGood
  <2> QED
    BY <1>7, <2>1, SetStateFits, TimeoutStep DEF TimeoutCompleteTaskAck
<1>8. CASE TimeoutExpireReception(n)
  BY <1>1, <1>8, NewRequestFits, TimeoutStep DEF TimeoutExpireReception
<1>9. CASE TimeoutIncompleteTaskAck(n)
  <2>1. Fit(SetState(a, "INITIAL", Nothing).s)
    BY <1>3, SetStateFits
  <2> QED
    BY <1>9, <2>1, TimeoutStep DEF TimeoutIncompleteTaskAck
<1>10. CASE TimeoutDownload(n)
  <2>1. Fit(StateMachine(b, Report(n, "ResourceInfoFromCN", "CompleteTask")).s)
    BY <1>6 DEF StateMachine, Effect
  <2> QED
    BY <1>10, <2>1, TimeoutStep DEF TimeoutDownload
<1> QED
  BY <1>7, <1>8, <1>9, <1>10

-----------------------------------------------------------------------------
(* The packets.                                                            *)

LEMMA RecvStep ==
    ASSUME IInv, NEW src, NEW n \in Nodes, NEW type, NEW e, Fit(e.s), Recv(src, n, type, e)
    PROVE  IInv'
BY ApplyStep DEF Recv

\* A message that is only noted.
LEMMA NotingFits ==
    ASSUME IInv, NEW n \in Nodes, NEW type
    PROVE  Fit(Noting(n, type)) /\ Noting(n, type).nodeState = sm[n].nodeState
<1>1. Fit(sm[n])
  BY DEF IInv
<1>2. Same(sm[n], Noting(n, type))
  BY <1>1 DEF Fit, Good, Same, Noting
<1> QED
  BY <1>1, <1>2, SameKeeps DEF Fit, Same

LEMMA StateMachineFits ==
    ASSUME NEW s, Fit(s), NEW p
    PROVE  Fit(StateMachine(s, p).s) /\ Fit(Stay(s, p).s)
BY DEF StateMachine, Stay, Effect

\* The answer ends the wait: the timer is cancelled and the state is left.
LEMMA RecvCloudResourceInfoStep ==
    ASSUME IInv, NEW src, NEW n \in Nodes, RecvCloudResourceInfo(src, n)
    PROVE  IInv'
<1>. DEFINE info == Head(net[src][n]).hosts
            c == Cancel(Noting(n, "CloudResourceInfo"), "T_ResourceRequest")
            s == [c EXCEPT !.hosts = info]
            a == ScheduleNow(s, "T_TaskDistribution")
            b == [s EXCEPT !.insufficient = TRUE, !.RecvMsg = "Nothing"]
            some == SetState(Distributing(a), "TASKDISTRIBUTION", Nothing)
            none == SetState(b, "INITIAL", Then(All("CloudRelease", n), All("InsufficientResources", n)))
<1>1. Good(c)
  BY NotingFits, CancelKeeps DEF Fit
<1>2. Same(c, s)
  BY <1>1 DEF Good, Same
<1>3. Good(s)
  BY <1>1, <1>2, SameKeeps
<1>4. Good(a)
  BY <1>3, ScheduleNowKeeps DEF Timers
<1>5. Same(a, Distributing(a))
  BY <1>4 DEF Good, Same, Distributing
<1>6. Same(s, b)
  BY <1>3 DEF Good, Same
<1>7. Good(Distributing(a)) /\ Good(b)
  BY <1>3, <1>4, <1>5, <1>6, SameKeeps
<1>8. Fit(some.s) /\ Fit(none.s)
  BY <1>7, SetStateFits
<1>9. Recv(src, n, "CloudResourceInfo", IF info # {} THEN some ELSE none)
  BY DEF RecvCloudResourceInfo
<1>. HIDE DEF some, none
<1>10. CASE info # {}
  BY <1>8, <1>9, <1>10, RecvStep
<1>11. CASE info = {}
  BY <1>8, <1>9, <1>11, RecvStep
<1> QED
  BY <1>10, <1>11

LEMMA SendTaskToCNStep ==
    ASSUME IInv, NEW src, NEW n \in Nodes, AcceptTask(src, n) \/ RefuseTask(src, n)
    PROVE  IInv'
<1>. DEFINE s == Noting(n, "SendTaskToCN")
            a == [s EXCEPT !.responseIp = src, !.agreed = TRUE]
            b == [s EXCEPT !.responseIp = src]
<1>1. Fit(s)
  BY NotingFits
<1>2. Same(s, a) /\ Same(s, b)
  BY <1>1 DEF Fit, Good, Same
<1>3. Fit(a) /\ Fit(b)
  BY <1>1, <1>2, SameKeeps DEF Fit
<1>4. Fit(Rearm(a, "T_Download"))
  BY <1>3, RearmKeeps DEF Fit, Timed, Timers
<1>5. CASE AcceptTask(src, n)
  BY <1>4, <1>5, StateMachineFits, RecvStep DEF AcceptTask
<1>6. CASE RefuseTask(src, n)
  BY <1>3, <1>6, StateMachineFits, RecvStep DEF RefuseTask
<1> QED
  BY <1>5, <1>6

LEMMA RecvCompleteTaskAckStep ==
    ASSUME IInv, NEW src, NEW n \in Nodes, RecvCompleteTaskAck(src, n)
    PROVE  IInv'
<1>. DEFINE s == Cancel(CancelTimers(sm[n]), "T_Download")
            a == [s EXCEPT !.RecvMsg = "Nothing", !.FinishFlag = 0]
<1>1. Good(s)
  BY CancelTimersKeeps, CancelKeeps DEF IInv, Fit
<1>2. Same(s, a)
  BY <1>1 DEF Good, Same
<1>3. Fit(SetState(a, "INITIAL", Nothing).s)
  BY <1>1, <1>2, SameKeeps, SetStateFits
<1> QED
  BY <1>3, RecvStep DEF RecvCompleteTaskAck

\* The reports and refusals, and what is noted only.
LEMMA OtherPacketsStep ==
    ASSUME IInv, NEW src, NEW n \in Nodes,
           \/ RecvCompleteTask(src, n) \/ RecvIncompleteTask(src, n) \/ RecvNotAccepted(src, n)
           \/ RecvResourceInfoFromCN(src, n) \/ RecvNoted(src, n)
    PROVE  IInv'
<1>. DEFINE s == Noting(n, "ResourceInfoFromCN")
            a == [s EXCEPT !.CompleteTaskCounter = Bump(@)]
            b == [a EXCEPT !.responseIp = src]
            c == [Noting(n, "IncompleteTask") EXCEPT !.responseIp = src]
<1>1. CASE RecvCompleteTask(src, n)
  BY <1>1, NotingFits, StateMachineFits, RecvStep DEF RecvCompleteTask
<1>2. CASE RecvIncompleteTask(src, n)
  <2>1. Same(Noting(n, "IncompleteTask"), c)
    BY NotingFits DEF Fit, Good, Same
  <2>2. Fit(StateMachine(c, Nothing).s)
    BY <2>1, NotingFits, SameKeeps, StateMachineFits DEF Fit
  <2> QED
    BY <1>2, <2>2, RecvStep DEF RecvIncompleteTask
<1>3. CASE RecvNotAccepted(src, n)
  BY <1>3, NotingFits, StateMachineFits, RecvStep DEF RecvNotAccepted
<1>4. CASE RecvResourceInfoFromCN(src, n)
  <2>1. Same(s, a)
    BY NotingFits DEF Fit, Good, Same
  <2>2. Fit(a)
    BY <2>1, NotingFits, SameKeeps DEF Fit
  <2>3. Same(a, b)
    BY <2>2 DEF Fit, Good, Same
  <2>4. Fit(b)
    BY <2>2, <2>3, SameKeeps DEF Fit
  <2>5. Recv(src, n, "ResourceInfoFromCN",
             IF a.nodeState = "TASKRECEPTION"
             THEN StateMachine(b, One("CompleteTaskAck", src)) ELSE Stay(a, Nothing))
    BY <1>4 DEF RecvResourceInfoFromCN
  <2>. HIDE DEF a, b
  <2>6. CASE a.nodeState = "TASKRECEPTION"
    BY <2>4, <2>5, <2>6, StateMachineFits, RecvStep
  <2>7. CASE a.nodeState # "TASKRECEPTION"
    BY <2>2, <2>5, <2>7, StateMachineFits, RecvStep
  <2> QED
    BY <2>6, <2>7
<1>5. CASE RecvNoted(src, n)
  <2>1. PICK type : Recv(src, n, type, Stay(Noting(n, type), Nothing))
    BY <1>5 DEF RecvNoted
  <2> QED
    BY <2>1, NotingFits, StateMachineFits, RecvStep
<1> QED
  BY <1>1, <1>2, <1>3, <1>4, <1>5

\* A region change sets a flag and runs the state function.
LEMMA MoveStep ==
    ASSUME IInv, NEW n \in Nodes, NEW flag, NEW calls, Move(n, flag, calls)
    PROVE  IInv'
<1>. DEFINE a == [sm[n] EXCEPT !.IntersectionFlag = flag]
<1>1. Same(sm[n], a)
  BY DEF IInv, Fit, Good, Same
<1>2. Fit(a)
  BY <1>1, SameKeeps DEF IInv, Fit
<1>3. Fit(Effect(a, calls, Nothing).s)
  BY <1>2 DEF Effect
<1> QED
  BY <1>3, ApplyStep DEF Move

-----------------------------------------------------------------------------
\* Everybody starts in INITIAL with no timer.
LEMMA InitIInv == Init => IInv
<1>1. ASSUME Init, NEW n \in Nodes
      PROVE  DOMAIN sm = Nodes /\ Fit(sm[n])
  <2>1. /\ DOMAIN sm = Nodes
        /\ {"nodeState", "armed", "due"} \subseteq DOMAIN sm[n]
        /\ sm[n].nodeState = "INITIAL" /\ sm[n].due = <<>>
    BY <1>1 DEF Init
  <2> QED
    BY <2>1 DEF Fit, Good, Timed
<1>2. Init => DOMAIN sm = Nodes
  BY DEF Init
<1> QED
  BY <1>1, <1>2 DEF IInv

\* One step per action.
LEMMA NextIInv == IInv /\ [Next]_vars => IInv'
<1> SUFFICES ASSUME IInv, [Next]_vars PROVE IInv'
  OBVIOUS
<1>1. CASE \E n \in Nodes, fn \in Functions, i \in 1 .. 5 : Execute(n, fn, i)
  BY <1>1, ExecuteStep
<1>2. CASE \E n \in Nodes : TimerStep(n)
  BY <1>2, TimeoutResourceRequestStep, TimeoutTaskDistributionStep, TimeoutTaskReceptionStep,
     OtherTimeoutsStep DEF TimerStep
<1>3. CASE \E n \in Nodes : EnterIntersection(n) \/ LeaveIntersection(n) \/ EnterDebugRegion(n)
  BY <1>3, MoveStep DEF EnterIntersection, LeaveIntersection, EnterDebugRegion
<1>4. CASE \E src \in Everyone, n \in Nodes : RecvPkt(src, n)
  BY <1>4, RecvCloudResourceInfoStep, SendTaskToCNStep, RecvCompleteTaskAckStep,
     OtherPacketsStep DEF RecvPkt
<1>5. CASE UNCHANGED sm
  BY <1>5 DEF IInv
<1> QED
  BY <1>1, <1>2, <1>3, <1>4, <1>5
     DEF Next, Return, RecvResourceRequest, Lose, vars

\* The invariant that RequestIsTimed rests on.
THEOREM IInvHolds == Spec => []IInv
BY InitIInv, NextIInv, PTL DEF Spec

(***************************************************************************)
(* A vehicle that waits for an answer has the timer that ends the wait     *)
(* (RequestIsTimed), whatever is lost and wherever it drives: once the code *)
(* and the due timers have run, the timer is one with a delay.             *)
(***************************************************************************)
THEOREM RequestsAreTimed == Spec => []RequestIsTimed
<1>1. IInv => RequestIsTimed
  BY DEF IInv, Fit, Timed, IsRunning, RequestIsTimed, Settled
<1> QED
  BY <1>1, IInvHolds, PTL
=============================================================================
