-------------------------- MODULE TimerProofs ------------------------------
(***************************************************************************)
(* A follower is never left without a timeout, for any number of messages, *)
(* and until the heartbeat timer is first stopped no two goroutines make   *)
(* its ticks, for any number of leaderships.                               *)
(***************************************************************************)
EXTENDS ElectionTimer, HeartbeatTimer, TLAPS

\* What a step does to the timer keeps the types.
LEMMA ResetTimerType ==
  ASSUME TypeOK
  PROVE  ResetTimer \in Timer /\ (~stopped => ResetTimer.armed)
BY DEF TypeOK, ResetTimer, Timer, Timeout, Aged

\* So does Reset, which also arms the timer of a node that runs.
LEMMA ResetType ==
  ASSUME TypeOK, Reset
  PROVE  timer' \in Timer /\ taken' \in Timeout /\ (~stopped => timer'.armed)
BY ResetTimerType DEF Reset, TypeOK, Timeout, Aged

\* Every step keeps the types.
LEMMA TypeStep == TypeOK /\ [Next]_vars => TypeOK'
<1> SUFFICES ASSUME TypeOK, [Next]_vars PROVE TypeOK'
  OBVIOUS
<1>1. CASE Expire
  BY <1>1 DEF Expire, TypeOK, Timer, Timeout
<1>2. CASE Callback
  BY <1>2 DEF Callback, TypeOK, Timer, Timeout
<1>3. CASE RunReceives
  BY <1>3 DEF RunReceives, TypeOK, Timer, Timeout
<1>4. CASE RunExits
  BY <1>4 DEF RunExits, TypeOK
<1>5. CASE HandleElectionTimeout
  BY <1>5 DEF HandleElectionTimeout, TypeOK, Timeout
<1>6. CASE BecomeCandidate
  BY <1>6, ResetTimerType DEF BecomeCandidate, TypeOK, NodeState, Timeout
<1>7. CASE FinishElection
  BY <1>7, ResetType DEF FinishElection, SetState, TypeOK, NodeState
<1>8. ASSUME NEW newer \in BOOLEAN, HandleAppendEntries(newer) PROVE TypeOK'
  BY <1>8, ResetType DEF HandleAppendEntries, TypeOK, NodeState
<1>9. ASSUME NEW newer \in BOOLEAN, NEW granted \in BOOLEAN, HandleRequestVote(newer, granted)
      PROVE  TypeOK'
  BY <1>9, ResetType DEF HandleRequestVote, TypeOK, NodeState
<1>10. CASE DiscoverNewerTerm
  BY <1>10, ResetType DEF DiscoverNewerTerm, SetState, TypeOK, NodeState
<1>11. CASE Stop \/ StopReturns
  BY <1>11 DEF Stop, StopReturns, TypeOK, Timer
<1>12. CASE UNCHANGED vars
  BY <1>12 DEF vars, TypeOK
<1> QED
  BY <1>1, <1>2, <1>3, <1>4, <1>5, <1>6, <1>7, <1>8, <1>9, <1>10, <1>11, <1>12 DEF Next

\* Every step keeps a timeout coming for a follower.
LEMMA FollowerStep == TypeOK /\ FollowerTimesOut /\ [Next]_vars => FollowerTimesOut'
<1> SUFFICES ASSUME TypeOK, FollowerTimesOut, [Next]_vars, state' = "Follower", ~stopped'
             PROVE  TimeoutComing'
  BY DEF FollowerTimesOut
<1> USE DEF TimeoutComing
<1>1. CASE Expire
  BY <1>1 DEF Expire, TypeOK, Timer
<1>2. CASE Callback
  BY <1>2 DEF Callback, TypeOK, Timer
<1>3. CASE RunReceives
  BY <1>3 DEF RunReceives
<1>4. CASE RunExits
  BY <1>4 DEF RunExits
<1>5. CASE HandleElectionTimeout
  BY <1>5 DEF HandleElectionTimeout, FollowerTimesOut
<1>6. CASE BecomeCandidate
  BY <1>6 DEF BecomeCandidate
<1>7. CASE FinishElection
  BY <1>7 DEF FinishElection, SetState, FollowerTimesOut
<1>8. ASSUME NEW newer \in BOOLEAN, HandleAppendEntries(newer) PROVE TimeoutComing'
  BY <1>8, ResetType DEF HandleAppendEntries
<1>9. ASSUME NEW newer \in BOOLEAN, NEW granted \in BOOLEAN, HandleRequestVote(newer, granted)
      PROVE  TimeoutComing'
  BY <1>9, ResetType DEF HandleRequestVote, FollowerTimesOut
<1>10. CASE DiscoverNewerTerm
  BY <1>10, ResetType DEF DiscoverNewerTerm, SetState, FollowerTimesOut
<1>11. CASE Stop \/ StopReturns
  BY <1>11 DEF Stop, StopReturns, FollowerTimesOut
<1>12. CASE UNCHANGED vars
  BY <1>12 DEF vars, FollowerTimesOut
<1> QED
  BY <1>1, <1>2, <1>3, <1>4, <1>5, <1>6, <1>7, <1>8, <1>9, <1>10, <1>11, <1>12 DEF Next

\* However many messages arrive, and wherever they meet the callback, the channel and the
\* critical sections of run(), a follower always has a timeout armed or on its way: it cannot
\* wait for a dead leader for ever.
THEOREM FollowerAlwaysTimesOut == Spec => []FollowerTimesOut
<1>1. ASSUME Init PROVE TypeOK /\ FollowerTimesOut
  <2>1. timer \in Timer /\ timer.armed
    BY <1>1 DEF Init, Timer, Timeout
  <2>2. TypeOK
    BY <1>1, <2>1 DEF Init, TypeOK, NodeState, Timeout
  <2> QED
    BY <2>1, <2>2 DEF FollowerTimesOut, TimeoutComing
<1> QED
  BY <1>1, TypeStep, FollowerStep, PTL DEF Spec

-----------------------------------------------------------------------------
(* A leader is made by the election run() is in, so not while run() is about to start one. *)

\* Between the check of handleElectionTimeout and becomeCandidate the lock is free, but nobody
\* makes the node leader there: the goroutine that would is the one about to campaign.
NoLeaderAtStart == loop = "start" => state # "Leader"

\* Every step keeps NoLeaderAtStart, and none turns a leader into a candidate.
LEMMA NoLeaderStep ==
  ASSUME NoLeaderAtStart, [Next]_vars
  PROVE  NoLeaderAtStart' /\ (state = "Leader" => state' # "Candidate")
<1> USE DEF NoLeaderAtStart
<1>1. CASE Expire \/ Callback \/ RunReceives \/ RunExits \/ Stop \/ StopReturns
  BY <1>1 DEF Expire, Callback, RunReceives, RunExits, Stop, StopReturns
<1>2. CASE HandleElectionTimeout
  BY <1>2 DEF HandleElectionTimeout
<1>3. CASE BecomeCandidate
  BY <1>3 DEF BecomeCandidate
<1>4. CASE FinishElection
  BY <1>4 DEF FinishElection, SetState
<1>5. ASSUME NEW newer \in BOOLEAN, HandleAppendEntries(newer)
      PROVE  NoLeaderAtStart' /\ (state = "Leader" => state' # "Candidate")
  BY <1>5 DEF HandleAppendEntries
<1>6. ASSUME NEW newer \in BOOLEAN, NEW granted \in BOOLEAN, HandleRequestVote(newer, granted)
      PROVE  NoLeaderAtStart' /\ (state = "Leader" => state' # "Candidate")
  BY <1>6 DEF HandleRequestVote
<1>7. CASE DiscoverNewerTerm
  BY <1>7 DEF DiscoverNewerTerm, SetState
<1>8. CASE UNCHANGED vars
  BY <1>8 DEF vars
<1> QED
  BY <1>1, <1>2, <1>3, <1>4, <1>5, <1>6, <1>7, <1>8 DEF Next

\* The timer a leader armed when it became one expires like any other, and handleElectionTimeout
\* lets go of the lock before becomeCandidate takes it: still no leader becomes a candidate, for
\* any number of messages.
THEOREM LeadersNeverCampaign == Spec => LeaderNeverCampaigns
<1>1. Init => NoLeaderAtStart
  BY DEF Init, NoLeaderAtStart
<1>2. NoLeaderAtStart /\ [Next]_vars => NoLeaderAtStart'
  BY NoLeaderStep
<1>3. NoLeaderAtStart /\ [Next]_vars => [state = "Leader" => state' # "Candidate"]_vars
  BY NoLeaderStep
<1> QED
  BY <1>1, <1>2, <1>3, PTL DEF Spec, LeaderNeverCampaigns

-----------------------------------------------------------------------------
(* The heartbeat timer *)

\* The inductive invariant of OneTicker.  run() is started only by a Start that finds the timer not
\* running, and a timer that is not running has no goroutine until it is stopped for the first time.
Tickers ==
  /\ runners \in Nat /\ resetters \in Nat
  /\ ~stopClosed => runners + resetters <= 1
  /\ ~stopClosed /\ ~running => runners = 0 /\ resetters = 0

\* Every step of the heartbeat timer keeps Tickers.
LEMMA TickersStep == Tickers /\ [HeartbeatNext]_heartbeatVars => Tickers'
<1> SUFFICES ASSUME Tickers, [HeartbeatNext]_heartbeatVars PROVE Tickers'
  OBVIOUS
<1> USE DEF Tickers, timerVars, goVars
<1>1. CASE BecomeLeader \/ StepDown \/ TimerFires \/ HandleTick \/ HeartbeatsSent
  BY <1>1 DEF BecomeLeader, StepDown, TimerFires, HandleTick, HeartbeatsSent
<1>2. CASE StartHeartbeatTimer
  <2>1. CASE running
    BY <1>2, <2>1 DEF StartHeartbeatTimer, TimerStart
  <2>2. CASE ~running
    <3>1. runners' = runners + 1 /\ running' = TRUE /\ UNCHANGED <<resetters, stopClosed>>
      BY <1>2, <2>2 DEF StartHeartbeatTimer, TimerStart
    <3> QED
      BY <2>2, <3>1
  <2> QED
    BY <2>1, <2>2
<1>3. CASE StopHeartbeatTimer
  BY <1>3 DEF StopHeartbeatTimer
<1>4. CASE RunStops
  BY <1>4 DEF RunStops
<1>5. CASE RunTicks
  BY <1>5 DEF RunTicks
<1>6. CASE RunResets
  BY <1>6 DEF RunResets
<1>7. CASE UNCHANGED heartbeatVars
  BY <1>7 DEF heartbeatVars
<1> QED
  BY <1>1, <1>2, <1>3, <1>4, <1>5, <1>6, <1>7 DEF HeartbeatNext

\* For any number of leaderships, and however the goroutines of startHeartbeatTimer and
\* stopHeartbeatTimer overtake each other, one goroutine at most makes the ticks of a timer that
\* has never been stopped.
THEOREM FirstTimerHasOneTicker == HeartbeatSpec => []OneTicker
<1>1. HeartbeatInit => Tickers
  BY DEF HeartbeatInit, Tickers
<1>2. Tickers => OneTicker
  BY DEF Tickers, OneTicker
<1> QED
  BY <1>1, <1>2, TickersStep, PTL DEF HeartbeatSpec
=============================================================================
