---------------------------- MODULE HeartbeatTimer ----------------------------
(***************************************************************************)
(* The periodic heartbeats of one node: HeartbeatTimer                     *)
(* (pkg/raft/heartbeat.go), the goroutines becomeLeader and stepDown leave *)
(* to start and stop it, and the goroutines that turn its ticks into       *)
(* heartbeats.                                                             *)
(*                                                                         *)
(* The node keeps one HeartbeatTimer for all its leaderships.  Goroutines  *)
(* of the same kind are interchangeable, so they are counted.  Names that  *)
(* ElectionTimer has too, the other timer of the node, are told apart, so  *)
(* that one module can extend both.                                        *)
(***************************************************************************)
EXTENDS Naturals

CONSTANT MaxLeaderships  \* bound: elections this node wins

ASSUME LeadershipsAssumption == MaxLeaderships \in Nat

VARIABLES
  leader,      \* Node.state = Leader
  starts,      \* goroutines of startHeartbeatTimer that have not run yet
  stops,       \* goroutines of stopHeartbeatTimer that have not run yet
  created,     \* Node.heartbeatTimer # nil
  running,     \* HeartbeatTimer.running
  stopClosed,  \* HeartbeatTimer.stopCh is closed
  beatTimer,   \* HeartbeatTimer.timer: "off", "armed", or "fired" with its tick in timer.C
  tick,        \* a tick is in the channel c
  runners,     \* goroutines of HeartbeatTimer.run in their select
  resetters,   \* goroutines of HeartbeatTimer.run between the tick and its reset
  handlers,    \* goroutines of handleHeartbeatTicks in their select
  senders,     \* goroutines of handleHeartbeatTicks in sendHeartbeats
  panicked,    \* the process has died of a panic
  leaderships  \* counter of the bounded events

timerVars == <<created, running, stopClosed, beatTimer, tick>>
goVars == <<starts, stops, runners, resetters, handlers, senders>>
heartbeatVars == <<leader, timerVars, goVars, panicked, leaderships>>

HeartbeatInit ==
  /\ leader = FALSE
  /\ starts = 0 /\ stops = 0
  /\ created = FALSE /\ running = FALSE /\ stopClosed = FALSE
  /\ beatTimer = "off" /\ tick = FALSE
  /\ runners = 0 /\ resetters = 0 /\ handlers = 0 /\ senders = 0
  /\ panicked = FALSE
  /\ leaderships = 0

-----------------------------------------------------------------------------
(* The role of the node *)

BecomeLeader ==
  /\ ~panicked /\ ~leader /\ leaderships < MaxLeaderships
  /\ leaderships' = leaderships + 1
  /\ leader' = TRUE
  /\ starts' = starts + 1
  /\ UNCHANGED <<timerVars, stops, runners, resetters, handlers, senders, panicked>>

StepDown ==
  /\ ~panicked /\ leader
  /\ leader' = FALSE
  /\ stops' = stops + 1
  /\ UNCHANGED <<timerVars, starts, runners, resetters, handlers, senders, panicked, leaderships>>

-----------------------------------------------------------------------------
(* Starting and stopping, by goroutines that may run in any order *)

\* Mutant of TimerStart: a running timer is started again.
TimerStartAlways ==
  /\ running' = TRUE /\ beatTimer' = "armed" /\ runners' = runners + 1

\* HeartbeatTimer.Start: a new time.Timer and a new goroutine, the same stopCh.
TimerStart ==
  IF running THEN UNCHANGED <<running, beatTimer, runners>>
  ELSE running' = TRUE /\ beatTimer' = "armed" /\ runners' = runners + 1

\* startHeartbeatTimer, which does not ask whether the node still leads.
StartHeartbeatTimer ==
  /\ ~panicked /\ starts > 0
  /\ starts' = starts - 1
  /\ created' = TRUE
  /\ TimerStart
  /\ handlers' = handlers + 1
  /\ UNCHANGED <<leader, stopClosed, tick, stops, resetters, senders, panicked, leaderships>>

\* stopHeartbeatTimer and HeartbeatTimer.Stop.  Closing a closed channel panics.
StopHeartbeatTimer ==
  /\ ~panicked /\ stops > 0
  /\ stops' = stops - 1
  /\ IF created /\ running
     THEN /\ running' = FALSE
          /\ stopClosed' = TRUE
          /\ panicked' = stopClosed
          /\ beatTimer' = "off"
     ELSE UNCHANGED <<running, stopClosed, panicked, beatTimer>>
  /\ UNCHANGED <<leader, created, tick, starts, runners, resetters, handlers, senders, leaderships>>

-----------------------------------------------------------------------------
(* Ticks *)

TimerFires ==
  /\ ~panicked /\ beatTimer = "armed"
  /\ beatTimer' = "fired"
  /\ UNCHANGED <<leader, created, running, stopClosed, tick, goVars, panicked, leaderships>>

\* A select of run() in which stopCh is ready.
RunStops ==
  /\ ~panicked /\ runners > 0 /\ stopClosed
  /\ runners' = runners - 1
  /\ UNCHANGED <<leader, timerVars, starts, stops, resetters, handlers, senders,
                 panicked, leaderships>>

\* A select of run() in which the timer is ready: a full channel skips the tick.
RunTicks ==
  /\ ~panicked /\ runners > 0 /\ beatTimer = "fired"
  /\ beatTimer' = "off"
  /\ tick' = TRUE
  /\ runners' = runners - 1 /\ resetters' = resetters + 1
  /\ UNCHANGED <<leader, created, running, stopClosed, starts, stops, handlers, senders,
                 panicked, leaderships>>

\* Mutant of RunResets: the timer is not armed for the next tick.
RunForgetsReset ==
  /\ ~panicked /\ resetters > 0
  /\ resetters' = resetters - 1 /\ runners' = runners + 1
  /\ UNCHANGED <<leader, timerVars, starts, stops, handlers, senders, panicked, leaderships>>

\* The critical section of run() after a tick.
RunResets ==
  /\ ~panicked /\ resetters > 0
  /\ resetters' = resetters - 1 /\ runners' = runners + 1
  /\ beatTimer' = IF running THEN "armed" ELSE beatTimer
  /\ UNCHANGED <<leader, created, running, stopClosed, tick, starts, stops, handlers, senders,
                 panicked, leaderships>>

\* handleHeartbeatTicks takes a tick, and returns unless the node leads.
HandleTick ==
  /\ ~panicked /\ handlers > 0 /\ tick
  /\ tick' = FALSE
  /\ handlers' = handlers - 1
  /\ senders' = IF leader THEN senders + 1 ELSE senders
  /\ UNCHANGED <<leader, created, running, stopClosed, beatTimer, starts, stops, runners,
                 resetters, panicked, leaderships>>

\* sendHeartbeats has waited for its calls, each of which has a timeout.
HeartbeatsSent ==
  /\ ~panicked /\ senders > 0
  /\ senders' = senders - 1 /\ handlers' = handlers + 1
  /\ UNCHANGED <<leader, timerVars, starts, stops, runners, resetters, panicked, leaderships>>

-----------------------------------------------------------------------------
HeartbeatNext ==
  \/ BecomeLeader \/ StepDown
  \/ StartHeartbeatTimer \/ StopHeartbeatTimer
  \/ TimerFires \/ RunStops \/ RunTicks \/ RunResets
  \/ HandleTick \/ HeartbeatsSent

\* Goroutines that can run are scheduled, time passes and calls end.  Nothing makes the node
\* win or lose an election.
HeartbeatFairness ==
  /\ WF_heartbeatVars(StartHeartbeatTimer) /\ WF_heartbeatVars(StopHeartbeatTimer)
  /\ WF_heartbeatVars(TimerFires) /\ WF_heartbeatVars(RunStops)
  /\ WF_heartbeatVars(RunTicks) /\ WF_heartbeatVars(RunResets)
  /\ WF_heartbeatVars(HandleTick) /\ WF_heartbeatVars(HeartbeatsSent)

HeartbeatSpec == HeartbeatInit /\ [][HeartbeatNext]_heartbeatVars /\ HeartbeatFairness

-----------------------------------------------------------------------------
(* Properties *)

\* Until the timer is stopped for the first time one goroutine makes its ticks, however the
\* goroutines that start and stop it overtake each other: heartbeats come once per interval.
OneTicker == ~stopClosed => runners + resetters <= 1

\* A node that stays leader after its first election sends heartbeats again and again.
FirstLeadershipBeats == <>[](leader /\ leaderships = 1) => []<>(senders > 0)

\* A node that stays leader sends heartbeats again and again, also one that has led before.
HeartbeatsContinue == <>[]leader => []<>(senders > 0)

\* Stopping the timer whenever a leadership ends is safe.
NoPanic == ~panicked

\* The timer of a node that leads no more stops, whatever the order in which the goroutines of
\* startHeartbeatTimer and stopHeartbeatTimer get the lock.
TimerStops == <>[](~leader) => <>[](~running)
=============================================================================
