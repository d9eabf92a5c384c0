----------------------------- MODULE ElectionTimer -----------------------------
(***************************************************************************)
(* The election timeout of one node: ElectionTimer (pkg/raft/timer.go),    *)
(* the loop run() that waits for it, and the role changes of node.go that  *)
(* reset it.                                                               *)
(*                                                                         *)
(* The rest of the cluster is the environment: it may send this node any   *)
(* message its role allows, MaxMessages of them, and is silent from then   *)
(* on.  Terms and logs are left out, messages say what they decide.        *)
(*                                                                         *)
(* A timeout goes through four places: the armed time.AfterFunc, the       *)
(* goroutine of its callback, the channel c of capacity 1, and run().      *)
(* Whether the timer has been reset since it expired is recorded with it   *)
(* ("fresh" or "stale"); the code does not know.                           *)
(***************************************************************************)
EXTENDS Naturals

CONSTANT MaxMessages  \* bound: messages of other nodes handled by this one

ASSUME MessagesAssumption == MaxMessages \in Nat

VARIABLES
  state,    \* Node.state
  timer,    \* armed: t.timer runs; fired: a callback that has not sent yet; c: the channel
  stopped,  \* Node.stopCh is closed and the timer stopped
  holding,  \* Node.Stop holds Node.mu, over the GracefulStop of the RPC server
  loop,     \* where run() is
  taken,    \* the timeout run() works on
  messages  \* counter of the bounded events

vars == <<state, timer, stopped, holding, loop, taken, messages>>

NodeState == {"Follower", "Candidate", "Leader"}
Timeout == {"none", "fresh", "stale"}
Timer == [armed : BOOLEAN, fired : Timeout, c : Timeout]

-----------------------------------------------------------------------------
Aged(timeout) == IF timeout = "fresh" THEN "stale" ELSE timeout

\* ElectionTimer.Reset: a new time.AfterFunc.  The callback of the old one may already run,
\* and a timeout in the channel stays there.
ResetTimer ==
  IF stopped THEN timer
  ELSE [armed |-> TRUE, fired |-> Aged(timer.fired), c |-> Aged(timer.c)]

Reset ==
  /\ timer' = ResetTimer
  /\ taken' = IF stopped THEN taken ELSE Aged(taken)

\* Mutant of SetState: the timer is left alone.
SetStateOnly(s) == state' = s /\ UNCHANGED <<timer, taken>>

\* setState: the timer is reset when the state really changes, and only then.
SetState(s) ==
  /\ state' = s
  /\ IF state # s THEN Reset ELSE UNCHANGED <<timer, taken>>

\* Start, called when the node is started, has armed the timer.
Init ==
  /\ state = "Follower"
  /\ timer = [armed |-> TRUE, fired |-> "none", c |-> "none"]
  /\ stopped = FALSE
  /\ holding = FALSE
  /\ loop = "select"
  /\ taken = "none"
  /\ messages = 0

-----------------------------------------------------------------------------
(* The timer *)

\* The timer expires.  A callback runs long before the next timer of >= 150ms expires.
Expire ==
  /\ timer.armed /\ timer.fired = "none"
  /\ timer' = [timer EXCEPT !.armed = FALSE, !.fired = "fresh"]
  /\ UNCHANGED <<state, stopped, holding, loop, taken, messages>>

\* The callback of time.AfterFunc: a full channel skips the tick.
Callback ==
  /\ timer.fired # "none"
  /\ timer' = [timer EXCEPT !.fired = "none", !.c = IF @ = "none" THEN timer.fired ELSE @]
  /\ UNCHANGED <<state, stopped, holding, loop, taken, messages>>

-----------------------------------------------------------------------------
(* The goroutine of run() *)

RunReceives ==
  /\ loop = "select" /\ timer.c # "none"
  /\ loop' = "timeout"
  /\ taken' = timer.c
  /\ timer' = [timer EXCEPT !.c = "none"]
  /\ UNCHANGED <<state, stopped, holding, messages>>

\* Mutant of RunExits: stopCh is looked at only after a timeout.
RunExitsAfterTimeout ==
  /\ loop = "timeout" /\ stopped
  /\ loop' = "exited"
  /\ UNCHANGED <<state, timer, stopped, holding, taken, messages>>

RunExits ==
  /\ loop = "select" /\ stopped
  /\ loop' = "exited"
  /\ UNCHANGED <<state, timer, stopped, holding, taken, messages>>

\* Mutant of HandleElectionTimeout: a leader's timeout starts an election too.
HandleAnyTimeout ==
  /\ loop = "timeout" /\ ~holding
  /\ loop' = "start"
  /\ UNCHANGED <<state, timer, stopped, holding, taken, messages>>

\* handleElectionTimeout reads the state under the lock, and then calls startElection.
HandleElectionTimeout ==
  /\ loop = "timeout" /\ ~holding
  /\ IF state = "Leader"
     THEN loop' = "select" /\ taken' = "none"
     ELSE loop' = "start" /\ UNCHANGED taken
  /\ UNCHANGED <<state, timer, stopped, holding, messages>>

\* becomeCandidate, the first critical section of startElection.
BecomeCandidate ==
  /\ loop = "start" /\ ~holding
  /\ loop' = "election"
  /\ state' = "Candidate"
  /\ taken' = "none"
  /\ timer' = IF state # "Candidate" THEN ResetTimer ELSE timer
  /\ UNCHANGED <<stopped, holding, messages>>

\* The rest of startElection, which returns after the answers or the timeouts of all calls.
\* A node that is still a candidate is so in the same term: only run() makes candidates.
\* Winning takes the lock; calls that fail are counted without it.
FinishElection ==
  /\ loop = "election"
  /\ loop' = "select"
  /\ \/ state = "Candidate" /\ ~holding /\ SetState("Leader")
     \/ UNCHANGED <<state, timer, taken>>
  /\ UNCHANGED <<stopped, holding, messages>>

-----------------------------------------------------------------------------
(* Messages of other nodes, and the shutdown.  A handler that finds the lock taken by Stop   *)
(* keeps GracefulStop from returning, so it never gets on: no request is handled once the    *)
(* node is being stopped.  Answers to the node's own calls are, when Stop has returned.      *)

\* processAppendEntries of a current or newer term.
HandleAppendEntries(newer) ==
  /\ ~stopped /\ messages < MaxMessages
  /\ messages' = messages + 1
  /\ state' = IF newer \/ state = "Candidate" THEN "Follower" ELSE state
  /\ Reset
  /\ UNCHANGED <<stopped, holding, loop>>

\* requestVote.  In its own term only a node that has not voted, a follower, may grant.
HandleRequestVote(newer, granted) ==
  /\ ~stopped /\ messages < MaxMessages
  /\ messages' = messages + 1
  /\ granted => newer \/ state = "Follower"
  /\ state' = IF newer THEN "Follower" ELSE state
  /\ IF granted \/ (newer /\ state # "Follower") THEN Reset ELSE UNCHANGED <<timer, taken>>
  /\ UNCHANGED <<stopped, holding, loop>>

\* stepDown, for a newer term in an answer or in an InstallSnapshot request.
DiscoverNewerTerm ==
  /\ messages < MaxMessages /\ ~holding
  /\ messages' = messages + 1
  /\ SetState("Follower")
  /\ UNCHANGED <<stopped, holding, loop>>

\* Node.Stop takes Node.mu, closes stopCh and stops the timer.  A second Stop does nothing.
Stop ==
  /\ ~stopped
  /\ stopped' = TRUE
  /\ holding' = TRUE
  /\ timer' = [timer EXCEPT !.armed = FALSE]
  /\ UNCHANGED <<state, loop, taken, messages>>

\* The RPC server and the client pool have stopped, and Node.Stop lets go of Node.mu.
StopReturns ==
  /\ holding
  /\ holding' = FALSE
  /\ UNCHANGED <<state, timer, stopped, loop, taken, messages>>

-----------------------------------------------------------------------------
Next ==
  \/ Expire \/ Callback
  \/ RunReceives \/ RunExits
  \/ HandleElectionTimeout \/ BecomeCandidate \/ FinishElection
  \/ \E newer \in BOOLEAN : HandleAppendEntries(newer)
  \/ \E newer, granted \in BOOLEAN : HandleRequestVote(newer, granted)
  \/ DiscoverNewerTerm
  \/ Stop \/ StopReturns

\* Time passes, goroutines are scheduled, every RPC has a timeout, and whoever waits for a free
\* Node.mu gets it.  Nothing makes other nodes send messages, or anyone stop the node; and
\* nothing makes Stop return, since GracefulStop may wait for ever (module Shutdown).
Fairness ==
  /\ WF_vars(Expire) /\ WF_vars(Callback)
  /\ WF_vars(RunReceives) /\ WF_vars(RunExits)
  /\ WF_vars(HandleElectionTimeout) /\ WF_vars(BecomeCandidate)
  /\ WF_vars(~holding /\ FinishElection)

Spec == Init /\ [][Next]_vars /\ Fairness

-----------------------------------------------------------------------------
(* Properties *)

\* The types of the variables, from which FollowerTimesOut is proved.
TypeOK ==
  /\ state \in NodeState
  /\ timer \in Timer
  /\ stopped \in BOOLEAN
  /\ holding \in BOOLEAN
  /\ loop \in {"select", "timeout", "start", "election", "exited"}
  /\ taken \in Timeout
  /\ messages \in Nat

\* A timeout is on its way to startElection.
TimeoutComing ==
  timer.armed \/ timer.fired # "none" \/ timer.c # "none" \/ loop \in {"timeout", "start"}

\* A follower is never left without a timeout, however its timer, its messages and the
\* elections run() has started before interleave.
FollowerTimesOut == state = "Follower" /\ ~stopped => TimeoutComing

\* A candidate starts a new election when its election brings no decision: while it is one,
\* an election goes on or a timeout is coming.
CandidateTimesOut == state = "Candidate" /\ ~stopped => TimeoutComing \/ loop = "election"

\* A follower starts an election only when the timer expired after its last reset: not when
\* it has heard from a leader, or granted a vote, since.
OnlyFreshTimeouts ==
  [][state = "Follower" /\ state' = "Candidate" => taken = "fresh"]_vars

\* A timeout of a leader, armed when it became one, does not make it a candidate again.
LeaderNeverCampaigns == [][state = "Leader" => state' # "Candidate"]_vars

\* When the other nodes fall silent a follower becomes a candidate, unless it is stopped.
FollowerCampaigns == state = "Follower" ~> state # "Follower" \/ stopped

\* Once Stop has returned the goroutine of run() ends, also when it was in the middle of an
\* election, waiting for the lock that Stop held.  A Stop that hangs leaves it waiting.
StopEnds == stopped /\ ~holding ~> loop = "exited"
=============================================================================
