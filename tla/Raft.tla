---------------------------------- MODULE Raft ----------------------------------
(***************************************************************************)
(* The consensus core of keyval (pkg/raft): elections, log replication,    *)
(* heartbeats, commitment and application, for a fixed set of servers.     *)
(*                                                                         *)
(* Grain of atomicity: one action is one critical section of Node.mu, or   *)
(* several where nothing another goroutine does in between can tell them   *)
(* apart (said at the action).  Timers are abstracted: an election timeout *)
(* may fire whenever the goroutine of run() is free.                       *)
(*                                                                         *)
(* RPCs are gRPC unary calls over an unreliable network: a request is      *)
(* executed at most once, may be lost or arbitrarily late, also after its  *)
(* caller gave up, and calls of different goroutines may overtake each     *)
(* other.                                                                  *)
(***************************************************************************)
EXTENDS Integers, FiniteSets, SequencesExt

CONSTANTS
  Server,              \* the node IDs of the cluster
  Value,               \* commands of clients (LogEntry.Data)
  NoOp,                \* the data of an EntryNoOp entry
  None,                \* the empty string: no vote, and the name given to AddVote
  MaxEntriesPerAppend, \* Config.MaxEntriesPerAppend
  MaxTerm,             \* bound: no election is started in this term
  MaxElections,        \* bound: elections started
  MaxCampaigns,        \* bound: elections under way at the same time
  LateVotes,           \* bound: whether RequestVote calls outlive their startElection
  MaxLogLen,           \* bound: a leader appends nothing to a log of this length
  MaxInFlight,         \* bound: AppendEntries requests and responses in the network
  MaxHeartbeats,       \* bound: rounds of sendHeartbeats
  MaxPreempted,        \* bound: replicateToPeer goroutines stopped between its locks
  MaxRestarts          \* bound: crashes followed by a restart

ASSUME ServerAssumption == IsFiniteSet(Server) /\ None \notin Server
ASSUME DataAssumption == NoOp \notin Value
ASSUME BoundAssumption ==
  /\ MaxEntriesPerAppend \in Nat \ {0}
  /\ LateVotes \in BOOLEAN
  /\ {MaxTerm, MaxElections, MaxCampaigns, MaxLogLen, MaxInFlight} \subseteq Nat
  /\ {MaxHeartbeats, MaxPreempted, MaxRestarts} \subseteq Nat

VARIABLES
  state,         \* Node.state
  currentTerm,   \* ServerState.CurrentTerm
  votedFor,      \* ServerState.VotedFor
  log,           \* ServerState.Log; an entry's Index is its position
  commitIndex,   \* VolatileState.CommitIndex
  lastApplied,   \* VolatileState.LastApplied
  applied,       \* history: the entries gone through by applyCommittedEntries, in order
  guessed,       \* history: a follower has committed past the last entry of a request
  nextIndex,     \* LeaderState.NextIndex  (a nil LeaderState: 1 everywhere)
  matchIndex     \* LeaderState.MatchIndex (a nil LeaderState: 0 everywhere)

VARIABLES
  phase,         \* where run() is in startElection: "idle", "counting" or "won"
  electionTerm,  \* the term startElection captured
  votesReceived, \* ElectionState.VotesReceived
  voteCalls,     \* RequestVote calls whose caller still waits
  noOps          \* goroutines of appendNoOpEntry that have not run yet

VARIABLES
  voteReqs, voteResps,     \* RequestVote RPCs in the network
  appendReqs, appendResps, \* AppendEntries RPCs in the network
  beats,                   \* sendHeartbeatToPeer goroutines that have not sent yet
  preempted                \* replicateToPeer goroutines past their leader check

VARIABLES
  votes,        \* history: every vote ever cast
  wins,         \* history: every election ever won
  committed,    \* history: the log prefix the leader of a term has committed
  submitted,    \* the commands clients have submitted
  heartbeatsUsed, preemptedUsed, restarts  \* counters of the bounded events

nodeVars == <<state, currentTerm, votedFor, log>>
commitVars == <<commitIndex, lastApplied, applied, guessed>>
leaderVars == <<nextIndex, matchIndex>>
electionVars == <<phase, electionTerm, votesReceived, voteCalls, noOps>>
voteNet == <<voteReqs, voteResps>>
appendNet == <<appendReqs, appendResps>>
goVars == <<beats, preempted, heartbeatsUsed, preemptedUsed>>
histVars == <<votes, wins, committed>>
countVars == <<submitted, restarts>>
vars == <<nodeVars, commitVars, leaderVars, electionVars, voteNet, appendNet,
          goVars, histVars, countVars>>

-----------------------------------------------------------------------------
(* Records *)

Term == Nat
Entry == [term : Term, value : Value \cup {NoOp}]

VoteRequest == [from : Server, to : Server, term : Term,
                lastLogIndex : Nat, lastLogTerm : Nat]
VoteResponse == [from : Server, to : Server, reqTerm : Term, term : Term, granted : BOOLEAN]
VoteCall == [from : Server, to : Server, term : Term]
Vote == [voter : Server, term : Term, candidate : Server]

\* beat tells which goroutine waits for the answer: sendHeartbeatToPeer or replicateToPeer.
AppendRequest == [from : Server, to : Server, term : Term, prevLogIndex : Nat,
                  prevLogTerm : Nat, entries : Seq(Entry), leaderCommit : Nat, beat : BOOLEAN]
\* lastSent is the Index of the last entry of the request, 0 when it had none.
AppendResponse == [from : Server, to : Server, reqTerm : Term, lastSent : Nat, beat : BOOLEAN,
                   term : Term, success : BOOLEAN, conflictIndex : Nat]
Beat == [from : Server, to : Server, term : Term, leaderCommit : Nat]

-----------------------------------------------------------------------------
(* Helpers of ServerState, ClusterConfig and ElectionState *)

Peers(i) == Server \ {i}

LastLogIndex(i) == Len(log[i])

GetTermAtIndex(i, k) == IF k = 0 \/ k > Len(log[i]) THEN 0 ELSE log[i][k].term

LastLogTerm(i) == GetTermAtIndex(i, LastLogIndex(i))

MinOf(a, b) == IF a < b THEN a ELSE b

NilLeaderState == [nextIndex |-> [j \in Server |-> 1], matchIndex |-> [j \in Server |-> 0]]

NewLeaderState(i) ==
  [nextIndex |-> [j \in Server |-> LastLogIndex(i) + 1], matchIndex |-> [j \in Server |-> 0]]

\* setState installs a LeaderState or drops it.
SetLeaderState(i, ls) ==
  /\ nextIndex' = [nextIndex EXCEPT ![i] = ls.nextIndex]
  /\ matchIndex' = [matchIndex EXCEPT ![i] = ls.matchIndex]

\* stepDown(t), called under the lock of the handler of a message of a newer term t.
StepDown(i, t) ==
  /\ currentTerm' = [currentTerm EXCEPT ![i] = t]
  /\ votedFor' = [votedFor EXCEPT ![i] = None]
  /\ state' = [state EXCEPT ![i] = "Follower"]
  /\ SetLeaderState(i, NilLeaderState)

\* Mutant of VotesNeeded: the candidate's own vote is counted twice.
VotesNeededTwiceSelf == (Cardinality(Server) + 2) \div 2 + 1

\* The number of votes startElection waits for.
VotesNeeded == (Cardinality(Server) + 1) \div 2
-----------------------------------------------------------------------------
Init ==
  /\ state = [i \in Server |-> "Follower"]
  /\ currentTerm = [i \in Server |-> 0]
  /\ votedFor = [i \in Server |-> None]
  /\ log = [i \in Server |-> << >>]
  /\ commitIndex = [i \in Server |-> 0]
  /\ lastApplied = [i \in Server |-> 0]
  /\ applied = [i \in Server |-> << >>]
  /\ guessed = FALSE
  /\ nextIndex = [i \in Server |-> NilLeaderState.nextIndex]
  /\ matchIndex = [i \in Server |-> NilLeaderState.matchIndex]
  /\ phase = [i \in Server |-> "idle"]
  /\ electionTerm = [i \in Server |-> 0]
  /\ votesReceived = [i \in Server |-> {}]
  /\ voteCalls = {}
  /\ noOps = [i \in Server |-> 0]
  /\ voteReqs = {} /\ voteResps = {}
  /\ appendReqs = {} /\ appendResps = {}
  /\ beats = {} /\ preempted = {}
  /\ votes = {} /\ wins = {}
  /\ committed = [t \in 1..MaxTerm |-> << >>]
  /\ heartbeatsUsed = 0 /\ preemptedUsed = 0 /\ restarts = 0
  /\ submitted = {}

-----------------------------------------------------------------------------
(* Elections *)

\* handleElectionTimeout and the first critical section of startElection.  Only the
\* goroutine of run() makes a node leader, so the state it read is still not Leader.
\* A tick that finds a leader is consumed without effect.
StartElection(i) ==
  LET t == currentTerm[i] + 1 IN
  /\ phase[i] = "idle"
  /\ state[i] # "Leader"
  /\ t <= MaxTerm
  /\ Cardinality({v \in votes : v.voter = v.candidate}) < MaxElections
  /\ Cardinality({j \in Server : phase[j] # "idle"}) < MaxCampaigns
  /\ state' = [state EXCEPT ![i] = "Candidate"]
  /\ currentTerm' = [currentTerm EXCEPT ![i] = t]
  /\ votedFor' = [votedFor EXCEPT ![i] = i]
  /\ votesReceived' = [votesReceived EXCEPT ![i] = {i}]
  /\ phase' = [phase EXCEPT ![i] = "counting"]
  /\ electionTerm' = [electionTerm EXCEPT ![i] = t]
  /\ voteCalls' = voteCalls \cup {[from |-> i, to |-> j, term |-> t] : j \in Peers(i)}
  /\ voteReqs' = voteReqs \cup
       {[from |-> i, to |-> j, term |-> t,
         lastLogIndex |-> LastLogIndex(i), lastLogTerm |-> LastLogTerm(i)] : j \in Peers(i)}
  /\ votes' = votes \cup {[voter |-> i, term |-> t, candidate |-> i]}
  /\ UNCHANGED <<log, commitVars, leaderVars, noOps, voteResps, appendNet, goVars,
                 wins, committed, countVars>>

\* Mutant of LogIsUpToDate: the lengths of the logs are not compared.
LogIsUpToDateByTerm(m, i) == m.lastLogTerm >= LastLogTerm(i)

\* Mutant of LogIsUpToDate: the logs are not compared at all.
NoLogCheck(m, i) == TRUE

\* Mutant of LogIsUpToDate: the last terms of the logs are not compared.
LogIsUpToDateByIndex(m, i) == m.lastLogIndex >= LastLogIndex(i)

\* The candidate's log is at least as up-to-date as the voter's.
LogIsUpToDate(m, i) ==
  \/ m.lastLogTerm > LastLogTerm(i)
  \/ m.lastLogTerm = LastLogTerm(i) /\ m.lastLogIndex >= LastLogIndex(i)

\* Mutant of GrantsVote: a vote already cast in the term is forgotten.
GrantsVoteAgain(m, i, v) == m.term >= currentTerm[i] /\ LogIsUpToDate(m, i)

\* requestVote: whether voter i, whose vote in the request's term is v, grants m.
GrantsVote(m, i, v) ==
  /\ m.term >= currentTerm[i]
  /\ v \in {None, m.from}
  /\ LogIsUpToDate(m, i)

\* HandleRequestVote.  The answer is of no effect once the caller gave up on the call.
HandleRequestVote(m) ==
  LET i == m.to
      newer == m.term > currentTerm[i]
      voted == IF newer THEN None ELSE votedFor[i]
      grant == GrantsVote(m, i, voted)
      call == [from |-> m.from, to |-> i, term |-> m.term]
  IN
  /\ voteReqs' = voteReqs \ {m}
  /\ currentTerm' = [currentTerm EXCEPT ![i] = IF newer THEN m.term ELSE @]
  /\ state' = [state EXCEPT ![i] = IF newer THEN "Follower" ELSE @]
  /\ IF newer THEN SetLeaderState(i, NilLeaderState) ELSE UNCHANGED leaderVars
  /\ votedFor' = [votedFor EXCEPT ![i] = IF grant THEN m.from ELSE voted]
  /\ voteResps' = voteResps \cup
       (IF call \in voteCalls
        THEN {[from |-> i, to |-> m.from, reqTerm |-> m.term,
               term |-> currentTerm'[i], granted |-> grant]}
        ELSE {})
  /\ votes' = votes \cup
       (IF grant THEN {[voter |-> i, term |-> m.term, candidate |-> m.from]} ELSE {})
  /\ UNCHANGED <<log, commitVars, electionVars, appendNet, goVars, wins, committed, countVars>>

\* AddVote(""): every peer's vote is recorded under the same, empty, name.
AddVote(i) == votesReceived[i] \cup {None}

\* The win check of startElection, on the state read together with the vote count.
WinsWith(i, received) ==
  /\ Cardinality(received) >= VotesNeeded
  /\ state[i] = "Candidate"
  /\ currentTerm[i] = electionTerm[i]

\* The end of sendRequestVote and, for a granted vote, the counting section of startElection
\* (the answer to a granted vote is not newer than our term, so nothing separates the two).
\* A vote that comes after startElection returned is not counted.
HandleVoteResponse(m) ==
  LET i == m.to
      counts == /\ m.granted /\ m.term >= m.reqTerm
                /\ phase[i] = "counting" /\ electionTerm[i] = m.reqTerm
  IN
  /\ voteResps' = voteResps \ {m}
  /\ voteCalls' = voteCalls \ {[from |-> i, to |-> m.from, term |-> m.reqTerm]}
  /\ \/ /\ m.term > currentTerm[i]
        /\ StepDown(i, m.term)
        /\ UNCHANGED <<votesReceived, phase>>
     \/ /\ m.term <= currentTerm[i]
        /\ counts
        /\ votesReceived' = [votesReceived EXCEPT ![i] = AddVote(i)]
        /\ phase' = [phase EXCEPT ![i] = IF WinsWith(i, AddVote(i)) THEN "won" ELSE @]
        /\ UNCHANGED <<state, currentTerm, votedFor, leaderVars>>
     \/ /\ m.term <= currentTerm[i]
        /\ ~counts
        /\ UNCHANGED <<votesReceived, phase, state, currentTerm, votedFor, leaderVars>>
  /\ UNCHANGED <<log, commitVars, electionTerm, noOps, voteReqs, appendNet, goVars,
                 histVars, countVars>>

\* Mutant of StillCandidate: no double check.
NoDoubleCheck(i) == TRUE

\* The double check under the second lock of the win branch.
StillCandidate(i) == state[i] = "Candidate" /\ currentTerm[i] = electionTerm[i]

\* What is left of the RequestVote calls of i's election when startElection has returned:
\* everything (or, within the bound, nothing) after a win; after the end of voteCh no caller
\* waits, but a request that timed out may still be executed.
LeaveCalls(i, won) ==
  LET of(from, t) == from = i /\ t = electionTerm[i]
      keepAnswers == won /\ LateVotes
  IN
  /\ voteCalls' = {c \in voteCalls : keepAnswers \/ ~of(c.from, c.term)}
  /\ voteResps' = {m \in voteResps : keepAnswers \/ ~of(m.to, m.reqTerm)}
  /\ voteReqs' = {m \in voteReqs : LateVotes \/ ~of(m.from, m.term)}

\* The win branch of startElection: becomeLeader, or nothing when the double check fails;
\* startElection returns either way.  becomeLeader leaves the no-op to a goroutine.
BecomeLeader(i) ==
  /\ phase[i] = "won"
  /\ phase' = [phase EXCEPT ![i] = "idle"]
  /\ LeaveCalls(i, TRUE)
  /\ IF StillCandidate(i)
     THEN /\ state' = [state EXCEPT ![i] = "Leader"]
          /\ SetLeaderState(i, NewLeaderState(i))
          /\ noOps' = [noOps EXCEPT ![i] = @ + 1]
          /\ wins' = wins \cup {[leader |-> i, term |-> currentTerm[i]]}
     ELSE UNCHANGED <<state, leaderVars, noOps, wins>>
  /\ UNCHANGED <<currentTerm, votedFor, log, commitVars, electionTerm, votesReceived,
                 appendNet, goVars, votes, committed, countVars>>

\* voteCh is closed: the calls that have not been answered have failed or timed out.
ElectionCompletes(i) ==
  /\ phase[i] = "counting"
  /\ phase' = [phase EXCEPT ![i] = "idle"]
  /\ LeaveCalls(i, FALSE)
  /\ UNCHANGED <<nodeVars, commitVars, leaderVars, electionTerm, votesReceived, noOps,
                 appendNet, goVars, histVars, countVars>>

-----------------------------------------------------------------------------
(* Appending and replicating entries *)

\* The log a leader has after it appended an entry of its term.
Appended(i, v) == Append(log[i], [term |-> currentTerm[i], value |-> v])

\* The goroutine of appendNoOpEntry; by the time it runs the node may have lost its
\* leadership, or lead a later term.
AppendNoOpEntry(i) ==
  /\ noOps[i] > 0
  /\ noOps' = [noOps EXCEPT ![i] = @ - 1]
  /\ \/ /\ state[i] = "Leader"
        /\ LastLogIndex(i) < MaxLogLen
        /\ log' = [log EXCEPT ![i] = Appended(i, NoOp)]
     \/ /\ state[i] # "Leader"
        /\ UNCHANGED log
  /\ UNCHANGED <<state, currentTerm, votedFor, commitVars, leaderVars, phase, electionTerm,
                 votesReceived, voteCalls, voteNet, appendNet, goVars, histVars, countVars>>

\* AppendLogEntry, called for a client's command; on another node it returns false.
\* Each command of Value is submitted once.
AppendLogEntry(i, v) ==
  /\ state[i] = "Leader"
  /\ v \notin submitted
  /\ submitted' = submitted \cup {v}
  /\ LastLogIndex(i) < MaxLogLen
  /\ log' = [log EXCEPT ![i] = Appended(i, v)]
  /\ UNCHANGED <<state, currentTerm, votedFor, commitVars, leaderVars, electionVars, voteNet,
                 appendNet, goVars, histVars, restarts>>

NetworkHasRoom == Cardinality(appendReqs) + Cardinality(appendResps) < MaxInFlight

\* GetEntriesFrom(nextIndex), cut to MaxEntriesPerAppend.
EntriesToSend(i, j) ==
  SubSeq(log[i], nextIndex[i][j],
         MinOf(LastLogIndex(i), nextIndex[i][j] + MaxEntriesPerAppend - 1))

\* buildAppendEntriesRequest: it reads the term and the log of the moment, and never the state.
BuildAppendEntriesRequest(i, j) ==
  LET prev == nextIndex[i][j] - 1 IN
  [from |-> i, to |-> j, term |-> currentTerm[i], prevLogIndex |-> prev,
   prevLogTerm |-> GetTermAtIndex(i, prev), entries |-> EntriesToSend(i, j),
   leaderCommit |-> commitIndex[i], beat |-> FALSE]

\* The check at the head of every attempt of replicateToPeer.
PassesLeaderCheck(i) == state[i] = "Leader"

\* An attempt of replicateToPeer, the leader check and buildAppendEntriesRequest with
\* nothing of note in between.
ReplicateToPeer(i, j) ==
  /\ PassesLeaderCheck(i)
  /\ NetworkHasRoom
  /\ appendReqs' = appendReqs \cup {BuildAppendEntriesRequest(i, j)}
  /\ UNCHANGED <<nodeVars, commitVars, leaderVars, electionVars, voteNet, appendResps, goVars,
                 histVars, countVars>>

\* The same attempt, stopped after it released the lock of the leader check ...
PreemptAfterCheck(i, j) ==
  /\ PassesLeaderCheck(i)
  /\ preemptedUsed < MaxPreempted
  /\ preemptedUsed' = preemptedUsed + 1
  /\ preempted' = preempted \cup {[from |-> i, to |-> j]}
  /\ UNCHANGED <<nodeVars, commitVars, leaderVars, electionVars, voteNet, appendNet,
                 beats, heartbeatsUsed, histVars, countVars>>

\* ... and continued later, in whatever state and term the node is by then.
SendAfterPreemption(p) ==
  /\ NetworkHasRoom
  /\ preempted' = preempted \ {p}
  /\ appendReqs' = appendReqs \cup {BuildAppendEntriesRequest(p.from, p.to)}
  /\ UNCHANGED <<nodeVars, commitVars, leaderVars, electionVars, voteNet, appendResps,
                 beats, heartbeatsUsed, preemptedUsed, histVars, countVars>>

\* sendHeartbeats: term and commit index are captured for every peer's goroutine.
SendHeartbeats(i) ==
  /\ state[i] = "Leader"
  /\ heartbeatsUsed < MaxHeartbeats
  /\ heartbeatsUsed' = heartbeatsUsed + 1
  /\ beats' = beats \cup
       {[from |-> i, to |-> j, term |-> currentTerm[i], leaderCommit |-> commitIndex[i]] :
          j \in Peers(i)}
  /\ UNCHANGED <<nodeVars, commitVars, leaderVars, electionVars, voteNet, appendNet,
                 preempted, preemptedUsed, histVars, countVars>>

\* sendHeartbeatToPeer: the previous entry is looked up only now; no entries are sent.
BuildHeartbeat(b) ==
  LET prev == nextIndex[b.from][b.to] - 1 IN
  [from |-> b.from, to |-> b.to, term |-> b.term, prevLogIndex |-> prev,
   prevLogTerm |-> GetTermAtIndex(b.from, prev), entries |-> << >>,
   leaderCommit |-> b.leaderCommit, beat |-> TRUE]

SendHeartbeatToPeer(b) ==
  /\ NetworkHasRoom
  /\ beats' = beats \ {b}
  /\ appendReqs' = appendReqs \cup {BuildHeartbeat(b)}
  /\ UNCHANGED <<nodeVars, commitVars, leaderVars, electionVars, voteNet, appendResps,
                 preempted, heartbeatsUsed, preemptedUsed, histVars, countVars>>

-----------------------------------------------------------------------------
(* The follower's side of AppendEntries *)

\* Mutant of PrevMatches: only the length of the log is checked.
PrevExists(m, i) == m.prevLogIndex <= LastLogIndex(i)

\* Step 3 of processAppendEntries: the entry before the new ones is ours too.
PrevMatches(m, i) ==
  \/ m.prevLogIndex = 0
  \/ /\ m.prevLogIndex <= LastLogIndex(i)
     /\ GetTermAtIndex(i, m.prevLogIndex) = m.prevLogTerm

\* Mutant of ConflictIndex: a log that is too short is backed up by one instead of advanced.
ConflictIndexUnderflow(m, i) ==
  IF m.prevLogIndex > LastLogIndex(i) THEN LastLogIndex(i) - 1 ELSE 1

\* ConflictIndex: one past a log that is too short, else the first index of the run of
\* entries of the conflicting term that ends at prevLogIndex.
ConflictIndex(m, i) ==
  IF m.prevLogIndex > LastLogIndex(i)
  THEN LastLogIndex(i) + 1
  ELSE Min({k \in 1..m.prevLogIndex :
         \A n \in k..m.prevLogIndex : log[i][n].term = log[i][m.prevLogIndex].term})

\* Mutant of ApplyLogEntries: entries beyond the end are appended, conflicts are not looked for.
AppendOnlyBeyondEnd(m, i) ==
  IF m.prevLogIndex + Len(m.entries) <= LastLogIndex(i)
  THEN log[i]
  ELSE log[i] \o SubSeq(m.entries, LastLogIndex(i) - m.prevLogIndex + 1, Len(m.entries))

\* applyLogEntries: the log is kept up to the first new entry it lacks or holds with another
\* term, and the new entries follow from there.
ApplyLogEntries(m, i) ==
  LET prev == m.prevLogIndex
      new == {k \in 1..Len(m.entries) :
                prev + k > LastLogIndex(i) \/ log[i][prev + k].term # m.entries[k].term}
  IN  IF new = {}
      THEN log[i]
      ELSE SubSeq(log[i], 1, prev + Min(new) - 1) \o SubSeq(m.entries, Min(new), Len(m.entries))

\* Mutant of FollowerCommit: the leader's commit index is taken over even when it is lower.
FollowerCommitUnguarded(m, i, newLog) == MinOf(m.leaderCommit, Len(newLog))

\* Step 6: the commit index a follower with the log newLog derives from the leader's.
FollowerCommit(m, i, newLog) ==
  IF m.leaderCommit > commitIndex[i] THEN MinOf(m.leaderCommit, Len(newLog)) ELSE commitIndex[i]

\* The commit index passes the last entry that the request compared with the log: Step 6 goes
\* by the length of the whole log.
CommitsUncompared(m, i) ==
  LET new == FollowerCommit(m, i, ApplyLogEntries(m, i)) IN
  new > commitIndex[i] /\ new > m.prevLogIndex + Len(m.entries)

AppendReply(m, t, ok, conflict) ==
  [from |-> m.to, to |-> m.from, reqTerm |-> m.term, beat |-> m.beat,
   lastSent |-> IF m.entries = << >> THEN 0 ELSE m.prevLogIndex + Len(m.entries),
   term |-> t, success |-> ok, conflictIndex |-> conflict]

\* Mutant of AdoptTerm: the leader of an older term takes the newer one over and leads on.
AdoptTermAsLeader(m, i) ==
  LET newer == m.term > currentTerm[i] IN
  /\ currentTerm' = [currentTerm EXCEPT ![i] = m.term]
  /\ votedFor' = [votedFor EXCEPT ![i] = IF newer THEN None ELSE @]
  /\ state' = [state EXCEPT ![i] = IF @ = "Candidate" THEN "Follower" ELSE @]
  /\ IF newer THEN SetLeaderState(i, NilLeaderState) ELSE UNCHANGED leaderVars

\* Step 2: a newer term makes any node a follower, the same term only a candidate.  A leader
\* of the same term goes on, and handles the request as a leader.
AdoptTerm(m, i) ==
  LET newer == m.term > currentTerm[i] IN
  /\ currentTerm' = [currentTerm EXCEPT ![i] = m.term]
  /\ votedFor' = [votedFor EXCEPT ![i] = IF newer THEN None ELSE @]
  /\ state' = [state EXCEPT ![i] = IF newer \/ @ = "Candidate" THEN "Follower" ELSE @]
  /\ IF newer THEN SetLeaderState(i, NilLeaderState) ELSE UNCHANGED leaderVars

\* HandleAppendEntries / processAppendEntries.
HandleAppendEntries(m) ==
  LET i == m.to IN
  /\ appendReqs' = appendReqs \ {m}
  /\ \/ /\ m.term < currentTerm[i]
        /\ appendResps' = appendResps \cup {AppendReply(m, currentTerm[i], FALSE, 0)}
        /\ UNCHANGED <<nodeVars, leaderVars, commitIndex, guessed>>
     \/ /\ m.term >= currentTerm[i]
        /\ ~PrevMatches(m, i)
        /\ AdoptTerm(m, i)
        /\ appendResps' = appendResps \cup {AppendReply(m, m.term, FALSE, ConflictIndex(m, i))}
        /\ UNCHANGED <<log, commitIndex, guessed>>
     \/ /\ m.term >= currentTerm[i]
        /\ PrevMatches(m, i)
        /\ AdoptTerm(m, i)
        /\ log' = [log EXCEPT ![i] = ApplyLogEntries(m, i)]
        /\ commitIndex' = [commitIndex EXCEPT ![i] = FollowerCommit(m, i, ApplyLogEntries(m, i))]
        /\ guessed' = (guessed \/ CommitsUncompared(m, i))
        /\ appendResps' = appendResps \cup {AppendReply(m, m.term, TRUE, 0)}
  /\ UNCHANGED <<lastApplied, applied, electionVars, voteNet, goVars, histVars, countVars>>
-----------------------------------------------------------------------------
(* The leader's side of AppendEntries, and commitment *)

\* matchIndices of tryAdvanceCommitIndex: the leader counts its whole log for itself.
Replicated(i, match, j) == IF j = i THEN LastLogIndex(i) ELSE match[j]

\* Mutant of ReplicasNeeded: the position is used as the number of replicas.
ReplicasOffByOne == (Cardinality(Server) - 1) \div 2

\* Position quorumIndex = (clusterSize - 1) / 2, from 0, of the indices in descending order:
\* so many servers and one more hold an index the leader may commit.
ReplicasNeeded == (Cardinality(Server) - 1) \div 2 + 1

\* The indices tryAdvanceCommitIndex may commit: replicated, and of the current term.
Committable(i, match) ==
  {k \in (commitIndex[i] + 1)..LastLogIndex(i) :
     /\ log[i][k].term = currentTerm[i]
     /\ Cardinality({j \in Server : Replicated(i, match, j) >= k}) >= ReplicasNeeded}

\* tryAdvanceCommitIndex, with the match indices of the moment.
TryAdvanceCommitIndex(i, match) ==
  LET ks == Committable(i, match) IN
  IF ks = {}
  THEN UNCHANGED <<commitIndex, committed>>
  ELSE /\ commitIndex' = [commitIndex EXCEPT ![i] = Max(ks)]
       /\ committed' = [committed EXCEPT ![currentTerm[i]] = SubSeq(log[i], 1, Max(ks))]

\* A response is ignored when it answers a request of another term or we lead no more.
Ignored(m) == state[m.to] # "Leader" \/ currentTerm[m.to] # m.reqTerm

\* A follower without the previous entry: sendHeartbeatToPeer steps one back,
\* handleAppendEntriesResponse follows ConflictIndex if there is one.
NextAfterFailure(m) ==
  LET next == nextIndex[m.to][m.from] IN
  IF ~m.beat /\ m.conflictIndex > 0 THEN m.conflictIndex
  ELSE IF next > 1 THEN next - 1 ELSE next

\* handleAppendEntriesResponse, and the end of sendHeartbeatToPeer.
HandleAppendResponse(m) ==
  LET i == m.to
      j == m.from
  IN
  /\ appendResps' = appendResps \ {m}
  /\ \/ /\ m.term > currentTerm[i]
        /\ StepDown(i, m.term)
        /\ UNCHANGED <<commitIndex, committed>>
     \/ /\ m.term <= currentTerm[i]
        /\ Ignored(m) \/ (m.success /\ m.lastSent = 0)
        /\ UNCHANGED <<state, currentTerm, votedFor, leaderVars, commitIndex, committed>>
     \/ /\ m.term <= currentTerm[i]
        /\ ~Ignored(m) /\ m.success /\ m.lastSent > 0
        /\ nextIndex' = [nextIndex EXCEPT ![i][j] = m.lastSent + 1]
        /\ matchIndex' = [matchIndex EXCEPT ![i][j] = m.lastSent]
        /\ TryAdvanceCommitIndex(i, matchIndex'[i])
        /\ UNCHANGED <<state, currentTerm, votedFor>>
     \/ /\ m.term <= currentTerm[i]
        /\ ~Ignored(m) /\ ~m.success
        /\ nextIndex' = [nextIndex EXCEPT ![i][j] = NextAfterFailure(m)]
        /\ UNCHANGED <<matchIndex, state, currentTerm, votedFor, commitIndex, committed>>
  /\ UNCHANGED <<log, lastApplied, applied, guessed, electionVars, voteNet, appendReqs, goVars,
                 votes, wins, countVars>>

\* An AppendEntries call is lost on the way, or its caller has given up.
LoseAppend ==
  /\ \/ \E m \in appendReqs : appendReqs' = appendReqs \ {m} /\ UNCHANGED appendResps
     \/ \E m \in appendResps : appendResps' = appendResps \ {m} /\ UNCHANGED appendReqs
  /\ UNCHANGED <<nodeVars, commitVars, leaderVars, electionVars, voteNet, goVars, histVars, countVars>>

-----------------------------------------------------------------------------
(* Application and restart *)

\* applyCommittedEntries: everything committed, or up to the first entry that is missing.
\* A no-op is gone through like any other entry, without a call of stateMachine.Apply.
ApplyCommittedEntries(i) ==
  LET upTo == MinOf(commitIndex[i], LastLogIndex(i)) IN
  /\ lastApplied[i] < upTo
  /\ lastApplied' = [lastApplied EXCEPT ![i] = upTo]
  /\ applied' = [applied EXCEPT ![i] = @ \o SubSeq(log[i], lastApplied[i] + 1, upTo)]
  /\ UNCHANGED <<nodeVars, commitIndex, guessed, leaderVars, electionVars, voteNet, appendNet,
                 goVars, histVars, countVars>>

\* A crash and a restart: main builds the node with NewNode, whose ServerState is fresh;
\* nothing is written to stable storage or read back.
Restart(i) ==
  /\ restarts < MaxRestarts
  /\ restarts' = restarts + 1
  /\ state' = [state EXCEPT ![i] = "Follower"]
  /\ currentTerm' = [currentTerm EXCEPT ![i] = 0]
  /\ votedFor' = [votedFor EXCEPT ![i] = None]
  /\ log' = [log EXCEPT ![i] = << >>]
  /\ commitIndex' = [commitIndex EXCEPT ![i] = 0]
  /\ lastApplied' = [lastApplied EXCEPT ![i] = 0]
  /\ applied' = [applied EXCEPT ![i] = << >>]
  /\ SetLeaderState(i, NilLeaderState)
  /\ phase' = [phase EXCEPT ![i] = "idle"]
  /\ electionTerm' = [electionTerm EXCEPT ![i] = 0]
  /\ votesReceived' = [votesReceived EXCEPT ![i] = {}]
  /\ noOps' = [noOps EXCEPT ![i] = 0]
  /\ voteCalls' = {c \in voteCalls : c.from # i}
  /\ voteResps' = {m \in voteResps : m.to # i}
  /\ appendResps' = {m \in appendResps : m.to # i}
  /\ beats' = {b \in beats : b.from # i}
  /\ preempted' = {p \in preempted : p.from # i}
  /\ UNCHANGED <<guessed, voteReqs, appendReqs, heartbeatsUsed, preemptedUsed, histVars, submitted>>

-----------------------------------------------------------------------------
Next ==
  \/ \E i \in Server : StartElection(i)
  \/ \E m \in voteReqs : HandleRequestVote(m)
  \/ \E m \in voteResps : HandleVoteResponse(m)
  \/ \E i \in Server : BecomeLeader(i)
  \/ \E i \in Server : ElectionCompletes(i)
  \/ \E i \in Server : AppendNoOpEntry(i)
  \/ \E i \in Server, v \in Value : AppendLogEntry(i, v)
  \/ \E i \in Server : \E j \in Peers(i) : ReplicateToPeer(i, j)
  \/ \E i \in Server : \E j \in Peers(i) : PreemptAfterCheck(i, j)
  \/ \E p \in preempted : SendAfterPreemption(p)
  \/ \E i \in Server : SendHeartbeats(i)
  \/ \E b \in beats : SendHeartbeatToPeer(b)
  \/ \E m \in appendReqs : HandleAppendEntries(m)
  \/ \E m \in appendResps : HandleAppendResponse(m)
  \/ LoseAppend
  \/ \E i \in Server : ApplyCommittedEntries(i)
  \/ \E i \in Server : Restart(i)

Spec == Init /\ [][Next]_vars
-----------------------------------------------------------------------------
(* Properties *)

NodeTypes ==
  /\ state \in [Server -> {"Follower", "Candidate", "Leader"}]
  /\ currentTerm \in [Server -> Term]
  /\ votedFor \in [Server -> Server \cup {None}]

LogTypes ==
  /\ log \in [Server -> Seq(Entry)]
  /\ commitIndex \in [Server -> Nat]
  /\ lastApplied \in [Server -> Nat]
  /\ applied \in [Server -> Seq(Entry)]
  /\ guessed \in BOOLEAN

LeaderTypes ==
  /\ nextIndex \in [Server -> [Server -> Nat \ {0}]]
  /\ matchIndex \in [Server -> [Server -> Nat]]

ElectionTypes ==
  /\ phase \in [Server -> {"idle", "counting", "won"}]
  /\ electionTerm \in [Server -> Term]
  /\ votesReceived \in [Server -> SUBSET (Server \cup {None})]
  /\ noOps \in [Server -> Nat]

VoteNetTypes ==
  /\ voteCalls \subseteq VoteCall
  /\ voteReqs \subseteq VoteRequest
  /\ voteResps \subseteq VoteResponse

AppendNetTypes ==
  /\ appendReqs \subseteq AppendRequest
  /\ appendResps \subseteq AppendResponse

GoroutineTypes ==
  /\ beats \subseteq Beat
  /\ preempted \subseteq [from : Server, to : Server]
  /\ heartbeatsUsed \in Nat /\ preemptedUsed \in Nat

HistoryTypes ==
  /\ votes \subseteq Vote
  /\ wins \subseteq [leader : Server, term : Term]
  /\ committed \in [1..MaxTerm -> Seq(Entry)]
  /\ submitted \subseteq Value
  /\ restarts \in Nat

\* Every variable has the type the Go structures give it; in particular nextIndex, from which
\* 1 is subtracted as an unsigned number, is never 0.
TypeOK ==
  /\ NodeTypes /\ LogTypes /\ LeaderTypes /\ ElectionTypes
  /\ VoteNetTypes /\ AppendNetTypes /\ GoroutineTypes /\ HistoryTypes

\* At most one server ever wins the election of a term: the votes that startElection counts,
\* from candidates whose messages and critical sections interleave freely, never make two
\* leaders of one term, at the same moment or one after the other.
ElectionSafety == \A w1, w2 \in wins : w1.term = w2.term => w1.leader = w2.leader

\* Restarts cost an election no more than the votes they make servers forget: in each of its
\* lives a server has one vote in a term, and every winner of the term stands on two of them,
\* its own and a peer's.  So winners are at most half as many as servers and restarts together.
VotesBoundWinners ==
  \A t \in 1..MaxTerm :
    LET cast == {v \in votes : v.term = t} IN
    /\ Cardinality(cast) <= Cardinality(Server) + restarts
    /\ 2 * Cardinality({w \in wins : w.term = t}) <= Cardinality(cast)

\* Whoever a majority voted for wins: no candidate whose RequestVote calls have all been
\* answered, and who is still a candidate in that term, has been voted for by a majority of
\* the servers and gone without becoming leader.
MajorityWins ==
  \A i \in Server :
    /\ phase[i] = "counting" /\ StillCandidate(i)
    /\ \A c \in voteCalls : c.from = i => c.term # electionTerm[i]
    => 2 * Cardinality({v \in votes : v.candidate = i /\ v.term = electionTerm[i]})
         <= Cardinality(Server)

\* Two logs with an entry of the same index and term agree up to that index, whatever was
\* truncated and appended by applyLogEntries in between.
LogMatching ==
  \A i, j \in Server : \A k \in 1..LastLogIndex(i) :
    k <= LastLogIndex(j) /\ log[i][k].term = log[j][k].term
      => SubSeq(log[i], 1, k) = SubSeq(log[j], 1, k)

\* A leader holds every entry a leader of its own or an earlier term has committed
\* with tryAdvanceCommitIndex.
LeaderCompleteness ==
  \A i \in Server : state[i] = "Leader" =>
    \A t \in 1..currentTerm[i] : IsPrefix(committed[t], log[i])

\* What a leader committed stays, at all later times, in the logs of a majority.
CommittedOnMajority ==
  \A t \in 1..MaxTerm :
    2 * Cardinality({j \in Server : IsPrefix(committed[t], log[j])}) > Cardinality(Server)

\* No two servers apply different entries at the same index: of two sequences that
\* applyCommittedEntries went through, one is a prefix of the other.
StateMachineSafety ==
  \A i, j \in Server : IsPrefix(applied[i], applied[j]) \/ IsPrefix(applied[j], applied[i])

\* A leader never truncates or overwrites its own log while it leads a term, although
\* processAppendEntries does not ask whether the node is a leader.
LeaderAppendOnly ==
  [][\A i \in Server :
       state[i] = "Leader" /\ state'[i] = "Leader" /\ currentTerm'[i] = currentTerm[i]
         => IsPrefix(log[i], log'[i])]_vars

\* A leader that goes on leading its term loses entries to nothing but a request of that very
\* term from a server that never won it: from a replicateToPeer goroutine that was stopped
\* between its leader check and buildAppendEntriesRequest, and sends the term its node has
\* moved on to.  No request of an older leader, however late, can do it.
LeaderCutByImpostorOnly ==
  [][\A i \in Server :
       /\ state[i] = "Leader" /\ state'[i] = "Leader" /\ currentTerm'[i] = currentTerm[i]
       /\ restarts' = 0
       => \/ IsPrefix(log[i], log'[i])
          \/ \E m \in appendReqs \ appendReqs' :
               /\ m.to = i /\ m.term = currentTerm[i]
               /\ [leader |-> m.from, term |-> m.term] \notin wins]_vars

\* An entry at or below a server's commit index is never replaced or removed, and the
\* commit index never goes back.
CommittedPrefixStable ==
  [][\A i \in Server : restarts' = restarts =>
       /\ commitIndex[i] <= commitIndex'[i]
       /\ IsPrefix(SubSeq(log[i], 1, commitIndex[i]), log'[i])]_vars

\* "MatchIndex ... increases monotonically" while a leader stays in its term.
MatchIndexMonotonic ==
  [][\A i, j \in Server :
       state[i] = "Leader" /\ state'[i] = "Leader" /\ currentTerm'[i] = currentTerm[i]
         => matchIndex[i][j] <= matchIndex'[i][j]]_vars
-----------------------------------------------------------------------------
(* The inductive invariant behind ElectionSafety, for clusters that restart no server *)

Voted(p, t, c) == [voter |-> p, term |-> t, candidate |-> c] \in votes

\* The term and the vote a server holds remember its last vote, and it has one per term.
VotesRemembered ==
  /\ \A v \in votes :
       /\ v.term <= currentTerm[v.voter]
       /\ v.term = currentTerm[v.voter] => votedFor[v.voter] = v.candidate
  /\ \A u, v \in votes : u.voter = v.voter /\ u.term = v.term => u.candidate = v.candidate

\* Vote requests go to others, and a granted vote on its way back was really cast.
AnswersBacked ==
  /\ \A m \in voteReqs : m.from # m.to
  /\ \A m \in voteResps : m.from # m.to /\ (m.granted => Voted(m.from, m.reqTerm, m.to))

\* Candidate i has its own vote and that of one other server in term t, and these suffice:
\* all votes of peers are counted under one name, so no majority needs more than two.
Elected(i, t) ==
  /\ Voted(i, t, i)
  /\ \E p \in Peers(i) : Voted(p, t, i)
  /\ VotesNeeded <= 2

\* The votes startElection holds at each point of its way to becomeLeader.
CountsBacked ==
  /\ \A i \in Server : phase[i] # "idle" =>
       /\ votesReceived[i] \subseteq {i, None}
       /\ Voted(i, electionTerm[i], i)
       /\ None \in votesReceived[i] => \E p \in Peers(i) : Voted(p, electionTerm[i], i)
  /\ \A i \in Server : phase[i] = "won" => Elected(i, electionTerm[i])
  /\ \A w \in wins : Elected(w.leader, w.term)

\* While no server has restarted, every election won, every vote counted and every granted
\* answer in the network stands for votes that were cast, one per server and term.
ElectionInv == restarts = 0 => VotesRemembered /\ AnswersBacked /\ CountsBacked
=============================================================================
