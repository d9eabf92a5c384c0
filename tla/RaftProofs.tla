------------------------------- MODULE RaftProofs -------------------------------
(***************************************************************************)
(* Theorems about Raft, for every cluster and every bound.                 *)
(*                                                                         *)
(*   TypeCorrect         Spec => []TypeOK                                  *)
(*   ElectionSafe        at most one leader per term, in every cluster     *)
(*                       that has not four servers and never restarts one  *)
(*   MajoritiesWin       whoever a majority voted for wins                 *)
(*   LogsMatch, LeadersComplete, CommittedStays, LeadersOnlyAppend,        *)
(*   StateMachinesAgree, CommittedPrefixKept                               *)
(*                       the log properties, in the second half            *)
(***************************************************************************)
EXTENDS Raft, NumberFacts, FiniteSetTheorems, TLAPS

-----------------------------------------------------------------------------
(* Facts about numbers, sequences and the helpers of the model *)

\* Two candidates for membership make a set of at most two: what a tally that
\* holds nothing but the candidate and the anonymous voter can reach.
LEMMA PairIsSmall ==
  ASSUME NEW x, NEW y
  PROVE  IsFiniteSet({x, y}) /\ Cardinality({x, y}) <= 2
<1>1. IsFiniteSet({y}) /\ Cardinality({y}) = 1
  BY FS_Singleton, Zenon
<1>2. /\ IsFiniteSet({y} \cup {x})
      /\ Cardinality({y} \cup {x}) = IF x \in {y} THEN Cardinality({y}) ELSE Cardinality({y}) + 1
  BY <1>1, FS_AddElement, Zenon
<1>3. Cardinality({y} \cup {x}) <= 2
  BY <1>1, <1>2
<1>4. {y} \cup {x} = {x, y}
  OBVIOUS
<1> QED
  BY <1>2, <1>3, <1>4

\* The term found at an index is a number.
LEMMA GetTermAtIndexType ==
  ASSUME TypeOK, NEW i \in Server, NEW k \in Nat
  PROVE  GetTermAtIndex(i, k) \in Nat
<1>1. log[i] \in Seq(Entry) /\ Len(log[i]) \in Nat
  BY DEF TypeOK, LogTypes
<1>2. ASSUME k # 0, ~(k > Len(log[i]))
      PROVE  log[i][k].term \in Nat
  <2>1. k \in 1..Len(log[i])
    BY <1>1, <1>2
  <2>2. log[i][k] \in Entry
    BY <1>1, <2>1
  <2> QED
    BY <2>2 DEF Entry, Term
<1> QED
  BY <1>1, <1>2 DEF GetTermAtIndex

\* So is the term of the last entry.
LEMMA LastLogTermType ==
  ASSUME TypeOK, NEW i \in Server
  PROVE  LastLogTerm(i) \in Nat /\ LastLogIndex(i) \in Nat
<1>1. LastLogIndex(i) \in Nat
  BY DEF TypeOK, LogTypes, LastLogIndex
<1> QED
  BY <1>1, GetTermAtIndexType DEF LastLogTerm

\* buildAppendEntriesRequest makes a well-formed request: nextIndex - 1 does not underflow.
LEMMA BuildAppendEntriesRequestType ==
  ASSUME TypeOK, NEW i \in Server, NEW j \in Server
  PROVE  BuildAppendEntriesRequest(i, j) \in AppendRequest
<1>1. nextIndex[i][j] \in Nat \ {0}
  BY DEF TypeOK, NodeTypes, LogTypes, LeaderTypes
<1>2. nextIndex[i][j] - 1 \in Nat
  BY <1>1
<1>3. GetTermAtIndex(i, nextIndex[i][j] - 1) \in Nat
  BY <1>2, GetTermAtIndexType
<1>4. EntriesToSend(i, j) \in Seq(Entry)
  <2>1. log[i] \in Seq(Entry)
    BY DEF TypeOK, NodeTypes, LogTypes, LeaderTypes
  <2> DEFINE e == MinOf(LastLogIndex(i), nextIndex[i][j] + MaxEntriesPerAppend - 1)
  <2>2. e \in Nat /\ e <= Len(log[i])
    <3>1. MaxEntriesPerAppend \in Nat \ {0}
      BY BoundAssumption
    <3>2. Len(log[i]) \in Nat
      BY <2>1
    <3> QED
      BY <1>1, <3>1, <3>2 DEF MinOf, LastLogIndex
  <2>3. SubSeq(log[i], nextIndex[i][j], e) \in Seq(Entry)
    BY <1>1, <2>1, <2>2
  <2> QED
    BY <2>3 DEF EntriesToSend
<1>5. currentTerm[i] \in Nat /\ commitIndex[i] \in Nat
  BY DEF TypeOK, NodeTypes, LogTypes, LeaderTypes, Term
<1> QED
  BY <1>2, <1>3, <1>4, <1>5 DEF BuildAppendEntriesRequest, AppendRequest, Term

\* sendHeartbeatToPeer makes a well-formed request too.
LEMMA BuildHeartbeatType ==
  ASSUME TypeOK, NEW b \in beats
  PROVE  BuildHeartbeat(b) \in AppendRequest
<1>1. b \in Beat
  BY DEF TypeOK, GoroutineTypes, LeaderTypes
<1>2. nextIndex[b.from][b.to] - 1 \in Nat
  BY <1>1 DEF TypeOK, GoroutineTypes, LeaderTypes, Beat
<1>3. GetTermAtIndex(b.from, nextIndex[b.from][b.to] - 1) \in Nat
  BY <1>1, <1>2, GetTermAtIndexType DEF Beat
<1>4. << >> \in Seq(Entry)
  OBVIOUS
<1> QED
  BY <1>1, <1>2, <1>3, <1>4 DEF BuildHeartbeat, AppendRequest, Beat, Term

\* ConflictIndex is a positive index whenever the previous entry does not match.
LEMMA ConflictIndexType ==
  ASSUME TypeOK, NEW m \in appendReqs, ~PrevMatches(m, m.to)
  PROVE  ConflictIndex(m, m.to) \in Nat
<1> DEFINE i == m.to
           run == {k \in 1..m.prevLogIndex :
                     \A n \in k..m.prevLogIndex : log[i][n].term = log[i][m.prevLogIndex].term}
<1>1. m \in AppendRequest /\ i \in Server /\ m.prevLogIndex \in Nat
  BY DEF TypeOK, AppendNetTypes, AppendRequest
<1>2. LastLogIndex(i) \in Nat
  BY <1>1, LastLogTermType
<1>3. CASE m.prevLogIndex > LastLogIndex(i)
  BY <1>2, <1>3 DEF ConflictIndex
<1>4. CASE ~(m.prevLogIndex > LastLogIndex(i))
  <2>1. m.prevLogIndex > 0
    BY <1>1 DEF PrevMatches
  <2>2. m.prevLogIndex \in run
    BY <1>1, <2>1
  <2>3. run \subseteq Nat
    BY <1>1
  <2>4. Min(run) \in Nat
    <3> HIDE DEF run
    <3> QED
      BY <2>2, <2>3, MinType
  <2> QED
    BY <1>4, <2>4 DEF ConflictIndex
<1> QED
  BY <1>3, <1>4

\* applyLogEntries leaves a sequence of entries, also when it truncates.
LEMMA ApplyLogEntriesType ==
  ASSUME TypeOK, NEW m \in appendReqs, PrevMatches(m, m.to)
  PROVE  ApplyLogEntries(m, m.to) \in Seq(Entry)
<1> DEFINE i == m.to
           prev == m.prevLogIndex
           new == {k \in 1..Len(m.entries) :
                     prev + k > LastLogIndex(i) \/ log[i][prev + k].term # m.entries[k].term}
<1>1. /\ i \in Server /\ prev \in Nat
      /\ m.entries \in Seq(Entry) /\ log[i] \in Seq(Entry)
      /\ LastLogIndex(i) = Len(log[i]) /\ Len(log[i]) \in Nat /\ Len(m.entries) \in Nat
  <2>1. m \in AppendRequest /\ log \in [Server -> Seq(Entry)]
    BY DEF TypeOK, AppendNetTypes, LogTypes
  <2> QED
    BY <2>1 DEF AppendRequest, LastLogIndex
<1>2. prev <= Len(log[i])
  BY <1>1 DEF PrevMatches
<1>3. CASE new = {}
  BY <1>1, <1>3 DEF ApplyLogEntries
<1>4. CASE new # {}
  <2> DEFINE k == Min(new)
  <2>1. new \subseteq Nat
    BY <1>1
  <2>2. k \in new /\ \A n \in new : k <= n
    <3> HIDE DEF new
    <3> QED
      BY <1>4, <2>1, MinType
  <2>3. k \in 1..Len(m.entries)
    BY <2>2
  <2>4. prev + k - 1 <= Len(log[i])
    <3>1. CASE k = 1
      BY <1>1, <1>2, <3>1
    <3>2. CASE k > 1
      <4>1. k - 1 \notin new
        <5> HIDE DEF k, new
        <5> QED
          BY <2>2, <2>3
      <4>2. k - 1 \in 1..Len(m.entries)
        <5> HIDE DEF k
        <5> QED
          BY <1>1, <2>3, <3>2
      <4>3. ~(prev + (k - 1) > LastLogIndex(i))
        <5> HIDE DEF k
        <5> QED
          BY <4>1, <4>2
      <4> HIDE DEF k
      <4> QED
        BY <1>1, <2>3, <4>3
    <3> QED
      BY <2>3, <3>1, <3>2
  <2>5. SubSeq(log[i], 1, prev + k - 1) \in Seq(Entry)
    <3> HIDE DEF k
    <3> QED
      BY <1>1, <2>3, <2>4
  <2>6. SubSeq(m.entries, k, Len(m.entries)) \in Seq(Entry)
    <3> HIDE DEF k
    <3> QED
      BY <1>1, <2>3
  <2>7. ApplyLogEntries(m, i) = SubSeq(log[i], 1, prev + k - 1) \o SubSeq(m.entries, k, Len(m.entries))
    BY <1>4 DEF ApplyLogEntries
  <2>8. \A s, t \in Seq(Entry) : s \o t \in Seq(Entry)
    OBVIOUS
  <2> HIDE DEF k
  <2> QED
    BY <2>5, <2>6, <2>7, <2>8
<1> QED
  BY <1>3, <1>4

\* tryAdvanceCommitIndex commits an index of the log, under a term that committed knows.
LEMMA TryAdvanceCommitIndexType ==
  ASSUME TypeOK, NEW i \in Server, NEW match, TryAdvanceCommitIndex(i, match)
  PROVE  \/ commitIndex' = commitIndex /\ committed' = committed
         \/ \E k \in 1..Len(log[i]) :
              /\ commitIndex' = [commitIndex EXCEPT ![i] = k]
              /\ committed' = [committed EXCEPT ![currentTerm[i]] = SubSeq(log[i], 1, k)]
<1> DEFINE ks == Committable(i, match)
<1>1. commitIndex[i] \in Nat /\ Len(log[i]) \in Nat
  BY DEF TypeOK, LogTypes
<1>2. ks \subseteq 1..Len(log[i])
  BY <1>1 DEF Committable, LastLogIndex
<1>3. CASE ks = {}
  BY <1>3 DEF TryAdvanceCommitIndex
<1>4. CASE ks # {}
  <2>1. Max(ks) \in ks
    <3>1. ks \subseteq 0..Len(log[i])
      BY <1>1, <1>2
    <3> HIDE DEF ks
    <3> QED
      BY <1>1, <1>4, <3>1, MaxType
  <2>2. Max(ks) \in 1..Len(log[i])
    BY <1>2, <2>1
  <2> QED
    BY <1>4, <2>2 DEF TryAdvanceCommitIndex
<1> QED
  BY <1>3, <1>4

-----------------------------------------------------------------------------
(* Type correctness *)

\* Installing a well-formed LeaderState keeps the types.
LEMMA SetLeaderStateType ==
  ASSUME TypeOK, NEW i \in Server, NEW ls, SetLeaderState(i, ls),
         ls.nextIndex \in [Server -> Nat \ {0}], ls.matchIndex \in [Server -> Nat]
  PROVE  LeaderTypes'
BY DEF TypeOK, LeaderTypes, SetLeaderState

\* A dropped LeaderState is well-formed.
LEMMA NilLeaderStateType ==
  /\ NilLeaderState.nextIndex \in [Server -> Nat \ {0}]
  /\ NilLeaderState.matchIndex \in [Server -> Nat]
BY DEF NilLeaderState

\* stepDown keeps the types.
LEMMA StepDownType ==
  ASSUME TypeOK, NEW i \in Server, NEW t \in Nat, StepDown(i, t)
  PROVE  NodeTypes' /\ LeaderTypes'
<1>1. NodeTypes'
  BY DEF TypeOK, NodeTypes, StepDown, Term
<1>2. LeaderTypes'
  BY SetLeaderStateType, NilLeaderStateType DEF StepDown
<1> QED
  BY <1>1, <1>2

\* Step 2 of processAppendEntries keeps the types.
LEMMA AdoptTermType ==
  ASSUME TypeOK, NEW m \in appendReqs, AdoptTerm(m, m.to)
  PROVE  NodeTypes' /\ LeaderTypes'
<1>m. m.to \in Server /\ m.term \in Nat
  BY DEF TypeOK, AppendNetTypes, AppendRequest, Term
<1>1. NodeTypes'
  BY <1>m DEF TypeOK, NodeTypes, AdoptTerm, Term
<1>2. CASE m.term > currentTerm[m.to]
  <2>1. SetLeaderState(m.to, NilLeaderState)
    BY <1>2 DEF AdoptTerm
  <2> QED
    BY <1>m, <1>1, <2>1, SetLeaderStateType, NilLeaderStateType
<1>3. CASE ~(m.term > currentTerm[m.to])
  <2>1. UNCHANGED leaderVars
    BY <1>3 DEF AdoptTerm
  <2> QED
    BY <1>1, <2>1 DEF TypeOK, LeaderTypes, leaderVars
<1> QED
  BY <1>2, <1>3

\* A log with one entry more is a log.
LEMMA AppendedType ==
  ASSUME TypeOK, NEW i \in Server, NEW v \in Value \cup {NoOp}
  PROVE  Appended(i, v) \in Seq(Entry)
<1>1. [term |-> currentTerm[i], value |-> v] \in Entry
  BY DEF TypeOK, NodeTypes, Entry
<1>2. log[i] \in Seq(Entry)
  BY DEF TypeOK, LogTypes
<1> QED
  BY <1>1, <1>2 DEF Appended

\* StartElection keeps the types.
LEMMA TypeStartElection ==
  ASSUME TypeOK, NEW i \in Server, StartElection(i)
  PROVE  TypeOK'
<1>l. LastLogTerm(i) \in Nat /\ LastLogIndex(i) \in Nat
  BY LastLogTermType
<1>t. currentTerm[i] \in Nat
  BY DEF TypeOK, NodeTypes, Term
<1>1. NodeTypes'
  BY <1>l, <1>t DEF StartElection, TypeOK, NodeTypes, nodeVars, Term
<1>2. ElectionTypes'
  BY <1>l, <1>t DEF StartElection, TypeOK, ElectionTypes, electionVars, Term
<1>3. VoteNetTypes'
  BY <1>l, <1>t DEF StartElection, TypeOK, VoteNetTypes, electionVars, voteNet, VoteCall, VoteRequest, Peers, Term
<1>4. HistoryTypes'
  BY <1>l, <1>t DEF StartElection, TypeOK, HistoryTypes, histVars, countVars, Vote, Term
<1>5. LogTypes' /\ LeaderTypes' /\ AppendNetTypes' /\ GoroutineTypes'
  BY DEF StartElection, TypeOK, LogTypes, LeaderTypes, AppendNetTypes, GoroutineTypes, nodeVars, commitVars, leaderVars, appendNet, goVars
<1> QED
  BY <1>1, <1>2, <1>3, <1>4, <1>5 DEF TypeOK

\* What a RequestVote handler may do to the node, the network and the votes cast.
LEMMA RequestVoteEffect ==
  ASSUME TypeOK, NEW m \in voteReqs, HandleRequestVote(m)
  PROVE  /\ m.from \in Server /\ m.to \in Server /\ m.term \in Nat
         /\ currentTerm[m.to] \in Nat
         /\ voteReqs' = voteReqs \ {m}
         /\ UNCHANGED electionVars
         /\ \/ /\ m.term > currentTerm[m.to]
               /\ currentTerm' = [currentTerm EXCEPT ![m.to] = m.term]
               /\ state' = [state EXCEPT ![m.to] = "Follower"]
               /\ SetLeaderState(m.to, NilLeaderState)
            \/ /\ m.term <= currentTerm[m.to]
               /\ UNCHANGED <<currentTerm, state, leaderVars>>
         /\ \E g \in BOOLEAN :
              /\ g => /\ m.term >= currentTerm[m.to]
                      /\ m.term = currentTerm[m.to] => votedFor[m.to] \in {None, m.from}
              /\ votedFor' = [votedFor EXCEPT ![m.to] =
                    IF g THEN m.from
                    ELSE IF m.term > currentTerm[m.to] THEN None ELSE votedFor[m.to]]
              /\ votes' = votes \cup
                   (IF g THEN {[voter |-> m.to, term |-> m.term, candidate |-> m.from]} ELSE {})
              /\ \/ voteResps' = voteResps
                 \/ voteResps' = voteResps \cup
                      {[from |-> m.to, to |-> m.from, reqTerm |-> m.term,
                        term |-> currentTerm'[m.to], granted |-> g]}
<1> DEFINE newer == m.term > currentTerm[m.to]
           voted == IF newer THEN None ELSE votedFor[m.to]
           grant == GrantsVote(m, m.to, voted)
<1>m. m.from \in Server /\ m.to \in Server /\ m.term \in Nat
  BY DEF TypeOK, VoteNetTypes, VoteRequest, Term
<1>t. currentTerm[m.to] \in Nat /\ state \in [Server -> {"Follower", "Candidate", "Leader"}]
      /\ currentTerm \in [Server -> Nat]
  BY <1>m DEF TypeOK, NodeTypes, Term
<1>1. voteReqs' = voteReqs \ {m} /\ UNCHANGED electionVars
  BY DEF HandleRequestVote
<1>e. /\ currentTerm' = [currentTerm EXCEPT ![m.to] =
                           IF newer THEN m.term ELSE currentTerm[m.to]]
      /\ state' = [state EXCEPT ![m.to] = IF newer THEN "Follower" ELSE state[m.to]]
      /\ IF newer THEN SetLeaderState(m.to, NilLeaderState) ELSE UNCHANGED leaderVars
  BY DEF HandleRequestVote
<1>2. ASSUME newer
      PROVE  /\ currentTerm' = [currentTerm EXCEPT ![m.to] = m.term]
             /\ state' = [state EXCEPT ![m.to] = "Follower"]
             /\ SetLeaderState(m.to, NilLeaderState)
  <2> HIDE DEF newer
  <2> QED
    BY <1>2, <1>e
<1>3. ASSUME ~newer
      PROVE  UNCHANGED <<currentTerm, state, leaderVars>>
  <2>1. UNCHANGED leaderVars
    <3> HIDE DEF newer
    <3> QED
      BY <1>3, <1>e
  <2>2. /\ currentTerm' = [currentTerm EXCEPT ![m.to] = currentTerm[m.to]]
        /\ state' = [state EXCEPT ![m.to] = state[m.to]]
    <3> HIDE DEF newer
    <3> QED
      BY <1>3, <1>e
  <2>3. UNCHANGED <<currentTerm, state>>
    BY <1>t, <2>2
  <2> QED
    BY <2>1, <2>3
<1>4. grant \in BOOLEAN
  BY DEF GrantsVote
<1>5. grant => /\ m.term >= currentTerm[m.to]
               /\ m.term = currentTerm[m.to] => votedFor[m.to] \in {None, m.from}
  BY <1>m, <1>t DEF GrantsVote
<1>6. /\ votedFor' = [votedFor EXCEPT ![m.to] = IF grant THEN m.from ELSE voted]
      /\ votes' = votes \cup
           (IF grant THEN {[voter |-> m.to, term |-> m.term, candidate |-> m.from]} ELSE {})
  BY DEF HandleRequestVote
<1>7. \/ voteResps' = voteResps
      \/ voteResps' = voteResps \cup
            {[from |-> m.to, to |-> m.from, reqTerm |-> m.term,
              term |-> currentTerm'[m.to], granted |-> grant]}
  BY DEF HandleRequestVote
<1>8. \/ /\ m.term > currentTerm[m.to]
         /\ currentTerm' = [currentTerm EXCEPT ![m.to] = m.term]
         /\ state' = [state EXCEPT ![m.to] = "Follower"]
         /\ SetLeaderState(m.to, NilLeaderState)
      \/ /\ m.term <= currentTerm[m.to]
         /\ UNCHANGED <<currentTerm, state, leaderVars>>
  BY <1>2, <1>3, <1>m, <1>t
<1> HIDE DEF grant
<1> QED
  BY <1>m, <1>t, <1>1, <1>4, <1>5, <1>6, <1>7, <1>8

\* HandleRequestVote keeps the types.
LEMMA TypeHandleRequestVote ==
  ASSUME TypeOK, NEW m \in voteReqs, HandleRequestVote(m)
  PROVE  TypeOK'
<1>m. m.from \in Server /\ m.to \in Server /\ m.term \in Nat /\ currentTerm[m.to] \in Nat
  BY RequestVoteEffect
<1>c. /\ currentTerm \in [Server -> Nat]
      /\ votedFor \in [Server -> Server \cup {None}]
      /\ state \in [Server -> {"Follower", "Candidate", "Leader"}]
  BY DEF TypeOK, NodeTypes, Term
<1>d. \/ /\ currentTerm' = [currentTerm EXCEPT ![m.to] = m.term]
         /\ state' = [state EXCEPT ![m.to] = "Follower"]
         /\ SetLeaderState(m.to, NilLeaderState)
      \/ UNCHANGED <<currentTerm, state, leaderVars>>
  BY RequestVoteEffect
<1>t. currentTerm' \in [Server -> Nat] /\ currentTerm'[m.to] \in Nat
  BY <1>m, <1>c, <1>d
<1>g. PICK g \in BOOLEAN :
        /\ votedFor' = [votedFor EXCEPT ![m.to] =
              IF g THEN m.from ELSE IF m.term > currentTerm[m.to] THEN None ELSE votedFor[m.to]]
        /\ votes' = votes \cup
             (IF g THEN {[voter |-> m.to, term |-> m.term, candidate |-> m.from]} ELSE {})
        /\ \/ voteResps' = voteResps
           \/ voteResps' = voteResps \cup
                {[from |-> m.to, to |-> m.from, reqTerm |-> m.term,
                  term |-> currentTerm'[m.to], granted |-> g]}
  BY RequestVoteEffect
<1>1. NodeTypes'
  <2>1. votedFor' \in [Server -> Server \cup {None}]
    BY <1>m, <1>c, <1>g
  <2>2. state' \in [Server -> {"Follower", "Candidate", "Leader"}]
    BY <1>m, <1>c, <1>d
  <2> QED
    BY <1>t, <2>1, <2>2 DEF NodeTypes, Term
<1>2. LeaderTypes'
  <2>1. CASE SetLeaderState(m.to, NilLeaderState)
    BY <1>m, <2>1, SetLeaderStateType, NilLeaderStateType
  <2>2. CASE UNCHANGED leaderVars
    BY <2>2 DEF TypeOK, LeaderTypes, leaderVars
  <2> QED
    BY <1>d, <2>1, <2>2
<1>3. VoteNetTypes'
  <2>1. voteReqs' \subseteq voteReqs /\ voteCalls' = voteCalls
    BY RequestVoteEffect DEF electionVars
  <2>2. [from |-> m.to, to |-> m.from, reqTerm |-> m.term,
         term |-> currentTerm'[m.to], granted |-> g] \in VoteResponse
    BY <1>m, <1>t DEF VoteResponse, Term
  <2>3. voteResps' \subseteq VoteResponse
    BY <1>g, <2>2 DEF TypeOK, VoteNetTypes
  <2> QED
    BY <2>1, <2>3 DEF TypeOK, VoteNetTypes
<1>4. HistoryTypes'
  <2>1. [voter |-> m.to, term |-> m.term, candidate |-> m.from] \in Vote
    BY <1>m DEF Vote, Term
  <2>2. votes' \subseteq Vote
    BY <1>g, <2>1 DEF TypeOK, HistoryTypes
  <2>3. UNCHANGED <<wins, committed, countVars>>
    BY DEF HandleRequestVote
  <2> QED
    BY <2>2, <2>3 DEF TypeOK, HistoryTypes, countVars
<1>5. LogTypes' /\ ElectionTypes' /\ AppendNetTypes' /\ GoroutineTypes'
  BY DEF HandleRequestVote, TypeOK, LogTypes, ElectionTypes, AppendNetTypes, GoroutineTypes,
         commitVars, electionVars, appendNet, goVars
<1> QED
  BY <1>1, <1>2, <1>3, <1>4, <1>5 DEF TypeOK

\* HandleVoteResponse keeps the types.
LEMMA TypeHandleVoteResponse ==
  ASSUME TypeOK, NEW m \in voteResps, HandleVoteResponse(m)
  PROVE  TypeOK'
<1>m. m.from \in Server /\ m.to \in Server /\ m.term \in Nat
  BY DEF TypeOK, VoteNetTypes, VoteResponse, Term
<1>1. NodeTypes' /\ LeaderTypes'
  <2>1. CASE StepDown(m.to, m.term)
    BY <1>m, <2>1, StepDownType
  <2>2. CASE UNCHANGED <<state, currentTerm, votedFor, leaderVars>>
    BY <2>2 DEF TypeOK, NodeTypes, LeaderTypes, leaderVars
  <2> QED
    BY <2>1, <2>2 DEF HandleVoteResponse
<1>3. ElectionTypes'
  BY <1>m DEF HandleVoteResponse, TypeOK, ElectionTypes, electionVars, AddVote, VoteResponse
<1>4. VoteNetTypes'
  BY <1>m DEF HandleVoteResponse, TypeOK, VoteNetTypes, electionVars, voteNet
<1>5. LogTypes' /\ AppendNetTypes' /\ GoroutineTypes' /\ HistoryTypes'
  BY DEF HandleVoteResponse, TypeOK, LogTypes, AppendNetTypes, GoroutineTypes, HistoryTypes, nodeVars, commitVars, appendNet, goVars, histVars, countVars
<1> QED
  BY <1>1, <1>3, <1>4, <1>5 DEF TypeOK

\* BecomeLeader keeps the types.
LEMMA TypeBecomeLeader ==
  ASSUME TypeOK, NEW i \in Server, BecomeLeader(i)
  PROVE  TypeOK'
<1>l. LastLogIndex(i) \in Nat
  BY LastLogTermType
<1>1. NodeTypes'
  BY <1>l DEF BecomeLeader, TypeOK, NodeTypes, nodeVars
<1>2. LeaderTypes'
  <2>1. /\ NewLeaderState(i).nextIndex \in [Server -> Nat \ {0}]
        /\ NewLeaderState(i).matchIndex \in [Server -> Nat]
    BY <1>l DEF NewLeaderState
  <2>2. CASE StillCandidate(i)
    <3>1. SetLeaderState(i, NewLeaderState(i))
      BY <2>2 DEF BecomeLeader
    <3> QED
      BY <2>1, <3>1, SetLeaderStateType
  <2>3. CASE ~StillCandidate(i)
    BY <2>3 DEF BecomeLeader, TypeOK, LeaderTypes, leaderVars
  <2> QED
    BY <2>2, <2>3
<1>3. ElectionTypes'
  BY <1>l DEF BecomeLeader, TypeOK, ElectionTypes, electionVars
<1>4. VoteNetTypes'
  BY <1>l DEF BecomeLeader, TypeOK, VoteNetTypes, electionVars, voteNet, LeaveCalls
<1>5. HistoryTypes'
  <2>1. [leader |-> i, term |-> currentTerm[i]] \in [leader : Server, term : Term]
    BY DEF TypeOK, NodeTypes
  <2> QED
    BY <2>1 DEF BecomeLeader, TypeOK, HistoryTypes, histVars, countVars
<1>6. LogTypes' /\ AppendNetTypes' /\ GoroutineTypes'
  BY DEF BecomeLeader, TypeOK, LogTypes, AppendNetTypes, GoroutineTypes, nodeVars, commitVars, appendNet, goVars
<1> QED
  BY <1>1, <1>2, <1>3, <1>4, <1>5, <1>6 DEF TypeOK

\* ElectionCompletes keeps the types.
LEMMA TypeElectionCompletes ==
  ASSUME TypeOK, NEW i \in Server, ElectionCompletes(i)
  PROVE  TypeOK'
<1>1. ElectionTypes'
  BY DEF ElectionCompletes, TypeOK, ElectionTypes, electionVars
<1>2. VoteNetTypes'
  BY DEF ElectionCompletes, TypeOK, VoteNetTypes, electionVars, voteNet, LeaveCalls
<1>3. NodeTypes' /\ LogTypes' /\ LeaderTypes' /\ AppendNetTypes' /\ GoroutineTypes' /\ HistoryTypes'
  BY DEF ElectionCompletes, TypeOK, NodeTypes, LogTypes, LeaderTypes, AppendNetTypes, GoroutineTypes, HistoryTypes, nodeVars, commitVars, leaderVars, appendNet, goVars, histVars, countVars
<1> QED
  BY <1>1, <1>2, <1>3 DEF TypeOK

\* AppendNoOpEntry keeps the types.
LEMMA TypeAppendNoOpEntry ==
  ASSUME TypeOK, NEW i \in Server, AppendNoOpEntry(i)
  PROVE  TypeOK'
<1>a. Appended(i, NoOp) \in Seq(Entry)
  BY AppendedType
<1>1. LogTypes'
  BY <1>a DEF AppendNoOpEntry, TypeOK, LogTypes, nodeVars, commitVars
<1>2. ElectionTypes'
  BY <1>a DEF AppendNoOpEntry, TypeOK, ElectionTypes, electionVars
<1>3. NodeTypes' /\ LeaderTypes' /\ VoteNetTypes' /\ AppendNetTypes' /\ GoroutineTypes' /\ HistoryTypes'
  BY DEF AppendNoOpEntry, TypeOK, NodeTypes, LeaderTypes, VoteNetTypes, AppendNetTypes, GoroutineTypes, HistoryTypes, nodeVars, leaderVars, electionVars, voteNet, appendNet, goVars, histVars, countVars
<1> QED
  BY <1>1, <1>2, <1>3 DEF TypeOK

\* AppendLogEntry keeps the types.
LEMMA TypeAppendLogEntry ==
  ASSUME TypeOK, NEW i \in Server, NEW v \in Value, AppendLogEntry(i, v)
  PROVE  TypeOK'
<1>a. Appended(i, v) \in Seq(Entry)
  BY AppendedType
<1>1. LogTypes'
  BY <1>a DEF AppendLogEntry, TypeOK, LogTypes, nodeVars, commitVars
<1>2. HistoryTypes'
  BY <1>a DEF AppendLogEntry, TypeOK, HistoryTypes, histVars, countVars
<1>3. NodeTypes' /\ LeaderTypes' /\ ElectionTypes' /\ VoteNetTypes' /\ AppendNetTypes' /\ GoroutineTypes'
  BY DEF AppendLogEntry, TypeOK, NodeTypes, LeaderTypes, ElectionTypes, VoteNetTypes, AppendNetTypes, GoroutineTypes, nodeVars, leaderVars, electionVars, voteNet, appendNet, goVars
<1> QED
  BY <1>1, <1>2, <1>3 DEF TypeOK

\* ReplicateToPeer keeps the types.
LEMMA TypeReplicateToPeer ==
  ASSUME TypeOK, NEW i \in Server, NEW j \in Peers(i), ReplicateToPeer(i, j)
  PROVE  TypeOK'
<1>r. BuildAppendEntriesRequest(i, j) \in AppendRequest
  BY BuildAppendEntriesRequestType DEF Peers
<1>1. AppendNetTypes'
  BY <1>r, BuildAppendEntriesRequestType DEF ReplicateToPeer, TypeOK, AppendNetTypes, appendNet, Peers
<1>2. NodeTypes' /\ LogTypes' /\ LeaderTypes' /\ ElectionTypes' /\ VoteNetTypes' /\ GoroutineTypes' /\ HistoryTypes'
  BY DEF ReplicateToPeer, TypeOK, NodeTypes, LogTypes, LeaderTypes, ElectionTypes, VoteNetTypes, GoroutineTypes, HistoryTypes, nodeVars, commitVars, leaderVars, electionVars, voteNet, goVars, histVars, countVars
<1> QED
  BY <1>1, <1>2 DEF TypeOK

\* PreemptAfterCheck keeps the types.
LEMMA TypePreemptAfterCheck ==
  ASSUME TypeOK, NEW i \in Server, NEW j \in Peers(i), PreemptAfterCheck(i, j)
  PROVE  TypeOK'
<1>1. GoroutineTypes'
  BY DEF PreemptAfterCheck, TypeOK, GoroutineTypes, goVars, Peers
<1>2. NodeTypes' /\ LogTypes' /\ LeaderTypes' /\ ElectionTypes' /\ VoteNetTypes' /\ AppendNetTypes' /\ HistoryTypes'
  BY DEF PreemptAfterCheck, TypeOK, NodeTypes, LogTypes, LeaderTypes, ElectionTypes, VoteNetTypes, AppendNetTypes, HistoryTypes, nodeVars, commitVars, leaderVars, electionVars, voteNet, appendNet, histVars, countVars
<1> QED
  BY <1>1, <1>2 DEF TypeOK

\* SendAfterPreemption keeps the types.
LEMMA TypeSendAfterPreemption ==
  ASSUME TypeOK, NEW p \in preempted, SendAfterPreemption(p)
  PROVE  TypeOK'
<1>r. BuildAppendEntriesRequest(p.from, p.to) \in AppendRequest
  BY BuildAppendEntriesRequestType DEF TypeOK, GoroutineTypes
<1>1. AppendNetTypes'
  BY <1>r, BuildAppendEntriesRequestType DEF SendAfterPreemption, TypeOK, AppendNetTypes, appendNet, GoroutineTypes
<1>2. GoroutineTypes'
  BY <1>r DEF SendAfterPreemption, TypeOK, GoroutineTypes, goVars
<1>3. NodeTypes' /\ LogTypes' /\ LeaderTypes' /\ ElectionTypes' /\ VoteNetTypes' /\ HistoryTypes'
  BY DEF SendAfterPreemption, TypeOK, NodeTypes, LogTypes, LeaderTypes, ElectionTypes, VoteNetTypes, HistoryTypes, nodeVars, commitVars, leaderVars, electionVars, voteNet, histVars, countVars
<1> QED
  BY <1>1, <1>2, <1>3 DEF TypeOK

\* SendHeartbeats keeps the types.
LEMMA TypeSendHeartbeats ==
  ASSUME TypeOK, NEW i \in Server, SendHeartbeats(i)
  PROVE  TypeOK'
<1>t. currentTerm[i] \in Nat /\ commitIndex[i] \in Nat
  BY DEF TypeOK, NodeTypes, LogTypes, Term
<1>1. GoroutineTypes'
  BY <1>t DEF SendHeartbeats, TypeOK, GoroutineTypes, goVars, Beat, Peers, NodeTypes, LogTypes, Term
<1>2. NodeTypes' /\ LogTypes' /\ LeaderTypes' /\ ElectionTypes' /\ VoteNetTypes' /\ AppendNetTypes' /\ HistoryTypes'
  BY DEF SendHeartbeats, TypeOK, NodeTypes, LogTypes, LeaderTypes, ElectionTypes, VoteNetTypes, AppendNetTypes, HistoryTypes, nodeVars, commitVars, leaderVars, electionVars, voteNet, appendNet, histVars, countVars
<1> QED
  BY <1>1, <1>2 DEF TypeOK

\* SendHeartbeatToPeer keeps the types.
LEMMA TypeSendHeartbeatToPeer ==
  ASSUME TypeOK, NEW b \in beats, SendHeartbeatToPeer(b)
  PROVE  TypeOK'
<1>r. BuildHeartbeat(b) \in AppendRequest
  BY BuildHeartbeatType
<1>1. AppendNetTypes'
  BY <1>r, BuildHeartbeatType DEF SendHeartbeatToPeer, TypeOK, AppendNetTypes, appendNet
<1>2. GoroutineTypes'
  BY <1>r DEF SendHeartbeatToPeer, TypeOK, GoroutineTypes, goVars
<1>3. NodeTypes' /\ LogTypes' /\ LeaderTypes' /\ ElectionTypes' /\ VoteNetTypes' /\ HistoryTypes'
  BY DEF SendHeartbeatToPeer, TypeOK, NodeTypes, LogTypes, LeaderTypes, ElectionTypes, VoteNetTypes, HistoryTypes, nodeVars, commitVars, leaderVars, electionVars, voteNet, histVars, countVars
<1> QED
  BY <1>1, <1>2, <1>3 DEF TypeOK

\* HandleAppendEntries keeps the types.
LEMMA TypeHandleAppendEntries ==
  ASSUME TypeOK, NEW m \in appendReqs, HandleAppendEntries(m)
  PROVE  TypeOK'
<1>m. m \in AppendRequest /\ m.to \in Server /\ m.term \in Nat /\ m.leaderCommit \in Nat
  BY DEF TypeOK, AppendNetTypes, AppendRequest, Term
<1>t. currentTerm[m.to] \in Nat
  BY <1>m DEF TypeOK, NodeTypes, Term
<1>r. \A t, c \in Nat, ok \in BOOLEAN : AppendReply(m, t, ok, c) \in AppendResponse
  <2>1. m.prevLogIndex + Len(m.entries) \in Nat
    BY <1>m DEF AppendRequest
  <2> QED
    BY <1>m, <2>1 DEF AppendReply, AppendRequest, AppendResponse, Term
<1>q. appendReqs' = appendReqs \ {m} /\ lastApplied' = lastApplied /\ applied' = applied
  BY DEF HandleAppendEntries
<1>g. guessed' \in BOOLEAN
  <2>1. guessed \in BOOLEAN
    BY DEF TypeOK, LogTypes
  <2>2. guessed' = guessed \/ guessed' = (guessed \/ CommitsUncompared(m, m.to))
    BY Zenon DEF HandleAppendEntries
  <2> QED
    BY <2>1, <2>2, Zenon
<1>u. ElectionTypes' /\ VoteNetTypes' /\ GoroutineTypes' /\ HistoryTypes'
  BY DEF HandleAppendEntries, TypeOK, ElectionTypes, VoteNetTypes, GoroutineTypes, HistoryTypes,
         electionVars, voteNet, goVars, histVars, countVars
<1>1. CASE /\ UNCHANGED <<nodeVars, leaderVars, commitIndex>>
           /\ appendResps' = appendResps \cup {AppendReply(m, currentTerm[m.to], FALSE, 0)}
  <2>1. NodeTypes' /\ LeaderTypes' /\ LogTypes'
    BY <1>1, <1>q, <1>g DEF TypeOK, NodeTypes, LeaderTypes, LogTypes, nodeVars, leaderVars
  <2>2. AppendReply(m, currentTerm[m.to], FALSE, 0) \in AppendResponse
    BY <1>r, <1>t
  <2>3. AppendNetTypes'
    BY <1>1, <1>q, <2>2 DEF TypeOK, AppendNetTypes
  <2> QED
    BY <1>u, <2>1, <2>3 DEF TypeOK
<1>2. CASE /\ ~PrevMatches(m, m.to)
           /\ AdoptTerm(m, m.to)
           /\ UNCHANGED <<log, commitIndex>>
           /\ appendResps' = appendResps \cup {AppendReply(m, m.term, FALSE, ConflictIndex(m, m.to))}
  <2>1. NodeTypes' /\ LeaderTypes'
    BY <1>2, AdoptTermType
  <2>2. LogTypes'
    BY <1>2, <1>q, <1>g DEF TypeOK, LogTypes
  <2>3. AppendReply(m, m.term, FALSE, ConflictIndex(m, m.to)) \in AppendResponse
    BY <1>2, <1>m, <1>r, ConflictIndexType
  <2>4. AppendNetTypes'
    BY <1>2, <1>q, <2>3 DEF TypeOK, AppendNetTypes
  <2> QED
    BY <1>u, <2>1, <2>2, <2>4 DEF TypeOK
<1>3. CASE /\ PrevMatches(m, m.to)
           /\ AdoptTerm(m, m.to)
           /\ log' = [log EXCEPT ![m.to] = ApplyLogEntries(m, m.to)]
           /\ commitIndex' = [commitIndex EXCEPT ![m.to] =
                                 FollowerCommit(m, m.to, ApplyLogEntries(m, m.to))]
           /\ appendResps' = appendResps \cup {AppendReply(m, m.term, TRUE, 0)}
  <2>1. NodeTypes' /\ LeaderTypes'
    BY <1>3, AdoptTermType
  <2>2. ApplyLogEntries(m, m.to) \in Seq(Entry)
    BY <1>3, ApplyLogEntriesType
  <2>3. FollowerCommit(m, m.to, ApplyLogEntries(m, m.to)) \in Nat
    BY <1>m, <2>2 DEF FollowerCommit, MinOf, TypeOK, LogTypes
  <2>4. LogTypes'
    BY <1>3, <1>q, <1>g, <2>2, <2>3 DEF TypeOK, LogTypes
  <2>5. AppendReply(m, m.term, TRUE, 0) \in AppendResponse
    BY <1>m, <1>r
  <2>6. AppendNetTypes'
    BY <1>3, <1>q, <2>5 DEF TypeOK, AppendNetTypes
  <2> QED
    BY <1>u, <2>1, <2>4, <2>6 DEF TypeOK
<1> QED
  BY <1>1, <1>2, <1>3 DEF HandleAppendEntries

\* HandleAppendResponse keeps the types.
LEMMA TypeHandleAppendResponse ==
  ASSUME TypeOK, NEW m \in appendResps, HandleAppendResponse(m)
  PROVE  TypeOK'
<1>m. m \in AppendResponse /\ m.from \in Server /\ m.to \in Server /\ m.term \in Nat /\ m.lastSent \in Nat /\ m.conflictIndex \in Nat
  BY DEF TypeOK, AppendNetTypes, AppendResponse, Term
<1>k. \/ commitIndex' = commitIndex /\ committed' = committed
      \/ \E k \in 1..Len(log[m.to]) :
           /\ commitIndex' = [commitIndex EXCEPT ![m.to] = k]
           /\ committed' = [committed EXCEPT ![currentTerm[m.to]] = SubSeq(log[m.to], 1, k)]
  BY <1>m, TryAdvanceCommitIndexType DEF HandleAppendResponse
<1>n. NextAfterFailure(m) \in Nat \ {0}
  BY <1>m DEF TypeOK, LeaderTypes, NextAfterFailure
<1>1. NodeTypes'
  BY <1>m, <1>k, <1>n DEF HandleAppendResponse, TypeOK, NodeTypes, nodeVars, StepDown, AppendResponse
<1>2. LogTypes'
  <2>1. UNCHANGED <<log, lastApplied, applied, guessed>>
    BY DEF HandleAppendResponse
  <2>2. guessed' \in BOOLEAN
    BY <2>1, Zenon DEF TypeOK, LogTypes
  <2>3. commitIndex \in [Server -> Nat] /\ Len(log[m.to]) \in Nat
    BY <1>m DEF TypeOK, LogTypes
  <2>4. commitIndex' = commitIndex \/ \E k \in Nat : commitIndex' = [commitIndex EXCEPT ![m.to] = k]
    BY <1>k, <2>3
  <2>5. commitIndex' \in [Server -> Nat]
    BY <1>m, <2>3, <2>4
  <2> QED
    BY <2>1, <2>2, <2>5 DEF TypeOK, LogTypes
<1>3. LeaderTypes'
  <2>1. CASE StepDown(m.to, m.term)
    BY <1>m, <2>1, StepDownType
  <2>2. CASE UNCHANGED leaderVars
    BY <2>2 DEF TypeOK, LeaderTypes, leaderVars
  <2>3. CASE /\ nextIndex' = [nextIndex EXCEPT ![m.to][m.from] = m.lastSent + 1]
             /\ matchIndex' = [matchIndex EXCEPT ![m.to][m.from] = m.lastSent]
    BY <1>m, <2>3 DEF TypeOK, LeaderTypes
  <2>4. CASE /\ nextIndex' = [nextIndex EXCEPT ![m.to][m.from] = NextAfterFailure(m)]
             /\ matchIndex' = matchIndex
    BY <1>m, <1>n, <2>4 DEF TypeOK, LeaderTypes
  <2> QED
    BY <2>1, <2>2, <2>3, <2>4 DEF HandleAppendResponse
<1>4. AppendNetTypes'
  BY <1>m, <1>k, <1>n DEF HandleAppendResponse, TypeOK, AppendNetTypes, appendNet
<1>5. HistoryTypes'
  <2>1. committed' \in [1..MaxTerm -> Seq(Entry)]
    <3>1. \A k \in 1..Len(log[m.to]) : SubSeq(log[m.to], 1, k) \in Seq(Entry)
      BY SMTT(30), <1>m DEF TypeOK, LogTypes
    <3> QED
      BY <1>k, <3>1 DEF TypeOK, HistoryTypes
  <2> QED
    BY <2>1 DEF HandleAppendResponse, TypeOK, HistoryTypes, histVars, countVars
<1>6. ElectionTypes' /\ VoteNetTypes' /\ GoroutineTypes'
  BY DEF HandleAppendResponse, TypeOK, ElectionTypes, VoteNetTypes, GoroutineTypes, electionVars, voteNet, goVars
<1> QED
  BY <1>1, <1>2, <1>3, <1>4, <1>5, <1>6 DEF TypeOK

\* LoseAppend keeps the types.
LEMMA TypeLoseAppend ==
  ASSUME TypeOK, LoseAppend
  PROVE  TypeOK'
<1>1. AppendNetTypes'
  BY DEF LoseAppend, TypeOK, AppendNetTypes, appendNet
<1>2. NodeTypes' /\ LogTypes' /\ LeaderTypes' /\ ElectionTypes' /\ VoteNetTypes' /\ GoroutineTypes' /\ HistoryTypes'
  BY DEF LoseAppend, TypeOK, NodeTypes, LogTypes, LeaderTypes, ElectionTypes, VoteNetTypes, GoroutineTypes, HistoryTypes, nodeVars, commitVars, leaderVars, electionVars, voteNet, goVars, histVars, countVars
<1> QED
  BY <1>1, <1>2 DEF TypeOK

\* ApplyCommittedEntries keeps the types.
LEMMA TypeApplyCommittedEntries ==
  ASSUME TypeOK, NEW i \in Server, ApplyCommittedEntries(i)
  PROVE  TypeOK'
<1>1. LogTypes'
  BY DEF ApplyCommittedEntries, TypeOK, LogTypes, nodeVars, commitVars, MinOf, LastLogIndex
<1>2. NodeTypes' /\ LeaderTypes' /\ ElectionTypes' /\ VoteNetTypes' /\ AppendNetTypes' /\ GoroutineTypes' /\ HistoryTypes'
  BY DEF ApplyCommittedEntries, TypeOK, NodeTypes, LeaderTypes, ElectionTypes, VoteNetTypes, AppendNetTypes, GoroutineTypes, HistoryTypes, nodeVars, leaderVars, electionVars, voteNet, appendNet, goVars, histVars, countVars
<1> QED
  BY <1>1, <1>2 DEF TypeOK

\* Restart keeps the types.
LEMMA TypeRestart ==
  ASSUME TypeOK, NEW i \in Server, Restart(i)
  PROVE  TypeOK'
<1>1. NodeTypes'
  BY DEF Restart, TypeOK, NodeTypes, nodeVars, SetLeaderState, NilLeaderState, Term
<1>2. LogTypes'
  BY DEF Restart, TypeOK, LogTypes, nodeVars, commitVars, SetLeaderState, NilLeaderState, Term
<1>3. LeaderTypes'
  BY DEF Restart, TypeOK, LeaderTypes, leaderVars, SetLeaderState, NilLeaderState, Term
<1>4. ElectionTypes'
  BY DEF Restart, TypeOK, ElectionTypes, electionVars, SetLeaderState, NilLeaderState, Term
<1>5. VoteNetTypes'
  BY DEF Restart, TypeOK, VoteNetTypes, electionVars, voteNet, SetLeaderState, NilLeaderState, Term
<1>6. AppendNetTypes'
  BY DEF Restart, TypeOK, AppendNetTypes, appendNet, SetLeaderState, NilLeaderState, Term
<1>7. GoroutineTypes'
  BY DEF Restart, TypeOK, GoroutineTypes, goVars, SetLeaderState, NilLeaderState, Term
<1>8. HistoryTypes'
  BY DEF Restart, TypeOK, HistoryTypes, histVars, countVars, SetLeaderState, NilLeaderState, Term
<1> QED
  BY <1>1, <1>2, <1>3, <1>4, <1>5, <1>6, <1>7, <1>8 DEF TypeOK

\* The types hold initially.
LEMMA TypeInit == Init => TypeOK
<1> SUFFICES ASSUME Init PROVE TypeOK
  OBVIOUS
<1>1. NodeTypes
  BY DEF Init, NodeTypes, Term
<1>2. LogTypes
  <2>1. guessed \in BOOLEAN
    BY Zenon DEF Init
  <2>2. log \in [Server -> Seq(Entry)] /\ applied \in [Server -> Seq(Entry)]
    BY DEF Init
  <2>3. commitIndex \in [Server -> Nat] /\ lastApplied \in [Server -> Nat]
    BY DEF Init
  <2> QED
    BY <2>1, <2>2, <2>3 DEF LogTypes
<1>3. LeaderTypes
  BY NilLeaderStateType DEF Init, LeaderTypes
<1>4. ElectionTypes
  BY DEF Init, ElectionTypes, Term
<1>5. VoteNetTypes /\ AppendNetTypes
  BY DEF Init, VoteNetTypes, AppendNetTypes
<1>6. GoroutineTypes
  BY DEF Init, GoroutineTypes
<1>7. HistoryTypes
  BY DEF Init, HistoryTypes
<1> QED
  BY <1>1, <1>2, <1>3, <1>4, <1>5, <1>6, <1>7 DEF TypeOK

\* Every step keeps the types.
LEMMA TypeNext == TypeOK /\ [Next]_vars => TypeOK'
<1> SUFFICES ASSUME TypeOK, [Next]_vars PROVE TypeOK'
  OBVIOUS
<1>1. CASE Next
  BY <1>1, TypeStartElection, TypeHandleRequestVote, TypeHandleVoteResponse, TypeBecomeLeader,
     TypeElectionCompletes, TypeAppendNoOpEntry, TypeAppendLogEntry, TypeReplicateToPeer,
     TypePreemptAfterCheck, TypeSendAfterPreemption, TypeSendHeartbeats,
     TypeSendHeartbeatToPeer, TypeHandleAppendEntries, TypeHandleAppendResponse,
     TypeLoseAppend, TypeApplyCommittedEntries, TypeRestart
  DEF Next
<1>2. CASE UNCHANGED vars
  BY <1>2 DEF vars, nodeVars, commitVars, leaderVars, electionVars, voteNet, appendNet, goVars,
     histVars, countVars, TypeOK, NodeTypes, LogTypes, LeaderTypes, ElectionTypes,
     VoteNetTypes, AppendNetTypes, GoroutineTypes, HistoryTypes
<1> QED
  BY <1>1, <1>2

\* Every variable keeps its type in every cluster, under every bound.  In particular
\* nextIndex stays positive whatever answers arrive and in whatever order, so the unsigned
\* nextIndex - 1 of buildAppendEntriesRequest and sendHeartbeatToPeer does not wrap around.
THEOREM TypeCorrect == Spec => []TypeOK
BY TypeInit, TypeNext, PTL DEF Spec
-----------------------------------------------------------------------------
(* Election safety *)

\* A step that lets terms grow, takes vote messages away or ends elections disturbs nothing
\* that the other elections rest on.
LEMMA TermsOnlyGrow ==
  ASSUME TypeOK, TypeOK', ElectionInv,
         UNCHANGED <<electionTerm, votesReceived, votes, wins, restarts>>,
         voteReqs' \subseteq voteReqs, voteResps' \subseteq voteResps,
         \A i \in Server : phase'[i] \in {phase[i], "idle"},
         \A i \in Server : \/ currentTerm'[i] > currentTerm[i]
                           \/ currentTerm'[i] = currentTerm[i] /\ votedFor'[i] = votedFor[i]
  PROVE  ElectionInv'
<1> SUFFICES ASSUME restarts = 0
             PROVE  VotesRemembered' /\ AnswersBacked' /\ CountsBacked'
  BY DEF ElectionInv
<1>i. VotesRemembered /\ AnswersBacked /\ CountsBacked
  BY DEF ElectionInv
<1>1. VotesRemembered'
  <2>1. ASSUME NEW v \in votes
        PROVE  /\ v.term <= currentTerm'[v.voter]
               /\ v.term = currentTerm'[v.voter] => votedFor'[v.voter] = v.candidate
    <3>1. /\ v.voter \in Server /\ v.term \in Nat /\ currentTerm[v.voter] \in Nat
          /\ currentTerm'[v.voter] \in Nat
      BY DEF TypeOK, HistoryTypes, NodeTypes, Vote, Term
    <3>2. /\ v.term <= currentTerm[v.voter]
          /\ v.term = currentTerm[v.voter] => votedFor[v.voter] = v.candidate
      BY <1>i DEF VotesRemembered
    <3>3. CASE currentTerm'[v.voter] > currentTerm[v.voter]
      <4>1. v.term < currentTerm'[v.voter]
        BY <3>1, <3>2, <3>3, SMT
      <4> QED
        BY <3>1, <3>2, <3>3, <4>1
    <3>4. CASE currentTerm'[v.voter] = currentTerm[v.voter] /\ votedFor'[v.voter] = votedFor[v.voter]
      BY <3>2, <3>4
    <3> QED
      BY <3>1, <3>3, <3>4
  <2> QED
    BY <1>i, <2>1 DEF VotesRemembered
<1>2. AnswersBacked'
  BY <1>i DEF AnswersBacked, Voted
<1>3. CountsBacked'
  <2>1. ASSUME NEW j \in Server, phase'[j] # "idle"
        PROVE  ( /\ votesReceived[j] \subseteq {j, None}
                 /\ Voted(j, electionTerm[j], j)
                 /\ None \in votesReceived[j] => \E p \in Peers(j) : Voted(p, electionTerm[j], j) )'
    <3>1. phase[j] # "idle"
      BY <2>1
    <3> QED
      BY <1>i, <3>1 DEF CountsBacked, Voted
  <2>2. ASSUME NEW j \in Server, phase'[j] = "won" PROVE Elected(j, electionTerm[j])'
    <3>1. phase[j] = "won"
      BY <2>2
    <3> QED
      BY <1>i, <3>1 DEF CountsBacked, Elected, Voted
  <2>3. \A w \in wins' : Elected(w.leader, w.term)'
    BY <1>i DEF CountsBacked, Elected, Voted
  <2> QED
    BY <2>1, <2>2, <2>3 DEF CountsBacked
<1> QED
  BY <1>1, <1>2, <1>3

\* StartElection keeps ElectionInv.
LEMMA ElectionStartElection ==
  ASSUME TypeOK, ElectionInv, NEW i \in Server, StartElection(i)
  PROVE  ElectionInv'
<1> SUFFICES ASSUME restarts = 0
             PROVE  VotesRemembered' /\ AnswersBacked' /\ CountsBacked'
  BY DEF ElectionInv, StartElection, countVars
<1> DEFINE t == currentTerm[i] + 1
           own == [voter |-> i, term |-> t, candidate |-> i]
<1>i. VotesRemembered /\ AnswersBacked /\ CountsBacked
  BY DEF ElectionInv
<1>t. currentTerm \in [Server -> Nat] /\ votedFor \in [Server -> Server \cup {None}]
  BY DEF TypeOK, NodeTypes, Term
<1>v. \A v \in votes : v.voter \in Server /\ v.term \in Nat
  BY DEF TypeOK, HistoryTypes, Vote, Term
<1>e. /\ currentTerm' = [currentTerm EXCEPT ![i] = t]
      /\ votedFor' = [votedFor EXCEPT ![i] = i]
      /\ votes' = votes \cup {own}
  BY DEF StartElection
<1>f. /\ phase[i] = "idle" /\ phase' = [phase EXCEPT ![i] = "counting"]
      /\ electionTerm' = [electionTerm EXCEPT ![i] = t]
      /\ votesReceived' = [votesReceived EXCEPT ![i] = {i}]
      /\ wins' = wins /\ voteResps' = voteResps
  BY DEF StartElection
<1>n. own.voter = i /\ own.term = t /\ own.candidate = i
  OBVIOUS
<1>o. \A v \in votes : v.voter = i => v.term < t
  BY <1>i, <1>t, <1>v DEF VotesRemembered
<1>1. VotesRemembered'
  <2>1. ASSUME NEW v \in votes'
        PROVE  /\ v.term <= currentTerm'[v.voter]
               /\ v.term = currentTerm'[v.voter] => votedFor'[v.voter] = v.candidate
    <3>1. CASE v = own
      BY <1>e, <1>n, <1>t, <3>1
    <3>2. CASE v \in votes /\ v.voter = i
      <4>1. v.term < t /\ currentTerm'[v.voter] = t /\ t \in Nat /\ v.term \in Nat
        BY <1>e, <1>o, <1>t, <1>v, <3>2
      <4> HIDE DEF t
      <4> QED
        BY <4>1
    <3>3. CASE v \in votes /\ v.voter # i
      <4>1. currentTerm'[v.voter] = currentTerm[v.voter] /\ votedFor'[v.voter] = votedFor[v.voter]
        BY <1>e, <1>t, <1>v, <3>3
      <4> QED
        BY <1>i, <3>3, <4>1 DEF VotesRemembered
    <3> QED
      BY <1>e, <3>1, <3>2, <3>3
  <2>2. ASSUME NEW u \in votes', NEW v \in votes', u.voter = v.voter, u.term = v.term
        PROVE  u.candidate = v.candidate
    <3>1. \A w \in votes : ~(w.voter = i /\ w.term = t)
      BY <1>o, <1>t, <1>v
    <3> HIDE DEF t, own
    <3> QED
      BY <1>e, <1>i, <1>n, <2>2, <3>1 DEF VotesRemembered
  <2> QED
    BY <2>1, <2>2 DEF VotesRemembered
<1>g. votes \subseteq votes'
  BY <1>e
<1>2. AnswersBacked'
  <2>1. voteReqs' \subseteq voteReqs \cup
          {[from |-> i, to |-> j, term |-> t,
            lastLogIndex |-> LastLogIndex(i), lastLogTerm |-> LastLogTerm(i)] : j \in Peers(i)}
    BY DEF StartElection
  <2>2. \A m \in voteReqs' : m.from # m.to
    BY <1>i, <2>1 DEF AnswersBacked, Peers
  <2> QED
    BY <1>f, <1>g, <1>i, <2>2 DEF AnswersBacked, Voted
<1>3. CountsBacked'
  <2>p. phase \in [Server -> {"idle", "counting", "won"}] /\ electionTerm \in [Server -> Nat]
        /\ votesReceived \in [Server -> SUBSET (Server \cup {None})]
    BY DEF TypeOK, ElectionTypes, Term
  <2>1. own \in votes'
    BY <1>e
  <2>2. /\ phase'[i] = "counting" /\ electionTerm'[i] = t /\ votesReceived'[i] = {i}
        /\ None \notin votesReceived'[i]
    BY <1>f, <2>p, ServerAssumption
  <2>3. \A j \in Server \ {i} : /\ phase'[j] = phase[j] /\ electionTerm'[j] = electionTerm[j]
                                /\ votesReceived'[j] = votesReceived[j]
    BY <1>f, <2>p
  <2> HIDE DEF t
  <2>5. ASSUME NEW j \in Server, phase'[j] # "idle"
        PROVE  ( /\ votesReceived[j] \subseteq {j, None}
                 /\ Voted(j, electionTerm[j], j)
                 /\ None \in votesReceived[j] => \E p \in Peers(j) : Voted(p, electionTerm[j], j) )'
    <3>1. CASE j = i
      BY <2>1, <2>2, <3>1 DEF Voted
    <3>2. CASE j # i
      <4>1. /\ phase'[j] = phase[j] /\ electionTerm'[j] = electionTerm[j]
            /\ votesReceived'[j] = votesReceived[j]
        BY <2>3, <3>2
      <4>2. /\ votesReceived[j] \subseteq {j, None}
            /\ Voted(j, electionTerm[j], j)
            /\ None \in votesReceived[j] => \E p \in Peers(j) : Voted(p, electionTerm[j], j)
        BY <1>i, <2>5, <4>1 DEF CountsBacked
      <4> QED
        BY <1>g, <4>1, <4>2 DEF Voted
    <3> QED
      BY <3>1, <3>2
  <2>6. ASSUME NEW j \in Server, phase'[j] = "won" PROVE Elected(j, electionTerm[j])'
    <3>1. phase'[j] = phase[j] /\ electionTerm'[j] = electionTerm[j]
      BY <2>2, <2>3, <2>6
    <3>2. Elected(j, electionTerm[j])
      BY <1>i, <2>6, <3>1 DEF CountsBacked
    <3> QED
      BY <1>g, <3>1, <3>2 DEF Elected, Voted
  <2>7. \A w \in wins' : Elected(w.leader, w.term)'
    BY <1>f, <1>g, <1>i DEF CountsBacked, Elected, Voted
  <2> QED
    BY <2>5, <2>6, <2>7 DEF CountsBacked
<1> QED
  BY <1>1, <1>2, <1>3

\* HandleRequestVote keeps ElectionInv.
LEMMA ElectionHandleRequestVote ==
  ASSUME TypeOK, TypeOK', ElectionInv, NEW m \in voteReqs, HandleRequestVote(m)
  PROVE  ElectionInv'
<1> SUFFICES ASSUME restarts = 0
             PROVE  VotesRemembered' /\ AnswersBacked' /\ CountsBacked'
  BY DEF ElectionInv, HandleRequestVote, countVars
<1> DEFINE i == m.to
           new == [voter |-> m.to, term |-> m.term, candidate |-> m.from]
<1>i. VotesRemembered /\ AnswersBacked /\ CountsBacked
  BY DEF ElectionInv
<1>m. /\ m.from \in Server /\ m.to \in Server /\ m.term \in Nat /\ currentTerm[m.to] \in Nat
      /\ voteReqs' = voteReqs \ {m}
      /\ UNCHANGED electionVars
  BY RequestVoteEffect
<1>c. \/ m.term > currentTerm[m.to] /\ currentTerm' = [currentTerm EXCEPT ![m.to] = m.term]
      \/ m.term <= currentTerm[m.to] /\ currentTerm' = currentTerm
  BY RequestVoteEffect
<1>g. PICK g \in BOOLEAN :
        /\ g => /\ m.term >= currentTerm[m.to]
                /\ m.term = currentTerm[m.to] => votedFor[m.to] \in {None, m.from}
        /\ votedFor' = [votedFor EXCEPT ![m.to] =
              IF g THEN m.from ELSE IF m.term > currentTerm[m.to] THEN None ELSE votedFor[m.to]]
        /\ votes' = votes \cup
             (IF g THEN {[voter |-> m.to, term |-> m.term, candidate |-> m.from]} ELSE {})
        /\ \/ voteResps' = voteResps
           \/ voteResps' = voteResps \cup
                {[from |-> m.to, to |-> m.from, reqTerm |-> m.term,
                  term |-> currentTerm'[m.to], granted |-> g]}
  BY RequestVoteEffect
<1>w. wins' = wins
  BY DEF HandleRequestVote
<1>t. currentTerm \in [Server -> Nat] /\ votedFor \in [Server -> Server \cup {None}]
  BY DEF TypeOK, NodeTypes, Term
<1>v. \A v \in votes : v.voter \in Server /\ v.term \in Nat /\ v.candidate \in Server
  BY DEF TypeOK, HistoryTypes, Vote, Term
<1>n. new.voter = i /\ new.term = m.term /\ new.candidate = m.from
  OBVIOUS
<1>k. votes \subseteq votes' /\ votes' \subseteq votes \cup {new}
  BY <1>g
<1>a. /\ currentTerm'[i] = IF m.term > currentTerm[i] THEN m.term ELSE currentTerm[i]
      /\ \A j \in Server \ {i} : currentTerm'[j] = currentTerm[j] /\ votedFor'[j] = votedFor[j]
      /\ votedFor'[i] =
            IF g THEN m.from ELSE IF m.term > currentTerm[i] THEN None ELSE votedFor[i]
  BY <1>c, <1>g, <1>m, <1>t
<1>o. ASSUME NEW v \in votes, v.voter = i, v.term = m.term, g
      PROVE  v.candidate = m.from
  <2>1. v.term <= currentTerm[i] /\ (v.term = currentTerm[i] => votedFor[i] = v.candidate)
    BY <1>i, <1>o DEF VotesRemembered
  <2>2. m.term = currentTerm[i]
    BY <1>g, <1>m, <1>o, <2>1
  <2>3. v.candidate \in {None, m.from}
    BY <1>g, <1>o, <2>1, <2>2
  <2> QED
    BY <1>v, <2>3, ServerAssumption
<1>1. VotesRemembered'
  <2>1. ASSUME NEW v \in votes'
        PROVE  /\ v.term <= currentTerm'[v.voter]
               /\ v.term = currentTerm'[v.voter] => votedFor'[v.voter] = v.candidate
    <3>1. CASE v = new /\ g
      BY <1>a, <1>g, <1>m, <1>n, <3>1
    <3>2. CASE v \in votes /\ v.voter = i
      <4>1. /\ v.term <= currentTerm[i] /\ (v.term = currentTerm[i] => votedFor[i] = v.candidate)
            /\ v.term \in Nat
        BY <1>i, <1>v, <3>2 DEF VotesRemembered
      <4>2. CASE m.term > currentTerm[i]
        <5>1. v.term < currentTerm'[i]
          BY <1>a, <1>m, <4>1, <4>2
        <5> QED
          BY <1>a, <1>m, <3>2, <4>1, <4>2, <5>1
      <4>3. CASE ~(m.term > currentTerm[i])
        <5>1. CASE g /\ v.term = currentTerm[i]
          <6>1. m.term = currentTerm[i]
            BY <1>g, <1>m, <4>3, <5>1
          <6> QED
            BY <1>a, <1>o, <3>2, <4>3, <5>1, <6>1, <1>m
        <5>2. CASE ~g \/ v.term # currentTerm[i]
          BY <1>a, <3>2, <4>1, <4>3, <5>2
        <5> QED
          BY <5>1, <5>2
      <4> QED
        BY <4>2, <4>3
    <3>3. CASE v \in votes /\ v.voter # i
      <4>1. currentTerm'[v.voter] = currentTerm[v.voter] /\ votedFor'[v.voter] = votedFor[v.voter]
        BY <1>a, <1>v, <3>3
      <4> QED
        BY <1>i, <3>3, <4>1 DEF VotesRemembered
    <3> QED
      BY <1>g, <3>1, <3>2, <3>3
  <2>2. ASSUME NEW u \in votes', NEW v \in votes', u.voter = v.voter, u.term = v.term
        PROVE  u.candidate = v.candidate
    <3>1. g \/ votes' = votes
      BY <1>g
    <3> HIDE DEF new
    <3>2. CASE votes' = votes
      BY <1>i, <2>2, <3>2 DEF VotesRemembered
    <3>3. CASE g
      <4>1. \A x \in votes : x.voter = i /\ x.term = m.term => x.candidate = m.from
        BY <1>o, <3>3
      <4> QED
        BY <1>i, <1>k, <1>n, <2>2, <4>1 DEF VotesRemembered
    <3> QED
      BY <3>1, <3>2, <3>3
  <2> QED
    BY <2>1, <2>2 DEF VotesRemembered
<1>2. AnswersBacked'
  <2>1. \A r \in voteReqs' : r.from # r.to
    BY <1>i, <1>m DEF AnswersBacked
  <2>2. ASSUME NEW r \in voteResps'
        PROVE  r.from # r.to /\ (r.granted => Voted(r.from, r.reqTerm, r.to)')
    <3>1. CASE r \in voteResps
      BY <1>i, <1>k, <3>1 DEF AnswersBacked, Voted
    <3>2. CASE r \notin voteResps
      <4>1. r = [from |-> m.to, to |-> m.from, reqTerm |-> m.term,
                 term |-> currentTerm'[m.to], granted |-> g]
        BY <1>g, <3>2
      <4>2. r.from = m.to /\ r.to = m.from /\ r.reqTerm = m.term /\ r.granted = g
        BY <4>1
      <4>3. m.from # m.to
        BY <1>i DEF AnswersBacked
      <4>4. g => new \in votes'
        BY <1>g
      <4> QED
        BY <4>2, <4>3, <4>4 DEF Voted
    <3> QED
      BY <3>1, <3>2
  <2> QED
    BY <2>1, <2>2 DEF AnswersBacked, Voted
<1>3. CountsBacked'
  <2>1. UNCHANGED <<phase, electionTerm, votesReceived>>
    BY <1>m DEF electionVars
  <2>2. ASSUME NEW j \in Server, phase[j] # "idle"
        PROVE  ( /\ votesReceived[j] \subseteq {j, None}
                 /\ Voted(j, electionTerm[j], j)
                 /\ None \in votesReceived[j] => \E p \in Peers(j) : Voted(p, electionTerm[j], j) )'
    <3>1. /\ votesReceived[j] \subseteq {j, None}
          /\ Voted(j, electionTerm[j], j)
          /\ None \in votesReceived[j] => \E p \in Peers(j) : Voted(p, electionTerm[j], j)
      BY <1>i, <2>2 DEF CountsBacked
    <3> QED
      BY <1>k, <2>1, <3>1 DEF Voted
  <2>3. ASSUME NEW j \in Server, phase[j] = "won" PROVE Elected(j, electionTerm[j])'
    <3>1. Elected(j, electionTerm[j])
      BY <1>i, <2>3 DEF CountsBacked
    <3> QED
      BY <1>k, <2>1, <3>1 DEF Elected, Voted
  <2>4. \A w \in wins' : Elected(w.leader, w.term)'
    BY <1>i, <1>k, <1>w DEF CountsBacked, Elected, Voted
  <2> QED
    BY <2>1, <2>2, <2>3, <2>4 DEF CountsBacked
<1> QED
  BY <1>1, <1>2, <1>3

\* HandleVoteResponse keeps ElectionInv.
LEMMA ElectionHandleVoteResponse ==
  ASSUME TypeOK, TypeOK', ElectionInv, NEW m \in voteResps, HandleVoteResponse(m)
  PROVE  ElectionInv'
<1> DEFINE i == m.to
<1>m. m.from \in Server /\ i \in Server /\ m.term \in Nat /\ m.reqTerm \in Nat
  BY DEF TypeOK, VoteNetTypes, VoteResponse, Term
<1>t. /\ currentTerm \in [Server -> Nat] /\ votedFor \in [Server -> Server \cup {None}]
      /\ phase \in [Server -> {"idle", "counting", "won"}]
      /\ votesReceived \in [Server -> SUBSET (Server \cup {None})]
  BY DEF TypeOK, NodeTypes, ElectionTypes, Term
<1>u. /\ voteResps' = voteResps \ {m}
      /\ UNCHANGED <<electionTerm, voteReqs, votes, wins, restarts>>
  BY DEF HandleVoteResponse, histVars, countVars
<1>1. CASE m.term > currentTerm[i] /\ StepDown(i, m.term) /\ UNCHANGED <<votesReceived, phase>>
  <2>1. \A j \in Server : \/ currentTerm'[j] > currentTerm[j]
                          \/ currentTerm'[j] = currentTerm[j] /\ votedFor'[j] = votedFor[j]
    BY <1>1, <1>m, <1>t DEF StepDown
  <2>2. /\ UNCHANGED <<electionTerm, votesReceived, votes, wins, restarts>>
        /\ voteReqs' \subseteq voteReqs /\ voteResps' \subseteq voteResps
        /\ \A j \in Server : phase'[j] \in {phase[j], "idle"}
    BY <1>1, <1>u
  <2> QED
    BY <2>1, <2>2, TermsOnlyGrow
<1>2. CASE UNCHANGED <<votesReceived, phase, currentTerm, votedFor>>
  BY <1>2, <1>u, TermsOnlyGrow
<1>3. CASE /\ m.granted /\ phase[i] = "counting" /\ electionTerm[i] = m.reqTerm
           /\ votesReceived' = [votesReceived EXCEPT ![i] = AddVote(i)]
           /\ phase' = [phase EXCEPT ![i] = IF WinsWith(i, AddVote(i)) THEN "won" ELSE phase[i]]
           /\ UNCHANGED <<currentTerm, votedFor>>
  <2> SUFFICES ASSUME restarts = 0
               PROVE  VotesRemembered' /\ AnswersBacked' /\ CountsBacked'
    BY <1>u DEF ElectionInv
  <2>i. VotesRemembered /\ AnswersBacked /\ CountsBacked
    BY DEF ElectionInv
  <2>1. VotesRemembered'
    BY <1>3, <1>u, <2>i DEF VotesRemembered
  <2>2. AnswersBacked'
    BY <1>u, <2>i DEF AnswersBacked, Voted
  <2>3. /\ votesReceived[i] \subseteq {i, None}
        /\ Voted(i, electionTerm[i], i)
    BY <1>3, <1>m, <2>i DEF CountsBacked
  <2>4. m.from \in Peers(i) /\ Voted(m.from, electionTerm[i], i)
    BY <1>3, <1>m, <2>i DEF AnswersBacked, Peers
  <2>5. /\ votesReceived'[i] = AddVote(i)
        /\ phase'[i] = IF WinsWith(i, AddVote(i)) THEN "won" ELSE "counting"
    BY <1>3, <1>m, <1>t
  <2>6. \A j \in Server \ {i} : votesReceived'[j] = votesReceived[j] /\ phase'[j] = phase[j]
    BY <1>3, <1>m, <1>t
  <2>7. AddVote(i) \subseteq {i, None}
    BY <2>3 DEF AddVote
  <2>8. WinsWith(i, AddVote(i)) => VotesNeeded <= 2
    <3>1. IsFiniteSet({i, None}) /\ Cardinality({i, None}) <= 2
      BY PairIsSmall
    <3>2. Cardinality(AddVote(i)) <= Cardinality({i, None})
      BY <2>7, <3>1, FS_Subset
    <3>3. Cardinality(AddVote(i)) \in Nat /\ Cardinality({i, None}) \in Nat
      BY <2>7, <3>1, FS_Subset, FS_CardinalityType
    <3>4. VotesNeeded \in Nat
      BY ServerAssumption, FS_CardinalityType DEF VotesNeeded
    <3> QED
      BY <3>1, <3>2, <3>3, <3>4 DEF WinsWith
  <2>9. CountsBacked'
    <3>1. ASSUME NEW j \in Server, phase'[j] # "idle"
          PROVE  ( /\ votesReceived[j] \subseteq {j, None}
                   /\ Voted(j, electionTerm[j], j)
                   /\ None \in votesReceived[j] => \E p \in Peers(j) : Voted(p, electionTerm[j], j) )'
      <4>1. CASE j = i
        BY <1>u, <2>3, <2>4, <2>5, <2>7, <4>1 DEF Voted
      <4>2. CASE j # i
        <5>1. phase[j] # "idle"
          BY <2>6, <3>1, <4>2
        <5>2. /\ votesReceived[j] \subseteq {j, None}
              /\ Voted(j, electionTerm[j], j)
              /\ None \in votesReceived[j] => \E p \in Peers(j) : Voted(p, electionTerm[j], j)
          BY <2>i, <5>1 DEF CountsBacked
        <5> QED
          BY <1>u, <2>6, <4>2, <5>2 DEF Voted
      <4> QED
        BY <4>1, <4>2
    <3>2. ASSUME NEW j \in Server, phase'[j] = "won" PROVE Elected(j, electionTerm[j])'
      <4>1. CASE j = i
        <5>1. WinsWith(i, AddVote(i))
          BY <2>5, <3>2, <4>1
        <5>2. Elected(i, electionTerm[i])
          BY <2>3, <2>4, <2>8, <5>1 DEF Elected
        <5> QED
          BY <1>u, <4>1, <5>2 DEF Elected, Voted
      <4>2. CASE j # i
        <5>1. Elected(j, electionTerm[j])
          BY <2>6, <2>i, <3>2, <4>2 DEF CountsBacked
        <5> QED
          BY <1>u, <5>1 DEF Elected, Voted
      <4> QED
        BY <4>1, <4>2
    <3>3. \A w \in wins' : Elected(w.leader, w.term)'
      BY <1>u, <2>i DEF CountsBacked, Elected, Voted
    <3> QED
      BY <3>1, <3>2, <3>3 DEF CountsBacked
  <2> QED
    BY <2>1, <2>2, <2>9
<1> QED
  BY <1>1, <1>2, <1>3 DEF HandleVoteResponse

\* BecomeLeader keeps ElectionInv.
LEMMA ElectionBecomeLeader ==
  ASSUME TypeOK, TypeOK', ElectionInv, NEW i \in Server, BecomeLeader(i)
  PROVE  ElectionInv'
<1>t. phase \in [Server -> {"idle", "counting", "won"}]
  BY DEF TypeOK, ElectionTypes
<1>u. /\ phase[i] = "won" /\ phase' = [phase EXCEPT ![i] = "idle"]
      /\ voteReqs' \subseteq voteReqs /\ voteResps' \subseteq voteResps
      /\ UNCHANGED <<electionTerm, votesReceived, votes, currentTerm, votedFor, restarts>>
  BY DEF BecomeLeader, LeaveCalls, countVars
<1>p. \A j \in Server : phase'[j] \in {phase[j], "idle"}
  BY <1>t, <1>u
<1>1. CASE wins' = wins
  BY <1>1, <1>p, <1>u, TermsOnlyGrow
<1>2. CASE StillCandidate(i) /\ wins' = wins \cup {[leader |-> i, term |-> currentTerm[i]]}
  <2> SUFFICES ASSUME restarts = 0
               PROVE  VotesRemembered' /\ AnswersBacked' /\ CountsBacked'
    BY <1>u DEF ElectionInv
  <2>i. VotesRemembered /\ AnswersBacked /\ CountsBacked
    BY DEF ElectionInv
  <2>1. VotesRemembered'
    BY <1>u, <2>i DEF VotesRemembered
  <2>2. AnswersBacked'
    BY <1>u, <2>i DEF AnswersBacked, Voted
  <2>3. Elected(i, currentTerm[i])
    BY <1>2, <1>u, <2>i DEF CountsBacked, StillCandidate
  <2>4. ASSUME NEW w \in wins' PROVE Elected(w.leader, w.term)'
    <3>1. Elected(w.leader, w.term)
      BY <1>2, <2>3, <2>i DEF CountsBacked
    <3> QED
      BY <1>u, <3>1 DEF Elected, Voted
  <2>5. ASSUME NEW j \in Server, phase'[j] # "idle"
        PROVE  ( /\ votesReceived[j] \subseteq {j, None}
                 /\ Voted(j, electionTerm[j], j)
                 /\ None \in votesReceived[j] => \E p \in Peers(j) : Voted(p, electionTerm[j], j) )'
    <3>1. phase[j] # "idle"
      BY <1>p, <2>5
    <3>2. /\ votesReceived[j] \subseteq {j, None}
          /\ Voted(j, electionTerm[j], j)
          /\ None \in votesReceived[j] => \E p \in Peers(j) : Voted(p, electionTerm[j], j)
      BY <2>i, <3>1 DEF CountsBacked
    <3> QED
      BY <1>u, <3>2 DEF Voted
  <2>6. ASSUME NEW j \in Server, phase'[j] = "won" PROVE Elected(j, electionTerm[j])'
    <3>1. phase[j] = "won"
      BY <1>p, <2>6
    <3>2. Elected(j, electionTerm[j])
      BY <2>i, <3>1 DEF CountsBacked
    <3> QED
      BY <1>u, <3>2 DEF Elected, Voted
  <2>7. CountsBacked'
    BY <2>4, <2>5, <2>6 DEF CountsBacked
  <2> QED
    BY <2>1, <2>2, <2>7
<1> QED
  BY <1>1, <1>2 DEF BecomeLeader

\* An election that ends without a winner keeps ElectionInv.
LEMMA ElectionCompletesKeeps ==
  ASSUME TypeOK, TypeOK', ElectionInv, NEW i \in Server, ElectionCompletes(i)
  PROVE  ElectionInv'
<1>1. phase \in [Server -> {"idle", "counting", "won"}]
  BY DEF TypeOK, ElectionTypes
<1>2. /\ phase' = [phase EXCEPT ![i] = "idle"]
      /\ voteReqs' \subseteq voteReqs /\ voteResps' \subseteq voteResps
      /\ UNCHANGED <<electionTerm, votesReceived, votes, wins, currentTerm, votedFor, restarts>>
  BY DEF ElectionCompletes, LeaveCalls, nodeVars, histVars, countVars
<1>3. \A j \in Server : phase'[j] \in {phase[j], "idle"}
  BY <1>1, <1>2
<1> QED
  BY <1>2, <1>3, TermsOnlyGrow

\* HandleAppendEntries keeps ElectionInv.
LEMMA ElectionHandleAppendEntries ==
  ASSUME TypeOK, TypeOK', ElectionInv, NEW m \in appendReqs, HandleAppendEntries(m)
  PROVE  ElectionInv'
<1>m. m.to \in Server /\ m.term \in Nat
  BY DEF TypeOK, AppendNetTypes, AppendRequest, Term
<1>t. currentTerm \in [Server -> Nat] /\ votedFor \in [Server -> Server \cup {None}]
  BY DEF TypeOK, NodeTypes, Term
<1>1. /\ UNCHANGED <<phase, electionTerm, votesReceived, votes, wins, restarts>>
      /\ voteReqs' = voteReqs /\ voteResps' = voteResps
  BY DEF HandleAppendEntries, electionVars, voteNet, histVars, countVars
<1>2. \A j \in Server : \/ currentTerm'[j] > currentTerm[j]
                        \/ currentTerm'[j] = currentTerm[j] /\ votedFor'[j] = votedFor[j]
  <2>1. CASE UNCHANGED <<currentTerm, votedFor>>
    BY <2>1
  <2>2. CASE /\ m.term >= currentTerm[m.to]
             /\ currentTerm' = [currentTerm EXCEPT ![m.to] = m.term]
             /\ votedFor' = [votedFor EXCEPT ![m.to] =
                               IF m.term > currentTerm[m.to] THEN None ELSE votedFor[m.to]]
    BY <1>m, <1>t, <2>2
  <2> QED
    BY <2>1, <2>2 DEF HandleAppendEntries, AdoptTerm, nodeVars
<1> QED
  BY <1>1, <1>2, TermsOnlyGrow

\* HandleAppendResponse keeps ElectionInv.
LEMMA ElectionHandleAppendResponse ==
  ASSUME TypeOK, TypeOK', ElectionInv, NEW m \in appendResps, HandleAppendResponse(m)
  PROVE  ElectionInv'
<1>m. m.to \in Server /\ m.term \in Nat
  BY DEF TypeOK, AppendNetTypes, AppendResponse, Term
<1>t. currentTerm \in [Server -> Nat] /\ votedFor \in [Server -> Server \cup {None}]
  BY DEF TypeOK, NodeTypes, Term
<1>1. /\ UNCHANGED <<phase, electionTerm, votesReceived, votes, wins, restarts>>
      /\ voteReqs' = voteReqs /\ voteResps' = voteResps
  BY DEF HandleAppendResponse, electionVars, voteNet, countVars
<1>2. \A j \in Server : \/ currentTerm'[j] > currentTerm[j]
                        \/ currentTerm'[j] = currentTerm[j] /\ votedFor'[j] = votedFor[j]
  <2>1. CASE UNCHANGED <<currentTerm, votedFor>>
    BY <2>1
  <2>2. CASE m.term > currentTerm[m.to] /\ StepDown(m.to, m.term)
    BY <1>m, <1>t, <2>2 DEF StepDown
  <2> QED
    BY <2>1, <2>2 DEF HandleAppendResponse
<1> QED
  BY <1>1, <1>2, TermsOnlyGrow

\* The steps of the other goroutines touch nothing that elections rest on.
LEMMA ElectionOthers ==
  ASSUME TypeOK, TypeOK', ElectionInv,
         \/ \E i \in Server : AppendNoOpEntry(i)
         \/ \E i \in Server, v \in Value : AppendLogEntry(i, v)
         \/ \E i \in Server : \E j \in Peers(i) : ReplicateToPeer(i, j) \/ PreemptAfterCheck(i, j)
         \/ \E p \in preempted : SendAfterPreemption(p)
         \/ \E i \in Server : SendHeartbeats(i)
         \/ \E b \in beats : SendHeartbeatToPeer(b)
         \/ LoseAppend
         \/ \E i \in Server : ApplyCommittedEntries(i)
         \/ UNCHANGED vars
  PROVE  ElectionInv'
<1>1. UNCHANGED <<phase, electionTerm, votesReceived, votes, wins, restarts, voteReqs, voteResps,
                  currentTerm, votedFor>>
  BY DEF AppendNoOpEntry, AppendLogEntry, ReplicateToPeer, PreemptAfterCheck,
         SendAfterPreemption, SendHeartbeats, SendHeartbeatToPeer, LoseAppend,
         ApplyCommittedEntries, vars, nodeVars, electionVars, voteNet, histVars, countVars
<1> QED
  BY <1>1, TermsOnlyGrow

\* A restart leaves nothing to show: ElectionInv speaks of clusters without one.
LEMMA ElectionRestart ==
  ASSUME TypeOK, ElectionInv, NEW i \in Server, Restart(i)
  PROVE  ElectionInv'
<1>1. restarts' = restarts + 1 /\ restarts \in Nat
  BY DEF Restart, TypeOK, HistoryTypes
<1> QED
  BY <1>1 DEF ElectionInv

\* ElectionInv holds initially.
LEMMA ElectionInit == Init => ElectionInv
BY DEF Init, ElectionInv, VotesRemembered, AnswersBacked, CountsBacked

\* Every step keeps ElectionInv.
LEMMA ElectionNext == TypeOK /\ TypeOK' /\ ElectionInv /\ [Next]_vars => ElectionInv'
<1> SUFFICES ASSUME TypeOK, TypeOK', ElectionInv, [Next]_vars PROVE ElectionInv'
  OBVIOUS
<1> QED
  BY ElectionStartElection, ElectionHandleRequestVote, ElectionHandleVoteResponse,
     ElectionBecomeLeader, ElectionCompletesKeeps, ElectionHandleAppendEntries,
     ElectionHandleAppendResponse, ElectionOthers, ElectionRestart
  DEF Next

\* While no server has restarted, startElection and becomeLeader act on votes that were really
\* cast: every election won, every vote counted by startElection and every granted answer in
\* the network stands for one, and no server has cast two in a term.
THEOREM VotesBacked == Spec => []ElectionInv
BY TypeCorrect, ElectionInit, ElectionNext, PTL DEF Spec

\* One more server makes a set of servers one larger, and no set of them is larger than all.
LEMMA OneMoreServer ==
  ASSUME NEW S, S \subseteq Server, NEW x \in Server, x \notin S
  PROVE  /\ S \cup {x} \subseteq Server
         /\ Cardinality(S \cup {x}) = Cardinality(S) + 1
         /\ Cardinality(S \cup {x}) <= Cardinality(Server)
<1>1. IsFiniteSet(S) /\ S \cup {x} \subseteq Server
  BY ServerAssumption, FS_Subset
<1>2. Cardinality(S \cup {x}) = IF x \in S THEN Cardinality(S) ELSE Cardinality(S) + 1
  BY <1>1, FS_AddElement
<1>3. Cardinality(S \cup {x}) <= Cardinality(Server)
  BY <1>1, ServerAssumption, FS_Subset
<1> QED
  BY <1>1, <1>2, <1>3

\* A cluster with four different servers has at least four, one with three at least three.
LEMMA FourServers ==
  ASSUME NEW i \in Server, NEW j \in Server, i # j
  PROVE  /\ 2 <= Cardinality(Server)
         /\ \A p \in Server : p \notin {i, j} => 3 <= Cardinality(Server)
         /\ \A p, q \in Server : p \notin {i, j} /\ q \notin {i, j, p} => 4 <= Cardinality(Server)
<1>1. {i} \subseteq Server /\ Cardinality({i}) = 1
  BY FS_Singleton
<1>2. {i} \cup {j} \subseteq Server /\ Cardinality({i} \cup {j}) = 2 /\ 2 <= Cardinality(Server)
  <2>1. j \notin {i}
    OBVIOUS
  <2> QED
    BY <1>1, <2>1, OneMoreServer
<1>3. ASSUME NEW p \in Server, p \notin {i, j}
      PROVE  /\ ({i} \cup {j}) \cup {p} \subseteq Server
             /\ Cardinality(({i} \cup {j}) \cup {p}) = 3 /\ 3 <= Cardinality(Server)
  <2>1. p \notin {i} \cup {j}
    BY <1>3
  <2> QED
    BY <1>2, <2>1, OneMoreServer
<1>4. ASSUME NEW p \in Server, NEW q \in Server, p \notin {i, j}, q \notin {i, j, p}
      PROVE  4 <= Cardinality(Server)
  <2> DEFINE S == ({i} \cup {j}) \cup {p}
  <2>1. S \subseteq Server /\ Cardinality(S) = 3
    BY <1>3, <1>4
  <2>2. q \notin S
    BY <1>4
  <2> HIDE DEF S
  <2>3. /\ Cardinality(S \cup {q}) = Cardinality(S) + 1
        /\ Cardinality(S \cup {q}) <= Cardinality(Server)
    BY <2>1, <2>2, OneMoreServer
  <2> QED
    BY <2>1, <2>3
<1> QED
  BY <1>2, <1>3, <1>4

\* Two leaders elected in one term, each by itself and one peer, are four different servers;
\* a cluster that is won with two votes has at most four, so it has exactly four.
LEMMA TwoLeadersNeedFour ==
  ASSUME TypeOK, ElectionInv, restarts = 0, Cardinality(Server) # 4
  PROVE  ElectionSafety
<1> SUFFICES ASSUME NEW w1 \in wins, NEW w2 \in wins, w1.term = w2.term, w1.leader # w2.leader
             PROVE  FALSE
  BY DEF ElectionSafety
<1> DEFINE i == w1.leader
           j == w2.leader
           t == w1.term
<1>i. VotesRemembered /\ CountsBacked
  BY DEF ElectionInv
<1>1. i \in Server /\ j \in Server /\ i # j
  BY DEF TypeOK, HistoryTypes
<1>2. Elected(i, t) /\ Elected(j, t)
  BY <1>i DEF CountsBacked
<1>3. PICK p \in Peers(i) : Voted(p, t, i)
  BY <1>2 DEF Elected
<1>4. PICK q \in Peers(j) : Voted(q, t, j)
  BY <1>2 DEF Elected
<1>5. Voted(i, t, i) /\ Voted(j, t, j)
  BY <1>2 DEF Elected
<1>6. \A x : ~(Voted(x, t, i) /\ Voted(x, t, j))
  <2> SUFFICES ASSUME NEW x, Voted(x, t, i), Voted(x, t, j) PROVE FALSE
    OBVIOUS
  <2>1. \A u, v \in votes : u.voter = v.voter /\ u.term = v.term => u.candidate = v.candidate
    BY <1>i DEF VotesRemembered
  <2> QED
    BY <1>1, <2>1 DEF Voted
<1>7. /\ p \in Server /\ q \in Server
      /\ p # i /\ p # j /\ q # i /\ q # j /\ p # q
  BY <1>3, <1>4, <1>5, <1>6 DEF Peers
<1>9. 4 <= Cardinality(Server)
  <2> HIDE DEF i, j
  <2> QED
    BY <1>1, <1>7, FourServers
<1>10. Cardinality(Server) \in Nat
  BY ServerAssumption, FS_CardinalityType
<1>11. VotesNeeded <= 2
  BY <1>2 DEF Elected
<1>12. Cardinality(Server) <= 4
  BY <1>10, <1>11 DEF VotesNeeded
<1> QED
  BY <1>9, <1>10, <1>12

\* At most one server ever wins the election of a term, in every cluster that has not exactly
\* four servers and as long as none of them has restarted.  Both exceptions are real: with
\* four servers startElection waits for two votes only, and a restarted server, whose vote is
\* not on disk, votes twice.
THEOREM ElectionSafe ==
  Spec => [](Cardinality(Server) # 4 /\ restarts = 0 => ElectionSafety)
<1>1. TypeOK /\ ElectionInv => (Cardinality(Server) # 4 /\ restarts = 0 => ElectionSafety)
  BY TwoLeadersNeedFour
<1> QED
  BY TypeCorrect, VotesBacked, <1>1, PTL

\* An election is won by two different servers' votes, and where two suffice.
LEMMA WonInSmallClusters ==
  ASSUME TypeOK, ElectionInv, restarts = 0, wins # {}
  PROVE  Cardinality(Server) \in 2..4
<1>1. PICK w \in wins : Elected(w.leader, w.term)
  BY DEF ElectionInv, CountsBacked
<1>2. w.leader \in Server
  BY DEF TypeOK, HistoryTypes
<1>3. PICK p \in Peers(w.leader) : Voted(p, w.term, w.leader)
  BY <1>1 DEF Elected
<1>4. 2 <= Cardinality(Server)
  BY <1>2, <1>3, FourServers DEF Peers
<1>5. Cardinality(Server) \in Nat
  BY ServerAssumption, FS_CardinalityType
<1>6. VotesNeeded <= 2
  BY <1>1 DEF Elected
<1> QED
  BY <1>4, <1>5, <1>6 DEF VotesNeeded

\* Only clusters of two to four servers ever have a leader.  A server alone counts no vote
\* but its own outside the loop that checks for the win, and where five or more servers
\* need three votes those of all peers are recorded under one name and count as one.
THEOREM OnlySmallClustersElect ==
  Spec => [](restarts = 0 /\ wins # {} => Cardinality(Server) \in 2..4)
<1>1. TypeOK /\ ElectionInv => (restarts = 0 /\ wins # {} => Cardinality(Server) \in 2..4)
  BY WonInSmallClusters
<1> QED
  BY TypeCorrect, VotesBacked, <1>1, PTL
-----------------------------------------------------------------------------
(* Majorities win *)

\* The RequestVote of term t from candidate i to peer p, and the call that waits for its answer.
SameCall(m, i, p, t) == m.from = i /\ m.to = p /\ m.term = t
CallTo(p, i, t) == [from |-> i, to |-> p, term |-> t]

\* A candidate's requests, the answers to them and the votes for it are of its present term
\* or an earlier one, so those of its next election are all new.
TermsKnown ==
  /\ \A m \in voteReqs : m.term <= currentTerm[m.from]
  /\ \A n \in voteResps : n.reqTerm <= currentTerm[n.to]
  /\ \A v \in votes : v.term <= currentTerm[v.candidate]

\* A request in the network is the only one of its call and has not been executed: its peer
\* has not voted on it and has not answered it.
RequestsFresh ==
  \A m \in voteReqs :
    /\ \A n \in voteReqs : SameCall(n, m.from, m.to, m.term) => n = m
    /\ ~Voted(m.to, m.term, m.from)
    /\ \A n \in voteResps : ~(n.from = m.to /\ n.to = m.from /\ n.reqTerm = m.term)

\* An answer of a peer that voted for the candidate says so.
AnswersTell ==
  \A n \in voteResps :
    Voted(n.from, n.reqTerm, n.to) => n.granted /\ n.term >= n.reqTerm

\* While startElection counts, it waits for the answer to every request still in the network.
CallsOpen ==
  \A m \in voteReqs :
    phase[m.from] = "counting" /\ electionTerm[m.from] = m.term
      => CallTo(m.to, m.from, m.term) \in voteCalls

\* While startElection counts it has counted its own vote, and as long as the node is a
\* candidate of that term it waits for the answer of every peer that voted for it.
VotesAwaited ==
  \A i \in Server : phase[i] = "counting" =>
    /\ i \in votesReceived[i]
    /\ StillCandidate(i) =>
         \A p \in Peers(i) : Voted(p, electionTerm[i], i) => CallTo(p, i, electionTerm[i]) \in voteCalls

\* What startElection knows about the votes for it, in clusters where two votes win.
CallsInv ==
  restarts = 0 /\ VotesNeeded <= 2
    => TermsKnown /\ RequestsFresh /\ AnswersTell /\ CallsOpen /\ VotesAwaited

\* A step that lets terms grow, takes vote messages away, ends elections with their calls or
\* takes candidates out of the race disturbs no call that an election still waits for.
LEMMA CallsKept ==
  ASSUME TypeOK, TypeOK', CallsInv,
         UNCHANGED <<electionTerm, votesReceived, votes, restarts>>,
         voteReqs' \subseteq voteReqs, voteResps' \subseteq voteResps,
         \A i \in Server : phase'[i] = "counting" => phase[i] = "counting",
         \A c \in voteCalls : phase'[c.from] = "counting" => c \in voteCalls',
         \A i \in Server : currentTerm'[i] >= currentTerm[i],
         \A i \in Server : state'[i] = "Candidate" =>
                             state[i] = "Candidate" /\ currentTerm'[i] = currentTerm[i]
  PROVE  CallsInv'
<1> SUFFICES ASSUME restarts = 0, VotesNeeded <= 2
             PROVE  (TermsKnown /\ RequestsFresh /\ AnswersTell /\ CallsOpen /\ VotesAwaited)'
  BY DEF CallsInv, VotesNeeded
<1>i. TermsKnown /\ RequestsFresh /\ AnswersTell /\ CallsOpen /\ VotesAwaited
  BY DEF CallsInv
<1>t. /\ currentTerm \in [Server -> Nat] /\ currentTerm' \in [Server -> Nat]
      /\ \A m \in voteReqs : m.from \in Server /\ m.term \in Nat
      /\ \A n \in voteResps : n.to \in Server /\ n.reqTerm \in Nat
      /\ \A v \in votes : v.candidate \in Server /\ v.term \in Nat
  BY DEF TypeOK, NodeTypes, VoteNetTypes, HistoryTypes, VoteRequest, VoteResponse, Vote, Term
<1>l. \A j \in Server : \A t \in Nat : t <= currentTerm[j] => t <= currentTerm'[j]
  BY <1>t
<1>1. TermsKnown'
  <2>1. \A m \in voteReqs' : m.term <= currentTerm'[m.from]
    BY <1>i, <1>t, <1>l DEF TermsKnown
  <2>2. \A n \in voteResps' : n.reqTerm <= currentTerm'[n.to]
    BY <1>i, <1>t, <1>l DEF TermsKnown
  <2>3. \A v \in votes' : v.term <= currentTerm'[v.candidate]
    BY <1>i, <1>t, <1>l DEF TermsKnown
  <2> QED
    BY <2>1, <2>2, <2>3 DEF TermsKnown
<1>2. RequestsFresh'
  BY <1>i DEF RequestsFresh, Voted, SameCall
<1>3. AnswersTell'
  BY <1>i DEF AnswersTell, Voted
<1>4. CallsOpen'
  <2> SUFFICES ASSUME NEW m \in voteReqs', phase'[m.from] = "counting",
                      electionTerm'[m.from] = m.term
               PROVE  CallTo(m.to, m.from, m.term) \in voteCalls'
    BY DEF CallsOpen, CallTo
  <2>1. CallTo(m.to, m.from, m.term) \in voteCalls
    BY <1>i, <1>t DEF CallsOpen
  <2>2. CallTo(m.to, m.from, m.term).from = m.from
    BY DEF CallTo
  <2> QED
    BY <2>1, <2>2
<1>5. VotesAwaited'
  <2> SUFFICES ASSUME NEW i \in Server, phase'[i] = "counting"
               PROVE  /\ i \in votesReceived'[i]
                      /\ StillCandidate(i)' =>
                           \A p \in Peers(i) : Voted(p, electionTerm[i], i)'
                              => CallTo(p, i, electionTerm'[i]) \in voteCalls'
    BY DEF VotesAwaited, CallTo, Peers
  <2>1. StillCandidate(i)' => StillCandidate(i)
    BY DEF StillCandidate
  <2>2. ASSUME NEW p \in Peers(i), StillCandidate(i)', Voted(p, electionTerm[i], i)'
        PROVE  CallTo(p, i, electionTerm'[i]) \in voteCalls'
    <3>1. CallTo(p, i, electionTerm[i]) \in voteCalls
      BY <1>i, <2>1, <2>2 DEF VotesAwaited, Voted
    <3>2. CallTo(p, i, electionTerm[i]).from = i
      BY DEF CallTo
    <3> QED
      BY <3>1, <3>2
  <2> QED
    BY <1>i, <2>2 DEF VotesAwaited
<1> QED
  BY <1>1, <1>2, <1>3, <1>4, <1>5

\* StartElection keeps CallsInv: its requests and calls are the first of their term.
LEMMA CallsStartElection ==
  ASSUME TypeOK, CallsInv, NEW i \in Server, StartElection(i)
  PROVE  CallsInv'
<1> SUFFICES ASSUME restarts = 0, VotesNeeded <= 2
             PROVE  (TermsKnown /\ RequestsFresh /\ AnswersTell /\ CallsOpen /\ VotesAwaited)'
  BY DEF CallsInv, VotesNeeded, StartElection, countVars
<1>i. TermsKnown /\ RequestsFresh /\ AnswersTell /\ CallsOpen /\ VotesAwaited
  BY DEF CallsInv
<1>t. /\ currentTerm \in [Server -> Nat] /\ currentTerm[i] \in Nat
      /\ phase \in [Server -> {"idle", "counting", "won"}] /\ electionTerm \in [Server -> Nat]
      /\ votesReceived \in [Server -> SUBSET (Server \cup {None})]
      /\ state \in [Server -> {"Follower", "Candidate", "Leader"}]
      /\ \A m \in voteReqs : m.from \in Server /\ m.term \in Nat
      /\ \A n \in voteResps : n.to \in Server /\ n.reqTerm \in Nat
      /\ \A v \in votes : v.voter \in Server /\ v.candidate \in Server /\ v.term \in Nat
  BY DEF TypeOK, NodeTypes, ElectionTypes, VoteNetTypes, HistoryTypes, VoteRequest, VoteResponse, Vote, Term
<1>1. PICK t : t = currentTerm[i] + 1
  OBVIOUS
<1>2. t \in Nat /\ currentTerm[i] <= t
  BY <1>1, <1>t
<1>old. /\ \A m \in voteReqs : m.from = i => m.term # t
        /\ \A n \in voteResps : n.to = i => n.reqTerm # t
        /\ \A v \in votes : v.candidate = i => v.term # t
  BY <1>1, <1>i, <1>t DEF TermsKnown
<1>e. /\ currentTerm' = [currentTerm EXCEPT ![i] = t]
      /\ state' = [state EXCEPT ![i] = "Candidate"]
      /\ phase' = [phase EXCEPT ![i] = "counting"]
      /\ electionTerm' = [electionTerm EXCEPT ![i] = t]
      /\ votesReceived' = [votesReceived EXCEPT ![i] = {i}]
      /\ voteCalls' = voteCalls \cup {[from |-> i, to |-> j, term |-> t] : j \in Peers(i)}
      /\ votes' = votes \cup {[voter |-> i, term |-> t, candidate |-> i]}
      /\ voteResps' = voteResps
  BY <1>1 DEF StartElection
<1>r. /\ voteReqs \subseteq voteReqs'
      /\ \A m \in voteReqs' : m \in voteReqs \/
           \E j \in Peers(i) : m = [from |-> i, to |-> j, term |-> t,
              lastLogIndex |-> LastLogIndex(i), lastLogTerm |-> LastLogTerm(i)]
  BY <1>1 DEF StartElection
<1>n. ASSUME NEW m \in voteReqs', m \notin voteReqs
      PROVE  /\ m.from = i /\ m.term = t /\ m.to \in Peers(i)
             /\ \A n \in voteReqs' : n \notin voteReqs /\ n.to = m.to => n = m
  <2>1. PICK j \in Peers(i) : m = [from |-> i, to |-> j, term |-> t,
              lastLogIndex |-> LastLogIndex(i), lastLogTerm |-> LastLogTerm(i)]
    BY <1>n, <1>r
  <2>2. ASSUME NEW n \in voteReqs', n \notin voteReqs, n.to = m.to PROVE n = m
    <3>1. PICK k \in Peers(i) : n = [from |-> i, to |-> k, term |-> t,
              lastLogIndex |-> LastLogIndex(i), lastLogTerm |-> LastLogTerm(i)]
      BY <1>r, <2>2
    <3> QED
      BY <2>1, <2>2, <3>1
  <2> QED
    BY <2>1, <2>2
<1>a. /\ currentTerm'[i] = t /\ phase'[i] = "counting" /\ electionTerm'[i] = t
      /\ votesReceived'[i] = {i}
      /\ \A j \in Server \ {i} :
           /\ currentTerm'[j] = currentTerm[j] /\ state'[j] = state[j] /\ phase'[j] = phase[j]
           /\ electionTerm'[j] = electionTerm[j] /\ votesReceived'[j] = votesReceived[j]
  BY <1>e, <1>t
<1>v. \A p, u, c : Voted(p, u, c)' => Voted(p, u, c) \/ (p = i /\ c = i /\ u = t)
  BY <1>e DEF Voted
<1>l. \A j \in Server : \A u \in Nat : u <= currentTerm[j] => u <= currentTerm'[j]
  BY <1>2, <1>a, <1>t
<1>3. TermsKnown'
  <2>1. \A m \in voteReqs' : m.term <= currentTerm'[m.from]
    <3> SUFFICES ASSUME NEW m \in voteReqs' PROVE m.term <= currentTerm'[m.from]
      OBVIOUS
    <3>1. CASE m \in voteReqs
      BY <1>i, <1>l, <1>t, <3>1 DEF TermsKnown
    <3>2. CASE m \notin voteReqs
      BY <1>2, <1>a, <1>n, <3>2
    <3> QED
      BY <3>1, <3>2
  <2>2. \A n \in voteResps' : n.reqTerm <= currentTerm'[n.to]
    BY <1>e, <1>i, <1>l, <1>t DEF TermsKnown
  <2>3. ASSUME NEW v \in votes' PROVE v.term <= currentTerm'[v.candidate]
    <3>1. CASE v \in votes
      BY <1>i, <1>l, <1>t, <3>1 DEF TermsKnown
    <3>2. CASE v = [voter |-> i, term |-> t, candidate |-> i]
      BY <1>2, <1>a, <3>2
    <3> QED
      BY <1>e, <3>1, <3>2
  <2> QED
    BY <2>1, <2>2, <2>3 DEF TermsKnown
<1>4. RequestsFresh'
  <2> SUFFICES ASSUME NEW m \in voteReqs'
               PROVE  /\ \A n \in voteReqs' : SameCall(n, m.from, m.to, m.term) => n = m
                      /\ ~Voted(m.to, m.term, m.from)'
                      /\ \A n \in voteResps' :
                           ~(n.from = m.to /\ n.to = m.from /\ n.reqTerm = m.term)
    BY DEF RequestsFresh, SameCall
  <2>1. CASE m \in voteReqs
    <3>1. ~(m.from = i /\ m.term = t)
      BY <1>old, <2>1
    <3>2. \A n \in voteReqs' : SameCall(n, m.from, m.to, m.term) => n = m
      BY <1>i, <1>n, <2>1, <3>1 DEF RequestsFresh, SameCall
    <3>3. ~Voted(m.to, m.term, m.from)'
      BY <1>i, <1>v, <2>1, <3>1 DEF RequestsFresh
    <3> QED
      BY <1>e, <1>i, <2>1, <3>2, <3>3 DEF RequestsFresh
  <2>2. CASE m \notin voteReqs
    <3>1. m.from = i /\ m.term = t /\ m.to \in Peers(i)
      BY <1>n, <2>2
    <3>2. \A n \in voteReqs' : SameCall(n, m.from, m.to, m.term) => n = m
      BY <1>n, <1>old, <2>2, <3>1 DEF SameCall
    <3>3. ~Voted(m.to, m.term, m.from)
      BY <1>old, <3>1 DEF Voted
    <3>4. ~Voted(m.to, m.term, m.from)'
      BY <1>v, <3>1, <3>3 DEF Peers
    <3> QED
      BY <1>e, <1>old, <3>1, <3>2, <3>4
  <2> QED
    BY <2>1, <2>2
<1>5. AnswersTell'
  <2> SUFFICES ASSUME NEW n \in voteResps, Voted(n.from, n.reqTerm, n.to)'
               PROVE  n.granted /\ n.term >= n.reqTerm
    BY <1>e DEF AnswersTell
  <2>1. Voted(n.from, n.reqTerm, n.to)
    BY <1>old, <1>v
  <2> QED
    BY <1>i, <2>1 DEF AnswersTell
<1>6. CallsOpen'
  <2> SUFFICES ASSUME NEW m \in voteReqs', phase'[m.from] = "counting",
                      electionTerm'[m.from] = m.term
               PROVE  CallTo(m.to, m.from, m.term) \in voteCalls'
    BY DEF CallsOpen, CallTo
  <2>1. CASE m \notin voteReqs
    BY <1>e, <1>n, <2>1 DEF CallTo
  <2>2. CASE m \in voteReqs
    <3>1. m.from # i
      BY <1>a, <1>old, <2>2
    <3>2. phase[m.from] = "counting" /\ electionTerm[m.from] = m.term
      BY <1>a, <1>t, <2>2, <3>1
    <3> QED
      BY <1>e, <1>i, <2>2, <3>2 DEF CallsOpen
  <2> QED
    BY <2>1, <2>2
<1>7. VotesAwaited'
  <2> SUFFICES ASSUME NEW j \in Server, phase'[j] = "counting"
               PROVE  /\ j \in votesReceived'[j]
                      /\ StillCandidate(j)' =>
                           \A p \in Peers(j) : Voted(p, electionTerm[j], j)'
                              => CallTo(p, j, electionTerm'[j]) \in voteCalls'
    BY DEF VotesAwaited, CallTo, Peers
  <2>1. CASE j = i
    BY <1>a, <1>e, <2>1 DEF CallTo
  <2>2. CASE j # i
    <3>1. /\ phase[j] = "counting" /\ electionTerm'[j] = electionTerm[j]
          /\ votesReceived'[j] = votesReceived[j]
          /\ StillCandidate(j)' => StillCandidate(j)
      BY <1>a, <2>2 DEF StillCandidate
    <3>2. ASSUME NEW p \in Peers(j), StillCandidate(j)', Voted(p, electionTerm[j], j)'
          PROVE  CallTo(p, j, electionTerm[j]) \in voteCalls'
      <4>1. Voted(p, electionTerm[j], j)
        BY <1>v, <2>2, <3>1, <3>2 DEF Voted
      <4> QED
        BY <1>e, <1>i, <3>1, <3>2, <4>1 DEF VotesAwaited
    <3> QED
      BY <1>i, <3>1, <3>2 DEF VotesAwaited
  <2> QED
    BY <2>1, <2>2
<1> QED
  BY <1>3, <1>4, <1>5, <1>6, <1>7

\* HandleRequestVote keeps CallsInv: it executes a request once, and answers what it did.
LEMMA CallsHandleRequestVote ==
  ASSUME TypeOK, TypeOK', CallsInv, NEW m \in voteReqs, HandleRequestVote(m)
  PROVE  CallsInv'
<1> SUFFICES ASSUME restarts = 0, VotesNeeded <= 2
             PROVE  (TermsKnown /\ RequestsFresh /\ AnswersTell /\ CallsOpen /\ VotesAwaited)'
  BY DEF CallsInv, VotesNeeded, HandleRequestVote, countVars
<1>i. TermsKnown /\ RequestsFresh /\ AnswersTell /\ CallsOpen /\ VotesAwaited
  BY DEF CallsInv
<1>t. /\ currentTerm \in [Server -> Nat] /\ currentTerm' \in [Server -> Nat]
      /\ state \in [Server -> {"Follower", "Candidate", "Leader"}]
      /\ \A r \in voteReqs : r.from \in Server /\ r.term \in Nat
      /\ \A n \in voteResps : n.to \in Server /\ n.reqTerm \in Nat
      /\ \A v \in votes : v.candidate \in Server /\ v.term \in Nat
  BY DEF TypeOK, NodeTypes, VoteNetTypes, HistoryTypes, VoteRequest, VoteResponse, Vote, Term
<1>m. /\ m.from \in Server /\ m.to \in Server /\ m.term \in Nat /\ currentTerm[m.to] \in Nat
      /\ voteReqs' = voteReqs \ {m}
      /\ UNCHANGED electionVars
  BY RequestVoteEffect
<1>c. \/ /\ m.term > currentTerm[m.to] /\ currentTerm' = [currentTerm EXCEPT ![m.to] = m.term]
         /\ state' = [state EXCEPT ![m.to] = "Follower"]
      \/ m.term <= currentTerm[m.to] /\ currentTerm' = currentTerm /\ state' = state
  BY RequestVoteEffect
<1>g. PICK g \in BOOLEAN :
        /\ votes' = votes \cup
             (IF g THEN {[voter |-> m.to, term |-> m.term, candidate |-> m.from]} ELSE {})
        /\ \/ voteResps' = voteResps
           \/ voteResps' = voteResps \cup
                {[from |-> m.to, to |-> m.from, reqTerm |-> m.term,
                  term |-> currentTerm'[m.to], granted |-> g]}
  BY RequestVoteEffect
<1>u. UNCHANGED <<phase, electionTerm, votesReceived, voteCalls>>
  BY <1>m DEF electionVars
<1>a. /\ currentTerm'[m.to] >= m.term
      /\ \A j \in Server : currentTerm'[j] >= currentTerm[j]
      /\ \A j \in Server : state'[j] = "Candidate" =>
                             state[j] = "Candidate" /\ currentTerm'[j] = currentTerm[j]
  BY <1>c, <1>m, <1>t
<1>l. \A j \in Server : \A u \in Nat : u <= currentTerm[j] => u <= currentTerm'[j]
  BY <1>a, <1>t
<1>v. /\ \A p, u, c : Voted(p, u, c)' => Voted(p, u, c) \/ (g /\ p = m.to /\ c = m.from /\ u = m.term)
  BY <1>g DEF Voted
<1>n. ASSUME NEW n \in voteResps', n \notin voteResps
      PROVE  /\ n.from = m.to /\ n.to = m.from /\ n.reqTerm = m.term /\ n.granted = g
             /\ n.term = currentTerm'[m.to]
  <2>1. n = [from |-> m.to, to |-> m.from, reqTerm |-> m.term,
             term |-> currentTerm'[m.to], granted |-> g]
    BY <1>g, <1>n
  <2> QED
    BY <2>1
<1>o. \A r \in voteReqs' : r \in voteReqs /\ ~(r.from = m.from /\ r.to = m.to /\ r.term = m.term)
  BY <1>i, <1>m DEF RequestsFresh, SameCall
<1>1. TermsKnown'
  <2>m. m.term <= currentTerm'[m.from]
    BY <1>i, <1>l, <1>m DEF TermsKnown
  <2>1. \A r \in voteReqs' : r.term <= currentTerm'[r.from]
    BY <1>i, <1>l, <1>o, <1>t DEF TermsKnown
  <2>2. ASSUME NEW n \in voteResps' PROVE n.reqTerm <= currentTerm'[n.to]
    <3>1. CASE n \in voteResps
      BY <1>i, <1>l, <1>t, <3>1 DEF TermsKnown
    <3>2. CASE n \notin voteResps
      BY <1>n, <2>m, <3>2
    <3> QED
      BY <3>1, <3>2
  <2>3. ASSUME NEW v \in votes' PROVE v.term <= currentTerm'[v.candidate]
    <3>1. CASE v \in votes
      BY <1>i, <1>l, <1>t, <3>1 DEF TermsKnown
    <3>2. CASE v = [voter |-> m.to, term |-> m.term, candidate |-> m.from]
      BY <2>m, <3>2
    <3> QED
      BY <1>g, <3>1, <3>2
  <2> QED
    BY <2>1, <2>2, <2>3 DEF TermsKnown
<1>2. RequestsFresh'
  <2> SUFFICES ASSUME NEW r \in voteReqs'
               PROVE  /\ \A n \in voteReqs' : SameCall(n, r.from, r.to, r.term) => n = r
                      /\ ~Voted(r.to, r.term, r.from)'
                      /\ \A n \in voteResps' :
                           ~(n.from = r.to /\ n.to = r.from /\ n.reqTerm = r.term)
    BY DEF RequestsFresh, SameCall
  <2>1. r \in voteReqs /\ ~(r.from = m.from /\ r.to = m.to /\ r.term = m.term)
    BY <1>o
  <2>2. \A n \in voteReqs' : SameCall(n, r.from, r.to, r.term) => n = r
    BY <1>i, <1>m, <2>1 DEF RequestsFresh
  <2>3. ~Voted(r.to, r.term, r.from)'
    BY <1>i, <1>v, <2>1 DEF RequestsFresh
  <2>4. ASSUME NEW n \in voteResps'
        PROVE  ~(n.from = r.to /\ n.to = r.from /\ n.reqTerm = r.term)
    <3>1. CASE n \in voteResps
      BY <1>i, <2>1, <3>1 DEF RequestsFresh
    <3>2. CASE n \notin voteResps
      BY <1>n, <2>1, <3>2
    <3> QED
      BY <3>1, <3>2
  <2> QED
    BY <2>2, <2>3, <2>4
<1>3. AnswersTell'
  <2> SUFFICES ASSUME NEW n \in voteResps', Voted(n.from, n.reqTerm, n.to)'
               PROVE  n.granted /\ n.term >= n.reqTerm
    BY DEF AnswersTell
  <2>1. CASE n \in voteResps
    <3>1. ~(n.from = m.to /\ n.to = m.from /\ n.reqTerm = m.term)
      BY <1>i, <2>1 DEF RequestsFresh
    <3>2. Voted(n.from, n.reqTerm, n.to)
      BY <1>v, <3>1
    <3> QED
      BY <1>i, <2>1, <3>2 DEF AnswersTell
  <2>2. CASE n \notin voteResps
    <3>1. /\ n.from = m.to /\ n.to = m.from /\ n.reqTerm = m.term /\ n.granted = g
          /\ n.term = currentTerm'[m.to]
      BY <1>n, <2>2
    <3>2. ~Voted(n.from, n.reqTerm, n.to)
      BY <1>i, <3>1 DEF RequestsFresh
    <3>3. g
      BY <1>v, <3>2
    <3> QED
      BY <1>a, <3>1, <3>3
  <2> QED
    BY <2>1, <2>2
<1>4. CallsOpen'
  BY <1>i, <1>o, <1>u DEF CallsOpen, CallTo
<1>5. VotesAwaited'
  <2> SUFFICES ASSUME NEW j \in Server, phase[j] = "counting"
               PROVE  /\ j \in votesReceived[j]
                      /\ StillCandidate(j)' =>
                           \A p \in Peers(j) : Voted(p, electionTerm[j], j)'
                              => CallTo(p, j, electionTerm[j]) \in voteCalls
    BY <1>u DEF VotesAwaited, CallTo, Peers
  <2>1. ASSUME NEW p \in Peers(j), StillCandidate(j)', Voted(p, electionTerm[j], j)'
        PROVE  CallTo(p, j, electionTerm[j]) \in voteCalls
    <3>1. StillCandidate(j)
      BY <1>a, <1>u, <2>1 DEF StillCandidate
    <3>2. CASE Voted(p, electionTerm[j], j)
      BY <1>i, <2>1, <3>1, <3>2 DEF VotesAwaited
    <3>3. CASE p = m.to /\ j = m.from /\ electionTerm[j] = m.term
      BY <1>i, <3>3 DEF CallsOpen
    <3>4. Voted(p, electionTerm[j], j) \/ (p = m.to /\ j = m.from /\ electionTerm[j] = m.term)
      BY <1>u, <1>v, <2>1 DEF Voted
    <3> QED
      BY <3>2, <3>3, <3>4
  <2> QED
    BY <1>i, <2>1 DEF VotesAwaited
<1> QED
  BY <1>1, <1>2, <1>3, <1>4, <1>5

\* Where two votes win, the answer of a peer that voted for the candidate ends the count: it
\* is added to the candidate's own vote and startElection goes on to becomeLeader.
LEMMA GrantedVoteWins ==
  ASSUME TypeOK, VotesAwaited, VotesNeeded <= 2,
         NEW i \in Server, phase[i] = "counting", StillCandidate(i)
  PROVE  WinsWith(i, AddVote(i))
<1>1. i \in votesReceived[i] /\ i # None
  BY ServerAssumption DEF VotesAwaited
<1>2. {i} \cup {None} \subseteq AddVote(i)
  BY <1>1 DEF AddVote
<1>3. IsFiniteSet(AddVote(i))
  <2>1. AddVote(i) \subseteq Server \cup {None}
    BY DEF AddVote, TypeOK, ElectionTypes
  <2>2. IsFiniteSet(Server \cup {None})
    BY ServerAssumption, FS_AddElement
  <2> QED
    BY <2>1, <2>2, FS_Subset
<1>4. IsFiniteSet({i}) /\ Cardinality({i}) = 1
  BY FS_Singleton
<1>5. Cardinality({i} \cup {None}) = 2
  <2>1. None \notin {i}
    BY <1>1
  <2>2. Cardinality({i} \cup {None}) = Cardinality({i}) + 1
    BY <1>4, <2>1, FS_AddElement
  <2> QED
    BY <1>4, <2>2
<1>6. Cardinality({i} \cup {None}) <= Cardinality(AddVote(i))
  BY <1>2, <1>3, FS_Subset
<1>7. Cardinality(AddVote(i)) \in Nat /\ VotesNeeded \in Nat
  BY <1>3, ServerAssumption, FS_CardinalityType DEF VotesNeeded
<1>8. Cardinality(AddVote(i)) >= VotesNeeded
  BY <1>5, <1>6, <1>7
<1> QED
  BY <1>8 DEF WinsWith, StillCandidate

\* HandleVoteResponse keeps CallsInv: the call it ends was not the last word of a vote.
LEMMA CallsHandleVoteResponse ==
  ASSUME TypeOK, TypeOK', CallsInv, NEW m \in voteResps, HandleVoteResponse(m)
  PROVE  CallsInv'
<1> SUFFICES ASSUME restarts = 0, VotesNeeded <= 2
             PROVE  (TermsKnown /\ RequestsFresh /\ AnswersTell /\ CallsOpen /\ VotesAwaited)'
  BY DEF CallsInv, VotesNeeded, HandleVoteResponse, countVars
<1>i. TermsKnown /\ RequestsFresh /\ AnswersTell /\ CallsOpen /\ VotesAwaited
  BY DEF CallsInv
<1>t. /\ currentTerm \in [Server -> Nat] /\ currentTerm' \in [Server -> Nat]
      /\ state \in [Server -> {"Follower", "Candidate", "Leader"}]
      /\ phase \in [Server -> {"idle", "counting", "won"}]
      /\ votesReceived \in [Server -> SUBSET (Server \cup {None})]
      /\ m.to \in Server /\ m.term \in Nat /\ m.reqTerm \in Nat
      /\ \A r \in voteReqs : r.from \in Server /\ r.term \in Nat
      /\ \A n \in voteResps : n.to \in Server /\ n.reqTerm \in Nat
      /\ \A v \in votes : v.candidate \in Server /\ v.term \in Nat
  BY DEF TypeOK, NodeTypes, ElectionTypes, VoteNetTypes, HistoryTypes, VoteRequest,
         VoteResponse, Vote, Term
<1>u. /\ voteResps' = voteResps \ {m}
      /\ voteCalls' = voteCalls \ {CallTo(m.from, m.to, m.reqTerm)}
      /\ UNCHANGED <<electionTerm, voteReqs, votes>>
  BY DEF HandleVoteResponse, histVars, CallTo
<1> DEFINE counts == /\ m.granted /\ m.term >= m.reqTerm
                     /\ phase[m.to] = "counting" /\ electionTerm[m.to] = m.reqTerm
<1>d. \/ /\ m.term > currentTerm[m.to] /\ StepDown(m.to, m.term)
         /\ UNCHANGED <<votesReceived, phase>>
      \/ /\ m.term <= currentTerm[m.to] /\ counts
         /\ votesReceived' = [votesReceived EXCEPT ![m.to] = AddVote(m.to)]
         /\ phase' = [phase EXCEPT ![m.to] =
                        IF WinsWith(m.to, AddVote(m.to)) THEN "won" ELSE phase[m.to]]
         /\ UNCHANGED <<state, currentTerm>>
      \/ /\ m.term <= currentTerm[m.to] /\ ~counts
         /\ UNCHANGED <<votesReceived, phase, state, currentTerm>>
  BY DEF HandleVoteResponse
<1>a. /\ \A j \in Server : currentTerm'[j] >= currentTerm[j]
      /\ \A j \in Server : state'[j] = "Candidate" =>
                             state[j] = "Candidate" /\ currentTerm'[j] = currentTerm[j]
  <2>1. CASE m.term > currentTerm[m.to] /\ StepDown(m.to, m.term)
    BY <1>t, <2>1 DEF StepDown
  <2>2. CASE UNCHANGED <<state, currentTerm>>
    BY <1>t, <2>2
  <2> QED
    BY <1>d, <2>1, <2>2
<1>b. \A j \in Server : /\ phase'[j] = "counting" => phase[j] = "counting"
                        /\ votesReceived[j] \subseteq votesReceived'[j]
  <2>1. CASE UNCHANGED <<votesReceived, phase>>
    BY <2>1
  <2>2. CASE /\ phase[m.to] = "counting"
             /\ votesReceived' = [votesReceived EXCEPT ![m.to] = AddVote(m.to)]
             /\ phase' = [phase EXCEPT ![m.to] =
                            IF WinsWith(m.to, AddVote(m.to)) THEN "won" ELSE phase[m.to]]
    BY <1>t, <2>2 DEF AddVote
  <2> QED
    BY <1>d, <2>1, <2>2
<1>l. \A j \in Server : \A u \in Nat : u <= currentTerm[j] => u <= currentTerm'[j]
  BY <1>a, <1>t
<1>1. TermsKnown'
  <2>1. \A r \in voteReqs' : r.term <= currentTerm'[r.from]
    BY <1>i, <1>l, <1>t, <1>u DEF TermsKnown
  <2>2. \A n \in voteResps' : n.reqTerm <= currentTerm'[n.to]
    BY <1>i, <1>l, <1>t, <1>u DEF TermsKnown
  <2>3. \A v \in votes' : v.term <= currentTerm'[v.candidate]
    BY <1>i, <1>l, <1>t, <1>u DEF TermsKnown
  <2> QED
    BY <2>1, <2>2, <2>3 DEF TermsKnown
<1>2. RequestsFresh' /\ AnswersTell'
  BY <1>i, <1>u DEF RequestsFresh, AnswersTell, Voted, SameCall
<1>3. CallsOpen'
  <2> SUFFICES ASSUME NEW r \in voteReqs, phase'[r.from] = "counting",
                      electionTerm[r.from] = r.term
               PROVE  CallTo(r.to, r.from, r.term) \in voteCalls'
    BY <1>u DEF CallsOpen, CallTo
  <2>1. CallTo(r.to, r.from, r.term) \in voteCalls
    BY <1>b, <1>i, <1>t DEF CallsOpen
  <2>2. ~(m.from = r.to /\ m.to = r.from /\ m.reqTerm = r.term)
    BY <1>i DEF RequestsFresh
  <2>3. CallTo(r.to, r.from, r.term) # CallTo(m.from, m.to, m.reqTerm)
    BY <2>2 DEF CallTo
  <2> QED
    BY <1>u, <2>1, <2>3
<1>4. VotesAwaited'
  <2> SUFFICES ASSUME NEW j \in Server, phase'[j] = "counting"
               PROVE  /\ j \in votesReceived'[j]
                      /\ StillCandidate(j)' =>
                           \A p \in Peers(j) : Voted(p, electionTerm[j], j)
                              => CallTo(p, j, electionTerm[j]) \in voteCalls'
    BY <1>u DEF VotesAwaited, CallTo, Peers, Voted
  <2>1. phase[j] = "counting" /\ j \in votesReceived'[j]
    BY <1>b, <1>i DEF VotesAwaited
  <2>2. ASSUME NEW p \in Peers(j), StillCandidate(j)', Voted(p, electionTerm[j], j)
        PROVE  CallTo(p, j, electionTerm[j]) \in voteCalls'
    <3>1. StillCandidate(j)
      BY <1>a, <1>u, <2>2 DEF StillCandidate
    <3>2. CallTo(p, j, electionTerm[j]) \in voteCalls
      BY <1>i, <2>1, <2>2, <3>1 DEF VotesAwaited
    <3>3. ASSUME p = m.from, j = m.to, electionTerm[j] = m.reqTerm PROVE FALSE
      <4>1. counts
        BY <1>i, <2>1, <2>2, <3>3 DEF AnswersTell
      <4>2. m.term <= currentTerm[m.to]
        <5>1. ASSUME m.term > currentTerm[m.to], StepDown(m.to, m.term) PROVE FALSE
          <6>1. state'[m.to] = "Follower"
            BY <1>t, <5>1 DEF StepDown
          <6> QED
            BY <2>2, <3>3, <6>1 DEF StillCandidate
        <5> QED
          BY <1>d, <5>1
      <4>3. phase' = [phase EXCEPT ![m.to] =
                        IF WinsWith(m.to, AddVote(m.to)) THEN "won" ELSE phase[m.to]]
        BY <1>d, <1>t, <4>1, <4>2
      <4>4. WinsWith(m.to, AddVote(m.to))
        BY <1>i, <1>t, <2>1, <3>1, <3>3, GrantedVoteWins
      <4>5. phase'[m.to] = "won"
        BY <1>t, <4>3, <4>4
      <4> QED
        BY <2>1, <3>3, <4>5
    <3>4. CallTo(p, j, electionTerm[j]) # CallTo(m.from, m.to, m.reqTerm)
      BY <3>3 DEF CallTo
    <3> QED
      BY <1>u, <3>2, <3>4
  <2> QED
    BY <2>1, <2>2
<1> QED
  BY <1>1, <1>2, <1>3, <1>4

\* The end of an election keeps CallsInv: it takes away calls of this election only.
LEMMA CallsElectionEnds ==
  ASSUME TypeOK, TypeOK', CallsInv, NEW i \in Server, BecomeLeader(i) \/ ElectionCompletes(i)
  PROVE  CallsInv'
<1>t. /\ phase \in [Server -> {"idle", "counting", "won"}] /\ currentTerm \in [Server -> Nat]
      /\ state \in [Server -> {"Follower", "Candidate", "Leader"}]
  BY DEF TypeOK, ElectionTypes, NodeTypes, Term
<1>1. /\ UNCHANGED <<electionTerm, votesReceived, votes, restarts, currentTerm>>
      /\ voteReqs' \subseteq voteReqs /\ voteResps' \subseteq voteResps
      /\ phase' = [phase EXCEPT ![i] = "idle"]
      /\ \A c \in voteCalls : c.from # i => c \in voteCalls'
      /\ state' = state \/ state' = [state EXCEPT ![i] = "Leader"]
  BY DEF BecomeLeader, ElectionCompletes, LeaveCalls, nodeVars, histVars, countVars
<1>2. \A j \in Server : phase'[j] = "counting" => phase[j] = "counting"
  BY <1>1, <1>t
<1>3. \A c \in voteCalls : phase'[c.from] = "counting" => c \in voteCalls'
  <2>1. phase'[i] = "idle"
    BY <1>1, <1>t
  <2> QED
    BY <1>1, <2>1
<1>4. \A j \in Server : currentTerm'[j] >= currentTerm[j]
  BY <1>1, <1>t
<1>5. \A j \in Server : state'[j] = "Candidate" =>
                          state[j] = "Candidate" /\ currentTerm'[j] = currentTerm[j]
  BY <1>1, <1>t
<1> QED
  BY <1>1, <1>2, <1>3, <1>4, <1>5, CallsKept

\* AppendEntries and its answers keep CallsInv: they only let terms grow and end candidacies.
LEMMA CallsAppendEntries ==
  ASSUME TypeOK, TypeOK', CallsInv,
         \/ \E m \in appendReqs : HandleAppendEntries(m)
         \/ \E m \in appendResps : HandleAppendResponse(m)
  PROVE  CallsInv'
<1>t. /\ currentTerm \in [Server -> Nat]
      /\ state \in [Server -> {"Follower", "Candidate", "Leader"}]
      /\ \A m \in appendReqs : m.to \in Server /\ m.term \in Nat
      /\ \A m \in appendResps : m.to \in Server /\ m.term \in Nat
  BY DEF TypeOK, NodeTypes, AppendNetTypes, AppendRequest, AppendResponse, Term
<1>1. UNCHANGED <<phase, electionTerm, votesReceived, voteCalls, votes, restarts, voteReqs, voteResps>>
  BY DEF HandleAppendEntries, HandleAppendResponse, electionVars, voteNet, histVars, countVars
<1>2. /\ \A j \in Server : currentTerm'[j] >= currentTerm[j]
      /\ \A j \in Server : state'[j] = "Candidate" =>
                             state[j] = "Candidate" /\ currentTerm'[j] = currentTerm[j]
  <2>1. CASE UNCHANGED <<state, currentTerm>>
    BY <1>t, <2>1
  <2>2. ASSUME NEW m \in appendReqs, m.term >= currentTerm[m.to],
               currentTerm' = [currentTerm EXCEPT ![m.to] = m.term],
               state' = [state EXCEPT ![m.to] =
                           IF m.term > currentTerm[m.to] \/ state[m.to] = "Candidate"
                           THEN "Follower" ELSE state[m.to]]
        PROVE  /\ \A j \in Server : currentTerm'[j] >= currentTerm[j]
               /\ \A j \in Server : state'[j] = "Candidate" =>
                                      state[j] = "Candidate" /\ currentTerm'[j] = currentTerm[j]
    BY <1>t, <2>2
  <2>3. ASSUME NEW m \in appendResps, m.term > currentTerm[m.to], StepDown(m.to, m.term)
        PROVE  /\ \A j \in Server : currentTerm'[j] >= currentTerm[j]
               /\ \A j \in Server : state'[j] = "Candidate" =>
                                      state[j] = "Candidate" /\ currentTerm'[j] = currentTerm[j]
    BY <1>t, <2>3 DEF StepDown
  <2>4. CASE \E m \in appendReqs : HandleAppendEntries(m)
    BY <2>1, <2>2, <2>4 DEF HandleAppendEntries, AdoptTerm, nodeVars
  <2>5. CASE \E m \in appendResps : HandleAppendResponse(m)
    BY <2>1, <2>3, <2>5 DEF HandleAppendResponse
  <2> QED
    BY <2>4, <2>5
<1> QED
  BY <1>1, <1>2, CallsKept

\* The steps of the other goroutines keep CallsInv.
LEMMA CallsOthers ==
  ASSUME TypeOK, TypeOK', CallsInv,
         \/ \E i \in Server : AppendNoOpEntry(i)
         \/ \E i \in Server, v \in Value : AppendLogEntry(i, v)
         \/ \E i \in Server : \E j \in Peers(i) : ReplicateToPeer(i, j) \/ PreemptAfterCheck(i, j)
         \/ \E p \in preempted : SendAfterPreemption(p)
         \/ \E i \in Server : SendHeartbeats(i)
         \/ \E b \in beats : SendHeartbeatToPeer(b)
         \/ LoseAppend
         \/ \E i \in Server : ApplyCommittedEntries(i)
         \/ UNCHANGED vars
  PROVE  CallsInv'
<1>1. UNCHANGED <<phase, electionTerm, votesReceived, voteCalls, votes, restarts, voteReqs,
                  voteResps, currentTerm, state>>
  BY DEF AppendNoOpEntry, AppendLogEntry, ReplicateToPeer, PreemptAfterCheck,
         SendAfterPreemption, SendHeartbeats, SendHeartbeatToPeer, LoseAppend,
         ApplyCommittedEntries, vars, nodeVars, electionVars, voteNet, histVars, countVars
<1>2. currentTerm \in [Server -> Nat]
  BY DEF TypeOK, NodeTypes, Term
<1>3. \A j \in Server : currentTerm'[j] >= currentTerm[j]
  BY <1>1, <1>2
<1> QED
  BY <1>1, <1>3, CallsKept

\* CallsInv speaks of clusters without a restart.
LEMMA CallsRestart ==
  ASSUME TypeOK, CallsInv, NEW i \in Server, Restart(i)
  PROVE  CallsInv'
<1>1. restarts' = restarts + 1 /\ restarts \in Nat
  BY DEF Restart, TypeOK, HistoryTypes
<1> QED
  BY <1>1 DEF CallsInv

\* CallsInv holds initially.
LEMMA CallsInit == Init => CallsInv
BY DEF Init, CallsInv, TermsKnown, RequestsFresh, AnswersTell, CallsOpen, VotesAwaited

\* Every step keeps CallsInv.
LEMMA CallsNext == TypeOK /\ TypeOK' /\ CallsInv /\ [Next]_vars => CallsInv'
<1> SUFFICES ASSUME TypeOK, TypeOK', CallsInv, [Next]_vars PROVE CallsInv'
  OBVIOUS
<1> QED
  BY CallsStartElection, CallsHandleRequestVote, CallsHandleVoteResponse, CallsElectionEnds,
     CallsAppendEntries, CallsOthers, CallsRestart
  DEF Next

\* A candidate whose calls have all been answered has no vote but its own.
LEMMA UnansweredMeansOwnVote ==
  ASSUME TypeOK, CallsInv, restarts = 0, Cardinality(Server) \in 2..4
  PROVE  MajorityWins
<1>1. Cardinality(Server) \in Nat /\ VotesNeeded <= 2
  BY DEF VotesNeeded
<1>i. VotesAwaited
  BY <1>1 DEF CallsInv
<1> SUFFICES ASSUME NEW i \in Server, phase[i] = "counting", StillCandidate(i),
                    \A c \in voteCalls : c.from = i => c.term # electionTerm[i]
             PROVE  2 * Cardinality({v \in votes : v.candidate = i /\ v.term = electionTerm[i]})
                      <= Cardinality(Server)
  BY DEF MajorityWins
<1> DEFINE V == {v \in votes : v.candidate = i /\ v.term = electionTerm[i]}
           own == [voter |-> i, term |-> electionTerm[i], candidate |-> i]
<1>2. V \subseteq {own}
  <2> SUFFICES ASSUME NEW v \in V PROVE v = own
    OBVIOUS
  <2>1. v \in [voter : Server, term : Nat, candidate : Server]
    BY DEF TypeOK, HistoryTypes, Vote, Term
  <2>2. v = [voter |-> v.voter, term |-> electionTerm[i], candidate |-> i]
    BY <2>1
  <2>3. Voted(v.voter, electionTerm[i], i)
    BY <2>2 DEF Voted
  <2>4. CASE v.voter # i
    <3>1. CallTo(v.voter, i, electionTerm[i]) \in voteCalls
      BY <1>i, <2>1, <2>3, <2>4 DEF VotesAwaited, Peers
    <3>2. /\ CallTo(v.voter, i, electionTerm[i]).from = i
          /\ CallTo(v.voter, i, electionTerm[i]).term = electionTerm[i]
      BY DEF CallTo
    <3> QED
      BY <3>1, <3>2
  <2> QED
    BY <2>2, <2>4
<1>3. IsFiniteSet({own}) /\ Cardinality({own}) = 1
  BY FS_Singleton
<1>4. IsFiniteSet(V) /\ Cardinality(V) <= Cardinality({own})
  BY <1>2, <1>3, FS_Subset
<1>5. Cardinality(V) \in Nat
  BY <1>4, FS_CardinalityType
<1> HIDE DEF V, own
<1>6. 2 * Cardinality(V) <= Cardinality(Server)
  BY <1>1, <1>3, <1>4, <1>5
<1> QED
  BY <1>6 DEF V

\* In a cluster of two to four servers that has not restarted, no candidate for whom a
\* majority voted ends its count without having won: whatever the order in which answers
\* arrive, startElection still waits for the call of every peer that voted for it, and the
\* first granted answer it counts, added to its own vote, sends it on to becomeLeader.  Larger
\* clusters need more votes than its count, which has one name for all peers, can reach.
THEOREM MajoritiesWin ==
  Spec => [](Cardinality(Server) \in 2..4 /\ restarts = 0 => MajorityWins)
<1>1. TypeOK /\ CallsInv => (Cardinality(Server) \in 2..4 /\ restarts = 0 => MajorityWins)
  BY UnansweredMeansOwnVote
<1>2. Spec => []CallsInv
  BY TypeCorrect, CallsInit, CallsNext, PTL DEF Spec
<1> QED
  BY TypeCorrect, <1>1, <1>2, PTL

-----------------------------------------------------------------------------
(***************************************************************************)
(* Logs and commit indices, for every cluster and every bound, as long as  *)
(* no server has restarted and no sender was stopped between the leader    *)
(* check of replicateToPeer and the request it builds.                     *)
(***************************************************************************)

-----------------------------------------------------------------------------
(* The inductive invariant: who leads, and who sends *)

Won(t) == \E w \in wins : w.term = t

\* A leader has won its term, and the winner of a term leads it until it leaves the term.
WinnersLead ==
  /\ \A i \in Server : state[i] = "Leader" => [leader |-> i, term |-> currentTerm[i]] \in wins
  /\ \A w \in wins :
       /\ w.term <= currentTerm[w.leader]
       /\ w.term = currentTerm[w.leader] => state[w.leader] = "Leader"

\* A vote request is of a term its candidate has reached, and describes the log the candidate
\* has for as long as it stays one in that term.
Campaigns ==
  /\ \A m \in voteReqs :
       /\ m.term \in 1..MaxTerm /\ m.term <= currentTerm[m.from]
       /\ (state[m.from] = "Candidate" /\ currentTerm[m.from] = m.term)
            => m.lastLogIndex = LastLogIndex(m.from) /\ m.lastLogTerm = LastLogTerm(m.from)
  /\ \A v \in votes : v.term \in 1..MaxTerm /\ v.term <= currentTerm[v.candidate]

FromWinner(m) == m.from # m.to /\ [leader |-> m.from, term |-> m.term] \in wins

\* AppendEntries requests come from the winner of their term, and go to others.
SentByWinners ==
  /\ preempted = {}
  /\ \A m \in appendReqs : FromWinner(m)
  /\ \A b \in beats : FromWinner(b)

RoleInv == WinnersLead /\ Campaigns /\ SentByWinners

-----------------------------------------------------------------------------
(* The inductive invariant: the logs of leaders.  L[t] is the log that the leader of term t *)
(* had when it was last seen leading; the invariant says that there is such an L.           *)

\* Every entry of s is one that the leader of its term made, and came with all before it.
Follows(s, L) ==
  \A k \in 1..Len(s) :
    /\ s[k].term \in 1..MaxTerm /\ k <= Len(L[s[k].term])
    /\ \A n \in 1..k : s[n] = L[s[k].term][n]

\* What m carries is a part of s, with the term before it.
IsPartOf(m, s) ==
  /\ m.prevLogIndex + Len(m.entries) <= Len(s)
  /\ \A k \in 1..Len(m.entries) : m.entries[k] = s[m.prevLogIndex + k]
  /\ m.prevLogIndex > 0 => m.prevLogTerm = s[m.prevLogIndex].term

\* A request carries a part of its leader's log, or nothing: a heartbeat, or one that starts
\* beyond the end and finds no entry of term 0.
Fits(m, L) ==
  \/ m.entries = << >> /\ (m.beat \/ (m.prevLogIndex > 0 /\ m.prevLogTerm = 0))
  \/ IsPartOf(m, L[m.term])

TermsUpTo(s, t) == \A k \in 1..Len(s) : s[k].term <= t

LeaderLogs(L) ==
  /\ \A t \in 1..MaxTerm :
       /\ Follows(L[t], L) /\ TermsUpTo(L[t], t) /\ Len(L[t]) <= MaxLogLen
       /\ ~Won(t) => L[t] = << >>
  /\ \A j \in Server :
       /\ Follows(log[j], L) /\ TermsUpTo(log[j], currentTerm[j])
       /\ state[j] = "Leader" => log[j] = L[currentTerm[j]]
  /\ \A m \in appendReqs : Fits(m, L)

Has(s, k, t) == k \in 1..Len(s) /\ s[k].term = t

\* The entry that the leader of term t has at k will not be lost: all servers but one hold it,
\* and so do the leaders of later terms and the candidates that others have voted for.
Secured(L, t, k) ==
  /\ Has(L[t], k, t)
  /\ \E r \in Server : \A q \in Server \ {r} : currentTerm[q] >= t /\ Has(log[q], k, t)
  /\ \A u \in 1..MaxTerm : u > t /\ Won(u) => Has(L[u], k, t)
  /\ \A v \in votes :
       /\ v.term > t /\ v.voter # v.candidate
       /\ state[v.candidate] = "Candidate" /\ currentTerm[v.candidate] = v.term
       => Has(log[v.candidate], k, t)

\* Server j has told leader i that it holds the entry at k, and i may not know yet.
Acked(i, j, k) ==
  \/ k <= matchIndex[i][j]
  \/ \E m \in appendResps :
       /\ m.to = i /\ m.from = j /\ m.reqTerm = currentTerm[i]
       /\ m.success /\ k <= m.lastSent

Backed(i, k) == ReplicasNeeded <= 1 \/ \E j \in Peers(i) : Acked(i, j, k)

\* Nobody acknowledges more than the leader has.
AcksBounded(L) ==
  /\ \A m \in appendResps : m.success /\ m.lastSent > 0 =>
       m.reqTerm \in 1..MaxTerm /\ m.lastSent <= Len(L[m.reqTerm])
  /\ \A i \in Server : state[i] = "Leader" => \A j \in Server : matchIndex[i][j] <= Len(log[i])

CommittedSecured(L) ==
  \A t \in 1..MaxTerm :
    /\ Len(committed[t]) <= Len(L[t])
    /\ \A n \in 1..Len(committed[t]) : committed[t][n] = L[t][n]
    /\ committed[t] # << >> => Secured(L, t, Len(committed[t]))

BackedAt(L, i) ==
  /\ Len(committed[currentTerm[i]]) <= commitIndex[i]
  /\ \A k \in 1..Len(log[i]) :
       log[i][k].term = currentTerm[i] /\ Backed(i, k) => Secured(L, currentTerm[i], k)

BackedSecured(L) == \A i \in Server : state[i] = "Leader" => BackedAt(L, i)

CommitsSecured(L) == AcksBounded(L) /\ CommittedSecured(L) /\ BackedSecured(L)

-----------------------------------------------------------------------------
(* The steps, as far as logs and leaders are concerned *)

Keeps(i) ==
  state'[i] = state[i] /\ currentTerm'[i] = currentTerm[i] /\ matchIndex'[i] = matchIndex[i]

Retreats(i) ==
  /\ state'[i] = "Follower"
  /\ \/ currentTerm'[i] > currentTerm[i]
     \/ currentTerm'[i] = currentTerm[i] /\ state[i] # "Leader"

\* A step that changes no log and elects nobody: messages come and go, servers move on to
\* later terms as followers.
Fade(L) ==
  /\ UNCHANGED <<log, wins, votes, committed>>
  /\ voteReqs' \subseteq voteReqs /\ preempted' \subseteq preempted
  /\ \A i \in Server : Keeps(i) \/ Retreats(i)
  /\ \A i \in Server : state'[i] = "Leader" => commitIndex'[i] = commitIndex[i]
  /\ \A m \in appendReqs' : m \in appendReqs \/ (FromWinner(m) /\ Fits(m, L))
  /\ \A b \in beats' : b \in beats \/ FromWinner(b)
  /\ \A m \in appendResps' : m \in appendResps \/ ~m.success \/ m.lastSent = 0

\* i starts an election.
Stands(i) ==
  /\ UNCHANGED <<log, wins, committed, commitIndex, matchIndex, preempted, appendReqs, appendResps, beats>>
  /\ state[i] # "Leader" /\ currentTerm[i] + 1 <= MaxTerm
  /\ state' = [state EXCEPT ![i] = "Candidate"]
  /\ currentTerm' = [currentTerm EXCEPT ![i] = currentTerm[i] + 1]
  /\ votes' = votes \cup {[voter |-> i, term |-> currentTerm[i] + 1, candidate |-> i]}
  /\ \A m \in voteReqs' :
       \/ m \in voteReqs
       \/ /\ m.from = i /\ m.term = currentTerm[i] + 1
          /\ m.lastLogIndex = LastLogIndex(i) /\ m.lastLogTerm = LastLogTerm(i)

\* The request m of a candidate is granted.
Grants(m) ==
  /\ UNCHANGED <<log, wins, committed, commitIndex, preempted, appendReqs, appendResps, beats>>
  /\ voteReqs' \subseteq voteReqs
  /\ \A i \in Server : Keeps(i) \/ Retreats(i)
  /\ votes' = votes \cup {[voter |-> m.to, term |-> m.term, candidate |-> m.from]}
  /\ m.from # m.to /\ LogIsUpToDate(m, m.to)
  /\ m.term >= currentTerm[m.to] /\ currentTerm'[m.to] = m.term

\* i becomes leader.
Wins(i) ==
  /\ UNCHANGED <<log, currentTerm, votes, committed, commitIndex, preempted, appendReqs, appendResps, beats>>
  /\ voteReqs' \subseteq voteReqs
  /\ state[i] = "Candidate" /\ Elected(i, currentTerm[i])
  /\ state' = [state EXCEPT ![i] = "Leader"]
  /\ matchIndex' = [matchIndex EXCEPT ![i] = [j \in Server |-> 0]]
  /\ wins' = wins \cup {[leader |-> i, term |-> currentTerm[i]]}

\* The leader i appends an entry.
Extends(i, v) ==
  /\ UNCHANGED <<state, currentTerm, wins, votes, committed, commitIndex, matchIndex, preempted,
                 voteReqs, appendReqs, appendResps, beats>>
  /\ state[i] = "Leader" /\ LastLogIndex(i) < MaxLogLen
  /\ log' = [log EXCEPT ![i] = Appended(i, v)]

\* The request m, which has entries, is accepted.
Accepts(m) ==
  /\ UNCHANGED <<wins, votes, committed, preempted, voteReqs, beats>>
  /\ m.entries # << >> /\ m.term >= currentTerm[m.to] /\ PrevMatches(m, m.to)
  /\ \A i \in Server : Keeps(i) \/ Retreats(i)
  /\ \A i \in Server : state'[i] = "Leader" => commitIndex'[i] = commitIndex[i]
  /\ currentTerm'[m.to] = m.term /\ state'[m.to] = "Follower"
  /\ log' = [log EXCEPT ![m.to] = ApplyLogEntries(m, m.to)]
  /\ appendReqs' \subseteq appendReqs
  /\ appendResps' = appendResps \cup {AppendReply(m, m.term, TRUE, 0)}

\* The leader learns from m that its entries were accepted, and commits what it can.
Confirms(m) ==
  /\ UNCHANGED <<state, currentTerm, log, wins, votes, preempted, voteReqs, appendReqs, beats>>
  /\ state[m.to] = "Leader" /\ currentTerm[m.to] = m.reqTerm /\ m.success
  /\ appendResps' = appendResps \ {m}
  /\ matchIndex' = [matchIndex EXCEPT ![m.to][m.from] = m.lastSent]
  /\ TryAdvanceCommitIndex(m.to, matchIndex'[m.to])

Calm == restarts = 0 /\ preemptedUsed = 0

StepsOf(L) ==
  \/ Fade(L)
  \/ \E i \in Server : Stands(i) \/ Wins(i)
  \/ \E i \in Server, v \in Value \cup {NoOp} : Extends(i, v)
  \/ \E m \in voteReqs : Grants(m)
  \/ \E m \in appendReqs : Accepts(m)
  \/ \E m \in appendResps : Confirms(m)

-----------------------------------------------------------------------------
(* Every step is one of these *)

\* A step that touches none of the variables these formulas are about.
LEMMA NothingFades ==
  ASSUME TypeOK, NEW L,
         UNCHANGED <<state, currentTerm, matchIndex, log, wins, votes, committed, commitIndex,
                     voteReqs, preempted, beats, appendReqs, appendResps>>
  PROVE  Fade(L)
BY DEF Fade, Keeps, TypeOK, LogTypes

\* StartElection is a server standing for election.
LEMMA StepStartElection ==
  ASSUME TypeOK, NEW i \in Server, StartElection(i)
  PROVE  Stands(i)
BY DEF StartElection, Stands, Peers, commitVars, leaderVars, goVars, appendNet

\* The vote is granted, or the request only makes the server follow.
LEMMA StepHandleRequestVote ==
  ASSUME TypeOK, TypeOK', ElectionInv, restarts = 0, NEW L, NEW m \in voteReqs, HandleRequestVote(m)
  PROVE  Fade(L) \/ Grants(m)
<1> DEFINE i == m.to
           newer == m.term > currentTerm[i]
           voted == IF newer THEN None ELSE votedFor[i]
<1>m. m.from \in Server /\ i \in Server /\ m.term \in Nat /\ m.from # m.to
  BY DEF TypeOK, VoteNetTypes, VoteRequest, Term, ElectionInv, AnswersBacked
<1>t. /\ currentTerm \in [Server -> Nat] /\ state \in [Server -> {"Follower", "Candidate", "Leader"}]
      /\ matchIndex \in [Server -> [Server -> Nat]] /\ commitIndex \in [Server -> Nat]
  BY DEF TypeOK, NodeTypes, LeaderTypes, LogTypes, Term
<1>u. UNCHANGED <<log, wins, committed, commitIndex, preempted, appendReqs, appendResps, beats>>
  BY DEF HandleRequestVote, commitVars, goVars, appendNet
<1>1. \/ /\ m.term > currentTerm[i]
         /\ currentTerm' = [currentTerm EXCEPT ![i] = m.term]
         /\ state' = [state EXCEPT ![i] = "Follower"]
         /\ SetLeaderState(i, NilLeaderState)
      \/ m.term <= currentTerm[i] /\ UNCHANGED <<currentTerm, state, leaderVars>>
  BY RequestVoteEffect
<1>2. \A j \in Server : Keeps(j) \/ Retreats(j)
  BY <1>1, <1>m, <1>t DEF Keeps, Retreats, SetLeaderState, leaderVars
<1>3. CASE GrantsVote(m, i, voted)
  <2>1. votes' = votes \cup {[voter |-> i, term |-> m.term, candidate |-> m.from]}
    BY <1>3 DEF HandleRequestVote
  <2>2. m.term >= currentTerm[i] /\ LogIsUpToDate(m, i)
    BY <1>3 DEF GrantsVote
  <2>4. m.term >= currentTerm[i] /\ currentTerm[i] \in Nat
    BY <2>2, <1>m, <1>t
  <2>3. currentTerm'[i] = m.term
    <3>1. CASE currentTerm' = [currentTerm EXCEPT ![i] = m.term]
      BY <3>1, <1>m, <1>t
    <3>2. CASE m.term <= currentTerm[i] /\ currentTerm' = currentTerm
      BY <3>2, <1>m, <2>4
    <3> QED
      BY <1>1, <3>1, <3>2
  <2> QED
    BY <1>2, <1>m, <1>u, <2>1, <2>2, <2>3 DEF Grants, HandleRequestVote
<1>4. CASE ~GrantsVote(m, i, voted)
  <2>1. votes' = votes
    BY <1>4 DEF HandleRequestVote
  <2> QED
    BY <1>2, <1>t, <1>u, <2>1 DEF Fade, HandleRequestVote
<1> QED
  BY <1>3, <1>4

\* The answer to a vote request makes a server follow, or only counts a vote.
LEMMA StepHandleVoteResponse ==
  ASSUME TypeOK, TypeOK', NEW L, NEW m \in voteResps, HandleVoteResponse(m)
  PROVE  Fade(L)
<1>m. m.to \in Server /\ m.term \in Nat
  BY DEF TypeOK, VoteNetTypes, VoteResponse, Term
<1>t. /\ currentTerm \in [Server -> Nat] /\ state \in [Server -> {"Follower", "Candidate", "Leader"}]
      /\ matchIndex \in [Server -> [Server -> Nat]] /\ commitIndex \in [Server -> Nat]
  BY DEF TypeOK, NodeTypes, LeaderTypes, LogTypes, Term
<1>1. UNCHANGED <<log, commitIndex, wins, votes, committed, voteReqs, preempted, beats, appendReqs, appendResps>>
  BY DEF HandleVoteResponse, commitVars, appendNet, goVars, histVars
<1>2. \A j \in Server : Keeps(j) \/ Retreats(j)
  BY <1>m, <1>t DEF HandleVoteResponse, StepDown, SetLeaderState, leaderVars, Keeps, Retreats
<1> QED
  BY <1>1, <1>2, <1>t DEF Fade

\* becomeLeader returns early, or it is a candidate winning its term.
LEMMA StepBecomeLeader ==
  ASSUME TypeOK, ElectionInv, restarts = 0, NEW L, NEW i \in Server, BecomeLeader(i)
  PROVE  Fade(L) \/ Wins(i)
<1>1. /\ UNCHANGED <<log, currentTerm, commitIndex, votes, committed, preempted, beats, appendReqs, appendResps>>
      /\ voteReqs' \subseteq voteReqs
  BY DEF BecomeLeader, LeaveCalls, commitVars, appendNet, goVars
<1>2. CASE StillCandidate(i)
  <2>1. Elected(i, currentTerm[i]) /\ state[i] = "Candidate"
    BY <1>2 DEF BecomeLeader, ElectionInv, CountsBacked, StillCandidate
  <2> QED
    BY <1>1, <1>2, <2>1 DEF BecomeLeader, Wins, SetLeaderState, NewLeaderState
<1>3. CASE ~StillCandidate(i)
  <2>1. UNCHANGED <<state, matchIndex, wins>>
    BY <1>3 DEF BecomeLeader, leaderVars
  <2> QED
    BY <1>1, <2>1 DEF Fade, Keeps, TypeOK, LogTypes
<1> QED
  BY <1>2, <1>3

\* The end of an election leaves the logs and the terms alone.
LEMMA StepElectionCompletes ==
  ASSUME TypeOK, NEW L, NEW i \in Server, ElectionCompletes(i)
  PROVE  Fade(L)
BY DEF ElectionCompletes, LeaveCalls, nodeVars, commitVars, leaderVars, appendNet, goVars, histVars,
       Fade, Keeps, TypeOK, LogTypes

\* The new leader's no-op is appended to its log, or the append is given up.
LEMMA StepAppendNoOpEntry ==
  ASSUME TypeOK, NEW L, NEW i \in Server, AppendNoOpEntry(i)
  PROVE  Fade(L) \/ Extends(i, NoOp)
<1>1. UNCHANGED <<state, currentTerm, commitIndex, matchIndex, wins, votes, committed, voteReqs,
                  preempted, beats, appendReqs, appendResps>>
  BY DEF AppendNoOpEntry, commitVars, leaderVars, voteNet, appendNet, goVars, histVars
<1>2. CASE log' = log
  BY <1>1, <1>2, NothingFades
<1>3. CASE /\ state[i] = "Leader" /\ LastLogIndex(i) < MaxLogLen
           /\ log' = [log EXCEPT ![i] = Appended(i, NoOp)]
  BY <1>1, <1>3 DEF Extends
<1> QED
  BY <1>2, <1>3 DEF AppendNoOpEntry

\* A proposal extends the leader's log by its entry.
LEMMA StepAppendLogEntry ==
  ASSUME TypeOK, NEW i \in Server, NEW v \in Value, AppendLogEntry(i, v)
  PROVE  Extends(i, v)
BY DEF AppendLogEntry, Extends, commitVars, leaderVars, voteNet, appendNet, goVars, histVars

\* What buildAppendEntriesRequest makes of a leader's log fits it.
LEMMA BuiltRequestFits ==
  ASSUME TypeOK, NEW L, NEW i \in Server, NEW j \in Server, log[i] = L[currentTerm[i]]
  PROVE  Fits(BuildAppendEntriesRequest(i, j), L)
<1> DEFINE prev == nextIndex[i][j] - 1
           last == MinOf(Len(log[i]), prev + MaxEntriesPerAppend)
           m == BuildAppendEntriesRequest(i, j)
<1>1. /\ prev \in Nat /\ log[i] \in Seq(Entry) /\ Len(log[i]) \in Nat
      /\ nextIndex[i][j] = prev + 1
  <2>1. nextIndex[i][j] \in Nat \ {0} /\ log[i] \in Seq(Entry)
    BY DEF TypeOK, LeaderTypes, LogTypes
  <2> QED
    BY <2>1
<1>0. MaxEntriesPerAppend \in Nat
  BY BoundAssumption
<1>2. last \in Nat /\ last <= Len(log[i])
  <2> HIDE DEF prev
  <2> QED
    BY <1>0, <1>1 DEF MinOf
<1>3. /\ m.entries = SubSeq(log[i], prev + 1, last) /\ m.prevLogIndex = prev
      /\ m.prevLogTerm = GetTermAtIndex(i, prev) /\ m.term = currentTerm[i]
  <2>1. nextIndex[i][j] + MaxEntriesPerAppend - 1 = prev + MaxEntriesPerAppend
    <3> HIDE DEF prev
    <3> QED
      BY <1>0, <1>1
  <2> QED
    BY <1>1, <2>1 DEF BuildAppendEntriesRequest, EntriesToSend, LastLogIndex
<1>4. CASE prev < last
  <2>1. /\ Len(m.entries) = last - prev
        /\ \A k \in 1..(last - prev) : m.entries[k] = log[i][prev + k]
    <3> HIDE DEF prev, last
    <3>1. Len(SubSeq(log[i], prev + 1, last)) = last - prev
      BY <1>1, <1>2, <1>4
    <3>2. ASSUME NEW k \in 1..(last - prev)
          PROVE  SubSeq(log[i], prev + 1, last)[k] = log[i][prev + k]
      BY <1>1, <1>2, <1>4
    <3> QED
      BY <1>3, <3>1, <3>2
  <2>2. prev > 0 => m.prevLogTerm = log[i][prev].term
    BY <1>1, <1>2, <1>3, <1>4 DEF GetTermAtIndex
  <2> HIDE DEF m, prev, last
  <2>3. IsPartOf(m, log[i])
    BY <1>1, <1>2, <1>3, <1>4, <2>1, <2>2 DEF IsPartOf
  <2> QED
    BY <1>3, <2>3 DEF Fits, m
<1>5. CASE prev >= last
  <2>1. m.entries = << >>
    <3> HIDE DEF prev, last
    <3>1. SubSeq(log[i], prev + 1, last) = << >>
      BY <1>1, <1>2, <1>5
    <3> QED
      BY <1>3, <3>1
  <2> HIDE DEF m, prev
  <2>2. CASE prev <= Len(log[i])
    <3>1. prev > 0 => m.prevLogTerm = log[i][prev].term
      BY <1>1, <1>3, <2>2 DEF GetTermAtIndex
    <3>2. IsPartOf(m, log[i])
      <4>1. Len(m.entries) = 0 /\ m.prevLogIndex = prev
        BY <1>3, <2>1
      <4> QED
        BY <1>1, <2>2, <3>1, <4>1 DEF IsPartOf
    <3> QED
      BY <1>3, <3>2 DEF Fits, m
  <2>3. CASE prev > Len(log[i])
    <3>1. m.prevLogTerm = 0 /\ m.prevLogIndex > 0
      BY <1>1, <1>3, <2>3 DEF GetTermAtIndex
    <3> QED
      BY <2>1, <3>1 DEF Fits, m
  <2> QED
    BY <1>1, <2>2, <2>3
<1> QED
  BY <1>1, <1>2, <1>4, <1>5

\* replicateToPeer sends a part of the leader's log, by the winner of the term.
LEMMA StepReplicateToPeer ==
  ASSUME TypeOK, RoleInv, NEW L, LeaderLogs(L), NEW i \in Server, NEW j \in Peers(i),
         ReplicateToPeer(i, j)
  PROVE  Fade(L)
<1> DEFINE m == BuildAppendEntriesRequest(i, j)
<1>1. state[i] = "Leader" /\ j \in Server /\ i # j
  BY DEF ReplicateToPeer, PassesLeaderCheck, Peers
<1>2. Fits(m, L)
  BY <1>1, BuiltRequestFits DEF LeaderLogs
<1>3. FromWinner(m)
  BY <1>1 DEF FromWinner, RoleInv, WinnersLead, BuildAppendEntriesRequest
<1>4. /\ UNCHANGED <<state, currentTerm, matchIndex, log, wins, votes, committed, commitIndex,
                     voteReqs, preempted, beats, appendResps>>
      /\ appendReqs' = appendReqs \cup {m}
  BY DEF ReplicateToPeer, nodeVars, commitVars, leaderVars, voteNet, goVars, histVars
<1> HIDE DEF m
<1> QED
  BY <1>2, <1>3, <1>4 DEF Fade, Keeps

\* A round of heartbeats only starts senders, and only a leader starts one.
LEMMA StepSendHeartbeats ==
  ASSUME TypeOK, RoleInv, NEW L, NEW i \in Server, SendHeartbeats(i)
  PROVE  Fade(L)
<1>1. \A b \in beats' : b \in beats \/ FromWinner(b)
  BY DEF SendHeartbeats, FromWinner, RoleInv, WinnersLead, Peers
<1>2. UNCHANGED <<state, currentTerm, matchIndex, log, wins, votes, committed, commitIndex,
                  voteReqs, preempted, appendReqs, appendResps>>
  BY DEF SendHeartbeats, nodeVars, commitVars, leaderVars, voteNet, appendNet, histVars
<1> QED
  BY <1>1, <1>2 DEF Fade, Keeps

\* A heartbeat carries no entries, so it fits every log.
LEMMA StepSendHeartbeatToPeer ==
  ASSUME TypeOK, RoleInv, NEW L, NEW b \in beats, SendHeartbeatToPeer(b)
  PROVE  Fade(L)
<1> DEFINE m == BuildHeartbeat(b)
<1>1. FromWinner(m) /\ Fits(m, L)
  BY DEF BuildHeartbeat, RoleInv, SentByWinners, FromWinner, Fits
<1>2. /\ UNCHANGED <<state, currentTerm, matchIndex, log, wins, votes, committed, commitIndex,
                     voteReqs, preempted, appendResps>>
      /\ beats' \subseteq beats /\ appendReqs' = appendReqs \cup {m}
  BY DEF SendHeartbeatToPeer, nodeVars, commitVars, leaderVars, voteNet, histVars
<1> HIDE DEF m
<1> QED
  BY <1>1, <1>2 DEF Fade, Keeps

\* A lost message takes nothing but itself away.
LEMMA StepLoseAppend ==
  ASSUME TypeOK, NEW L, LoseAppend
  PROVE  Fade(L)
<1>1. /\ UNCHANGED <<state, currentTerm, matchIndex, log, wins, votes, committed, commitIndex,
                     voteReqs, preempted, beats>>
      /\ appendReqs' \subseteq appendReqs /\ appendResps' \subseteq appendResps
  BY DEF LoseAppend, nodeVars, commitVars, leaderVars, voteNet, goVars, histVars
<1> QED
  BY <1>1 DEF Fade, Keeps

\* An AppendEntries request that is not outdated leaves its receiver a follower in its term:
\* the winner of the term sent it, and to another server.
LEMMA AdoptTermRetreats ==
  ASSUME TypeOK, RoleInv, ElectionSafety, NEW m \in appendReqs,
         m.term >= currentTerm[m.to], AdoptTerm(m, m.to)
  PROVE  /\ currentTerm'[m.to] = m.term /\ state'[m.to] = "Follower"
         /\ \A i \in Server : Keeps(i) \/ Retreats(i)
         /\ \A i \in Server \ {m.to} : Keeps(i)
<1> DEFINE i == m.to
<1>m. m.from \in Server /\ i \in Server /\ m.term \in Nat /\ m.from # i
  BY DEF TypeOK, AppendNetTypes, AppendRequest, Term, RoleInv, SentByWinners, FromWinner
<1>t. /\ currentTerm \in [Server -> Nat] /\ state \in [Server -> {"Follower", "Candidate", "Leader"}]
      /\ matchIndex \in [Server -> [Server -> Nat]]
  BY DEF TypeOK, NodeTypes, LeaderTypes, Term
<1>1. ~(m.term = currentTerm[i] /\ state[i] = "Leader")
  <2> SUFFICES ASSUME m.term = currentTerm[i], state[i] = "Leader" PROVE FALSE
    OBVIOUS
  <2>1. [leader |-> i, term |-> m.term] \in wins /\ [leader |-> m.from, term |-> m.term] \in wins
    BY <1>m DEF RoleInv, WinnersLead, SentByWinners, FromWinner
  <2> QED
    BY <1>m, <2>1 DEF ElectionSafety
<1>2. /\ currentTerm' = [currentTerm EXCEPT ![i] = m.term]
      /\ state' = [state EXCEPT ![i] = "Follower"]
      /\ \/ matchIndex' = matchIndex
         \/ matchIndex' = [matchIndex EXCEPT ![i] = NilLeaderState.matchIndex]
  <2>0. currentTerm[i] \in Nat /\ state[i] \in {"Follower", "Candidate", "Leader"}
    BY <1>m, <1>t
  <2>1. (IF m.term > currentTerm[i] \/ state[i] = "Candidate" THEN "Follower" ELSE state[i]) = "Follower"
    BY <1>1, <1>m, <2>0
  <2> QED
    BY <2>1 DEF AdoptTerm, SetLeaderState, leaderVars
<1>3. \A j \in Server \ {i} : Keeps(j)
  BY <1>2, <1>m, <1>t DEF Keeps
<1>4. currentTerm'[i] = m.term /\ state'[i] = "Follower"
  BY <1>2, <1>m, <1>t
<1>5. Retreats(i)
  <2>1. CASE m.term > currentTerm[i]
    BY <1>4, <2>1 DEF Retreats
  <2>2. CASE m.term = currentTerm[i]
    BY <1>1, <1>4, <2>2 DEF Retreats
  <2>3. currentTerm[i] \in Nat
    BY <1>m, <1>t
  <2> QED
    BY <1>m, <2>1, <2>2, <2>3
<1> QED
  BY <1>3, <1>4, <1>5

\* A request is refused, which at most makes the server follow, or it is accepted.
LEMMA StepHandleAppendEntries ==
  ASSUME TypeOK, TypeOK', RoleInv, ElectionSafety, NEW L, NEW m \in appendReqs, HandleAppendEntries(m)
  PROVE  Fade(L) \/ Accepts(m)
<1> DEFINE i == m.to
<1>m. /\ m.from \in Server /\ i \in Server /\ m.term \in Nat /\ m.from # i
      /\ m.entries \in Seq(Entry)
  BY DEF TypeOK, AppendNetTypes, AppendRequest, Term, RoleInv, SentByWinners, FromWinner
<1>t. /\ currentTerm \in [Server -> Nat] /\ log \in [Server -> Seq(Entry)]
      /\ commitIndex \in [Server -> Nat]
  BY DEF TypeOK, NodeTypes, LogTypes, Term
<1>u. /\ UNCHANGED <<wins, votes, committed, preempted, voteReqs, beats>>
      /\ appendReqs' \subseteq appendReqs
  BY DEF HandleAppendEntries, voteNet, goVars, histVars
<1>1. CASE /\ UNCHANGED <<nodeVars, leaderVars, commitIndex>>
           /\ appendResps' = appendResps \cup {AppendReply(m, currentTerm[i], FALSE, 0)}
  <2>1. \A x \in appendResps' : x \in appendResps \/ ~x.success
    BY <1>1 DEF AppendReply
  <2>2. UNCHANGED <<state, currentTerm, log, matchIndex, commitIndex>>
    BY <1>1 DEF nodeVars, leaderVars
  <2> QED
    BY <1>u, <2>1, <2>2 DEF Fade, Keeps
<1>2. CASE /\ m.term >= currentTerm[i] /\ AdoptTerm(m, i)
           /\ UNCHANGED <<log, commitIndex>>
           /\ appendResps' = appendResps \cup {AppendReply(m, m.term, FALSE, ConflictIndex(m, i))}
  <2>1. \A x \in appendResps' : x \in appendResps \/ ~x.success
    BY <1>2 DEF AppendReply
  <2>2. \A j \in Server : Keeps(j) \/ Retreats(j)
    BY <1>2, AdoptTermRetreats
  <2> QED
    BY <1>u, <1>2, <2>1, <2>2 DEF Fade
<1>3. CASE /\ m.term >= currentTerm[i] /\ PrevMatches(m, i) /\ AdoptTerm(m, i)
           /\ log' = [log EXCEPT ![i] = ApplyLogEntries(m, i)]
           /\ commitIndex' = [commitIndex EXCEPT ![i] = FollowerCommit(m, i, ApplyLogEntries(m, i))]
           /\ appendResps' = appendResps \cup {AppendReply(m, m.term, TRUE, 0)}
  <2>1. /\ currentTerm'[i] = m.term /\ state'[i] = "Follower"
        /\ \A j \in Server : Keeps(j) \/ Retreats(j)
        /\ \A j \in Server \ {i} : Keeps(j)
    BY <1>3, AdoptTermRetreats
  <2>2. \A j \in Server : state'[j] = "Leader" => commitIndex'[j] = commitIndex[j]
    BY <1>3, <1>t, <2>1
  <2>3. CASE m.entries = << >>
    <3>1. ApplyLogEntries(m, i) = log[i]
      BY <2>3 DEF ApplyLogEntries
    <3>2. log' = log
      BY <1>3, <1>t, <3>1
    <3>3. \A x \in appendResps' : x \in appendResps \/ x.lastSent = 0
      BY <1>3, <2>3 DEF AppendReply
    <3> QED
      BY <1>u, <2>1, <2>2, <3>2, <3>3 DEF Fade
  <2>4. CASE m.entries # << >>
    BY <1>3, <1>u, <2>1, <2>2, <2>4 DEF Accepts
  <2> QED
    BY <2>3, <2>4
<1> QED
  BY <1>1, <1>2, <1>3 DEF HandleAppendEntries

\* An answer is dropped or makes the leader follow, or it confirms a replication.
LEMMA StepHandleAppendResponse ==
  ASSUME TypeOK, TypeOK', NEW L, NEW m \in appendResps, HandleAppendResponse(m)
  PROVE  Fade(L) \/ Confirms(m)
<1> DEFINE i == m.to
<1>m. m.from \in Server /\ i \in Server /\ m.term \in Nat
  BY DEF TypeOK, AppendNetTypes, AppendResponse, Term
<1>t. /\ currentTerm \in [Server -> Nat] /\ state \in [Server -> {"Follower", "Candidate", "Leader"}]
      /\ matchIndex \in [Server -> [Server -> Nat]] /\ commitIndex \in [Server -> Nat]
  BY DEF TypeOK, NodeTypes, LeaderTypes, LogTypes, Term
<1>u. /\ UNCHANGED <<log, wins, votes, preempted, voteReqs, appendReqs, beats>>
      /\ appendResps' = appendResps \ {m}
  BY DEF HandleAppendResponse, voteNet, goVars
<1>1. CASE m.term > currentTerm[i] /\ StepDown(i, m.term) /\ UNCHANGED <<commitIndex, committed>>
  <2>1. \A j \in Server : Keeps(j) \/ Retreats(j)
    BY <1>1, <1>m, <1>t DEF StepDown, SetLeaderState, Keeps, Retreats
  <2> QED
    BY <1>1, <1>u, <2>1 DEF Fade
<1>2. CASE UNCHANGED <<state, currentTerm, matchIndex, commitIndex, committed>>
  BY <1>2, <1>u DEF Fade, Keeps
<1>3. CASE /\ ~Ignored(m) /\ m.success
           /\ matchIndex' = [matchIndex EXCEPT ![i][m.from] = m.lastSent]
           /\ TryAdvanceCommitIndex(i, matchIndex'[i])
           /\ UNCHANGED <<state, currentTerm, votedFor>>
  BY <1>3, <1>u DEF Confirms, Ignored
<1> QED
  BY <1>1, <1>2, <1>3 DEF HandleAppendResponse, leaderVars

\* applyCommittedEntries leaves logs, terms and commit indices alone.
LEMMA StepApplyCommittedEntries ==
  ASSUME TypeOK, NEW L, NEW i \in Server, ApplyCommittedEntries(i)
  PROVE  Fade(L)
BY NothingFades
DEF ApplyCommittedEntries, nodeVars, leaderVars, voteNet, appendNet, goVars, histVars

\* Every step of a cluster that stays calm is one of these.
LEMMA StepsCovered ==
  ASSUME TypeOK, TypeOK', ElectionInv, ElectionSafety, RoleInv, Calm, Calm', NEW L, LeaderLogs(L),
         [Next]_vars
  PROVE  StepsOf(L)
<1>0. restarts = 0
  BY DEF Calm
<1>1. CASE UNCHANGED vars
  <2>1. Fade(L)
    BY <1>1, NothingFades
    DEF vars, nodeVars, commitVars, leaderVars, voteNet, appendNet, goVars, histVars
  <2> QED
    BY <2>1 DEF StepsOf
<1>2. CASE \E i \in Server : StartElection(i)
  BY <1>2, StepStartElection DEF StepsOf
<1>3. CASE \E m \in voteReqs : HandleRequestVote(m)
  BY <1>0, <1>3, StepHandleRequestVote DEF StepsOf
<1>4. CASE \E m \in voteResps : HandleVoteResponse(m)
  BY <1>4, StepHandleVoteResponse DEF StepsOf
<1>5. CASE \E i \in Server : BecomeLeader(i)
  BY <1>0, <1>5, StepBecomeLeader DEF StepsOf
<1>6. CASE \E i \in Server : ElectionCompletes(i)
  BY <1>6, StepElectionCompletes DEF StepsOf
<1>7. CASE \E i \in Server : AppendNoOpEntry(i)
  BY <1>7, StepAppendNoOpEntry DEF StepsOf
<1>8. CASE \E i \in Server, v \in Value : AppendLogEntry(i, v)
  BY <1>8, StepAppendLogEntry DEF StepsOf
<1>9. CASE \E i \in Server : \E j \in Peers(i) : ReplicateToPeer(i, j)
  BY <1>9, StepReplicateToPeer DEF StepsOf
<1>10. CASE \E i \in Server : \E j \in Peers(i) : PreemptAfterCheck(i, j)
  BY <1>10 DEF PreemptAfterCheck, Calm
<1>11. CASE \E p \in preempted : SendAfterPreemption(p)
  BY <1>11 DEF RoleInv, SentByWinners
<1>12. CASE \E i \in Server : SendHeartbeats(i)
  BY <1>12, StepSendHeartbeats DEF StepsOf
<1>13. CASE \E b \in beats : SendHeartbeatToPeer(b)
  BY <1>13, StepSendHeartbeatToPeer DEF StepsOf
<1>14. CASE \E m \in appendReqs : HandleAppendEntries(m)
  BY <1>14, StepHandleAppendEntries DEF StepsOf
<1>15. CASE \E m \in appendResps : HandleAppendResponse(m)
  BY <1>15, StepHandleAppendResponse DEF StepsOf
<1>16. CASE LoseAppend
  BY <1>16, StepLoseAppend DEF StepsOf
<1>17. CASE \E i \in Server : ApplyCommittedEntries(i)
  BY <1>17, StepApplyCommittedEntries DEF StepsOf
<1>18. CASE \E i \in Server : Restart(i)
  BY <1>18 DEF Restart, Calm
<1> QED
  BY <1>1, <1>2, <1>3, <1>4, <1>5, <1>6, <1>7, <1>8, <1>9, <1>10, <1>11, <1>12, <1>13, <1>14,
     <1>15, <1>16, <1>17, <1>18 DEF Next

-----------------------------------------------------------------------------
(* Roles *)

RolesStay ==
  /\ wins' = wins
  /\ voteReqs' \subseteq voteReqs /\ preempted' \subseteq preempted
  /\ \A i \in Server :
       \/ /\ state'[i] = state[i] /\ currentTerm'[i] = currentTerm[i]
          /\ log'[i] = log[i] \/ state[i] # "Candidate"
       \/ Retreats(i)
  /\ \A v \in votes' :
       v \in votes \/ (v.term \in 1..MaxTerm /\ v.term <= currentTerm'[v.candidate])
  /\ \A m \in appendReqs' : m \in appendReqs \/ FromWinner(m)
  /\ \A b \in beats' : b \in beats \/ FromWinner(b)

\* A step that elects nobody, and in which a candidate that stays one keeps its log, keeps the
\* roles.
LEMMA RolesStayKeeps ==
  ASSUME TypeOK, TypeOK', RoleInv, RolesStay
  PROVE  RoleInv'
<1>t. /\ \A i \in Server : currentTerm[i] \in Nat /\ currentTerm'[i] \in Nat
      /\ \A w \in wins : w.leader \in Server /\ w.term \in Nat
      /\ \A m \in voteReqs : m.from \in Server /\ m.term \in Nat
      /\ \A v \in votes : v.candidate \in Server /\ v.term \in Nat
  BY DEF TypeOK, NodeTypes, HistoryTypes, VoteNetTypes, VoteRequest, Vote, Term
<1>1. WinnersLead'
  <2>1. ASSUME NEW i \in Server, state'[i] = "Leader"
        PROVE  [leader |-> i, term |-> currentTerm'[i]] \in wins'
    <3>1. state'[i] = state[i] /\ currentTerm'[i] = currentTerm[i]
      BY <2>1 DEF RolesStay, Retreats
    <3> QED
      BY <2>1, <3>1 DEF RoleInv, WinnersLead, RolesStay
  <2>2. ASSUME NEW w \in wins'
        PROVE  /\ w.term <= currentTerm'[w.leader]
               /\ w.term = currentTerm'[w.leader] => state'[w.leader] = "Leader"
    <3>1. w \in wins /\ w.leader \in Server /\ w.term \in Nat
      BY <1>t, <2>2 DEF RolesStay
    <3>2. /\ w.term <= currentTerm[w.leader]
          /\ w.term = currentTerm[w.leader] => state[w.leader] = "Leader"
      BY <3>1 DEF RoleInv, WinnersLead
    <3>3. CASE state'[w.leader] = state[w.leader] /\ currentTerm'[w.leader] = currentTerm[w.leader]
      BY <3>2, <3>3
    <3>4. CASE Retreats(w.leader)
      <4>1. w.term < currentTerm'[w.leader]
        BY <1>t, <3>1, <3>2, <3>4 DEF Retreats
      <4> QED
        BY <1>t, <3>1, <4>1
    <3> QED
      BY <3>1, <3>3, <3>4 DEF RolesStay
  <2> QED
    BY <2>1, <2>2 DEF WinnersLead
<1>2. Campaigns'
  <2>1. ASSUME NEW m \in voteReqs'
        PROVE  /\ m.term \in 1..MaxTerm /\ m.term <= currentTerm'[m.from]
               /\ (state'[m.from] = "Candidate" /\ currentTerm'[m.from] = m.term)
                    => m.lastLogIndex = LastLogIndex(m.from)' /\ m.lastLogTerm = LastLogTerm(m.from)'
    <3>1. m \in voteReqs /\ m.from \in Server /\ m.term \in Nat
      BY <1>t, <2>1 DEF RolesStay
    <3>2. /\ m.term \in 1..MaxTerm /\ m.term <= currentTerm[m.from]
          /\ (state[m.from] = "Candidate" /\ currentTerm[m.from] = m.term)
               => m.lastLogIndex = LastLogIndex(m.from) /\ m.lastLogTerm = LastLogTerm(m.from)
      BY <3>1 DEF RoleInv, Campaigns
    <3>3. CASE /\ state'[m.from] = state[m.from] /\ currentTerm'[m.from] = currentTerm[m.from]
               /\ log'[m.from] = log[m.from] \/ state[m.from] # "Candidate"
      BY <3>1, <3>2, <3>3 DEF LastLogIndex, LastLogTerm, GetTermAtIndex
    <3>4. CASE Retreats(m.from)
      BY <1>t, <3>1, <3>2, <3>4 DEF Retreats
    <3> QED
      BY <3>1, <3>3, <3>4 DEF RolesStay
  <2>2. ASSUME NEW v \in votes', v \in votes
        PROVE  v.term \in 1..MaxTerm /\ v.term <= currentTerm'[v.candidate]
    <3>1. v \in votes /\ v.candidate \in Server /\ v.term \in Nat
      BY <1>t, <2>2 DEF RolesStay
    <3>2. v.term \in 1..MaxTerm /\ v.term <= currentTerm[v.candidate]
      BY <3>1 DEF RoleInv, Campaigns
    <3>3. currentTerm'[v.candidate] >= currentTerm[v.candidate]
      BY <1>t, <3>1 DEF RolesStay, Retreats
    <3> QED
      BY <1>t, <3>1, <3>2, <3>3
  <2> QED
    BY <2>1, <2>2 DEF Campaigns, RolesStay
<1>3. SentByWinners'
  BY DEF RoleInv, SentByWinners, RolesStay, FromWinner
<1> QED
  BY <1>1, <1>2, <1>3 DEF RoleInv

\* RoleInv is kept by a step that only lets servers follow.
LEMMA RoleFade ==
  ASSUME TypeOK, TypeOK', RoleInv, NEW L, Fade(L)
  PROVE  RoleInv'
<1>1. RolesStay
  BY DEF Fade, RolesStay, Keeps
<1> QED
  BY <1>1, RolesStayKeeps

\* RoleInv is kept when a vote is granted: its term was reached by the candidate.
LEMMA RoleGrants ==
  ASSUME TypeOK, TypeOK', RoleInv, NEW m \in voteReqs, Grants(m)
  PROVE  RoleInv'
<1>1. m.from \in Server /\ m.term \in 1..MaxTerm /\ m.term <= currentTerm[m.from] /\ m.term \in Nat
  BY DEF RoleInv, Campaigns, TypeOK, VoteNetTypes, VoteRequest, Term
<1>2. currentTerm[m.from] \in Nat /\ currentTerm'[m.from] \in Nat
  BY <1>1 DEF TypeOK, NodeTypes, Term
<1>3. m.term <= currentTerm'[m.from]
  BY <1>1, <1>2 DEF Grants, Keeps, Retreats
<1>4. RolesStay
  BY <1>1, <1>3 DEF Grants, RolesStay, Keeps
<1> QED
  BY <1>4, RolesStayKeeps

\* RoleInv is kept when a leader extends its log: no candidate's log changes.
LEMMA RoleExtends ==
  ASSUME TypeOK, TypeOK', RoleInv, NEW i \in Server, NEW v, Extends(i, v)
  PROVE  RoleInv'
<1>1. \A j \in Server : log'[j] = log[j] \/ state[j] # "Candidate"
  BY DEF Extends, TypeOK, LogTypes
<1>2. RolesStay
  BY <1>1 DEF Extends, RolesStay
<1> QED
  BY <1>2, RolesStayKeeps

\* RoleInv is kept when a request is accepted: who accepts is a follower after it.
LEMMA RoleAccepts ==
  ASSUME TypeOK, TypeOK', RoleInv, NEW m \in appendReqs, Accepts(m)
  PROVE  RoleInv'
<1>1. m.to \in Server
  BY DEF TypeOK, AppendNetTypes, AppendRequest
<1>2. \A j \in Server : \/ Keeps(j) /\ (log'[j] = log[j] \/ state[j] # "Candidate")
                        \/ Retreats(j)
  BY <1>1 DEF Accepts, Keeps, TypeOK, LogTypes
<1>3. RolesStay
  BY <1>2 DEF Accepts, RolesStay, Keeps
<1> QED
  BY <1>3, RolesStayKeeps

\* RoleInv is kept when a replication is confirmed.
LEMMA RoleConfirms ==
  ASSUME TypeOK, TypeOK', RoleInv, NEW m \in appendResps, Confirms(m)
  PROVE  RoleInv'
<1>1. RolesStay
  BY DEF Confirms, RolesStay
<1> QED
  BY <1>1, RolesStayKeeps

\* RoleInv is kept when a server stands: its requests describe its log.
LEMMA RoleStands ==
  ASSUME TypeOK, TypeOK', RoleInv, NEW i \in Server, Stands(i)
  PROVE  RoleInv'
<1>t. /\ currentTerm \in [Server -> Nat] /\ state \in [Server -> {"Follower", "Candidate", "Leader"}]
      /\ \A w \in wins : w.leader \in Server /\ w.term \in Nat
      /\ \A m \in voteReqs : m.from \in Server /\ m.term \in Nat
      /\ \A v \in votes : v.candidate \in Server /\ v.term \in Nat
      /\ MaxTerm \in Nat
  BY BoundAssumption DEF TypeOK, NodeTypes, HistoryTypes, VoteNetTypes, VoteRequest, Vote, Term
<1>1. /\ wins' = wins /\ log' = log
      /\ currentTerm'[i] = currentTerm[i] + 1 /\ state'[i] = "Candidate"
      /\ currentTerm[i] \in Nat /\ currentTerm[i] + 1 \in 1..MaxTerm
      /\ \A j \in Server \ {i} : state'[j] = state[j] /\ currentTerm'[j] = currentTerm[j]
  BY <1>t DEF Stands
<1>2. WinnersLead'
  <2>1. ASSUME NEW j \in Server, state'[j] = "Leader"
        PROVE  [leader |-> j, term |-> currentTerm'[j]] \in wins'
    BY <1>1, <2>1 DEF RoleInv, WinnersLead
  <2>2. ASSUME NEW w \in wins
        PROVE  /\ w.term <= currentTerm'[w.leader]
               /\ w.term = currentTerm'[w.leader] => state'[w.leader] = "Leader"
    <3>1. /\ w.leader \in Server /\ w.term \in Nat /\ w.term <= currentTerm[w.leader]
          /\ w.term = currentTerm[w.leader] => state[w.leader] = "Leader"
      BY <1>t, <2>2 DEF RoleInv, WinnersLead
    <3>2. CASE w.leader = i
      BY <1>1, <3>1, <3>2
    <3>3. CASE w.leader # i
      BY <1>1, <3>1, <3>3
    <3> QED
      BY <3>2, <3>3
  <2> QED
    BY <1>1, <2>1, <2>2 DEF WinnersLead
<1>3. Campaigns'
  <2>1. ASSUME NEW m \in voteReqs'
        PROVE  /\ m.term \in 1..MaxTerm /\ m.term <= currentTerm'[m.from]
               /\ (state'[m.from] = "Candidate" /\ currentTerm'[m.from] = m.term)
                    => m.lastLogIndex = LastLogIndex(m.from)' /\ m.lastLogTerm = LastLogTerm(m.from)'
    <3>0. \A j : LastLogIndex(j)' = LastLogIndex(j) /\ LastLogTerm(j)' = LastLogTerm(j)
      BY <1>1 DEF LastLogIndex, LastLogTerm, GetTermAtIndex
    <3>1. CASE m \in voteReqs
      <4>1. /\ m.from \in Server /\ m.term \in Nat
            /\ m.term \in 1..MaxTerm /\ m.term <= currentTerm[m.from]
            /\ (state[m.from] = "Candidate" /\ currentTerm[m.from] = m.term)
                 => m.lastLogIndex = LastLogIndex(m.from) /\ m.lastLogTerm = LastLogTerm(m.from)
        BY <1>t, <3>1 DEF RoleInv, Campaigns
      <4>2. CASE m.from = i
        BY <1>1, <4>1, <4>2
      <4>3. CASE m.from # i
        BY <1>1, <3>0, <4>1, <4>3
      <4> QED
        BY <4>2, <4>3
    <3>2. CASE /\ m.from = i /\ m.term = currentTerm[i] + 1
               /\ m.lastLogIndex = LastLogIndex(i) /\ m.lastLogTerm = LastLogTerm(i)
      BY <1>1, <3>0, <3>2
    <3> QED
      BY <2>1, <3>1, <3>2 DEF Stands
  <2>2. ASSUME NEW v \in votes'
        PROVE  v.term \in 1..MaxTerm /\ v.term <= currentTerm'[v.candidate]
    <3>1. CASE v \in votes
      <4>1. /\ v.candidate \in Server /\ v.term \in Nat
            /\ v.term \in 1..MaxTerm /\ v.term <= currentTerm[v.candidate]
        BY <1>t, <3>1 DEF RoleInv, Campaigns
      <4>2. currentTerm[v.candidate] \in Nat /\ currentTerm[v.candidate] <= currentTerm'[v.candidate]
        BY <1>1, <1>t, <4>1
      <4>3. currentTerm'[v.candidate] \in Nat
        BY <4>1 DEF TypeOK, NodeTypes, Term
      <4> QED
        BY <4>1, <4>2, <4>3
    <3>2. CASE v = [voter |-> i, term |-> currentTerm[i] + 1, candidate |-> i]
      BY <1>1, <3>2
    <3> QED
      BY <2>2, <3>1, <3>2 DEF Stands
  <2> QED
    BY <2>1, <2>2 DEF Campaigns
<1>4. SentByWinners'
  BY DEF RoleInv, SentByWinners, Stands, FromWinner
<1> QED
  BY <1>2, <1>3, <1>4 DEF RoleInv

\* RoleInv is kept when a candidate wins: it leads from here on.
LEMMA RoleWins ==
  ASSUME TypeOK, TypeOK', RoleInv, NEW i \in Server, Wins(i)
  PROVE  RoleInv'
<1>t. /\ currentTerm \in [Server -> Nat] /\ state \in [Server -> {"Follower", "Candidate", "Leader"}]
      /\ \A w \in wins : w.leader \in Server /\ w.term \in Nat
      /\ \A m \in voteReqs : m.from \in Server /\ m.term \in Nat
  BY DEF TypeOK, NodeTypes, HistoryTypes, VoteNetTypes, VoteRequest, Term
<1>1. /\ log' = log /\ currentTerm' = currentTerm /\ votes' = votes
      /\ wins' = wins \cup {[leader |-> i, term |-> currentTerm[i]]}
      /\ state'[i] = "Leader"
      /\ \A j \in Server \ {i} : state'[j] = state[j]
  BY <1>t DEF Wins
<1>2. WinnersLead'
  <2>1. ASSUME NEW j \in Server, state'[j] = "Leader"
        PROVE  [leader |-> j, term |-> currentTerm[j]] \in wins'
    BY <1>1, <2>1 DEF RoleInv, WinnersLead
  <2>2. ASSUME NEW w \in wins'
        PROVE  /\ w.term <= currentTerm[w.leader]
               /\ w.term = currentTerm[w.leader] => state'[w.leader] = "Leader"
    <3>1. CASE w \in wins
      BY <1>1, <1>t, <3>1 DEF RoleInv, WinnersLead
    <3>2. CASE w = [leader |-> i, term |-> currentTerm[i]]
      BY <1>1, <1>t, <3>2
    <3> QED
      BY <1>1, <2>2, <3>1, <3>2
  <2> QED
    BY <1>1, <2>1, <2>2 DEF WinnersLead
<1>3. Campaigns'
  <2>1. \A j \in Server : state'[j] = "Candidate" => state[j] = "Candidate"
    BY <1>1
  <2>2. voteReqs' \subseteq voteReqs
    BY DEF Wins
  <2>3. \A j : LastLogIndex(j)' = LastLogIndex(j) /\ LastLogTerm(j)' = LastLogTerm(j)
    BY <1>1 DEF LastLogIndex, LastLogTerm, GetTermAtIndex
  <2> QED
    BY <1>1, <1>t, <2>1, <2>2, <2>3 DEF RoleInv, Campaigns
<1>4. SentByWinners'
  BY DEF RoleInv, SentByWinners, Wins, FromWinner
<1> QED
  BY <1>2, <1>3, <1>4 DEF RoleInv

\* Every step keeps the roles.
LEMMA RoleSteps ==
  ASSUME TypeOK, TypeOK', RoleInv, NEW L, StepsOf(L)
  PROVE  RoleInv'
BY RoleFade, RoleGrants, RoleExtends, RoleAccepts, RoleConfirms, RoleStands, RoleWins DEF StepsOf

-----------------------------------------------------------------------------
(* The logs of leaders *)

Ghost == [1..MaxTerm -> Seq(Entry)]

\* What the proofs below use of TypeOK, without its record types.
LEMMA TypeFacts ==
  ASSUME TypeOK
  PROVE  /\ \A i \in Server : /\ currentTerm[i] \in Nat /\ commitIndex[i] \in Nat
                              /\ state[i] \in {"Follower", "Candidate", "Leader"}
                              /\ log[i] \in Seq(Entry) /\ Len(log[i]) \in Nat
         /\ \A w \in wins : w.leader \in Server /\ w.term \in Nat
         /\ \A m \in appendReqs :
              /\ m.from \in Server /\ m.to \in Server /\ m.term \in Nat
              /\ m.prevLogIndex \in Nat /\ m.prevLogTerm \in Nat /\ m.leaderCommit \in Nat
              /\ m.entries \in Seq(Entry) /\ Len(m.entries) \in Nat
<1>1. \A i \in Server : /\ currentTerm[i] \in Nat /\ commitIndex[i] \in Nat
                        /\ state[i] \in {"Follower", "Candidate", "Leader"}
                        /\ log[i] \in Seq(Entry) /\ Len(log[i]) \in Nat
  BY DEF TypeOK, NodeTypes, LogTypes, Term
<1>2. \A w \in wins : w.leader \in Server /\ w.term \in Nat
  BY DEF TypeOK, HistoryTypes, Term
<1>3. \A m \in appendReqs : m \in AppendRequest
  BY DEF TypeOK, AppendNetTypes
<1>4. \A m \in AppendRequest :
        /\ m.from \in Server /\ m.to \in Server /\ m.term \in Nat
        /\ m.prevLogIndex \in Nat /\ m.prevLogTerm \in Nat /\ m.leaderCommit \in Nat
        /\ m.entries \in Seq(Entry) /\ Len(m.entries) \in Nat
  BY DEF AppendRequest, Term
<1> QED
  BY <1>1, <1>2, <1>3, <1>4

\* The entries of a log have numbers as terms.
LEMMA EntriesHaveTerms ==
  ASSUME NEW s \in Seq(Entry)
  PROVE  Len(s) \in Nat /\ \A k \in 1..Len(s) : s[k] \in Entry /\ s[k].term \in Nat
<1>1. \A x \in Entry : x.term \in Nat
  BY DEF Entry, Term
<1>2. Len(s) \in Nat /\ \A k \in 1..Len(s) : s[k] \in Entry
  OBVIOUS
<1> QED
  BY <1>1, <1>2

\* The terms that have been won are terms of elections.
LEMMA WonTerms ==
  ASSUME TypeOK, ElectionInv, restarts = 0, RoleInv
  PROVE  /\ \A w \in wins : w.term \in 1..MaxTerm
         /\ \A m \in appendReqs : m.term \in 1..MaxTerm /\ Won(m.term)
         /\ \A i \in Server : state[i] = "Leader" => currentTerm[i] \in 1..MaxTerm /\ Won(currentTerm[i])
<1>1. ASSUME NEW w \in wins
      PROVE  w.term \in 1..MaxTerm
  <2>1. Voted(w.leader, w.term, w.leader)
    BY DEF ElectionInv, CountsBacked, Elected
  <2> QED
    BY <2>1 DEF Voted, RoleInv, Campaigns
<1>2. \A m \in appendReqs : [leader |-> m.from, term |-> m.term] \in wins
  BY DEF RoleInv, SentByWinners, FromWinner
<1>3. \A i \in Server : state[i] = "Leader" => [leader |-> i, term |-> currentTerm[i]] \in wins
  BY DEF RoleInv, WinnersLead
<1> QED
  BY <1>1, <1>2, <1>3 DEF Won

\* A term has one leader.
LEMMA OneLeader ==
  ASSUME ElectionSafety, RoleInv, NEW i \in Server, NEW j \in Server,
         state[i] = "Leader", state[j] = "Leader", currentTerm[i] = currentTerm[j]
  PROVE  i = j
<1>1. /\ [leader |-> i, term |-> currentTerm[i]] \in wins
      /\ [leader |-> j, term |-> currentTerm[j]] \in wins
  BY DEF RoleInv, WinnersLead
<1> QED
  BY <1>1 DEF ElectionSafety

\* Two logs made of entries of leaders, with an entry of one term at n, agree up to n.
LEMMA FollowsAgree ==
  ASSUME NEW L, NEW s \in Seq(Entry), NEW r \in Seq(Entry), Follows(s, L), Follows(r, L),
         NEW n \in 1..Len(s), n <= Len(r), s[n].term = r[n].term
  PROVE  \A k \in 1..n : s[k] = r[k]
BY SMTT(30) DEF Follows

\* What Follows and Fits say of logs of leaders stays true when these grow.
LEMMA GhostGrows ==
  ASSUME NEW L \in Ghost, NEW M \in Ghost,
         \A t \in 1..MaxTerm : Len(L[t]) <= Len(M[t]) /\ \A n \in 1..Len(L[t]) : M[t][n] = L[t][n]
  PROVE  \A s \in Seq(Entry) : Follows(s, L) => Follows(s, M)
<1> SUFFICES ASSUME NEW s \in Seq(Entry), Follows(s, L), NEW k \in 1..Len(s)
             PROVE  /\ s[k].term \in 1..MaxTerm /\ k <= Len(M[s[k].term])
                    /\ \A n \in 1..k : s[n] = M[s[k].term][n]
  BY DEF Follows
<1> DEFINE u == s[k].term
<1>1. u \in 1..MaxTerm /\ k <= Len(L[u]) /\ \A n \in 1..k : s[n] = L[u][n]
  BY DEF Follows
<1>2. Len(L[u]) \in Nat /\ Len(M[u]) \in Nat /\ k \in Nat
  BY <1>1 DEF Ghost
<1> HIDE DEF u
<1>3. Len(L[u]) <= Len(M[u]) /\ \A n \in 1..Len(L[u]) : M[u][n] = L[u][n]
  BY <1>1
<1> QED
  BY <1>1, <1>2, <1>3 DEF u

\* A request that fits a leader's log still fits it when the log has grown.
LEMMA GhostGrowsFits ==
  ASSUME TypeOK, NEW L \in Ghost, NEW M \in Ghost, NEW m \in appendReqs, m.term \in 1..MaxTerm,
         Len(L[m.term]) <= Len(M[m.term]),
         \A n \in 1..Len(L[m.term]) : M[m.term][n] = L[m.term][n],
         Fits(m, L)
  PROVE  Fits(m, M)
<1> DEFINE s == L[m.term]
           r == M[m.term]
<1>1. /\ s \in Seq(Entry) /\ r \in Seq(Entry) /\ Len(s) \in Nat /\ Len(r) \in Nat
      /\ m.prevLogIndex \in Nat /\ m.entries \in Seq(Entry) /\ Len(m.entries) \in Nat
  BY TypeFacts DEF Ghost
<1>2. ASSUME IsPartOf(m, s) PROVE IsPartOf(m, r)
  <2>0. Len(s) <= Len(r) /\ \A n \in 1..Len(s) : r[n] = s[n]
    OBVIOUS
  <2> HIDE DEF s, r
  <2>1. /\ m.prevLogIndex + Len(m.entries) <= Len(s)
        /\ \A k \in 1..Len(m.entries) : m.entries[k] = s[m.prevLogIndex + k]
        /\ m.prevLogIndex > 0 => m.prevLogTerm = s[m.prevLogIndex].term
    BY <1>2 DEF IsPartOf
  <2>2. m.prevLogIndex > 0 => s[m.prevLogIndex] = r[m.prevLogIndex]
    <3>1. m.prevLogIndex > 0 => m.prevLogIndex \in 1..Len(s)
      BY <1>1, <2>1
    <3> QED
      BY <2>0, <3>1
  <2>3. \A k \in 1..Len(m.entries) : s[m.prevLogIndex + k] = r[m.prevLogIndex + k]
    <3>1. \A k \in 1..Len(m.entries) : m.prevLogIndex + k \in 1..Len(s)
      BY <1>1, <2>1
    <3> QED
      BY <2>0, <3>1
  <2> QED
    BY <1>1, <2>0, <2>1, <2>2, <2>3 DEF IsPartOf
<1> QED
  BY <1>2 DEF Fits

\* A step that changes no log and elects nobody.
LEMMA LogsStay ==
  ASSUME TypeOK, TypeOK', NEW L \in Ghost, LeaderLogs(L), UNCHANGED <<log, wins>>,
         \A j \in Server :
           /\ currentTerm[j] <= currentTerm'[j]
           /\ state'[j] = "Leader" => state[j] = "Leader" /\ currentTerm'[j] = currentTerm[j],
         \A m \in appendReqs' : m \in appendReqs \/ Fits(m, L)
  PROVE  LeaderLogs(L)'
<1>1. \A t \in 1..MaxTerm :
        /\ Follows(L[t], L) /\ TermsUpTo(L[t], t) /\ Len(L[t]) <= MaxLogLen
        /\ ~Won(t)' => L[t] = << >>
  BY DEF LeaderLogs, Won
<1>2. \A j \in Server :
        /\ Follows(log[j], L) /\ TermsUpTo(log[j], currentTerm'[j])
        /\ state'[j] = "Leader" => log[j] = L[currentTerm'[j]]
  <2> SUFFICES ASSUME NEW j \in Server
               PROVE  /\ Follows(log[j], L) /\ TermsUpTo(log[j], currentTerm'[j])
                      /\ state'[j] = "Leader" => log[j] = L[currentTerm'[j]]
    OBVIOUS
  <2>1. /\ Follows(log[j], L) /\ TermsUpTo(log[j], currentTerm[j])
        /\ state[j] = "Leader" => log[j] = L[currentTerm[j]]
    BY DEF LeaderLogs
  <2>2. /\ currentTerm[j] \in Nat /\ currentTerm'[j] \in Nat
        /\ \A k \in 1..Len(log[j]) : log[j][k].term \in Nat
    <3>1. currentTerm[j] \in Nat /\ currentTerm'[j] \in Nat
      BY DEF TypeOK, NodeTypes, Term
    <3> QED
      BY <3>1, TypeFacts, EntriesHaveTerms
  <2>3. TermsUpTo(log[j], currentTerm'[j])
    BY <2>1, <2>2 DEF TermsUpTo
  <2> QED
    BY <2>1, <2>3
<1>3. \A m \in appendReqs' : Fits(m, L)
  BY DEF LeaderLogs
<1> QED
  BY <1>1, <1>2, <1>3 DEF LeaderLogs

\* Where servers keep their role or follow, terms grow and nobody comes to lead.
LEMMA TermsGrowWhere ==
  ASSUME TypeOK, TypeOK', \A i \in Server : Keeps(i) \/ Retreats(i)
  PROVE  \A j \in Server :
           /\ currentTerm[j] <= currentTerm'[j]
           /\ state'[j] = "Leader" => state[j] = "Leader" /\ currentTerm'[j] = currentTerm[j]
BY DEF TypeOK, NodeTypes, Term, Keeps, Retreats

\* LeaderLogs is kept by a step that only lets servers follow.
LEMMA LogsFade ==
  ASSUME TypeOK, TypeOK', NEW L \in Ghost, LeaderLogs(L), Fade(L)
  PROVE  LeaderLogs(L)'
<1>1. /\ UNCHANGED <<log, wins>>
      /\ \A i \in Server : Keeps(i) \/ Retreats(i)
      /\ \A m \in appendReqs' : m \in appendReqs \/ Fits(m, L)
  BY DEF Fade
<1> QED
  BY <1>1, TermsGrowWhere, LogsStay

\* LeaderLogs is kept when a server stands for election.
LEMMA LogsStands ==
  ASSUME TypeOK, TypeOK', NEW L \in Ghost, LeaderLogs(L), NEW i \in Server, Stands(i)
  PROVE  LeaderLogs(L)'
<1>1. UNCHANGED <<log, wins>> /\ appendReqs' = appendReqs
  BY DEF Stands
<1>2. \A j \in Server :
        /\ currentTerm[j] <= currentTerm'[j]
        /\ state'[j] = "Leader" => state[j] = "Leader" /\ currentTerm'[j] = currentTerm[j]
  <2>1. currentTerm \in [Server -> Nat] /\ state \in [Server -> {"Follower", "Candidate", "Leader"}]
    BY DEF TypeOK, NodeTypes, Term
  <2> QED
    BY <2>1 DEF Stands
<1> QED
  BY <1>1, <1>2, LogsStay

\* LeaderLogs is kept when a vote is granted.
LEMMA LogsGrants ==
  ASSUME TypeOK, TypeOK', NEW L \in Ghost, LeaderLogs(L), NEW m \in voteReqs, Grants(m)
  PROVE  LeaderLogs(L)'
<1>1. /\ UNCHANGED <<log, wins>> /\ appendReqs' = appendReqs
      /\ \A i \in Server : Keeps(i) \/ Retreats(i)
  BY DEF Grants
<1> QED
  BY <1>1, TermsGrowWhere, LogsStay

\* LeaderLogs is kept when a replication is confirmed.
LEMMA LogsConfirms ==
  ASSUME TypeOK, TypeOK', NEW L \in Ghost, LeaderLogs(L), NEW m \in appendResps, Confirms(m)
  PROVE  LeaderLogs(L)'
<1>1. UNCHANGED <<log, wins, state, currentTerm>> /\ appendReqs' = appendReqs
  BY DEF Confirms
<1>2. \A j \in Server : currentTerm[j] <= currentTerm'[j]
  BY <1>1, TypeFacts
<1> QED
  BY <1>1, <1>2, LogsStay

\* A new leader's log is the first one of its term.
LEMMA LogsWins ==
  ASSUME TypeOK, TypeOK', ElectionInv, restarts = 0, RoleInv, ElectionSafety',
         NEW L \in Ghost, LeaderLogs(L), NEW i \in Server, Wins(i)
  PROVE  /\ currentTerm[i] \in 1..MaxTerm /\ ~Won(currentTerm[i])
         /\ \E M \in Ghost : M = [L EXCEPT ![currentTerm[i]] = log[i]] /\ LeaderLogs(M)'
<1> DEFINE t == currentTerm[i]
<1>0. /\ log' = log /\ currentTerm' = currentTerm /\ appendReqs' = appendReqs
      /\ wins' = wins \cup {[leader |-> i, term |-> t]}
      /\ state' = [state EXCEPT ![i] = "Leader"]
  BY DEF Wins
<1>1. t \in 1..MaxTerm
  <2>1. Voted(i, t, i)
    BY DEF Wins, Elected
  <2> QED
    BY <2>1 DEF Voted, RoleInv, Campaigns
<1>2. ~Won(t)
  <2> SUFFICES ASSUME NEW w \in wins, w.term = t PROVE FALSE
    BY DEF Won
  <2>1. w.leader = i
    <3>1. w \in wins' /\ [leader |-> i, term |-> t] \in wins'
      BY <1>0
    <3> QED
      BY <3>1 DEF ElectionSafety
  <2>2. state[i] = "Leader"
    BY <2>1 DEF RoleInv, WinnersLead
  <2> QED
    BY <2>2 DEF Wins
<1>3. L[t] = << >>
  BY <1>1, <1>2 DEF LeaderLogs
<1>4. log[i] \in Seq(Entry) /\ Len(log[i]) \in Nat /\ Follows(log[i], L) /\ TermsUpTo(log[i], t)
  BY TypeFacts DEF LeaderLogs
<1>M. PICK M \in Ghost : M = [L EXCEPT ![t] = log[i]]
  BY <1>1, <1>4 DEF Ghost
<1>5. M[t] = log[i] /\ \A u \in 1..MaxTerm : u # t => M[u] = L[u]
  BY <1>1, <1>4, <1>M DEF Ghost
<1>6. \A s \in Seq(Entry) : Follows(s, L) => Follows(s, M)
  <2>1. ASSUME NEW u \in 1..MaxTerm
        PROVE  Len(L[u]) <= Len(M[u]) /\ \A n \in 1..Len(L[u]) : M[u][n] = L[u][n]
    <3>1. CASE u = t
      BY <1>3, <1>4, <1>5, <3>1
    <3>2. CASE u # t
      <4>1. M[u] = L[u] /\ Len(L[u]) \in Nat
        BY <1>5, <3>2 DEF Ghost
      <4> QED
        BY <4>1
    <3> QED
      BY <3>1, <3>2
  <2> QED
    BY <1>5, <2>1, GhostGrows
<1>7. Len(log[i]) <= MaxLogLen
  <2>1. CASE Len(log[i]) = 0
    BY <2>1, BoundAssumption
  <2>2. CASE Len(log[i]) # 0
    <3>1. Len(log[i]) \in 1..Len(log[i])
      BY <1>4, <2>2
    <3>2. PICK u \in 1..MaxTerm : Len(log[i]) <= Len(L[u])
      BY <1>4, <3>1 DEF Follows
    <3>3. Len(L[u]) <= MaxLogLen /\ Len(L[u]) \in Nat
      BY <3>2 DEF LeaderLogs, Ghost
    <3>4. MaxLogLen \in Nat
      BY BoundAssumption
    <3> QED
      BY <1>4, <3>2, <3>3, <3>4
  <2> QED
    BY <2>1, <2>2
<1>8. \A u \in 1..MaxTerm :
        /\ Follows(M[u], M) /\ TermsUpTo(M[u], u) /\ Len(M[u]) <= MaxLogLen
        /\ ~Won(u)' => M[u] = << >>
  <2> SUFFICES ASSUME NEW u \in 1..MaxTerm
               PROVE  /\ Follows(M[u], M) /\ TermsUpTo(M[u], u) /\ Len(M[u]) <= MaxLogLen
                      /\ ~Won(u)' => M[u] = << >>
    OBVIOUS
  <2>1. CASE u = t
    <3>1. Won(u)'
      <4>1. [leader |-> i, term |-> u] \in wins'
        BY <1>0, <2>1
      <4> QED
        BY <4>1 DEF Won
    <3> QED
      BY <1>4, <1>5, <1>6, <1>7, <2>1, <3>1
  <2>2. CASE u # t
    <3>1. Won(u) => Won(u)'
      BY <1>0 DEF Won
    <3>2. M[u] = L[u] /\ L[u] \in Seq(Entry)
      BY <1>5, <2>2 DEF Ghost
    <3>3. /\ Follows(L[u], L) /\ TermsUpTo(L[u], u) /\ Len(L[u]) <= MaxLogLen
          /\ ~Won(u) => L[u] = << >>
      BY DEF LeaderLogs
    <3> QED
      BY <1>6, <3>1, <3>2, <3>3
  <2> QED
    BY <2>1, <2>2
<1>9. ASSUME NEW j \in Server
      PROVE  /\ Follows(log[j], M) /\ TermsUpTo(log[j], currentTerm[j])
             /\ state'[j] = "Leader" => log[j] = M[currentTerm[j]]
  <2>1. Follows(log[j], M) /\ TermsUpTo(log[j], currentTerm[j])
    BY <1>6, TypeFacts DEF LeaderLogs
  <2>2. CASE j = i
    BY <1>5, <2>1, <2>2
  <2>3. CASE j # i
    <3>1. ASSUME state'[j] = "Leader" PROVE log[j] = M[currentTerm[j]]
      <4>1. state[j] = "Leader"
        BY <1>0, <2>3, <3>1 DEF TypeOK, NodeTypes
      <4>2. currentTerm[j] \in 1..MaxTerm /\ Won(currentTerm[j])
        BY <4>1, WonTerms
      <4> QED
        BY <1>2, <1>5, <4>1, <4>2 DEF LeaderLogs
    <3> QED
      BY <2>1, <3>1
  <2> QED
    BY <2>2, <2>3
<1>10. ASSUME NEW m \in appendReqs PROVE Fits(m, M)
  <2>1. m.term \in 1..MaxTerm /\ Won(m.term)
    BY WonTerms
  <2>2. M[m.term] = L[m.term]
    BY <1>2, <1>5, <2>1
  <2> QED
    BY <2>2 DEF LeaderLogs, Fits
<1>11. LeaderLogs(M)'
  BY <1>0, <1>8, <1>9, <1>10 DEF LeaderLogs
<1> QED
  BY <1>1, <1>2, <1>M, <1>11

\* A leader's new entry follows all that it had before.
LEMMA LogsExtends ==
  ASSUME TypeOK, TypeOK', ElectionInv, restarts = 0, RoleInv, ElectionSafety,
         NEW L \in Ghost, LeaderLogs(L), NEW i \in Server, NEW v \in Value \cup {NoOp}, Extends(i, v)
  PROVE  \E M \in Ghost :
           /\ LeaderLogs(M)'
           /\ \A u \in 1..MaxTerm :
                Len(L[u]) <= Len(M[u]) /\ \A n \in 1..Len(L[u]) : M[u][n] = L[u][n]
<1> DEFINE t == currentTerm[i]
           A == Appended(i, v)
<1>0. /\ UNCHANGED <<currentTerm, state, wins, appendReqs>>
      /\ log' = [log EXCEPT ![i] = A]
      /\ state[i] = "Leader" /\ Len(log[i]) < MaxLogLen
  BY DEF Extends, LastLogIndex
<1>1. t \in 1..MaxTerm /\ Won(t) /\ L[t] = log[i] /\ t \in Nat
  BY <1>0, WonTerms, TypeFacts DEF LeaderLogs
<1>2. log[i] \in Seq(Entry) /\ Len(log[i]) \in Nat /\ MaxLogLen \in Nat
  BY TypeFacts, BoundAssumption
<1>3. /\ A \in Seq(Entry) /\ Len(A) = Len(log[i]) + 1
      /\ \A n \in 1..Len(log[i]) : A[n] = log[i][n]
      /\ A[Len(log[i]) + 1].term = t
  <2>1. [term |-> t, value |-> v] \in Entry
    BY <1>1 DEF Entry, Term
  <2> QED
    BY <1>2, <2>1 DEF Appended
<1> HIDE DEF A
<1>M. PICK M \in Ghost : M = [L EXCEPT ![t] = A]
  BY <1>1, <1>3 DEF Ghost
<1>4. M[t] = A /\ \A u \in 1..MaxTerm : u # t => M[u] = L[u]
  BY <1>1, <1>3, <1>M DEF Ghost
<1>5. ASSUME NEW u \in 1..MaxTerm
      PROVE  Len(L[u]) <= Len(M[u]) /\ \A n \in 1..Len(L[u]) : M[u][n] = L[u][n]
  <2>1. CASE u = t
    BY <1>1, <1>2, <1>3, <1>4, <2>1
  <2>2. CASE u # t
    <3>1. M[u] = L[u] /\ Len(L[u]) \in Nat
      BY <1>4, <2>2 DEF Ghost
    <3> QED
      BY <3>1
  <2> QED
    BY <2>1, <2>2
<1>6. \A s \in Seq(Entry) : Follows(s, L) => Follows(s, M)
  BY <1>4, <1>5, GhostGrows
<1>7. Follows(A, M) /\ TermsUpTo(A, t) /\ Len(A) <= MaxLogLen
  <2>1. Follows(log[i], M) /\ TermsUpTo(log[i], t)
    BY <1>2, <1>6 DEF LeaderLogs
  <2>2. ASSUME NEW k \in 1..Len(A)
        PROVE  /\ A[k].term \in 1..MaxTerm /\ k <= Len(M[A[k].term])
               /\ \A n \in 1..k : A[n] = M[A[k].term][n]
               /\ A[k].term <= t
    <3>1. CASE k = Len(log[i]) + 1
      BY <1>1, <1>2, <1>3, <1>4, <3>1
    <3>2. CASE k \in 1..Len(log[i])
      <4>1. A[k] = log[i][k] /\ \A n \in 1..k : A[n] = log[i][n]
        BY <1>2, <1>3, <3>2
      <4>2. /\ log[i][k].term \in 1..MaxTerm /\ k <= Len(M[log[i][k].term])
            /\ \A n \in 1..k : log[i][n] = M[log[i][k].term][n]
            /\ log[i][k].term <= t
        BY <2>1, <3>2 DEF Follows, TermsUpTo
      <4> QED
        BY <4>1, <4>2
    <3>3. k = Len(log[i]) + 1 \/ k \in 1..Len(log[i])
      BY <1>2, <1>3
    <3> QED
      BY <3>1, <3>2, <3>3
  <2>3. Len(A) <= MaxLogLen
    BY <1>0, <1>2, <1>3
  <2> QED
    BY <2>2, <2>3 DEF Follows, TermsUpTo
<1>8. ASSUME NEW u \in 1..MaxTerm
      PROVE  /\ Follows(M[u], M) /\ TermsUpTo(M[u], u) /\ Len(M[u]) <= MaxLogLen
             /\ ~Won(u)' => M[u] = << >>
  <2>0. Won(u)' = Won(u)
    BY <1>0 DEF Won
  <2>1. CASE u = t
    BY <1>1, <1>4, <1>7, <2>0, <2>1
  <2>2. CASE u # t
    <3>1. M[u] = L[u] /\ L[u] \in Seq(Entry)
      BY <1>4, <2>2 DEF Ghost
    <3>2. /\ Follows(L[u], L) /\ TermsUpTo(L[u], u) /\ Len(L[u]) <= MaxLogLen
          /\ ~Won(u) => L[u] = << >>
      BY DEF LeaderLogs
    <3> QED
      BY <1>6, <2>0, <3>1, <3>2
  <2> QED
    BY <2>1, <2>2
<1>9. ASSUME NEW j \in Server
      PROVE  /\ Follows(log'[j], M) /\ TermsUpTo(log'[j], currentTerm[j])
             /\ state[j] = "Leader" => log'[j] = M[currentTerm[j]]
  <2>1. CASE j = i
    <3>1. log'[i] = A
      BY <1>0 DEF TypeOK, LogTypes
    <3> QED
      BY <1>4, <1>7, <2>1, <3>1
  <2>2. CASE j # i
    <3>1. log'[j] = log[j]
      BY <1>0, <2>2 DEF TypeOK, LogTypes
    <3>2. Follows(log[j], M) /\ TermsUpTo(log[j], currentTerm[j])
      BY <1>6, TypeFacts DEF LeaderLogs
    <3>3. ASSUME state[j] = "Leader" PROVE log[j] = M[currentTerm[j]]
      <4>1. currentTerm[j] # t
        BY <1>0, <2>2, <3>3, OneLeader
      <4>2. currentTerm[j] \in 1..MaxTerm
        BY <3>3, WonTerms
      <4> QED
        BY <1>4, <3>3, <4>1, <4>2 DEF LeaderLogs
    <3> QED
      BY <3>1, <3>2, <3>3
  <2> QED
    BY <2>1, <2>2
<1>10. ASSUME NEW m \in appendReqs PROVE Fits(m, M)
  <2>1. m.term \in 1..MaxTerm /\ Fits(m, L)
    BY WonTerms DEF LeaderLogs
  <2> QED
    BY <1>4, <1>5, <2>1, GhostGrowsFits
<1>11. LeaderLogs(M)'
  BY <1>0, <1>8, <1>9, <1>10 DEF LeaderLogs
<1> QED
  BY <1>5, <1>11

\* What a concatenation of logs holds.
LEMMA ConcatFacts ==
  ASSUME NEW b \in Seq(Entry), NEW c \in Seq(Entry)
  PROVE  /\ b \o c \in Seq(Entry) /\ Len(b \o c) = Len(b) + Len(c)
         /\ \A n \in 1..Len(b) : (b \o c)[n] = b[n]
         /\ \A n \in (Len(b) + 1)..(Len(b) + Len(c)) : (b \o c)[n] = c[n - Len(b)]
OBVIOUS

\* What applyLogEntries leaves, when the previous entry matched and the request carries a part
\* of a leader's log: the log as it was, if it agrees with the leader's up to the last entry of
\* the request, else the leader's log up to there.
LEMMA FollowerLog ==
  ASSUME TypeOK, NEW L \in Ghost, NEW m \in appendReqs, m.term \in 1..MaxTerm,
         IsPartOf(m, L[m.term]), Follows(L[m.term], L), Follows(log[m.to], L),
         PrevMatches(m, m.to), m.entries # << >>
  PROVE  LET s == L[m.term]
             r == log[m.to]
             e == m.prevLogIndex + Len(m.entries)
             a == ApplyLogEntries(m, m.to)
         IN  /\ e \in 1..Len(s) /\ a \in Seq(Entry) /\ e <= Len(a) /\ \A n \in 1..e : a[n] = s[n]
             /\ \/ a = r
                \/ /\ Len(a) = e
                   /\ \E n \in 1..e : n > Len(r) \/ r[n].term # s[n].term
<1> DEFINE s == L[m.term]
           i == m.to
           r == log[i]
           prev == m.prevLogIndex
           e == prev + Len(m.entries)
           new == {k \in 1..Len(m.entries) :
                     prev + k > LastLogIndex(i) \/ log[i][prev + k].term # m.entries[k].term}
<1>1. /\ s \in Seq(Entry) /\ r \in Seq(Entry) /\ Len(s) \in Nat /\ Len(r) \in Nat
      /\ i \in Server /\ prev \in Nat /\ m.entries \in Seq(Entry) /\ Len(m.entries) \in Nat
      /\ Len(m.entries) >= 1 /\ LastLogIndex(i) = Len(r)
  BY TypeFacts DEF Ghost, LastLogIndex
<1>2. /\ e <= Len(s) /\ \A k \in 1..Len(m.entries) : m.entries[k] = s[prev + k]
      /\ prev > 0 => m.prevLogTerm = s[prev].term
  BY DEF IsPartOf
<1>e. e \in 1..Len(s)
  BY <1>1, <1>2
<1>3. ASSUME NEW n \in 1..Len(r), n <= Len(s), r[n].term = s[n].term
      PROVE  \A k \in 1..n : r[k] = s[k]
  <2> HIDE DEF s, r
  <2>1. Follows(s, L) /\ Follows(r, L)
    BY DEF s, r
  <2> QED
    BY <1>1, <1>3, <2>1, FollowsAgree
<1>4. prev <= Len(r) /\ \A k \in 1..prev : r[k] = s[k]
  <2>1. CASE prev = 0
    BY <1>1, <2>1
  <2>2. CASE prev # 0
    <3>1. prev <= Len(r) /\ r[prev].term = m.prevLogTerm
      BY <1>1, <2>2 DEF PrevMatches, GetTermAtIndex, LastLogIndex
    <3>2. prev \in 1..Len(r) /\ prev <= Len(s) /\ r[prev].term = s[prev].term
      BY <1>1, <1>2, <2>2, <3>1
    <3> HIDE DEF prev, s, r
    <3> QED
      BY <1>3, <3>2
  <2> QED
    BY <2>1, <2>2
<1>5. CASE new = {}
  <2>1. ApplyLogEntries(m, i) = r
    BY <1>5 DEF ApplyLogEntries
  <2>2. Len(m.entries) \notin new /\ Len(m.entries) \in 1..Len(m.entries)
    BY <1>1, <1>5
  <2>3. ~(e > LastLogIndex(i)) /\ r[e].term = m.entries[Len(m.entries)].term
    BY <2>2
  <2>4. m.entries[Len(m.entries)] = s[e]
    BY <1>2, <2>2
  <2>5. e \in 1..Len(r) /\ e <= Len(s) /\ r[e].term = s[e].term
    <3> HIDE DEF s, r
    <3> QED
      BY <1>1, <1>2, <2>3, <2>4
  <2>6. \A n \in 1..e : r[n] = s[n]
    <3> HIDE DEF e, r, s
    <3> QED
      BY <1>3, <2>5
  <2> HIDE DEF e, s
  <2> QED
    BY <1>1, <1>e, <2>1, <2>5, <2>6 DEF e, s
<1>6. CASE new # {}
  <2>k. PICK k \in new : k = Min(new) /\ \A n \in new : k <= n
    <3>1. new \subseteq Nat
      BY <1>1
    <3> HIDE DEF new
    <3> QED
      BY <1>6, <3>1, MinType
  <2>1. k \in 1..Len(m.entries) /\ (prev + k > Len(r) \/ r[prev + k].term # m.entries[k].term)
    BY <1>1, <2>k
  <2>2. prev + k - 1 <= Len(r) /\ \A n \in 1..(prev + k - 1) : r[n] = s[n]
    <3>1. CASE k = 1
      BY <1>1, <1>4, <3>1
    <3>2. CASE k > 1
      <4>1. k - 1 \notin new /\ k - 1 \in 1..Len(m.entries)
        <5> HIDE DEF new
        <5> QED
          BY <1>1, <2>1, <2>k, <3>2
      <4>2. ~(prev + (k - 1) > LastLogIndex(i)) /\ r[prev + (k - 1)].term = m.entries[k - 1].term
        BY <4>1
      <4>3. m.entries[k - 1] = s[prev + (k - 1)]
        BY <1>2, <4>1
      <4>4. /\ prev + (k - 1) \in 1..Len(r) /\ prev + (k - 1) <= Len(s)
            /\ r[prev + (k - 1)].term = s[prev + (k - 1)].term
            /\ prev + k - 1 = prev + (k - 1)
        <5> HIDE DEF s, r
        <5> QED
          BY <1>1, <1>2, <2>1, <4>1, <4>2, <4>3
      <4> HIDE DEF s, r, new
      <4> QED
        BY SMTT(30), <1>1, <1>3, <4>4
    <3> QED
      BY <2>1, <3>1, <3>2
  <2> DEFINE a == SubSeq(r, 1, prev + k - 1) \o SubSeq(m.entries, k, Len(m.entries))
  <2>3. ApplyLogEntries(m, i) = a
    BY <1>6, <2>k DEF ApplyLogEntries
  <2>4. /\ Len(a) = e /\ a \in Seq(Entry)
        /\ \A n \in 1..(prev + k - 1) : a[n] = r[n]
        /\ \A n \in (prev + k)..e : a[n] = m.entries[n - prev]
    <3> DEFINE b == SubSeq(r, 1, prev + k - 1)
               c == SubSeq(m.entries, k, Len(m.entries))
    <3> HIDE DEF r, new
    <3>1. b \in Seq(Entry) /\ Len(b) = prev + k - 1 /\ \A n \in 1..(prev + k - 1) : b[n] = r[n]
      BY <1>1, <2>1, <2>2
    <3>2. /\ c \in Seq(Entry) /\ Len(c) = Len(m.entries) - k + 1
          /\ \A n \in 1..(Len(m.entries) - k + 1) : c[n] = m.entries[k + n - 1]
      BY <1>1, <2>1
    <3> HIDE DEF b, c
    <3>3. /\ b \o c \in Seq(Entry) /\ Len(b \o c) = Len(b) + Len(c)
          /\ \A n \in 1..Len(b) : (b \o c)[n] = b[n]
          /\ \A n \in (Len(b) + 1)..(Len(b) + Len(c)) : (b \o c)[n] = c[n - Len(b)]
      BY <3>1, <3>2, ConcatFacts
    <3>4. Len(b) + Len(c) = e
      <4>1. \A p, j, l \in Nat : (p + j - 1) + (l - j + 1) = p + l
        OBVIOUS
      <4>2. prev \in Nat /\ k \in Nat /\ Len(m.entries) \in Nat
        BY <1>1, <2>1
      <4> HIDE DEF prev
      <4>3. (prev + k - 1) + (Len(m.entries) - k + 1) = prev + Len(m.entries)
        BY <4>1, <4>2
      <4> QED
        BY <3>1, <3>2, <4>3
    <3>5. ASSUME NEW n \in (prev + k)..e PROVE (b \o c)[n] = m.entries[n - prev]
      <4>1. /\ n \in (Len(b) + 1)..(Len(b) + Len(c))
            /\ n - Len(b) \in 1..(Len(m.entries) - k + 1) /\ k + (n - Len(b)) - 1 = n - prev
        <5>1. /\ prev \in Nat /\ k \in Nat /\ Len(m.entries) \in Nat /\ n \in Int
              /\ prev + k <= n /\ n <= prev + Len(m.entries)
              /\ Len(b) = prev + k - 1 /\ Len(c) = Len(m.entries) - k + 1
          BY <1>1, <2>1, <3>1, <3>2
        <5>2. n \in (Len(b) + 1)..(Len(b) + Len(c))
          <6>1. Len(b) + 1 = prev + k
            BY <5>1
          <6> QED
            BY <3>4, <3>5, <6>1
        <5> HIDE DEF prev
        <5>3. n - Len(b) \in 1..(Len(m.entries) - k + 1)
          BY <5>1
        <5>4. k + (n - Len(b)) - 1 = n - prev
          BY <5>1
        <5> QED
          BY <5>2, <5>3, <5>4
      <4> QED
        BY <3>2, <3>3, <4>1
    <3> QED
      BY <3>1, <3>3, <3>4, <3>5 DEF b, c
  <2> HIDE DEF a
  <2>5. ASSUME NEW n \in 1..e PROVE a[n] = s[n]
    <3>1. CASE n <= prev + k - 1
      <4>1. n \in 1..(prev + k - 1)
        BY <1>1, <2>1, <3>1
      <4> HIDE DEF s, r
      <4> QED
        BY <2>2, <2>4, <4>1
    <3>2. CASE ~(n <= prev + k - 1)
      <4>1. n \in (prev + k)..e /\ n - prev \in 1..Len(m.entries) /\ prev + (n - prev) = n
        BY SMTT(30), <1>1, <2>1, <3>2
      <4> HIDE DEF s, r, e
      <4> QED
        BY <1>2, <2>4, <4>1
    <3> QED
      BY <3>1, <3>2
  <2>6. prev + k \in 1..e /\ (prev + k > Len(r) \/ r[prev + k].term # s[prev + k].term)
    <3>1. m.entries[k] = s[prev + k]
      BY <1>2, <2>1
    <3>2. prev + k \in 1..e
      BY <1>1, <2>1
    <3> HIDE DEF s, r, e
    <3> QED
      BY <2>1, <3>1, <3>2
  <2>7. e <= Len(a)
    BY <1>e, <2>4
  <2> HIDE DEF e, s, r
  <2> QED
    BY <1>e, <2>3, <2>4, <2>5, <2>6, <2>7 DEF e, s, r
<1> QED
  BY <1>5, <1>6

\* The log of a server that accepts a request, as far as leaders are concerned.
LEMMA AcceptedLog ==
  ASSUME TypeOK, ElectionInv, restarts = 0, RoleInv, NEW L \in Ghost, LeaderLogs(L),
         NEW m \in appendReqs, Accepts(m)
  PROVE  LET s == L[m.term]
             r == log[m.to]
             e == m.prevLogIndex + Len(m.entries)
             a == log'[m.to]
         IN  /\ m.term \in 1..MaxTerm
             /\ e \in 1..Len(s) /\ a \in Seq(Entry) /\ e <= Len(a) /\ \A n \in 1..e : a[n] = s[n]
             /\ \/ a = r
                \/ /\ Len(a) = e
                   /\ \E n \in 1..e : n > Len(r) \/ r[n].term # s[n].term
<1>1. m.term \in 1..MaxTerm /\ m.to \in Server
  BY WonTerms, TypeFacts
<1>2. IsPartOf(m, L[m.term])
  BY <1>1 DEF LeaderLogs, Fits, Accepts
<1>3. Follows(L[m.term], L) /\ Follows(log[m.to], L)
  BY <1>1 DEF LeaderLogs
<1>4. PrevMatches(m, m.to) /\ m.entries # << >>
  BY DEF Accepts
<1>5. log'[m.to] = ApplyLogEntries(m, m.to)
  BY <1>1 DEF Accepts, TypeOK, LogTypes
<1> QED
  BY <1>1, <1>2, <1>3, <1>4, <1>5, FollowerLog

\* LeaderLogs is kept when a request is accepted: what processAppendEntries stores is the
\* log it had up to the first conflict, and the leader's from there on.
LEMMA LogsAccepts ==
  ASSUME TypeOK, TypeOK', ElectionInv, restarts = 0, RoleInv, NEW L \in Ghost, LeaderLogs(L),
         NEW m \in appendReqs, Accepts(m)
  PROVE  LeaderLogs(L)'
<1> DEFINE i == m.to
           s == L[m.term]
           a == log'[i]
           e == m.prevLogIndex + Len(m.entries)
<1>0. /\ wins' = wins /\ appendReqs' \subseteq appendReqs
      /\ currentTerm'[i] = m.term /\ state'[i] = "Follower" /\ m.term >= currentTerm[i]
      /\ \A j \in Server : Keeps(j) \/ Retreats(j)
  BY DEF Accepts
<1>1. /\ i \in Server /\ m.term \in 1..MaxTerm /\ a \in Seq(Entry) /\ log[i] \in Seq(Entry)
      /\ s \in Seq(Entry) /\ m.term \in Nat /\ currentTerm[i] \in Nat /\ e \in 1..Len(s)
  BY AcceptedLog, TypeFacts DEF Ghost
<1>2. a = log[i] \/ (Len(a) = e /\ \A n \in 1..e : a[n] = s[n])
  BY AcceptedLog
<1>3. /\ Follows(log[i], L) /\ TermsUpTo(log[i], currentTerm[i])
      /\ Follows(s, L) /\ TermsUpTo(s, m.term)
  BY <1>1 DEF LeaderLogs
<1>4. Follows(a, L) /\ TermsUpTo(a, m.term)
  <2>1. CASE a = log[i]
    <3>1. \A k \in 1..Len(log[i]) : log[i][k].term \in Nat
      BY <1>1, EntriesHaveTerms
    <3>2. TermsUpTo(log[i], m.term)
      BY <1>0, <1>1, <1>3, <3>1 DEF TermsUpTo
    <3> QED
      BY <1>3, <2>1, <3>2
  <2>2. CASE Len(a) = e /\ \A n \in 1..e : a[n] = s[n]
    <3>1. ASSUME NEW k \in 1..Len(a)
          PROVE  /\ a[k].term \in 1..MaxTerm /\ k <= Len(L[a[k].term])
                 /\ \A n \in 1..k : a[n] = L[a[k].term][n]
                 /\ a[k].term <= m.term
      <4>1. k \in 1..Len(s) /\ \A n \in 1..k : n \in 1..e
        <5> HIDE DEF a, e, s
        <5> QED
          BY <1>1, <2>2
      <4>2. a[k] = s[k] /\ \A n \in 1..k : a[n] = s[n]
        <5> HIDE DEF a, e, s
        <5> QED
          BY <2>2, <4>1
      <4>3. /\ s[k].term \in 1..MaxTerm /\ k <= Len(L[s[k].term])
            /\ \A n \in 1..k : s[n] = L[s[k].term][n]
            /\ s[k].term <= m.term
        BY <1>3, <4>1 DEF Follows, TermsUpTo
      <4> HIDE DEF a, s
      <4> QED
        BY <4>2, <4>3
    <3> QED
      BY <3>1 DEF Follows, TermsUpTo
  <2> QED
    BY <1>2, <2>1, <2>2
<1>5. ASSUME NEW j \in Server
      PROVE  /\ Follows(log'[j], L) /\ TermsUpTo(log'[j], currentTerm'[j])
             /\ state'[j] = "Leader" => log'[j] = L[currentTerm'[j]]
  <2>1. CASE j = i
    BY <1>0, <1>4, <2>1
  <2>2. CASE j # i
    <3>1. log'[j] = log[j]
      BY <2>2 DEF Accepts, TypeOK, LogTypes
    <3>2. /\ Follows(log[j], L) /\ TermsUpTo(log[j], currentTerm[j])
          /\ state[j] = "Leader" => log[j] = L[currentTerm[j]]
      BY DEF LeaderLogs
    <3>3. /\ currentTerm[j] <= currentTerm'[j]
          /\ state'[j] = "Leader" => state[j] = "Leader" /\ currentTerm'[j] = currentTerm[j]
      BY <1>0, TermsGrowWhere
    <3>4. /\ \A k \in 1..Len(log[j]) : log[j][k].term \in Nat
          /\ currentTerm[j] \in Nat /\ currentTerm'[j] \in Nat
      <4>1. currentTerm'[j] \in Nat
        BY DEF TypeOK, NodeTypes, Term
      <4> QED
        BY <4>1, TypeFacts, EntriesHaveTerms
    <3>5. TermsUpTo(log[j], currentTerm'[j])
      BY <3>2, <3>3, <3>4 DEF TermsUpTo
    <3> QED
      BY <3>1, <3>2, <3>3, <3>5
  <2> QED
    BY <2>1, <2>2
<1>6. \A t \in 1..MaxTerm :
        /\ Follows(L[t], L) /\ TermsUpTo(L[t], t) /\ Len(L[t]) <= MaxLogLen
        /\ ~Won(t)' => L[t] = << >>
  BY <1>0 DEF LeaderLogs, Won
<1>7. \A x \in appendReqs' : Fits(x, L)
  BY <1>0 DEF LeaderLogs
<1> QED
  BY <1>5, <1>6, <1>7 DEF LeaderLogs

-----------------------------------------------------------------------------
(* What is secured stays so *)

\* The terms in a log never go down, and an entry of a later term follows all that its leader
\* had at its place.
LEMMA TermsOrdered ==
  ASSUME TypeOK, NEW L \in Ghost, LeaderLogs(L), NEW s \in Seq(Entry), Follows(s, L),
         NEW n \in 1..Len(s), NEW k \in 1..n
  PROVE  s[n].term \in 1..MaxTerm /\ s[k].term \in Nat /\ s[k].term <= s[n].term
<1> DEFINE u == s[n].term
<1>1. u \in 1..MaxTerm /\ n <= Len(L[u]) /\ \A x \in 1..n : s[x] = L[u][x]
  BY DEF Follows
<1>2. TermsUpTo(L[u], u) /\ Len(L[u]) \in Nat
  BY <1>1 DEF LeaderLogs, Ghost
<1>3. k \in 1..Len(L[u]) /\ s[k] = L[u][k] /\ k \in 1..Len(s)
  <2>1. Len(s) \in Nat
    OBVIOUS
  <2> HIDE DEF u
  <2> QED
    BY <1>1, <1>2, <2>1
<1>4. s[k].term <= u
  BY <1>2, <1>3 DEF TermsUpTo
<1> QED
  BY <1>1, <1>3, <1>4, EntriesHaveTerms

\* What has to be shown of a step for an entry to stay secured.
LEMMA SecuredFrame ==
  ASSUME TypeOK, TypeOK', NEW L, NEW M, NEW t \in Nat, NEW k \in Nat, Secured(L, t, k),
         Has(M[t], k, t),
         \A q \in Server : /\ currentTerm[q] <= currentTerm'[q]
                           /\ currentTerm[q] >= t /\ Has(log[q], k, t) => Has(log'[q], k, t),
         \A u \in 1..MaxTerm : u > t /\ Won(u)' => Has(M[u], k, t),
         \A v \in votes' :
           /\ v.term > t /\ v.voter # v.candidate
           /\ state'[v.candidate] = "Candidate" /\ currentTerm'[v.candidate] = v.term
           => Has(log'[v.candidate], k, t)
  PROVE  Secured(M, t, k)'
<1>1. PICK r \in Server : \A q \in Server \ {r} : currentTerm[q] >= t /\ Has(log[q], k, t)
  BY DEF Secured
<1>2. \A q \in Server : currentTerm[q] \in Nat /\ currentTerm'[q] \in Nat
  BY DEF TypeOK, NodeTypes, Term
<1>3. \A q \in Server \ {r} : currentTerm'[q] >= t /\ Has(log'[q], k, t)
  BY <1>1, <1>2
<1>4. Has(M[t], k, t)' <=> Has(M[t], k, t)
  BY DEF Has
<1>5. \A u \in 1..MaxTerm : Has(M[u], k, t)' <=> Has(M[u], k, t)
  BY DEF Has
<1>6. \A q : Has(log[q], k, t)' <=> Has(log'[q], k, t)
  BY DEF Has
<1> QED
  BY <1>3, <1>4, <1>5, <1>6 DEF Secured

\* A step that changes no log, elects nobody and grants no vote.
LEMMA SecuredStay ==
  ASSUME TypeOK, TypeOK', NEW L, NEW t \in Nat, NEW k \in Nat, Secured(L, t, k),
         UNCHANGED <<log, wins>>,
         \A q \in Server : currentTerm[q] <= currentTerm'[q],
         \A v \in votes' :
           /\ v.term > t /\ v.voter # v.candidate
           /\ state'[v.candidate] = "Candidate" /\ currentTerm'[v.candidate] = v.term
           => Has(log[v.candidate], k, t)
  PROVE  Secured(L, t, k)'
<1>1. \A u \in 1..MaxTerm : u > t /\ Won(u)' => Has(L[u], k, t)
  BY DEF Secured, Won
<1>2. Has(L[t], k, t)
  BY DEF Secured
<1> QED
  BY <1>1, <1>2, SecuredFrame

\* The types of the votes that were granted.
LEMMA VoteTypes ==
  ASSUME TypeOK
  PROVE  \A v \in votes : v.voter \in Server /\ v.candidate \in Server /\ v.term \in Nat
BY DEF TypeOK, HistoryTypes, Vote, Term

\* A secured entry stays so when servers only follow.
LEMMA SecuredFade ==
  ASSUME TypeOK, TypeOK', NEW L, NEW t \in Nat, NEW k \in Nat, Secured(L, t, k),
         UNCHANGED <<log, wins, votes>>, \A i \in Server : Keeps(i) \/ Retreats(i)
  PROVE  Secured(L, t, k)'
<1>1. \A q \in Server : currentTerm[q] <= currentTerm'[q]
  BY TermsGrowWhere
<1>2. \A q \in Server : state'[q] = "Candidate" => state[q] = "Candidate" /\ currentTerm'[q] = currentTerm[q]
  BY DEF Keeps, Retreats
<1>3. \A v \in votes' :
        /\ v.term > t /\ v.voter # v.candidate
        /\ state'[v.candidate] = "Candidate" /\ currentTerm'[v.candidate] = v.term
        => Has(log[v.candidate], k, t)
  BY <1>2, VoteTypes DEF Secured
<1> QED
  BY <1>1, <1>3, SecuredStay

\* A secured entry stays so when a server stands: nobody else has voted for it yet.
LEMMA SecuredStands ==
  ASSUME TypeOK, TypeOK', RoleInv, NEW L, NEW t \in Nat, NEW k \in Nat, Secured(L, t, k),
         NEW i \in Server, Stands(i)
  PROVE  Secured(L, t, k)'
<1>0. currentTerm \in [Server -> Nat] /\ state \in [Server -> {"Follower", "Candidate", "Leader"}]
  BY DEF TypeOK, NodeTypes, Term
<1>1. \A q \in Server : currentTerm[q] <= currentTerm'[q]
  BY <1>0 DEF Stands
<1>2. ASSUME NEW v \in votes', v.term > t, v.voter # v.candidate,
             state'[v.candidate] = "Candidate", currentTerm'[v.candidate] = v.term
      PROVE  Has(log[v.candidate], k, t)
  <2>1. v \in votes
    BY <1>2 DEF Stands
  <2>2. v.candidate # i
    <3> SUFFICES ASSUME v.candidate = i PROVE FALSE
      OBVIOUS
    <3>1. v.term <= currentTerm[i] /\ v.term \in Nat
      BY <2>1, VoteTypes DEF RoleInv, Campaigns
    <3>2. v.term = currentTerm[i] + 1 /\ currentTerm[i] \in Nat
      BY <1>0, <1>2 DEF Stands
    <3> QED
      BY <3>1, <3>2
  <2>3. state[v.candidate] = "Candidate" /\ currentTerm[v.candidate] = v.term
    BY <1>0, <1>2, <2>1, <2>2, VoteTypes DEF Stands
  <2> QED
    BY <1>2, <2>1, <2>3 DEF Secured
<1>3. UNCHANGED <<log, wins>>
  BY DEF Stands
<1> QED
  BY <1>1, <1>2, <1>3, SecuredStay

\* The up-to-date check: a candidate whose log passes it against that of a voter who holds a
\* secured entry holds the entry too.
LEMMA UpToDateHolds ==
  ASSUME TypeOK, NEW L \in Ghost, LeaderLogs(L), NEW t \in 1..MaxTerm, NEW k \in Nat,
         Has(L[t], k, t), \A u \in 1..MaxTerm : u > t /\ Won(u) => Has(L[u], k, t),
         NEW i \in Server, NEW j \in Server, Has(log[j], k, t),
         \/ LastLogTerm(i) > LastLogTerm(j)
         \/ LastLogTerm(i) = LastLogTerm(j) /\ LastLogIndex(i) >= LastLogIndex(j)
  PROVE  Has(log[i], k, t)
<1> DEFINE c == log[i]
           d == log[j]
<1>1. /\ c \in Seq(Entry) /\ d \in Seq(Entry) /\ Len(c) \in Nat /\ Len(d) \in Nat
      /\ LastLogIndex(i) = Len(c) /\ LastLogIndex(j) = Len(d)
      /\ Follows(c, L) /\ Follows(d, L)
  BY TypeFacts DEF LastLogIndex, LeaderLogs
<1>2. k \in 1..Len(d) /\ d[k].term = t /\ Len(d) \in 1..Len(d)
  <2>1. k \in 1..Len(d) /\ d[k].term = t
    BY DEF Has
  <2> QED
    BY <1>1, <2>1
<1>3. LastLogTerm(j) = d[Len(d)].term
  BY <1>1, <1>2 DEF LastLogTerm, GetTermAtIndex
<1>4. d[Len(d)].term \in Nat /\ d[Len(d)].term >= t
  <2> HIDE DEF d
  <2>1. d[Len(d)].term \in 1..MaxTerm /\ d[k].term <= d[Len(d)].term
    BY <1>1, <1>2, TermsOrdered
  <2> QED
    BY <1>2, <2>1
<1>5. Len(c) # 0
  <2> SUFFICES ASSUME Len(c) = 0 PROVE FALSE
    OBVIOUS
  <2>1. LastLogTerm(i) = 0
    BY <1>1 DEF LastLogTerm, GetTermAtIndex
  <2> QED
    BY <1>3, <1>4, <2>1
<1> DEFINE u == c[Len(c)].term
<1>6. LastLogTerm(i) = u /\ Len(c) \in 1..Len(c)
  BY <1>1, <1>5 DEF LastLogTerm, GetTermAtIndex
<1>7. u \in 1..MaxTerm /\ Len(c) <= Len(L[u]) /\ \A n \in 1..Len(c) : c[n] = L[u][n]
  BY <1>1, <1>6 DEF Follows
<1>8. u >= t
  <2> HIDE DEF u
  <2> QED
    BY <1>3, <1>4, <1>6, <1>7
<1>9. /\ L[u] \in Seq(Entry) /\ Len(L[u]) \in Nat /\ Follows(L[u], L)
  BY <1>7 DEF Ghost, LeaderLogs
<1>10. CASE u = t
  <2>1. Len(c) >= Len(d)
    <3> HIDE DEF u, d, c
    <3> QED
      BY <1>3, <1>4, <1>6, <1>10, <1>1, <1>7
  <2>2. k \in 1..Len(c)
    <3> HIDE DEF c, d
    <3> QED
      BY <1>1, <1>2, <2>1
  <2>3. c[k] = L[t][k] /\ L[t][k].term = t
    <3> HIDE DEF c, u
    <3> QED
      BY <1>7, <1>10, <2>2 DEF Has
  <2> QED
    BY <2>2, <2>3 DEF Has
<1>11. CASE u > t
  <2>1. Won(u)
    <3> SUFFICES ASSUME ~Won(u) PROVE FALSE
      OBVIOUS
    <3>1. L[u] = << >>
      BY <1>7 DEF LeaderLogs
    <3>2. Len(L[u]) = 0
      BY <3>1
    <3> HIDE DEF u, c
    <3> QED
      BY <1>1, <1>5, <1>7, <3>2
  <2>2. k \in 1..Len(L[u]) /\ L[u][k].term = t
    BY <1>7, <1>11, <2>1 DEF Has
  <2>3. k <= Len(c)
    <3> SUFFICES ASSUME k > Len(c) PROVE FALSE
      BY <1>1
    <3>1. Len(c) \in 1..k
      <4> HIDE DEF c
      <4> QED
        BY <1>1, <1>6
    <3>2. L[u][Len(c)].term <= L[u][k].term
      <4> HIDE DEF u, c
      <4> QED
        BY <1>9, <2>2, <3>1, TermsOrdered
    <3>3. L[u][Len(c)] = c[Len(c)]
      <4> HIDE DEF u, c
      <4> QED
        BY <1>6, <1>7
    <3>4. u <= t
      BY <2>2, <3>2, <3>3
    <3> HIDE DEF u
    <3> QED
      BY <1>7, <1>11, <3>4
  <2>4. k \in 1..Len(c)
    <3> HIDE DEF c, d
    <3> QED
      BY <1>1, <1>2, <2>3
  <2>5. c[k] = L[u][k]
    <3> HIDE DEF c, u
    <3> QED
      BY <1>7, <2>4
  <2> QED
    BY <2>2, <2>4, <2>5 DEF Has
<1> QED
  <2> HIDE DEF u
  <2> QED
    BY <1>7, <1>8, <1>10, <1>11

\* A secured entry stays so when a vote is granted: the voter compares its log with the
\* candidate's, and whoever has the entry votes only for one that has it too.
LEMMA SecuredGrants ==
  ASSUME TypeOK, TypeOK', RoleInv, NEW L \in Ghost, LeaderLogs(L), NEW t \in 1..MaxTerm, NEW k \in Nat,
         Secured(L, t, k), NEW m \in voteReqs, Grants(m)
  PROVE  Secured(L, t, k)'
<1>0. UNCHANGED <<log, wins>> /\ \A i \in Server : Keeps(i) \/ Retreats(i)
  BY DEF Grants
<1>1. \A q \in Server : currentTerm[q] <= currentTerm'[q]
  BY <1>0, TermsGrowWhere
<1>2. \A q \in Server : state'[q] = "Candidate" => state[q] = "Candidate" /\ currentTerm'[q] = currentTerm[q]
  BY <1>0 DEF Keeps, Retreats
<1>3. ASSUME NEW v \in votes', v.term > t, v.voter # v.candidate,
             state'[v.candidate] = "Candidate", currentTerm'[v.candidate] = v.term
      PROVE  Has(log[v.candidate], k, t)
  <2>1. CASE v \in votes
    BY <1>2, <1>3, <2>1, VoteTypes DEF Secured
  <2>2. CASE v = [voter |-> m.to, term |-> m.term, candidate |-> m.from]
    <3>1. m.from \in Server /\ m.to \in Server /\ m.from # m.to /\ LogIsUpToDate(m, m.to)
      BY DEF Grants, TypeOK, VoteNetTypes, VoteRequest
    <3>2. state[m.from] = "Candidate" /\ currentTerm[m.from] = m.term
      BY <1>2, <1>3, <2>2, <3>1
    <3>3. m.lastLogIndex = LastLogIndex(m.from) /\ m.lastLogTerm = LastLogTerm(m.from)
      BY <3>2 DEF RoleInv, Campaigns
    <3>4. PICK r \in Server : \A q \in Server \ {r} : Has(log[q], k, t)
      BY DEF Secured
    <3>5. CASE r # m.from
      BY <2>2, <3>1, <3>4, <3>5
    <3>6. CASE r = m.from
      <4>1. Has(log[m.to], k, t)
        BY <3>1, <3>4, <3>6
      <4>2. \/ LastLogTerm(m.from) > LastLogTerm(m.to)
            \/ /\ LastLogTerm(m.from) = LastLogTerm(m.to)
               /\ LastLogIndex(m.from) >= LastLogIndex(m.to)
        BY <3>1, <3>3 DEF LogIsUpToDate
      <4>3. /\ Has(L[t], k, t)
            /\ \A u \in 1..MaxTerm : u > t /\ Won(u) => Has(L[u], k, t)
        BY DEF Secured
      <4>4. Has(log[m.from], k, t)
        BY <3>1, <4>1, <4>2, <4>3, UpToDateHolds
      <4> QED
        BY <2>2, <4>4
    <3> QED
      BY <3>5, <3>6
  <2> QED
    BY <1>3, <2>1, <2>2 DEF Grants
<1> QED
  BY <1>0, <1>1, <1>3, SecuredStay

\* An entry at k of a log that a leader makes longer.
LEMMA HasGrows ==
  ASSUME NEW s \in Seq(Entry), NEW r \in Seq(Entry), NEW k, NEW t, Has(s, k, t),
         Len(s) <= Len(r), \A n \in 1..Len(s) : r[n] = s[n]
  PROVE  Has(r, k, t)
BY DEF Has

\* A secured entry stays so when a candidate wins: a majority voted for it, one voter of
\* which has the entry, so the winner has it.
LEMMA SecuredWins ==
  ASSUME TypeOK, TypeOK', RoleInv, NEW L \in Ghost, LeaderLogs(L), NEW t \in 1..MaxTerm, NEW k \in Nat,
         Secured(L, t, k), NEW i \in Server, Wins(i), ~Won(currentTerm[i]),
         currentTerm[i] \in 1..MaxTerm,
         NEW M \in Ghost, M = [L EXCEPT ![currentTerm[i]] = log[i]]
  PROVE  Secured(M, t, k)'
<1>0. /\ UNCHANGED <<log, currentTerm, votes>>
      /\ wins' = wins \cup {[leader |-> i, term |-> currentTerm[i]]}
      /\ \A q \in Server : state'[q] = "Candidate" => state[q] = "Candidate"
  BY DEF Wins, TypeOK, NodeTypes
<1>1. /\ M[currentTerm[i]] = log[i]
      /\ \A u \in 1..MaxTerm : u # currentTerm[i] => M[u] = L[u]
  BY DEF Ghost
<1>2. L[currentTerm[i]] = << >>
  BY DEF LeaderLogs
<1>3. t # currentTerm[i]
  BY <1>2 DEF Secured, Has
<1>4. Has(M[t], k, t)
  BY <1>1, <1>3 DEF Secured
<1>5. ASSUME NEW u \in 1..MaxTerm, u > t, Won(u)'
      PROVE  Has(M[u], k, t)
  <2>1. CASE u = currentTerm[i]
    <3>1. PICK p \in Peers(i) : Voted(p, u, i)
      BY <2>1 DEF Wins, Elected
    <3>2. state[i] = "Candidate" /\ p # i
      BY <3>1 DEF Wins, Peers
    <3>3. PICK v \in votes : v.voter = p /\ v.term = u /\ v.candidate = i
      BY <3>1 DEF Voted
    <3>4. Has(log[i], k, t)
      BY <1>5, <2>1, <3>2, <3>3 DEF Secured
    <3> QED
      BY <1>1, <2>1, <3>4
  <2>2. CASE u # currentTerm[i]
    <3>1. Won(u)
      BY <1>0, <1>5, <2>2 DEF Won
    <3> QED
      BY <1>1, <1>5, <2>2, <3>1 DEF Secured
  <2> QED
    BY <2>1, <2>2
<1>6. \A v \in votes' :
        /\ v.term > t /\ v.voter # v.candidate
        /\ state'[v.candidate] = "Candidate" /\ currentTerm'[v.candidate] = v.term
        => Has(log'[v.candidate], k, t)
  BY <1>0, VoteTypes DEF Secured
<1>7. \A q \in Server : /\ currentTerm[q] <= currentTerm'[q]
                        /\ currentTerm[q] >= t /\ Has(log[q], k, t) => Has(log'[q], k, t)
  BY <1>0, TypeFacts
<1>8. \A u \in 1..MaxTerm : u > t /\ Won(u)' => Has(M[u], k, t)
  BY <1>5
<1>9. t \in Nat
  OBVIOUS
<1> QED
  BY <1>4, <1>6, <1>7, <1>8, <1>9, SecuredFrame

\* A secured entry stays so when a leader extends its log.
LEMMA SecuredExtends ==
  ASSUME TypeOK, TypeOK', RoleInv, NEW L \in Ghost, NEW t \in 1..MaxTerm, NEW k \in Nat,
         Secured(L, t, k), NEW i \in Server, NEW v, Extends(i, v), NEW M \in Ghost,
         \A u \in 1..MaxTerm :
           Len(L[u]) <= Len(M[u]) /\ \A n \in 1..Len(L[u]) : M[u][n] = L[u][n]
  PROVE  Secured(M, t, k)'
<1>0. /\ UNCHANGED <<state, currentTerm, votes, wins>> /\ state[i] = "Leader"
      /\ log' = [log EXCEPT ![i] = Appended(i, v)]
  BY DEF Extends
<1>1. \A u \in 1..MaxTerm : Has(L[u], k, t) => Has(M[u], k, t)
  <2>1. \A u \in 1..MaxTerm : L[u] \in Seq(Entry) /\ M[u] \in Seq(Entry)
    BY DEF Ghost
  <2> QED
    BY <2>1, HasGrows
<1>2. \A q \in Server : Has(log[q], k, t) => Has(log'[q], k, t)
  <2>1. \A q \in Server : q # i => log'[q] = log[q]
    BY <1>0 DEF TypeOK, LogTypes
  <2>2. log[i] \in Seq(Entry) /\ Len(log[i]) \in Nat
    BY TypeFacts
  <2>3. log'[i] = Appended(i, v) /\ log'[i] \in Seq(Entry)
    BY <1>0 DEF TypeOK, LogTypes
  <2>4. Len(log[i]) <= Len(log'[i]) /\ \A n \in 1..Len(log[i]) : log'[i][n] = log[i][n]
    BY <2>2, <2>3 DEF Appended
  <2>5. Has(log[i], k, t) => Has(log'[i], k, t)
    BY <2>2, <2>3, <2>4, HasGrows
  <2> QED
    BY <2>1, <2>5
<1>3. Has(M[t], k, t) /\ \A u \in 1..MaxTerm : u > t /\ Won(u)' => Has(M[u], k, t)
  BY <1>0, <1>1 DEF Secured, Won
<1>4. \A x \in votes' :
        /\ x.term > t /\ x.voter # x.candidate
        /\ state'[x.candidate] = "Candidate" /\ currentTerm'[x.candidate] = x.term
        => Has(log'[x.candidate], k, t)
  BY <1>0, <1>2, VoteTypes DEF Secured
<1>5. \A q \in Server : currentTerm[q] <= currentTerm'[q]
  BY <1>0, TypeFacts
<1> QED
  BY <1>2, <1>3, <1>4, <1>5, SecuredFrame

\* A secured entry stays so when a request is accepted: no truncation removes it, for the
\* sender's log has it.
LEMMA SecuredAccepts ==
  ASSUME TypeOK, TypeOK', ElectionInv, restarts = 0, RoleInv, NEW L \in Ghost, LeaderLogs(L),
         NEW t \in 1..MaxTerm, NEW k \in Nat, Secured(L, t, k), NEW m \in appendReqs, Accepts(m)
  PROVE  Secured(L, t, k)'
<1> DEFINE i == m.to
           s == L[m.term]
           a == log'[i]
           e == m.prevLogIndex + Len(m.entries)
<1>0. /\ UNCHANGED <<wins, votes>> /\ m.term >= currentTerm[i] /\ state'[i] = "Follower"
      /\ \A j \in Server : Keeps(j) \/ Retreats(j)
      /\ \A j \in Server : j # i => log'[j] = log[j]
  BY DEF Accepts, TypeOK, LogTypes
<1>1. /\ i \in Server /\ m.term \in 1..MaxTerm /\ Won(m.term)
      /\ currentTerm[i] \in Nat /\ log[i] \in Seq(Entry) /\ s \in Seq(Entry)
      /\ Follows(s, L) /\ Follows(log[i], L)
  BY WonTerms, TypeFacts DEF Ghost, LeaderLogs
<1>2. /\ e \in 1..Len(s) /\ a \in Seq(Entry) /\ e <= Len(a) /\ \A n \in 1..e : a[n] = s[n]
      /\ \/ a = log[i]
         \/ \E n \in 1..e : n > Len(log[i]) \/ log[i][n].term # s[n].term
  BY AcceptedLog
<1>3. ASSUME currentTerm[i] >= t, Has(log[i], k, t) PROVE Has(a, k, t)
  <2>1. CASE a = log[i]
    BY <1>3, <2>1
  <2>2. CASE \E n \in 1..e : n > Len(log[i]) \/ log[i][n].term # s[n].term
    <3>1. Has(s, k, t)
      <4>1. m.term >= t
        BY <1>0, <1>1, <1>3
      <4>2. CASE m.term = t
        BY <4>2 DEF Secured
      <4>3. CASE m.term > t
        BY <1>1, <4>3 DEF Secured
      <4> QED
        BY <1>1, <4>1, <4>2, <4>3
    <3>2. /\ k \in 1..Len(log[i]) /\ k \in 1..Len(s) /\ log[i][k].term = t /\ s[k].term = t
      BY <1>3, <3>1 DEF Has
    <3>3. \A n \in 1..k : log[i][n] = s[n]
      <4> HIDE DEF s, i
      <4> QED
        BY <1>1, <3>2, FollowsAgree, SMTT(30)
    <3>4. PICK n \in 1..e : n > Len(log[i]) \/ log[i][n].term # s[n].term
      BY <2>2
    <3>5. k < n
      <4> SUFFICES ASSUME n <= k PROVE FALSE
        BY <3>2, <3>4
      <4>1. n \in 1..k /\ n <= Len(log[i])
        BY <1>1, <3>2, <3>4
      <4> QED
        BY <1>1, <3>3, <3>4, <4>1
    <3>6. k \in 1..e /\ k \in 1..Len(a)
      <4>1. Len(a) \in Nat /\ e \in Nat /\ e <= Len(a) /\ n <= e /\ n \in Nat /\ 1 <= k /\ k \in Nat
        BY <1>2, <3>2, <3>4
      <4> HIDE DEF a, e
      <4> QED
        BY <3>5, <4>1
    <3>7. a[k] = s[k]
      <4> HIDE DEF a, e, s
      <4> QED
        BY <1>2, <3>6
    <3> QED
      BY <3>2, <3>6, <3>7 DEF Has
  <2> QED
    BY <1>2, <2>1, <2>2
<1>4. \A q \in Server : currentTerm[q] <= currentTerm'[q]
  BY <1>0, TermsGrowWhere
<1>5. \A q \in Server : currentTerm[q] >= t /\ Has(log[q], k, t) => Has(log'[q], k, t)
  BY <1>0, <1>3
<1>6. \A q \in Server : state'[q] = "Candidate" =>
        q # i /\ state[q] = "Candidate" /\ currentTerm'[q] = currentTerm[q]
  BY <1>0 DEF Keeps, Retreats
<1>7. \A v \in votes' :
        /\ v.term > t /\ v.voter # v.candidate
        /\ state'[v.candidate] = "Candidate" /\ currentTerm'[v.candidate] = v.term
        => Has(log'[v.candidate], k, t)
  BY <1>0, <1>6, VoteTypes DEF Secured
<1>8. Has(L[t], k, t) /\ \A u \in 1..MaxTerm : u > t /\ Won(u)' => Has(L[u], k, t)
  BY <1>0 DEF Secured, Won
<1> QED
  BY <1>4, <1>5, <1>7, <1>8, SecuredFrame

-----------------------------------------------------------------------------
(* What is committed is secured *)

\* Whoever wins an election has at most two other servers, and one fewer where the leader
\* commits without an answer.
LEMMA FewServers ==
  ASSUME TypeOK, ElectionInv, restarts = 0, wins # {}, Cardinality(Server) # 4
  PROVE  /\ \A i, j \in Server : i # j => \E r \in Server : \A q \in Server \ {r} : q \in {i, j}
         /\ ReplicasNeeded <= 1 =>
              \A i \in Server : \E r \in Server : \A q \in Server \ {r} : q = i
<1>1. Cardinality(Server) \in 2..3
  BY WonInSmallClusters
<1>2. ASSUME NEW i \in Server, NEW j \in Server, i # j,
             \A r \in Server : \E q \in Server \ {r} : q \notin {i, j}
      PROVE  FALSE
  <2>1. PICK p \in Server : p \notin {i, j}
    BY <1>2
  <2>2. PICK q \in Server \ {p} : q \notin {i, j}
    BY <1>2, <2>1
  <2>3. 4 <= Cardinality(Server)
    BY <1>2, <2>1, <2>2, FourServers
  <2> QED
    BY <1>1, <2>3
<1>3. ASSUME ReplicasNeeded <= 1, NEW i \in Server,
             \A r \in Server : \E q \in Server \ {r} : q # i
      PROVE  FALSE
  <2>1. PICK p \in Server : p # i
    BY <1>3
  <2>2. PICK q \in Server \ {p} : q # i
    BY <1>3, <2>1
  <2>3. 3 <= Cardinality(Server)
    BY <2>1, <2>2, FourServers
  <2> QED
    BY <1>1, <1>3, <2>3 DEF ReplicasNeeded
<1> QED
  BY <1>2, <1>3

\* An entry that all servers but one hold is secured as long as they are in its term: an
\* election in a later term takes two servers.
LEMMA FreshSecured ==
  ASSUME TypeOK', ElectionInv', restarts' = 0, RoleInv', NEW M \in Ghost,
         NEW t \in 1..MaxTerm, NEW k \in Nat, Has(M[t], k, t),
         NEW r \in Server, \A q \in Server \ {r} : currentTerm'[q] = t /\ Has(log'[q], k, t)
  PROVE  Secured(M, t, k)'
<1>0. /\ \A v \in votes' : v.voter \in Server /\ v.candidate \in Server /\ v.term \in Nat
      /\ \A q \in Server : currentTerm'[q] \in Nat
  BY DEF TypeOK, HistoryTypes, Vote, Term, NodeTypes
<1>1. ASSUME NEW v \in votes', v.term > t, v.voter # v.candidate PROVE FALSE
  <2>1. v.term <= currentTerm'[v.voter]
    BY DEF ElectionInv, VotesRemembered
  <2>2. v.term <= currentTerm'[v.candidate]
    BY DEF RoleInv, Campaigns
  <2>3. \E q \in {v.voter, v.candidate} : q # r
    BY <1>1
  <2>4. PICK q \in {v.voter, v.candidate} : q # r
    BY <2>3
  <2>5. currentTerm'[q] = t
    BY <1>0, <2>4
  <2> QED
    BY <1>0, <1>1, <2>1, <2>2, <2>4, <2>5
<1>2. ASSUME NEW u \in 1..MaxTerm, u > t, Won(u)' PROVE FALSE
  <2>1. PICK w \in wins' : w.term = u
    BY <1>2 DEF Won
  <2>2. Elected(w.leader, u)'
    BY <2>1 DEF ElectionInv, CountsBacked
  <2>3. PICK p \in Peers(w.leader) : Voted(p, u, w.leader)'
    BY <2>2 DEF Elected
  <2>4. [voter |-> p, term |-> u, candidate |-> w.leader] \in votes'
    BY <2>3 DEF Voted
  <2> QED
    BY <1>1, <1>2, <2>3, <2>4 DEF Peers
<1>3. \A q \in Server \ {r} : currentTerm'[q] >= t
  BY <1>0
<1>4. Has(M[t], k, t)' /\ \A q \in Server \ {r} : Has(log[q], k, t)'
  BY DEF Has
<1> QED
  BY <1>1, <1>2, <1>3, <1>4 DEF Secured

Grown(L, M) ==
  \A u \in 1..MaxTerm : Len(L[u]) <= Len(M[u]) /\ \A n \in 1..Len(L[u]) : M[u][n] = L[u][n]

\* A ghost that is left as it is has grown.
LEMMA GrownItself ==
  ASSUME NEW L \in Ghost
  PROVE  Grown(L, L)
<1>1. \A u \in 1..MaxTerm : Len(L[u]) \in Nat
  BY DEF Ghost
<1> QED
  BY <1>1 DEF Grown

\* Nothing is committed in the step, and the leaders' logs grow.
LEMMA CommittedKept ==
  ASSUME TypeOK, NEW L \in Ghost, NEW M \in Ghost, CommittedSecured(L), Grown(L, M),
         committed' = committed,
         \A t \in 1..MaxTerm, k \in Nat : Secured(L, t, k) => Secured(M, t, k)'
  PROVE  CommittedSecured(M)'
<1>1. ASSUME NEW t \in 1..MaxTerm
      PROVE  /\ Len(committed'[t]) <= Len(M[t])
             /\ \A n \in 1..Len(committed'[t]) : committed'[t][n] = M[t][n]
             /\ (committed[t] # << >> => Secured(M, t, Len(committed[t])))'
  <2>1. committed[t] \in Seq(Entry) /\ Len(committed[t]) \in Nat /\ Len(L[t]) \in Nat /\ Len(M[t]) \in Nat
    BY DEF TypeOK, HistoryTypes, Ghost
  <2>2. PICK c \in Nat : c = Len(committed[t])
    BY <2>1
  <2>3. /\ Len(committed[t]) <= Len(L[t])
        /\ \A n \in 1..Len(committed[t]) : committed[t][n] = L[t][n]
        /\ committed[t] # << >> => Secured(L, t, c)
    BY <2>2 DEF CommittedSecured
  <2>4. committed[t] # << >> => Secured(M, t, c)'
    BY <2>3
  <2>5. c = Len(committed[t])'
    BY <2>2
  <2>6. Len(L[t]) <= Len(M[t]) /\ \A n \in 1..Len(L[t]) : M[t][n] = L[t][n]
    BY DEF Grown
  <2>7. (committed[t] # << >> => Secured(M, t, Len(committed[t])))'
    BY <2>4, <2>5 DEF Secured
  <2> QED
    BY <2>1, <2>3, <2>6, <2>7
<1> QED
  BY <1>1 DEF CommittedSecured

\* The acknowledgements under way, and the leaders' matchIndex, stay within the leaders' logs.
LEMMA AcksKept ==
  ASSUME NEW L \in Ghost, NEW M \in Ghost, AcksBounded(L), Grown(L, M), TypeOK, TypeOK',
         \A m \in appendResps' :
           \/ m \in appendResps \/ ~m.success \/ m.lastSent = 0
           \/ m.reqTerm \in 1..MaxTerm /\ m.lastSent <= Len(L[m.reqTerm]),
         \A i \in Server : state'[i] = "Leader" => \A j \in Server : matchIndex'[i][j] <= Len(log'[i])
  PROVE  AcksBounded(M)'
<1>1. ASSUME NEW m \in appendResps', m.success, m.lastSent > 0
      PROVE  m.reqTerm \in 1..MaxTerm /\ m.lastSent <= Len(M[m.reqTerm])
  <2>1. m.lastSent \in Nat
    BY DEF TypeOK, AppendNetTypes, AppendResponse
  <2>2. m.reqTerm \in 1..MaxTerm /\ m.lastSent <= Len(L[m.reqTerm])
    BY <1>1, <2>1 DEF AcksBounded
  <2>3. /\ Len(L[m.reqTerm]) \in Nat /\ Len(M[m.reqTerm]) \in Nat
        /\ Len(L[m.reqTerm]) <= Len(M[m.reqTerm])
    BY <2>2 DEF Grown, Ghost
  <2> QED
    BY <2>1, <2>2, <2>3
<1> QED
  BY <1>1 DEF AcksBounded

\* What leader j may count on, when the step brings it no new answer.
LEMMA BackedKept ==
  ASSUME TypeOK, NEW L, NEW M, NEW j \in Server, BackedAt(L, j),
         currentTerm[j] \in 1..MaxTerm,
         \A t \in 1..MaxTerm, k \in Nat : Secured(L, t, k) => Secured(M, t, k)',
         currentTerm'[j] = currentTerm[j], log'[j] = log[j], matchIndex'[j] = matchIndex[j],
         Len(committed'[currentTerm[j]]) <= commitIndex'[j],
         \A m \in appendResps' :
           \/ m \in appendResps \/ ~m.success \/ m.lastSent = 0
           \/ m.to # j \/ m.reqTerm # currentTerm[j]
  PROVE  BackedAt(M, j)'
<1>1. \A k \in Nat \ {0}, x \in Peers(j) : Acked(j, x, k)' => Acked(j, x, k)
  BY DEF Acked
<1>2. \A k \in Nat \ {0} : Backed(j, k)' => Backed(j, k)
  BY <1>1 DEF Backed, ReplicasNeeded, Peers
<1>3. PICK t \in 1..MaxTerm : t = currentTerm[j]
  OBVIOUS
<1>4. t = currentTerm[j]'
  BY <1>3
<1>5. ASSUME NEW k \in 1..Len(log'[j]), log'[j][k].term = currentTerm'[j], Backed(j, k)'
      PROVE  Secured(M, t, k)'
  <2>1. k \in Nat \ {0} /\ k \in 1..Len(log[j])
    BY DEF TypeOK, LogTypes
  <2>2. Secured(L, t, k)
    BY <1>2, <1>3, <1>5, <2>1 DEF BackedAt
  <2> QED
    BY <2>1, <2>2
<1>6. ASSUME NEW k \in 1..Len(log'[j]), log'[j][k].term = currentTerm'[j], Backed(j, k)'
      PROVE  Secured(M, currentTerm[j], k)'
  BY <1>4, <1>5, <1>6 DEF Secured
<1>7. (Len(committed[currentTerm[j]]) <= commitIndex[j])'
  OBVIOUS
<1> QED
  BY <1>6, <1>7 DEF BackedAt

\* Nothing is appended, committed or acknowledged in the step.
LEMMA CommitsStay ==
  ASSUME TypeOK, TypeOK', ElectionInv, restarts = 0, RoleInv, NEW L \in Ghost, CommitsSecured(L),
         UNCHANGED <<log, committed>>,
         \A t \in 1..MaxTerm, k \in Nat : Secured(L, t, k) => Secured(L, t, k)',
         \A j \in Server : state'[j] = "Leader" =>
           /\ state[j] = "Leader" /\ currentTerm'[j] = currentTerm[j]
           /\ matchIndex'[j] = matchIndex[j] /\ commitIndex'[j] = commitIndex[j],
         \A m \in appendResps' : m \in appendResps \/ ~m.success \/ m.lastSent = 0
  PROVE  CommitsSecured(L)'
<1>1. CommittedSecured(L)'
  BY CommittedKept, GrownItself DEF CommitsSecured
<1>2. AcksBounded(L)'
  <2>1. \A i \in Server : state'[i] = "Leader" => \A j \in Server : matchIndex'[i][j] <= Len(log'[i])
    BY DEF CommitsSecured, AcksBounded
  <2> QED
    BY <2>1, AcksKept, GrownItself DEF CommitsSecured
<1>3. ASSUME NEW j \in Server, state'[j] = "Leader" PROVE BackedAt(L, j)'
  <2>1. BackedAt(L, j)
    BY <1>3 DEF CommitsSecured, BackedSecured
  <2>2. currentTerm[j] \in 1..MaxTerm
    BY <1>3, WonTerms
  <2>3. Len(committed'[currentTerm[j]]) <= commitIndex'[j]
    BY <1>3, <2>1 DEF BackedAt
  <2> QED
    BY <1>3, <2>1, <2>2, <2>3, BackedKept
<1> QED
  BY <1>1, <1>2, <1>3 DEF CommitsSecured, BackedSecured

\* CommitsSecured is kept by a step that only lets servers follow.
LEMMA CommitsFade ==
  ASSUME TypeOK, TypeOK', ElectionInv, restarts = 0, RoleInv, NEW L \in Ghost, CommitsSecured(L),
         Fade(L)
  PROVE  CommitsSecured(L)'
<1>1. \A t \in 1..MaxTerm, k \in Nat : Secured(L, t, k) => Secured(L, t, k)'
  BY SecuredFade DEF Fade
<1>2. \A j \in Server : state'[j] = "Leader" =>
        /\ state[j] = "Leader" /\ currentTerm'[j] = currentTerm[j]
        /\ matchIndex'[j] = matchIndex[j] /\ commitIndex'[j] = commitIndex[j]
  BY DEF Fade, Keeps, Retreats
<1> QED
  BY <1>1, <1>2, CommitsStay DEF Fade

\* CommitsSecured is kept when a server stands for election.
LEMMA CommitsStands ==
  ASSUME TypeOK, TypeOK', ElectionInv, restarts = 0, RoleInv, NEW L \in Ghost, CommitsSecured(L),
         NEW i \in Server, Stands(i)
  PROVE  CommitsSecured(L)'
<1>1. \A t \in 1..MaxTerm, k \in Nat : Secured(L, t, k) => Secured(L, t, k)'
  BY SecuredStands
<1>2. \A j \in Server : state'[j] = "Leader" =>
        /\ state[j] = "Leader" /\ currentTerm'[j] = currentTerm[j]
        /\ matchIndex'[j] = matchIndex[j] /\ commitIndex'[j] = commitIndex[j]
  BY DEF Stands, TypeOK, NodeTypes
<1> QED
  BY <1>1, <1>2, CommitsStay DEF Stands

\* CommitsSecured is kept when a vote is granted.
LEMMA CommitsGrants ==
  ASSUME TypeOK, TypeOK', ElectionInv, restarts = 0, RoleInv, NEW L \in Ghost, LeaderLogs(L),
         CommitsSecured(L), NEW m \in voteReqs, Grants(m)
  PROVE  CommitsSecured(L)'
<1>1. \A t \in 1..MaxTerm, k \in Nat : Secured(L, t, k) => Secured(L, t, k)'
  BY SecuredGrants
<1>2. \A j \in Server : state'[j] = "Leader" =>
        /\ state[j] = "Leader" /\ currentTerm'[j] = currentTerm[j]
        /\ matchIndex'[j] = matchIndex[j] /\ commitIndex'[j] = commitIndex[j]
  BY DEF Grants, Keeps, Retreats
<1> QED
  BY <1>1, <1>2, CommitsStay DEF Grants

\* CommitsSecured is kept when a candidate wins and its log becomes that of the term.
LEMMA CommitsWins ==
  ASSUME TypeOK, TypeOK', ElectionInv, restarts = 0, RoleInv, NEW L \in Ghost, LeaderLogs(L),
         CommitsSecured(L), NEW i \in Server, Wins(i), ~Won(currentTerm[i]),
         currentTerm[i] \in 1..MaxTerm,
         NEW M \in Ghost, M = [L EXCEPT ![currentTerm[i]] = log[i]]
  PROVE  CommitsSecured(M)' /\ Grown(L, M)
<1>0. \A t \in 1..MaxTerm, k \in Nat : Secured(L, t, k) => Secured(M, t, k)'
  BY SecuredWins
<1>t. PICK t0 \in 1..MaxTerm : t0 = currentTerm[i]
  OBVIOUS
<1>e. L[t0] = << >>
  BY <1>t DEF LeaderLogs
<1>g. Grown(L, M)
  <2>1. \A u \in 1..MaxTerm : Len(L[u]) \in Nat
    BY DEF Ghost
  <2>2. Len(log[i]) \in Nat /\ log[i] \in Seq(Entry)
    BY DEF TypeOK, LogTypes
  <2>3. M = [u \in 1..MaxTerm |-> IF u = t0 THEN log[i] ELSE L[u]]
    BY <1>t DEF Ghost
  <2>4. Len(L[t0]) = 0
    BY <1>e
  <2>5. ASSUME NEW u \in 1..MaxTerm
        PROVE  Len(L[u]) <= Len(M[u]) /\ \A n \in 1..Len(L[u]) : M[u][n] = L[u][n]
    <3>1. CASE u = t0
      BY <3>1, <2>2, <2>3, <2>4
    <3>2. CASE u # t0
      BY <3>2, <2>1, <2>3
    <3> QED
      BY <3>1, <3>2
  <2> QED
    BY <2>5 DEF Grown
<1>1. CommittedSecured(M)'
  BY <1>0, <1>g, CommittedKept DEF CommitsSecured, Wins
<1>2. AcksBounded(M)'
  <2>1. ASSUME NEW q \in Server, state'[q] = "Leader", NEW j \in Server
        PROVE  matchIndex'[q][j] <= Len(log'[q])
    <3>1. CASE q = i
      BY <3>1 DEF Wins, TypeOK, LogTypes, LeaderTypes
    <3>2. CASE q # i
      BY <3>2, <2>1 DEF Wins, TypeOK, NodeTypes, LeaderTypes, CommitsSecured, AcksBounded
    <3> QED
      BY <3>1, <3>2
  <2>2. \A m \in appendResps' : m \in appendResps
    BY DEF Wins
  <2> QED
    BY <1>g, <2>1, <2>2, AcksKept DEF CommitsSecured
<1>3. ASSUME NEW j \in Server, state'[j] = "Leader" PROVE BackedAt(M, j)'
  <2>1. CASE j # i
    <3>1. state[j] = "Leader" /\ matchIndex'[j] = matchIndex[j]
      BY <1>3, <2>1 DEF Wins, TypeOK, NodeTypes, LeaderTypes
    <3>2. BackedAt(L, j)
      BY <3>1 DEF CommitsSecured, BackedSecured
    <3>3. currentTerm[j] \in 1..MaxTerm
      BY <3>1, WonTerms
    <3>4. Len(committed'[currentTerm[j]]) <= commitIndex'[j]
      BY <3>2 DEF BackedAt, Wins
    <3> QED
      BY <1>0, <3>1, <3>2, <3>3, <3>4, BackedKept DEF Wins
  <2>2. CASE j = i
    <3>1. committed[t0] = << >>
      <4>1. committed[t0] \in Seq(Entry) /\ Len(committed[t0]) <= Len(L[t0])
        BY DEF CommitsSecured, CommittedSecured, TypeOK, HistoryTypes
      <4> QED
        BY <4>1, <1>e
    <3>2. \A k \in 1..Len(log[i]) : log[i][k].term # t0
      <4>1. Follows(log[i], L) /\ Len(L[t0]) = 0
        BY <1>e DEF LeaderLogs
      <4>2. SUFFICES ASSUME NEW k \in 1..Len(log[i]), log[i][k].term = t0 PROVE FALSE
        OBVIOUS
      <4>3. k <= Len(L[t0])
        BY <4>1, <4>2 DEF Follows
      <4> QED
        BY <4>1, <4>3
    <3>3. UNCHANGED <<log, currentTerm, committed, commitIndex>> /\ commitIndex[i] \in Nat
      BY DEF Wins, TypeOK, LogTypes
    <3>4. \A k \in 1..Len(log'[i]) : log'[i][k].term # currentTerm'[i]
      BY <1>t, <3>2, <3>3
    <3>5. (Len(committed[currentTerm[i]]) <= commitIndex[i])'
      BY <1>t, <3>1, <3>3
    <3> QED
      BY <2>2, <3>4, <3>5 DEF BackedAt
  <2> QED
    BY <2>1, <2>2
<1> QED
  BY <1>1, <1>2, <1>3, <1>g DEF CommitsSecured, BackedSecured

\* CommitsSecured is kept when a leader extends its log: matchIndex stays within it.
LEMMA CommitsExtends ==
  ASSUME TypeOK, TypeOK', ElectionInv, ElectionInv', restarts = 0, restarts' = 0, RoleInv, RoleInv',
         Cardinality(Server) # 4, NEW L \in Ghost, LeaderLogs(L), CommitsSecured(L),
         NEW i \in Server, NEW v \in Value \cup {NoOp}, Extends(i, v),
         NEW M \in Ghost, LeaderLogs(M)', Grown(L, M)
  PROVE  CommitsSecured(M)'
<1>0. \A t \in 1..MaxTerm, k \in Nat : Secured(L, t, k) => Secured(M, t, k)'
  BY SecuredExtends DEF Grown
<1>1. CommittedSecured(M)'
  BY <1>0, CommittedKept DEF CommitsSecured, Extends
<1>t. PICK t \in 1..MaxTerm : t = currentTerm[i]
  BY WonTerms DEF Extends
<1>l. /\ log[i] \in Seq(Entry) /\ Len(log[i]) \in Nat
      /\ Len(log'[i]) = Len(log[i]) + 1 /\ \A n \in 1..Len(log[i]) : log'[i][n] = log[i][n]
      /\ \A j \in Server : j # i => log'[j] = log[j]
  <2>1. log \in [Server -> Seq(Entry)]
    BY DEF TypeOK, LogTypes
  <2> QED
    BY <2>1 DEF Extends, Appended
<1>m. \A q, j \in Server : matchIndex[q][j] \in Nat
  BY DEF TypeOK, LeaderTypes
<1>s. UNCHANGED <<state, currentTerm, wins, committed, commitIndex, matchIndex, appendResps>>
      /\ state[i] = "Leader"
  BY DEF Extends
<1>2. AcksBounded(M)'
  <2>1. ASSUME NEW q \in Server, state'[q] = "Leader", NEW j \in Server
        PROVE  matchIndex'[q][j] <= Len(log'[q])
    <3>1. matchIndex[q][j] <= Len(log[q])
      BY <1>s, <2>1 DEF CommitsSecured, AcksBounded
    <3> QED
      BY <1>l, <1>m, <1>s, <3>1
  <2> QED
    BY <2>1, <1>s, AcksKept DEF CommitsSecured
<1>3. ASSUME NEW j \in Server, state'[j] = "Leader" PROVE BackedAt(M, j)'
  <2>0. BackedAt(L, j)
    BY <1>3, <1>s DEF CommitsSecured, BackedSecured
  <2>1. CASE j # i
    <3>3. currentTerm[j] \in 1..MaxTerm
      BY <1>3, <1>s, WonTerms
    <3>4. Len(committed'[currentTerm[j]]) <= commitIndex'[j]
      BY <2>0, <1>s DEF BackedAt
    <3> QED
      BY <1>0, <1>l, <1>s, <2>0, <2>1, <3>3, <3>4, BackedKept
  <2>2. CASE j = i
    <3>1. ASSUME NEW k \in 1..Len(log'[i]), log'[i][k].term = currentTerm'[i], Backed(i, k)'
          PROVE  Secured(M, t, k)'
      <4>0. k \in Nat \ {0}
        BY <1>l
      <4>1. CASE ReplicasNeeded <= 1
        <5>1. wins # {}
          BY <1>s DEF RoleInv, WinnersLead
        <5>2. PICK r \in Server : \A q \in Server \ {r} : q = i
          BY <4>1, <5>1, FewServers
        <5>3. log'[i] = M[t]
          BY <1>s, <1>t DEF LeaderLogs
        <5>4. Has(M[t], k, t) /\ Has(log'[i], k, t)
          BY <3>1, <5>3, <1>s, <1>t DEF Has
        <5>5. \A q \in Server \ {r} : currentTerm'[q] = t /\ Has(log'[q], k, t)
          BY <5>2, <5>4, <1>s, <1>t
        <5> QED
          BY <4>0, <5>4, <5>5, FreshSecured
      <4>2. CASE ~(ReplicasNeeded <= 1)
        <5>1. PICK p \in Peers(i) : Acked(i, p, k)'
          BY <3>1, <4>2 DEF Backed, ReplicasNeeded, Peers
        <5>2. Acked(i, p, k)
          BY <5>1, <1>s DEF Acked
        <5>3. k <= Len(log[i])
          <6>1. CASE k <= matchIndex[i][p]
            <7>1. matchIndex[i][p] <= Len(log[i]) /\ p \in Server
              BY <1>s, <5>1 DEF CommitsSecured, AcksBounded, Peers
            <7> QED
              BY <6>1, <7>1, <1>l, <1>m, <4>0
          <6>2. CASE \E m \in appendResps :
                       /\ m.to = i /\ m.from = p /\ m.reqTerm = currentTerm[i]
                       /\ m.success /\ k <= m.lastSent
            <7>1. PICK m \in appendResps : m.reqTerm = t /\ m.success /\ k <= m.lastSent
              BY <6>2, <1>t
            <7>2. m.lastSent \in Nat
              BY DEF TypeOK, AppendNetTypes, AppendResponse
            <7>3. m.lastSent <= Len(L[t])
              BY <4>0, <7>1, <7>2 DEF CommitsSecured, AcksBounded
            <7>4. L[t] = log[i]
              BY <1>s, <1>t DEF LeaderLogs
            <7> QED
              BY <4>0, <7>1, <7>2, <7>3, <7>4, <1>l
          <6> QED
            BY <5>2, <6>1, <6>2 DEF Acked
        <5>4. k \in 1..Len(log[i]) /\ log[i][k].term = t
          BY <3>1, <4>0, <5>3, <1>l, <1>s, <1>t
        <5>5. Backed(i, k)
          BY <5>1, <5>2 DEF Backed
        <5>6. Secured(L, t, k)
          BY <1>t, <2>0, <2>2, <5>4, <5>5 DEF BackedAt
        <5> QED
          BY <1>0, <4>0, <5>6
      <4> QED
        BY <4>1, <4>2
    <3>2. t = currentTerm[i]'
      BY <1>s, <1>t
    <3>3. ASSUME NEW k \in 1..Len(log'[i]), log'[i][k].term = currentTerm'[i], Backed(i, k)'
          PROVE  Secured(M, currentTerm[i], k)'
      BY <3>1, <3>2, <3>3 DEF Secured
    <3>4. (Len(committed[currentTerm[i]]) <= commitIndex[i])'
      BY <2>0, <2>2, <1>s DEF BackedAt
    <3> QED
      BY <2>2, <3>3, <3>4 DEF BackedAt
  <2> QED
    BY <2>1, <2>2
<1> QED
  BY <1>1, <1>2, <1>3 DEF CommitsSecured, BackedSecured

\* CommitsSecured is kept when a request is accepted and acknowledged.
LEMMA CommitsAccepts ==
  ASSUME TypeOK, TypeOK', ElectionInv, ElectionInv', restarts = 0, restarts' = 0, RoleInv, RoleInv',
         Cardinality(Server) # 4, NEW L \in Ghost, LeaderLogs(L), CommitsSecured(L),
         NEW m \in appendReqs, Accepts(m)
  PROVE  CommitsSecured(L)'
<1>0. \A t \in 1..MaxTerm, k \in Nat : Secured(L, t, k) => Secured(L, t, k)'
  BY SecuredAccepts
<1>1. CommittedSecured(L)'
  BY <1>0, CommittedKept, GrownItself DEF CommitsSecured, Accepts
<1>t. PICK t \in 1..MaxTerm : t = m.term
  BY WonTerms
<1>e. PICK e \in Nat : e = m.prevLogIndex + Len(m.entries)
  BY TypeFacts
<1>a. e \in 1..Len(L[t]) /\ e <= Len(log'[m.to]) /\ \A n \in 1..e : log'[m.to][n] = L[t][n]
  BY <1>t, <1>e, AcceptedLog
<1>r. PICK x \in appendResps' : /\ appendResps' = appendResps \cup {x}
                                /\ x.to = m.from /\ x.from = m.to /\ x.reqTerm = t /\ x.lastSent = e
  <2>1. appendResps' = appendResps \cup {AppendReply(m, m.term, TRUE, 0)} /\ m.entries # << >>
    BY DEF Accepts
  <2>2. \E x : x = AppendReply(m, m.term, TRUE, 0)
    OBVIOUS
  <2>3. PICK x : x = AppendReply(m, m.term, TRUE, 0)
    BY <2>2
  <2>4. x.to = m.from /\ x.from = m.to /\ x.reqTerm = t /\ x.lastSent = e
    BY <1>t, <1>e, <2>1, <2>3 DEF AppendReply
  <2> QED
    BY <2>1, <2>3, <2>4
<1>s. ASSUME NEW j \in Server, state'[j] = "Leader"
      PROVE  /\ state[j] = "Leader" /\ currentTerm'[j] = currentTerm[j]
             /\ matchIndex'[j] = matchIndex[j] /\ commitIndex'[j] = commitIndex[j]
             /\ j # m.to /\ log'[j] = log[j]
  BY <1>s DEF Accepts, Keeps, Retreats, TypeOK, LogTypes
<1>l. /\ Len(L[t]) \in Nat /\ m.to \in Server /\ m.from \in Server
      /\ \A j \in Server : Len(log[j]) \in Nat
  BY TypeFacts DEF Ghost
<1>2. AcksBounded(L)'
  <2>1. \A q \in Server : state'[q] = "Leader" => \A j \in Server : matchIndex'[q][j] <= Len(log'[q])
    BY <1>s DEF CommitsSecured, AcksBounded
  <2>2. \A y \in appendResps' : y \in appendResps \/ (y.reqTerm \in 1..MaxTerm /\ y.lastSent <= Len(L[y.reqTerm]))
    BY <1>r, <1>a, <1>l
  <2> QED
    BY <2>1, <2>2, AcksKept, GrownItself DEF CommitsSecured
<1>3. ASSUME NEW j \in Server, state'[j] = "Leader" PROVE BackedAt(L, j)'
  <2>0. BackedAt(L, j) /\ currentTerm[j] \in 1..MaxTerm
    BY <1>3, <1>s, WonTerms DEF CommitsSecured, BackedSecured
  <2>c. Len(committed'[currentTerm[j]]) <= commitIndex'[j]
    BY <2>0, <1>3, <1>s DEF BackedAt, Accepts
  <2>1. CASE j # m.from \/ currentTerm[j] # t
    BY <1>0, <1>3, <1>r, <1>s, <2>0, <2>c, <2>1, BackedKept
  <2>2. CASE j = m.from /\ currentTerm[j] = t
    <3>1. ASSUME NEW k \in 1..Len(log'[j]), log'[j][k].term = currentTerm'[j], Backed(j, k)'
          PROVE  Secured(L, t, k)'
      <4>0. k \in Nat \ {0} /\ k \in 1..Len(log[j]) /\ log[j][k].term = t
        BY <1>3, <1>s, <1>l, <2>2, <3>1
      <4>3. log[j] = L[t]
        BY <1>3, <1>s, <2>2 DEF LeaderLogs
      <4>1. CASE k <= e
        <5>1. wins # {}
          BY <1>3, <1>s DEF RoleInv, WinnersLead
        <5>2. PICK r \in Server : \A q \in Server \ {r} : q \in {j, m.to}
          BY <1>3, <1>s, <1>l, <5>1, FewServers
        <5>3. Has(L[t], k, t) /\ Has(log'[j], k, t)
          BY <1>3, <1>s, <4>0, <4>3 DEF Has
        <5>4. k \in 1..Len(log'[m.to]) /\ k \in 1..e
          <6>1. Len(log'[m.to]) \in Nat
            <7>1. log' \in [Server -> Seq(Entry)] /\ m.to \in Server
              BY <1>l DEF TypeOK, LogTypes
            <7> QED
              BY <7>1
          <6> QED
            BY <1>a, <4>0, <4>1, <6>1
        <5>5. Has(log'[m.to], k, t)
          BY <1>a, <4>0, <4>3, <5>4 DEF Has
        <5>6. \A q \in Server \ {r} : currentTerm'[q] = t /\ Has(log'[q], k, t)
          BY <1>3, <1>s, <1>t, <2>2, <5>2, <5>3, <5>5 DEF Accepts
        <5> QED
          BY <4>0, <5>3, <5>6, FreshSecured
      <4>2. CASE ~(k <= e)
        <5>1. \A p \in Peers(j) : Acked(j, p, k)' => Acked(j, p, k)
          BY <1>3, <1>r, <1>s, <4>2 DEF Acked
        <5>2. Backed(j, k)
          BY <3>1, <5>1 DEF Backed, ReplicasNeeded, Peers
        <5>3. Secured(L, t, k)
          BY <2>0, <2>2, <4>0, <5>2 DEF BackedAt
        <5> QED
          BY <1>0, <4>0, <5>3
      <4> QED
        BY <4>1, <4>2
    <3>2. t = currentTerm[j]'
      BY <1>3, <1>s, <2>2
    <3>3. ASSUME NEW k \in 1..Len(log'[j]), log'[j][k].term = currentTerm'[j], Backed(j, k)'
          PROVE  Secured(L, currentTerm[j], k)'
      BY <3>1, <3>2, <3>3 DEF Secured
    <3>4. (Len(committed[currentTerm[j]]) <= commitIndex[j])'
      BY <1>3, <1>s, <2>c
    <3> QED
      BY <3>3, <3>4 DEF BackedAt
  <2> QED
    BY <2>1, <2>2
<1> QED
  BY <1>1, <1>2, <1>3 DEF CommitsSecured, BackedSecured

\* tryAdvanceCommitIndex commits an entry of the leader's term beyond its commit index, on
\* the word of another server unless the leader alone is enough.
LEMMA AdvanceFacts ==
  ASSUME TypeOK, NEW i \in Server, NEW match \in [Server -> Nat], TryAdvanceCommitIndex(i, match)
  PROVE  \/ commitIndex' = commitIndex /\ committed' = committed
         \/ \E k \in 1..Len(log[i]) :
              /\ k > commitIndex[i] /\ log[i][k].term = currentTerm[i]
              /\ ReplicasNeeded <= 1 \/ \E j \in Peers(i) : k <= match[j]
              /\ commitIndex' = [commitIndex EXCEPT ![i] = k]
              /\ committed' = [committed EXCEPT ![currentTerm[i]] = SubSeq(log[i], 1, k)]
<1>0. Len(log[i]) \in Nat /\ commitIndex[i] \in Nat
  BY DEF TypeOK, LogTypes
<1>1. CASE Committable(i, match) = {}
  BY <1>1 DEF TryAdvanceCommitIndex
<1>2. CASE Committable(i, match) # {}
  <2>1. PICK k : k = Max(Committable(i, match))
    OBVIOUS
  <2>2. k \in Committable(i, match)
    <3>1. Committable(i, match) \subseteq 0..Len(log[i])
      BY <1>0 DEF Committable, LastLogIndex
    <3> QED
      BY <1>0, <1>2, <2>1, <3>1, MaxType
  <2>3. /\ k \in 1..Len(log[i]) /\ k > commitIndex[i] /\ log[i][k].term = currentTerm[i]
        /\ Cardinality({j \in Server : Replicated(i, match, j) >= k}) >= ReplicasNeeded
    BY <1>0, <2>2 DEF Committable, LastLogIndex
  <2>4. ASSUME \A j \in Peers(i) : ~(k <= match[j])
        PROVE  ReplicasNeeded <= 1
    <3>1. \A j \in Server : Replicated(i, match, j) >= k => j = i
      <4>1. SUFFICES ASSUME NEW j \in Server, j # i, Replicated(i, match, j) >= k PROVE FALSE
        OBVIOUS
      <4>2. match[j] >= k /\ match[j] \in Nat /\ k \in Nat
        BY <1>0, <2>3, <4>1 DEF Replicated
      <4> QED
        BY <2>4, <4>1, <4>2 DEF Peers
    <3>2. {j \in Server : Replicated(i, match, j) >= k} \subseteq {i}
      BY <3>1
    <3>3. IsFiniteSet({i}) /\ Cardinality({i}) = 1
      BY FS_Singleton, Zenon
    <3>4. /\ Cardinality({j \in Server : Replicated(i, match, j) >= k}) <= 1
          /\ Cardinality({j \in Server : Replicated(i, match, j) >= k}) \in Nat
      BY <3>2, <3>3, FS_Subset, FS_CardinalityType
    <3>5. ReplicasNeeded \in Int
      BY ServerAssumption, FS_CardinalityType DEF ReplicasNeeded
    <3> QED
      BY <2>3, <3>4, <3>5
  <2>5. /\ commitIndex' = [commitIndex EXCEPT ![i] = k]
        /\ committed' = [committed EXCEPT ![currentTerm[i]] = SubSeq(log[i], 1, k)]
    BY <1>2, <2>1 DEF TryAdvanceCommitIndex
  <2> QED
    BY <2>3, <2>4, <2>5
<1> QED
  BY <1>1, <1>2

\* CommitsSecured is kept when a replication is confirmed: what tryAdvanceCommitIndex
\* commits is of the leader's term and on a majority, so it is secured from here on.
LEMMA CommitsConfirms ==
  ASSUME TypeOK, TypeOK', ElectionInv, restarts = 0, RoleInv, ElectionSafety,
         NEW L \in Ghost, LeaderLogs(L), CommitsSecured(L), NEW m \in appendResps, Confirms(m)
  PROVE  CommitsSecured(L)'
<1> DEFINE i == m.to
<1>u. /\ UNCHANGED <<state, currentTerm, log, wins, votes>>
      /\ state[i] = "Leader" /\ currentTerm[i] = m.reqTerm /\ m.success
      /\ appendResps' = appendResps \ {m}
      /\ matchIndex' = [matchIndex EXCEPT ![m.to][m.from] = m.lastSent]
      /\ TryAdvanceCommitIndex(i, matchIndex'[i])
  BY DEF Confirms
<1>m. /\ i \in Server /\ m.from \in Server /\ m.lastSent \in Nat
      /\ \A q, j \in Server : matchIndex[q][j] \in Nat
      /\ \A q, j \in Server :
           matchIndex'[q][j] = IF q = i /\ j = m.from THEN m.lastSent ELSE matchIndex[q][j]
      /\ matchIndex'[i] \in [Server -> Nat]
  <2>1. /\ i \in Server /\ m.from \in Server /\ m.lastSent \in Nat
        /\ matchIndex \in [Server -> [Server -> Nat]]
    BY DEF TypeOK, AppendNetTypes, AppendResponse, LeaderTypes
  <2> QED
    BY <1>u, <2>1
<1>t. PICK t \in 1..MaxTerm : t = currentTerm[i]
  BY <1>u, <1>m, WonTerms
<1> HIDE DEF i
<1>l. L[t] = log[i] /\ log[i] \in Seq(Entry) /\ Len(log[i]) \in Nat
  <2>1. log[i] \in Seq(Entry) /\ Len(log[i]) \in Nat
    BY <1>m, TypeFacts
  <2>2. L[t] = log[i]
    BY <1>u, <1>m, <1>t DEF LeaderLogs
  <2> QED
    BY <2>1, <2>2
<1>0. ASSUME NEW u \in 1..MaxTerm, NEW k \in Nat, Secured(L, u, k) PROVE Secured(L, u, k)'
  <2>1. \A q \in Server : currentTerm[q] <= currentTerm'[q]
    BY <1>u DEF TypeOK, NodeTypes, Term
  <2>2. \A v \in votes' :
          /\ v.term > u /\ v.voter # v.candidate
          /\ state'[v.candidate] = "Candidate" /\ currentTerm'[v.candidate] = v.term
          => Has(log[v.candidate], k, u)
    BY <1>0, <1>u DEF Secured
  <2>3. UNCHANGED <<log, wins>> /\ u \in Nat
    BY <1>u
  <2> QED
    BY <1>0, <2>1, <2>2, <2>3, SecuredStay
<1>1. ASSUME NEW j \in Server, NEW p \in Server, NEW k \in Nat \ {0}, Acked(j, p, k)'
      PROVE  Acked(j, p, k)
  <2>1. CASE \E y \in appendResps' :
               /\ y.to = j /\ y.from = p /\ y.reqTerm = currentTerm'[j] /\ y.success /\ k <= y.lastSent
    BY <2>1, <1>u DEF Acked
  <2>2. CASE k <= matchIndex'[j][p]
    <3>1. CASE j = i /\ p = m.from
      BY <2>2, <3>1, <1>m, <1>u DEF Acked, i
    <3>2. CASE ~(j = i /\ p = m.from)
      BY <2>2, <3>2, <1>m DEF Acked
    <3> QED
      BY <3>1, <3>2
  <2> QED
    BY <1>1, <2>1, <2>2 DEF Acked
<1>2. AcksBounded(L)'
  <2>1. ASSUME NEW q \in Server, state'[q] = "Leader", NEW j \in Server
        PROVE  matchIndex'[q][j] <= Len(log'[q])
    <3>1. matchIndex[q][j] <= Len(log[q])
      BY <1>u, <2>1 DEF CommitsSecured, AcksBounded
    <3>2. CASE q = i /\ j = m.from
      <4>1. m.lastSent > 0 => m.lastSent <= Len(L[t])
        BY <1>u, <1>t DEF CommitsSecured, AcksBounded
      <4> QED
        BY <1>l, <1>m, <1>u, <3>2, <4>1
    <3>3. CASE ~(q = i /\ j = m.from)
      BY <1>m, <1>u, <3>1, <3>3
    <3> QED
      BY <3>2, <3>3
  <2>2. \A y \in appendResps' : y \in appendResps
    BY <1>u
  <2> QED
    BY <2>1, <2>2, AcksKept, GrownItself DEF CommitsSecured
<1>3. ASSUME NEW j \in Server, state'[j] = "Leader",
             Len(committed'[currentTerm[j]]) <= commitIndex'[j]
      PROVE  BackedAt(L, j)'
  <2>0. BackedAt(L, j) /\ currentTerm[j] \in 1..MaxTerm
    BY <1>3, <1>u, WonTerms DEF CommitsSecured, BackedSecured
  <2>1. PICK tj \in 1..MaxTerm : tj = currentTerm[j]
    BY <2>0
  <2>2. ASSUME NEW k \in 1..Len(log'[j]), log'[j][k].term = currentTerm'[j], Backed(j, k)'
        PROVE  Secured(L, tj, k)'
    <3>1. k \in Nat \ {0}
      BY <1>u DEF TypeOK, LogTypes
    <3>2. Backed(j, k)
      BY <1>1, <2>2, <3>1 DEF Backed, ReplicasNeeded, Peers
    <3>3. Secured(L, tj, k)
      BY <1>u, <2>0, <2>1, <2>2, <3>2 DEF BackedAt
    <3> QED
      BY <1>0, <3>1, <3>3
  <2>3. tj = currentTerm[j]'
    BY <1>u, <2>1
  <2>4. ASSUME NEW k \in 1..Len(log'[j]), log'[j][k].term = currentTerm'[j], Backed(j, k)'
        PROVE  Secured(L, currentTerm[j], k)'
    BY <2>2, <2>3, <2>4 DEF Secured
  <2>5. (Len(committed[currentTerm[j]]) <= commitIndex[j])'
    BY <1>3, <1>u
  <2> QED
    BY <2>4, <2>5 DEF BackedAt
<1>4. \A j \in Server : state[j] = "Leader" => Len(committed[currentTerm[j]]) <= commitIndex[j]
  BY DEF CommitsSecured, BackedSecured, BackedAt
<1>5. CASE UNCHANGED <<commitIndex, committed>>
  <2>1. CommittedSecured(L)'
    BY <1>0, <1>5, CommittedKept, GrownItself DEF CommitsSecured
  <2>2. BackedSecured(L)'
    BY <1>3, <1>4, <1>5, <1>u DEF BackedSecured
  <2> QED
    BY <1>2, <2>1, <2>2 DEF CommitsSecured
<1>6. ASSUME NEW K \in 1..Len(log[i]), K > commitIndex[i], log[i][K].term = currentTerm[i],
             ReplicasNeeded <= 1 \/ \E j \in Peers(i) : K <= matchIndex'[i][j],
             commitIndex' = [commitIndex EXCEPT ![i] = K],
             committed' = [committed EXCEPT ![currentTerm[i]] = SubSeq(log[i], 1, K)]
      PROVE  CommitsSecured(L)'
  <2>0. K \in Nat \ {0} /\ commitIndex \in [Server -> Nat] /\ committed \in [1..MaxTerm -> Seq(Entry)]
    BY <1>l DEF TypeOK, LogTypes, HistoryTypes
  <2>1. Secured(L, t, K)'
    <3>0. ASSUME NEW j \in Peers(i), K <= matchIndex'[i][j] PROVE Acked(i, j, K)
      <4>1. j \in Server
        BY DEF Peers
      <4>2. Acked(i, j, K)'
        BY <3>0 DEF Acked
      <4> QED
        BY <1>1, <1>m, <2>0, <4>1, <4>2
    <3>1. ReplicasNeeded <= 1 \/ \E j \in Peers(i) : Acked(i, j, K)
      BY <1>6, <3>0
    <3>2. Backed(i, K)
      BY <3>1 DEF Backed
    <3>3. Secured(L, t, K)
      BY <1>6, <1>m, <1>t, <1>u, <3>2 DEF CommitsSecured, BackedSecured, BackedAt
    <3> QED
      BY <1>0, <2>0, <3>3
  <2>2. /\ committed'[t] = SubSeq(log[i], 1, K)
        /\ \A u \in 1..MaxTerm : u # t => committed'[u] = committed[u]
    BY <1>6, <1>t, <2>0
  <2>3. /\ Len(committed'[t]) = K /\ \A n \in 1..K : committed'[t][n] = log[i][n]
    BY <1>l, <2>0, <2>2
  <2>4. ASSUME NEW u \in 1..MaxTerm
        PROVE  /\ Len(committed'[u]) <= Len(L[u])
               /\ \A n \in 1..Len(committed'[u]) : committed'[u][n] = L[u][n]
               /\ (committed[u] # << >> => Secured(L, u, Len(committed[u])))'
    <3>1. CASE u = t
      <4>1. K = Len(committed[u])'
        BY <2>3, <3>1
      <4>2. Secured(L, u, Len(committed[u]))'
        BY <2>1, <3>1, <4>1 DEF Secured
      <4> QED
        BY <1>l, <2>0, <2>3, <3>1, <4>2
    <3>2. CASE u # t
      <4>0. Len(committed[u]) \in Nat
        BY <2>0
      <4>1. PICK c \in Nat : c = Len(committed[u])
        BY <4>0
      <4>2. /\ Len(committed[u]) <= Len(L[u])
            /\ \A n \in 1..Len(committed[u]) : committed[u][n] = L[u][n]
            /\ committed[u] # << >> => Secured(L, u, c)
        BY <4>1 DEF CommitsSecured, CommittedSecured
      <4>3. c = Len(committed[u])' /\ committed'[u] = committed[u]
        BY <2>2, <3>2, <4>1
      <4>4. committed[u] # << >> => Secured(L, u, c)'
        BY <4>2, <1>0
      <4>5. (committed[u] # << >> => Secured(L, u, Len(committed[u])))'
        BY <4>3, <4>4 DEF Secured
      <4> QED
        BY <4>2, <4>3, <4>5
    <3> QED
      BY <3>1, <3>2
  <2>5. CommittedSecured(L)'
    BY <2>4 DEF CommittedSecured
  <2>6. ASSUME NEW j \in Server, state'[j] = "Leader"
        PROVE  Len(committed'[currentTerm[j]]) <= commitIndex'[j]
    <3>1. CASE j = i
      BY <1>6, <1>t, <2>0, <2>3, <3>1
    <3>2. CASE j # i
      <4>1. state[j] = "Leader" /\ currentTerm[j] \in 1..MaxTerm
        BY <1>u, <2>6, WonTerms
      <4>2. currentTerm[j] # t
        BY <1>m, <1>t, <1>u, <3>2, <4>1, OneLeader
      <4> QED
        BY <1>4, <1>6, <2>0, <2>2, <3>2, <4>1, <4>2
    <3> QED
      BY <3>1, <3>2
  <2>7. BackedSecured(L)'
    BY <1>3, <2>6 DEF BackedSecured
  <2> QED
    BY <1>2, <2>5, <2>7 DEF CommitsSecured
<1>7. PICK match \in [Server -> Nat] : match = matchIndex'[i]
  BY <1>m
<1> QED
  BY <1>5, <1>6, <1>7, <1>m, <1>u, AdvanceFacts

-----------------------------------------------------------------------------
(* The invariant of the logs *)

\* What is true of the leaders and the logs of a cluster that does not have exactly four
\* servers, while no server has restarted and no replicateToPeer was stopped half-way.
LogInv ==
  Cardinality(Server) # 4 /\ Calm =>
    RoleInv /\ \E L \in Ghost : LeaderLogs(L) /\ CommitsSecured(L)

\* Theorem ElectionSafe as a state formula.
SafeElections == Cardinality(Server) # 4 /\ restarts = 0 => ElectionSafety

\* Restarts and senders stopped half-way are counted upwards: a calm state was always calm.
LEMMA CalmBefore ==
  ASSUME TypeOK, [Next]_vars, Calm'
  PROVE  Calm
<1>0. restarts \in Nat /\ preemptedUsed \in Nat
  BY DEF TypeOK, HistoryTypes, GoroutineTypes
<1>1. CASE UNCHANGED vars
  BY <1>1 DEF vars, countVars, goVars, Calm
<1>2. CASE Next
  <2>1. restarts' = restarts \/ restarts' = restarts + 1
    BY <1>2 DEF Next, countVars,
      StartElection, HandleRequestVote, HandleVoteResponse, BecomeLeader, ElectionCompletes,
      AppendNoOpEntry, AppendLogEntry, ReplicateToPeer, PreemptAfterCheck, SendAfterPreemption,
      SendHeartbeats, SendHeartbeatToPeer, HandleAppendEntries, HandleAppendResponse, LoseAppend,
      ApplyCommittedEntries, Restart
  <2>2. preemptedUsed' = preemptedUsed \/ preemptedUsed' = preemptedUsed + 1
    BY <1>2 DEF Next, goVars,
      StartElection, HandleRequestVote, HandleVoteResponse, BecomeLeader, ElectionCompletes,
      AppendNoOpEntry, AppendLogEntry, ReplicateToPeer, PreemptAfterCheck, SendAfterPreemption,
      SendHeartbeats, SendHeartbeatToPeer, HandleAppendEntries, HandleAppendResponse, LoseAppend,
      ApplyCommittedEntries, Restart
  <2> QED
    BY <1>0, <2>1, <2>2 DEF Calm
<1> QED
  BY <1>1, <1>2

\* The invariant of the logs holds initially, when no term has a leader.
LEMMA LogInit ==
  ASSUME Init
  PROVE  LogInv
<1> DEFINE L0 == [t \in 1..MaxTerm |-> << >>]
<1>1. RoleInv
  BY DEF Init, RoleInv, WinnersLead, Campaigns, SentByWinners
<1>2. L0 \in Ghost
  BY DEF Ghost
<1>3. LeaderLogs(L0)
  BY BoundAssumption DEF Init, LeaderLogs, Follows, TermsUpTo
<1>4. CommitsSecured(L0)
  <2>1. AcksBounded(L0)
    BY DEF Init, AcksBounded
  <2>2. CommittedSecured(L0)
    BY DEF Init, CommittedSecured
  <2>3. BackedSecured(L0)
    BY DEF Init, BackedSecured
  <2> QED
    BY <2>1, <2>2, <2>3 DEF CommitsSecured
<1> QED
  BY <1>1, <1>2, <1>3, <1>4 DEF LogInv

\* Every step leaves logs that follow from the leaders' logs, grown or not by the step.
LEMMA LogSteps ==
  ASSUME TypeOK, TypeOK', ElectionInv, ElectionInv', restarts = 0, restarts' = 0,
         ElectionSafety, ElectionSafety', RoleInv, RoleInv', Cardinality(Server) # 4,
         NEW L \in Ghost, LeaderLogs(L), CommitsSecured(L), StepsOf(L)
  PROVE  \E M \in Ghost : LeaderLogs(M)' /\ CommitsSecured(M)' /\ Grown(L, M)
<1>g. Grown(L, L)
  BY GrownItself
<1>1. CASE Fade(L)
  <2>1. LeaderLogs(L)'
    BY <1>1, LogsFade
  <2>2. CommitsSecured(L)'
    BY <1>1, CommitsFade
  <2> QED
    BY <1>g, <2>1, <2>2
<1>2. ASSUME NEW i \in Server, Stands(i)
      PROVE  \E M \in Ghost : LeaderLogs(M)' /\ CommitsSecured(M)' /\ Grown(L, M)
  <2>1. LeaderLogs(L)'
    BY <1>2, LogsStands
  <2>2. CommitsSecured(L)'
    BY <1>2, CommitsStands
  <2> QED
    BY <1>g, <2>1, <2>2
<1>3. ASSUME NEW i \in Server, Wins(i)
      PROVE  \E M \in Ghost : LeaderLogs(M)' /\ CommitsSecured(M)' /\ Grown(L, M)
  <2>1. /\ currentTerm[i] \in 1..MaxTerm /\ ~Won(currentTerm[i])
        /\ \E M \in Ghost : M = [L EXCEPT ![currentTerm[i]] = log[i]] /\ LeaderLogs(M)'
    BY <1>3, LogsWins
  <2>2. PICK M \in Ghost : M = [L EXCEPT ![currentTerm[i]] = log[i]] /\ LeaderLogs(M)'
    BY <2>1
  <2>3. CommitsSecured(M)' /\ Grown(L, M)
    BY <1>3, <2>1, <2>2, CommitsWins
  <2> QED
    BY <2>2, <2>3
<1>4. ASSUME NEW i \in Server, NEW v \in Value \cup {NoOp}, Extends(i, v)
      PROVE  \E M \in Ghost : LeaderLogs(M)' /\ CommitsSecured(M)' /\ Grown(L, M)
  <2>1. PICK M \in Ghost :
          /\ LeaderLogs(M)'
          /\ \A u \in 1..MaxTerm :
               Len(L[u]) <= Len(M[u]) /\ \A n \in 1..Len(L[u]) : M[u][n] = L[u][n]
    BY <1>4, LogsExtends
  <2>2. Grown(L, M)
    BY <2>1 DEF Grown
  <2>3. CommitsSecured(M)'
    BY <1>4, <2>1, <2>2, CommitsExtends
  <2> QED
    BY <2>1, <2>2, <2>3
<1>5. ASSUME NEW m \in voteReqs, Grants(m)
      PROVE  \E M \in Ghost : LeaderLogs(M)' /\ CommitsSecured(M)' /\ Grown(L, M)
  <2>1. LeaderLogs(L)'
    BY <1>5, LogsGrants
  <2>2. CommitsSecured(L)'
    BY <1>5, CommitsGrants
  <2> QED
    BY <1>g, <2>1, <2>2
<1>6. ASSUME NEW m \in appendReqs, Accepts(m)
      PROVE  \E M \in Ghost : LeaderLogs(M)' /\ CommitsSecured(M)' /\ Grown(L, M)
  <2>1. LeaderLogs(L)'
    BY <1>6, LogsAccepts
  <2>2. CommitsSecured(L)'
    BY <1>6, CommitsAccepts
  <2> QED
    BY <1>g, <2>1, <2>2
<1>7. ASSUME NEW m \in appendResps, Confirms(m)
      PROVE  \E M \in Ghost : LeaderLogs(M)' /\ CommitsSecured(M)' /\ Grown(L, M)
  <2>1. LeaderLogs(L)'
    BY <1>7, LogsConfirms
  <2>2. CommitsSecured(L)'
    BY <1>7, CommitsConfirms
  <2> QED
    BY <1>g, <2>1, <2>2
<1> QED
  BY <1>1, <1>2, <1>3, <1>4, <1>5, <1>6, <1>7 DEF StepsOf

\* Every step of a calm cluster keeps the invariant of the logs.
LEMMA LogNext ==
  ASSUME TypeOK, TypeOK', ElectionInv, ElectionInv', SafeElections, SafeElections', LogInv, [Next]_vars
  PROVE  LogInv'
<1> SUFFICES ASSUME Cardinality(Server) # 4, Calm'
             PROVE  RoleInv' /\ \E M \in Ghost : LeaderLogs(M)' /\ CommitsSecured(M)'
  BY DEF LogInv, Ghost, Entry, Term
<1>0. Calm /\ restarts = 0 /\ restarts' = 0
  BY CalmBefore DEF Calm
<1>1. ElectionSafety /\ ElectionSafety'
  BY <1>0 DEF SafeElections
<1>2. RoleInv
  BY <1>0 DEF LogInv
<1>3. PICK L \in Ghost : LeaderLogs(L) /\ CommitsSecured(L)
  BY <1>0 DEF LogInv
<1>4. StepsOf(L)
  BY <1>0, <1>1, <1>2, <1>3, StepsCovered
<1>5. RoleInv'
  BY <1>2, <1>4, RoleSteps
<1> QED
  BY <1>0, <1>1, <1>2, <1>3, <1>4, <1>5, LogSteps

-----------------------------------------------------------------------------
(* What it means for logs, leaders and committed entries *)

\* A sequence is a prefix of another when they agree on its elements.
LEMMA PrefixByElements ==
  ASSUME NEW s \in Seq(Entry), NEW r \in Seq(Entry), Len(s) <= Len(r), \A n \in 1..Len(s) : s[n] = r[n]
  PROVE  IsPrefix(s, r)
<1>1. Len(s) \in Nat /\ Len(r) \in Nat
  OBVIOUS
<1>2. SubSeq(s, 1, Len(s)) = SubSeq(r, 1, Len(s))
  BY <1>1
<1> QED
  BY <1>2 DEF IsPrefix

\* Entries of the same index and term come from the same leader, with all before them.
LEMMA LogsThatMatch ==
  ASSUME TypeOK, NEW L \in Ghost, LeaderLogs(L)
  PROVE  LogMatching
<1> SUFFICES ASSUME NEW i \in Server, NEW j \in Server, NEW k \in 1..Len(log[i]),
                    k <= Len(log[j]), log[i][k].term = log[j][k].term
             PROVE  SubSeq(log[i], 1, k) = SubSeq(log[j], 1, k)
  BY DEF LogMatching, LastLogIndex
<1>1. /\ log[i] \in Seq(Entry) /\ log[j] \in Seq(Entry) /\ Len(log[i]) \in Nat /\ Len(log[j]) \in Nat
      /\ Follows(log[i], L) /\ Follows(log[j], L)
  BY TypeFacts DEF LeaderLogs
<1>2. \A n \in 1..k : log[i][n] = log[j][n]
  BY <1>1, FollowsAgree
<1> QED
  BY <1>1, <1>2

\* What a leader committed is a prefix of the log of every leader of its or a later term.
LEMMA CommittedInLater ==
  ASSUME TypeOK, NEW L \in Ghost, LeaderLogs(L), CommitsSecured(L), NEW t \in 1..MaxTerm,
         NEW u \in 1..MaxTerm, t <= u, Won(u)
  PROVE  /\ Len(committed[t]) \in Nat /\ Len(committed[t]) <= Len(L[u])
         /\ \A n \in 1..Len(committed[t]) : committed[t][n] = L[u][n]
<1>0. committed[t] \in Seq(Entry) /\ Len(committed[t]) \in Nat /\ Len(L[u]) \in Nat
  BY DEF TypeOK, HistoryTypes, Ghost
<1>1. /\ Len(committed[t]) <= Len(L[t])
      /\ \A n \in 1..Len(committed[t]) : committed[t][n] = L[t][n]
      /\ committed[t] # << >> => Secured(L, t, Len(committed[t]))
  BY DEF CommitsSecured, CommittedSecured
<1>2. CASE t = u
  BY <1>0, <1>1, <1>2
<1>3. CASE t < u /\ committed[t] = << >>
  BY <1>0, <1>3
<1>4. CASE t < u /\ committed[t] # << >>
  <2>1. Has(L[u], Len(committed[t]), t)
    BY <1>1, <1>4 DEF Secured
  <2>2. Follows(L[u], L)
    BY DEF LeaderLogs
  <2>3. /\ Len(committed[t]) \in 1..Len(L[u])
        /\ \A n \in 1..Len(committed[t]) : L[u][n] = L[t][n]
    BY <2>1, <2>2 DEF Has, Follows
  <2> QED
    BY <1>0, <1>1, <2>3
<1> QED
  BY <1>2, <1>3, <1>4

\* A leader holds what the leaders of its and of earlier terms committed.
LEMMA LeadersHold ==
  ASSUME TypeOK, ElectionInv, restarts = 0, RoleInv, NEW L \in Ghost, LeaderLogs(L), CommitsSecured(L)
  PROVE  LeaderCompleteness
<1> SUFFICES ASSUME NEW i \in Server, state[i] = "Leader", NEW t \in 1..currentTerm[i]
             PROVE  IsPrefix(committed[t], log[i])
  BY DEF LeaderCompleteness
<1>1. currentTerm[i] \in 1..MaxTerm /\ Won(currentTerm[i]) /\ log[i] = L[currentTerm[i]]
  BY WonTerms DEF LeaderLogs
<1>2. t \in 1..MaxTerm /\ t <= currentTerm[i]
  BY <1>1, BoundAssumption
<1>3. /\ Len(committed[t]) <= Len(log[i])
      /\ \A n \in 1..Len(committed[t]) : committed[t][n] = log[i][n]
  BY <1>1, <1>2, CommittedInLater
<1>4. committed[t] \in Seq(Entry) /\ log[i] \in Seq(Entry)
  BY <1>2 DEF TypeOK, HistoryTypes, LogTypes
<1> QED
  BY <1>3, <1>4, PrefixByElements

\* All servers but one hold what was committed, so a majority does where there are three.
LEMMA MajorityHolds ==
  ASSUME TypeOK, ElectionInv, restarts = 0, Cardinality(Server) \notin {0, 2},
         NEW L \in Ghost, LeaderLogs(L), CommitsSecured(L)
  PROVE  CommittedOnMajority
<1> SUFFICES ASSUME NEW t \in 1..MaxTerm
             PROVE  2 * Cardinality({j \in Server : IsPrefix(committed[t], log[j])}) > Cardinality(Server)
  BY DEF CommittedOnMajority
<1> DEFINE H == {j \in Server : IsPrefix(committed[t], log[j])}
<1>0. committed[t] \in Seq(Entry) /\ Len(committed[t]) \in Nat /\ Cardinality(Server) \in Nat
  BY ServerAssumption, FS_CardinalityType DEF TypeOK, HistoryTypes
<1>1. CASE committed[t] = << >>
  <2>1. ASSUME NEW j \in Server PROVE IsPrefix(committed[t], log[j])
    <3>1. log[j] \in Seq(Entry) /\ Len(log[j]) \in Nat
      BY TypeFacts
    <3> QED
      BY <1>1, <3>1 DEF IsPrefix
  <2>2. H = Server
    BY <2>1
  <2> HIDE DEF H
  <2>3. 2 * Cardinality(H) > Cardinality(Server)
    BY <1>0, <2>2
  <2> QED
    BY <2>3 DEF H
<1>2. CASE committed[t] # << >>
  <2>1. PICK c \in Nat : c = Len(committed[t])
    BY <1>0
  <2>2. Secured(L, t, c) /\ c <= Len(L[t]) /\ \A n \in 1..c : committed[t][n] = L[t][n]
    BY <1>2, <2>1 DEF CommitsSecured, CommittedSecured
  <2>3. PICK r \in Server : \A q \in Server \ {r} : Has(log[q], c, t)
    BY <2>2 DEF Secured
  <2>4. ASSUME NEW q \in Server \ {r} PROVE q \in H
    <3>1. Has(log[q], c, t) /\ Follows(log[q], L) /\ log[q] \in Seq(Entry) /\ Len(log[q]) \in Nat
      BY <2>3, TypeFacts DEF LeaderLogs
    <3>2. c \in 1..Len(log[q]) /\ \A n \in 1..c : log[q][n] = L[t][n]
      BY <3>1 DEF Has, Follows
    <3> QED
      BY SMTT(30), <1>0, <2>1, <2>2, <3>1, <3>2, PrefixByElements
  <2>5. Server \ {r} \subseteq H /\ H \subseteq Server
    BY <2>4
  <2>6. IsFiniteSet(Server \ {r}) /\ Cardinality(Server \ {r}) = Cardinality(Server) - 1
    BY ServerAssumption, FS_RemoveElement
  <2>7. IsFiniteSet(H)
    BY ServerAssumption, FS_Subset
  <2> HIDE DEF H
  <2>8. Cardinality(Server \ {r}) <= Cardinality(H) /\ Cardinality(H) \in Nat
    BY <2>5, <2>7, FS_Subset, FS_CardinalityType
  <2>9. Cardinality(Server) > 2
    <3>1. L[t] # << >>
      BY <2>2 DEF Secured, Has
    <3>2. wins # {}
      BY <3>1 DEF LeaderLogs, Won
    <3> QED
      BY <3>2, WonInSmallClusters
  <2>10. 2 * Cardinality(H) > Cardinality(Server)
    BY <1>0, <2>6, <2>8, <2>9
  <2> QED
    BY <2>10 DEF H
<1> QED
  BY <1>1, <1>2

\* A leader that goes on leading its term keeps its log or appends to it.
LEMMA LeadersAppend ==
  ASSUME TypeOK, TypeOK', ElectionInv, restarts = 0, RoleInv, NEW L \in Ghost, NEW M \in Ghost,
         LeaderLogs(L), LeaderLogs(M)', Grown(L, M),
         NEW i \in Server, state[i] = "Leader", state'[i] = "Leader", currentTerm'[i] = currentTerm[i]
  PROVE  IsPrefix(log[i], log'[i])
<1>1. currentTerm[i] \in 1..MaxTerm
  BY WonTerms
<1>2. log[i] = L[currentTerm[i]] /\ log'[i] = M[currentTerm[i]]
  BY DEF LeaderLogs
<1>3. log[i] \in Seq(Entry) /\ log'[i] \in Seq(Entry)
  BY DEF TypeOK, LogTypes
<1>4. Len(log[i]) <= Len(log'[i]) /\ \A n \in 1..Len(log[i]) : log[i][n] = log'[i][n]
  BY <1>1, <1>2 DEF Grown
<1> QED
  BY <1>3, <1>4, PrefixByElements

\* The invariant of the logs holds of every behaviour of Raft.tla.
LEMMA LogInvHolds == Spec => []LogInv
<1>1. Init => LogInv
  BY LogInit
<1>2. /\ TypeOK /\ ElectionInv /\ SafeElections
      /\ TypeOK' /\ ElectionInv' /\ SafeElections'
      /\ LogInv /\ [Next]_vars
      => LogInv'
  BY LogNext
<1>3. Spec => []SafeElections
  BY ElectionSafe DEF SafeElections
<1> QED
  BY TypeCorrect, VotesBacked, <1>1, <1>2, <1>3, PTL DEF Spec

\* What applyLogEntries truncates and appends never sets two logs at odds: logs with an entry
\* of the same index and term agree up to it, in every cluster that has not exactly four
\* servers, as long as no server has restarted and no replicateToPeer was stopped between its
\* leader check and its request (it sends, as a follower, under a term it never led).
THEOREM LogsMatch ==
  Spec => [](Cardinality(Server) # 4 /\ restarts = 0 /\ preemptedUsed = 0 => LogMatching)
<1>1. TypeOK /\ LogInv => (Cardinality(Server) # 4 /\ restarts = 0 /\ preemptedUsed = 0 => LogMatching)
  BY LogsThatMatch DEF LogInv, Calm
<1> QED
  BY TypeCorrect, LogInvHolds, <1>1, PTL

\* Under the same conditions a leader holds all that tryAdvanceCommitIndex of its and of
\* earlier leaders has committed: what requestVote compares, and the majorities that the
\* names "" of AddVote leave, are enough for that.
THEOREM LeadersComplete ==
  Spec => [](Cardinality(Server) # 4 /\ restarts = 0 /\ preemptedUsed = 0 => LeaderCompleteness)
<1>1. TypeOK /\ ElectionInv /\ LogInv =>
        (Cardinality(Server) # 4 /\ restarts = 0 /\ preemptedUsed = 0 => LeaderCompleteness)
  BY LeadersHold DEF LogInv, Calm
<1> QED
  BY TypeCorrect, VotesBacked, LogInvHolds, <1>1, PTL

\* Under the same conditions what tryAdvanceCommitIndex committed stays in the logs of a
\* majority.  Two servers are the exception, where the leader alone commits: its position
\* (clusterSize - 1) / 2 is then that of its own log.
THEOREM CommittedStays ==
  Spec => [](Cardinality(Server) \notin {0, 2, 4} /\ restarts = 0 /\ preemptedUsed = 0
             => CommittedOnMajority)
<1>1. TypeOK /\ ElectionInv /\ LogInv =>
        (Cardinality(Server) \notin {0, 2, 4} /\ restarts = 0 /\ preemptedUsed = 0
           => CommittedOnMajority)
  BY MajorityHolds DEF LogInv, Calm
<1> QED
  BY TypeCorrect, VotesBacked, LogInvHolds, <1>1, PTL

\* Under the same conditions a leader never truncates or overwrites its log, although
\* processAppendEntries does not ask whether the node leads: no request of its term reaches
\* it, as only the one winner of the term sends any, and sends them to others.
THEOREM LeadersOnlyAppend ==
  Spec /\ [](Cardinality(Server) # 4 /\ restarts = 0 /\ preemptedUsed = 0) => LeaderAppendOnly
<1> DEFINE Quiet == Cardinality(Server) # 4 /\ restarts = 0 /\ preemptedUsed = 0
           Appends == \A i \in Server :
             state[i] = "Leader" /\ state'[i] = "Leader" /\ currentTerm'[i] = currentTerm[i]
               => IsPrefix(log[i], log'[i])
<1>1. /\ TypeOK /\ ElectionInv /\ SafeElections /\ LogInv
      /\ TypeOK' /\ ElectionInv' /\ SafeElections'
      /\ Quiet /\ Quiet' /\ [Next]_vars
      => Appends
  <2> SUFFICES ASSUME TypeOK, ElectionInv, SafeElections, LogInv, TypeOK', ElectionInv', SafeElections',
                      Quiet, Quiet', [Next]_vars
               PROVE  Appends
    OBVIOUS
  <2>0. Calm /\ Calm' /\ restarts = 0 /\ restarts' = 0 /\ Cardinality(Server) # 4
    BY DEF Calm
  <2>1. ElectionSafety /\ ElectionSafety'
    BY <2>0 DEF SafeElections
  <2>2. RoleInv
    BY <2>0 DEF LogInv
  <2>3. PICK L \in Ghost : LeaderLogs(L) /\ CommitsSecured(L)
    BY <2>0 DEF LogInv
  <2>4. StepsOf(L)
    BY <2>0, <2>1, <2>2, <2>3, StepsCovered
  <2>5. RoleInv'
    BY <2>2, <2>4, RoleSteps
  <2>6. PICK M \in Ghost : LeaderLogs(M)' /\ Grown(L, M)
    BY <2>0, <2>1, <2>2, <2>3, <2>4, <2>5, LogSteps
  <2> QED
    BY <2>0, <2>2, <2>3, <2>6, LeadersAppend
<1>2. Spec => []SafeElections
  BY ElectionSafe DEF SafeElections
<1> QED
  BY TypeCorrect, VotesBacked, LogInvHolds, <1>1, <1>2, PTL DEF Spec, LeaderAppendOnly

-----------------------------------------------------------------------------
(* Leaders and the requests of others, senders stopped half-way included *)

\* A leader has won its term, and requests go to others.
LeadersKnown ==
  /\ \A i \in Server : state[i] = "Leader" => [leader |-> i, term |-> currentTerm[i]] \in wins
  /\ \A m \in appendReqs : m.from # m.to
  /\ \A b \in beats : b.from # b.to
  /\ \A p \in preempted : p.from # p.to

\* Leaders stay known where nobody becomes leader and no request is made.
LEMMA LeadersStayKnown ==
  ASSUME LeadersKnown, wins \subseteq wins', appendReqs' \subseteq appendReqs, beats' \subseteq beats,
         preempted' \subseteq preempted,
         \A i \in Server : \/ state'[i] # "Leader"
                           \/ state'[i] = state[i] /\ currentTerm'[i] = currentTerm[i]
  PROVE  LeadersKnown'
BY DEF LeadersKnown

\* A node that takes over a newer term, or answers as what it was, becomes no leader.
LEMMA NoNewLeader ==
  ASSUME TypeOK, NEW i \in Server, NEW t \in Nat,
         \/ StepDown(i, t)
         \/ UNCHANGED <<state, currentTerm>>
         \/ \E m : m.term = t /\ t >= currentTerm[i] /\ AdoptTerm(m, i)
  PROVE  \A j \in Server : \/ state'[j] # "Leader"
                           \/ state'[j] = state[j] /\ currentTerm'[j] = currentTerm[j]
<1>0. state \in [Server -> {"Follower", "Candidate", "Leader"}] /\ currentTerm \in [Server -> Nat]
  BY DEF TypeOK, NodeTypes, Term
<1>1. CASE StepDown(i, t)
  BY <1>0, <1>1 DEF StepDown
<1>2. CASE UNCHANGED <<state, currentTerm>>
  BY <1>2
<1>3. CASE \E m : m.term = t /\ t >= currentTerm[i] /\ AdoptTerm(m, i)
  BY <1>0, <1>3 DEF AdoptTerm
<1> QED
  BY <1>1, <1>2, <1>3

\* Every step keeps the leaders known.
LEMMA LeadersKnownNext ==
  ASSUME TypeOK, LeadersKnown, [Next]_vars
  PROVE  LeadersKnown'
<1>0. /\ state \in [Server -> {"Follower", "Candidate", "Leader"}] /\ currentTerm \in [Server -> Nat]
      /\ \A i \in Server : \A j \in Peers(i) : i # j
  BY DEF TypeOK, NodeTypes, Term, Peers
<1>q. ASSUME UNCHANGED <<state, currentTerm, wins, beats, preempted>>, appendReqs' \subseteq appendReqs
      PROVE  LeadersKnown'
  BY <1>q, LeadersStayKnown
<1>1. CASE UNCHANGED vars
  BY <1>1, <1>q DEF vars, nodeVars, goVars, appendNet, histVars
<1>2. CASE \E i \in Server : StartElection(i)
  <2>1. PICK i \in Server : StartElection(i)
    BY <1>2
  <2>2. UNCHANGED <<wins, beats, preempted, appendReqs>>
    BY <2>1 DEF StartElection, goVars, appendNet
  <2>3. \A j \in Server : state'[j] # "Leader" \/ (state'[j] = state[j] /\ currentTerm'[j] = currentTerm[j])
    BY <1>0, <2>1 DEF StartElection
  <2> QED
    BY <2>2, <2>3, LeadersStayKnown
<1>3. CASE \E m \in voteReqs : HandleRequestVote(m)
  <2>1. PICK m \in voteReqs : HandleRequestVote(m)
    BY <1>3
  <2>2. UNCHANGED <<wins, beats, preempted, appendReqs>>
    BY <2>1 DEF HandleRequestVote, goVars, appendNet
  <2>3. m.to \in Server
    BY DEF TypeOK, VoteNetTypes, VoteRequest
  <2>4. \A j \in Server : state'[j] # "Leader" \/ (state'[j] = state[j] /\ currentTerm'[j] = currentTerm[j])
    BY <1>0, <2>1, <2>3 DEF HandleRequestVote
  <2> QED
    BY <2>2, <2>4, LeadersStayKnown
<1>4. CASE \E m \in voteResps : HandleVoteResponse(m)
  <2>1. PICK m \in voteResps : HandleVoteResponse(m)
    BY <1>4
  <2>2. UNCHANGED <<wins, beats, preempted, appendReqs>>
    BY <2>1 DEF HandleVoteResponse, goVars, appendNet, histVars
  <2>3. m.to \in Server /\ m.term \in Nat
    BY DEF TypeOK, VoteNetTypes, VoteResponse, Term
  <2>4. StepDown(m.to, m.term) \/ UNCHANGED <<state, currentTerm>>
    BY <2>1 DEF HandleVoteResponse
  <2>5. \A j \in Server : state'[j] # "Leader" \/ (state'[j] = state[j] /\ currentTerm'[j] = currentTerm[j])
    BY <2>3, <2>4, NoNewLeader
  <2> QED
    BY <2>2, <2>5, LeadersStayKnown
<1>5. CASE \E i \in Server : BecomeLeader(i)
  <2>1. PICK i \in Server : BecomeLeader(i)
    BY <1>5
  <2>2. UNCHANGED <<currentTerm, beats, preempted, appendReqs>>
    BY <2>1 DEF BecomeLeader, goVars, appendNet
  <2>3. \/ UNCHANGED <<state, wins>>
        \/ /\ state' = [state EXCEPT ![i] = "Leader"]
           /\ wins' = wins \cup {[leader |-> i, term |-> currentTerm[i]]}
    BY <2>1 DEF BecomeLeader
  <2> QED
    BY <1>0, <2>2, <2>3 DEF LeadersKnown
<1>6. CASE \E i \in Server : ElectionCompletes(i)
  BY <1>6, <1>q DEF ElectionCompletes, nodeVars, goVars, appendNet, histVars
<1>7. CASE \E i \in Server : AppendNoOpEntry(i)
  BY <1>7, <1>q DEF AppendNoOpEntry, goVars, appendNet, histVars
<1>8. CASE \E i \in Server, v \in Value : AppendLogEntry(i, v)
  BY <1>8, <1>q DEF AppendLogEntry, goVars, appendNet, histVars
<1>9. CASE \E i \in Server : \E j \in Peers(i) : ReplicateToPeer(i, j)
  BY <1>0, <1>9 DEF ReplicateToPeer, BuildAppendEntriesRequest, LeadersKnown, nodeVars, goVars, histVars
<1>10. CASE \E i \in Server : \E j \in Peers(i) : PreemptAfterCheck(i, j)
  BY <1>0, <1>10 DEF PreemptAfterCheck, LeadersKnown, nodeVars, appendNet, histVars
<1>11. CASE \E p \in preempted : SendAfterPreemption(p)
  BY <1>11 DEF SendAfterPreemption, BuildAppendEntriesRequest, LeadersKnown, nodeVars, histVars
<1>12. CASE \E i \in Server : SendHeartbeats(i)
  BY <1>0, <1>12 DEF SendHeartbeats, LeadersKnown, nodeVars, appendNet, histVars
<1>13. CASE \E b \in beats : SendHeartbeatToPeer(b)
  BY <1>13 DEF SendHeartbeatToPeer, BuildHeartbeat, LeadersKnown, nodeVars, histVars
<1>14. CASE \E m \in appendReqs : HandleAppendEntries(m)
  <2>1. PICK m \in appendReqs : HandleAppendEntries(m)
    BY <1>14
  <2>2. UNCHANGED <<wins, beats, preempted>> /\ appendReqs' \subseteq appendReqs
    BY <2>1 DEF HandleAppendEntries, goVars, histVars
  <2>3. m.to \in Server /\ m.term \in Nat
    BY TypeFacts
  <2>4. UNCHANGED <<state, currentTerm>> \/ (m.term >= currentTerm[m.to] /\ AdoptTerm(m, m.to))
    BY <2>1 DEF HandleAppendEntries, nodeVars
  <2>5. \A j \in Server : state'[j] # "Leader" \/ (state'[j] = state[j] /\ currentTerm'[j] = currentTerm[j])
    BY <2>3, <2>4, NoNewLeader
  <2> QED
    BY <2>2, <2>5, LeadersStayKnown
<1>15. CASE \E m \in appendResps : HandleAppendResponse(m)
  <2>1. PICK m \in appendResps : HandleAppendResponse(m)
    BY <1>15
  <2>2. UNCHANGED <<wins, beats, preempted, appendReqs>>
    BY <2>1 DEF HandleAppendResponse, goVars
  <2>3. m.to \in Server /\ m.term \in Nat
    BY DEF TypeOK, AppendNetTypes, AppendResponse, Term
  <2>4. StepDown(m.to, m.term) \/ UNCHANGED <<state, currentTerm>>
    BY <2>1 DEF HandleAppendResponse
  <2>5. \A j \in Server : state'[j] # "Leader" \/ (state'[j] = state[j] /\ currentTerm'[j] = currentTerm[j])
    BY <2>3, <2>4, NoNewLeader
  <2> QED
    BY <2>2, <2>5, LeadersStayKnown
<1>16. CASE LoseAppend
  BY <1>16, <1>q DEF LoseAppend, nodeVars, goVars, histVars
<1>17. CASE \E i \in Server : ApplyCommittedEntries(i)
  BY <1>17, <1>q DEF ApplyCommittedEntries, nodeVars, goVars, appendNet, histVars
<1>18. CASE \E i \in Server : Restart(i)
  <2>1. PICK i \in Server : Restart(i)
    BY <1>18
  <2>2. /\ UNCHANGED <<wins, appendReqs>> /\ beats' \subseteq beats /\ preempted' \subseteq preempted
    BY <2>1 DEF Restart, histVars
  <2>3. \A j \in Server : state'[j] # "Leader" \/ (state'[j] = state[j] /\ currentTerm'[j] = currentTerm[j])
    BY <1>0, <2>1 DEF Restart
  <2> QED
    BY <2>2, <2>3, LeadersStayKnown
<1> QED
  BY <1>1, <1>2, <1>3, <1>4, <1>5, <1>6, <1>7, <1>8, <1>9, <1>10, <1>11, <1>12, <1>13, <1>14,
     <1>15, <1>16, <1>17, <1>18 DEF Next

\* How the log of a server may change: an entry of its own is appended, or a request with the
\* term that the server then has is accepted, or the server restarts.
LEMMA LogChanges ==
  ASSUME TypeOK, [Next]_vars, NEW i \in Server
  PROVE  \/ log'[i] = log[i]
         \/ \E v \in Value \cup {NoOp} : log'[i] = Appended(i, v)
         \/ \E m \in appendReqs \ appendReqs' : m.to = i /\ m.term = currentTerm'[i]
         \/ restarts' = restarts + 1
<1>0. log \in [Server -> Seq(Entry)] /\ currentTerm \in [Server -> Nat]
  BY DEF TypeOK, LogTypes, NodeTypes, Term
<1>q. CASE UNCHANGED log
  BY <1>q
<1>1. CASE UNCHANGED vars
  BY <1>1, <1>q DEF vars, nodeVars
<1>2. CASE \E j \in Server : AppendNoOpEntry(j)
  <2>1. PICK j \in Server : log' = log \/ log' = [log EXCEPT ![j] = Appended(j, NoOp)]
    BY <1>2 DEF AppendNoOpEntry
  <2> QED
    BY <1>0, <2>1
<1>3. CASE \E j \in Server, v \in Value : AppendLogEntry(j, v)
  <2>1. PICK j \in Server, v \in Value : log' = [log EXCEPT ![j] = Appended(j, v)]
    BY <1>3 DEF AppendLogEntry
  <2> QED
    BY <1>0, <2>1
<1>4. CASE \E m \in appendReqs : HandleAppendEntries(m)
  <2>1. PICK m \in appendReqs : HandleAppendEntries(m)
    BY <1>4
  <2>2. m.to \in Server /\ m \notin appendReqs'
    BY <2>1, TypeFacts DEF HandleAppendEntries
  <2>3. \/ UNCHANGED log
        \/ AdoptTerm(m, m.to) /\ log' = [log EXCEPT ![m.to] = ApplyLogEntries(m, m.to)]
    BY <2>1 DEF HandleAppendEntries, nodeVars
  <2>4. CASE AdoptTerm(m, m.to) /\ log' = [log EXCEPT ![m.to] = ApplyLogEntries(m, m.to)]
    <3>1. currentTerm'[m.to] = m.term
      BY <1>0, <2>2, <2>4 DEF AdoptTerm
    <3>2. m.to # i => log'[i] = log[i]
      BY <1>0, <2>4
    <3> QED
      BY <2>2, <3>1, <3>2
  <2> QED
    BY <2>3, <2>4, <1>q
<1>5. CASE \E j \in Server : Restart(j)
  BY <1>5 DEF Restart
<1>6. CASE \/ \E j \in Server : \/ StartElection(j) \/ BecomeLeader(j) \/ ElectionCompletes(j)
                                \/ SendHeartbeats(j) \/ ApplyCommittedEntries(j)
           \/ \E m \in voteReqs : HandleRequestVote(m)
           \/ \E m \in voteResps : HandleVoteResponse(m)
  BY <1>6, <1>q DEF nodeVars, StartElection, BecomeLeader, ElectionCompletes, SendHeartbeats,
                    ApplyCommittedEntries, HandleRequestVote, HandleVoteResponse
<1>7. CASE \/ \E j \in Server : \E p \in Peers(j) : ReplicateToPeer(j, p) \/ PreemptAfterCheck(j, p)
           \/ \E p \in preempted : SendAfterPreemption(p)
           \/ \E b \in beats : SendHeartbeatToPeer(b)
           \/ \E m \in appendResps : HandleAppendResponse(m)
           \/ LoseAppend
  BY <1>7, <1>q DEF nodeVars, ReplicateToPeer, PreemptAfterCheck, SendAfterPreemption,
                    SendHeartbeatToPeer, HandleAppendResponse, LoseAppend
<1> QED
  BY <1>1, <1>2, <1>3, <1>4, <1>5, <1>6, <1>7 DEF Next

\* Restarts are counted upwards.
LEMMA NoRestartBefore ==
  ASSUME TypeOK, [Next]_vars, restarts' = 0
  PROVE  restarts = 0
<1>0. restarts \in Nat
  BY DEF TypeOK, HistoryTypes
<1>1. CASE UNCHANGED vars
  BY <1>1 DEF vars, countVars
<1>2. CASE Next
  <2>1. restarts' = restarts \/ restarts' = restarts + 1
    BY <1>2 DEF Next, countVars,
      StartElection, HandleRequestVote, HandleVoteResponse, BecomeLeader, ElectionCompletes,
      AppendNoOpEntry, AppendLogEntry, ReplicateToPeer, PreemptAfterCheck, SendAfterPreemption,
      SendHeartbeats, SendHeartbeatToPeer, HandleAppendEntries, HandleAppendResponse, LoseAppend,
      ApplyCommittedEntries, Restart
  <2> QED
    BY <1>0, <2>1
<1> QED
  BY <1>1, <1>2

\* In every cluster that does not have exactly four servers a leader that goes on leading its
\* term loses entries to nothing but a request of that term from a server that never won it,
\* with replicateToPeer goroutines stopped between their two locks and heartbeats of any age:
\* processAppendEntries need not ask whether the node is a leader, if no such request is sent.
THEOREM LeadersCutByImpostorsOnly ==
  Spec /\ [](Cardinality(Server) # 4) => LeaderCutByImpostorOnly
<1> DEFINE Cut == \A i \in Server :
             /\ state[i] = "Leader" /\ state'[i] = "Leader" /\ currentTerm'[i] = currentTerm[i]
             /\ restarts' = 0
             => \/ IsPrefix(log[i], log'[i])
                \/ \E m \in appendReqs \ appendReqs' :
                     /\ m.to = i /\ m.term = currentTerm[i]
                     /\ [leader |-> m.from, term |-> m.term] \notin wins
<1>1. /\ TypeOK /\ SafeElections /\ LeadersKnown /\ TypeOK' /\ [Next]_vars
      /\ Cardinality(Server) # 4
      => Cut
  <2> SUFFICES ASSUME TypeOK, SafeElections, LeadersKnown, TypeOK', [Next]_vars, Cardinality(Server) # 4,
                      NEW i \in Server, state[i] = "Leader", currentTerm'[i] = currentTerm[i], restarts' = 0
               PROVE  \/ IsPrefix(log[i], log'[i])
                      \/ \E m \in appendReqs \ appendReqs' :
                           /\ m.to = i /\ m.term = currentTerm[i]
                           /\ [leader |-> m.from, term |-> m.term] \notin wins
    OBVIOUS
  <2>0. restarts = 0 /\ ElectionSafety
    BY NoRestartBefore DEF SafeElections
  <2>1. log[i] \in Seq(Entry) /\ Len(log[i]) \in Nat /\ log'[i] \in Seq(Entry)
    BY DEF TypeOK, LogTypes
  <2>2. CASE log'[i] = log[i]
    BY <2>1, <2>2, PrefixByElements
  <2>3. ASSUME NEW v \in Value \cup {NoOp}, log'[i] = Appended(i, v) PROVE IsPrefix(log[i], log'[i])
    <3>1. Len(log[i]) <= Len(log'[i]) /\ \A n \in 1..Len(log[i]) : log[i][n] = log'[i][n]
      BY <2>1, <2>3 DEF Appended
    <3> QED
      BY <2>1, <3>1, PrefixByElements
  <2>4. ASSUME NEW m \in appendReqs \ appendReqs', m.to = i, m.term = currentTerm'[i]
        PROVE  [leader |-> m.from, term |-> m.term] \notin wins
    <3>1. SUFFICES ASSUME [leader |-> m.from, term |-> m.term] \in wins PROVE FALSE
      OBVIOUS
    <3>2. [leader |-> i, term |-> m.term] \in wins
      BY <2>4 DEF LeadersKnown
    <3>3. m.from = i
      BY <2>0, <3>1, <3>2 DEF ElectionSafety
    <3> QED
      BY <2>4, <3>3 DEF LeadersKnown
  <2>5. restarts' # restarts + 1
    BY <2>0
  <2> QED
    BY <2>2, <2>3, <2>4, <2>5, LogChanges
<1>2. Spec => []SafeElections
  BY ElectionSafe DEF SafeElections
<1>3. Init => LeadersKnown
  BY DEF Init, LeadersKnown
<1>4. TypeOK /\ LeadersKnown /\ [Next]_vars => LeadersKnown'
  BY LeadersKnownNext
<1>5. Spec => []LeadersKnown
  BY TypeCorrect, <1>3, <1>4, PTL DEF Spec
<1> QED
  BY TypeCorrect, <1>1, <1>2, <1>5, PTL DEF Spec, LeaderCutByImpostorOnly

-----------------------------------------------------------------------------
(* The inductive invariant: commit indices and applied entries *)

\* The entries of s up to c were committed by a leader of term t or before; cm[u] is what the
\* leader of term u has committed.
Covered(cm, s, c, t) ==
  /\ c <= Len(s)
  /\ c = 0 \/ \E u \in 1..MaxTerm : u <= t /\ c <= Len(cm[u]) /\ \A n \in 1..c : s[n] = cm[u][n]

\* A request of replicateToPeer knows of a commit index that its term has reached.
RequestKnown(cm, m) ==
  \/ m.beat
  \/ m.leaderCommit = 0
  \/ \E u \in 1..MaxTerm : u <= m.term /\ m.leaderCommit <= Len(cm[u])

\* The commit index that a goroutine of sendHeartbeats has captured: its node has still the
\* entries up to it, although it may have lost its leadership, or lead a later term.
BeatKnown(b) ==
  b.leaderCommit <= commitIndex[b.from] /\ Covered(committed, log[b.from], b.leaderCommit, b.term)

\* A heartbeat on its way: the leader of prevLogTerm had an entry at prevLogIndex, and a log
\* with that entry has the committed entries the heartbeat tells of, as far as prevLogIndex.
PreviousCovers(L, cm, m) ==
  m.prevLogIndex > 0 /\ m.prevLogTerm > 0 =>
    /\ m.prevLogTerm \in 1..MaxTerm /\ m.prevLogIndex <= Len(L[m.prevLogTerm])
    /\ Covered(cm, L[m.prevLogTerm], MinOf(m.leaderCommit, m.prevLogIndex), m.term)

BeatFits(L, cm, m) == m.beat => m.entries = << >> /\ PreviousCovers(L, cm, m)

AppliedFromLog(j) ==
  /\ lastApplied[j] <= commitIndex[j] /\ Len(applied[j]) = lastApplied[j]
  /\ \A n \in 1..lastApplied[j] : applied[j][n] = log[j][n]

CommitInv ==
  /\ \A b \in beats : BeatKnown(b)
  /\ \A j \in Server : Covered(committed, log[j], commitIndex[j], currentTerm[j]) /\ AppliedFromLog(j)
  /\ \A m \in appendReqs : RequestKnown(committed, m)

\* What leaders have committed stays committed.
CommittedGrows ==
  \A u \in 1..MaxTerm :
    /\ Len(committed[u]) <= Len(committed'[u])
    /\ \A n \in 1..Len(committed[u]) : committed'[u][n] = committed[u][n]

\* No server's commit index goes back, and no log changes at or below it.
CommitKeeps ==
  \A j \in Server :
    /\ commitIndex[j] <= commitIndex'[j] /\ commitIndex[j] <= Len(log'[j])
    /\ \A n \in 1..commitIndex[j] : log'[j][n] = log[j][n]

TermsGrow == \A j \in Server : currentTerm[j] <= currentTerm'[j]

\* Terms grow in every step, whatever its class.
LEMMA StepsGrowTerms ==
  ASSUME TypeOK, TypeOK', NEW L, StepsOf(L)
  PROVE  TermsGrow
<1>0. \A j \in Server : currentTerm[j] \in Nat
  BY TypeFacts
<1>1. CASE \A i \in Server : Keeps(i) \/ Retreats(i)
  BY <1>1, TermsGrowWhere DEF TermsGrow
<1>2. CASE currentTerm' = currentTerm
  BY <1>0, <1>2 DEF TermsGrow
<1>3. ASSUME NEW i \in Server, Stands(i) PROVE TermsGrow
  BY <1>0, <1>3 DEF TermsGrow, Stands, TypeOK, NodeTypes
<1> QED
  BY <1>1, <1>2, <1>3 DEF StepsOf, Fade, Wins, Extends, Grants, Accepts, Confirms

\* Only tryAdvanceCommitIndex commits, and it adds to what its leader has committed.
LEMMA StepsGrowCommitted ==
  ASSUME TypeOK, TypeOK', ElectionInv, restarts = 0, RoleInv, NEW L \in Ghost, LeaderLogs(L),
         CommitsSecured(L), StepsOf(L)
  PROVE  CommittedGrows
<1>0. \A u \in 1..MaxTerm : committed[u] \in Seq(Entry) /\ Len(committed[u]) \in Nat
  BY DEF TypeOK, HistoryTypes
<1>1. CASE committed' = committed
  BY <1>0, <1>1 DEF CommittedGrows
<1>2. ASSUME NEW m \in appendResps, Confirms(m) PROVE CommittedGrows
  <2>1. PICK i \in Server : i = m.to
    BY DEF TypeOK, AppendNetTypes, AppendResponse
  <2>2. state[i] = "Leader" /\ TryAdvanceCommitIndex(i, matchIndex'[i])
    BY <1>2, <2>1 DEF Confirms
  <2>3. PICK match \in [Server -> Nat] : match = matchIndex'[i]
    BY DEF TypeOK, LeaderTypes
  <2>4. PICK t \in 1..MaxTerm : t = currentTerm[i]
    BY <2>2, WonTerms
  <2>5. /\ log[i] = L[t] /\ log[i] \in Seq(Entry) /\ Len(log[i]) \in Nat
        /\ Len(committed[t]) <= commitIndex[i] /\ commitIndex[i] \in Nat
        /\ \A n \in 1..Len(committed[t]) : committed[t][n] = L[t][n]
    <3>1. log[i] = L[t]
      BY <2>2, <2>4 DEF LeaderLogs
    <3>2. Len(committed[t]) <= commitIndex[i]
      BY <2>2, <2>4 DEF CommitsSecured, BackedSecured, BackedAt
    <3>3. \A n \in 1..Len(committed[t]) : committed[t][n] = L[t][n]
      BY DEF CommitsSecured, CommittedSecured
    <3> QED
      BY <3>1, <3>2, <3>3, TypeFacts
  <2>6. ASSUME NEW k \in 1..Len(log[i]), k > commitIndex[i],
               committed' = [committed EXCEPT ![t] = SubSeq(log[i], 1, k)]
        PROVE  CommittedGrows
    <3>1. committed \in [1..MaxTerm -> Seq(Entry)]
      BY DEF TypeOK, HistoryTypes
    <3>2. \A u \in 1..MaxTerm : u # t => committed'[u] = committed[u]
      BY <2>6, <3>1
    <3>3. committed'[t] = SubSeq(log[i], 1, k)
      BY <2>6, <3>1
    <3>4. Len(committed'[t]) = k /\ \A n \in 1..k : committed'[t][n] = L[t][n]
      BY <2>5, <3>3
    <3>5. /\ Len(committed[t]) <= Len(committed'[t])
          /\ \A n \in 1..Len(committed[t]) : committed'[t][n] = committed[t][n]
      BY <1>0, <2>5, <2>6, <3>4
    <3> QED
      BY <1>0, <3>2, <3>5 DEF CommittedGrows
  <2> QED
    BY <1>1, <2>2, <2>3, <2>4, <2>6, AdvanceFacts
<1> QED
  BY <1>1, <1>2 DEF StepsOf, Fade, Stands, Wins, Extends, Grants, Accepts

\* What was covered stays covered when terms and committed prefixes grow.
LEMMA CoveredStays ==
  ASSUME TypeOK, TypeOK', CommittedGrows, NEW s \in Seq(Entry), NEW r \in Seq(Entry),
         NEW c \in Nat, NEW t \in Nat, NEW t2 \in Nat, t <= t2, Covered(committed, s, c, t),
         c <= Len(r), \A n \in 1..c : r[n] = s[n]
  PROVE  Covered(committed', r, c, t2)
<1>1. CASE c = 0
  BY <1>1 DEF Covered
<1>2. CASE c # 0
  <2>1. PICK u \in 1..MaxTerm : u <= t /\ c <= Len(committed[u]) /\ \A n \in 1..c : s[n] = committed[u][n]
    BY <1>2 DEF Covered
  <2>2. /\ Len(committed[u]) \in Nat /\ Len(committed'[u]) \in Nat
        /\ Len(committed[u]) <= Len(committed'[u])
        /\ \A n \in 1..Len(committed[u]) : committed'[u][n] = committed[u][n]
    BY DEF CommittedGrows, TypeOK, HistoryTypes
  <2>3. u <= t2 /\ c <= Len(committed'[u]) /\ \A n \in 1..c : r[n] = committed'[u][n]
    BY SMTT(30), <2>1, <2>2
  <2> QED
    BY <2>3 DEF Covered
<1> QED
  BY <1>1, <1>2

\* A shorter part of what is covered is covered, in every log that agrees on it.
LEMMA CoveredPart ==
  ASSUME TypeOK, NEW s \in Seq(Entry), NEW r \in Seq(Entry), NEW c \in Nat, NEW d \in Nat,
         NEW t \in Nat, Covered(committed, s, c, t), d <= c, d <= Len(r), \A n \in 1..d : r[n] = s[n]
  PROVE  Covered(committed, r, d, t)
<1>1. CASE d = 0
  BY <1>1 DEF Covered
<1>2. CASE d # 0
  <2>1. PICK u \in 1..MaxTerm : u <= t /\ c <= Len(committed[u]) /\ \A n \in 1..c : s[n] = committed[u][n]
    BY <1>2 DEF Covered
  <2>2. Len(committed[u]) \in Nat
    BY DEF TypeOK, HistoryTypes
  <2>3. u <= t /\ d <= Len(committed[u]) /\ \A n \in 1..d : r[n] = committed[u][n]
    BY SMTT(30), <2>1, <2>2
  <2> QED
    BY <2>3 DEF Covered
<1> QED
  BY <1>1, <1>2

\* The fields of a heartbeat that has not been sent.
LEMMA BeatFacts ==
  ASSUME TypeOK, NEW b \in beats
  PROVE  b.from \in Server /\ b.to \in Server /\ b.term \in Nat /\ b.leaderCommit \in Nat
BY DEF TypeOK, GoroutineTypes, Beat, Term

\* A step that applies nothing keeps the invariant, if it keeps what is committed and covers
\* the commit indices, the requests and the heartbeats that it brings.
LEMMA CommitCore ==
  ASSUME TypeOK, TypeOK', CommitInv, CommittedGrows, CommitKeeps, TermsGrow,
         UNCHANGED <<lastApplied, applied>>,
         \A b \in beats' : b \in beats \/ BeatKnown(b)',
         \A j \in Server : \/ commitIndex'[j] = commitIndex[j]
                           \/ Covered(committed', log'[j], commitIndex'[j], currentTerm'[j]),
         \A m \in appendReqs' : m \in appendReqs \/ RequestKnown(committed', m)
  PROVE  CommitInv'
<1>1. ASSUME NEW j \in Server
      PROVE  Covered(committed', log'[j], commitIndex'[j], currentTerm'[j])
  <2>1. CASE commitIndex'[j] = commitIndex[j]
    <3>1. /\ log[j] \in Seq(Entry) /\ log'[j] \in Seq(Entry) /\ commitIndex[j] \in Nat
          /\ currentTerm[j] \in Nat /\ currentTerm'[j] \in Nat
      BY DEF TypeOK, LogTypes, NodeTypes, Term
    <3>2. /\ currentTerm[j] <= currentTerm'[j] /\ commitIndex[j] <= Len(log'[j])
          /\ \A n \in 1..commitIndex[j] : log'[j][n] = log[j][n]
      BY DEF TermsGrow, CommitKeeps
    <3>3. Covered(committed, log[j], commitIndex[j], currentTerm[j])
      BY DEF CommitInv
    <3>4. Covered(committed', log'[j], commitIndex[j], currentTerm'[j])
      BY <3>1, <3>2, <3>3, CoveredStays
    <3> QED
      BY <2>1, <3>4
  <2> QED
    BY <2>1
<1>2. ASSUME NEW j \in Server PROVE AppliedFromLog(j)'
  <2>1. /\ lastApplied[j] \in Nat /\ commitIndex[j] \in Nat /\ commitIndex'[j] \in Nat
    BY DEF TypeOK, LogTypes
  <2>2. AppliedFromLog(j)
    BY DEF CommitInv
  <2>3. /\ commitIndex[j] <= commitIndex'[j]
        /\ \A n \in 1..commitIndex[j] : log'[j][n] = log[j][n]
    BY DEF CommitKeeps
  <2> QED
    BY <2>1, <2>2, <2>3 DEF AppliedFromLog
<1>3. ASSUME NEW m \in appendReqs' PROVE RequestKnown(committed', m)
  <2>1. CASE m \in appendReqs
    <3>1. RequestKnown(committed, m) /\ m.leaderCommit \in Nat
      BY <2>1, TypeFacts DEF CommitInv
    <3>2. \A u \in 1..MaxTerm : /\ Len(committed[u]) \in Nat /\ Len(committed'[u]) \in Nat
                                /\ Len(committed[u]) <= Len(committed'[u])
      BY DEF CommittedGrows, TypeOK, HistoryTypes
    <3>3. ASSUME NEW u \in 1..MaxTerm, u <= m.term, m.leaderCommit <= Len(committed[u])
          PROVE  u <= m.term /\ m.leaderCommit <= Len(committed'[u])
      BY <3>1, <3>2, <3>3
    <3> QED
      BY <3>1, <3>3, Zenon DEF RequestKnown
  <2> QED
    BY <2>1
<1>4. ASSUME NEW b \in beats' PROVE BeatKnown(b)'
  <2>1. CASE b \in beats
    <3>1. PICK i \in Server, t \in Nat, c \in Nat : i = b.from /\ t = b.term /\ c = b.leaderCommit
      BY <2>1, BeatFacts
    <3>2. c <= commitIndex[i] /\ Covered(committed, log[i], c, t)
      BY <2>1, <3>1 DEF CommitInv, BeatKnown
    <3>3. /\ log[i] \in Seq(Entry) /\ log'[i] \in Seq(Entry) /\ commitIndex[i] \in Nat
          /\ commitIndex'[i] \in Nat /\ Len(log'[i]) \in Nat
      BY DEF TypeOK, LogTypes
    <3>4. /\ commitIndex[i] <= commitIndex'[i] /\ commitIndex[i] <= Len(log'[i])
          /\ \A n \in 1..commitIndex[i] : log'[i][n] = log[i][n]
      BY DEF CommitKeeps
    <3>5. c <= commitIndex'[i] /\ c <= Len(log'[i]) /\ \A n \in 1..c : log'[i][n] = log[i][n]
      BY <3>2, <3>3, <3>4
    <3>6. Covered(committed', log'[i], c, t)
      <4>1. PICK s \in Seq(Entry), r \in Seq(Entry) : s = log[i] /\ r = log'[i]
        BY <3>3
      <4>2. t <= t /\ Covered(committed, s, c, t) /\ c <= Len(r) /\ \A n \in 1..c : r[n] = s[n]
        BY <3>2, <3>5, <4>1
      <4>3. Covered(committed', r, c, t)
        BY <4>2, CoveredStays
      <4> QED
        BY <4>1, <4>3
    <3> QED
      BY <3>1, <3>5, <3>6 DEF BeatKnown
  <2> QED
    BY <2>1
<1> QED
  BY <1>1, <1>2, <1>3, <1>4 DEF CommitInv

\* A step in which logs only grow, and no commit index moves, and nothing is sent.
LEMMA CommitQuiet ==
  ASSUME TypeOK, TypeOK', CommitInv, CommittedGrows, TermsGrow,
         UNCHANGED <<commitIndex, lastApplied, applied, beats>>, appendReqs' \subseteq appendReqs,
         \A j \in Server : /\ Len(log[j]) <= Len(log'[j])
                           /\ \A n \in 1..Len(log[j]) : log'[j][n] = log[j][n]
  PROVE  CommitInv' /\ CommitKeeps
<1>1. ASSUME NEW j \in Server
      PROVE  /\ commitIndex[j] <= commitIndex'[j] /\ commitIndex[j] <= Len(log'[j])
             /\ \A n \in 1..commitIndex[j] : log'[j][n] = log[j][n]
  <2>1. commitIndex[j] \in Nat /\ Len(log[j]) \in Nat /\ Len(log'[j]) \in Nat
    BY DEF TypeOK, LogTypes
  <2>2. commitIndex[j] <= Len(log[j])
    BY DEF CommitInv, Covered
  <2> QED
    BY <2>1, <2>2
<1>2. CommitKeeps
  BY <1>1 DEF CommitKeeps
<1> QED
  BY <1>2, CommitCore

\* A step that changes no log and no commit index keeps what is below the commit indices.
LEMMA SameLogsKeep ==
  ASSUME TypeOK, CommitInv, UNCHANGED <<log, commitIndex>>
  PROVE  CommitKeeps
<1>1. \A q \in Server : commitIndex[q] \in Nat /\ commitIndex[q] <= Len(log[q])
  BY TypeFacts DEF CommitInv, Covered
<1> QED
  BY <1>1 DEF CommitKeeps

\* replicateToPeer tells the commit index of its leader, which covers the leader's log.
LEMMA CommitReplicate ==
  ASSUME TypeOK, TypeOK', NEW L, \A m \in appendReqs : BeatFits(L, committed, m),
         CommitInv, CommittedGrows, TermsGrow,
         NEW i \in Server, NEW j \in Peers(i), ReplicateToPeer(i, j)
  PROVE  CommitInv' /\ CommitKeeps /\ \A m \in appendReqs' : BeatFits(L, committed, m)
<1> DEFINE m == BuildAppendEntriesRequest(i, j)
<1>0. /\ UNCHANGED <<log, currentTerm, commitIndex, lastApplied, applied, beats, committed>>
      /\ appendReqs' = appendReqs \cup {m}
  BY DEF ReplicateToPeer, nodeVars, commitVars, goVars, histVars
<1>1. ~m.beat /\ m.leaderCommit = commitIndex[i] /\ m.term = currentTerm[i]
  BY DEF BuildAppendEntriesRequest
<1> HIDE DEF m
<1>2. RequestKnown(committed', m) /\ BeatFits(L, committed, m)
  <2>1. Covered(committed, log[i], commitIndex[i], currentTerm[i])
    BY DEF CommitInv
  <2> QED
    BY <1>0, <1>1, <2>1, Zenon DEF Covered, RequestKnown, BeatFits
<1>3. CommitKeeps
  BY <1>0, SameLogsKeep
<1> QED
  BY <1>0, <1>2, <1>3, CommitCore

\* sendHeartbeats captures the commit index of its leader.
LEMMA CommitSendHeartbeats ==
  ASSUME TypeOK, TypeOK', CommitInv, CommittedGrows, TermsGrow, NEW i \in Server, SendHeartbeats(i)
  PROVE  CommitInv' /\ CommitKeeps
<1>0. UNCHANGED <<log, currentTerm, commitIndex, lastApplied, applied, appendReqs, committed>>
  BY DEF SendHeartbeats, nodeVars, commitVars, appendNet, histVars
<1>1. ASSUME NEW b \in beats', b \notin beats PROVE BeatKnown(b)'
  <2>1. b.from = i /\ b.term = currentTerm[i] /\ b.leaderCommit = commitIndex[i]
    BY <1>1 DEF SendHeartbeats
  <2>2. commitIndex[i] \in Nat /\ Covered(committed, log[i], commitIndex[i], currentTerm[i])
    BY TypeFacts DEF CommitInv
  <2> QED
    BY <1>0, <2>1, <2>2 DEF BeatKnown
<1>2. CommitKeeps
  BY <1>0, SameLogsKeep
<1> QED
  BY <1>0, <1>1, <1>2, CommitCore

\* sendHeartbeatToPeer sends with it the previous entry of the moment, up to which the log of
\* its node is that of the leader who made the entry.
LEMMA CommitSendHeartbeatToPeer ==
  ASSUME TypeOK, TypeOK', NEW L \in Ghost, LeaderLogs(L),
         \A m \in appendReqs : BeatFits(L, committed, m),
         CommitInv, CommittedGrows, TermsGrow, NEW b \in beats, SendHeartbeatToPeer(b)
  PROVE  CommitInv' /\ CommitKeeps /\ \A m \in appendReqs' : BeatFits(L, committed, m)
<1> DEFINE m == BuildHeartbeat(b)
<1>0. /\ UNCHANGED <<log, currentTerm, commitIndex, lastApplied, applied, committed>>
      /\ beats' \subseteq beats /\ appendReqs' = appendReqs \cup {m}
  BY DEF SendHeartbeatToPeer, nodeVars, commitVars, histVars
<1>1. /\ m.beat /\ m.entries = << >> /\ m.leaderCommit = b.leaderCommit /\ m.term = b.term
      /\ m.prevLogIndex = nextIndex[b.from][b.to] - 1
      /\ m.prevLogTerm = GetTermAtIndex(b.from, m.prevLogIndex)
  BY DEF BuildHeartbeat
<1> HIDE DEF m
<1>2. PreviousCovers(L, committed, m)
  <2>1. SUFFICES ASSUME m.prevLogIndex > 0, m.prevLogTerm > 0
                 PROVE  /\ m.prevLogTerm \in 1..MaxTerm /\ m.prevLogIndex <= Len(L[m.prevLogTerm])
                        /\ Covered(committed, L[m.prevLogTerm], MinOf(m.leaderCommit, m.prevLogIndex), m.term)
    BY DEF PreviousCovers
  <2>2. PICK i \in Server, t \in Nat, c \in Nat : i = b.from /\ t = b.term /\ c = b.leaderCommit
    BY BeatFacts
  <2>3. PICK p \in Nat \ {0} : p = m.prevLogIndex
    <3>1. nextIndex[b.from][b.to] \in Nat \ {0}
      BY BeatFacts DEF TypeOK, LeaderTypes
    <3> QED
      BY <1>1, <2>1, <3>1
  <2>4. log[i] \in Seq(Entry) /\ Len(log[i]) \in Nat /\ Follows(log[i], L)
    BY TypeFacts DEF LeaderLogs
  <2>5. p \in 1..Len(log[i]) /\ m.prevLogTerm = log[i][p].term
    <3>1. m.prevLogTerm = GetTermAtIndex(i, p)
      BY <1>1, <2>2, <2>3
    <3>2. GetTermAtIndex(i, p) > 0
      BY <2>1, <3>1
    <3>3. p <= Len(log[i])
      BY <2>4, <3>2 DEF GetTermAtIndex
    <3>4. GetTermAtIndex(i, p) = log[i][p].term
      BY <2>4, <3>3 DEF GetTermAtIndex
    <3> QED
      BY <2>4, <3>1, <3>3, <3>4
  <2>6. PICK v \in 1..MaxTerm : v = m.prevLogTerm
    BY <2>4, <2>5 DEF Follows
  <2>7. p <= Len(L[v]) /\ \A n \in 1..p : log[i][n] = L[v][n]
    BY <2>4, <2>5, <2>6 DEF Follows
  <2>8. L[v] \in Seq(Entry) /\ Len(L[v]) \in Nat
    BY DEF Ghost
  <2>9. PICK d \in Nat : d = MinOf(c, p) /\ d <= c /\ d <= p
    BY DEF MinOf
  <2>10. Covered(committed, log[i], c, t)
    BY <2>2 DEF CommitInv, BeatKnown
  <2>11. d <= Len(L[v]) /\ \A n \in 1..d : L[v][n] = log[i][n]
    BY <2>7, <2>8, <2>9
  <2>12. Covered(committed, L[v], d, t)
    BY <2>4, <2>8, <2>9, <2>10, <2>11, CoveredPart
  <2> QED
    BY <1>1, <2>2, <2>3, <2>6, <2>7, <2>9, <2>12
<1>3. RequestKnown(committed', m) /\ BeatFits(L, committed, m)
  BY <1>1, <1>2, Zenon DEF RequestKnown, BeatFits
<1>4. CommitKeeps
  BY <1>0, SameLogsKeep
<1> QED
  BY <1>0, <1>3, <1>4, CommitCore

\* What heartbeats tell stays true when the logs of leaders grow, and what they committed.
LEMMA BeatsStay ==
  ASSUME TypeOK, TypeOK', CommittedGrows, NEW L \in Ghost, NEW M \in Ghost, Grown(L, M),
         NEW m \in appendReqs', BeatFits(L, committed, m)
  PROVE  BeatFits(M, committed', m)
<1>1. ASSUME PreviousCovers(L, committed, m) PROVE PreviousCovers(M, committed', m)
  <2>1. SUFFICES ASSUME m.prevLogIndex > 0, m.prevLogTerm > 0
                 PROVE  /\ m.prevLogTerm \in 1..MaxTerm /\ m.prevLogIndex <= Len(M[m.prevLogTerm])
                        /\ Covered(committed', M[m.prevLogTerm], MinOf(m.leaderCommit, m.prevLogIndex), m.term)
    BY DEF PreviousCovers
  <2>2. PICK v \in 1..MaxTerm : v = m.prevLogTerm
    BY <1>1, <2>1 DEF PreviousCovers
  <2>3. PICK p \in Nat, c \in Nat, t \in Nat : p = m.prevLogIndex /\ c = m.leaderCommit /\ t = m.term
    <3>1. m \in AppendRequest
      BY DEF TypeOK, AppendNetTypes
    <3> QED
      BY <3>1 DEF AppendRequest, Term
  <2>4. PICK d \in Nat : d = MinOf(c, p) /\ d <= p
    BY DEF MinOf
  <2>5. p <= Len(L[v]) /\ Covered(committed, L[v], d, t)
    BY <1>1, <2>1, <2>2, <2>3, <2>4 DEF PreviousCovers
  <2>6. /\ L[v] \in Seq(Entry) /\ M[v] \in Seq(Entry) /\ Len(L[v]) \in Nat /\ Len(M[v]) \in Nat
        /\ Len(L[v]) <= Len(M[v]) /\ \A n \in 1..Len(L[v]) : M[v][n] = L[v][n]
    BY DEF Ghost, Grown
  <2>7. p <= Len(M[v]) /\ d <= Len(M[v]) /\ \A n \in 1..d : M[v][n] = L[v][n]
    BY <2>4, <2>5, <2>6
  <2>8. Covered(committed', M[v], d, t)
    <3>1. PICK a \in Seq(Entry) : a = L[v]
      BY <2>6
    <3>2. PICK e \in Seq(Entry) : e = M[v]
      BY <2>6
    <3>3. Covered(committed, a, d, t) /\ d <= Len(e) /\ \A n \in 1..d : e[n] = a[n]
      BY <2>5, <2>7, <3>1, <3>2
    <3>4. Covered(committed', e, d, t)
      BY <3>3, CoveredStays
    <3> QED
      BY <3>2, <3>4
  <2> QED
    BY <2>2, <2>3, <2>4, <2>7, <2>8
<1> QED
  BY <1>1, Zenon DEF BeatFits

\* The committed entries that a follower counts are those of the leader it hears from.
LEMMA CoveredByLeader ==
  ASSUME TypeOK, NEW L \in Ghost, LeaderLogs(L), CommitsSecured(L), NEW s \in Seq(Entry),
         NEW c \in Nat, NEW t \in 1..MaxTerm, NEW u \in Nat, u <= t, Won(t), Covered(committed, s, c, u)
  PROVE  c <= Len(s) /\ c <= Len(L[t]) /\ \A n \in 1..c : s[n] = L[t][n]
<1>0. Len(L[t]) \in Nat /\ Len(s) \in Nat
  BY DEF Ghost
<1>1. CASE c = 0
  BY <1>0, <1>1
<1>2. CASE c # 0
  <2>1. PICK x \in 1..MaxTerm : x <= u /\ c <= Len(committed[x]) /\ \A n \in 1..c : s[n] = committed[x][n]
    BY <1>2 DEF Covered
  <2>2. /\ Len(committed[x]) \in Nat /\ Len(committed[x]) <= Len(L[t])
        /\ \A n \in 1..Len(committed[x]) : committed[x][n] = L[t][n]
    BY <2>1, CommittedInLater
  <2> QED
    BY <1>0, <2>1, <2>2 DEF Covered
<1> QED
  BY <1>1, <1>2

\* What replicateToPeer tells of the commit index covers every log that is the leader's so far.
LEMMA RequestCovers ==
  ASSUME TypeOK, NEW L \in Ghost, LeaderLogs(L), CommitsSecured(L), NEW m \in appendReqs, ~m.beat,
         m.term \in 1..MaxTerm, Won(m.term), RequestKnown(committed, m), NEW s \in Seq(Entry),
         NEW c \in Nat, c <= m.leaderCommit, c <= Len(s), \A n \in 1..c : s[n] = L[m.term][n]
  PROVE  Covered(committed, s, c, m.term)
<1>0. m.leaderCommit \in Nat
  BY TypeFacts
<1>1. CASE c = 0
  BY <1>1 DEF Covered
<1>2. CASE c # 0
  <2>0. m.leaderCommit # 0
    BY <1>0, <1>2
  <2>1. PICK u \in 1..MaxTerm : u <= m.term /\ m.leaderCommit <= Len(committed[u])
    BY <2>0, Zenon DEF RequestKnown
  <2>2. /\ Len(committed[u]) \in Nat /\ Len(committed[u]) <= Len(L[m.term])
        /\ \A n \in 1..Len(committed[u]) : committed[u][n] = L[m.term][n]
    BY <2>1, CommittedInLater
  <2>3. c <= Len(committed[u]) /\ \A n \in 1..c : s[n] = committed[u][n]
    BY <1>0, <2>1, <2>2
  <2> QED
    BY <2>1, <2>3 DEF Covered
<1> QED
  BY <1>1, <1>2

\* A log with the previous entry of a request has an entry of some term there.
LEMMA PreviousHasTerm ==
  ASSUME TypeOK, NEW L \in Ghost, LeaderLogs(L), NEW m \in appendReqs, PrevMatches(m, m.to),
         m.prevLogIndex > 0
  PROVE  /\ m.prevLogIndex \in 1..Len(log[m.to]) /\ m.prevLogTerm > 0
         /\ log[m.to][m.prevLogIndex].term = m.prevLogTerm
<1>1. PICK i \in Server, p \in Nat : i = m.to /\ p = m.prevLogIndex /\ p > 0
  BY TypeFacts
<1>2. log[i] \in Seq(Entry) /\ Len(log[i]) \in Nat /\ Follows(log[i], L)
  BY TypeFacts DEF LeaderLogs
<1>3. p \in 1..Len(log[i]) /\ log[i][p].term = m.prevLogTerm
  BY <1>1, <1>2 DEF PrevMatches, GetTermAtIndex, LastLogIndex
<1>4. log[i][p].term > 0
  BY <1>2, <1>3 DEF Follows
<1> QED
  BY <1>1, <1>3, <1>4

\* What a heartbeat confirms of a follower's log is committed, as far as the heartbeat tells.
LEMMA HeartbeatCovers ==
  ASSUME TypeOK, NEW L \in Ghost, LeaderLogs(L), NEW m \in appendReqs, PreviousCovers(L, committed, m),
         PrevMatches(m, m.to), NEW c \in Nat, c <= m.leaderCommit, c <= m.prevLogIndex
  PROVE  Covered(committed, log[m.to], c, m.term)
<1>0. PICK i \in Server, p \in Nat, k \in Nat, t \in Nat :
        i = m.to /\ p = m.prevLogIndex /\ k = m.leaderCommit /\ t = m.term
  BY TypeFacts
<1>1. log[i] \in Seq(Entry) /\ Len(log[i]) \in Nat /\ Follows(log[i], L)
  BY TypeFacts DEF LeaderLogs
<1>2. CASE c = 0
  BY <1>0, <1>1, <1>2 DEF Covered
<1>3. CASE c # 0
  <2>1. m.prevLogIndex > 0
    BY <1>0, <1>3
  <2>2. p \in 1..Len(log[i]) /\ m.prevLogTerm > 0 /\ log[i][p].term = m.prevLogTerm
    BY <1>0, <2>1, PreviousHasTerm
  <2>3. PICK v \in 1..MaxTerm : v = m.prevLogTerm
    BY <2>1, <2>2 DEF PreviousCovers
  <2>4. PICK d \in Nat : d = MinOf(k, p) /\ c <= d
    BY <1>0 DEF MinOf
  <2>5. p <= Len(L[v]) /\ Covered(committed, L[v], d, t)
    BY <1>0, <2>1, <2>2, <2>3, <2>4 DEF PreviousCovers
  <2>6. \A n \in 1..p : log[i][n] = L[v][n]
    BY <1>1, <2>2, <2>3 DEF Follows
  <2>7. c <= Len(log[i]) /\ \A n \in 1..c : log[i][n] = L[v][n]
    BY <1>0, <1>1, <2>2, <2>6
  <2>8. L[v] \in Seq(Entry)
    BY DEF Ghost
  <2>9. Covered(committed, log[i], c, t)
    BY <1>1, <2>4, <2>5, <2>7, <2>8, CoveredPart
  <2> QED
    BY <1>0, <2>9
<1> QED
  BY <1>2, <1>3

\* What a follower's log is worth when the previous entry of a request of replicateToPeer
\* matches: up to its commit index it stays, and up to the last entry of the request it is the
\* leader's.
LEMMA AcceptedPrefix ==
  ASSUME TypeOK, ElectionInv, restarts = 0, RoleInv, NEW L \in Ghost, LeaderLogs(L), CommitsSecured(L),
         CommitInv, NEW m \in appendReqs, ~m.beat, m.term >= currentTerm[m.to], PrevMatches(m, m.to)
  PROVE  LET i == m.to
             a == ApplyLogEntries(m, i)
             e == m.prevLogIndex + Len(m.entries)
         IN  /\ a \in Seq(Entry) /\ commitIndex[i] <= Len(a)
             /\ \A n \in 1..commitIndex[i] : a[n] = log[i][n]
             /\ e <= Len(a) /\ \A n \in 1..e : a[n] = L[m.term][n]
<1> DEFINE i == m.to
           a == ApplyLogEntries(m, i)
           e == m.prevLogIndex + Len(m.entries)
<1>0. /\ i \in Server /\ m.term \in 1..MaxTerm /\ Won(m.term)
      /\ log[i] \in Seq(Entry) /\ Len(log[i]) \in Nat /\ commitIndex[i] \in Nat /\ currentTerm[i] \in Nat
      /\ m.prevLogIndex \in Nat /\ m.prevLogTerm \in Nat /\ m.leaderCommit \in Nat
      /\ m.entries \in Seq(Entry) /\ Len(m.entries) \in Nat /\ currentTerm[i] <= m.term
  BY TypeFacts, WonTerms
<1>1. Fits(m, L) /\ Follows(L[m.term], L) /\ Follows(log[i], L) /\ Len(L[m.term]) \in Nat /\ L[m.term] \in Seq(Entry)
  BY <1>0 DEF LeaderLogs, Ghost
<1>2. Covered(committed, log[i], commitIndex[i], currentTerm[i])
  BY <1>0 DEF CommitInv
<1>3. /\ commitIndex[i] <= Len(log[i]) /\ commitIndex[i] <= Len(L[m.term])
      /\ \A n \in 1..commitIndex[i] : log[i][n] = L[m.term][n]
  <2>1. PICK r \in Seq(Entry), c \in Nat, t \in 1..MaxTerm, u \in Nat :
          r = log[i] /\ c = commitIndex[i] /\ t = m.term /\ u = currentTerm[i]
    BY <1>0
  <2>2. u <= t /\ Won(t) /\ Covered(committed, r, c, u)
    BY <1>0, <1>2, <2>1
  <2>3. c <= Len(r) /\ c <= Len(L[t]) /\ \A n \in 1..c : r[n] = L[t][n]
    BY <2>2, CoveredByLeader
  <2> QED
    BY <2>1, <2>3
<1>4. ~(m.prevLogIndex > 0 /\ m.prevLogTerm = 0)
  BY <1>0, PreviousHasTerm
<1>5. IsPartOf(m, L[m.term])
  BY <1>1, <1>4, Zenon DEF Fits
<1>6. CASE m.entries # << >>
  <2>1. /\ e \in 1..Len(L[m.term]) /\ a \in Seq(Entry) /\ e <= Len(a) /\ \A n \in 1..e : a[n] = L[m.term][n]
        /\ \/ a = log[i]
           \/ /\ Len(a) = e
              /\ \E n \in 1..e : n > Len(log[i]) \/ log[i][n].term # L[m.term][n].term
    BY <1>0, <1>1, <1>5, <1>6, FollowerLog
  <2> HIDE DEF a, e, i
  <2>2. CASE a = log[i]
    BY <1>3, <1>5, <2>1, <2>2 DEF a, e, i
  <2>3. ASSUME Len(a) = e, NEW x \in 1..e, x > Len(log[i]) \/ log[i][x].term # L[m.term][x].term
        PROVE  commitIndex[i] <= Len(a) /\ \A n \in 1..commitIndex[i] : a[n] = log[i][n]
    <3>0. e \in Nat /\ x \in Nat \ {0} /\ commitIndex[i] \in Nat /\ Len(log[i]) \in Nat
      BY <1>0, <1>1, <2>1, <2>3
    <3>1. ~(x <= commitIndex[i])
      <4>1. SUFFICES ASSUME x <= commitIndex[i] PROVE FALSE
        OBVIOUS
      <4>2. x \in 1..commitIndex[i] /\ ~(x > Len(log[i]))
        BY <1>3, <3>0, <4>1
      <4>3. log[i][x] = L[m.term][x]
        BY <1>3, <4>2
      <4> QED
        BY <2>3, <4>2, <4>3
    <3>2. commitIndex[i] <= e /\ \A n \in 1..commitIndex[i] : n \in 1..e
      BY <2>3, <3>0, <3>1
    <3>3. ASSUME NEW n \in 1..commitIndex[i] PROVE a[n] = log[i][n]
      BY <1>3, <2>1, <3>2
    <3> QED
      BY <2>3, <3>2, <3>3
  <2> QED
    BY <1>5, <2>1, <2>2, <2>3 DEF a, e, i
<1>7. CASE m.entries = << >>
  <2>0. Len(m.entries) = 0 /\ e = m.prevLogIndex
    BY <1>0, <1>7
  <2>1. a = log[i]
    BY <2>0 DEF ApplyLogEntries
  <2>2. m.prevLogIndex <= Len(log[i]) /\ \A n \in 1..m.prevLogIndex : log[i][n] = L[m.term][n]
    <3>1. CASE m.prevLogIndex = 0
      BY <1>0, <3>1
    <3>2. CASE m.prevLogIndex > 0
      <4>1. m.prevLogIndex \in 1..Len(log[i]) /\ log[i][m.prevLogIndex].term = m.prevLogTerm
        BY <1>0, <3>2 DEF PrevMatches, GetTermAtIndex, LastLogIndex
      <4>2. m.prevLogIndex <= Len(L[m.term]) /\ m.prevLogTerm = L[m.term][m.prevLogIndex].term
        BY <1>0, <1>5, <2>0, <3>2 DEF IsPartOf
      <4>3. PICK p \in 1..Len(log[i]) : p = m.prevLogIndex
        BY <4>1
      <4>4. p <= Len(L[m.term]) /\ log[i][p].term = L[m.term][p].term
        BY <4>1, <4>2, <4>3
      <4>5. \A n \in 1..p : log[i][n] = L[m.term][n]
        BY <1>0, <1>1, <4>4, FollowsAgree
      <4> QED
        BY <1>0, <4>3, <4>5
    <3> QED
      BY <1>0, <3>1, <3>2
  <2> HIDE DEF a, e, i
  <2> QED
    BY <1>0, <1>3, <1>5, <2>0, <2>1, <2>2 DEF a, e, i
<1> QED
  BY <1>6, <1>7

\* processAppendEntries: a follower's commit index follows its leader's, never beyond what the
\* request itself has confirmed of the follower's log.
LEMMA CommitAppendEntries ==
  ASSUME TypeOK, TypeOK', ElectionInv, restarts = 0, RoleInv, NEW L \in Ghost, LeaderLogs(L),
         CommitsSecured(L), CommitInv, CommittedGrows, TermsGrow,
         NEW m \in appendReqs, BeatFits(L, committed, m), ~guessed', HandleAppendEntries(m)
  PROVE  CommitInv' /\ CommitKeeps
<1> DEFINE i == m.to
           a == ApplyLogEntries(m, i)
<1>0. /\ i \in Server /\ m.leaderCommit \in Nat /\ m.term \in 1..MaxTerm /\ Won(m.term)
      /\ m.prevLogIndex + Len(m.entries) \in Nat
      /\ \A j \in Server : commitIndex[j] \in Nat /\ Len(log[j]) \in Nat
  BY TypeFacts, WonTerms
<1>1. /\ UNCHANGED <<lastApplied, applied, beats, committed>>
      /\ appendReqs' \subseteq appendReqs
  BY DEF HandleAppendEntries, goVars, histVars
<1>2. CASE UNCHANGED <<log, commitIndex>>
  BY <1>0, <1>1, <1>2, CommitQuiet
<1>3. CASE /\ m.term >= currentTerm[i] /\ PrevMatches(m, i) /\ AdoptTerm(m, i)
           /\ log' = [log EXCEPT ![i] = a]
           /\ commitIndex' = [commitIndex EXCEPT ![i] = FollowerCommit(m, i, a)]
           /\ guessed' = (guessed \/ CommitsUncompared(m, i))
  <2>g. ~CommitsUncompared(m, i)
    BY <1>3, Zenon
  <2>b. ASSUME m.beat
        PROVE  m.entries = << >> /\ Len(m.entries) = 0 /\ a = log[i] /\ PreviousCovers(L, committed, m)
    <3>1. m.entries = << >> /\ PreviousCovers(L, committed, m)
      BY <2>b, Zenon DEF BeatFits
    <3>2. Len(m.entries) = 0
      BY <3>1
    <3>3. a = log[i]
      BY <3>2 DEF ApplyLogEntries
    <3> QED
      BY <3>1, <3>2, <3>3
  <2>r. ASSUME ~m.beat
        PROVE  /\ a \in Seq(Entry) /\ commitIndex[i] <= Len(a)
               /\ \A n \in 1..commitIndex[i] : a[n] = log[i][n]
               /\ m.prevLogIndex + Len(m.entries) <= Len(a)
               /\ \A n \in 1..(m.prevLogIndex + Len(m.entries)) : a[n] = L[m.term][n]
    BY <1>3, <2>r, AcceptedPrefix
  <2>c. CommitsUncompared(m, i) = (/\ FollowerCommit(m, i, a) > commitIndex[i]
                                   /\ FollowerCommit(m, i, a) > m.prevLogIndex + Len(m.entries))
    BY DEF CommitsUncompared
  <2> HIDE DEF a, i
  <2>1. a \in Seq(Entry) /\ commitIndex[i] <= Len(a) /\ \A n \in 1..commitIndex[i] : a[n] = log[i][n]
    <3>1. log[i] \in Seq(Entry) /\ commitIndex[i] <= Len(log[i])
      BY <1>0, TypeFacts DEF CommitInv, Covered
    <3>2. CASE m.beat
      BY <2>b, <3>1, <3>2
    <3> QED
      BY <2>r, <3>2
  <2>2. Len(a) \in Nat
    BY <2>1
  <2>3. /\ log'[i] = a /\ \A j \in Server : j # i => log'[j] = log[j]
        /\ \A j \in Server : j # i => commitIndex'[j] = commitIndex[j]
        /\ currentTerm'[i] = m.term
    BY <1>0, <1>3 DEF TypeOK, LogTypes, NodeTypes, AdoptTerm
  <2>4. PICK c \in Nat :
          /\ c = commitIndex'[i] /\ commitIndex[i] <= c
          /\ \/ c = commitIndex[i]
             \/ c <= m.leaderCommit /\ c <= Len(a) /\ c <= m.prevLogIndex + Len(m.entries)
    <3>1. commitIndex'[i] = FollowerCommit(m, i, a)
      BY <1>0, <1>3 DEF TypeOK, LogTypes
    <3>2. PICK k \in Nat, l \in Nat, x \in Nat, e \in Nat :
            k = m.leaderCommit /\ l = Len(a) /\ x = commitIndex[i] /\ e = m.prevLogIndex + Len(m.entries)
      BY <1>0, <2>2
    <3>3. FollowerCommit(m, i, a) = IF k > x THEN MinOf(k, l) ELSE x
      BY <3>2 DEF FollowerCommit
    <3>4. PICK c \in Nat : c = IF k > x THEN MinOf(k, l) ELSE x
      BY DEF MinOf
    <3>5. x <= c /\ (c = x \/ (c <= k /\ c <= l))
      BY <2>1, <3>2, <3>4 DEF MinOf
    <3>6. ~(c > x /\ c > e)
      BY <2>g, <2>c, <3>2, <3>3, <3>4
    <3>7. c = x \/ (c <= k /\ c <= l /\ c <= e)
      BY <3>5, <3>6
    <3> QED
      BY <3>1, <3>2, <3>3, <3>4, <3>5, <3>7
  <2>5. ASSUME c # commitIndex[i] PROVE Covered(committed, a, c, m.term)
    <3>1. c <= m.leaderCommit /\ c <= Len(a) /\ c <= m.prevLogIndex + Len(m.entries)
      BY <2>4, <2>5
    <3>2. CASE m.beat
      <4>1. c <= m.prevLogIndex /\ m.prevLogIndex \in Nat
        BY <2>b, <3>1, <3>2, TypeFacts
      <4>2. Covered(committed, log[m.to], c, m.term)
        BY <1>3, <2>b, <3>1, <3>2, <4>1, HeartbeatCovers DEF i
      <4> QED
        BY <2>b, <3>2, <4>2 DEF i
    <3>3. CASE ~m.beat
      <4>1. RequestKnown(committed, m)
        BY DEF CommitInv
      <4>2. \A n \in 1..c : a[n] = L[m.term][n]
        BY <1>0, <2>r, <3>1, <3>3
      <4> QED
        BY <1>0, <2>1, <3>1, <3>3, <4>1, <4>2, RequestCovers
    <3> QED
      BY <3>2, <3>3
  <2>6. CommitKeeps
    <3>1. ASSUME NEW j \in Server
          PROVE  /\ commitIndex[j] <= commitIndex'[j] /\ commitIndex[j] <= Len(log'[j])
                 /\ \A n \in 1..commitIndex[j] : log'[j][n] = log[j][n]
      <4>1. CASE j = i
        BY <1>0, <2>1, <2>3, <2>4, <4>1
      <4>2. CASE j # i
        <5>1. commitIndex[j] <= Len(log[j])
          BY DEF CommitInv, Covered
        <5> QED
          BY <1>0, <2>3, <4>2, <5>1
      <4> QED
        BY <4>1, <4>2
    <3> QED
      BY <3>1 DEF CommitKeeps
  <2>7. \A j \in Server : \/ commitIndex'[j] = commitIndex[j]
                          \/ Covered(committed', log'[j], commitIndex'[j], currentTerm'[j])
    BY <1>1, <2>3, <2>4, <2>5
  <2> QED
    BY <1>1, <2>6, <2>7, CommitCore
<1> QED
  BY <1>2, <1>3, Zenon DEF HandleAppendEntries, nodeVars

\* handleAppendEntriesResponse: a leader's commit index grows with what it commits itself.
LEMMA CommitAppendResponse ==
  ASSUME TypeOK, TypeOK', ElectionInv, restarts = 0, RoleInv, NEW L \in Ghost, LeaderLogs(L),
         CommitInv, CommittedGrows, TermsGrow,
         NEW m \in appendResps, HandleAppendResponse(m)
  PROVE  CommitInv' /\ CommitKeeps
<1>0. /\ m.to \in Server /\ log \in [Server -> Seq(Entry)] /\ commitIndex \in [Server -> Nat]
      /\ committed \in [1..MaxTerm -> Seq(Entry)]
      /\ \A j \in Server : commitIndex[j] \in Nat /\ Len(log[j]) \in Nat
  BY TypeFacts DEF TypeOK, AppendNetTypes, AppendResponse, LogTypes, HistoryTypes
<1>1. UNCHANGED <<log, lastApplied, applied, beats, appendReqs>>
  BY DEF HandleAppendResponse, goVars
<1>2. CASE commitIndex' = commitIndex
  BY <1>0, <1>1, <1>2, CommitQuiet
<1>3. CASE /\ ~Ignored(m) /\ UNCHANGED currentTerm
           /\ TryAdvanceCommitIndex(m.to, matchIndex'[m.to])
  <2>1. PICK i \in Server : i = m.to
    BY <1>0
  <2>2. PICK match \in [Server -> Nat] : match = matchIndex'[i]
    BY DEF TypeOK, LeaderTypes
  <2>3. PICK t \in 1..MaxTerm : t = currentTerm[i]
    BY <1>3, <2>1, WonTerms DEF Ignored
  <2>4. ASSUME NEW k \in 1..Len(log[i]), k > commitIndex[i],
               commitIndex' = [commitIndex EXCEPT ![i] = k],
               committed' = [committed EXCEPT ![t] = SubSeq(log[i], 1, k)]
        PROVE  CommitInv' /\ CommitKeeps
    <3>1. committed'[t] = SubSeq(log[i], 1, k) /\ commitIndex'[i] = k
          /\ \A j \in Server : j # i => commitIndex'[j] = commitIndex[j]
      BY <1>0, <2>4
    <3>2. Len(committed'[t]) = k /\ (\A n \in 1..k : committed'[t][n] = log[i][n]) /\ k <= Len(log[i]) /\ k \in Nat
      BY <1>0, <3>1
    <3>3. Covered(committed', log'[i], k, currentTerm'[i])
      <4>1. t <= t /\ k <= Len(committed'[t]) /\ \A n \in 1..k : log'[i][n] = committed'[t][n]
        BY <1>1, <3>2
      <4>2. k <= Len(log'[i]) /\ currentTerm'[i] = t
        BY <1>1, <1>3, <2>3, <3>2
      <4> QED
        BY <4>1, <4>2 DEF Covered
    <3>4. CommitKeeps
      <4>1. \A j \in Server : commitIndex[j] <= Len(log[j])
        BY DEF CommitInv, Covered
      <4> QED
        BY <1>0, <1>1, <2>4, <3>1, <4>1 DEF CommitKeeps
    <3>5. \A j \in Server : \/ commitIndex'[j] = commitIndex[j]
                            \/ Covered(committed', log'[j], commitIndex'[j], currentTerm'[j])
      BY <3>1, <3>3
    <3> QED
      BY <1>1, <3>4, <3>5, CommitCore
  <2> QED
    BY <1>2, <1>3, <2>1, <2>2, <2>3, <2>4, AdvanceFacts
<1> QED
  BY <1>2, <1>3 DEF HandleAppendResponse

\* applyCommittedEntries applies the log, up to the commit index.
LEMMA CommitApply ==
  ASSUME TypeOK, TypeOK', CommitInv, NEW i \in Server, ApplyCommittedEntries(i)
  PROVE  CommitInv' /\ CommitKeeps
<1>0. /\ UNCHANGED <<log, currentTerm, commitIndex, beats, committed, appendReqs>>
      /\ lastApplied' = [lastApplied EXCEPT ![i] = MinOf(commitIndex[i], Len(log[i]))]
      /\ applied' = [applied EXCEPT ![i] =
           applied[i] \o SubSeq(log[i], lastApplied[i] + 1, MinOf(commitIndex[i], Len(log[i])))]
      /\ lastApplied[i] < MinOf(commitIndex[i], Len(log[i]))
  BY DEF ApplyCommittedEntries, nodeVars, goVars, histVars, appendNet, LastLogIndex
<1>1. /\ lastApplied \in [Server -> Nat] /\ applied \in [Server -> Seq(Entry)]
      /\ \A j \in Server : /\ commitIndex[j] \in Nat /\ log[j] \in Seq(Entry) /\ Len(log[j]) \in Nat
                           /\ lastApplied[j] \in Nat /\ applied[j] \in Seq(Entry)
  BY TypeFacts DEF TypeOK, LogTypes
<1>2. \A j \in Server : commitIndex[j] <= Len(log[j]) /\ AppliedFromLog(j)
  BY DEF CommitInv, Covered
<1>3. MinOf(commitIndex[i], Len(log[i])) = commitIndex[i]
  BY <1>1, <1>2 DEF MinOf
<1>4. ASSUME NEW j \in Server PROVE AppliedFromLog(j)'
  <2>1. CASE j # i
    <3>1. applied'[j] = applied[j] /\ lastApplied'[j] = lastApplied[j]
      BY <1>0, <1>1, <2>1
    <3>2. AppliedFromLog(j)
      BY <1>2
    <3>3. commitIndex'[j] = commitIndex[j] /\ log'[j] = log[j]
      BY <1>0
    <3> QED
      BY <3>1, <3>2, <3>3 DEF AppliedFromLog
  <2>2. CASE j = i
    <3>1. PICK c \in Nat : c = commitIndex[i]
      BY <1>1
    <3>2. PICK l \in Nat : l = lastApplied[i]
      BY <1>1
    <3>3. PICK b \in Seq(Entry) : b = applied[i]
      BY <1>1
    <3>4. PICK s \in Seq(Entry) : s = log[i]
      BY <1>1
    <3>6. l < c /\ c <= Len(s) /\ Len(b) = l /\ \A n \in 1..l : b[n] = s[n]
      BY <1>0, <1>2, <1>3, <3>1, <3>2, <3>3, <3>4 DEF AppliedFromLog
    <3>5. PICK d \in Seq(Entry) : d = SubSeq(s, l + 1, c)
      <4>1. \A k \in (l + 1)..c : s[k] \in Entry
        BY <3>6
      <4>2. SubSeq(s, l + 1, c) \in Seq(Entry)
        BY <3>6, <4>1
      <4> QED
        BY <4>2
    <3>7. Len(d) = c - l /\ \A n \in 1..(c - l) : d[n] = s[l + n]
      BY <3>5, <3>6
    <3>8. /\ Len(b \o d) = Len(b) + Len(d)
          /\ \A n \in 1..Len(b) : (b \o d)[n] = b[n]
          /\ \A n \in (Len(b) + 1)..(Len(b) + Len(d)) : (b \o d)[n] = d[n - Len(b)]
      BY ConcatFacts
    <3>9. Len(b \o d) = c
      BY <3>6, <3>7, <3>8
    <3>10. ASSUME NEW n \in 1..c PROVE (b \o d)[n] = s[n]
      <4>1. CASE n <= l
        <5>1. n \in 1..Len(b) /\ n \in 1..l
          BY <3>6, <4>1
        <5> QED
          BY <3>6, <3>8, <5>1
      <4>2. CASE n > l
        <5>1. n \in (Len(b) + 1)..(Len(b) + Len(d)) /\ n - l \in 1..(c - l) /\ l + (n - l) = n
          BY <3>6, <3>7, <4>2
        <5> QED
          BY <3>6, <3>7, <3>8, <5>1
      <4>3. n <= l \/ n > l
        OBVIOUS
      <4> QED
        BY <4>1, <4>2, <4>3
    <3>11. lastApplied'[i] = c /\ applied'[i] = b \o d /\ commitIndex'[i] = c /\ log'[i] = s
      BY <1>0, <1>1, <1>3, <3>1, <3>2, <3>3, <3>4, <3>5
    <3> QED
      BY <2>2, <3>9, <3>10, <3>11 DEF AppliedFromLog
  <2> QED
    BY <2>1, <2>2
<1>5. CommitKeeps
  BY <1>0, <1>1, <1>2 DEF CommitKeeps
<1>6. CommitInv'
  BY <1>0, <1>4 DEF CommitInv, BeatKnown
<1> QED
  BY <1>5, <1>6

\* The heartbeats on their way, against the logs of the leaders.
BeatsFit(L) == \A m \in appendReqs : BeatFits(L, committed, m)

\* What is true of commit indices and applied entries, besides the conditions of the logs,
\* while no follower has committed past the last entry of a request.
CommitsKept ==
  Cardinality(Server) # 4 /\ Calm /\ ~guessed =>
    CommitInv /\ \E L \in Ghost : LeaderLogs(L) /\ CommitsSecured(L) /\ BeatsFit(L)

\* Once a follower has committed too much it stays on record.
LEMMA GuessesStay ==
  ASSUME [Next]_vars, ~guessed'
  PROVE  ~guessed
<1>1. CASE UNCHANGED vars
  BY <1>1, Zenon DEF vars, commitVars
<1>2. ASSUME NEW m \in appendReqs, HandleAppendEntries(m) PROVE ~guessed
  BY <1>2, Zenon DEF HandleAppendEntries
<1>3. CASE UNCHANGED guessed
  BY <1>3, Zenon
<1>4. CASE \E i \in Server : \/ StartElection(i) \/ BecomeLeader(i) \/ ElectionCompletes(i)
                             \/ AppendNoOpEntry(i) \/ SendHeartbeats(i)
  BY <1>3, <1>4 DEF commitVars, StartElection, BecomeLeader, ElectionCompletes, AppendNoOpEntry,
                    SendHeartbeats
<1>5. CASE \/ \E m \in voteReqs : HandleRequestVote(m)
           \/ \E m \in voteResps : HandleVoteResponse(m)
           \/ \E i \in Server, v \in Value : AppendLogEntry(i, v)
           \/ \E i \in Server : \E j \in Peers(i) : ReplicateToPeer(i, j) \/ PreemptAfterCheck(i, j)
           \/ \E p \in preempted : SendAfterPreemption(p)
           \/ \E b \in beats : SendHeartbeatToPeer(b)
  BY <1>3, <1>5 DEF commitVars, HandleRequestVote, HandleVoteResponse, AppendLogEntry,
                    ReplicateToPeer, PreemptAfterCheck, SendAfterPreemption, SendHeartbeatToPeer
<1>6. CASE \/ \E m \in appendResps : HandleAppendResponse(m)
           \/ LoseAppend
           \/ \E i \in Server : ApplyCommittedEntries(i) \/ Restart(i)
  BY <1>3, <1>6 DEF commitVars, HandleAppendResponse, LoseAppend, ApplyCommittedEntries, Restart
<1> QED
  BY <1>1, <1>2, <1>4, <1>5, <1>6 DEF Next

\* The invariant of the commit indices holds initially, when nothing is committed.
LEMMA CommitInit ==
  ASSUME Init
  PROVE  CommitInv /\ \A L : BeatsFit(L)
<1>1. \A j \in Server : AppliedFromLog(j)
  BY DEF Init, AppliedFromLog
<1>2. \A j \in Server : Covered(committed, log[j], commitIndex[j], currentTerm[j])
  BY DEF Init, Covered
<1> QED
  BY <1>1, <1>2 DEF Init, CommitInv, BeatsFit

\* Every step keeps the commit indices, what is below them, and what the servers applied.
LEMMA CommitSteps ==
  ASSUME TypeOK, TypeOK', ElectionInv, restarts = 0, RoleInv, Calm, Calm', ~guessed', NEW L \in Ghost,
         LeaderLogs(L), CommitsSecured(L), BeatsFit(L), StepsOf(L), CommitInv, [Next]_vars
  PROVE  CommitInv' /\ CommitKeeps /\ \A m \in appendReqs' : BeatFits(L, committed, m)
<1>g. TermsGrow /\ CommittedGrows
  BY StepsGrowTerms, StepsGrowCommitted
<1>t. \A j \in Server : log[j] \in Seq(Entry) /\ Len(log[j]) \in Nat
  BY TypeFacts
<1>b. ASSUME appendReqs' \subseteq appendReqs PROVE \A m \in appendReqs' : BeatFits(L, committed, m)
  BY <1>b DEF BeatsFit
<1>q. ASSUME UNCHANGED <<log, commitIndex, lastApplied, applied, beats>>, appendReqs' \subseteq appendReqs
      PROVE  CommitInv' /\ CommitKeeps /\ \A m \in appendReqs' : BeatFits(L, committed, m)
  BY <1>b, <1>g, <1>t, <1>q, CommitQuiet
<1>a. ASSUME UNCHANGED <<commitIndex, lastApplied, applied, beats, appendReqs>>,
             NEW i \in Server, NEW e, log' = [log EXCEPT ![i] = Append(log[i], e)]
      PROVE  CommitInv' /\ CommitKeeps /\ \A m \in appendReqs' : BeatFits(L, committed, m)
  <2>1. ASSUME NEW j \in Server
        PROVE  Len(log[j]) <= Len(log'[j]) /\ \A n \in 1..Len(log[j]) : log'[j][n] = log[j][n]
    <3>1. log \in [Server -> Seq(Entry)] /\ Len(log[j]) \in Nat
      BY SMTT(30) DEF TypeOK, LogTypes
    <3>2. log'[j] = log[j] \/ log'[j] = Append(log[j], e)
      BY <1>a, <3>1
    <3> QED
      BY <3>1, <3>2
  <2> QED
    BY <1>a, <1>b, <1>g, <2>1, CommitQuiet
<1>1. CASE UNCHANGED vars
  BY <1>1, <1>q DEF vars, nodeVars, commitVars, goVars, appendNet
<1>2. CASE \E i \in Server : StartElection(i)
  BY <1>2, <1>q DEF StartElection, commitVars, goVars, appendNet
<1>3. CASE \E m \in voteReqs : HandleRequestVote(m)
  BY <1>3, <1>q DEF HandleRequestVote, commitVars, goVars, appendNet
<1>4. CASE \E m \in voteResps : HandleVoteResponse(m)
  BY <1>4, <1>q DEF HandleVoteResponse, commitVars, goVars, appendNet
<1>5. CASE \E i \in Server : BecomeLeader(i)
  BY <1>5, <1>q DEF BecomeLeader, commitVars, goVars, appendNet
<1>6. CASE \E i \in Server : ElectionCompletes(i)
  BY <1>6, <1>q DEF ElectionCompletes, nodeVars, commitVars, goVars, appendNet
<1>7. CASE \E i \in Server : AppendNoOpEntry(i)
  <2>1. PICK i \in Server : AppendNoOpEntry(i)
    BY <1>7
  <2>2. UNCHANGED <<commitIndex, lastApplied, applied, beats, appendReqs>>
    BY <2>1 DEF AppendNoOpEntry, commitVars, goVars, appendNet
  <2>3. log' = log \/ \E e : log' = [log EXCEPT ![i] = Append(log[i], e)]
    BY <2>1 DEF AppendNoOpEntry, Appended
  <2> QED
    BY <2>2, <2>3, <1>q, <1>a
<1>8. CASE \E i \in Server, v \in Value : AppendLogEntry(i, v)
  <2>1. PICK i \in Server, v \in Value : AppendLogEntry(i, v)
    BY <1>8
  <2>2. UNCHANGED <<commitIndex, lastApplied, applied, beats, appendReqs>>
    BY <2>1 DEF AppendLogEntry, commitVars, goVars, appendNet
  <2>3. \E e : log' = [log EXCEPT ![i] = Append(log[i], e)]
    BY <2>1 DEF AppendLogEntry, Appended
  <2> QED
    BY <2>2, <2>3, <1>a
<1>9. CASE \E i \in Server : \E j \in Peers(i) : ReplicateToPeer(i, j)
  BY <1>9, <1>g, CommitReplicate DEF BeatsFit
<1>10. CASE \E i \in Server : \E j \in Peers(i) : PreemptAfterCheck(i, j)
  BY <1>10 DEF PreemptAfterCheck, Calm
<1>11. CASE \E p \in preempted : SendAfterPreemption(p)
  BY <1>11 DEF RoleInv, SentByWinners
<1>12. CASE \E i \in Server : SendHeartbeats(i)
  <2>1. appendReqs' = appendReqs
    BY <1>12 DEF SendHeartbeats, appendNet
  <2> QED
    BY <1>12, <1>b, <1>g, <2>1, CommitSendHeartbeats
<1>13. CASE \E b \in beats : SendHeartbeatToPeer(b)
  BY <1>13, <1>g, CommitSendHeartbeatToPeer DEF BeatsFit
<1>14. CASE \E m \in appendReqs : HandleAppendEntries(m)
  <2>1. PICK m \in appendReqs : HandleAppendEntries(m)
    BY <1>14
  <2>2. appendReqs' \subseteq appendReqs
    BY <2>1 DEF HandleAppendEntries
  <2>3. BeatFits(L, committed, m)
    BY DEF BeatsFit
  <2> QED
    BY <1>b, <1>g, <2>1, <2>2, <2>3, CommitAppendEntries
<1>15. CASE \E m \in appendResps : HandleAppendResponse(m)
  <2>1. appendReqs' = appendReqs
    BY <1>15 DEF HandleAppendResponse
  <2> QED
    BY <1>15, <1>b, <1>g, <2>1, CommitAppendResponse
<1>16. CASE LoseAppend
  BY <1>16, <1>q DEF LoseAppend, nodeVars, commitVars, goVars
<1>17. CASE \E i \in Server : ApplyCommittedEntries(i)
  <2>1. appendReqs' = appendReqs
    BY <1>17 DEF ApplyCommittedEntries, appendNet
  <2> QED
    BY <1>17, <1>b, <2>1, CommitApply
<1>18. CASE \E i \in Server : Restart(i)
  BY <1>18 DEF Restart, Calm
<1> QED
  BY <1>1, <1>2, <1>3, <1>4, <1>5, <1>6, <1>7, <1>8, <1>9, <1>10, <1>11, <1>12, <1>13, <1>14,
     <1>15, <1>16, <1>17, <1>18 DEF Next

\* Every step of a calm cluster in which no follower commits too much keeps the invariant of
\* the commit indices, and every committed prefix.
LEMMA CommitNext ==
  ASSUME TypeOK, TypeOK', ElectionInv, ElectionInv', SafeElections, SafeElections', LogInv, CommitsKept,
         [Next]_vars, Cardinality(Server) # 4, Calm', ~guessed'
  PROVE  CommitInv' /\ CommitKeeps /\ CommitsKept'
<1>0. Calm /\ restarts = 0 /\ restarts' = 0 /\ ~guessed
  BY CalmBefore, GuessesStay DEF Calm
<1>1. ElectionSafety /\ ElectionSafety'
  BY <1>0 DEF SafeElections
<1>2. RoleInv /\ CommitInv
  BY <1>0 DEF LogInv, CommitsKept
<1>3. PICK L \in Ghost : LeaderLogs(L) /\ CommitsSecured(L) /\ BeatsFit(L)
  BY <1>0 DEF CommitsKept
<1>4. StepsOf(L)
  BY <1>0, <1>1, <1>2, <1>3, StepsCovered
<1>5. CommitInv' /\ CommitKeeps /\ \A m \in appendReqs' : BeatFits(L, committed, m)
  BY <1>0, <1>2, <1>3, <1>4, CommitSteps
<1>6. RoleInv'
  BY <1>2, <1>4, RoleSteps
<1>7. PICK M \in Ghost : LeaderLogs(M)' /\ CommitsSecured(M)' /\ Grown(L, M)
  BY <1>0, <1>1, <1>2, <1>3, <1>4, <1>6, LogSteps
<1>8. CommittedGrows
  BY <1>0, <1>2, <1>3, <1>4, StepsGrowCommitted
<1>9. BeatsFit(M)'
  <2>1. \A m \in appendReqs' : BeatFits(M, committed', m)
    BY <1>5, <1>7, <1>8, BeatsStay
  <2> QED
    BY <2>1 DEF BeatsFit
<1>10. CommitsKept'
  BY <1>5, <1>7, <1>9 DEF CommitsKept, Ghost, Entry, Term
<1> QED
  BY <1>5, <1>10

\* The invariant of the commit indices holds of every behaviour of Raft.tla.
LEMMA CommitsKeptHolds == Spec => []CommitsKept
<1>1. Init => CommitsKept
  <2>1. Init => Calm
    BY DEF Init, Calm
  <2> QED
    BY <2>1, CommitInit, LogInit DEF CommitsKept, LogInv
<1>2. /\ TypeOK /\ ElectionInv /\ SafeElections /\ LogInv /\ CommitsKept /\ [Next]_vars
      /\ TypeOK' /\ ElectionInv' /\ SafeElections'
      => CommitsKept'
  <2>1. SUFFICES ASSUME TypeOK, TypeOK', ElectionInv, ElectionInv', SafeElections, SafeElections',
                        LogInv, CommitsKept, [Next]_vars
                 PROVE  CommitsKept'
    OBVIOUS
  <2>2. CASE Cardinality(Server) # 4 /\ Calm' /\ ~guessed'
    BY <2>1, <2>2, CommitNext
  <2>3. CASE ~(Cardinality(Server) # 4 /\ Calm' /\ ~guessed')
    BY <2>3, Zenon DEF CommitsKept
  <2> QED
    BY <2>2, <2>3
<1>3. Spec => []SafeElections
  BY ElectionSafe DEF SafeElections
<1> QED
  BY TypeCorrect, VotesBacked, LogInvHolds, <1>1, <1>2, <1>3, PTL DEF Spec

\* Everything applied is in the log of any leader late enough, so two servers apply the same.
LEMMA AppliedAgree ==
  ASSUME TypeOK, NEW L \in Ghost, LeaderLogs(L), CommitsSecured(L), CommitInv
  PROVE  StateMachineSafety
<1> SUFFICES ASSUME NEW i \in Server, NEW j \in Server
             PROVE  IsPrefix(applied[i], applied[j]) \/ IsPrefix(applied[j], applied[i])
  BY DEF StateMachineSafety
<1>1. \A q \in Server : /\ applied[q] \in Seq(Entry) /\ Len(applied[q]) \in Nat /\ commitIndex[q] \in Nat
                        /\ Len(applied[q]) <= commitIndex[q]
                        /\ \A n \in 1..Len(applied[q]) : applied[q][n] = log[q][n]
  BY DEF CommitInv, AppliedFromLog, TypeOK, LogTypes
<1>2. ASSUME NEW q \in Server, applied[q] # << >>
      PROVE  \E u \in 1..MaxTerm :
               /\ Won(u) /\ Len(applied[q]) <= Len(committed[u])
               /\ \A n \in 1..Len(applied[q]) : applied[q][n] = committed[u][n]
  <2>1. commitIndex[q] > 0 /\ Len(applied[q]) > 0
    BY <1>1, <1>2
  <2>2. PICK u \in 1..MaxTerm :
          commitIndex[q] <= Len(committed[u]) /\ \A n \in 1..commitIndex[q] : log[q][n] = committed[u][n]
    BY <1>1, <2>1 DEF CommitInv, Covered
  <2>3. committed[u] \in Seq(Entry) /\ Len(committed[u]) \in Nat /\ Len(committed[u]) <= Len(L[u]) /\ Len(L[u]) \in Nat
    BY DEF TypeOK, HistoryTypes, CommitsSecured, CommittedSecured, Ghost
  <2>4. Won(u)
    <3>1. L[u] # << >>
      BY <1>1, <2>1, <2>2, <2>3
    <3> QED
      BY <3>1 DEF LeaderLogs
  <2>5. Len(applied[q]) <= Len(committed[u])
    BY <1>1, <2>2, <2>3
  <2>6. \A n \in 1..Len(applied[q]) : applied[q][n] = committed[u][n]
    BY <1>1, <2>2
  <2> QED
    BY <2>4, <2>5, <2>6
<1>3. ASSUME NEW s \in Seq(Entry), NEW a \in Server, NEW b \in Server,
             Len(applied[a]) <= Len(s), Len(applied[b]) <= Len(s),
             \A n \in 1..Len(applied[a]) : applied[a][n] = s[n],
             \A n \in 1..Len(applied[b]) : applied[b][n] = s[n]
      PROVE  IsPrefix(applied[a], applied[b]) \/ IsPrefix(applied[b], applied[a])
  <2>1. CASE Len(applied[a]) <= Len(applied[b])
    <3>1. \A n \in 1..Len(applied[a]) : applied[a][n] = applied[b][n]
      BY <1>1, <1>3, <2>1
    <3> QED
      BY <1>1, <2>1, <3>1, PrefixByElements
  <2>2. CASE Len(applied[b]) <= Len(applied[a])
    <3>1. \A n \in 1..Len(applied[b]) : applied[b][n] = applied[a][n]
      BY <1>1, <1>3, <2>2
    <3> QED
      BY <1>1, <2>2, <3>1, PrefixByElements
  <2> QED
    BY <1>1, <2>1, <2>2
<1>4. CASE applied[i] = << >> \/ applied[j] = << >>
  <2>1. \A q \in {i, j} : applied[q] = << >> => Len(applied[q]) = 0
    OBVIOUS
  <2> QED
    BY <1>1, <1>4, <2>1, PrefixByElements
<1>5. CASE applied[i] # << >> /\ applied[j] # << >>
  <2>1. PICK u \in 1..MaxTerm :
          /\ Won(u) /\ Len(applied[i]) <= Len(committed[u])
          /\ \A n \in 1..Len(applied[i]) : applied[i][n] = committed[u][n]
    BY <1>2, <1>5
  <2>2. PICK v \in 1..MaxTerm :
          /\ Won(v) /\ Len(applied[j]) <= Len(committed[v])
          /\ \A n \in 1..Len(applied[j]) : applied[j][n] = committed[v][n]
    BY <1>2, <1>5
  <2>3. PICK w \in {u, v} : u <= w /\ v <= w
    OBVIOUS
  <2>4. w \in 1..MaxTerm /\ Won(w) /\ L[w] \in Seq(Entry) /\ Len(L[w]) \in Nat
    BY <2>1, <2>2, <2>3 DEF Ghost
  <2>5. /\ Len(committed[u]) \in Nat /\ Len(committed[u]) <= Len(L[w])
        /\ \A n \in 1..Len(committed[u]) : committed[u][n] = L[w][n]
    BY <2>3, <2>4, CommittedInLater
  <2>6. /\ Len(committed[v]) \in Nat /\ Len(committed[v]) <= Len(L[w])
        /\ \A n \in 1..Len(committed[v]) : committed[v][n] = L[w][n]
    BY <2>3, <2>4, CommittedInLater
  <2>7. Len(applied[i]) <= Len(L[w]) /\ \A n \in 1..Len(applied[i]) : applied[i][n] = L[w][n]
    BY <1>1, <2>1, <2>4, <2>5
  <2>8. Len(applied[j]) <= Len(L[w]) /\ \A n \in 1..Len(applied[j]) : applied[j][n] = L[w][n]
    BY <1>1, <2>2, <2>4, <2>6
  <2> QED
    BY <1>3, <2>4, <2>7, <2>8
<1> QED
  BY <1>4, <1>5

\* No two servers apply different entries at the same index, under the conditions of the logs
\* and as long as no follower has raised its commit index past the last entry that the request
\* compared with its log, whatever heartbeats are sent and however requests are cut to
\* MaxEntriesPerAppend.  Step 6 of processAppendEntries, which takes the length of the whole
\* log for the last new entry, is the only thing that can make state machines disagree.
THEOREM StateMachinesAgree ==
  Spec => [](Cardinality(Server) # 4 /\ restarts = 0 /\ preemptedUsed = 0 /\ ~guessed
             => StateMachineSafety)
<1>1. TypeOK /\ CommitsKept =>
        (Cardinality(Server) # 4 /\ restarts = 0 /\ preemptedUsed = 0 /\ ~guessed
         => StateMachineSafety)
  BY AppliedAgree DEF CommitsKept, Calm
<1> QED
  BY TypeCorrect, CommitsKeptHolds, <1>1, PTL

\* Under the conditions of StateMachinesAgree no commit index goes back, and no entry at or
\* below one is truncated or overwritten by applyLogEntries.
THEOREM CommittedPrefixKept ==
  Spec /\ [](Cardinality(Server) # 4 /\ restarts = 0 /\ preemptedUsed = 0 /\ ~guessed)
    => CommittedPrefixStable
<1> DEFINE Quiet == Cardinality(Server) # 4 /\ restarts = 0 /\ preemptedUsed = 0 /\ ~guessed
           Stable == \A i \in Server : restarts' = restarts =>
                       /\ commitIndex[i] <= commitIndex'[i]
                       /\ IsPrefix(SubSeq(log[i], 1, commitIndex[i]), log'[i])
<1>1. /\ TypeOK /\ ElectionInv /\ SafeElections /\ LogInv /\ CommitsKept
      /\ TypeOK' /\ ElectionInv' /\ SafeElections' /\ Quiet /\ Quiet' /\ [Next]_vars
      => Stable
  <2> SUFFICES ASSUME TypeOK, ElectionInv, SafeElections, LogInv, CommitsKept, TypeOK',
                      ElectionInv', SafeElections', Quiet, Quiet', [Next]_vars, NEW i \in Server
               PROVE  /\ commitIndex[i] <= commitIndex'[i]
                      /\ IsPrefix(SubSeq(log[i], 1, commitIndex[i]), log'[i])
    OBVIOUS
  <2>0. Calm /\ Calm' /\ ~guessed /\ ~guessed' /\ Cardinality(Server) # 4
    BY DEF Calm
  <2>1. CommitInv /\ CommitKeeps
    BY <2>0, CommitNext DEF CommitsKept
  <2>2. /\ log[i] \in Seq(Entry) /\ log'[i] \in Seq(Entry) /\ Len(log[i]) \in Nat /\ commitIndex[i] \in Nat
    BY DEF TypeOK, LogTypes
  <2>3. commitIndex[i] <= Len(log[i])
    BY <2>1 DEF CommitInv, Covered
  <2>4. /\ SubSeq(log[i], 1, commitIndex[i]) \in Seq(Entry)
        /\ Len(SubSeq(log[i], 1, commitIndex[i])) = commitIndex[i]
        /\ \A n \in 1..commitIndex[i] : SubSeq(log[i], 1, commitIndex[i])[n] = log[i][n]
    BY <2>2, <2>3
  <2>5. /\ commitIndex[i] <= commitIndex'[i] /\ commitIndex[i] <= Len(log'[i])
        /\ \A n \in 1..commitIndex[i] : log'[i][n] = log[i][n]
    BY <2>1 DEF CommitKeeps
  <2>6. PICK s \in Seq(Entry) : s = SubSeq(log[i], 1, commitIndex[i])
    BY <2>4
  <2>7. Len(s) <= Len(log'[i]) /\ \A n \in 1..Len(s) : s[n] = log'[i][n]
    BY <2>4, <2>5, <2>6
  <2>8. IsPrefix(s, log'[i])
    BY <2>2, <2>7, PrefixByElements
  <2> QED
    BY <2>5, <2>6, <2>8
<1>2. Spec => []SafeElections
  BY ElectionSafe DEF SafeElections
<1> QED
  BY TypeCorrect, VotesBacked, LogInvHolds, CommitsKeptHolds, <1>1, <1>2, PTL
  DEF Spec, CommittedPrefixStable
=============================================================================
