--------------------------- MODULE MembershipProofs ---------------------------
(***************************************************************************)
(* What the membership manager guarantees for every set of nodes,          *)
(* administrators and every bound, from one inductive invariant: the       *)
(* pending change is valid for the current configuration, and the pending  *)
(* configuration is the current one with that change.                      *)
(***************************************************************************)
EXTENDS Membership, FiniteSetTheorems, TLAPS

PendingIsNext ==
  /\ pending = None <=> pendingConfig = None
  /\ pending # None => /\ ValidateChange(current, pending)
                       /\ pendingConfig = ApplyChangeToConfig(current, pending)

CaughtUpWasReported ==
  /\ \A n \in Node : learnerStatuses[n] = "caughtUp" => n \in reported
  /\ pending # None /\ pending.type = "PromoteNode" => pending.node \in reported

IInv == TypeOK /\ PendingIsNext /\ CaughtUpWasReported

-----------------------------------------------------------------------------
(* Configurations *)

\* A valid change yields a configuration that differs from the old one at one node.
LEMMA AppliedConfiguration ==
  ASSUME NEW config \in Configuration, NEW change \in ConfigChange
  PROVE  /\ ApplyChangeToConfig(config, change) \in Configuration
         /\ ApplyChangeToConfig(config, change)[change.node] = MemberAfter(change)
         /\ \A n \in Node \ {change.node} : ApplyChangeToConfig(config, change)[n] = config[n]
         /\ MemberAfter(change) \in {"absent", "Voter", "Learner"}
PROOF
<1>1. change.node \in Node /\ change.type \in {"AddLearnerNode", "PromoteNode", "RemoveNode", "DemoteNode"}
  BY DEF ConfigChange
<1>2. MemberAfter(change) \in {"absent", "Voter", "Learner"}
  BY <1>1 DEF MemberAfter
<1> QED
  BY <1>1, <1>2 DEF ApplyChangeToConfig, Configuration

\* The voters of a configuration are a finite set.
LEMMA VotersFinite ==
  ASSUME NEW config
  PROVE  IsFiniteSet(Voters(config)) /\ Cardinality(Voters(config)) \in Nat
PROOF
<1>1. Voters(config) \subseteq Node
  BY DEF Voters
<1> QED
  BY <1>1, MembershipAssumption, FS_Subset, FS_CardinalityType

\* A change moves at most one node into or out of the set of voters.
LEMMA OneVoterMoves ==
  ASSUME NEW config \in Configuration, NEW change \in ConfigChange
  PROVE  LET new == Voters(ApplyChangeToConfig(config, change))
         IN  \/ new = Voters(config)
             \/ change.node \notin Voters(config) /\ new = Voters(config) \cup {change.node}
             \/ change.node \in Voters(config) /\ new = Voters(config) \ {change.node}
PROOF
<1>1. change.node \in Node
  BY DEF ConfigChange
<1> QED
  BY <1>1, AppliedConfiguration DEF Voters

\* A change that is valid leaves a voter.
LEMMA ValidChangeLeavesVoter ==
  ASSUME NEW config \in Configuration, NEW change \in ConfigChange,
         ValidateChange(config, change), Voters(config) # {}
  PROVE  Voters(ApplyChangeToConfig(config, change)) # {}
PROOF
<1> DEFINE n == change.node
           new == Voters(ApplyChangeToConfig(config, change))
<1>1. n \in Node /\ change.type \in {"AddLearnerNode", "PromoteNode", "RemoveNode", "DemoteNode"}
  BY DEF ConfigChange
<1>2. CASE n \notin Voters(config)
  <2>1. PICK v \in Voters(config) : TRUE
    OBVIOUS
  <2> QED
    BY <2>1, <1>1, <1>2, OneVoterMoves
<1>3. CASE n \in Voters(config) /\ change.type \in {"AddLearnerNode", "PromoteNode"}
  BY <1>3 DEF ValidateChange, Contains, Voters
<1>4. CASE n \in Voters(config) /\ change.type \in {"RemoveNode", "DemoteNode"}
  <2>1. Cardinality(Voters(config)) > 1
    BY <1>4 DEF ValidateChange, Voters
  <2>2. Voters(config) \ {n} # {}
    <3>1. SUFFICES ASSUME Voters(config) = {n} PROVE FALSE
      BY <1>4
    <3> QED
      BY <3>1, <2>1, FS_Singleton
  <2> QED
    BY <2>2, OneVoterMoves
<1> QED
  BY <1>1, <1>2, <1>3, <1>4

\* Twice half of a number, rounded down, is less than the number by one at most.
LEMMA HalfBound ==
  ASSUME NEW k \in Nat
  PROVE  k \div 2 \in Nat /\ 2 * (k \div 2) + 1 >= k
PROOF
  OBVIOUS

\* Two majorities, of k and of k + 1 voters, are more than k + 1 votes.
LEMMA MajoritiesExceed ==
  ASSUME NEW k \in Nat, NEW p \in Nat, NEW q \in Nat,
         p >= k \div 2 + 1, q >= (k + 1) \div 2 + 1
  PROVE  p + q > k + 1
PROOF
<1>1. k \div 2 + (k + 1) \div 2 >= k
  OBVIOUS
<1> QED
  BY <1>1, HalfBound, k + 1 \in Nat

\* Quorums of two sets of voters that differ in at most one node meet.
LEMMA NeighbouringQuorumsMeet ==
  ASSUME NEW V, NEW W, NEW n, IsFiniteSet(V), IsFiniteSet(W),
         W = V \/ (n \notin V /\ W = V \cup {n}) \/ (n \in V /\ W = V \ {n}),
         NEW P \in SUBSET V, NEW Q \in SUBSET W,
         Cardinality(P) >= Cardinality(V) \div 2 + 1,
         Cardinality(Q) >= Cardinality(W) \div 2 + 1
  PROVE  P \cap Q # {}
PROOF
<1>1. SUFFICES ASSUME P \cap Q = {} PROVE FALSE
  OBVIOUS
<1>2. IsFiniteSet(P) /\ IsFiniteSet(Q)
  BY FS_Subset
<1>3. /\ Cardinality(P) \in Nat /\ Cardinality(Q) \in Nat
      /\ Cardinality(V) \in Nat /\ Cardinality(W) \in Nat
  BY <1>2, FS_CardinalityType
<1>4. IsFiniteSet(V \cup W) /\ Cardinality(P \cup Q) = Cardinality(P) + Cardinality(Q)
  <2>1. Cardinality(P \cap Q) = 0
    BY <1>1, FS_EmptySet
  <2> QED
    BY SMTT(30), <2>1, <1>2, <1>3, FS_Union
<1>5. Cardinality(P) + Cardinality(Q) <= Cardinality(V \cup W)
  BY <1>4, FS_Subset, P \cup Q \subseteq V \cup W
<1>6. CASE W = V
  <2>1. Cardinality(P) + Cardinality(Q) <= Cardinality(V)
    BY <1>5, <1>6, V \cup W = V
  <2>2. Cardinality(Q) >= Cardinality(V) \div 2 + 1
    BY <1>6
  <2> QED
    BY <1>3, <2>1, <2>2, HalfBound
<1>7. CASE n \notin V /\ W = V \cup {n}
  <2>1. Cardinality(W) = Cardinality(V) + 1
    BY <1>7, FS_AddElement
  <2>2. Cardinality(P) + Cardinality(Q) <= Cardinality(V) + 1
    BY <1>5, <1>7, <2>1, V \cup W = W
  <2>3. Cardinality(Q) >= (Cardinality(V) + 1) \div 2 + 1
    BY <2>1
  <2>4. Cardinality(P) + Cardinality(Q) > Cardinality(V) + 1
    BY <1>3, <2>3, MajoritiesExceed
  <2> QED
    BY <1>3, <2>2, <2>4
<1>8. CASE n \in V /\ W = V \ {n}
  <2>1. Cardinality(W) = Cardinality(V) - 1
    BY <1>8, FS_RemoveElement
  <2>2. Cardinality(P) + Cardinality(Q) <= Cardinality(W) + 1
    BY <1>3, <1>5, <1>8, <2>1, V \cup W = V
  <2>3. Cardinality(P) >= (Cardinality(W) + 1) \div 2 + 1
    BY <1>3, <2>1
  <2>4. Cardinality(Q) + Cardinality(P) > Cardinality(W) + 1
    BY <1>3, <2>3, MajoritiesExceed
  <2> QED
    BY <1>3, <2>2, <2>4
<1> QED
  BY <1>6, <1>7, <1>8

-----------------------------------------------------------------------------
(* The inductive invariant *)

\* A progress report that makes a learner caught up is within the gap and not ahead.
LEMMA GapWithoutWrap ==
  ASSUME NEW m \in 0 .. MaxReport, NEW l \in 0 .. MaxReport, IndexGap(m, l) <= CatchUpIndexGap
  PROVE  m <= l /\ l <= m + CatchUpIndexGap
PROOF
  BY MembershipAssumption DEF IndexGap

\* The change an administrator proposes is a configuration change.
LEMMA ChangeType ==
  ASSUME NEW n \in Node, lastIndex \in 0 .. MaxIndex, lastIndex < MaxIndex,
         NEW type \in {"AddLearnerNode", "PromoteNode", "RemoveNode"}
  PROVE  Change(type, n) \in ConfigChange /\ Change(type, n).node = n
PROOF
  BY MembershipAssumption DEF Change, ConfigChange

\* The initial state satisfies the invariant.
LEMMA InitInvariant == Init => IInv
PROOF
<1> SUFFICES ASSUME Init PROVE IInv
  OBVIOUS
<1>1. TypeOK
  BY MembershipAssumption DEF Init, TypeOK, Configuration
<1> QED
  BY <1>1 DEF Init, IInv, PendingIsNext, CaughtUpWasReported

\* A proposal makes the next configuration out of the current one.
LEMMA ProposalInvariant ==
  ASSUME IInv, NEW c \in Caller, NEW change \in ConfigChange, ProposeChange(c, change)
  PROVE  /\ PendingIsNext' /\ pending' = change
         /\ current' \in Configuration /\ pendingConfig' \in Configuration
         /\ proposal' \in [Caller -> ConfigChange \cup {None}]
         /\ lastIndex' \in 0 .. MaxIndex /\ replays' = replays /\ lastChangeIndex' = lastChangeIndex
PROOF
<1>1. change # None /\ pendingConfig' \in Configuration
  BY NilAssumption, AppliedConfiguration DEF ProposeChange, IInv, TypeOK
<1>2. PendingIsNext'
  BY <1>1, NilAssumption DEF ProposeChange, PendingIsNext
<1>3. change.index \in 0 .. MaxIndex
  BY MembershipAssumption DEF ConfigChange
<1> QED
  BY <1>1, <1>2, <1>3 DEF ProposeChange, IInv, TypeOK

\* A commit installs the pending configuration.
LEMMA CommitInvariant ==
  ASSUME IInv, NEW c \in Caller, proposal[c] # None, CommitChange(c), Finish(c)
  PROVE  /\ PendingIsNext' /\ pending' = None /\ pendingConfig' = None
         /\ current' \in Configuration /\ lastChangeIndex' \in 0 .. MaxIndex
         /\ proposal' \in [Caller -> ConfigChange \cup {None}]
         /\ lastIndex' = lastIndex /\ replays' = replays
PROOF
<1>1. pending \in ConfigChange /\ proposal[c] \in ConfigChange
  BY DEF CommitChange, IInv, TypeOK
<1>2. current' = ApplyChangeToConfig(current, pending)
  BY DEF CommitChange, IInv, PendingIsNext
<1>3. current' \in Configuration
  BY <1>1, <1>2, AppliedConfiguration DEF IInv, TypeOK
<1>4. lastChangeIndex' \in 0 .. MaxIndex
  BY <1>1, MembershipAssumption DEF CommitChange, ConfigChange
<1> QED
  BY <1>3, <1>4 DEF CommitChange, ClearPending, Finish, PendingIsNext, IInv, TypeOK

\* Every step preserves the invariant.
LEMMA StepInvariant == IInv /\ [Next]_vars => IInv'
PROOF
<1> SUFFICES ASSUME IInv, [Next]_vars PROVE IInv'
  OBVIOUS
<1> USE DEF IInv
<1>1. ASSUME NEW c \in Caller, NEW n \in Node, lastIndex < MaxIndex, AddLearner(c, n)
      PROVE  IInv'
  <2>1. Change("AddLearnerNode", n) \in ConfigChange
    BY <1>1, ChangeType DEF TypeOK
  <2>2. ProposeChange(c, Change("AddLearnerNode", n))
    BY <1>1 DEF AddLearner
  <2>3. TypeOK'
    BY <1>1, <2>1, <2>2, ProposalInvariant DEF AddLearner, NewStatus, TypeOK
  <2>4. CaughtUpWasReported'
    BY <1>1, <2>1, <2>2, ProposalInvariant
       DEF AddLearner, NewStatus, CaughtUpWasReported, Change, TypeOK
  <2> QED
    BY <2>1, <2>2, <2>3, <2>4, ProposalInvariant
<1>2. ASSUME NEW c \in Caller, NEW n \in Node, lastIndex < MaxIndex, PromoteLearner(c, n)
      PROVE  IInv'
  <2>1. Change("PromoteNode", n) \in ConfigChange
    BY <1>2, ChangeType DEF TypeOK
  <2>2. ProposeChange(c, Change("PromoteNode", n))
    BY <1>2 DEF PromoteLearner
  <2>3. TypeOK'
    BY <1>2, <2>1, <2>2, ProposalInvariant DEF PromoteLearner, TypeOK
  <2>4. CaughtUpWasReported'
    BY <1>2, <2>1, <2>2, ProposalInvariant DEF PromoteLearner, CaughtUpWasReported, Change
  <2> QED
    BY <2>1, <2>2, <2>3, <2>4, ProposalInvariant
<1>3. ASSUME NEW c \in Caller, NEW n \in Node, lastIndex < MaxIndex, RemoveNode(c, n)
      PROVE  IInv'
  <2>1. Change("RemoveNode", n) \in ConfigChange
    BY <1>3, ChangeType DEF TypeOK
  <2>2. ProposeChange(c, Change("RemoveNode", n))
    BY <1>3 DEF RemoveNode
  <2>3. TypeOK'
    BY <1>3, <2>1, <2>2, ProposalInvariant DEF RemoveNode, TypeOK
  <2>4. CaughtUpWasReported'
    BY <1>3, <2>1, <2>2, ProposalInvariant DEF RemoveNode, CaughtUpWasReported, Change
  <2> QED
    BY <2>1, <2>2, <2>3, <2>4, ProposalInvariant
<1>4. ASSUME NEW c \in Caller, proposal[c] # None, CommitChange(c), Finish(c),
             UNCHANGED <<learnerStatuses, reported>> \/ DeleteStatus(proposal[c].node)
      PROVE  IInv'
  <2>1. TypeOK'
    BY <1>4, CommitInvariant DEF TypeOK, DeleteStatus
  <2>2. CaughtUpWasReported'
    BY <1>4, CommitInvariant DEF CaughtUpWasReported, DeleteStatus, TypeOK
  <2> QED
    BY <1>4, <2>1, <2>2, CommitInvariant
<1>5. ASSUME NEW c \in Caller, proposal[c] # None, CommitFails(c), Finish(c)
      PROVE  IInv'
  BY <1>5 DEF CommitFails, Finish, TypeOK, PendingIsNext, CaughtUpWasReported
<1>6. ASSUME NEW c \in Caller, AbortChange(c)
      PROVE  IInv'
  <2>1. TypeOK'
    BY <1>6 DEF AbortChange, DeleteStatus, ClearPending, Finish, TypeOK
  <2>2. CaughtUpWasReported'
    BY <1>6 DEF AbortChange, DeleteStatus, ClearPending, CaughtUpWasReported, TypeOK
  <2> QED
    BY <1>6, <2>1, <2>2 DEF AbortChange, ClearPending, PendingIsNext
<1>7. ASSUME NEW n \in Node, NEW m \in 0 .. MaxReport, NEW l \in 0 .. MaxReport,
             UpdateLearnerProgress(n, m, l)
      PROVE  IInv'
  <2>1. TypeOK'
    BY <1>7 DEF UpdateLearnerProgress, TypeOK
  <2>2. CaughtUpWasReported'
    BY <1>7, GapWithoutWrap DEF UpdateLearnerProgress, CaughtUpWasReported, TypeOK
  <2> QED
    BY <1>7, <2>1, <2>2 DEF UpdateLearnerProgress, PendingIsNext
<1>8. ASSUME NEW change \in ConfigChange, ApplyConfigChange(change)
      PROVE  IInv'
  <2>1. current' \in Configuration
    BY <1>8, AppliedConfiguration DEF ApplyConfigChange, TypeOK
  <2>2. change.index \in 1 .. MaxIndex /\ change.node \in Node
    BY DEF ConfigChange
  <2>3. learnerStatuses' \in [Node -> {"none", "behind", "caughtUp"}] /\ reported' \subseteq Node
    BY <1>8, <2>2 DEF ApplyConfigChange, NewStatus, DeleteStatus, TypeOK
  <2>4. TypeOK'
    BY <1>8, <2>1, <2>2, <2>3, MembershipAssumption DEF ApplyConfigChange, ClearPending, TypeOK
  <2>5. CaughtUpWasReported'
    BY <1>8, <2>2
       DEF ApplyConfigChange, NewStatus, DeleteStatus, ClearPending, CaughtUpWasReported, TypeOK
  <2> QED
    BY <1>8, <2>1, <2>4, <2>5 DEF ApplyConfigChange, ClearPending, PendingIsNext
<1>9. ASSUME NEW config \in Configuration, SetConfiguration(config)
      PROVE  IInv'
  BY <1>9, MembershipAssumption
     DEF SetConfiguration, ClearPending, TypeOK, PendingIsNext, CaughtUpWasReported
<1>10. CASE UNCHANGED vars
  BY <1>10 DEF vars, TypeOK, PendingIsNext, CaughtUpWasReported
<1> QED
  BY <1>1, <1>2, <1>3, <1>4, <1>5, <1>6, <1>7, <1>8, <1>9, <1>10
     DEF Next, CommitAddLearner, CommitPromoteLearner, CommitRemoveNode, Replay, Restore

\* The invariant holds in every reachable state.
LEMMA Invariant == Spec => []IInv
PROOF
  BY InitInvariant, StepInvariant, PTL DEF Spec

-----------------------------------------------------------------------------
(* Theorems *)

\* The type invariant of the membership manager.
THEOREM MembershipTypeCorrect == Spec => []TypeOK
PROOF
<1>1. IInv => TypeOK
  BY DEF IInv
<1> QED
  BY <1>1, Invariant, PTL

\* Only a change of the pending configuration, a replay or a snapshot changes the configuration.
LEMMA OthersKeepConfiguration ==
  ASSUME [Next]_vars, current' # current, ~Replay, ~Restore
  PROVE  \E c \in Caller : CommitChange(c)
PROOF
  BY DEF Next, AddLearner, PromoteLearner, RemoveNode, ProposeChange,
     CommitAddLearner, CommitPromoteLearner, CommitRemoveNode, CommitFails,
     AbortChange, UpdateLearnerProgress, vars

\* No administrator takes the last voting member away, for every number of them and whatever is
\* replayed, restored or aborted between proposal and commit: validateChange at the proposal
\* suffices although CommitChange validates nothing, because a replay or a snapshot that moves the
\* configuration, with or without a voter left, also takes the pending change away.
THEOREM AdministratorsKeepVoters == Spec => VotersRemain
PROOF
<1>1. ASSUME IInv, [Next]_vars, Voters(current) # {}, ~Replay, ~Restore PROVE Voters(current') # {}
  <2>1. CASE current' = current
    BY <1>1, <2>1 DEF Voters
  <2>2. CASE current' # current
    <3>1. PICK c \in Caller : CommitChange(c)
      BY <1>1, <2>2, OthersKeepConfiguration
    <3>2. /\ pending \in ConfigChange /\ ValidateChange(current, pending)
          /\ current' = ApplyChangeToConfig(current, pending)
      BY <1>1, <3>1 DEF CommitChange, IInv, TypeOK, PendingIsNext
    <3> QED
      BY <1>1, <3>2, ValidChangeLeavesVoter DEF IInv, TypeOK
  <2> QED
    BY <2>1, <2>2
<1>2. IInv /\ [Next]_vars =>
        [Voters(current) # {} => Replay \/ Restore \/ Voters(current') # {}]_vars
  BY <1>1
<1> QED
  BY <1>2, Invariant, PTL DEF Spec, VotersRemain

\* A step other than a restored snapshot applies at most one change to the configuration.
LEMMA OneChangePerStep ==
  ASSUME IInv, [Next]_vars
  PROVE  Restore \/ current' = current
         \/ \E change \in ConfigChange : current' = ApplyChangeToConfig(current, change)
PROOF
<1> USE DEF IInv, TypeOK
<1>1. ASSUME NEW c \in Caller, CommitChange(c)
      PROVE  pending \in ConfigChange /\ current' = ApplyChangeToConfig(current, pending)
  BY <1>1 DEF CommitChange, PendingIsNext
<1>2. CASE Replay
  BY <1>2 DEF Replay, ApplyConfigChange
<1>3. CASE \E c \in Caller : CommitAddLearner(c) \/ CommitPromoteLearner(c) \/ CommitRemoveNode(c)
  BY <1>1, <1>3 DEF CommitAddLearner, CommitPromoteLearner, CommitRemoveNode, CommitFails
<1>4. CASE \E c \in Caller, n \in Node : AddLearner(c, n) \/ PromoteLearner(c, n) \/ RemoveNode(c, n)
  BY <1>4 DEF AddLearner, PromoteLearner, RemoveNode, ProposeChange
<1>5. CASE (\E c \in Caller : AbortChange(c)) \/ UNCHANGED vars
  BY <1>5 DEF AbortChange, vars
<1>6. CASE \E n \in Node, m, l \in 0 .. MaxReport : UpdateLearnerProgress(n, m, l)
  BY <1>6 DEF UpdateLearnerProgress
<1> QED
  BY <1>2, <1>3, <1>4, <1>5, <1>6 DEF Next

\* Any quorum of a configuration meets any quorum of the next one, for every number of nodes
\* and administrators: single-server changes never let two disjoint majorities decide.
THEOREM QuorumsAlwaysMeet == Spec => ConsecutiveQuorumsMeet
PROOF
<1>1. ASSUME IInv, [Next]_vars, ~Restore,
             NEW P \in QuorumsOf(current), NEW Q \in QuorumsOf(current')
      PROVE  P \cap Q # {}
  <2>1. /\ P \in SUBSET Voters(current) /\ Cardinality(P) >= Cardinality(Voters(current)) \div 2 + 1
        /\ Q \in SUBSET Voters(current') /\ Cardinality(Q) >= Cardinality(Voters(current')) \div 2 + 1
    BY DEF QuorumsOf, Quorum
  <2>2. IsFiniteSet(Voters(current)) /\ IsFiniteSet(Voters(current'))
    BY VotersFinite
  <2>3. CASE current' = current
    BY <2>1, <2>2, <2>3, NeighbouringQuorumsMeet
  <2>4. CASE \E change \in ConfigChange : current' = ApplyChangeToConfig(current, change)
    <3>1. PICK change \in ConfigChange : current' = ApplyChangeToConfig(current, change)
      BY <2>4
    <3>2. \/ Voters(current') = Voters(current)
          \/ change.node \notin Voters(current) /\ Voters(current') = Voters(current) \cup {change.node}
          \/ change.node \in Voters(current) /\ Voters(current') = Voters(current) \ {change.node}
      BY <1>1, <3>1, OneVoterMoves DEF IInv, TypeOK
    <3> QED
      BY <2>1, <2>2, <3>2, NeighbouringQuorumsMeet
  <2> QED
    BY <1>1, <2>3, <2>4, OneChangePerStep
<1>2. IInv /\ [Next]_vars =>
        [Restore \/ \A Q1 \in QuorumsOf(current), Q2 \in QuorumsOf(current') : Q1 \cap Q2 # {}]_vars
  BY <1>1
<1> QED
  BY <1>2, Invariant, PTL DEF Spec, ConsecutiveQuorumsMeet

\* No node becomes a voter by an administrator's commit without having been reported, since its
\* learner status was made, within the gap and not ahead of the leader.
THEOREM PromotionsAreEarned == Spec => PromotedHavingCaughtUp
PROOF
<1>1. ASSUME IInv, [Next]_vars, NEW n \in Node, n \in Voters(current') \ Voters(current), ~Replay, ~Restore
      PROVE  n \in reported
  <2>1. PICK c \in Caller : CommitChange(c)
    <3>1. current' # current
      BY <1>1
    <3> QED
      BY <1>1, <3>1, OthersKeepConfiguration
  <2>2. pending \in ConfigChange /\ current' = ApplyChangeToConfig(current, pending)
    BY <1>1, <2>1 DEF CommitChange, PendingIsNext, IInv, TypeOK
  <2>3. n = pending.node /\ MemberAfter(pending) = "Voter"
    BY <1>1, <2>2, AppliedConfiguration DEF Voters, IInv, TypeOK
  <2>4. pending.type = "PromoteNode"
    BY <2>2, <2>3 DEF MemberAfter, ConfigChange
  <2> QED
    BY <1>1, <2>1, <2>3, <2>4 DEF IInv, CaughtUpWasReported, CommitChange
<1>2. IInv /\ [Next]_vars =>
        [\A n \in Node :
           n \in Voters(current') \ Voters(current) => Replay \/ Restore \/ n \in reported]_vars
  BY <1>1
<1> QED
  BY <1>2, Invariant, PTL DEF Spec, PromotedHavingCaughtUp

\* The strengthening of UndisturbedProposalIsPending: one administrator at a time.
OneProposer ==
  replays = 0 =>
    \A c, d \in Caller : proposal[c] # None /\ proposal[d] # None => c = d

\* As long as nothing was replayed, an administrator's proposal is the pending change until that
\* administrator commits or aborts it: changeInProgress keeps concurrent changes apart.
THEOREM ProposalsAreKeptApart == Spec => []UndisturbedProposalIsPending
PROOF
<1> DEFINE J == OneProposer /\ UndisturbedProposalIsPending
<1>1. Init => J
  BY DEF Init, OneProposer, UndisturbedProposalIsPending
<1>2. ASSUME IInv, J, [Next]_vars PROVE J'
  <2> USE <1>2 DEF OneProposer, UndisturbedProposalIsPending, IInv, TypeOK
  <2>1. ASSUME NEW c \in Caller, NEW change \in ConfigChange, ProposeChange(c, change)
        PROVE  J'
    BY <2>1, NilAssumption DEF ProposeChange
  <2>2. ASSUME NEW c \in Caller, NEW n \in Node, lastIndex < MaxIndex,
               AddLearner(c, n) \/ PromoteLearner(c, n) \/ RemoveNode(c, n)
        PROVE  J'
    BY <2>1, <2>2, ChangeType DEF AddLearner, PromoteLearner, RemoveNode
  <2>3. ASSUME NEW c \in Caller, proposal[c] # None, Finish(c)
        PROVE  J'
    BY <2>3 DEF Finish
  <2>4. ASSUME NEW c \in Caller, CommitAddLearner(c) \/ CommitPromoteLearner(c)
                                  \/ CommitRemoveNode(c) \/ AbortChange(c)
        PROVE  J'
    BY <2>3, <2>4 DEF CommitAddLearner, CommitPromoteLearner, CommitRemoveNode, AbortChange
  <2>5. ASSUME NEW n \in Node, NEW m \in 0 .. MaxReport, NEW l \in 0 .. MaxReport,
               UpdateLearnerProgress(n, m, l)
        PROVE  J'
    BY <2>5 DEF UpdateLearnerProgress
  <2>6. CASE Replay \/ Restore
    <3>1. replays' # 0
      BY <2>6 DEF Replay, Restore, ApplyConfigChange, SetConfiguration
    <3> QED
      BY <3>1
  <2>7. CASE UNCHANGED vars
    BY <2>7 DEF vars
  <2> QED
    BY <2>2, <2>4, <2>5, <2>6, <2>7 DEF Next
<1> QED
  BY <1>1, <1>2, Invariant, PTL DEF Spec

-----------------------------------------------------------------------------
(* The statuses of learners *)

StatusOwners == {n \in Node : learnerStatuses[n] # "none"}

\* The configuration whose learners have a status.
StatusConfig == IF pending # None /\ pending.type = "AddLearnerNode" THEN pendingConfig ELSE current

\* What NewStatus and DeleteStatus do to the set of nodes that have a status.
LEMMA StatusChanges ==
  ASSUME TypeOK, NEW n \in Node
  PROVE  /\ NewStatus(n) => StatusOwners' = StatusOwners \cup {n}
         /\ DeleteStatus(n) => StatusOwners' = StatusOwners \ {n}
BY DEF TypeOK, NewStatus, DeleteStatus, StatusOwners

\* Applying a change moves its node into or out of the learners, and no other.
LEMMA LearnersAfter ==
  ASSUME NEW config \in Configuration, NEW change \in ConfigChange
  PROVE  LET new == Learners(ApplyChangeToConfig(config, change))
         IN  /\ MemberAfter(change) = "Learner" => new = Learners(config) \cup {change.node}
             /\ MemberAfter(change) # "Learner" => new = Learners(config) \ {change.node}
PROOF
<1>1. change.node \in Node
  BY DEF ConfigChange
<1> QED
  BY <1>1, AppliedConfiguration DEF Learners

\* While an addition is pending its node is no member yet.
LEMMA AddedIsNew ==
  ASSUME IInv, pending # None, pending.type = "AddLearnerNode"
  PROVE  /\ pending.node \in Node /\ pending.node \notin Learners(current)
         /\ Learners(pendingConfig) = Learners(current) \cup {pending.node}
PROOF
<1>1. pending \in ConfigChange /\ pending.node \in Node
  BY DEF IInv, TypeOK, ConfigChange
<1>2. ~Contains(current, pending.node) /\ MemberAfter(pending) = "Learner"
  BY DEF IInv, PendingIsNext, ValidateChange, MemberAfter
<1> QED
  BY <1>1, <1>2, LearnersAfter DEF IInv, TypeOK, PendingIsNext, Contains, Learners

\* A commit of the pending promotion or removal takes its node out of the learners.
LEMMA CommitTakesOut ==
  ASSUME IInv, NEW c \in Caller, CommitChange(c), pending.type \in {"PromoteNode", "RemoveNode"}
  PROVE  pending.node \in Node /\ Learners(current') = Learners(current) \ {pending.node}
PROOF
<1>1. pending \in ConfigChange /\ pending.node \in Node
  BY DEF CommitChange, IInv, TypeOK, ConfigChange
<1>2. MemberAfter(pending) # "Learner" /\ current' = ApplyChangeToConfig(current, pending)
  BY DEF CommitChange, IInv, PendingIsNext, MemberAfter
<1> QED
  BY <1>1, <1>2, LearnersAfter DEF IInv, TypeOK

\* As long as nothing was replayed, exactly the learners, and the one being added, have a status:
\* no sequence of additions, promotions, removals and aborts by any number of administrators
\* leaves a status behind, or a learner without one, so UpdateLearnerProgress reaches every learner.
THEOREM StatusesFollowLearners == Spec => []StatusesAreOfLearners
PROOF
<1> DEFINE S == replays = 0 => StatusOwners = Learners(StatusConfig)
<1>0. StatusesAreOfLearners <=> S
  BY DEF StatusesAreOfLearners, StatusOwners, StatusConfig
<1>1. Init => S
  BY DEF Init, StatusOwners, StatusConfig, Learners
<1>2. ASSUME IInv, UndisturbedProposalIsPending, S, [Next]_vars PROVE S'
  <2> SUFFICES ASSUME replays' = 0 PROVE StatusOwners' = Learners(StatusConfig)'
    OBVIOUS
  <2>0. replays = 0 /\ ~Replay /\ ~Restore
    BY <1>2, MembershipAssumption
       DEF Next, vars, IInv, TypeOK, AddLearner, PromoteLearner, RemoveNode, ProposeChange,
           CommitAddLearner, CommitPromoteLearner, CommitRemoveNode, AbortChange, Finish,
           UpdateLearnerProgress, Replay, Restore, ApplyConfigChange, SetConfiguration
  <2>s. StatusOwners = Learners(StatusConfig)
    BY <1>2, <2>0
  <2>1. ASSUME NEW c \in Caller, NEW n \in Node, lastIndex < MaxIndex, AddLearner(c, n)
        PROVE  StatusOwners' = Learners(StatusConfig)'
    <3> DEFINE change == Change("AddLearnerNode", n)
    <3>1. change \in ConfigChange /\ change.node = n /\ change.type = "AddLearnerNode" /\ change # None
      BY <1>2, <2>1, ChangeType, NilAssumption DEF IInv, TypeOK, Change
    <3>2. pending = None /\ pending' = change /\ pendingConfig' = ApplyChangeToConfig(current, change)
      BY <2>1 DEF AddLearner, ProposeChange
    <3>3. StatusConfig = current /\ StatusConfig' = pendingConfig'
      BY <3>1, <3>2 DEF StatusConfig
    <3>4. Learners(pendingConfig') = Learners(current) \cup {n}
      BY <1>2, <3>1, <3>2, LearnersAfter DEF MemberAfter, IInv, TypeOK
    <3> QED
      BY <1>2, <2>1, <2>s, <3>3, <3>4, StatusChanges DEF AddLearner, IInv, Learners
  <2>2. ASSUME NEW c \in Caller, NEW n \in Node, lastIndex < MaxIndex,
               PromoteLearner(c, n) \/ RemoveNode(c, n)
        PROVE  StatusOwners' = Learners(StatusConfig)'
    <3>1. /\ pending = None /\ pending'.type # "AddLearnerNode" /\ current' = current
          /\ learnerStatuses' = learnerStatuses
      BY <2>2 DEF PromoteLearner, RemoveNode, ProposeChange, Change
    <3> QED
      BY <2>s, <3>1 DEF StatusConfig, StatusOwners, Learners
  <2>3. ASSUME NEW c \in Caller, proposal[c] # None
        PROVE  pending = proposal[c] /\ ~CommitFails(c)
    BY <1>2, <2>0, <2>3 DEF UndisturbedProposalIsPending, CommitFails
  <2>4. ASSUME NEW c \in Caller, CommitAddLearner(c)
        PROVE  StatusOwners' = Learners(StatusConfig)'
    <3>1. /\ pending # None /\ pending.type = "AddLearnerNode" /\ current' = pendingConfig
          /\ pending' = None /\ learnerStatuses' = learnerStatuses
      BY <2>3, <2>4 DEF CommitAddLearner, CommitChange, ClearPending
    <3> QED
      BY <2>s, <3>1 DEF StatusConfig, StatusOwners, Learners
  <2>5. ASSUME NEW c \in Caller, CommitPromoteLearner(c) \/ CommitRemoveNode(c)
        PROVE  StatusOwners' = Learners(StatusConfig)'
    <3>1. /\ pending # None /\ pending.type \in {"PromoteNode", "RemoveNode"} /\ CommitChange(c)
          /\ pending' = None /\ DeleteStatus(pending.node)
      BY <2>3, <2>5 DEF CommitPromoteLearner, CommitRemoveNode, CommitChange, ClearPending
    <3>2. StatusConfig = current /\ StatusConfig' = current'
      BY <3>1 DEF StatusConfig
    <3> QED
      BY <1>2, <2>s, <3>1, <3>2, StatusChanges, CommitTakesOut DEF IInv, Learners
  <2>6. ASSUME NEW c \in Caller, AbortChange(c)
        PROVE  StatusOwners' = Learners(StatusConfig)'
    <3>1. pending # None /\ current' = current /\ pending' = None /\ StatusConfig' = current'
      BY <2>3, <2>6 DEF AbortChange, ClearPending, StatusConfig
    <3>2. CASE pending.type = "AddLearnerNode"
      BY <1>2, <2>s, <2>6, <3>1, <3>2, AddedIsNew, StatusChanges
         DEF AbortChange, StatusConfig, IInv, Learners
    <3>3. CASE pending.type # "AddLearnerNode"
      BY <2>s, <2>6, <3>1, <3>3 DEF AbortChange, StatusConfig, StatusOwners, Learners
    <3> QED
      BY <3>2, <3>3
  <2>7. ASSUME NEW n \in Node, NEW m \in 0 .. MaxReport, NEW l \in 0 .. MaxReport,
               UpdateLearnerProgress(n, m, l)
        PROVE  StatusOwners' = Learners(StatusConfig)'
    <3>1. StatusOwners' = StatusOwners
      BY <1>2, <2>7 DEF UpdateLearnerProgress, StatusOwners, IInv, TypeOK
    <3> QED
      BY <2>s, <2>7, <3>1 DEF UpdateLearnerProgress, StatusConfig, Learners
  <2>8. CASE UNCHANGED vars
    BY <2>s, <2>8 DEF vars, StatusConfig, StatusOwners, Learners
  <2> QED
    BY <1>2, <2>0, <2>1, <2>2, <2>4, <2>5, <2>6, <2>7, <2>8 DEF Next
<1> QED
  BY <1>0, <1>1, <1>2, Invariant, ProposalsAreKeptApart, PTL DEF Spec
=============================================================================
