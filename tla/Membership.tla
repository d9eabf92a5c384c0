------------------------------ MODULE Membership ------------------------------
(***************************************************************************)
(* The membership of the cluster as one node keeps it: MembershipManager   *)
(* (pkg/cluster/membership.go) and the ConfigurationManager under it       *)
(* (pkg/cluster/types.go).  Every operation runs under the manager's lock  *)
(* and is one action.                                                      *)
(*                                                                         *)
(* No code of the repository calls the manager but its tests, which show   *)
(* how it is meant to be used: an administrator proposes a change, has it  *)
(* replicated, and then commits or aborts it; changes and snapshots of     *)
(* other leaders arrive through ApplyConfigChange and SetConfiguration at  *)
(* any moment.  Those inputs are not validated: any change that            *)
(* applyChangeToConfig accepts, any configuration.                         *)
(***************************************************************************)
EXTENDS Integers, FiniteSets

CONSTANTS
  Node,             \* node IDs
  InitialMembers,   \* the voters the cluster starts with
  Caller,           \* administrators
  CatchUpIndexGap,  \* how far behind the leader a learner that has caught up may be
  Word,             \* number of values of a uint64, small
  None,             \* nil
  MaxIndex,         \* bound: log indices given to configuration changes
  MaxReplays,       \* bound: replayed changes and restored snapshots
  MaxReport         \* bound: log indices in a progress report

ASSUME MembershipAssumption ==
  /\ IsFiniteSet(Node) /\ InitialMembers \subseteq Node /\ InitialMembers # {}
  /\ CatchUpIndexGap \in Nat /\ MaxIndex \in Nat /\ MaxReplays \in Nat
  /\ MaxReport \in Nat /\ Word \in Nat /\ Word > MaxReport + CatchUpIndexGap

VARIABLES
  current,          \* ConfigurationManager.current: what each node is
  pending,          \* ConfigurationManager.pending (changeInProgress iff it is not nil)
  pendingConfig,    \* ConfigurationManager.pendingConfig
  lastChangeIndex,  \* ConfigurationManager.lastChangeIndex, and current.Index
  learnerStatuses,  \* MembershipManager.learnerStatuses: no entry, or LearnerStatus.CaughtUp
  proposal,         \* the change each administrator has proposed and not yet finished
  lastIndex,        \* last log index given to a change
  replays,          \* replayed changes and restored snapshots so far
  reported          \* history: learners reported within the gap since their status was made

vars == <<current, pending, pendingConfig, lastChangeIndex, learnerStatuses, proposal,
          lastIndex, replays, reported>>

-----------------------------------------------------------------------------
(* Configurations and changes *)

Configuration == [Node -> {"absent", "Voter", "Learner"}]

ConfigChange ==
  [type : {"AddLearnerNode", "PromoteNode", "RemoveNode", "DemoteNode"},
   node : Node, index : 1 .. MaxIndex]

ASSUME NilAssumption == None \notin ConfigChange /\ None \notin Configuration

Voters(config) == {n \in Node : config[n] = "Voter"}

Learners(config) == {n \in Node : config[n] = "Learner"}

Contains(config, n) == config[n] # "absent"

\* Mutant of Quorum: half of the voters.
HalfQuorum(config) == Cardinality(Voters(config)) \div 2

Quorum(config) == Cardinality(Voters(config)) \div 2 + 1

\* Mutant of ValidateChange: the last voter may be removed.
ValidateAnyRemoval(config, change) ==
  CASE change.type = "AddLearnerNode" -> ~Contains(config, change.node)
    [] change.type = "PromoteNode" -> config[change.node] = "Learner"
    [] change.type = "RemoveNode" -> Contains(config, change.node)
    [] change.type = "DemoteNode" ->
         config[change.node] = "Voter" /\ Cardinality(Voters(config)) > 1

ValidateChange(config, change) ==
  CASE change.type = "AddLearnerNode" -> ~Contains(config, change.node)
    [] change.type = "PromoteNode" -> config[change.node] = "Learner"
    [] change.type = "RemoveNode" ->
         /\ Contains(config, change.node)
         /\ config[change.node] = "Voter" => Cardinality(Voters(config)) > 1
    [] change.type = "DemoteNode" ->
         config[change.node] = "Voter" /\ Cardinality(Voters(config)) > 1

MemberAfter(change) ==
  CASE change.type = "AddLearnerNode" -> "Learner"
    [] change.type = "PromoteNode" -> "Voter"
    [] change.type = "RemoveNode" -> "absent"
    [] change.type = "DemoteNode" -> "Learner"

\* applyChangeToConfig returns no error: it looks at the node of the change only, not at how many
\* voters are left.
Applicable(config, change) ==
  CASE change.type = "AddLearnerNode" -> ~Contains(config, change.node)
    [] change.type = "PromoteNode" -> config[change.node] = "Learner"
    [] OTHER -> Contains(config, change.node)

ApplyChangeToConfig(config, change) ==
  [config EXCEPT ![change.node] = MemberAfter(change)]

Init ==
  /\ current = [n \in Node |-> IF n \in InitialMembers THEN "Voter" ELSE "absent"]
  /\ pending = None
  /\ pendingConfig = None
  /\ lastChangeIndex = 0
  /\ learnerStatuses = [n \in Node |-> "none"]
  /\ proposal = [c \in Caller |-> None]
  /\ lastIndex = 0
  /\ replays = 0
  /\ reported = {}

-----------------------------------------------------------------------------
(* ConfigurationManager *)

\* Mutant of ProposeChange: a change may be proposed while another one is in progress.
ProposeAnother(c, change) ==
  /\ proposal[c] = None
  /\ ValidateChange(current, change)
  /\ pending' = change
  /\ pendingConfig' = ApplyChangeToConfig(current, change)
  /\ proposal' = [proposal EXCEPT ![c] = change]
  /\ lastIndex' = change.index
  /\ UNCHANGED <<current, lastChangeIndex, replays>>

\* A proposal that fails changes nothing.
ProposeChange(c, change) ==
  /\ proposal[c] = None
  /\ pending = None
  /\ ValidateChange(current, change)
  /\ pending' = change
  /\ pendingConfig' = ApplyChangeToConfig(current, change)
  /\ proposal' = [proposal EXCEPT ![c] = change]
  /\ lastIndex' = change.index
  /\ UNCHANGED <<current, lastChangeIndex, replays>>

ClearPending ==
  /\ pending' = None
  /\ pendingConfig' = None

\* Mutant of CommitChange: it does not ask whether a change is in progress.
CommitNothing(c) ==
  /\ current' = pendingConfig
  /\ lastChangeIndex' = proposal[c].index
  /\ ClearPending

\* Commits whatever is pending; the administrator's own change is not looked at.
CommitChange(c) ==
  /\ pending # None
  /\ current' = pendingConfig
  /\ lastChangeIndex' = proposal[c].index
  /\ ClearPending

\* Nothing pending: an error, and no change.
CommitFails(c) ==
  /\ pending = None
  /\ UNCHANGED <<current, lastChangeIndex, pending, pendingConfig, learnerStatuses, reported>>

Finish(c) ==
  /\ proposal' = [proposal EXCEPT ![c] = None]
  /\ UNCHANGED <<lastIndex, replays>>

-----------------------------------------------------------------------------
(* MembershipManager: learners *)

\* A status is made for n, which has reported nothing yet.
NewStatus(n) ==
  /\ learnerStatuses' = [learnerStatuses EXCEPT ![n] = "behind"]
  /\ reported' = reported \ {n}

DeleteStatus(n) ==
  /\ learnerStatuses' = [learnerStatuses EXCEPT ![n] = "none"]
  /\ reported' = reported \ {n}

Change(type, n) == [type |-> type, node |-> n, index |-> lastIndex + 1]

\* Mutant of AddLearner: a status the node has already is kept.
AddLearnerKeepsStatus(c, n) ==
  /\ ProposeChange(c, Change("AddLearnerNode", n))
  /\ learnerStatuses' = [learnerStatuses EXCEPT ![n] = IF @ = "none" THEN "behind" ELSE @]
  /\ reported' = reported \ {n}

AddLearner(c, n) ==
  /\ ProposeChange(c, Change("AddLearnerNode", n))
  /\ NewStatus(n)

\* Mutant of IndexGap: the difference of two signed integers.
SignedIndexGap(matchIndex, leaderLastIndex) == leaderLastIndex - matchIndex

\* A uint64 difference: it wraps around when the learner is ahead of what the leader reports.
IndexGap(matchIndex, leaderLastIndex) ==
  IF matchIndex <= leaderLastIndex THEN leaderLastIndex - matchIndex
                                   ELSE Word + leaderLastIndex - matchIndex

\* The promotion callback runs in a goroutine of its own and is an administrator like another.
UpdateLearnerProgress(n, matchIndex, leaderLastIndex) ==
  /\ learnerStatuses' = [learnerStatuses EXCEPT ![n] =
       IF @ = "none" THEN @
       ELSE IF IndexGap(matchIndex, leaderLastIndex) <= CatchUpIndexGap THEN "caughtUp"
       ELSE "behind"]
  /\ reported' = IF /\ learnerStatuses[n] # "none"
                    /\ matchIndex <= leaderLastIndex
                    /\ leaderLastIndex <= matchIndex + CatchUpIndexGap
                 THEN reported \cup {n} ELSE reported
  /\ UNCHANGED <<current, pending, pendingConfig, lastChangeIndex, proposal, lastIndex, replays>>

PromoteLearner(c, n) ==
  /\ learnerStatuses[n] = "caughtUp"
  /\ ProposeChange(c, Change("PromoteNode", n))
  /\ UNCHANGED <<learnerStatuses, reported>>

RemoveNode(c, n) ==
  /\ ProposeChange(c, Change("RemoveNode", n))
  /\ UNCHANGED <<learnerStatuses, reported>>

CommitAddLearner(c) ==
  /\ proposal[c] # None /\ proposal[c].type = "AddLearnerNode"
  /\ \/ CommitChange(c) /\ UNCHANGED <<learnerStatuses, reported>>
     \/ CommitFails(c)
  /\ Finish(c)

\* Mutant of CommitPromoteLearner: the status of the promoted learner is kept.
CommitPromoteKeepsStatus(c) ==
  /\ proposal[c] # None /\ proposal[c].type = "PromoteNode"
  /\ \/ CommitChange(c) /\ UNCHANGED <<learnerStatuses, reported>>
     \/ CommitFails(c)
  /\ Finish(c)

CommitPromoteLearner(c) ==
  /\ proposal[c] # None /\ proposal[c].type = "PromoteNode"
  /\ \/ CommitChange(c) /\ DeleteStatus(proposal[c].node)
     \/ CommitFails(c)
  /\ Finish(c)

CommitRemoveNode(c) ==
  /\ proposal[c] # None /\ proposal[c].type = "RemoveNode"
  /\ \/ CommitChange(c) /\ DeleteStatus(proposal[c].node)
     \/ CommitFails(c)
  /\ Finish(c)

\* The status of the learner whose addition is pending goes too.
AbortChange(c) ==
  /\ proposal[c] # None
  /\ IF pending # None /\ pending.type = "AddLearnerNode"
     THEN DeleteStatus(pending.node)
     ELSE UNCHANGED <<learnerStatuses, reported>>
  /\ ClearPending
  /\ Finish(c)
  /\ UNCHANGED <<current, lastChangeIndex>>

-----------------------------------------------------------------------------
(* Log replay and snapshots *)

\* Mutant of ApplyConfigChange: a change that is pending stays pending.
ReplayKeepsPending(change) ==
  /\ replays < MaxReplays
  /\ Applicable(current, change)
  /\ current' = ApplyChangeToConfig(current, change)
  /\ lastChangeIndex' = change.index
  /\ CASE change.type = "AddLearnerNode" -> NewStatus(change.node)
       [] change.type \in {"PromoteNode", "RemoveNode"} -> DeleteStatus(change.node)
       [] OTHER -> UNCHANGED <<learnerStatuses, reported>>
  /\ lastIndex' = change.index
  /\ replays' = replays + 1
  /\ UNCHANGED <<pending, pendingConfig, proposal>>

\* A change committed by another leader: validateChange is not called, so it may take the last
\* voter.  A change that does not apply is an error and changes nothing.  A demoted voter gets
\* no status.
ApplyConfigChange(change) ==
  /\ replays < MaxReplays
  /\ Applicable(current, change)
  /\ current' = ApplyChangeToConfig(current, change)
  /\ lastChangeIndex' = change.index
  /\ CASE change.type = "AddLearnerNode" -> NewStatus(change.node)
       [] change.type \in {"PromoteNode", "RemoveNode"} -> DeleteStatus(change.node)
       [] OTHER -> UNCHANGED <<learnerStatuses, reported>>
  /\ ClearPending
  /\ lastIndex' = change.index
  /\ replays' = replays + 1
  /\ UNCHANGED proposal

\* The configuration of a snapshot of another node, taken as it is.
SetConfiguration(config) ==
  /\ replays < MaxReplays /\ lastIndex < MaxIndex
  /\ current' = config
  /\ lastChangeIndex' = lastIndex + 1
  /\ learnerStatuses' = [n \in Node |-> IF config[n] = "Learner" THEN "behind" ELSE "none"]
  /\ reported' = {}
  /\ ClearPending
  /\ lastIndex' = lastIndex + 1
  /\ replays' = replays + 1
  /\ UNCHANGED proposal

Restore == \E config \in Configuration : SetConfiguration(config)

Replay == \E change \in ConfigChange :
            change.index = lastIndex + 1 /\ ApplyConfigChange(change)

Next ==
  \/ \E c \in Caller, n \in Node :
       lastIndex < MaxIndex /\ (AddLearner(c, n) \/ PromoteLearner(c, n) \/ RemoveNode(c, n))
  \/ \E c \in Caller :
       CommitAddLearner(c) \/ CommitPromoteLearner(c) \/ CommitRemoveNode(c) \/ AbortChange(c)
  \/ \E n \in Node, matchIndex, leaderLastIndex \in 0 .. MaxReport :
       UpdateLearnerProgress(n, matchIndex, leaderLastIndex)
  \/ Replay
  \/ Restore

Spec == Init /\ [][Next]_vars

-----------------------------------------------------------------------------
(* Properties *)

TypeOK ==
  /\ current \in Configuration
  /\ pending \in ConfigChange \cup {None}
  /\ pendingConfig \in Configuration \cup {None}
  /\ lastChangeIndex \in 0 .. MaxIndex
  /\ learnerStatuses \in [Node -> {"none", "behind", "caughtUp"}]
  /\ proposal \in [Caller -> ConfigChange \cup {None}]
  /\ lastIndex \in 0 .. MaxIndex
  /\ replays \in 0 .. MaxReplays
  /\ reported \subseteq Node

QuorumsOf(config) == {Q \in SUBSET Voters(config) : Cardinality(Q) >= Quorum(config)}

\* Whatever administrators, replayed changes and aborts do, any quorum of a configuration meets
\* any quorum of the next one, so two leaders cannot be elected in it (ConfigurationManager:
\* single-server changes).  A snapshot replaces the configuration as a whole and is exempt.
ConsecutiveQuorumsMeet ==
  [][Restore \/ \A Q1 \in QuorumsOf(current), Q2 \in QuorumsOf(current') : Q1 \cap Q2 # {}]_vars

\* No administrator takes the last voting member away, whatever is replayed or restored between
\* the proposal and the commit (validateChange checks the configuration at the proposal,
\* CommitChange checks nothing).  A replayed change or a snapshot may: nothing validates it.
VotersRemain ==
  [][Voters(current) # {} => Replay \/ Restore \/ Voters(current') # {}]_vars

\* An administrator's commit makes a node a voter only if the node was reported, since its
\* learner status was made, to be within the gap and not ahead of the leader (PromoteLearner
\* checks CaughtUp when the change is proposed, and removals and additions may lie in between).
PromotedHavingCaughtUp ==
  [][\A n \in Node :
       n \in Voters(current') \ Voters(current) => Replay \/ Restore \/ n \in reported]_vars

\* As long as nothing was replayed, an administrator who has proposed a change finds that very
\* change pending when the time comes to commit or abort it (ProposeChange's changeInProgress).
UndisturbedProposalIsPending ==
  replays = 0 => \A c \in Caller : proposal[c] # None => pending = proposal[c]

\* As long as nothing was replayed, exactly the learners, and the one being added, have a status.
StatusesAreOfLearners ==
  replays = 0 =>
    {n \in Node : learnerStatuses[n] # "none"} =
      Learners(IF pending # None /\ pending.type = "AddLearnerNode"
               THEN pendingConfig ELSE current)

\* A commit commits the change it is called for: CommitAddLearner a learner addition, and so on.
CommitsItsOwnChange ==
  [][\A c \in Caller : proposal[c] # None /\ proposal'[c] = None /\ current' # current =>
       current' = ApplyChangeToConfig(current, proposal[c])]_vars
=============================================================================
