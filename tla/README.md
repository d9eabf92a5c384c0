# TLA+ models of keyval

keyval is a replicated key-value store in Go: a Raft implementation (`pkg/raft`), the gRPC layer
under it (`pkg/rpc`), a client API over it (`pkg/api`), a key-value state machine
(`pkg/statemachine`), cluster membership (`pkg/cluster`) and storage (`pkg/storage`). The modules
in this directory are translated from that code. `PROJECT.json` maps every definition to the
lines it stands for, and lists the runs, the mutants that show what each property is sensitive to,
the hazards, the findings and the theorems. Paths below are relative to `src/`.

## 1. Inventory

| Component | State | Operations | Correct when | Modelled in |
|---|---|---|---|---|
| Elections (`pkg/raft/election.go`, `node.go`) | role, `CurrentTerm`, `VotedFor`, `ElectionState` | `startElection`, `sendRequestVote`, `requestVote`, `becomeCandidate`, `becomeLeader`, `stepDown` | one winner per term; whoever has a majority wins | `Raft` |
| Replication (`append_entries.go`, `replication.go`, `heartbeat.go`) | `Log`, `LeaderState` | `AppendLogEntry`, `appendNoOpEntry`, `replicateToPeer`, `sendHeartbeats`, `processAppendEntries`, `handleAppendEntriesResponse` | logs match; nobody but the leader of a term changes its log; no index underflows | `Raft` |
| Commitment (`commit.go`) | `CommitIndex`, `LastApplied` | `tryAdvanceCommitIndex`, `applyCommittedEntries` | committed entries survive every change of leader and are applied alike everywhere | `Raft` |
| Election timer (`timer.go`, `node.go: run`) | armed timer, channel `c`, role | `Start`, `Reset`, `Stop`, `handleElectionTimeout` | a node without a leader campaigns, one with a leader does not | `ElectionTimer` |
| Heartbeat timer (`heartbeat.go`) | `running`, `stopCh`, channel `c` | `Start`, `Stop`, `run`, `handleHeartbeatTicks` | a leader beats, others do not | `HeartbeatTimer` |
| RPC server, shutdown (`pkg/rpc/server.go`, `node.go: Stop`) | `Node.mu`, `Server.mu`, `stopCh` | the RPC handlers, `Server.Stop`, `Node.Stop` | calls are answered, `Stop` returns and leaves nothing running | `Shutdown` |
| Client pool (`pkg/rpc/client.go`) | one connection per address | `GetClient`, `RemoveClient`, `CloseAll` | a dead peer does not stop the others; every connection is in the pool | `ClientPool`, `Shutdown` |
| Reads (`read.go`, `lease.go`) | lease expiry | `PerformLinearizableRead`, `PerformLeaseRead` | a read sees every write answered before it | `Api` (without leases) |
| API server and sessions (`pkg/api/server.go`, `session.go`, `batch.go`) | session table | `HandleRequest`, `HandleBatch`, `CheckDuplicate`, `CacheResponse`, `cleanup` | a request takes effect at most once and gets its own answer | `Api` |
| Client (`pkg/api/client.go`) | sequence number, leader index | `executeWithRetry`, `selectServer` | a retry is harmless | `Api` |
| State machine (`pkg/statemachine/kv.go`) | the map | `Apply`, `Get`, `Snapshot`, `Restore` | a restored map is the one the entries make | `KvStateMachine` |
| Membership (`pkg/cluster`) | configuration, pending change, learners | `ProposeChange`, `CommitChange`, `AddLearner`, `PromoteLearner`, `ReplaceNode` | one change at a time, consecutive quorums meet, a voter remains, what is committed is what was proposed | `Membership` |
| WAL, store (`pkg/storage/wal.go`, `store.go`) | segments, buffer, buckets | `Append`, `AppendBatch`, `Sync`, `Truncate`, rotation; transactions | what was synced is read back | `Wal`, `Persistence` |
| Persistence, recovery (`persistence.go`, `recovery.go`) | store and WAL | `PersistMetadata`, `PersistLogEntries`, `DeleteLogEntriesFrom`, `PersistSnapshot`, `CreateCheckpoint`, `VerifyIntegrity` | store and WAL tell the same; recovery succeeds | `Persistence` |
| Snapshots (`pkg/storage/snapshot.go`, `install_snapshot.go`) | files, latest metadata | `Create`, `Load`, `SnapshotWriter`, `cleanupOldSnapshots` | the current snapshot is complete, and the newest after a restart | `Snapshots` (without `install_snapshot.go`) |
| `log.go`, `*.go.broken`, `cmd/kvctl`, configuration | | | | no: not used by the node, not compiled, or input and output only |

How they interact. `cmd/keyval/main.go` builds a `Node` and an API server over it. `Node.run` waits
for the election timer and runs elections; RPC handlers, replication goroutines, heartbeat
goroutines and the apply loop all share `Node.mu`. Nodes talk by unary gRPC calls with a timeout.
The API server appends to the leader's log and polls the commit index. Membership, persistence,
leases and snapshots exist as packages, but nothing wires them into `Node`: the peers are fixed,
and a restart begins from nothing.

What is hard. Critical sections that check a state and act on it under a later lock
(`startElection`, `replicateToPeer`, `sendHeartbeats`, `handleElectionTimeout`); goroutines left
behind by a role change that run in another role or term (no-op, heartbeat timer, senders, votes);
late, lost and overtaking messages; timers racing their reset; two locks held in the shutdown;
restarts without stable storage; majorities at even sizes; retries at a server that has no session for
them; indices compared after the entry behind them was replaced; a crash between two writes, two
renames, or a removal and the rewriting; records cut in two; writers that share a temporary file.

## 2. Modules and plan

1. `Raft` (done): the consensus core, with `MCRaft` for TLC and `RaftProofs` for TLAPS, on elections and
   then on logs and commitment.
2. `ElectionTimer` and `HeartbeatTimer` with `TimerProofs`, `Shutdown` (done): the goroutines,
   timers and locks `Raft` abstracts from.
3. `Membership` with `MembershipProofs` (done): the configuration manager, learners, replays.
4. `Api` with `MCApi` and `ApiProofs` (done): client retries, sessions, batches, `waitForCommit` and reads, over nodes
   that keep what Raft promises and may replace each other's undecided entries.
5. `DurableLog`, `Wal` and `Persistence` with `PersistenceProofs` (done): the abstract durable log, the files
   that implement it, and the calls that write the store and then the log, with crashes, losses of power
   and I/O errors between and inside them. `Subsequences` has the one operator on sequences they share.
6. `KvStateMachine` and `Snapshots` with `MCSnapshots` and `SnapshotsProofs` (done): the map and the files
   it is saved in. `ClientPool`, composed with `Shutdown`, with `ShutdownProofs` (done).
7. Proofs (done): types, elections, logs and commitment of `Raft`; that `Persistence` implements
   `DurableLog`; and every safety property of the other modules that a run checks.

`Raft` and the timer modules are checked separately: `Raft` lets an election timeout happen whenever
`run` is idle, and so covers every schedule `ElectionTimer` produces; `ElectionTimer` lets any
message arrive that the role allows, and so covers every environment `Raft` produces.

## 3. How the modules correspond to the code

### Raft

One action is one critical section of `Node.mu`. Where the code releases the lock and takes it again
and the difference is visible, the action is split: `HandleVoteResponse` / `BecomeLeader` (the win
check and the double check), `PreemptAfterCheck` / `SendAfterPreemption` (the leader check of
`replicateToPeer` and `buildAppendEntriesRequest`), `SendHeartbeats` / `SendHeartbeatToPeer`,
`BecomeLeader` / `AppendNoOpEntry`.

| Variable | Code |
|---|---|
| `state`, `currentTerm`, `votedFor`, `log` | `Node.state`, `ServerState` |
| `commitIndex`, `lastApplied` | `VolatileState`; `applied` records what `applyCommittedEntries` went through |
| `nextIndex`, `matchIndex` | `LeaderState`; a nil one reads as `NilLeaderState`, which is what the code assumes for it |
| `phase`, `electionTerm`, `votesReceived`, `voteCalls` | the local state of `startElection` and `ElectionState` |
| `noOps`, `beats`, `preempted` | goroutines that have been started and have not run, or not finished |
| `voteReqs` ... `appendResps` | RPCs in the network |
| `votes`, `wins`, `committed` | history, for properties |
| `guessed` | history: some follower has taken a commit index past the last entry of a request (`CommitsUncompared`) |

The network executes a request at most once, at any later time or never. A caller that has given up
takes no answer: `voteCalls` holds the calls still waited for; an AppendEntries whose caller gave up
is dropped by `LoseAppend`, before or after its execution. Term comparisons, the reset of the vote, the
handling of requests of the same term by a leader (`AdoptTerm` does not demote it), the conflict
index, truncation on conflict only, and the two different ways to back up `nextIndex` are as in the
code. Data of commands is a model value; the entry type is kept as far as it matters, a no-op or
a command.

Left out of `Raft`: timing, `InstallSnapshot` (the handler changes the term only; its effect is
that of any message of a newer term), and `MaxAppendEntriesRetries` (a sender may stop and start at
any time).

### ElectionTimer

`timer.armed`, `timer.fired` and `timer.c` are the places a timeout passes through: the running
`time.AfterFunc`, the callback's goroutine, the channel of capacity 1; `taken` and `loop` are the
goroutine of `run`. `Reset` re-arms the timer and leaves the other places alone, as the code does; a
timeout that is in one of them at that moment is from then on "stale", a mark for the property only.
`HandleAppendEntries`, `HandleRequestVote` and `DiscoverNewerTerm` are what messages do to the role
and to the timer. `Node.Stop` closes `stopCh` and stops the timer (`Stop`) and keeps `Node.mu` until the
RPC server and the pool have stopped (`holding`, `StopReturns`); whoever needs the lock waits, `run` in the
middle of an election included.

### HeartbeatTimer

Goroutines are counted, not named. `BecomeLeader` and `StepDown` leave goroutines behind
(`starts`, `stops`) that run in any order. `stopClosed` never becomes false again, because `Start`
makes no new `stopCh`. A panic ends the process, so no action is enabled after it. The names are told apart
from those of `ElectionTimer` (`beatTimer` is `HeartbeatTimer.timer`, `HeartbeatSpec` the specification), so that
`TimerProofs` can extend both.

### Shutdown

Calls pass from the network through `Server.mu` (read lock) and `Node.mu` to their answer;
`Node.Stop` holds `Node.mu` while `Server.Stop` holds `Server.mu` in `GracefulStop`, which waits for
all accepted calls (`Drained`).

`ClientPool` has the goroutines that send RPCs: the lookup under the read lock, the second look and the
dial under the write lock, which stays locked while a dead peer is dialed, and the call. `Shutdown` extends
it: a response is handled under `Node.mu`, and `Node.Stop` ends with `CloseAll` while it still holds
`Node.mu`. A sender may begin at any time, also after `Stop`, as goroutines of replication and
elections do.

### DurableLog, Wal and Persistence

`DurableLog` is the promise: records are appended to a volatile end, a sync makes them durable, a
truncation drops those above an index, a crash loses volatile ones only. Once `intact` is false it promises
nothing.

`Wal` is the log of files. `disk` are the records in the files, each with its segment, whether an fsync
has reached it, and how much of it is there: none, exactly the four bytes of size, some other part, all
(the three cases `readSegment` tells apart: end of file, end of file again, error). `buffer` is what the
`bufio.Writer` holds; a full one writes any prefix (`Spill`). `Truncate` takes one step per removed
segment, one for the new file and one per rewritten record, all under `FileWAL.mu`. A crash leaves what is
in the files; a loss of power leaves, per file, any prefix of what was never fsynced.

`Persistence` has the callers. A call is the list of its steps, `todo`: a transaction of the store, then
`Append`, `AppendBatch` or `Truncate`, then `Sync`; the layer has no lock, so calls interleave between
steps. Errors of a transaction, of creating and of removing a segment return from the call where the code does;
with no file and no writer `sync` does nothing and `appendEntry` panics. Callers are external: they
keep terms and indices in order, as a node would, take a snapshot of an entry they hold and checkpoint a
log without gaps. `CreateCheckpoint` writes again what the store holds.

What `Truncate` keeps, what a removed segment leaves and what a loss of power leaves are `Subsequence`s,
sequences given by the chosen positions of another: the library's `SelectSeq` is recursive, and nothing can
be proved of it.

Refinement: `WalIsDurable` is the specification of `DurableLog` with the synced records for `durable`,
the others and the buffer for `volatile`, the records to keep for `durable` while `Truncate` rewrites, and
`~damaged` for `intact`. `damaged` is set by exactly these causes, each a finding: a crash that cuts a record
in two; a crash or an error inside `Truncate` after it has closed the file; a `Truncate` while another
caller's record is in the buffer; a failed rotation; a loss of power with a rotated segment that was
never fsynced. `behind` and `mixed` are history.

### KvStateMachine and Snapshots

The map is a function; `Decode` is what `json.Unmarshal` makes of an entry, a batch included. gob walks a
map in any order, so a map has several encodings; a snapshot is written in `Chunks` pieces, and a piece
tells of which encoding it is. `LastWrites` is the reference: the last entry about a key decides.

`Snapshots` keeps files by inode, and which inode a name has: a writer goes on writing to its file when
another has renamed it. `Create` and `SnapshotWriter.Close` share the steps `WriteMeta`, `RenameData`,
`RenameMeta`; only `Create` holds the lock over them, and hangs in `cleanupOldSnapshots`. A restart takes
the newest `.meta` file that parses and loads it; if that fails it begins with an empty map. Nothing is
fsynced, so a loss of power may cut any file. Who takes snapshots is not in the source: here goroutines do,
at the index that was applied. `done` and `unsound` are history.

### Membership

One action per method of `MembershipManager`, which holds its lock throughout; the methods of
`ConfigurationManager` under it are operators. An administrator (`Caller`) proposes a change and later
commits or aborts it, as the tests do: `proposal` is what it remembers. Changes of other leaders
(`Replay`) and snapshots (`Restore`) come in between; `ApplyConfigChange` does not call `validateChange`, so any
change is replayed that `applyChangeToConfig` accepts (`Applicable`), the removal of the last voter included, and
a snapshot holds any configuration. A node that is not a member is "absent" in the configuration. `LearnerStatus` is kept as far
as decisions depend on it: none, behind, caught up. `IndexGap` is the difference of two unsigned words of
`Word` values. `CommitChange` takes the index of the caller and whatever is pending, as in the code.
`reported` is history.

### Api

`call[t]` is a goroutine in a client call: the request, the attempt, and how far the handler has come
(client and server run in one process, so a call is never lost). `session` is the session table of each
server. One action is one step between two moments at which others can be observed: `CheckDuplicate`,
the append (`HandleWrite`, `ProcessBatchWrites`), each tick or the deadline of `waitForCommit`, the two
leader checks and the read index of a read, its end, and `Return`, which caches the response and
hands it to `executeWithRetry`. Redirects and errors of batches are not cached, those of single requests
are. A read that fails is reported as a missing key.

The nodes are reduced to what Raft promises the API. A leader has all decided entries (`Elect`); it
commits what no later leader lacks (`Decide`); followers take over its log (`Replicate`); an old leader may
not know of a newer one until `StepDown`. These are not the details of `pkg/raft`, which `Raft` has, but
their purpose: what `Api` finds wrong is wrong over any Raft, and what the findings about `Raft` break comes
on top. `since`, `floor`, `seen` of a call, `elected` and `decided` are history.

## 4. Runs

| Run | Instance | Shows |
|---|---|---|
| `consensus` | 3 servers, 2 terms, 2 elections at once, one command, logs up to 2, one AppendEntries at a time in the network | the log properties for what `replicateToPeer` sends when it is not preempted between its leader check and its request |
| `election` | 3 servers, 2 terms, 3 elections at once, late votes, one heartbeat round | one winner per term, `ElectionInv`, a majority wins |
| `three_terms` | 3 servers, 3 elections one after the other, logs of 1 | commitment and application across three leaders |
| `restarts` | 3 servers, 2 terms, one restart, one preempted sender, logs of 1 | how many winners forgotten votes can make (`VotesBoundWinners`); what alone can cut a leader's log (`LeaderCutByImpostorOnly`) |
| `election_timer` | one node, 3 messages | a follower times out, a leader's timeout is harmless, `run` ends once `Stop` has let go of `Node.mu` |
| `heartbeat_timer` | one node, 3 leaderships | one ticker, the first leadership beats |
| `shutdown` | 2 callers of `Stop`, 2 calls, 2 senders, 2 peers, one of them dead | quiet after `Stop`; what can keep it from returning; every connection in the pool; sends end |
| `membership` | 3 nodes, 2 of them voters at first, 2 administrators, 4 log indices, 2 replays or snapshots | quorums, promotions and proposals under every interleaving; administrators leave a voter |
| `api` | one client shared by 2 goroutines, 2 servers, 2 requests, one retry each, 2 terms | at most once, redirects, fresh reads of a settled leader, no answer of an earlier request |
| `persistence` | 2 callers, 3 calls, 2 faults, 2 indices and terms, batches of 2, 2 records per segment | the log implements `DurableLog`, agrees with the store, and recovery succeeds |
| `snapshots` | 2 writers, 3 snapshots of 2 chunks, a log of 2 entries on one key or a batch, 1 fault | exact restores, loadable current snapshot, restarts that do not go back |
| `heartbeat_commit` | 3 servers, one heartbeat round | violation: `StateMachineSafety` |

Bounds. Three servers are the smallest cluster with a majority that is not everybody. Two terms with
two elections at once give split votes, a deposed leader that does not know, and a candidate that
meets the leader of its own term; the third term is needed for an entry of a term that is neither the
oldest nor the newest and has a run of its own. A log of two entries gives a prefix to check, a
conflict and a truncation. One AppendEntries at a time suffices for reordering between rounds, since
a request may stay in the network across elections; `MCRaft_match_index.cfg` uses two. All bounds are
guards, named in `CONSTANTS`; servers are symmetric. The Raft runs switch deadlock checking off
because the bounds end every behaviour. The log properties are checked without heartbeats, whose one
effect on logs is the finding of `heartbeat_commit`, and without preempted senders, which break them
(`MCRaft_preempted_sender`). Other sizes than three, longer logs over three leaders and more requests in
flight are left to the theorems of section 5.

`restarts` is the run with the two events the others exclude. One restart of three servers makes two winners
of a term, so `ElectionSafety` is not what it checks: a term has at most one vote per server and restart, and
each winner needs two of them. One preempted sender makes the one cut of a leader's log that the code
allows, so `LeaderAppendOnly` is not what it checks either. A leader cut in this way needs only a log of
one entry.

In `Membership` four indices are enough to add, promote and remove a node with a replay in between, and
progress reports of up to `MaxReport` on words of `Word` values let the difference wrap around. In `Api`
two terms and two servers give the one change of leader that replaces an undecided entry, and two
requests a session that holds another response; the two goroutines of a client make requests that overtake
each other, or one after the other. The operations are writes, reads and batches with writes; batches of reads
alone, which take the steps of the reads of a batch, are left to the theorems. The nodes stop when the last
request is done (`Active`). Servers and goroutines are symmetric there too, and `CHECK_DEADLOCK` is off
because clients stop.

In `Persistence` three calls are an append, a second one that rotates or replaces, and a truncation that
rewrites two segments, and two faults a crash during the repair of another; two records per segment let a
batch rotate. In `Snapshots` two writers and three snapshots give two on one temporary file and a
later write of a finished name, two chunks a file that is half of one and half of another. In `Shutdown`
two senders and two peers give a dial that holds up another, and a lookup missed twice. Deadlock
checking is off in the first two because callers stop.

Fairness. `Raft`, `Membership` and `Api` are checked for safety only: their
liveness depends on timing the code only makes likely, or on administrators. `persistence` and `snapshots`
are checked for safety too; their `FairSpec`, used by `Persistence_calls` and `MCSnapshots_create`, has every
call go on that can. In the other modules
weak fairness stands for the Go scheduler, for time passing and for
the timeout every RPC has; strong fairness, used for lock acquisition only, for `sync.Mutex`, which
hands over to a goroutine that has waited too long. No message, election or call of `Stop` is
assumed to happen, and in `ElectionTimer` none that `Stop` returns: it waits in `GracefulStop`, which may hang
(`Shutdown_hang`), so `StopEnds` begins when `Node.mu` is free again.

Further configurations, kept beside the runs, reproduce what section 6 reports without a run of its own:
`MCRaft_four_servers`, `MCRaft_two_servers_commit`, `MCRaft_preempted_sender`, `MCRaft_match_index`, `HeartbeatTimer_second`, `HeartbeatTimer_order`,
`Shutdown_hang`, `MCRaft_restart_three`, `ElectionTimer_stale`, `HeartbeatTimer_panic`,
`Membership_own`, `MCApi_stale_read`, `MCApi_goroutines`, `ElectionTimer_stuck`, `MCApi_acknowledged`,
`Persistence_survive`, `Persistence_readable`, `MCSnapshots_create`, `MCSnapshots_latest`,
`MCSnapshots_batch`, `Shutdown_connections`. Each ends in a violation of its one property.
`Persistence_calls` passes: every call of the persistence layer returns, and the types hold.

## 5. Proofs

`RaftProofs` proves, for every finite set of servers and all bounds:

- `TypeCorrect`: `TypeOK` is an invariant. The part that needs an argument is `nextIndex >= 1`: it is
  only ever set to a last index plus one, to `ConflictIndex` when that is positive, or to itself minus
  one when above one; and `ConflictIndex`, the minimum of a set of positive indices, is positive.
- `ElectionSafe`: a term has one winner as long as no server has restarted, unless there are exactly
  four servers. The invariant is `ElectionInv`: the vote and term a server holds remember the last
  vote it cast (`VotesRemembered`), granted votes on their way were cast (`AnswersBacked`), and an
  election under way, decided or won stands on the candidate's vote and that of one peer
  (`CountsBacked`). `ElectionSafety` alone is not inductive: nothing in it says where the counts come
  from. The code counts all peers under one name, so two votes are all a winner is known to have; two
  winners of a term have disjoint pairs of voters, hence four servers (`TwoLeadersNeedFour`), and
  since a win needs `(N + 1) / 2 <= 2` votes there are no more than four.
- `VotesBacked`: `ElectionInv` itself, for every cluster that has not restarted a server.
- `OnlySmallClustersElect`: from the same invariant, a winner exists only in clusters of two to four.
- `MajoritiesWin`: `MajorityWins`, in clusters of two to four servers without restarts. The invariant
  `CallsInv` follows a RequestVote call: a candidate's requests, their answers and the votes for it are of its
  term or an earlier one (`TermsKnown`), so a new election starts with no trace of itself; a request in
  the network is the only one of its call, neither voted on nor answered (`RequestsFresh`); the answer of a peer
  that voted says so (`AnswersTell`); `startElection` waits for every request still under way (`CallsOpen`),
  and, while it is a candidate, for every peer that has voted for it (`VotesAwaited`). The last part is kept
  because the first granted answer it counts ends the count (`GrantedVoteWins`), which is where two
  votes must suffice. TLC checked `CallsInv` on the instance of `election` (628,572 states).

Its second half proves, for all terms, logs, commands and bounds, as long as no server has restarted,
no sender was preempted between its leader check and its request (but for `LeadersCutByImpostorsOnly`), and the
servers are not four:

- `LogsMatch`: `LogMatching`.
- `LeadersComplete`: `LeaderCompleteness`.
- `CommittedStays`: `CommittedOnMajority`, not for two servers, where the leader alone commits.
- `LeadersOnlyAppend`: `LeaderAppendOnly`.
- `LeadersCutByImpostorsOnly`: `LeaderCutByImpostorOnly`, with any number of preempted senders.
- `StateMachinesAgree` and `CommittedPrefixKept`: `StateMachineSafety` and `CommittedPrefixStable`, with heartbeats
  and requests of any length, as long as no follower has committed past the last entry of a request (`guessed`).

Each condition stands for behaviour of the code that breaks the property: two leaders of a term with four
servers, votes forgotten in a restart, requests under a term the sender never led (section 6). `guessed` stands
for one line, step 6 of `processAppendEntries`, which takes the length of the whole log for the index of the last
new entry, and the two theorems say that this line is the only cause of disagreement left. It is reached in two
ways. A heartbeat carries no entries and so commits what it has not compared (`heartbeat_commit`); most heartbeats
find the follower no longer than their previous entry, commit what they have compared, and are covered.
A request cut to `MaxEntriesPerAppend` does the same: s1 leads term 1 and
has a, y; s2, with a, wins term 2 and commits b at index 2 with s3; s3 wins term 3, is told that s1
conflicts at index 1 and, at one entry per request, sends a alone with `LeaderCommit` 2; s1 commits y.
TLC checked that `StateMachineSafety` holds until `guessed` on the instance of `heartbeat_commit` with one entry
per request (681,757 states).
`LogMatching` and `LeaderCompleteness` hold with both. By `OnlySmallClustersElect` the logs of clusters of one, five and more
stay empty, so in substance these theorems speak of two and three servers.

The argument. `RoleInv`: leaders have won their term and lead it until they leave it, vote requests
describe the log of their candidate, and AppendEntries come from the winner of their term and go to others.
`LeaderLogs(L)` is about a ghost L, for each term the log its leader was last seen with: a log agrees with L
of a term at and below each entry of that term, has no term its server has not reached and, in a leader, is L
of its term; a request carries a part of L. This gives `LogMatching`. `CommitsSecured(L)`: what a leader has
committed, or a majority has acknowledged, is `Secured`: all servers but one hold it, and so do the leaders
of later terms and the candidates another server has voted for. It is kept because a candidate needs the vote
of another server, and of two servers one holds the entry. This gives `LeaderCompleteness` and
`CommittedOnMajority`. L is no variable of the model: `LogInv` says that some L exists, and each step shows how to choose the next one
from it. The many actions are first reduced to the few things they can do to the state of the argument
(`Keeps`, `Retreats`, `Stands`, `Grants`, `Wins`, `Extends`, `Accepts`, `Confirms`; `StepsOf`). `CommitInv` adds that the
commit index of every server is covered by what some leader up to its term has committed, that it has
applied a prefix of its log, and that the node of a heartbeat goroutine still has the entries up to the commit
index the goroutine has captured (`BeatKnown`). A heartbeat in the network carries no entries, and a log with its
previous entry has the committed entries it tells of, as far as that entry (`BeatFits`): a follower that commits
no further commits what a leader has committed. `LeadersCutByImpostorsOnly` needs none of this: a leader has won its
term and gets no request of its own (`LeadersKnown`), a request of its term is the only thing that can cut its log
(`LogChanges`), and since a term has one winner the sender of that request is none.

`TimerProofs` proves, for any number of messages, `FollowerAlwaysTimesOut` (`FollowerTimesOut` is
inductive together with the types) and `LeadersNeverCampaign`: `LeaderNeverCampaigns`, for which
the invariant says that the goroutine of `run` is never about to start an election in a node that leads, since
nobody else makes it a leader. For any number of leaderships it proves `FirstTimerHasOneTicker`: `OneTicker`.
That is not inductive alone: it needs that a timer which does not run, and has never been stopped, has no
goroutine at all (`Tickers`), because `Start` adds one whenever it finds the timer not running.

`MembershipProofs` proves, for every finite set of nodes, any administrators and all bounds, that `TypeOK`,
`UndisturbedProposalIsPending` and `StatusesAreOfLearners` are invariants and that no step violates
`VotersRemain` (`AdministratorsKeepVoters`), `ConsecutiveQuorumsMeet` or `PromotedHavingCaughtUp`. The invariant `IInv` adds to the types that the
pending change is valid for the current configuration and the pending configuration is the current one
with that change applied (`PendingIsNext`), and that whoever counts as caught up
or is about to be promoted was reported within the gap (`CaughtUpWasReported`). None of the properties is inductive alone, since `CommitChange` takes
over `pendingConfig` unseen. For the quorums, `OneVoterMoves` shows that a valid change adds or removes
one voter at most, and `NeighbouringQuorumsMeet` that two majorities of such neighbours together exceed
the larger of the two sets. For promotions, `GapWithoutWrap` shows that a wrapped difference is never
within the gap, because `Word` exceeds any report plus the gap.

`PersistenceProofs` proves, for any number of records per segment, any callers, indices, terms, batches, calls
and faults:

- `WalImplementsDurableLog`: the refinement `WalIsDurable`. `View` are the records the log stands for, those in
  the files and in the buffer, or those to keep while `Truncate` rewrites, and `Covered` how many of them a sync
  has covered; the mapping splits `View` at `Covered`. `StepEffect` shows what each step does to the two while nothing
  damages the log: nothing, one record more, everything covered, the records above an index gone, or a tail
  of what was not covered. `WalInv` is needed for it: files hold whole records in the order of their segments,
  an fsync has covered a prefix of each (`InOrder`), what was promised is fsynced or in a segment that has been closed
  (`Safe`), and what the files hold at each stage of `Truncate` (`TruncateStages`), with nothing but the
  types once the log is damaged. `CallInv` says that the steps left of a call are in the order of the code, and that a
  `Truncate` under way is that of the caller with the lock and keeps what it was asked to keep.
- `StoreAndWalAgree` and `RecoverySucceeds`: `WalAgreesWithStore` and `IntegrityHolds`. Neither is inductive, since
  both leave out the steps of a call that is under way; `AgreeInv` says, as
  long as calls have not overlapped and nothing is damaged, what holds there: store and log agree on
  every key that is not `behind`; a record no sync has covered is about a key that is, so a crash that
  loses it is forgiven; the store already holds what is about to be appended, and has no entries from the index
  on that is about to be truncated (`Ready`); and the buffer is empty unless a call is on its way to its sync.
- `TypeCorrect`: the types, damaged or not, and that one caller at most holds `FileWAL.mu`.

Underneath are the lemmas about `Rank` and `Subsequence` (`RankOrder`, `RankOnto`, `SubsequenceElements`: it has
the chosen elements, all of them, in their order). TLC checked `WalInv`, `CallInv` and `AgreeInv` on the instance of
`persistence` (684,630 states).

`ShutdownProofs` proves, for any callers, calls, senders and peers:

- `StoppedNodeIsQuiet`: `QuietAfterStop`. The invariant `StopInv` says who holds `Node.mu` in each phase
  of `Stop`, and that once `stopCh` is closed somebody is about to stop the server or it accepts no call,
  and somebody waits for the calls or there are none. A second caller can only return when the first
  has released `Node.mu`, and that is after `GracefulStop`.
- `PoolKnowsConnections`: `PoolHasEveryConnection`. The invariant adds that whoever dials holds the
  pool's lock and that its peer has no client.

`SnapshotsProofs` proves, for any log, any writers, pieces, bounds and faults:

- `RestoredStateIsExact`: `StateIsExact`. The invariant `ExactInv` does not speak of the data files at all: it
  says that every writer has the bytes of the index it writes, and every checksum stored under a name is that
  of the map at that index. The checksum does the rest: what `Load` accepts equals such bytes, and `Restore`
  inverts every encoding (`RestoreInverts`). `ApplyIsExact` shows that applying an entry is one step of the
  reference `LastWrites`.
- `CurrentSnapshotLoads` and `RestartsKeepSnapshots`: `CurrentLoads` and `RestartNeverGoesBack`. Here the files matter, and
  the invariant is `LoadInv`: a file has at most one name, and who writes to a named file writes that name
  (`OwnFiles`); a writer marked as alone has met no other of its name (`AloneInv`), and its files are as
  far as its steps have come (`ProgressInv`); a file written to under its final name, or waiting for its
  `.meta` file, is known to be unsound (`MarkedInv`); a name that is not unsound and has a `.meta` file has the
  data that belongs to it (`SoundInv`), and whatever became current has a `.meta` file (`DoneInv`). TLC checked `LoadInv` with two faults (2,283,275 states).

`ApiProofs` proves, for any clients, servers, operations and bounds:

- `WritesAppearOnce`: `AtMostOnce`. `WriteInv` says that requests under way have different sequence numbers, that
  every command in a log was sent, that a request which has not been appended in its present attempt or
  was redirected is in no log, and that a log has each command once. Sessions play no part in it: what keeps a
  retry from doing harm is that the client only repeats what was redirected.
- `RedirectsAreHarmless`: `RedirectedIsNowhere`, from the same invariant.
- `ReportedWritesAreDecided`: `CommittedUnderOneLeader`. `NodeInv` says what the nodes keep: the newest leader
  has all that was decided and all it was elected with, and the logs agree with what was decided up to
  their commit index; `WaitingInv` that a write waits at an index where its server, if it has
  led since, still has it.
- `SettledReadsAreFresh`: `SettledLeaderReadsFresh`. `ReadInv` carries what was decided when the read began through
  the read index to its end.
- `AnswersAreNotOld`: `OwnAnswerUnlessOvertaken`, for any number of goroutines per client. `SessionInv` says that
  a session knows no request its client has not made, and that its response is that of the newest request it
  knows: `CheckDuplicate` gives it only to requests up to that number. That an overtaken request gets its own
  answer does not hold (`MCApi_goroutines`).

As in `RaftProofs` the actions are first reduced to what they can do (`Opens`, `Sends`, `Appends`, `Works`,
`Returns`; `Elects`, `Copies`, `Decides`, `Settles`, `Forgets`). TLC checked `ApiInv` and `SessionInv` on the
instance of `api` (2,398,516 states).

`NumberFacts` has what `Min` and `Max` return, which the proofs about snapshots, Raft, the API and
persistence use.

Assumptions: `Server` is finite and `None` is no server, `NoOp` is no command, bounds are naturals and
`MaxEntriesPerAppend` is positive (`Config.Validate` asks for it). The initial members of `Membership` are
not empty, and reports and gap are small against `Word` (2^64 in the code). Callers of `Stop` are not RPCs. The empty
key is no key of clients, and a snapshot has at least one piece. A segment takes at least one record before it
rotates.

Only model-checked: elections across a restart (`VotesBoundWinners`), and all liveness, with
the fairness and the `ENABLED` in it, which is outside what TLAPS proves here.

## 6. What the checks found

With a run: a heartbeat commits a follower's own conflicting entry (`heartbeat_commit`).

By theorem and with a configuration: clusters of one, five and more servers never elect a leader
(`OnlySmallClustersElect`); four servers may elect two (`MCRaft_four_servers`); with an even number
half the servers commit (`MCRaft_two_servers_commit`).

With a configuration: votes, terms and logs are not on disk, although `types.go` says they must be, and a
term has two winners after one restart of three servers (`MCRaft_restart_three`) or two of two; `Reset` leaves an old timeout in the channel (`ElectionTimer_stale`); a node
that loses leadership for the second time panics (`HeartbeatTimer_panic`); a read can miss decided writes
(`MCApi_stale_read`); two goroutines that share a `Client` can get each other's responses
(`MCApi_goroutines`); a commit can commit another administrator's change after a replay
(`Membership_own`); `replicateToPeer` may send as leader of a term the node only follows
(`MCRaft_preempted_sender`); `MatchIndex` can go back when answers overtake each other
(`MCRaft_match_index`); the second leadership of a node has no heartbeat ticks
(`HeartbeatTimer_second`), and a stop that overtakes its start leaves the timer running
(`HeartbeatTimer_order`); `Stop` hangs when a call has been accepted and waits for one of the two locks
(`Shutdown_hang`; `StopWaitsForCallsOnly` says that this is the only way).

Also with a configuration: a candidate whose second election is undecided never times out again
(`ElectionTimer_stuck`); a write is acknowledged by index only, so one that was replaced may be reported as
done (`MCApi_acknowledged`; `CommittedUnderOneLeader` says when it cannot); a crash inside `Truncate`, or a
loss of power after a rotation, loses synced records (`Persistence_survive`); one record cut by a crash makes
the log unreadable and every later `Truncate` fail (`Persistence_readable`); `Create` never returns
(`MCSnapshots_create`); a late writer takes the current snapshot back (`MCSnapshots_latest`); the commands of
a batch never reach the map, since the entry is decoded as a `Put` of the empty key (`MCSnapshots_batch`);
a connection can be opened after `Stop` (`Shutdown_connections`).

Named in the modules: `Truncate` drops what is still in the buffer, `AppendBatch` and the pair of store and log
are not atomic, a failed rotation makes the next append panic, the newest snapshot is taken at a restart
even when its data does not match; a replayed change is not validated and can remove the last voter.
From the source alone: `RecoverFromWAL` counts records and recovers
nothing; `DeleteLogEntriesFrom(0)` keeps the whole WAL.

## 7. Not modelled

- `lease.go`, `log.go` and the drafts (`*.broken`) are not used by the node. `log.go` is a second
  in-memory log that only its tests use; the node's log is that of `Raft`.
- `api/cluster.go` answers queries from callbacks and changes nothing; `cmd/kvctl`, configuration,
  logging and metrics have no state of interest.
- `RemoveClient`, `KVStateMachine.Clear`, `HeartbeatTimer.Reset`, and `Node.InstallSnapshot` and
  `SendSnapshotToFollower` of `install_snapshot.go` have no callers.
- What `cleanupOldSnapshots` removes: the code never gets there (`MCSnapshots_create`).
- Errors of `Flush`, `Close` and fsync in the WAL, and time: a timeout may pass at any moment.
- Persistence, snapshots and membership are checked by themselves and not composed with `Raft`, because
  nothing in the source connects them to the node.
