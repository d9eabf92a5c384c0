---------------------------------- MODULE Api ----------------------------------
(***************************************************************************)
(* The client API (pkg/api): clients that number their requests and retry  *)
(* them, servers that remember the last response of each client            *)
(* (session.go), append writes to the log of their node and poll until     *)
(* they are applied (server.go, batch.go), and reads through the node's    *)
(* state machine (pkg/raft/read.go).                                       *)
(*                                                                         *)
(* The nodes under the servers are kept to what Raft promises the API: a   *)
(* leader per term that has every decided entry, old leaders that do not   *)
(* know yet, and logs whose undecided entries may be replaced.  How far    *)
(* pkg/raft keeps that promise is the subject of module Raft.              *)
(***************************************************************************)
EXTENDS Naturals, Sequences, FiniteSets, SequencesExt

CONSTANTS
  Server,
  Client,       \* client IDs
  Goroutine,    \* goroutines that share one Client value
  Operation,    \* the kinds of requests in use, among those of OperationType
  MaxRetries,   \* ClientConfig.MaxRetries
  MaxRequests,  \* bound: requests of one client
  MaxTerm       \* bound: terms with a leader

ASSUME ApiAssumption ==
  /\ IsFiniteSet(Server) /\ Server # {} /\ IsFiniteSet(Client) /\ IsFiniteSet(Goroutine)
  /\ Operation \subseteq {"write", "get", "batch", "batchGet"}
  /\ MaxRetries \in Nat /\ MaxRequests \in Nat /\ MaxTerm \in Nat

VARIABLES
  term,        \* term of the newest leader
  leaderTerm,  \* the term each server leads in, or 0
  elected,     \* log of the leader of each term when it was elected
  log,         \* log of each server
  decided,     \* the entries the leaders have committed
  commit,      \* commitIndex of each server
  applied,     \* lastApplied of each server
  sequence,    \* Client.sequence
  session,     \* SessionManager.sessions of each server: lastSequence and lastResponse
  call         \* the request of each goroutine

raftVars == <<term, leaderTerm, elected, log, decided, commit, applied>>
apiVars == <<sequence, session, call>>
vars == <<raftVars, apiVars>>

Thread == Client \X Goroutine

ClientOf(t) == t[1]

-----------------------------------------------------------------------------
(* Requests and responses *)

NoOp == <<"no-op">>

\* A response, and the sequence number of the request it was made for.
Response(kind, seq) == [kind |-> kind, seq |-> seq]

NoResponse == Response("none", 0)

NoSession == [lastSequence |-> 0, lastResponse |-> NoResponse]

Idle == [pc |-> "idle", seq |-> 0, op |-> "none", attempt |-> 0, server |-> "none",
         index |-> 0, readIndex |-> 0, resp |-> NoResponse,
         cached |-> FALSE, since |-> 0, floor |-> 0, seen |-> 0]

\* The command of a request as it is found in a log.
Command(t) == <<ClientOf(t), call[t].seq>>

Positions(l, cmd) == {i \in 1 .. Len(l) : l[i].cmd = cmd}

\* The index of the last command of a client, or 0.
LastWrite(l) == Max({i \in 1 .. Len(l) : l[i].cmd # NoOp} \cup {0})

Writes(op) == op \in {"write", "batch"}

\* Where HandleRequest and HandleBatch start: a batch of reads is not checked for leadership.
FirstStep(op) ==
  CASE Writes(op) -> "appending" [] op = "get" -> "checking" [] op = "batchGet" -> "reading"

IsBatch(op) == op \in {"batch", "batchGet"}

Init ==
  /\ term = 0
  /\ leaderTerm = [s \in Server |-> 0]
  /\ elected = <<>>
  /\ log = [s \in Server |-> <<>>]
  /\ decided = <<>>
  /\ commit = [s \in Server |-> 0]
  /\ applied = [s \in Server |-> 0]
  /\ sequence = [c \in Client |-> 0]
  /\ session = [s \in Server |-> [c \in Client |-> NoSession]]
  /\ call = [t \in Thread |-> Idle]

-----------------------------------------------------------------------------
(* The nodes *)

\* Bound: a client makes MaxRequests requests.
RequestsRemain(c) == sequence[c] < MaxRequests

\* Bound: the nodes are of interest while a request is handled or still to be made.
Active ==
  \/ \E c \in Client : RequestsRemain(c)
  \/ \E t \in Thread : call[t].pc \notin {"idle", "answered"}

IsLeader(s) == leaderTerm[s] # 0

\* A node with every decided entry wins an election and appends a no-op.
Elect(s) ==
  /\ Active /\ term < MaxTerm /\ ~IsLeader(s) /\ IsPrefix(decided, log[s])
  /\ term' = term + 1
  /\ leaderTerm' = [leaderTerm EXCEPT ![s] = term + 1]
  /\ log' = [log EXCEPT ![s] = Append(@, [term |-> term + 1, cmd |-> NoOp])]
  /\ elected' = Append(elected, log'[s])
  /\ UNCHANGED <<decided, commit, applied, apiVars>>

\* A leader learns of the leader of a higher term.
StepDown(s) ==
  /\ Active /\ IsLeader(s) /\ leaderTerm[s] < term
  /\ leaderTerm' = [leaderTerm EXCEPT ![s] = 0]
  /\ UNCHANGED <<term, elected, log, decided, commit, applied, apiVars>>

\* AppendEntries of the newest leader: what a follower has beyond it is replaced, and the
\* follower learns the leader's commit index.
Replicate(l, s) ==
  /\ Active /\ leaderTerm[l] = term /\ IsLeader(l) /\ ~IsLeader(s)
  /\ log[s] # log[l] \/ commit[s] # commit[l]
  /\ log' = [log EXCEPT ![s] = log[l]]
  /\ commit' = [commit EXCEPT ![s] = IF commit[l] > @ THEN commit[l] ELSE @]
  /\ UNCHANGED <<term, leaderTerm, elected, decided, applied, apiVars>>

\* A leader commits up to an entry of its term.  An old leader can still count a quorum for
\* what the leaders after it have.
Decide(s, k) ==
  /\ Active /\ IsLeader(s) /\ k \in commit[s] + 1 .. Len(log[s]) /\ log[s][k].term = leaderTerm[s]
  /\ LET prefix == SubSeq(log[s], 1, k)
     IN  /\ \A u \in leaderTerm[s] + 1 .. term : IsPrefix(prefix, elected[u])
         /\ decided' = IF k > Len(decided) THEN prefix ELSE decided
  /\ commit' = [commit EXCEPT ![s] = k]
  /\ UNCHANGED <<term, leaderTerm, elected, log, applied, apiVars>>

\* applyCommittedEntries, under the node's lock; waitForCommit reads lastApplied without the
\* lock, but sees nothing it would not see with a smaller commit index.
ApplyCommittedEntries(s) ==
  /\ Active /\ applied[s] < commit[s]
  /\ applied' = [applied EXCEPT ![s] = commit[s]]
  /\ UNCHANGED <<term, leaderTerm, elected, log, decided, commit, apiVars>>

-----------------------------------------------------------------------------
(* The client *)

NewRequest(t, op) ==
  /\ call[t].pc = "idle" /\ RequestsRemain(ClientOf(t))
  /\ sequence' = [sequence EXCEPT ![ClientOf(t)] = @ + 1]
  /\ call' = [call EXCEPT ![t] =
       [Idle EXCEPT !.pc = "calling", !.seq = sequence'[ClientOf(t)], !.op = op]]
  /\ UNCHANGED <<raftVars, session>>

\* Mutant of Retries: a request that timed out is sent again too.
RetriesTimeouts(resp) == resp.kind \in {"not_leader", "timeout"}

Retries(resp) == resp.kind = "not_leader"

\* Any server: updateLeader never sets leaderIndex to anything but -1.
SelectServer == Server

\* executeWithRetry: another attempt, at a server chosen anew, or the end of the request.
Receive(t) ==
  LET req == call[t]
  IN  call' = [call EXCEPT ![t] =
        IF Retries(req.resp) /\ req.attempt < MaxRetries
        THEN [Idle EXCEPT !.pc = "calling", !.seq = req.seq, !.op = req.op,
                          !.attempt = req.attempt + 1]
        ELSE Idle]

-----------------------------------------------------------------------------
(* The server *)

\* A request whose sequence number is not new is answered with the last response of the session.
CheckDuplicate(t, s) ==
  /\ call[t].pc = "calling"
  /\ LET known == session[s][ClientOf(t)]
     IN  call' = IF call[t].seq <= known.lastSequence
                 THEN [call EXCEPT ![t].pc = "answered", ![t].server = s,
                                   ![t].resp = known.lastResponse]
                 ELSE [call EXCEPT ![t].pc = FirstStep(call[t].op), ![t].server = s]
  /\ UNCHANGED <<raftVars, sequence, session>>

\* The handler's result, which HandleRequest caches before it returns.
Answer(t, kind) ==
  call' = [call EXCEPT ![t].pc = "answered", ![t].resp = Response(kind, call[t].seq),
                       ![t].cached = TRUE]

\* HandleBatch returns redirects and errors of its writes without caching them.
AnswerUncached(t, kind) ==
  call' = [call EXCEPT ![t].pc = "answered", ![t].resp = Response(kind, call[t].seq)]

Fail(t, kind) == IF IsBatch(call[t].op) THEN AnswerUncached(t, kind) ELSE Answer(t, kind)

\* The node appends an entry of the term it leads in.
AppendLogEntry(t) ==
  LET s == call[t].server
  IN  /\ log' = [log EXCEPT ![s] = Append(@, [term |-> leaderTerm[s], cmd |-> Command(t)])]
      /\ call' = [call EXCEPT ![t].pc = "waiting", ![t].index = Len(log[s]) + 1,
                              ![t].since = leaderTerm[s]]

\* handlePut and handleDelete: their leader check and the one of AppendLogEntry answer alike.
HandleWrite(t) ==
  /\ call[t].pc = "appending" /\ call[t].op = "write"
  /\ IF IsLeader(call[t].server)
     THEN AppendLogEntry(t)
     ELSE Answer(t, "not_leader") /\ UNCHANGED log
  /\ UNCHANGED <<term, leaderTerm, elected, decided, commit, applied, sequence, session>>

\* All writes of a batch are one entry.
ProcessBatchWrites(t) ==
  /\ call[t].pc = "appending" /\ call[t].op = "batch"
  /\ IF IsLeader(call[t].server)
     THEN AppendLogEntry(t)
     ELSE AnswerUncached(t, "not_leader") /\ UNCHANGED log
  /\ UNCHANGED <<term, leaderTerm, elected, decided, commit, applied, sequence, session>>

\* Mutant of Committed: the entry before is enough.
CommittedBefore(s, index) == commit[s] + 1 >= index /\ applied[s] + 1 >= index

\* The indices waitForCommit compares.
Committed(s, index) == commit[s] >= index /\ applied[s] >= index

\* Mutant of LostLeadership: the client is sent to the new leader.
RedirectWhenLost(t) == Fail(t, "not_leader")

LostLeadership(t) == Fail(t, "timeout")

\* A tick of waitForCommit: the indices first, leadership second.  A batch goes on to its reads.
PollCommit(t) ==
  LET s == call[t].server
  IN  /\ call[t].pc = "waiting"
      /\ \/ /\ Committed(s, call[t].index)
            /\ IF call[t].op = "batch"
               THEN call' = [call EXCEPT ![t].pc = "reading"]
               ELSE Answer(t, "ok")
         \/ ~Committed(s, call[t].index) /\ ~IsLeader(s) /\ LostLeadership(t)
      /\ UNCHANGED <<raftVars, sequence, session>>

\* The deadline of waitForCommit, at any moment.
CommitDeadline(t) ==
  /\ call[t].pc = "waiting"
  /\ Fail(t, "timeout")
  /\ UNCHANGED <<raftVars, sequence, session>>

\* handleGet sleeps between two leader checks, which answer alike.
CheckLeader(t) ==
  /\ call[t].pc = "checking"
  /\ IF IsLeader(call[t].server)
     THEN call' = [call EXCEPT ![t].pc = "reading"]
     ELSE Answer(t, "not_leader")
  /\ UNCHANGED <<raftVars, sequence, session>>

\* A failed read is reported as a missing key: the result of a Get, one result of a batch.
ReadFails(t) == Answer(t, IF IsBatch(call[t].op) THEN "ok" ELSE "not_found")

\* Whether s has committed an entry of the term it leads in, the newest.
CommittedInTerm(s) ==
  IsLeader(s) /\ leaderTerm[s] = term /\ commit[s] > 0 /\ log[s][commit[s]].term = term

\* PerformLinearizableRead: the read index.  History: the last write decided when the read began,
\* and the term of the leader if it had committed in that term.
SaveReadIndex(t) ==
  LET s == call[t].server
  IN  /\ call[t].pc = "reading"
      /\ IF IsLeader(s)
         THEN call' = [call EXCEPT ![t].pc = "confirming", ![t].readIndex = commit[s],
                                   ![t].floor = LastWrite(decided),
                                   ![t].since = IF CommittedInTerm(s) THEN term ELSE 0]
         ELSE ReadFails(t)
      /\ UNCHANGED <<raftVars, sequence, session>>

\* Mutant of CanRead: the read does not wait until the read index is applied.
CanReadAtOnce(s, readIndex) == IsLeader(s)

CanRead(s, readIndex) == IsLeader(s) /\ applied[s] >= readIndex

\* A heartbeat interval later (confirmLeadership sends nothing), a tick of the loop, or its timeout.
FinishRead(t) ==
  LET s == call[t].server
  IN  /\ call[t].pc = "confirming"
      /\ \/ /\ CanRead(s, call[t].readIndex)
            /\ call' = [call EXCEPT ![t].pc = "answered", ![t].seen = applied[s],
                                    ![t].resp = Response("ok", call[t].seq), ![t].cached = TRUE]
         \/ ReadFails(t)
      /\ UNCHANGED <<raftVars, sequence, session>>

\* Mutant of CacheResponse: the response of an existing session is not replaced.
CacheKeepsResponse(t) ==
  LET s == call[t].server
      c == ClientOf(t)
  IN  session' = IF call[t].cached /\ call[t].seq > session[s][c].lastSequence
                 THEN [session EXCEPT ![s][c] =
                        [lastSequence |-> call[t].seq,
                         lastResponse |-> IF @ = NoSession THEN call[t].resp ELSE @.lastResponse]]
                 ELSE session

CacheResponse(t) ==
  LET s == call[t].server
      c == ClientOf(t)
  IN  session' = IF call[t].cached /\ call[t].seq > session[s][c].lastSequence
                 THEN [session EXCEPT ![s][c] = [lastSequence |-> call[t].seq,
                                                 lastResponse |-> call[t].resp]]
                 ELSE session

\* The handler returns to the client, in the same process.
Return(t) ==
  /\ call[t].pc = "answered"
  /\ CacheResponse(t)
  /\ Receive(t)
  /\ UNCHANGED <<raftVars, sequence>>

\* cleanup: sessions without a response for ten minutes.  Attempts of one request are seconds
\* apart, so the session of a request that is being made is not that old.
Cleanup(s, c) ==
  /\ Active /\ session[s][c] # NoSession
  /\ \A t \in Thread :
       ClientOf(t) = c /\ call[t].pc # "idle" => call[t].seq > session[s][c].lastSequence
  /\ session' = [session EXCEPT ![s][c] = NoSession]
  /\ UNCHANGED <<raftVars, sequence, call>>

-----------------------------------------------------------------------------
NodeStep ==
  \/ \E s \in Server : Elect(s) \/ StepDown(s) \/ ApplyCommittedEntries(s)
  \/ \E l, s \in Server : Replicate(l, s)
  \/ \E s \in Server : \E k \in 1 .. Len(log[s]) : Decide(s, k)

Handle(t) ==
  \/ HandleWrite(t) \/ ProcessBatchWrites(t) \/ PollCommit(t) \/ CommitDeadline(t)
  \/ CheckLeader(t) \/ SaveReadIndex(t) \/ FinishRead(t)
  \/ Return(t)
  \/ \E s \in SelectServer : CheckDuplicate(t, s)

Next ==
  \/ NodeStep
  \/ \E t \in Thread : Handle(t) \/ \E op \in Operation : NewRequest(t, op)
  \/ \E s \in Server, c \in Client : Cleanup(s, c)

Spec == Init /\ [][Next]_vars

-----------------------------------------------------------------------------
(* Properties *)

\* No write is in a log twice, however often its request was sent and whatever the sessions
\* have forgotten: executeWithRetry repeats only what was answered with a redirect.
AtMostOnce ==
  \A s \in Server, c \in Client, n \in 1 .. MaxRequests :
    Cardinality(Positions(log[s], <<c, n>>)) <= 1

\* A redirect, cached or not, means that the write is in no log: only then may the client
\* repeat it at another server (server.go redirectToLeader, batch.go redirectBatchToLeader).
RedirectedIsNowhere ==
  \A t \in Thread : call[t].pc = "answered" /\ call[t].resp.kind = "not_leader" =>
    \A s \in Server : Positions(log[s], Command(t)) = {}

\* A write that waitForCommit reports as committed is decided at the index it was given, if the
\* server has led in one term since it appended it.
CommittedUnderOneLeader ==
  [][\A t \in Thread :
       /\ call[t].pc = "waiting" /\ leaderTerm[call[t].server] = call[t].since
       /\ \/ call'[t].pc = "reading"
          \/ call'[t].pc = "answered" /\ call'[t].resp.kind = "ok"
       => call[t].index \in Positions(decided, Command(t))]_vars

\* The reads that returned a value.
HasRead(t) ==
  call[t].op = "get" /\ call[t].pc = "answered" /\ call[t].resp.kind = "ok"

\* A read from a leader that is the newest and has committed in its term when the read begins
\* sees every write decided by then, though no quorum confirms the leader
\* (PerformLinearizableRead).
SettledLeaderReadsFresh ==
  \A t \in Thread : HasRead(t) /\ call[t].since # 0 => call[t].seen >= call[t].floor

\* The response a request gets was made for that request, or for a later one of its client that
\* another goroutine has made meanwhile and that has overtaken it: never for an earlier one,
\* whatever was retried, cached and forgotten (session.go CheckDuplicate, CacheResponse, cleanup).
OwnAnswerUnlessOvertaken ==
  \A t \in Thread : call[t].pc = "answered" =>
    \/ call[t].resp.seq = call[t].seq
    \/ call[t].resp.seq \in call[t].seq + 1 .. sequence[ClientOf(t)]

\* The response a request gets was made for that request.
AnswersOwnRequest ==
  \A t \in Thread : call[t].pc = "answered" => call[t].resp.seq = call[t].seq

\* A write the client was told is done is decided.
AcknowledgedWritesAreDecided ==
  \A t \in Thread :
    call[t].pc = "answered" /\ call[t].resp.kind = "ok" /\ Writes(call[t].op) =>
      Positions(decided, Command(t)) # {}

\* A read sees every write that was decided when it began.
ReadsAreFresh == \A t \in Thread : HasRead(t) => call[t].seen >= call[t].floor
=============================================================================
