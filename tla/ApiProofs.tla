------------------------------- MODULE ApiProofs -------------------------------
(***************************************************************************)
(* Proofs about module Api, for any servers, clients and bounds: a write   *)
(* is in no log twice, a redirect is given only for a write that is in no  *)
(* log, a request is never given the response of an earlier one, what      *)
(* waitForCommit reports under one leader is decided, and a settled leader *)
(* reads what was decided before.                                          *)
(***************************************************************************)
EXTENDS Api, NumberFacts, FiniteSetTheorems

-----------------------------------------------------------------------------
(* Types *)

Entry == [term : Nat, cmd : {NoOp} \cup (Client \X Nat)]

Reply == [kind : {"none", "ok", "not_leader", "timeout", "not_found"}, seq : Nat]

Request ==
  [pc : {"idle", "calling", "appending", "waiting", "checking", "reading", "confirming", "answered"},
   seq : Nat, op : Operation \cup {"none"}, attempt : Nat, server : Server \cup {"none"},
   index : Nat, readIndex : Nat, resp : Reply, cached : BOOLEAN, since : Nat, floor : Nat, seen : Nat]

NodeTypes ==
  /\ term \in Nat
  /\ leaderTerm \in [Server -> Nat]
  /\ elected \in Seq(Seq(Entry))
  /\ log \in [Server -> Seq(Entry)]
  /\ decided \in Seq(Entry)
  /\ commit \in [Server -> Nat]
  /\ applied \in [Server -> Nat]

ClientTypes ==
  /\ sequence \in [Client -> Nat]
  /\ session \in [Server -> [Client -> [lastSequence : Nat, lastResponse : Reply]]]
  /\ call \in [Thread -> Request]

\* A request in progress has an operation, and a server once it was sent.
InProgress ==
  \A t \in Thread :
    /\ call[t].pc # "idle" => call[t].op \in Operation
    /\ call[t].pc \notin {"idle", "calling"} => call[t].server \in Server
    /\ call[t].pc \in {"appending", "waiting"} => Writes(call[t].op)

TypeOK == NodeTypes /\ ClientTypes /\ InProgress

-----------------------------------------------------------------------------
(* Sequence numbers and commands *)

\* The requests of one client that are in progress have different sequence numbers it has used.
NumbersDiffer ==
  /\ \A t \in Thread : call[t].pc # "idle" => call[t].seq <= sequence[ClientOf(t)]
  /\ \A t, u \in Thread :
       t # u /\ ClientOf(t) = ClientOf(u) /\ call[t].pc # "idle" /\ call[u].pc # "idle" =>
         call[t].seq # call[u].seq

\* A command in a log has a sequence number its client has used.
CommandsUsed ==
  \A s \in Server : \A i \in 1 .. Len(log[s]) : \A c \in Client, n \in Nat :
    log[s][i].cmd = <<c, n>> => n <= sequence[c]

\* The requests no server has appended.
NotAppended(t) ==
  \/ call[t].pc \in {"calling", "appending", "checking"}
  \/ call[t].pc = "answered" /\ call[t].resp.kind = "not_leader"

NotAppendedIsNowhere ==
  \A t \in Thread : NotAppended(t) =>
    \A s \in Server : \A i \in 1 .. Len(log[s]) : log[s][i].cmd # Command(t)

CommandsOnce ==
  \A s \in Server : \A i, j \in 1 .. Len(log[s]) :
    log[s][i].cmd = log[s][j].cmd /\ log[s][i].cmd # NoOp => i = j

WriteInv == NumbersDiffer /\ CommandsUsed /\ NotAppendedIsNowhere /\ CommandsOnce

-----------------------------------------------------------------------------
(* Sessions *)

\* A response in a session was made for the request of the session's sequence number, which the
\* client has used.
SessionsMatch ==
  \A s \in Server, c \in Client :
    /\ session[s][c].lastSequence <= sequence[c]
    /\ session[s][c].lastResponse.seq = session[s][c].lastSequence

\* A response that will be cached was made for its request: one from a session is not cached again.
CachedMatch ==
  \A t \in Thread :
    /\ call[t].pc = "calling" => call[t].cached = FALSE
    /\ call[t].pc = "answered" /\ call[t].cached # FALSE => call[t].resp.seq = call[t].seq

\* No response is of an earlier request, or of one the client has not made.
ResponsesMatch ==
  \A t \in Thread : call[t].pc = "answered" =>
    call[t].seq <= call[t].resp.seq /\ call[t].resp.seq <= sequence[ClientOf(t)]

SessionInv == SessionsMatch /\ CachedMatch /\ ResponsesMatch

-----------------------------------------------------------------------------
(* Nodes *)

\* The sequences a and b have the same first n elements.
Agree(a, b, n) == n <= Len(a) /\ n <= Len(b) /\ \A i \in 1 .. n : a[i] = b[i]

\* The newest leader leads until there is a newer one, and no term has two.
LeadersInv ==
  /\ Len(elected) = term
  /\ \A s \in Server : leaderTerm[s] <= term
  /\ \A r, s \in Server : IsLeader(r) /\ leaderTerm[r] = leaderTerm[s] => r = s
  /\ term # 0 => \E s \in Server : leaderTerm[s] = term

\* A leader keeps the log it was elected with.
ElectedKept ==
  \A s \in Server : IsLeader(s) =>
    Agree(elected[leaderTerm[s]], log[s], Len(elected[leaderTerm[s]]))

\* The log of a leader when it was elected ends with its no-op, before which there are only
\* entries of earlier terms.
ElectedTerms ==
  /\ \A s \in Server : \A i \in 1 .. Len(log[s]) : log[s][i].term <= term
  /\ \A u \in 1 .. term : \A i \in 1 .. Len(elected[u]) : i < Len(elected[u]) => elected[u][i].term < u

\* What a server knows to be committed is decided, and the newest leader has all that is decided.
DecidedInv ==
  /\ \A s \in Server : Agree(log[s], decided, commit[s])
  /\ \A s \in Server : IsLeader(s) /\ leaderTerm[s] = term => Agree(decided, log[s], Len(decided))

\* The newest leader knows of every decision, but for those in what it was elected with.
NewestKnows ==
  \A s \in Server : IsLeader(s) /\ leaderTerm[s] = term =>
    Len(decided) <= Len(elected[term]) \/ Len(decided) <= commit[s]

NodeInv == LeadersInv /\ ElectedKept /\ ElectedTerms /\ DecidedInv /\ NewestKnows

-----------------------------------------------------------------------------
(* Requests under one leader *)

\* A write that waits is at its index in the log of the leader that appended it.
WaitingInv ==
  \A t \in Thread : call[t].pc = "waiting" =>
    /\ call[t].since # 0 /\ call[t].since <= term
    /\ leaderTerm[call[t].server] = call[t].since =>
         /\ call[t].index \in 1 .. Len(log[call[t].server])
         /\ log[call[t].server][call[t].index].cmd = Command(t)

\* The read index of a read that begins at a settled leader is not below the last write decided.
ReadInv ==
  \A t \in Thread : call[t].op = "get" /\ call[t].since # 0 =>
    /\ call[t].pc \notin {"calling", "checking", "reading"}
    /\ call[t].pc = "confirming" => call[t].readIndex >= call[t].floor
    /\ HasRead(t) => call[t].seen >= call[t].floor

ApiInv == TypeOK /\ WriteInv /\ NodeInv /\ WaitingInv /\ ReadInv

-----------------------------------------------------------------------------
(* The steps of requests *)

\* Only the request of thread t changes, to one of type Request.
Changes(t) ==
  /\ call' \in [Thread -> Request]
  /\ \A u \in Thread : u # t => call'[u] = call[u]

\* NewRequest.
Opens(t) ==
  /\ Changes(t)
  /\ call[t].pc = "idle" /\ call'[t].pc = "calling" /\ call'[t].op \in Operation
  /\ call'[t].since = 0 /\ call'[t].cached = FALSE
  /\ sequence' \in [Client -> Nat]
  /\ sequence'[ClientOf(t)] = sequence[ClientOf(t)] + 1
  /\ \A c \in Client : c # ClientOf(t) => sequence'[c] = sequence[c]
  /\ call'[t].seq = sequence'[ClientOf(t)]
  /\ UNCHANGED <<raftVars, session>>

\* CheckDuplicate.
Sends(t, s) ==
  /\ Changes(t)
  /\ call[t].pc = "calling" /\ call'[t].pc \in {"answered", "appending", "checking", "reading"}
  /\ call'[t].pc = "appending" => Writes(call[t].op)
  /\ call'[t].pc = "reading" => call[t].op # "get" /\ ~Writes(call[t].op)
  /\ call'[t].seq = call[t].seq /\ call'[t].op = call[t].op /\ call'[t].since = call[t].since
  /\ call'[t].server = s /\ call'[t].cached = call[t].cached
  /\ call'[t].pc = "answered" =>
       /\ call[t].seq <= session[s][ClientOf(t)].lastSequence
       /\ call'[t].resp = session[s][ClientOf(t)].lastResponse
  /\ UNCHANGED <<raftVars, sequence, session>>

\* AppendLogEntry.
Appends(t) ==
  LET s == call[t].server
  IN  /\ Changes(t)
      /\ call[t].pc = "appending" /\ call'[t].pc = "waiting"
      /\ call'[t].seq = call[t].seq /\ call'[t].op = call[t].op /\ call'[t].server = s
      /\ leaderTerm[s] # 0 /\ call'[t].since = leaderTerm[s] /\ call'[t].index = Len(log[s]) + 1
      /\ log' = [log EXCEPT ![s] = Append(log[s], [term |-> leaderTerm[s], cmd |-> Command(t)])]
      /\ UNCHANGED <<term, leaderTerm, elected, decided, commit, applied, sequence, session>>

\* The commit index has reached the index of a write.
Reported(t) == commit[call[t].server] >= call[t].index

\* A step of a handler that appends nothing.
Works(t) ==
  /\ Changes(t)
  /\ call[t].pc \in {"appending", "waiting", "checking", "reading", "confirming"}
  /\ call'[t].pc \in {"answered", "reading", "confirming"}
  /\ call'[t].seq = call[t].seq /\ call'[t].op = call[t].op /\ call'[t].server = call[t].server
  /\ call'[t].pc = "answered" =>
       /\ call'[t].resp.seq = call[t].seq
       /\ call'[t].resp.kind = "not_leader" => call[t].pc \in {"appending", "checking"}
       /\ call'[t].since = call[t].since /\ call'[t].floor = call[t].floor
       /\ call'[t].resp.kind = "ok" /\ call[t].op = "get" =>
            call[t].pc = "confirming" /\ call'[t].seen >= call[t].readIndex
  /\ call'[t].pc = "reading" =>
       call[t].pc \in {"waiting", "checking"} /\ call'[t].since = call[t].since
  /\ call[t].pc = "waiting" =>
       Reported(t) \/ (call'[t].pc = "answered" /\ call'[t].resp.kind = "timeout")
  /\ call'[t].pc = "confirming" =>
       /\ call[t].pc = "reading"
       /\ call'[t].readIndex = commit[call[t].server] /\ call'[t].floor = LastWrite(decided)
       /\ call'[t].since # 0 => CommittedInTerm(call[t].server)
  /\ UNCHANGED <<raftVars, sequence, session>>

\* Return.
Returns(t) ==
  /\ Changes(t)
  /\ call[t].pc = "answered"
  /\ \/ call'[t].pc = "idle"
     \/ /\ call'[t].pc = "calling" /\ call[t].resp.kind = "not_leader"
        /\ call'[t].seq = call[t].seq /\ call'[t].op = call[t].op
  /\ call'[t].since = 0 /\ call'[t].cached = FALSE
  /\ session' \in [Server -> [Client -> [lastSequence : Nat, lastResponse : Reply]]]
  /\ \A s \in Server, c \in Client :
       \/ session'[s][c] = session[s][c]
       \/ /\ c = ClientOf(t) /\ call[t].cached # FALSE
          /\ session'[s][c].lastSequence = call[t].seq
          /\ session'[s][c].lastResponse = call[t].resp
  /\ UNCHANGED <<raftVars, sequence>>

\* The client of a thread.
LEMMA ThreadClient ==
  ASSUME NEW t \in Thread
  PROVE  ClientOf(t) \in Client
BY DEF Thread, ClientOf

\* A request without progress has the types of a request.
LEMMA IdleType == Idle \in Request
BY DEF Idle, Request, Reply, NoResponse, Response

\* NewRequest takes the next sequence number of the client.
LEMMA StepNewRequest ==
  ASSUME TypeOK, NEW t \in Thread, NEW op \in Operation, NewRequest(t, op)
  PROVE  Opens(t)
<1> DEFINE c == ClientOf(t)
<1>1. c \in Client /\ sequence \in [Client -> Nat] /\ call \in [Thread -> Request]
  BY ThreadClient DEF TypeOK, ClientTypes
<1>2. /\ sequence' \in [Client -> Nat] /\ sequence'[c] = sequence[c] + 1
      /\ \A d \in Client : d # c => sequence'[d] = sequence[d]
  BY <1>1 DEF NewRequest
<1>3. PICK n \in Nat : n = sequence'[c]
  BY <1>1, <1>2
<1>4. PICK r \in Request : r = Idle
  BY IdleType
<1> DEFINE q == [r EXCEPT !.pc = "calling", !.seq = n, !.op = op]
<1>5. /\ q \in Request /\ q.pc = "calling" /\ q.seq = n /\ q.op = op /\ q.since = r.since
      /\ q.cached = r.cached
  BY <1>3, <1>4 DEF Request
<1>6. r.since = 0 /\ r.cached = FALSE
  BY <1>4 DEF Idle
<1>7. call' = [call EXCEPT ![t] = q]
  BY <1>3, <1>4 DEF NewRequest
<1> HIDE DEF q
<1>8. call'[t] = q /\ Changes(t)
  BY <1>1, <1>5, <1>7 DEF Changes
<1>9. call[t].pc = "idle" /\ UNCHANGED <<raftVars, session>>
  BY DEF NewRequest
<1> QED
  BY <1>2, <1>3, <1>5, <1>6, <1>8, <1>9 DEF Opens

\* CheckDuplicate answers from the session, or the handler begins.
LEMMA StepCheckDuplicate ==
  ASSUME TypeOK, NEW t \in Thread, NEW s \in Server, CheckDuplicate(t, s)
  PROVE  Sends(t, s)
<1> DEFINE c == ClientOf(t)
           known == session[s][c]
<1>1. /\ c \in Client /\ call \in [Thread -> Request] /\ call[t].pc = "calling"
      /\ call[t].op \in Operation
      /\ known \in [lastSequence : Nat, lastResponse : Reply]
  BY ThreadClient DEF TypeOK, ClientTypes, InProgress, CheckDuplicate
<1>2. UNCHANGED <<raftVars, sequence, session>>
  BY DEF CheckDuplicate
<1>3. PICK r \in Request : r = call[t]
  BY <1>1
<1>4. CASE call[t].seq <= known.lastSequence
  <2>1. PICK a \in Reply : a = known.lastResponse
    BY <1>1
  <2> DEFINE q == [r EXCEPT !.pc = "answered", !.server = s, !.resp = a]
  <2>2. /\ q \in Request /\ q.pc = "answered" /\ q.seq = r.seq /\ q.op = r.op /\ q.since = r.since
        /\ q.server = s /\ q.resp = a /\ q.cached = r.cached
    BY DEF Request
  <2>3. call' = [call EXCEPT ![t] = q]
    BY <1>1, <1>3, <1>4, <2>1 DEF CheckDuplicate
  <2> HIDE DEF q
  <2>4. call'[t] = q /\ Changes(t)
    BY <1>1, <2>2, <2>3 DEF Changes
  <2> QED
    BY <1>1, <1>2, <1>3, <1>4, <2>1, <2>2, <2>4 DEF Sends
<1>5. CASE ~(call[t].seq <= known.lastSequence)
  <2>1. PICK p : p = FirstStep(r.op)
    OBVIOUS
  <2>2. /\ p \in {"appending", "checking", "reading"} /\ (p = "appending" => Writes(r.op))
        /\ (p = "reading" => r.op # "get" /\ ~Writes(r.op))
    BY <1>1, <1>3, <2>1, ApiAssumption DEF FirstStep, Writes
  <2> DEFINE q == [r EXCEPT !.pc = p, !.server = s]
  <2>3. /\ q \in Request /\ q.pc = p /\ q.seq = r.seq /\ q.op = r.op /\ q.since = r.since
        /\ q.server = s /\ q.cached = r.cached
    BY <2>2 DEF Request
  <2>4. call' = [call EXCEPT ![t] = q]
    BY <1>1, <1>3, <1>5, <2>1 DEF CheckDuplicate
  <2> HIDE DEF q
  <2>5. call'[t] = q /\ Changes(t)
    BY <1>1, <2>3, <2>4 DEF Changes
  <2> QED
    BY <1>1, <1>2, <1>3, <2>2, <2>3, <2>5 DEF Sends
<1> QED
  BY <1>4, <1>5

\* A response is a reply.
LEMMA ResponseType ==
  ASSUME NEW kind \in {"none", "ok", "not_leader", "timeout", "not_found"}, NEW n \in Nat
  PROVE  /\ Response(kind, n) \in Reply
         /\ Response(kind, n).kind = kind /\ Response(kind, n).seq = n
BY DEF Response, Reply

\* What an answer changes in a request, whether it is cached or not.
AnswersWith(t, kind) ==
  /\ Changes(t)
  /\ call'[t].pc = "answered" /\ call'[t].resp = Response(kind, call[t].seq)
  /\ call'[t].seq = call[t].seq /\ call'[t].op = call[t].op /\ call'[t].server = call[t].server
  /\ call'[t].since = call[t].since /\ call'[t].floor = call[t].floor

\* Both kinds of answers.
LEMMA AnswerFacts ==
  ASSUME TypeOK, NEW t \in Thread,
         NEW kind \in {"none", "ok", "not_leader", "timeout", "not_found"},
         Answer(t, kind) \/ AnswerUncached(t, kind)
  PROVE  AnswersWith(t, kind)
<1>1. call \in [Thread -> Request]
  BY DEF TypeOK, ClientTypes
<1>2. PICK r \in Request : r = call[t]
  BY <1>1
<1>3. r.seq \in Nat
  BY DEF Request
<1>4. PICK a \in Reply : a = Response(kind, r.seq)
  BY <1>3, ResponseType
<1>5. PICK b \in BOOLEAN : call' = [call EXCEPT ![t] = [r EXCEPT !.pc = "answered", !.resp = a, !.cached = b]]
  <2>1. CASE Answer(t, kind)
    <3>1. call' = [call EXCEPT ![t] = [r EXCEPT !.pc = "answered", !.resp = a, !.cached = TRUE]]
      BY <1>1, <1>2, <1>4, <2>1 DEF Answer
    <3> QED
      BY <3>1
  <2>2. CASE AnswerUncached(t, kind)
    <3>1. r.cached \in BOOLEAN
      BY DEF Request
    <3>2. [r EXCEPT !.pc = "answered", !.resp = a]
            = [r EXCEPT !.pc = "answered", !.resp = a, !.cached = r.cached]
      BY DEF Request
    <3>3. call' = [call EXCEPT ![t] = [r EXCEPT !.pc = "answered", !.resp = a]]
      BY <1>1, <1>2, <1>4, <2>2 DEF AnswerUncached
    <3> QED
      BY <3>1, <3>2, <3>3
  <2> QED
    BY <2>1, <2>2
<1> DEFINE q == [r EXCEPT !.pc = "answered", !.resp = a, !.cached = b]
<1>6. /\ q \in Request /\ q.pc = "answered" /\ q.resp = a /\ q.seq = r.seq /\ q.op = r.op
      /\ q.server = r.server /\ q.since = r.since /\ q.floor = r.floor
  BY DEF Request
<1>7. call' = [call EXCEPT ![t] = q]
  BY <1>5
<1> HIDE DEF q
<1>8. call'[t] = q /\ Changes(t)
  BY <1>1, <1>6, <1>7 DEF Changes
<1> QED
  BY <1>2, <1>4, <1>6, <1>8 DEF AnswersWith

\* An answer, but for a redirect of one that was appended and for the value of a Get.
LEMMA AnswerWorks ==
  ASSUME TypeOK, NEW t \in Thread,
         NEW kind \in {"ok", "not_leader", "timeout", "not_found"},
         AnswersWith(t, kind), UNCHANGED <<raftVars, sequence, session>>,
         call[t].pc \in {"appending", "waiting", "checking", "reading", "confirming"},
         kind = "not_leader" => call[t].pc \in {"appending", "checking"},
         kind = "ok" => call[t].op # "get",
         call[t].pc = "waiting" => kind = "timeout" \/ Reported(t)
  PROVE  Works(t)
<1>1. call[t] \in Request
  BY DEF TypeOK, ClientTypes
<1>2. call[t].seq \in Nat
  BY <1>1 DEF Request
<1>3. PICK a \in Reply : a = Response(kind, call[t].seq) /\ a.kind = kind /\ a.seq = call[t].seq
  BY <1>2, ResponseType
<1> QED
  BY <1>3 DEF Works, AnswersWith

\* A leader appends the write of a request and the handler waits.
LEMMA StepAppend ==
  ASSUME TypeOK, NEW t \in Thread, call[t].pc = "appending", IsLeader(call[t].server), AppendLogEntry(t),
         UNCHANGED <<term, leaderTerm, elected, decided, commit, applied, sequence, session>>
  PROVE  Appends(t)
<1> DEFINE s == call[t].server
<1>0. call \in [Thread -> Request] /\ s \in Server
  BY DEF TypeOK, ClientTypes, InProgress
<1>1. call \in [Thread -> Request] /\ s \in Server /\ leaderTerm[s] \in Nat /\ Len(log[s]) + 1 \in Nat
  <2>1. leaderTerm[s] \in Nat /\ log[s] \in Seq(Entry)
    BY <1>0 DEF TypeOK, NodeTypes
  <2> QED
    BY <1>0, <2>1
<1>2. PICK r \in Request, n \in Nat, e \in Nat : r = call[t] /\ n = Len(log[s]) + 1 /\ e = leaderTerm[s]
  BY <1>1
<1> DEFINE q == [r EXCEPT !.pc = "waiting", !.index = n, !.since = e]
<1>3. /\ q \in Request /\ q.pc = "waiting" /\ q.index = n /\ q.since = e
      /\ q.seq = r.seq /\ q.op = r.op /\ q.server = r.server
  BY DEF Request
<1>4. call' = [call EXCEPT ![t] = q]
  BY <1>1, <1>2 DEF AppendLogEntry
<1> HIDE DEF q
<1>5. call'[t] = q /\ Changes(t)
  BY <1>1, <1>3, <1>4 DEF Changes
<1>6. log' = [log EXCEPT ![s] = Append(log[s], [term |-> leaderTerm[s], cmd |-> Command(t)])]
  BY DEF AppendLogEntry
<1> QED
  BY <1>2, <1>3, <1>5, <1>6 DEF Appends, IsLeader

\* A write is appended by a leader and redirected by any other server.
LEMMA StepHandleWrite ==
  ASSUME TypeOK, NEW t \in Thread, HandleWrite(t) \/ ProcessBatchWrites(t)
  PROVE  Appends(t) \/ Works(t)
<1>1. /\ call[t].pc = "appending"
      /\ UNCHANGED <<term, leaderTerm, elected, decided, commit, applied, sequence, session>>
  BY DEF HandleWrite, ProcessBatchWrites
<1>2. CASE IsLeader(call[t].server)
  BY <1>1, <1>2, StepAppend DEF HandleWrite, ProcessBatchWrites
<1>3. CASE ~IsLeader(call[t].server)
  <2>1. /\ Answer(t, "not_leader") \/ AnswerUncached(t, "not_leader")
        /\ UNCHANGED log
    BY <1>3 DEF HandleWrite, ProcessBatchWrites
  <2>2. AnswersWith(t, "not_leader")
    BY <2>1, AnswerFacts
  <2>3. UNCHANGED <<raftVars, sequence, session>>
    BY <1>1, <2>1 DEF raftVars
  <2> QED
    BY <1>1, <2>2, <2>3, AnswerWorks
<1> QED
  BY <1>2, <1>3

\* A request whose write is committed, or that is read by a leader, goes on to its reads.
LEMMA GoesOnToRead ==
  ASSUME TypeOK, NEW t \in Thread, call[t].pc \in {"waiting", "checking"},
         call[t].pc = "waiting" => Reported(t),
         call' = [call EXCEPT ![t].pc = "reading"], UNCHANGED <<raftVars, sequence, session>>
  PROVE  Works(t) /\ call'[t].pc = "reading"
<1>1. call \in [Thread -> Request]
  BY DEF TypeOK, ClientTypes
<1>2. PICK r \in Request : r = call[t]
  BY <1>1
<1> DEFINE q == [r EXCEPT !.pc = "reading"]
<1>3. /\ q \in Request /\ q.pc = "reading" /\ q.since = r.since
      /\ q.seq = r.seq /\ q.op = r.op /\ q.server = r.server
  BY DEF Request
<1>4. call' = [call EXCEPT ![t] = q]
  BY <1>1, <1>2
<1> HIDE DEF q
<1>5. call'[t] = q /\ Changes(t)
  BY <1>1, <1>3, <1>4 DEF Changes
<1> QED
  BY <1>2, <1>3, <1>5 DEF Works

\* A tick of waitForCommit: reported committed only when the commit index has reached the write.
LEMMA StepPollCommit ==
  ASSUME TypeOK, NEW t \in Thread, PollCommit(t)
  PROVE  Works(t)
<1>1. call[t].pc = "waiting" /\ UNCHANGED <<raftVars, sequence, session>> /\ Writes(call[t].op)
  BY DEF PollCommit, TypeOK, InProgress
<1>2. CASE Committed(call[t].server, call[t].index) /\ call' = [call EXCEPT ![t].pc = "reading"]
  <2>1. Reported(t)
    BY <1>2 DEF Committed, Reported
  <2> QED
    BY <1>1, <1>2, <2>1, GoesOnToRead
<1>3. CASE Committed(call[t].server, call[t].index) /\ Answer(t, "ok")
  <2>1. Reported(t)
    BY <1>3 DEF Committed, Reported
  <2> QED
    BY <1>1, <1>3, <2>1, AnswerFacts, AnswerWorks DEF Writes
<1>4. CASE LostLeadership(t)
  BY <1>1, <1>4, AnswerFacts, AnswerWorks DEF LostLeadership, Fail
<1> QED
  BY <1>2, <1>3, <1>4 DEF PollCommit

\* The deadline of waitForCommit.
LEMMA StepCommitDeadline ==
  ASSUME TypeOK, NEW t \in Thread, CommitDeadline(t)
  PROVE  Works(t)
BY AnswerFacts, AnswerWorks DEF CommitDeadline, Fail

\* The leader checks of handleGet.
LEMMA StepCheckLeader ==
  ASSUME TypeOK, NEW t \in Thread, CheckLeader(t)
  PROVE  Works(t)
<1>1. call[t].pc = "checking" /\ UNCHANGED <<raftVars, sequence, session>>
  BY DEF CheckLeader
<1>2. CASE call' = [call EXCEPT ![t].pc = "reading"]
  BY <1>1, <1>2, GoesOnToRead
<1>3. CASE Answer(t, "not_leader")
  BY <1>1, <1>3, AnswerFacts, AnswerWorks
<1> QED
  BY <1>2, <1>3 DEF CheckLeader

\* A failed read.
LEMMA ReadFailsWorks ==
  ASSUME TypeOK, NEW t \in Thread, call[t].pc \in {"reading", "confirming"}, ReadFails(t),
         UNCHANGED <<raftVars, sequence, session>>
  PROVE  Works(t)
<1>1. CASE IsBatch(call[t].op)
  BY <1>1, AnswerFacts, AnswerWorks DEF ReadFails, IsBatch
<1>2. CASE ~IsBatch(call[t].op)
  BY <1>2, AnswerFacts, AnswerWorks DEF ReadFails
<1> QED
  BY <1>1, <1>2

\* The last write of a sequence of entries.
LEMMA LastWriteType ==
  ASSUME NEW l \in Seq(Entry)
  PROVE  /\ LastWrite(l) \in 0 .. Len(l)
         /\ LastWrite(l) # 0 => l[LastWrite(l)].cmd # NoOp
<1> DEFINE T == {i \in 1 .. Len(l) : l[i].cmd # NoOp} \cup {0}
<1>1. Len(l) \in Nat /\ T \subseteq 0 .. Len(l) /\ T # {}
  OBVIOUS
<1>2. Max(T) \in T
  <2> HIDE DEF T
  <2> QED
    BY <1>1, MaxType
<1> QED
  BY <1>1, <1>2 DEF LastWrite

\* PerformLinearizableRead takes the commit index of a leader as its read index.
LEMMA StepSaveReadIndex ==
  ASSUME TypeOK, NEW t \in Thread, SaveReadIndex(t)
  PROVE  Works(t)
<1> DEFINE s == call[t].server
<1>1. call[t].pc = "reading" /\ UNCHANGED <<raftVars, sequence, session>>
  BY DEF SaveReadIndex
<1>2. call \in [Thread -> Request] /\ s \in Server
  BY <1>1 DEF TypeOK, ClientTypes, InProgress
<1>3. commit[s] \in Nat /\ term \in Nat /\ decided \in Seq(Entry)
  BY <1>2 DEF TypeOK, NodeTypes
<1>4. LastWrite(decided) \in Nat
  BY <1>3, LastWriteType
<1>5. CASE IsLeader(s)
  <2> DEFINE since == IF CommittedInTerm(s) THEN term ELSE 0
  <2>1. since \in Nat /\ (since # 0 => CommittedInTerm(s))
    BY <1>3
  <2>2. PICK r \in Request, n \in Nat, f \in Nat, e \in Nat :
          r = call[t] /\ n = commit[s] /\ f = LastWrite(decided) /\ e = since
    BY <1>2, <1>3, <1>4, <2>1
  <2> DEFINE q == [r EXCEPT !.pc = "confirming", !.readIndex = n, !.floor = f, !.since = e]
  <2>3. /\ q \in Request /\ q.pc = "confirming" /\ q.readIndex = n /\ q.floor = f /\ q.since = e
        /\ q.seq = r.seq /\ q.op = r.op /\ q.server = r.server
    BY DEF Request
  <2>4. call' = [call EXCEPT ![t] = q]
    BY <1>2, <1>5, <2>2 DEF SaveReadIndex
  <2> HIDE DEF q
  <2>5. call'[t] = q /\ Changes(t)
    BY <1>2, <2>3, <2>4 DEF Changes
  <2> HIDE DEF since
  <2> QED
    BY <1>1, <2>1, <2>2, <2>3, <2>5 DEF Works
<1>6. CASE ~IsLeader(s)
  BY <1>1, <1>6, ReadFailsWorks DEF SaveReadIndex
<1> QED
  BY <1>5, <1>6

\* The loop of PerformLinearizableRead ends with a read, once the read index is applied, or fails.
LEMMA StepFinishRead ==
  ASSUME TypeOK, NEW t \in Thread, FinishRead(t)
  PROVE  Works(t)
<1> DEFINE s == call[t].server
<1>1. call[t].pc = "confirming" /\ UNCHANGED <<raftVars, sequence, session>>
  BY DEF FinishRead
<1>2. call \in [Thread -> Request] /\ s \in Server
  BY <1>1 DEF TypeOK, ClientTypes, InProgress
<1>3. applied[s] \in Nat
  BY <1>2 DEF TypeOK, NodeTypes
<1>4. CASE /\ CanRead(s, call[t].readIndex)
           /\ call' = [call EXCEPT ![t].pc = "answered", ![t].seen = applied[s],
                                   ![t].resp = Response("ok", call[t].seq), ![t].cached = TRUE]
  <2>0. PICK r \in Request : r = call[t]
    BY <1>2
  <2>1. r.seq \in Nat
    BY DEF Request
  <2>2. PICK a \in Reply : a = Response("ok", r.seq) /\ a.kind = "ok" /\ a.seq = r.seq
    BY <2>1, ResponseType
  <2>3. PICK n \in Nat : n = applied[s] /\ n >= r.readIndex
    BY <1>3, <1>4, <2>0 DEF CanRead
  <2> DEFINE q == [r EXCEPT !.pc = "answered", !.seen = n, !.resp = a, !.cached = TRUE]
  <2>4. /\ q \in Request /\ q.pc = "answered" /\ q.seen = n /\ q.resp = a /\ q.since = r.since
        /\ q.floor = r.floor /\ q.seq = r.seq /\ q.op = r.op /\ q.server = r.server
    BY DEF Request
  <2>5. call' = [call EXCEPT ![t] = q]
    BY <1>2, <1>4, <2>0, <2>2, <2>3
  <2> HIDE DEF q
  <2>6. call'[t] = q /\ Changes(t)
    BY <1>2, <2>4, <2>5 DEF Changes
  <2> QED
    BY <1>1, <2>0, <2>2, <2>3, <2>4, <2>6 DEF Works
<1>5. CASE ReadFails(t)
  BY <1>1, <1>5, ReadFailsWorks
<1> QED
  BY <1>4, <1>5 DEF FinishRead

\* What executeWithRetry makes of a response.
LEMMA ReceiveFacts ==
  ASSUME TypeOK, NEW t \in Thread, call[t].pc = "answered", Receive(t)
  PROVE  /\ Changes(t)
         /\ \/ call'[t].pc = "idle"
            \/ /\ call'[t].pc = "calling" /\ call[t].resp.kind = "not_leader"
               /\ call'[t].seq = call[t].seq /\ call'[t].op = call[t].op
         /\ call'[t].since = 0 /\ call'[t].cached = FALSE
<1>1. call \in [Thread -> Request] /\ call[t].op \in Operation
  BY DEF TypeOK, ClientTypes, InProgress
<1>2. PICK r \in Request, i \in Request : r = call[t] /\ i = Idle
  BY <1>1, IdleType
<1>3. i.pc = "idle" /\ i.since = 0 /\ i.cached = FALSE
  BY <1>2 DEF Idle
<1>4. CASE Retries(call[t].resp) /\ call[t].attempt < MaxRetries
  <2>1. r.seq \in Nat /\ r.attempt + 1 \in Nat /\ r.op \in Operation
    BY <1>1, <1>2 DEF Request
  <2>2. PICK n \in Nat, a \in Nat, o \in Operation : n = r.seq /\ a = r.attempt + 1 /\ o = r.op
    BY <2>1
  <2> DEFINE q == [i EXCEPT !.pc = "calling", !.seq = n, !.op = o, !.attempt = a]
  <2>3. /\ q \in Request /\ q.pc = "calling" /\ q.seq = n /\ q.op = o /\ q.since = i.since
        /\ q.cached = i.cached
    BY DEF Request
  <2>4. call' = [call EXCEPT ![t] = q]
    BY <1>2, <1>4, <2>2 DEF Receive
  <2> HIDE DEF q
  <2>5. call'[t] = q /\ Changes(t)
    BY <1>1, <2>3, <2>4 DEF Changes
  <2> QED
    BY <1>2, <1>3, <1>4, <2>2, <2>3, <2>5 DEF Retries
<1>5. CASE ~(Retries(call[t].resp) /\ call[t].attempt < MaxRetries)
  <2>1. call' = [call EXCEPT ![t] = i]
    BY <1>2, <1>5 DEF Receive
  <2>2. call'[t] = i /\ Changes(t)
    BY <1>1, <2>1 DEF Changes
  <2> QED
    BY <1>3, <2>2
<1> QED
  BY <1>4, <1>5

\* The response goes to the session and to the client.
LEMMA StepReturn ==
  ASSUME TypeOK, NEW t \in Thread, Return(t)
  PROVE  Returns(t)
<1> DEFINE s == call[t].server
           c == ClientOf(t)
           Session == [lastSequence : Nat, lastResponse : Reply]
<1>1. call[t].pc = "answered" /\ UNCHANGED <<raftVars, sequence>>
  BY DEF Return
<1>2. /\ call[t] \in Request /\ s \in Server /\ c \in Client
      /\ session \in [Server -> [Client -> Session]]
  BY <1>1, ThreadClient DEF TypeOK, ClientTypes, InProgress
<1>3. /\ Changes(t)
      /\ \/ call'[t].pc = "idle"
         \/ /\ call'[t].pc = "calling" /\ call[t].resp.kind = "not_leader"
            /\ call'[t].seq = call[t].seq /\ call'[t].op = call[t].op
      /\ call'[t].since = 0 /\ call'[t].cached = FALSE
  BY <1>1, ReceiveFacts DEF Return
<1>4. /\ session' \in [Server -> [Client -> Session]]
      /\ \A r \in Server, d \in Client :
           \/ session'[r][d] = session[r][d]
           \/ /\ d = c /\ call[t].cached # FALSE
              /\ session'[r][d].lastSequence = call[t].seq
              /\ session'[r][d].lastResponse = call[t].resp
  <2>1. call[t].seq \in Nat /\ call[t].resp \in Reply
    BY <1>2 DEF Request
  <2> DEFINE new == [lastSequence |-> call[t].seq, lastResponse |-> call[t].resp]
  <2>2. new \in Session /\ new.lastSequence = call[t].seq /\ new.lastResponse = call[t].resp
    BY <2>1
  <2>3. session' = session \/ (call[t].cached # FALSE /\ session' = [session EXCEPT ![s][c] = new])
    BY DEF Return, CacheResponse
  <2> HIDE DEF new, Session
  <2>4. CASE session' = session
    BY <1>2, <2>4
  <2>5. CASE call[t].cached # FALSE /\ session' = [session EXCEPT ![s][c] = new]
    BY <1>2, <2>2, <2>5
  <2> QED
    BY <2>3, <2>4, <2>5
<1> QED
  BY <1>1, <1>3, <1>4 DEF Returns

-----------------------------------------------------------------------------
(* The steps of nodes *)

\* What Append makes of a sequence.
LEMMA AppendFacts ==
  ASSUME NEW X, NEW l \in Seq(X), NEW e \in X
  PROVE  /\ Append(l, e) \in Seq(X) /\ Len(Append(l, e)) = Len(l) + 1 /\ Len(l) \in Nat
         /\ \A i \in 1 .. Len(l) : Append(l, e)[i] = l[i]
         /\ Append(l, e)[Len(l) + 1] = e
OBVIOUS

\* The prefix relation of the community modules, element by element.
LEMMA PrefixFacts ==
  ASSUME NEW X, NEW a \in Seq(X), NEW b \in Seq(X), IsPrefix(a, b)
  PROVE  Agree(a, b, Len(a))
<1> DEFINE p == SubSeq(a, 1, Len(a))
           q == SubSeq(b, 1, Len(a))
<1>1. Len(a) \in Nat /\ Len(b) \in Nat /\ Len(a) <= Len(b) /\ p = q
  BY DEF IsPrefix
<1>2. \A i \in 1 .. Len(a) : p[i] = a[i]
  BY <1>1
<1>3. \A i \in 1 .. Len(a) : q[i] = b[i]
  BY <1>1
<1> HIDE DEF p, q
<1> QED
  BY <1>1, <1>2, <1>3 DEF Agree

\* The log of server s grows by entry e.
Grows(s, e) ==
  /\ log' \in [Server -> Seq(Entry)]
  /\ \A r \in Server : r # s => log'[r] = log[r]
  /\ Len(log[s]) \in Nat /\ Len(log'[s]) = Len(log[s]) + 1
  /\ \A i \in 1 .. Len(log[s]) : log'[s][i] = log[s][i]
  /\ log'[s][Len(log[s]) + 1] = e

\* Appending an entry to a log, element by element.
LEMMA GrowsFacts ==
  ASSUME TypeOK, NEW s \in Server, NEW e \in Entry, log' = [log EXCEPT ![s] = Append(log[s], e)]
  PROVE  Grows(s, e)
<1>1. log \in [Server -> Seq(Entry)] /\ log[s] \in Seq(Entry)
  BY DEF TypeOK, NodeTypes
<1>2. PICK l \in Seq(Entry) : l = Append(log[s], e)
  BY <1>1, AppendFacts
<1>3. /\ Len(l) = Len(log[s]) + 1 /\ Len(log[s]) \in Nat
      /\ \A i \in 1 .. Len(log[s]) : l[i] = log[s][i]
      /\ l[Len(log[s]) + 1] = e
  BY <1>1, <1>2, AppendFacts
<1>4. log' = [log EXCEPT ![s] = l]
  BY <1>2
<1>5. /\ log' \in [Server -> Seq(Entry)] /\ log'[s] = l
      /\ \A r \in Server : r # s => log'[r] = log[r]
  BY <1>1, <1>4
<1> QED
  BY <1>3, <1>5 DEF Grows

\* Elect, element by element.
Elects(s) ==
  /\ leaderTerm[s] = 0 /\ Agree(decided, log[s], Len(decided))
  /\ term' = term + 1
  /\ leaderTerm' \in [Server -> Nat] /\ leaderTerm'[s] = term + 1
  /\ \A r \in Server : r # s => leaderTerm'[r] = leaderTerm[r]
  /\ Grows(s, [term |-> term + 1, cmd |-> NoOp])
  /\ elected' \in Seq(Seq(Entry)) /\ Len(elected) \in Nat /\ Len(elected') = Len(elected) + 1
  /\ \A u \in 1 .. Len(elected) : elected'[u] = elected[u]
  /\ elected'[Len(elected) + 1] = log'[s]
  /\ UNCHANGED <<decided, commit, applied, apiVars>>

\* An election.
LEMMA StepElect ==
  ASSUME TypeOK, NEW s \in Server, Elect(s)
  PROVE  Elects(s)
<1> DEFINE e == [term |-> term + 1, cmd |-> NoOp]
<1>1. /\ term \in Nat /\ leaderTerm \in [Server -> Nat] /\ elected \in Seq(Seq(Entry))
      /\ log[s] \in Seq(Entry) /\ decided \in Seq(Entry)
  BY DEF TypeOK, NodeTypes
<1>2. e \in Entry
  BY <1>1 DEF Entry
<1>3. Grows(s, e)
  <2>1. log' = [log EXCEPT ![s] = Append(log[s], e)]
    BY DEF Elect
  <2> HIDE DEF e
  <2> QED
    BY <1>2, <2>1, GrowsFacts
<1>4. log'[s] \in Seq(Entry)
  BY <1>3 DEF Grows
<1>5. PICK l \in Seq(Entry) : l = log'[s]
  BY <1>4
<1>6. elected' = Append(elected, l)
  BY <1>5 DEF Elect
<1>7. /\ elected' \in Seq(Seq(Entry)) /\ Len(elected) \in Nat /\ Len(elected') = Len(elected) + 1
      /\ \A u \in 1 .. Len(elected) : elected'[u] = elected[u]
      /\ elected'[Len(elected) + 1] = l
  BY <1>1, <1>6, AppendFacts
<1>8. Agree(decided, log[s], Len(decided)) /\ leaderTerm[s] = 0
  BY <1>1, PrefixFacts DEF Elect, IsLeader
<1>9. /\ leaderTerm' \in [Server -> Nat] /\ leaderTerm'[s] = term + 1
      /\ \A r \in Server : r # s => leaderTerm'[r] = leaderTerm[r]
      /\ term' = term + 1 /\ UNCHANGED <<decided, commit, applied, apiVars>>
  BY <1>1 DEF Elect
<1> QED
  BY <1>3, <1>5, <1>7, <1>8, <1>9 DEF Elects

\* Replicate, element by element.
Copies(l, s) ==
  /\ leaderTerm[l] = term /\ leaderTerm[l] # 0 /\ leaderTerm[s] = 0
  /\ log' \in [Server -> Seq(Entry)] /\ log'[s] = log[l]
  /\ \A r \in Server : r # s => log'[r] = log[r]
  /\ commit' \in [Server -> Nat] /\ commit'[s] \in {commit[s], commit[l]}
  /\ \A r \in Server : r # s => commit'[r] = commit[r]
  /\ UNCHANGED <<term, leaderTerm, elected, decided, applied, apiVars>>

\* A follower takes over a log and a commit index.
LEMMA StepReplicate ==
  ASSUME TypeOK, NEW l \in Server, NEW s \in Server, Replicate(l, s)
  PROVE  Copies(l, s)
BY DEF TypeOK, NodeTypes, Replicate, Copies, IsLeader

\* Decide, element by element.
Decides(s, k) ==
  /\ leaderTerm[s] # 0 /\ k \in Nat /\ commit[s] < k /\ k <= Len(log[s])
  /\ leaderTerm[s] < term => Agree(log[s], elected[term], k)
  /\ commit' \in [Server -> Nat] /\ commit'[s] = k
  /\ \A r \in Server : r # s => commit'[r] = commit[r]
  /\ decided' \in Seq(Entry)
  /\ k <= Len(decided) => decided' = decided
  /\ k > Len(decided) => Len(decided') = k /\ \A i \in 1 .. k : decided'[i] = log[s][i]
  /\ UNCHANGED <<term, leaderTerm, elected, log, applied, apiVars>>

\* A leader commits; what an older leader commits is in what the newest was elected with.
LEMMA StepDecide ==
  ASSUME TypeOK, LeadersInv, NEW s \in Server, NEW k \in 1 .. Len(log[s]), Decide(s, k)
  PROVE  Decides(s, k)
<1>1. /\ term \in Nat /\ leaderTerm[s] \in Nat /\ elected \in Seq(Seq(Entry))
      /\ log[s] \in Seq(Entry) /\ decided \in Seq(Entry) /\ commit \in [Server -> Nat]
  BY DEF TypeOK, NodeTypes
<1>2. k \in Nat /\ Len(log[s]) \in Nat /\ k <= Len(log[s]) /\ Len(decided) \in Nat /\ commit[s] \in Nat
  BY <1>1
<1>3. PICK p \in Seq(Entry) : /\ p = SubSeq(log[s], 1, k) /\ Len(p) = k
                              /\ \A i \in 1 .. k : p[i] = log[s][i]
  <2>1. PICK l \in Seq(Entry) : l = log[s] /\ Len(l) \in Nat /\ k \in 1 .. Len(l)
    BY <1>1, <1>2
  <2>2. SubSeq(l, 1, k) \in Seq(Entry) /\ Len(SubSeq(l, 1, k)) = k
        /\ \A i \in 1 .. k : SubSeq(l, 1, k)[i] = l[i]
    BY <2>1
  <2> QED
    BY <2>1, <2>2
<1>4. ASSUME leaderTerm[s] < term PROVE Agree(log[s], elected[term], k)
  <2>1. IsPrefix(p, elected[term])
    <3>1. \A u \in leaderTerm[s] + 1 .. term : IsPrefix(p, elected[u])
      BY <1>3 DEF Decide
    <3>2. term \in leaderTerm[s] + 1 .. term
      BY <1>1, <1>4
    <3> QED
      BY <3>1, <3>2
  <2>2. elected[term] \in Seq(Entry)
    BY <1>1, <1>4 DEF LeadersInv
  <2>3. Agree(p, elected[term], Len(p))
    BY <2>1, <2>2, PrefixFacts
  <2> QED
    BY <1>2, <1>3, <2>3 DEF Agree
<1>5. leaderTerm[s] # 0 /\ commit[s] < k /\ UNCHANGED <<term, leaderTerm, elected, log, applied, apiVars>>
  BY <1>1, <1>2 DEF Decide, IsLeader
<1>6. /\ commit' \in [Server -> Nat] /\ commit'[s] = k
      /\ \A r \in Server : r # s => commit'[r] = commit[r]
  BY <1>1, <1>2 DEF Decide
<1>7. decided' = IF k > Len(decided) THEN p ELSE decided
  BY <1>3 DEF Decide
<1>8. /\ decided' \in Seq(Entry)
      /\ k <= Len(decided) => decided' = decided
      /\ k > Len(decided) => Len(decided') = k /\ \A i \in 1 .. k : decided'[i] = log[s][i]
  BY <1>1, <1>2, <1>3, <1>7
<1> QED
  BY <1>2, <1>4, <1>5, <1>6, <1>8 DEF Decides

\* AppendLogEntry on the log of a leader.
LEMMA AppendsGrows ==
  ASSUME TypeOK, NEW t \in Thread, Appends(t)
  PROVE  /\ call[t].server \in Server
         /\ Grows(call[t].server, [term |-> leaderTerm[call[t].server], cmd |-> Command(t)])
<1>1. call[t].server \in Server /\ call[t] \in Request /\ ClientOf(t) \in Client
  BY ThreadClient DEF Appends, TypeOK, InProgress, ClientTypes
<1>2. call[t].seq \in Nat /\ leaderTerm[call[t].server] \in Nat
  BY <1>1 DEF Request, TypeOK, NodeTypes
<1>3. PICK e \in Entry : e = [term |-> leaderTerm[call[t].server], cmd |-> Command(t)]
  BY <1>1, <1>2 DEF Entry, Command
<1>4. log' = [log EXCEPT ![call[t].server] = Append(log[call[t].server], e)]
  BY <1>3 DEF Appends
<1> QED
  BY <1>1, <1>3, <1>4, GrowsFacts

\* StepDown and ApplyCommittedEntries.
Settles ==
  /\ leaderTerm' \in [Server -> Nat]
  /\ \A r \in Server : \/ leaderTerm'[r] = leaderTerm[r]
                       \/ leaderTerm'[r] = 0 /\ leaderTerm[r] < term
  /\ applied' \in [Server -> Nat]
  /\ UNCHANGED <<term, elected, log, decided, commit, apiVars>>

\* A leader steps down, or a server applies what is committed.
LEMMA StepSettles ==
  ASSUME TypeOK, NEW s \in Server, StepDown(s) \/ ApplyCommittedEntries(s)
  PROVE  Settles
<1>0. leaderTerm \in [Server -> Nat] /\ applied \in [Server -> Nat] /\ commit \in [Server -> Nat]
  BY DEF TypeOK, NodeTypes
<1>1. CASE StepDown(s)
  <2>1. /\ leaderTerm' \in [Server -> Nat] /\ leaderTerm'[s] = 0 /\ leaderTerm[s] < term
        /\ \A r \in Server : r # s => leaderTerm'[r] = leaderTerm[r]
    BY <1>0, <1>1 DEF StepDown
  <2>2. UNCHANGED <<term, elected, log, decided, commit, applied, apiVars>>
    BY <1>1 DEF StepDown
  <2> QED
    BY <1>0, <2>1, <2>2 DEF Settles
<1>2. CASE ApplyCommittedEntries(s)
  <2>1. applied' \in [Server -> Nat] /\ leaderTerm' = leaderTerm
    BY <1>0, <1>2 DEF ApplyCommittedEntries
  <2>2. UNCHANGED <<term, elected, log, decided, commit, apiVars>>
    BY <1>2 DEF ApplyCommittedEntries
  <2> QED
    BY <1>0, <2>1, <2>2 DEF Settles
<1> QED
  BY <1>1, <1>2

\* Cleanup: only a session is forgotten.
Forgets ==
  /\ session' \in [Server -> [Client -> [lastSequence : Nat, lastResponse : Reply]]]
  /\ \A s \in Server, c \in Client :
       \/ session'[s][c] = session[s][c]
       \/ session'[s][c].lastSequence = 0 /\ session'[s][c].lastResponse.seq = 0
  /\ UNCHANGED <<raftVars, sequence, call>>

\* A session is forgotten.
LEMMA StepCleanup ==
  ASSUME TypeOK, NEW s \in Server, NEW c \in Client, Cleanup(s, c)
  PROVE  Forgets
<1> DEFINE Session == [lastSequence : Nat, lastResponse : Reply]
<1>1. PICK new \in Session : new = NoSession /\ new.lastSequence = 0 /\ new.lastResponse.seq = 0
  <2>1. PICK p \in Reply : p = NoResponse /\ p.seq = 0
    BY ResponseType DEF NoResponse
  <2> DEFINE e == [lastSequence |-> 0, lastResponse |-> p]
  <2>2. e \in Session /\ e.lastSequence = 0 /\ e.lastResponse = p
    OBVIOUS
  <2>3. e = NoSession
    BY <2>1 DEF NoSession
  <2> HIDE DEF e, Session
  <2> QED
    BY <2>1, <2>2, <2>3
<1>2. session \in [Server -> [Client -> Session]]
  BY DEF TypeOK, ClientTypes
<1>3. session' = [session EXCEPT ![s][c] = new] /\ UNCHANGED <<raftVars, sequence, call>>
  BY <1>1 DEF Cleanup
<1> HIDE DEF Session
<1>4. /\ session' \in [Server -> [Client -> Session]]
      /\ \A r \in Server, d \in Client : session'[r][d] = session[r][d] \/ session'[r][d] = new
  BY <1>2, <1>3
<1> QED
  BY <1>1, <1>3, <1>4 DEF Forgets, Session

\* What each step of the system is.
LEMMA NextSteps ==
  ASSUME TypeOK, LeadersInv, Next
  PROVE  \/ \E s \in Server : Elects(s)
         \/ Settles
         \/ \E l, s \in Server : Copies(l, s)
         \/ \E s \in Server : \E k \in 1 .. Len(log[s]) : Decides(s, k)
         \/ \E t \in Thread : \/ Opens(t) \/ Appends(t) \/ Works(t) \/ Returns(t)
                              \/ \E s \in Server : Sends(t, s)
         \/ Forgets
<1>1. CASE NodeStep
  BY <1>1, StepElect, StepSettles, StepReplicate, StepDecide DEF NodeStep
<1>2. CASE \E t \in Thread : Handle(t)
  <2>1. PICK t \in Thread : Handle(t)
    BY <1>2
  <2>2. Appends(t) \/ Works(t) \/ Returns(t) \/ \E s \in Server : Sends(t, s)
    BY <2>1, StepHandleWrite, StepPollCommit, StepCommitDeadline, StepCheckLeader, StepSaveReadIndex,
       StepFinishRead, StepReturn, StepCheckDuplicate DEF Handle, SelectServer
  <2> QED
    BY <2>2
<1>3. CASE \E t \in Thread, op \in Operation : NewRequest(t, op)
  BY <1>3, StepNewRequest
<1>4. CASE \E s \in Server, c \in Client : Cleanup(s, c)
  BY <1>4, StepCleanup
<1> QED
  BY <1>1, <1>2, <1>3, <1>4 DEF Next

\* Types.
LEMMA TypeInit ==
  ASSUME Init
  PROVE  TypeOK
<1>1. NodeTypes
  BY DEF Init, NodeTypes
<1>2. NoSession \in [lastSequence : Nat, lastResponse : Reply]
  BY ResponseType DEF NoSession, NoResponse
<1>3. ClientTypes
  BY <1>2, IdleType DEF Init, ClientTypes
<1>4. Idle.pc = "idle"
  BY DEF Idle
<1>5. InProgress
  BY <1>4 DEF Init, InProgress
<1> QED
  BY <1>1, <1>3, <1>5 DEF TypeOK

\* A step of a request keeps the types of the clients.
LEMMA TypeOfRequests ==
  ASSUME TypeOK, NEW t \in Thread,
         Opens(t) \/ Appends(t) \/ Works(t) \/ Returns(t) \/ \E s \in Server : Sends(t, s)
  PROVE  ClientTypes' /\ InProgress'
<1>1. Changes(t) /\ call' \in [Thread -> Request]
  BY DEF Opens, Appends, Works, Returns, Sends, Changes
<1>2. ClientTypes'
  BY <1>1 DEF Opens, Appends, Works, Returns, Sends, TypeOK, ClientTypes
<1>3. ASSUME NEW u \in Thread
      PROVE  /\ call'[u].pc # "idle" => call'[u].op \in Operation
             /\ call'[u].pc \notin {"idle", "calling"} => call'[u].server \in Server
             /\ call'[u].pc \in {"appending", "waiting"} => Writes(call'[u].op)
  <2>1. /\ call[u].pc # "idle" => call[u].op \in Operation
        /\ call[u].pc \notin {"idle", "calling"} => call[u].server \in Server
        /\ call[u].pc \in {"appending", "waiting"} => Writes(call[u].op)
    BY DEF TypeOK, InProgress
  <2>2. CASE u # t
    BY <1>1, <2>1, <2>2 DEF Changes
  <2>3. CASE u = t
    BY <2>1, <2>3 DEF Opens, Appends, Works, Returns, Sends
  <2> QED
    BY <2>2, <2>3
<1> QED
  BY <1>2, <1>3 DEF InProgress

\* Every step keeps the types.
LEMMA TypeStep ==
  ASSUME TypeOK, LeadersInv, [Next]_vars
  PROVE  TypeOK'
<1>1. CASE \E s \in Server : Elects(s)
  <2>1. NodeTypes'
    BY <1>1 DEF Elects, Grows, TypeOK, NodeTypes
  <2>2. UNCHANGED <<sequence, session, call>>
    BY <1>1 DEF Elects, apiVars
  <2> QED
    BY <2>1, <2>2 DEF TypeOK, ClientTypes, InProgress
<1>2. CASE Settles
  BY <1>2 DEF Settles, TypeOK, NodeTypes, ClientTypes, InProgress, apiVars
<1>3. CASE \E l, s \in Server : Copies(l, s)
  BY <1>3 DEF Copies, TypeOK, NodeTypes, ClientTypes, InProgress, apiVars
<1>4. CASE \E s \in Server : \E k \in 1 .. Len(log[s]) : Decides(s, k)
  BY <1>4 DEF Decides, TypeOK, NodeTypes, ClientTypes, InProgress, apiVars
<1>5. CASE \E t \in Thread : \/ Opens(t) \/ Appends(t) \/ Works(t) \/ Returns(t)
                             \/ \E s \in Server : Sends(t, s)
  <2>1. PICK t \in Thread : \/ Opens(t) \/ Appends(t) \/ Works(t) \/ Returns(t)
                            \/ \E s \in Server : Sends(t, s)
    BY <1>5
  <2>2. ClientTypes' /\ InProgress'
    BY <2>1, TypeOfRequests
  <2>3. NodeTypes'
    <3>1. CASE Appends(t)
      <4>1. log' \in [Server -> Seq(Entry)]
        BY <3>1, AppendsGrows DEF Grows
      <4> QED
        BY <3>1, <4>1 DEF Appends, TypeOK, NodeTypes
    <3>2. CASE raftVars' = raftVars
      BY <3>2 DEF TypeOK, NodeTypes, raftVars
    <3> QED
      BY <2>1, <3>1, <3>2 DEF Opens, Works, Returns, Sends
  <2> QED
    BY <2>2, <2>3 DEF TypeOK
<1>6. CASE Forgets
  BY <1>6 DEF Forgets, TypeOK, NodeTypes, ClientTypes, InProgress, raftVars
<1>7. CASE UNCHANGED vars
  BY <1>7 DEF TypeOK, NodeTypes, ClientTypes, InProgress, vars, raftVars, apiVars
<1> QED
  BY <1>1, <1>2, <1>3, <1>4, <1>5, <1>6, <1>7, NextSteps

-----------------------------------------------------------------------------
(* Writes *)

\* The command of a client is not the no-op of a leader.
LEMMA CommandIsNoNoOp ==
  ASSUME NEW c, NEW n
  PROVE  <<c, n>> # NoOp
<1>1. Len(<<c, n>>) = 2 /\ Len(NoOp) = 1
  BY DEF NoOp
<1> QED
  BY <1>1

\* Every log is one there was, or one there was with a no-op after it.
LogsKept ==
  \A s \in Server :
    \/ \E r \in Server : log'[s] = log[r]
    \/ /\ Len(log[s]) \in Nat /\ Len(log'[s]) = Len(log[s]) + 1
       /\ \A i \in 1 .. Len(log[s]) : log'[s][i] = log[s][i]
       /\ log'[s][Len(log[s]) + 1].cmd = NoOp

\* Commands are where they were if logs are kept.
LEMMA KeptCommands ==
  ASSUME TypeOK, WriteInv, LogsKept
  PROVE  /\ \A s \in Server : \A i \in 1 .. Len(log'[s]) :
              log'[s][i].cmd # NoOp =>
                \E r \in Server : \E j \in 1 .. Len(log[r]) : log'[s][i].cmd = log[r][j].cmd
         /\ CommandsOnce'
<1>1. ASSUME NEW s \in Server, NEW i \in 1 .. Len(log'[s]), log'[s][i].cmd # NoOp
      PROVE  \E r \in Server : \E j \in 1 .. Len(log[r]) : log'[s][i].cmd = log[r][j].cmd
  <2>1. CASE \E r \in Server : log'[s] = log[r]
    BY <1>1, <2>1
  <2>2. CASE /\ Len(log[s]) \in Nat /\ Len(log'[s]) = Len(log[s]) + 1
             /\ \A k \in 1 .. Len(log[s]) : log'[s][k] = log[s][k]
             /\ log'[s][Len(log[s]) + 1].cmd = NoOp
    <3>1. i \in 1 .. Len(log[s]) \/ i = Len(log[s]) + 1
      BY <2>2
    <3>2. i \in 1 .. Len(log[s])
      BY <1>1, <2>2, <3>1
    <3>3. log'[s][i] = log[s][i]
      BY <2>2, <3>2
    <3> QED
      BY <3>2, <3>3
  <2> QED
    BY <2>1, <2>2 DEF LogsKept
<1>2. ASSUME NEW s \in Server, NEW i \in 1 .. Len(log'[s]), NEW j \in 1 .. Len(log'[s]),
             log'[s][i].cmd = log'[s][j].cmd, log'[s][i].cmd # NoOp
      PROVE  i = j
  <2>1. CASE \E r \in Server : log'[s] = log[r]
    BY <1>2, <2>1 DEF WriteInv, CommandsOnce
  <2>2. CASE /\ Len(log[s]) \in Nat /\ Len(log'[s]) = Len(log[s]) + 1
             /\ \A k \in 1 .. Len(log[s]) : log'[s][k] = log[s][k]
             /\ log'[s][Len(log[s]) + 1].cmd = NoOp
    <3>1. /\ i \in 1 .. Len(log[s]) \/ i = Len(log[s]) + 1
          /\ j \in 1 .. Len(log[s]) \/ j = Len(log[s]) + 1
      BY <2>2
    <3>2. i \in 1 .. Len(log[s]) /\ j \in 1 .. Len(log[s])
      BY <1>2, <2>2, <3>1
    <3>3. log'[s][i] = log[s][i] /\ log'[s][j] = log[s][j]
      BY <2>2, <3>2
    <3> QED
      BY <1>2, <3>2, <3>3 DEF WriteInv, CommandsOnce
  <2> QED
    BY <2>1, <2>2 DEF LogsKept
<1> QED
  BY <1>1, <1>2 DEF CommandsOnce

\* A step of the nodes, or of cleanup.
LEMMA WriteNodes ==
  ASSUME TypeOK, WriteInv, LogsKept, UNCHANGED <<call, sequence>>
  PROVE  WriteInv'
<1>1. NumbersDiffer'
  BY DEF WriteInv, NumbersDiffer
<1>2. CommandsUsed'
  <2> SUFFICES ASSUME NEW s \in Server, NEW i \in 1 .. Len(log'[s]), NEW c \in Client, NEW n \in Nat,
                      log'[s][i].cmd = <<c, n>>
               PROVE  n <= sequence[c]
    BY DEF CommandsUsed
  <2>0. log'[s][i].cmd # NoOp
    BY CommandIsNoNoOp
  <2>1. PICK r \in Server : \E j \in 1 .. Len(log[r]) : log'[s][i].cmd = log[r][j].cmd
    BY <2>0, KeptCommands
  <2> QED
    BY <2>1 DEF WriteInv, CommandsUsed
<1>3. NotAppendedIsNowhere'
  <2> SUFFICES ASSUME NEW t \in Thread, NotAppended(t), NEW s \in Server, NEW i \in 1 .. Len(log'[s]),
                      log'[s][i].cmd = Command(t)
               PROVE  FALSE
    BY DEF NotAppendedIsNowhere, NotAppended, Command
  <2>0. log'[s][i].cmd # NoOp
    BY CommandIsNoNoOp DEF Command
  <2>1. PICK r \in Server : \E j \in 1 .. Len(log[r]) : log'[s][i].cmd = log[r][j].cmd
    BY <2>0, KeptCommands
  <2> QED
    BY <2>1 DEF WriteInv, NotAppendedIsNowhere
<1> QED
  BY <1>1, <1>2, <1>3, KeptCommands DEF WriteInv

\* The sequence numbers of clients only grow.
LEMMA SequenceGrows ==
  ASSUME TypeOK, NEW t \in Thread,
         Opens(t) \/ Appends(t) \/ Works(t) \/ Returns(t) \/ \E s \in Server : Sends(t, s)
  PROVE  \A d \in Client : sequence[d] \in Nat /\ sequence'[d] \in Nat /\ sequence[d] <= sequence'[d]
<1> DEFINE c == ClientOf(t)
<1>1. c \in Client /\ sequence \in [Client -> Nat]
  BY ThreadClient DEF TypeOK, ClientTypes
<1>2. CASE Opens(t)
  <2>1. /\ sequence' \in [Client -> Nat] /\ sequence'[c] = sequence[c] + 1
        /\ \A d \in Client : d # c => sequence'[d] = sequence[d]
    BY <1>2 DEF Opens
  <2> QED
    BY <1>1, <2>1
<1>3. CASE sequence' = sequence
  BY <1>1, <1>3
<1> QED
  BY <1>2, <1>3 DEF Appends, Works, Returns, Sends

\* A request is made, sent, answered or ended.
LEMMA WriteRequests ==
  ASSUME TypeOK, WriteInv, NEW t \in Thread,
         Opens(t) \/ Works(t) \/ Returns(t) \/ \E s \in Server : Sends(t, s)
  PROVE  WriteInv'
<1>0. /\ Changes(t) /\ log' = log
      /\ sequence \in [Client -> Nat] /\ \A u \in Thread : ClientOf(u) \in Client /\ call[u] \in Request
  BY ThreadClient DEF Opens, Works, Returns, Sends, raftVars, TypeOK, ClientTypes
<1>s. \A u \in Thread : call[u].seq \in Nat
  BY <1>0 DEF Request
<1>1. \A c \in Client : sequence[c] \in Nat /\ sequence'[c] \in Nat /\ sequence[c] <= sequence'[c]
  BY SequenceGrows
<1>2. CASE Opens(t)
  <2>1. NumbersDiffer'
    BY <1>0, <1>s, <1>1, <1>2 DEF Opens, Changes, WriteInv, NumbersDiffer
  <2>2. CommandsUsed'
    BY <1>0, <1>1 DEF WriteInv, CommandsUsed
  <2>3. ASSUME NEW u \in Thread, NotAppended(u)', NEW s \in Server, NEW i \in 1 .. Len(log[s]),
               log[s][i].cmd = <<ClientOf(u), call'[u].seq>>
        PROVE  FALSE
    <3>1. CASE u # t
      BY <1>0, <2>3, <3>1 DEF Changes, WriteInv, NotAppendedIsNowhere, NotAppended, Command
    <3>2. CASE u = t
      <4>1. call'[u].seq = sequence[ClientOf(u)] + 1
        BY <1>2, <3>2 DEF Opens
      <4>2. PICK n \in Nat, c \in Client : n = sequence[c] + 1 /\ c = ClientOf(u)
        BY <1>0, <1>1
      <4>3. log[s][i].cmd = <<c, n>>
        BY <2>3, <4>1, <4>2
      <4>4. n <= sequence[c]
        BY <4>3 DEF WriteInv, CommandsUsed
      <4> QED
        BY <1>1, <4>2, <4>4
    <3> QED
      BY <3>1, <3>2
  <2>4. NotAppendedIsNowhere'
    BY <1>0, <2>3 DEF NotAppendedIsNowhere, Command
  <2>5. CommandsOnce'
    BY <1>0 DEF WriteInv, CommandsOnce
  <2> QED
    BY <2>1, <2>2, <2>4, <2>5 DEF WriteInv
<1>3. CASE ~Opens(t)
  <2>1. /\ sequence' = sequence /\ call[t].pc # "idle"
        /\ \/ call'[t].pc = "idle"
           \/ call'[t].seq = call[t].seq
    BY <1>3 DEF Works, Returns, Sends
  <2>2. \A u \in Thread : call'[u].pc # "idle" => call[u].pc # "idle" /\ call'[u].seq = call[u].seq
    BY <1>0, <2>1 DEF Changes
  <2>3. \A u \in Thread : NotAppended(u)' => NotAppended(u)
    <3> SUFFICES ASSUME NEW u \in Thread, NotAppended(u)' PROVE NotAppended(u)
      OBVIOUS
    <3>1. CASE u # t
      BY <1>0, <3>1 DEF Changes, NotAppended
    <3>2. CASE u = t
      BY <1>3, <3>2 DEF NotAppended, Works, Returns, Sends
    <3> QED
      BY <3>1, <3>2
  <2>4. NumbersDiffer'
    BY <2>1, <2>2 DEF WriteInv, NumbersDiffer
  <2>5. NotAppendedIsNowhere'
    <3>1. \A u \in Thread : NotAppended(u)' => call'[u].pc # "idle"
      BY DEF NotAppended
    <3>2. \A u \in Thread : NotAppended(u)' => Command(u)' = Command(u)
      BY <2>2, <3>1 DEF Command
    <3> QED
      BY <1>0, <2>3, <3>2 DEF WriteInv, NotAppendedIsNowhere
  <2> QED
    BY <1>0, <2>1, <2>4, <2>5 DEF WriteInv, CommandsUsed, CommandsOnce
<1> QED
  BY <1>2, <1>3

\* A write is appended.
LEMMA WriteAppends ==
  ASSUME TypeOK, WriteInv, NEW t \in Thread, Appends(t)
  PROVE  WriteInv'
<1> DEFINE s == call[t].server
           last == Len(log[s]) + 1
<1>0. /\ Changes(t) /\ sequence' = sequence /\ call[t].pc = "appending" /\ call'[t].pc = "waiting"
      /\ call'[t].seq = call[t].seq
  BY DEF Appends
<1>1. s \in Server /\ Grows(s, [term |-> leaderTerm[s], cmd |-> Command(t)])
  BY AppendsGrows
<1>2. /\ Len(log[s]) \in Nat /\ Len(log'[s]) = last
      /\ \A i \in 1 .. Len(log[s]) : log'[s][i] = log[s][i]
      /\ log'[s][last].cmd = Command(t)
      /\ \A r \in Server : r # s => log'[r] = log[r]
  BY <1>1 DEF Grows
<1> HIDE DEF s
<1>3. \A r \in Server : \A i \in 1 .. Len(log'[r]) :
        (r = s /\ i = last) \/ (i \in 1 .. Len(log[r]) /\ log'[r][i] = log[r][i])
  <2> SUFFICES ASSUME NEW r \in Server, NEW i \in 1 .. Len(log'[r]), ~(r = s /\ i = last)
               PROVE  i \in 1 .. Len(log[r]) /\ log'[r][i] = log[r][i]
    OBVIOUS
  <2>1. CASE r # s
    BY <1>2, <2>1
  <2>2. CASE r = s
    <3>1. i \in 1 .. last /\ i # last
      BY <1>2, <2>2
    <3>2. i \in 1 .. Len(log[s])
      BY <1>2, <3>1
    <3> QED
      BY <1>2, <2>2, <3>2
  <2> QED
    BY <2>1, <2>2
<1> HIDE DEF last
<1>4. NumbersDiffer'
  BY <1>0 DEF Changes, WriteInv, NumbersDiffer
<1>5. /\ ClientOf(t) \in Client /\ call[t].seq \in Nat /\ call[t].seq <= sequence[ClientOf(t)]
  <2>1. call[t] \in Request
    BY DEF TypeOK, ClientTypes
  <2> QED
    BY <1>0, <2>1, ThreadClient DEF Request, WriteInv, NumbersDiffer
<1>6. CommandsUsed'
  <2> SUFFICES ASSUME NEW r \in Server, NEW i \in 1 .. Len(log'[r]), NEW c \in Client, NEW n \in Nat,
                      log'[r][i].cmd = <<c, n>>
               PROVE  n <= sequence[c]
    BY <1>0 DEF CommandsUsed
  <2>1. CASE r = s /\ i = last
    <3>1. <<c, n>> = <<ClientOf(t), call[t].seq>>
      BY <1>2, <2>1 DEF Command
    <3>2. c = ClientOf(t) /\ n = call[t].seq
      BY <3>1
    <3> QED
      BY <1>5, <3>2
  <2>2. CASE i \in 1 .. Len(log[r]) /\ log'[r][i] = log[r][i]
    BY <2>2 DEF WriteInv, CommandsUsed
  <2> QED
    BY <1>3, <2>1, <2>2
<1>7. \A r \in Server : \A i \in 1 .. Len(log[r]) : log[r][i].cmd # Command(t)
  BY <1>0 DEF WriteInv, NotAppendedIsNowhere, NotAppended
<1>8. NotAppendedIsNowhere'
  <2> SUFFICES ASSUME NEW u \in Thread, NotAppended(u)', NEW r \in Server, NEW i \in 1 .. Len(log'[r]),
                      log'[r][i].cmd = Command(u)'
               PROVE  FALSE
    BY DEF NotAppendedIsNowhere
  <2>1. u # t /\ call'[u] = call[u]
    BY <1>0 DEF Changes, NotAppended
  <2>2. NotAppended(u) /\ Command(u)' = Command(u) /\ call[u].pc # "idle"
    BY <2>1 DEF NotAppended, Command
  <2>3. CASE r = s /\ i = last
    <3>1. <<ClientOf(u), call[u].seq>> = <<ClientOf(t), call[t].seq>>
      BY <1>2, <2>2, <2>3 DEF Command
    <3>2. ClientOf(u) = ClientOf(t) /\ call[u].seq = call[t].seq
      BY <3>1
    <3> QED
      BY <1>0, <2>1, <2>2, <3>2 DEF WriteInv, NumbersDiffer
  <2>4. CASE i \in 1 .. Len(log[r]) /\ log'[r][i] = log[r][i]
    BY <2>2, <2>4 DEF WriteInv, NotAppendedIsNowhere
  <2> QED
    BY <1>3, <2>3, <2>4
<1>9. CommandsOnce'
  <2> SUFFICES ASSUME NEW r \in Server, NEW i \in 1 .. Len(log'[r]), NEW j \in 1 .. Len(log'[r]),
                      log'[r][i].cmd = log'[r][j].cmd, log'[r][i].cmd # NoOp
               PROVE  i = j
    BY DEF CommandsOnce
  <2>1. (r = s /\ i = last) \/ (i \in 1 .. Len(log[r]) /\ log'[r][i] = log[r][i])
    BY <1>3
  <2>2. (r = s /\ j = last) \/ (j \in 1 .. Len(log[r]) /\ log'[r][j] = log[r][j])
    BY <1>3
  <2> QED
    BY <1>2, <1>7, <2>1, <2>2 DEF WriteInv, CommandsOnce
<1> QED
  BY <1>4, <1>6, <1>8, <1>9 DEF WriteInv

-----------------------------------------------------------------------------
(* Nodes *)

\* Leaders after an election.
LEMMA LeadersElect ==
  ASSUME TypeOK, LeadersInv, NEW s \in Server, Elects(s)
  PROVE  LeadersInv'
<1>1. term \in Nat /\ leaderTerm \in [Server -> Nat] /\ term' = term + 1
  BY DEF TypeOK, NodeTypes, Elects
<1>2. Len(elected') = term'
  BY <1>1 DEF Elects, LeadersInv
<1>3. \A r \in Server : leaderTerm'[r] <= term'
  BY <1>1 DEF Elects, LeadersInv
<1>4. \A q, r \in Server : leaderTerm'[q] # 0 /\ leaderTerm'[q] = leaderTerm'[r] => q = r
  <2> SUFFICES ASSUME NEW q \in Server, NEW r \in Server, leaderTerm'[q] # 0, leaderTerm'[q] = leaderTerm'[r]
               PROVE  q = r
    OBVIOUS
  <2>1. /\ q = s => leaderTerm'[q] = term + 1
        /\ q # s => leaderTerm'[q] = leaderTerm[q]
        /\ r = s => leaderTerm'[r] = term + 1
        /\ r # s => leaderTerm'[r] = leaderTerm[r]
    BY DEF Elects
  <2>2. leaderTerm[q] \in Nat /\ leaderTerm[q] <= term /\ leaderTerm[r] \in Nat /\ leaderTerm[r] <= term
    BY <1>1 DEF LeadersInv
  <2> QED
    BY <1>1, <2>1, <2>2 DEF LeadersInv, IsLeader
<1>5. leaderTerm'[s] = term'
  BY <1>1 DEF Elects
<1> QED
  BY <1>2, <1>3, <1>4, <1>5 DEF LeadersInv, IsLeader

\* A new leader is elected with all that is decided.
LEMMA NodeElects ==
  ASSUME TypeOK, NodeInv, NEW s \in Server, Elects(s)
  PROVE  NodeInv'
<1>0. /\ term \in Nat /\ leaderTerm \in [Server -> Nat] /\ log \in [Server -> Seq(Entry)]
      /\ decided \in Seq(Entry) /\ Len(decided) \in Nat /\ commit \in [Server -> Nat]
      /\ Len(elected) = term /\ elected \in Seq(Seq(Entry))
  BY DEF TypeOK, NodeTypes, NodeInv, LeadersInv
<1>1. LeadersInv'
  BY LeadersElect DEF NodeInv
<1>2. /\ term' = term + 1 /\ leaderTerm'[s] = term + 1 /\ leaderTerm[s] = 0
      /\ \A r \in Server : r # s => leaderTerm'[r] = leaderTerm[r] /\ log'[r] = log[r]
      /\ Len(log[s]) \in Nat /\ Len(log'[s]) = Len(log[s]) + 1
      /\ \A i \in 1 .. Len(log[s]) : log'[s][i] = log[s][i]
      /\ log'[s][Len(log[s]) + 1].term = term + 1
      /\ \A u \in 1 .. term : elected'[u] = elected[u]
      /\ elected'[term + 1] = log'[s]
      /\ Agree(decided, log[s], Len(decided))
      /\ UNCHANGED <<decided, commit>>
  BY <1>0 DEF Elects, Grows
<1>3. \A r \in Server : r # s /\ leaderTerm[r] # 0 =>
        /\ leaderTerm[r] \in 1 .. term /\ elected'[leaderTerm[r]] = elected[leaderTerm[r]]
        /\ leaderTerm[r] # term'
  BY SMTT(30), <1>0, <1>2 DEF NodeInv, LeadersInv
<1>4. ElectedKept'
  <2> SUFFICES ASSUME NEW r \in Server, leaderTerm'[r] # 0
               PROVE  Agree(elected'[leaderTerm'[r]], log'[r], Len(elected'[leaderTerm'[r]]))
    BY DEF ElectedKept, IsLeader
  <2>1. CASE r = s
    <3>1. elected'[leaderTerm'[r]] = log'[r] /\ Len(log'[r]) \in Nat
      BY <1>2, <2>1
    <3> QED
      BY <3>1 DEF Agree
  <2>2. CASE r # s
    BY <1>2, <1>3, <2>2 DEF NodeInv, ElectedKept, IsLeader
  <2> QED
    BY <2>1, <2>2
<1>5. ASSUME NEW r \in Server, NEW i \in 1 .. Len(log'[r]) PROVE log'[r][i].term <= term'
  <2>1. CASE i \in 1 .. Len(log[r]) /\ log'[r][i] = log[r][i]
    <3>1. log[r][i].term \in Nat /\ log[r][i].term <= term
      <4>1. log[r] \in Seq(Entry)
        BY <1>0
      <4>2. log[r][i] \in Entry
        BY <2>1, <4>1
      <4> QED
        BY <2>1, <4>2 DEF NodeInv, ElectedTerms, Entry
    <3> QED
      BY <1>0, <1>2, <2>1, <3>1
  <2>2. CASE r = s /\ i = Len(log[s]) + 1
    BY <1>0, <1>2, <2>2
  <2> QED
    BY <1>2, <2>1, <2>2
<1>6. ASSUME NEW u \in 1 .. term', NEW i \in 1 .. Len(elected'[u]), i < Len(elected'[u])
      PROVE  elected'[u][i].term < u
  <2>1. CASE u \in 1 .. term
    BY <1>2, <1>6, <2>1 DEF NodeInv, ElectedTerms
  <2>2. CASE u = term + 1
    <3>1. i \in 1 .. Len(log[s]) /\ elected'[u][i] = log[s][i]
      BY <1>2, <1>6, <2>2
    <3>2. log[s][i] \in Entry
      BY <1>0, <3>1
    <3>3. log[s][i].term \in Nat /\ log[s][i].term <= term
      BY <3>1, <3>2 DEF NodeInv, ElectedTerms, Entry
    <3> QED
      BY <1>0, <2>2, <3>1, <3>3
  <2> QED
    BY <1>0, <1>2, <2>1, <2>2
<1>7. DecidedInv'
  <2>1. ASSUME NEW r \in Server PROVE Agree(log'[r], decided', commit'[r])
    <3>1. Agree(log[r], decided, commit[r]) /\ commit[r] \in Nat
      BY <1>0 DEF NodeInv, DecidedInv
    <3>2. CASE r # s
      BY <1>2, <3>1, <3>2
    <3>3. CASE r = s
      BY <1>2, <3>1, <3>3 DEF Agree
    <3> QED
      BY <3>2, <3>3
  <2>2. ASSUME NEW r \in Server, leaderTerm'[r] # 0, leaderTerm'[r] = term'
        PROVE  Agree(decided', log'[r], Len(decided'))
    <3>1. r = s
      BY <1>2, <1>3, <2>2
    <3> QED
      BY <1>0, <1>2, <3>1 DEF Agree
  <2> QED
    BY <2>1, <2>2 DEF DecidedInv, IsLeader
<1>8. NewestKnows'
  <2> SUFFICES ASSUME NEW r \in Server, leaderTerm'[r] # 0, leaderTerm'[r] = term'
               PROVE  Len(decided') <= Len(elected'[term'])
    BY DEF NewestKnows, IsLeader
  <2> QED
    BY <1>0, <1>2 DEF Agree
<1> QED
  BY <1>1, <1>4, <1>5, <1>6, <1>7, <1>8 DEF NodeInv, ElectedTerms

\* A server steps down or applies entries.
LEMMA NodeSettles ==
  ASSUME TypeOK, NodeInv, Settles
  PROVE  NodeInv'
<1>0. term \in Nat /\ leaderTerm \in [Server -> Nat]
  BY DEF TypeOK, NodeTypes
<1>1. \A r \in Server : leaderTerm'[r] # 0 => leaderTerm'[r] = leaderTerm[r]
  BY DEF Settles
<1>2. UNCHANGED <<term, elected, log, decided, commit>>
  BY DEF Settles
<1>3. LeadersInv'
  <2>1. \A r \in Server : leaderTerm'[r] <= term
    BY <1>0, <1>1 DEF Settles, NodeInv, LeadersInv
  <2>2. \A q, r \in Server : leaderTerm'[q] # 0 /\ leaderTerm'[q] = leaderTerm'[r] => q = r
    BY <1>1 DEF NodeInv, LeadersInv, IsLeader
  <2>3. term # 0 => \E r \in Server : leaderTerm'[r] = term
    <3> SUFFICES ASSUME term # 0 PROVE \E r \in Server : leaderTerm'[r] = term
      OBVIOUS
    <3>1. PICK r \in Server : leaderTerm[r] = term
      BY DEF NodeInv, LeadersInv
    <3>2. leaderTerm'[r] = leaderTerm[r]
      BY <1>0, <3>1 DEF Settles
    <3> QED
      BY <3>1, <3>2
  <2> QED
    BY <1>2, <2>1, <2>2, <2>3 DEF NodeInv, LeadersInv, IsLeader
<1>4. ElectedKept'
  BY <1>1, <1>2 DEF NodeInv, ElectedKept, IsLeader
<1>5. ElectedTerms'
  BY <1>2 DEF NodeInv, ElectedTerms
<1>6. DecidedInv'
  BY <1>1, <1>2 DEF NodeInv, DecidedInv, IsLeader
<1>7. NewestKnows'
  BY <1>1, <1>2 DEF NodeInv, NewestKnows, IsLeader
<1> QED
  BY <1>3, <1>4, <1>5, <1>6, <1>7 DEF NodeInv

\* A follower takes over the log of the newest leader.
LEMMA NodeCopies ==
  ASSUME TypeOK, NodeInv, NEW l \in Server, NEW s \in Server, Copies(l, s)
  PROVE  NodeInv'
<1>0. /\ decided \in Seq(Entry) /\ Len(decided) \in Nat /\ commit \in [Server -> Nat]
      /\ log \in [Server -> Seq(Entry)]
  BY DEF TypeOK, NodeTypes
<1>1. /\ leaderTerm[l] = term /\ leaderTerm[l] # 0 /\ leaderTerm[s] = 0 /\ log'[s] = log[l]
      /\ \A r \in Server : r # s => log'[r] = log[r] /\ commit'[r] = commit[r]
      /\ commit'[s] \in {commit[s], commit[l]}
      /\ UNCHANGED <<term, leaderTerm, elected, decided>>
  BY DEF Copies
<1>2. LeadersInv'
  BY <1>1 DEF NodeInv, LeadersInv, IsLeader
<1>3. ElectedKept'
  BY <1>1 DEF NodeInv, ElectedKept, IsLeader
<1>4. ElectedTerms'
  BY <1>1 DEF NodeInv, ElectedTerms
<1>5. ASSUME NEW r \in Server PROVE Agree(log'[r], decided', commit'[r])
  <2>1. CASE r # s
    BY <1>1, <2>1 DEF NodeInv, DecidedInv
  <2>2. CASE r = s
    <3>1. Agree(decided, log[l], Len(decided))
      BY <1>1 DEF NodeInv, DecidedInv, IsLeader
    <3>2. commit[s] <= Len(decided) /\ commit[l] <= Len(decided) /\ commit[s] \in Nat /\ commit[l] \in Nat
      BY <1>0 DEF NodeInv, DecidedInv, Agree
    <3>3. commit'[s] \in Nat /\ commit'[s] <= Len(decided)
      BY <1>1, <3>2
    <3>4. Len(log[l]) \in Nat
      BY <1>0
    <3> QED
      BY <1>0, <1>1, <2>2, <3>1, <3>3, <3>4 DEF Agree
  <2> QED
    BY <2>1, <2>2
<1>6. ASSUME NEW r \in Server, leaderTerm'[r] # 0, leaderTerm'[r] = term'
      PROVE  /\ Agree(decided', log'[r], Len(decided'))
             /\ Len(decided') <= Len(elected'[term']) \/ Len(decided') <= commit'[r]
  <2>1. r # s /\ leaderTerm[r] # 0 /\ leaderTerm[r] = term
    BY <1>1, <1>6
  <2> QED
    BY <1>1, <2>1 DEF NodeInv, DecidedInv, NewestKnows, IsLeader
<1> QED
  BY <1>2, <1>3, <1>4, <1>5, <1>6 DEF NodeInv, DecidedInv, NewestKnows, IsLeader

\* What a leader decides is in the log of the newest leader, as is all that was decided.
LEMMA NodeDecides ==
  ASSUME TypeOK, NodeInv, NEW s \in Server, NEW k, Decides(s, k)
  PROVE  NodeInv'
<1>0. /\ decided \in Seq(Entry) /\ Len(decided) \in Nat /\ commit \in [Server -> Nat]
      /\ term \in Nat /\ leaderTerm \in [Server -> Nat] /\ elected \in Seq(Seq(Entry)) /\ Len(elected) = term
      /\ \A r \in Server : log[r] \in Seq(Entry) /\ Len(log[r]) \in Nat
  BY DEF TypeOK, NodeTypes, NodeInv, LeadersInv
<1>1. /\ leaderTerm[s] # 0 /\ leaderTerm[s] <= term /\ term # 0
      /\ k \in Nat /\ commit[s] < k /\ k <= Len(log[s])
      /\ UNCHANGED <<term, leaderTerm, elected, log>>
      /\ commit'[s] = k /\ \A r \in Server : r # s => commit'[r] = commit[r]
      /\ decided' \in Seq(Entry) /\ Len(decided') \in Nat
  BY <1>0 DEF Decides, NodeInv, LeadersInv
<1>2. PICK l \in Server : leaderTerm[l] = term
  BY <1>1 DEF NodeInv, LeadersInv
<1>3. /\ Len(decided) <= Len(log[l]) /\ \A i \in 1 .. Len(decided) : decided[i] = log[l][i]
  BY <1>1, <1>2 DEF NodeInv, DecidedInv, IsLeader, Agree
<1>4. \A r \in Server : leaderTerm[r] = term => r = l
  BY <1>1, <1>2 DEF NodeInv, LeadersInv, IsLeader
<1>5. ASSUME s # l
      PROVE  k <= Len(elected[term]) /\ k <= Len(log[l]) /\ \A i \in 1 .. k : log[s][i] = log[l][i]
  <2>1. leaderTerm[s] < term
    BY <1>0, <1>1, <1>4, <1>5
  <2>2. Agree(log[s], elected[term], k)
    BY <2>1 DEF Decides
  <2>3. Agree(elected[term], log[l], Len(elected[term]))
    BY <1>1, <1>2 DEF NodeInv, ElectedKept, IsLeader
  <2>4. Len(elected[term]) \in Nat
    BY <1>0, <1>1
  <2> QED
    <3>1. k <= Len(elected[term]) /\ \A i \in 1 .. k : log[s][i] = elected[term][i]
      BY <2>2 DEF Agree
    <3>2. /\ Len(elected[term]) <= Len(log[l])
          /\ \A i \in 1 .. Len(elected[term]) : elected[term][i] = log[l][i]
      BY <2>3 DEF Agree
    <3>3. PICK n \in Nat : n = Len(elected[term])
      BY <2>4
    <3>4. k \in Nat /\ Len(log[l]) \in Nat
      BY <1>0, <1>1
    <3> QED
      BY <3>1, <3>2, <3>3, <3>4
<1>6. k <= Len(log[l]) /\ \A i \in 1 .. k : log[s][i] = log[l][i]
  BY <1>1, <1>5
<1>7. /\ Len(decided') <= Len(log[l]) /\ Len(decided) <= Len(decided') /\ k <= Len(decided')
      /\ \A i \in 1 .. Len(decided') : decided'[i] = log[l][i]
  <2>1. CASE k <= Len(decided)
    BY <1>0, <1>1, <1>3, <2>1 DEF Decides
  <2>2. CASE k > Len(decided)
    <3>1. Len(decided') = k /\ \A i \in 1 .. k : decided'[i] = log[s][i]
      BY <2>2 DEF Decides
    <3>2. Len(decided) \in Nat /\ k \in Nat
      BY <1>0, <1>1
    <3>3. Len(decided) <= k /\ k <= k
      BY <2>2, <3>2
    <3> QED
      BY <1>6, <3>1, <3>3
  <2> QED
    BY <1>0, <1>1, <2>1, <2>2
<1>8. ASSUME NEW r \in Server PROVE Agree(log[r], decided', commit'[r])
  <2>1. CASE r = s
    <3>1. \A i \in 1 .. k : i \in 1 .. Len(decided')
      <4>1. k \in Nat /\ Len(decided') \in Nat /\ k <= Len(decided')
        BY <1>1, <1>7
      <4> QED
        BY <4>1
    <3>2. \A i \in 1 .. k : log[s][i] = decided'[i]
      BY <1>6, <1>7, <3>1
    <3>3. k <= Len(log[s]) /\ k <= Len(decided') /\ commit'[s] = k
      BY <1>1, <1>7
    <3> QED
      BY <2>1, <3>2, <3>3 DEF Agree
  <2>2. CASE r # s
    <3>1. Agree(log[r], decided, commit[r]) /\ commit[r] \in Nat /\ commit'[r] = commit[r]
      BY <1>0, <1>1, <2>2 DEF NodeInv, DecidedInv
    <3>2. PICK c \in Nat : c = commit[r] /\ c = commit'[r]
      BY <3>1
    <3>3. /\ c <= Len(log[r]) /\ c <= Len(decided) /\ c <= Len(decided')
          /\ \A i \in 1 .. c : log[r][i] = decided[i]
      <4>1. /\ c <= Len(log[r]) /\ c <= Len(decided)
            /\ \A i \in 1 .. c : log[r][i] = decided[i]
        BY <3>1, <3>2 DEF Agree
      <4>2. Len(decided) \in Nat /\ Len(decided') \in Nat /\ Len(decided) <= Len(decided')
        BY <1>0, <1>1, <1>7
      <4>3. c <= Len(decided')
        BY <4>1, <4>2
      <4> QED
        BY <4>1, <4>3
    <3>4. \A i \in 1 .. c : i \in 1 .. Len(decided) /\ i \in 1 .. Len(decided')
      <4>1. Len(decided) \in Nat /\ Len(decided') \in Nat
        BY <1>0, <1>1
      <4> QED
        BY <3>3, <4>1
    <3>5. ASSUME NEW i \in 1 .. c PROVE log[r][i] = decided'[i]
      <4>1. log[r][i] = decided[i]
        BY <3>3
      <4>2. decided[i] = log[l][i]
        BY <1>3, <3>4
      <4>3. decided'[i] = log[l][i]
        BY <1>7, <3>4
      <4> QED
        BY <4>1, <4>2, <4>3
    <3> QED
      BY <3>2, <3>3, <3>5 DEF Agree
  <2> QED
    BY <2>1, <2>2
<1>9. Agree(decided', log[l], Len(decided'))
  BY <1>0, <1>1, <1>7 DEF Agree
<1>10. Len(decided') <= Len(elected[term]) \/ Len(decided') <= commit'[l]
  <2>1. CASE k > Len(decided)
    <3>1. Len(decided') = k
      BY <2>1 DEF Decides
    <3> QED
      BY <1>1, <1>5, <3>1
  <2>2. CASE ~(k > Len(decided))
    <3>1. decided' = decided
      BY <1>0, <1>1, <2>2 DEF Decides
    <3>2. Len(decided) <= Len(elected[term]) \/ Len(decided) <= commit[l]
      BY <1>1, <1>2 DEF NodeInv, NewestKnows, IsLeader
    <3>3. commit[l] \in Nat /\ commit'[l] \in Nat /\ commit[l] <= commit'[l]
      <4>1. commit[l] \in Nat /\ k \in Nat
        BY <1>0, <1>1
      <4>2. commit'[l] = commit[l] \/ (commit'[l] = k /\ commit[l] < k)
        BY <1>1
      <4> QED
        BY <4>1, <4>2
    <3> QED
      BY <1>0, <3>1, <3>2, <3>3
  <2> QED
    BY <2>1, <2>2
<1>11. LeadersInv' /\ ElectedKept' /\ ElectedTerms'
  BY <1>1 DEF NodeInv, LeadersInv, ElectedKept, ElectedTerms, IsLeader
<1>12. DecidedInv'
  BY <1>1, <1>4, <1>8, <1>9 DEF DecidedInv, IsLeader
<1>13. NewestKnows'
  BY <1>1, <1>4, <1>10 DEF NewestKnows, IsLeader
<1> QED
  BY <1>11, <1>12, <1>13 DEF NodeInv

\* A leader appends a write.
LEMMA NodeAppends ==
  ASSUME TypeOK, NodeInv, NEW t \in Thread, Appends(t)
  PROVE  NodeInv'
<1> DEFINE s == call[t].server
<1>0. /\ decided \in Seq(Entry) /\ Len(decided) \in Nat /\ commit \in [Server -> Nat]
      /\ term \in Nat /\ leaderTerm \in [Server -> Nat] /\ elected \in Seq(Seq(Entry)) /\ Len(elected) = term
      /\ \A r \in Server : leaderTerm[r] <= term
  BY DEF TypeOK, NodeTypes, NodeInv, LeadersInv
<1>1. s \in Server /\ Grows(s, [term |-> leaderTerm[s], cmd |-> Command(t)])
  BY AppendsGrows
<1>2. UNCHANGED <<term, leaderTerm, elected, decided, commit>>
  BY DEF Appends
<1>3. /\ Len(log[s]) \in Nat /\ Len(log'[s]) = Len(log[s]) + 1
      /\ \A i \in 1 .. Len(log[s]) : log'[s][i] = log[s][i]
      /\ log'[s][Len(log[s]) + 1].term = leaderTerm[s]
      /\ \A r \in Server : r # s => log'[r] = log[r]
  BY <1>1 DEF Grows
<1> HIDE DEF s
<1>4. ASSUME NEW a, NEW n \in Nat, Len(a) \in Nat, Agree(a, log[s], n)
      PROVE  Agree(a, log'[s], n) /\ Agree(log'[s], a, n)
  BY SMTT(30), <1>3, <1>4 DEF Agree
<1>5. LeadersInv'
  BY <1>2 DEF NodeInv, LeadersInv, IsLeader
<1>6. ElectedKept'
  <2> SUFFICES ASSUME NEW r \in Server, leaderTerm[r] # 0
               PROVE  Agree(elected[leaderTerm[r]], log'[r], Len(elected[leaderTerm[r]]))
    BY <1>2 DEF ElectedKept, IsLeader
  <2>1. Agree(elected[leaderTerm[r]], log[r], Len(elected[leaderTerm[r]]))
    BY DEF NodeInv, ElectedKept, IsLeader
  <2>2. Len(elected[leaderTerm[r]]) \in Nat
    <3>1. leaderTerm[r] \in 1 .. Len(elected)
      BY <1>0
    <3> QED
      BY <1>0, <3>1
  <2>3. CASE r = s
    BY <1>4, <2>1, <2>2, <2>3
  <2>4. CASE r # s
    BY <1>3, <2>1, <2>4
  <2> QED
    BY <2>3, <2>4
<1>7. ElectedTerms'
  <2>1. ASSUME NEW r \in Server, NEW i \in 1 .. Len(log'[r]) PROVE log'[r][i].term <= term
    <3>1. CASE i \in 1 .. Len(log[r]) /\ log'[r][i] = log[r][i]
      BY <3>1 DEF NodeInv, ElectedTerms
    <3>2. CASE r = s /\ i = Len(log[s]) + 1
      BY <1>0, <1>1, <1>3, <3>2
    <3> QED
      BY <1>3, <3>1, <3>2
  <2> QED
    BY <1>2, <2>1 DEF NodeInv, ElectedTerms
<1>8. DecidedInv'
  <2>1. ASSUME NEW r \in Server PROVE Agree(log'[r], decided, commit[r])
    <3>1. Agree(log[r], decided, commit[r]) /\ commit[r] \in Nat
      BY <1>0 DEF NodeInv, DecidedInv
    <3>2. CASE r = s
      BY <1>3, <3>1, <3>2 DEF Agree
    <3>3. CASE r # s
      BY <1>3, <3>1, <3>3
    <3> QED
      BY <3>2, <3>3
  <2>2. ASSUME NEW r \in Server, leaderTerm[r] # 0, leaderTerm[r] = term
        PROVE  Agree(decided, log'[r], Len(decided))
    <3>1. Agree(decided, log[r], Len(decided))
      BY <2>2 DEF NodeInv, DecidedInv, IsLeader
    <3> QED
      BY <1>0, <1>3, <1>4, <3>1
  <2> QED
    BY <1>2, <2>1, <2>2 DEF DecidedInv, IsLeader
<1>9. NewestKnows'
  BY <1>2 DEF NodeInv, NewestKnows, IsLeader
<1> QED
  BY <1>5, <1>6, <1>7, <1>8, <1>9 DEF NodeInv

\* Every step keeps what is known of leaders, logs and decisions.
LEMMA NodeStepKeeps ==
  ASSUME TypeOK, NodeInv, [Next]_vars
  PROVE  NodeInv'
<1>1. CASE \E s \in Server : Elects(s)
  BY <1>1, NodeElects
<1>2. CASE Settles
  BY <1>2, NodeSettles
<1>3. CASE \E l, s \in Server : Copies(l, s)
  BY <1>3, NodeCopies
<1>4. CASE \E s \in Server : \E k \in 1 .. Len(log[s]) : Decides(s, k)
  BY <1>4, NodeDecides
<1>5. CASE \E t \in Thread : Appends(t)
  BY <1>5, NodeAppends
<1>6. CASE UNCHANGED raftVars
  BY <1>6 DEF NodeInv, LeadersInv, ElectedKept, ElectedTerms, DecidedInv, NewestKnows, IsLeader, raftVars
<1>7. Forgets => UNCHANGED raftVars
  BY DEF Forgets
<1>8. UNCHANGED vars => UNCHANGED raftVars
  BY DEF vars
<1>9. \A t \in Thread : Opens(t) \/ Works(t) \/ Returns(t) \/ (\E s \in Server : Sends(t, s)) => UNCHANGED raftVars
  BY DEF Opens, Works, Returns, Sends
<1> QED
  BY <1>1, <1>2, <1>3, <1>4, <1>5, <1>6, <1>7, <1>8, <1>9, NextSteps DEF NodeInv

\* Every step keeps what is known of sequence numbers and commands.
LEMMA WriteStepKeeps ==
  ASSUME TypeOK, NodeInv, WriteInv, [Next]_vars
  PROVE  WriteInv'
<1>1. CASE \E s \in Server : Elects(s)
  <2>1. PICK s \in Server : Elects(s)
    BY <1>1
  <2>2. Grows(s, [term |-> term + 1, cmd |-> NoOp]) /\ UNCHANGED <<call, sequence>>
    BY <2>1 DEF Elects, apiVars
  <2>3. LogsKept
    BY <2>2 DEF Grows, LogsKept
  <2> QED
    BY <2>2, <2>3, WriteNodes
<1>2. CASE \E l, s \in Server : Copies(l, s)
  <2>1. LogsKept /\ UNCHANGED <<call, sequence>>
    BY <1>2 DEF Copies, LogsKept, apiVars
  <2> QED
    BY <2>1, WriteNodes
<1>3. CASE UNCHANGED <<log, call, sequence>>
  <2>1. LogsKept
    BY <1>3 DEF LogsKept
  <2> QED
    BY <1>3, <2>1, WriteNodes
<1>4. CASE \E t \in Thread : Appends(t)
  BY <1>4, WriteAppends
<1>5. CASE \E t \in Thread : Opens(t) \/ Works(t) \/ Returns(t) \/ \E s \in Server : Sends(t, s)
  BY <1>5, WriteRequests
<1>6. Settles => UNCHANGED <<log, call, sequence>>
  BY DEF Settles, apiVars
<1>7. \A s \in Server : \A k \in 1 .. Len(log[s]) : Decides(s, k) => UNCHANGED <<log, call, sequence>>
  BY DEF Decides, apiVars
<1>8. Forgets => UNCHANGED <<log, call, sequence>>
  BY DEF Forgets, raftVars
<1>9. UNCHANGED vars => UNCHANGED <<log, call, sequence>>
  BY DEF vars, raftVars, apiVars
<1> QED
  BY <1>1, <1>2, <1>3, <1>4, <1>5, <1>6, <1>7, <1>8, <1>9, NextSteps DEF NodeInv

-----------------------------------------------------------------------------
(* Waiting writes and reads *)

\* A leader that stays one keeps what is in its log; a new one has a new term.
LeadersGrow ==
  \A s \in Server : leaderTerm'[s] # 0 =>
    \/ leaderTerm'[s] > term
    \/ /\ leaderTerm'[s] = leaderTerm[s] /\ Len(log[s]) \in Nat /\ Len(log'[s]) \in Nat
       /\ Len(log[s]) <= Len(log'[s])
       /\ \A i \in 1 .. Len(log[s]) : log'[s][i] = log[s][i]

\* A write that goes on waiting stays where it is while its leader leads.
LEMMA WaitingKept ==
  ASSUME TypeOK, WaitingInv, LeadersGrow, term' \in Nat, term <= term',
         NEW t \in Thread, call[t].pc = "waiting", call'[t] = call[t]
  PROVE  /\ call'[t].since # 0 /\ call'[t].since <= term'
         /\ leaderTerm'[call'[t].server] = call'[t].since =>
              /\ call'[t].index \in 1 .. Len(log'[call'[t].server])
              /\ log'[call'[t].server][call'[t].index].cmd = Command(t)
<1> DEFINE s == call[t].server
           i == call[t].index
<1>1. /\ s \in Server /\ call[t] \in Request /\ term \in Nat
      /\ call[t].since # 0 /\ call[t].since <= term
      /\ leaderTerm[s] = call[t].since => i \in 1 .. Len(log[s]) /\ log[s][i].cmd = Command(t)
  BY DEF TypeOK, InProgress, ClientTypes, NodeTypes, WaitingInv
<1>2. call[t].since \in Nat
  BY <1>1 DEF Request
<1>3. ASSUME leaderTerm'[s] = call[t].since
      PROVE  i \in 1 .. Len(log'[s]) /\ log'[s][i].cmd = Command(t)
  <2>1. ~(leaderTerm'[s] > term)
    BY <1>1, <1>2, <1>3
  <2>2. /\ leaderTerm'[s] = leaderTerm[s] /\ Len(log[s]) \in Nat /\ Len(log'[s]) \in Nat
        /\ Len(log[s]) <= Len(log'[s])
        /\ \A n \in 1 .. Len(log[s]) : log'[s][n] = log[s][n]
    BY <1>1, <1>3, <2>1 DEF LeadersGrow
  <2>3. i \in 1 .. Len(log[s]) /\ log[s][i].cmd = Command(t)
    BY <1>1, <1>3, <2>2
  <2> HIDE DEF s, i
  <2> QED
    BY <2>2, <2>3
<1> QED
  BY <1>1, <1>2, <1>3

\* The steps after which leaders have grown.
LEMMA LeadersGrowSteps ==
  ASSUME TypeOK, NodeInv, [Next]_vars
  PROVE  LeadersGrow /\ term' \in Nat /\ term <= term'
<1>0. /\ term \in Nat /\ leaderTerm \in [Server -> Nat]
      /\ \A s \in Server : log[s] \in Seq(Entry) /\ Len(log[s]) \in Nat
  BY DEF TypeOK, NodeTypes
<1>1. CASE \E s \in Server : Elects(s)
  <2>1. PICK s \in Server : Elects(s)
    BY <1>1
  <2>2. /\ term' = term + 1 /\ leaderTerm'[s] = term + 1
        /\ \A r \in Server : r # s => leaderTerm'[r] = leaderTerm[r] /\ log'[r] = log[r]
    BY <2>1 DEF Elects, Grows
  <2> QED
    BY <1>0, <2>2 DEF LeadersGrow
<1>2. CASE /\ UNCHANGED <<term, log>>
           /\ \A r \in Server : leaderTerm'[r] # 0 => leaderTerm'[r] = leaderTerm[r]
  BY <1>0, <1>2 DEF LeadersGrow
<1>3. CASE \E l, s \in Server : Copies(l, s)
  <2>1. PICK l \in Server, s \in Server : Copies(l, s)
    BY <1>3
  <2>2. /\ UNCHANGED <<term, leaderTerm>> /\ leaderTerm[s] = 0
        /\ \A r \in Server : r # s => log'[r] = log[r]
    BY <2>1 DEF Copies
  <2> QED
    BY <1>0, <2>2 DEF LeadersGrow
<1>4. CASE \E t \in Thread : Appends(t)
  <2>1. PICK t \in Thread : Appends(t)
    BY <1>4
  <2>2. PICK s \in Server : Grows(s, [term |-> leaderTerm[s], cmd |-> Command(t)])
    BY <2>1, AppendsGrows
  <2>3. UNCHANGED <<term, leaderTerm>>
    BY <2>1 DEF Appends
  <2>4. /\ Len(log[s]) \in Nat /\ Len(log'[s]) \in Nat /\ Len(log[s]) <= Len(log'[s])
        /\ \A i \in 1 .. Len(log[s]) : log'[s][i] = log[s][i]
        /\ \A r \in Server : r # s => log'[r] = log[r]
    BY <2>2 DEF Grows
  <2>5. ASSUME NEW r \in Server
        PROVE  /\ leaderTerm'[r] = leaderTerm[r] /\ Len(log[r]) \in Nat /\ Len(log'[r]) \in Nat
               /\ Len(log[r]) <= Len(log'[r])
               /\ \A i \in 1 .. Len(log[r]) : log'[r][i] = log[r][i]
    BY <1>0, <2>3, <2>4
  <2> QED
    BY <1>0, <2>3, <2>5 DEF LeadersGrow
<1>5. Settles => /\ UNCHANGED <<term, log>>
                 /\ \A r \in Server : leaderTerm'[r] # 0 => leaderTerm'[r] = leaderTerm[r]
  BY DEF Settles
<1>6. \A s \in Server : \A k \in 1 .. Len(log[s]) : Decides(s, k) => UNCHANGED <<term, log, leaderTerm>>
  BY DEF Decides
<1>7. Forgets \/ UNCHANGED vars => UNCHANGED <<term, log, leaderTerm>>
  BY DEF Forgets, vars, raftVars
<1>8. \A t \in Thread : Opens(t) \/ Works(t) \/ Returns(t) \/ (\E s \in Server : Sends(t, s)) =>
        UNCHANGED <<term, log, leaderTerm>>
  BY DEF Opens, Works, Returns, Sends, raftVars
<1>9. UNCHANGED <<term, log, leaderTerm>> =>
        /\ UNCHANGED <<term, log>>
        /\ \A r \in Server : leaderTerm'[r] # 0 => leaderTerm'[r] = leaderTerm[r]
  OBVIOUS
<1> QED
  BY <1>1, <1>2, <1>3, <1>4, <1>5, <1>6, <1>7, <1>8, <1>9, NextSteps DEF NodeInv

\* The request of a thread changes by a step of that thread.
LEMMA RequestSteps ==
  ASSUME TypeOK, NodeInv, [Next]_vars, NEW t \in Thread
  PROVE  \/ call'[t] = call[t]
         \/ Opens(t) \/ Appends(t) \/ Works(t) \/ Returns(t) \/ \E s \in Server : Sends(t, s)
<1>1. CASE \E u \in Thread : \/ Opens(u) \/ Appends(u) \/ Works(u) \/ Returns(u)
                             \/ \E s \in Server : Sends(u, s)
  <2>1. PICK u \in Thread : \/ Opens(u) \/ Appends(u) \/ Works(u) \/ Returns(u)
                            \/ \E s \in Server : Sends(u, s)
    BY <1>1
  <2>2. Changes(u)
    BY <2>1 DEF Opens, Appends, Works, Returns, Sends
  <2>3. CASE u = t
    BY <2>1, <2>3
  <2>4. CASE u # t
    BY <2>2, <2>4 DEF Changes
  <2> QED
    BY <2>3, <2>4
<1>2. (\E s \in Server : Elects(s)) => call' = call
  BY DEF Elects, apiVars
<1>3. Settles => call' = call
  BY DEF Settles, apiVars
<1>4. (\E l, s \in Server : Copies(l, s)) => call' = call
  BY DEF Copies, apiVars
<1>5. (\E s \in Server : \E k \in 1 .. Len(log[s]) : Decides(s, k)) => call' = call
  BY DEF Decides, apiVars
<1>6. Forgets => call' = call
  BY DEF Forgets
<1>7. UNCHANGED vars => call' = call
  BY DEF vars, apiVars
<1> QED
  BY <1>1, <1>2, <1>3, <1>4, <1>5, <1>6, <1>7, NextSteps DEF NodeInv

\* Every step keeps what is known of the writes that wait.
LEMMA WaitingStepKeeps ==
  ASSUME TypeOK, NodeInv, WaitingInv, [Next]_vars
  PROVE  WaitingInv'
<1> SUFFICES ASSUME NEW t \in Thread, call'[t].pc = "waiting"
             PROVE  /\ call'[t].since # 0 /\ call'[t].since <= term'
                    /\ leaderTerm'[call'[t].server] = call'[t].since =>
                         /\ call'[t].index \in 1 .. Len(log'[call'[t].server])
                         /\ log'[call'[t].server][call'[t].index].cmd = Command(t)'
  BY DEF WaitingInv
<1>1. CASE call'[t] = call[t]
  <2>1. LeadersGrow /\ term' \in Nat /\ term <= term'
    BY LeadersGrowSteps
  <2>2. Command(t)' = Command(t)
    BY <1>1 DEF Command
  <2> QED
    BY <1>1, <2>1, <2>2, WaitingKept
<1>2. CASE Appends(t)
  <2>1. PICK s \in Server : s = call[t].server /\ Grows(s, [term |-> leaderTerm[s], cmd |-> Command(t)])
    BY <1>2, AppendsGrows
  <2>2. /\ call'[t].server = s /\ call'[t].since = leaderTerm[s] /\ call'[t].index = Len(log[s]) + 1
        /\ leaderTerm[s] # 0 /\ term' = term /\ call'[t].seq = call[t].seq
    BY <1>2, <2>1 DEF Appends
  <2>3. leaderTerm[s] <= term
    BY DEF NodeInv, LeadersInv
  <2>4. /\ Len(log[s]) + 1 \in 1 .. Len(log'[s])
        /\ log'[s][Len(log[s]) + 1].cmd = Command(t)
    BY <2>1 DEF Grows
  <2>5. Command(t)' = Command(t)
    BY <2>2 DEF Command
  <2> QED
    BY <2>2, <2>3, <2>4, <2>5
<1>3. ~(Opens(t) \/ Works(t) \/ Returns(t) \/ \E s \in Server : Sends(t, s))
  BY DEF Opens, Works, Returns, Sends
<1> QED
  BY <1>1, <1>2, <1>3, RequestSteps

\* The newest leader knows of every decision once it has committed an entry of its term.
LEMMA SettledKnows ==
  ASSUME TypeOK, NodeInv, NEW s \in Server, CommittedInTerm(s)
  PROVE  LastWrite(decided) <= commit[s]
<1>0. /\ term \in Nat /\ elected \in Seq(Seq(Entry)) /\ Len(elected) = term /\ commit[s] \in Nat
      /\ log[s] \in Seq(Entry) /\ decided \in Seq(Entry) /\ Len(decided) \in Nat
  BY DEF TypeOK, NodeTypes, NodeInv, LeadersInv
<1>1. IsLeader(s) /\ leaderTerm[s] = term /\ term # 0 /\ commit[s] > 0 /\ log[s][commit[s]].term = term
  BY DEF CommittedInTerm, IsLeader
<1>2. PICK e \in Seq(Entry) : e = elected[term] /\ Len(e) \in Nat
  BY <1>0, <1>1
<1>3. Agree(e, log[s], Len(e))
  BY <1>1, <1>2 DEF NodeInv, ElectedKept
<1>4. ~(commit[s] < Len(e))
  <2> SUFFICES ASSUME commit[s] < Len(e) PROVE FALSE
    OBVIOUS
  <2>1. commit[s] \in 1 .. Len(e) /\ term \in 1 .. term
    BY <1>0, <1>1, <1>2
  <2>2. e[commit[s]].term < term
    BY <1>2, <2>1 DEF NodeInv, ElectedTerms
  <2>3. e[commit[s]] = log[s][commit[s]]
    BY <1>3, <2>1 DEF Agree
  <2> QED
    BY <1>0, <1>1, <2>2, <2>3
<1>5. Len(decided) <= Len(e) \/ Len(decided) <= commit[s]
  BY <1>1, <1>2 DEF NodeInv, NewestKnows
<1>6. LastWrite(decided) \in 0 .. Len(decided)
  BY <1>0, LastWriteType
<1> QED
  BY <1>0, <1>2, <1>4, <1>5, <1>6

\* Every step keeps what is known of the reads from settled leaders.
LEMMA ReadStepKeeps ==
  ASSUME TypeOK, NodeInv, ReadInv, [Next]_vars
  PROVE  ReadInv'
<1> SUFFICES ASSUME NEW t \in Thread, call'[t].op = "get", call'[t].since # 0
             PROVE  /\ call'[t].pc \notin {"calling", "checking", "reading"}
                    /\ call'[t].pc = "confirming" => call'[t].readIndex >= call'[t].floor
                    /\ call'[t].pc = "answered" /\ call'[t].resp.kind = "ok" => call'[t].seen >= call'[t].floor
  BY DEF ReadInv, HasRead
<1>0. call[t].op = "get" /\ call[t].since # 0 =>
        /\ call[t].pc \notin {"calling", "checking", "reading"}
        /\ call[t].pc = "confirming" => call[t].readIndex >= call[t].floor
        /\ call[t].pc = "answered" /\ call[t].resp.kind = "ok" => call[t].seen >= call[t].floor
  BY DEF ReadInv, HasRead
<1>1. CASE call'[t] = call[t]
  BY <1>0, <1>1
<1>2. ~Opens(t) /\ ~Returns(t)
  BY DEF Opens, Returns
<1>3. ~Appends(t)
  BY DEF Appends, TypeOK, InProgress, Writes
<1>4. \A s \in Server : ~Sends(t, s)
  BY <1>0 DEF Sends
<1>5. CASE Works(t)
  <2>0. call[t] \in Request /\ call'[t] \in Request
    BY <1>5 DEF TypeOK, ClientTypes, Works, Changes
  <2>1. call[t].op = "get" /\ call[t].pc # "waiting"
    BY <1>5 DEF Works, TypeOK, InProgress, Writes
  <2>2. CASE call'[t].pc = "answered"
    <3>1. /\ call'[t].since = call[t].since /\ call'[t].floor = call[t].floor
          /\ call'[t].resp.kind = "ok" => call[t].pc = "confirming" /\ call'[t].seen >= call[t].readIndex
      BY <1>5, <2>1, <2>2 DEF Works
    <3>2. call'[t].seen \in Nat /\ call[t].readIndex \in Nat /\ call[t].floor \in Nat
      BY <2>0 DEF Request
    <3> QED
      BY <1>0, <2>1, <2>2, <3>1, <3>2
  <2>3. call'[t].pc # "reading"
    BY <1>0, <1>5, <2>1 DEF Works
  <2>4. CASE call'[t].pc = "confirming"
    <3>1. call[t].server \in Server
      BY <1>5 DEF Works, TypeOK, InProgress
    <3>2. /\ call'[t].readIndex = commit[call[t].server] /\ call'[t].floor = LastWrite(decided)
          /\ CommittedInTerm(call[t].server)
      BY <1>5, <2>4 DEF Works
    <3>3. LastWrite(decided) <= commit[call[t].server]
      BY <3>1, <3>2, SettledKnows
    <3>4. call'[t].readIndex \in Nat /\ call'[t].floor \in Nat
      BY <2>0 DEF Request
    <3> QED
      BY <2>4, <3>2, <3>3, <3>4
  <2> QED
    BY <1>5, <2>2, <2>3, <2>4 DEF Works
<1> QED
  BY <1>1, <1>2, <1>3, <1>4, <1>5, RequestSteps

\* The inductive invariant holds initially.
LEMMA ApiInit ==
  ASSUME Init
  PROVE  ApiInv
<1>1. TypeOK
  BY TypeInit
<1>2. /\ Idle.pc = "idle" /\ Idle.since = 0
  BY DEF Idle
<1>3. \A t \in Thread : call[t] = Idle
  BY DEF Init
<1>4. /\ term = 0 /\ elected = <<>> /\ decided = <<>>
      /\ \A s \in Server : log[s] = <<>> /\ leaderTerm[s] = 0 /\ commit[s] = 0
  BY DEF Init
<1>5. WriteInv
  BY <1>2, <1>3, <1>4 DEF WriteInv, NumbersDiffer, CommandsUsed, NotAppendedIsNowhere, NotAppended, CommandsOnce
<1>6. NodeInv
  BY <1>4 DEF NodeInv, LeadersInv, ElectedKept, ElectedTerms, DecidedInv, NewestKnows, IsLeader, Agree
<1>7. WaitingInv /\ ReadInv
  BY <1>2, <1>3 DEF WaitingInv, ReadInv
<1> QED
  BY <1>1, <1>5, <1>6, <1>7 DEF ApiInv

\* The inductive invariant, with the logs that leaders were elected with and what they decided.
THEOREM ApiInvariant == Spec => []ApiInv
<1>1. Init => ApiInv
  BY ApiInit
<1>2. ApiInv /\ [Next]_vars => ApiInv'
  BY TypeStep, WriteStepKeeps, NodeStepKeeps, WaitingStepKeeps, ReadStepKeeps DEF ApiInv, NodeInv
<1> QED
  BY <1>1, <1>2, PTL DEF Spec

\* No write is in a log twice (executeWithRetry repeats only what was redirected).
THEOREM WritesAppearOnce == Spec => []AtMostOnce
<1>1. ApiInv => AtMostOnce
  <2> SUFFICES ASSUME ApiInv, NEW s \in Server, NEW c \in Client, NEW n \in 1 .. MaxRequests
               PROVE  Cardinality(Positions(log[s], <<c, n>>)) <= 1
    BY DEF AtMostOnce
  <2> DEFINE P == Positions(log[s], <<c, n>>)
  <2>1. \A i, j \in P : i = j
    BY CommandIsNoNoOp DEF ApiInv, WriteInv, CommandsOnce, Positions
  <2> HIDE DEF P
  <2>2. CASE P = {}
    <3>1. Cardinality(P) = 0
      BY <2>2, FS_EmptySet
    <3> QED
      BY <3>1 DEF P
  <2>3. CASE P # {}
    <3>1. PICK i : P = {i}
      BY <2>1, <2>3
    <3>2. Cardinality(P) = 1
      BY <3>1, FS_Singleton
    <3> QED
      BY <3>2 DEF P
  <2> QED
    BY <2>2, <2>3
<1> QED
  BY <1>1, ApiInvariant, PTL

\* A write that is redirected is in no log (redirectToLeader, redirectBatchToLeader, and the
\* cached redirects CheckDuplicate answers with).
THEOREM RedirectsAreHarmless == Spec => []RedirectedIsNowhere
<1>1. ApiInv => RedirectedIsNowhere
  BY DEF ApiInv, WriteInv, NotAppendedIsNowhere, NotAppended, RedirectedIsNowhere, Positions
<1> QED
  BY <1>1, ApiInvariant, PTL

\* A read that begins at a leader that is the newest and has committed in its term sees every
\* write decided by then (PerformLinearizableRead).
THEOREM SettledReadsAreFresh == Spec => []SettledLeaderReadsFresh
<1>1. ApiInv => SettledLeaderReadsFresh
  BY DEF ApiInv, ReadInv, SettledLeaderReadsFresh, HasRead
<1> QED
  BY <1>1, ApiInvariant, PTL

\* What waitForCommit reports under one leader is decided at its index.
THEOREM ReportedWritesAreDecided == Spec => CommittedUnderOneLeader
<1> DEFINE A == \A t \in Thread :
                  /\ call[t].pc = "waiting" /\ leaderTerm[call[t].server] = call[t].since
                  /\ \/ call'[t].pc = "reading"
                     \/ call'[t].pc = "answered" /\ call'[t].resp.kind = "ok"
                  => call[t].index \in Positions(decided, Command(t))
<1>1. ApiInv /\ [Next]_vars => A
  <2> SUFFICES ASSUME ApiInv, [Next]_vars, NEW t \in Thread,
                      call[t].pc = "waiting", leaderTerm[call[t].server] = call[t].since,
                      \/ call'[t].pc = "reading"
                      \/ call'[t].pc = "answered" /\ call'[t].resp.kind = "ok"
               PROVE  call[t].index \in Positions(decided, Command(t))
    OBVIOUS
  <2>1. Works(t)
    <3>1. call'[t] # call[t] /\ ~Opens(t) /\ ~Appends(t) /\ ~Returns(t) /\ \A s \in Server : ~Sends(t, s)
      BY DEF Opens, Appends, Returns, Sends
    <3> QED
      BY <3>1, RequestSteps DEF ApiInv
  <2>2. Reported(t)
    BY <2>1 DEF Works
  <2>3. PICK s \in Server : s = call[t].server
    BY DEF ApiInv, TypeOK, InProgress
  <2>4. PICK i \in 1 .. Len(log[s]) : i = call[t].index /\ log[s][i].cmd = Command(t)
    BY <2>3 DEF ApiInv, WaitingInv
  <2>5. /\ Agree(log[s], decided, commit[s]) /\ commit[s] \in Nat
        /\ Len(decided) \in Nat /\ Len(log[s]) \in Nat
    BY DEF ApiInv, NodeInv, DecidedInv, TypeOK, NodeTypes
  <2>6. i \in 1 .. commit[s] /\ commit[s] <= Len(decided)
    BY <2>2, <2>3, <2>4, <2>5 DEF Reported, Agree
  <2>7. i \in 1 .. Len(decided) /\ decided[i] = log[s][i]
    BY <2>5, <2>6 DEF Agree
  <2> QED
    BY <2>4, <2>7 DEF Positions
<1>2. A => [A]_vars
  OBVIOUS
<1> QED
  BY <1>1, ApiInvariant, PTL DEF Spec, CommittedUnderOneLeader

-----------------------------------------------------------------------------
(* Sessions *)

\* The steps of requests keep the sessions: what is cached was made for the request it is cached
\* with, however many goroutines of the client are at work.
LEMMA SessionsKept ==
  ASSUME TypeOK, NumbersDiffer, SessionsMatch, CachedMatch, NEW t \in Thread,
         Opens(t) \/ Appends(t) \/ Works(t) \/ Returns(t) \/ \E s \in Server : Sends(t, s)
  PROVE  SessionsMatch'
<1> DEFINE c == ClientOf(t)
<1>1. SUFFICES ASSUME NEW s \in Server, NEW d \in Client
               PROVE  /\ session'[s][d].lastSequence <= sequence'[d]
                      /\ session'[s][d].lastResponse.seq = session'[s][d].lastSequence
  BY DEF SessionsMatch
<1>2. /\ c \in Client /\ call[t] \in Request /\ call[t].seq \in Nat
      /\ session[s][d] \in [lastSequence : Nat, lastResponse : Reply]
  BY ThreadClient DEF TypeOK, ClientTypes, Request
<1>3. sequence[d] \in Nat /\ sequence'[d] \in Nat /\ sequence[d] <= sequence'[d]
  BY SequenceGrows
<1>4. CASE session'[s][d] = session[s][d]
  <2>1. /\ session[s][d].lastSequence \in Nat /\ session[s][d].lastSequence <= sequence[d]
        /\ session[s][d].lastResponse.seq = session[s][d].lastSequence
    BY <1>2 DEF SessionsMatch
  <2> QED
    BY <1>3, <1>4, <2>1
<1>5. CASE /\ Returns(t) /\ d = c /\ call[t].cached # FALSE
           /\ session'[s][d].lastSequence = call[t].seq
           /\ session'[s][d].lastResponse = call[t].resp
  <2>1. call[t].pc = "answered" /\ call[t].resp.seq = call[t].seq /\ call[t].seq <= sequence[d]
    BY <1>2, <1>5 DEF Returns, CachedMatch, NumbersDiffer
  <2> QED
    BY <1>2, <1>3, <1>5, <2>1
<1>6. session'[s][d] = session[s][d] \/ Returns(t)
  BY DEF Opens, Appends, Works, Sends
<1> QED
  BY <1>4, <1>5, <1>6 DEF Returns

\* The steps of requests keep CachedMatch.
LEMMA CachedKept ==
  ASSUME CachedMatch, NEW t \in Thread,
         Opens(t) \/ Appends(t) \/ Works(t) \/ Returns(t) \/ \E s \in Server : Sends(t, s)
  PROVE  CachedMatch'
<1>1. SUFFICES ASSUME NEW u \in Thread
               PROVE  /\ call'[u].pc = "calling" => call'[u].cached = FALSE
                      /\ call'[u].pc = "answered" /\ call'[u].cached # FALSE =>
                           call'[u].resp.seq = call'[u].seq
  BY Zenon DEF CachedMatch
<1>2. CASE u # t
  <2>1. call'[u] = call[u]
    BY <1>2 DEF Opens, Appends, Works, Returns, Sends, Changes
  <2> QED
    BY Zenon, <2>1 DEF CachedMatch
<1>3. CASE u = t /\ (Opens(t) \/ Returns(t))
  BY <1>3 DEF Opens, Returns
<1>4. CASE u = t /\ Appends(t)
  BY <1>4 DEF Appends
<1>5. CASE u = t /\ Works(t)
  BY <1>5 DEF Works
<1>6. CASE u = t /\ \E s \in Server : Sends(t, s)
  BY <1>6 DEF Sends, CachedMatch
<1> QED
  BY <1>2, <1>3, <1>4, <1>5, <1>6

\* The steps of requests keep the responses: one from a session is of this request or a later one.
LEMMA ResponsesKept ==
  ASSUME TypeOK, NumbersDiffer, SessionsMatch, ResponsesMatch, NEW t \in Thread,
         Opens(t) \/ Appends(t) \/ Works(t) \/ Returns(t) \/ \E s \in Server : Sends(t, s)
  PROVE  ResponsesMatch'
<1> DEFINE c == ClientOf(t)
<1>0. c \in Client /\ call[t] \in Request /\ call[t].seq \in Nat /\ Changes(t)
  BY ThreadClient DEF TypeOK, ClientTypes, Request, Opens, Appends, Works, Returns, Sends
<1>g. \A d \in Client : sequence[d] \in Nat /\ sequence'[d] \in Nat /\ sequence[d] <= sequence'[d]
  BY SequenceGrows
<1>1. SUFFICES ASSUME NEW u \in Thread, call'[u].pc = "answered"
               PROVE  /\ call'[u].seq <= call'[u].resp.seq
                      /\ call'[u].resp.seq <= sequence'[ClientOf(u)]
  BY DEF ResponsesMatch
<1>2. CASE u # t
  <2>1. call'[u] = call[u] /\ ClientOf(u) \in Client
    BY <1>0, <1>2, ThreadClient DEF Changes
  <2>2. call[u] \in Request /\ call[u].seq \in Nat /\ call[u].resp.seq \in Nat
    BY DEF TypeOK, ClientTypes, Request, Reply
  <2>3. call[u].seq <= call[u].resp.seq /\ call[u].resp.seq <= sequence[ClientOf(u)]
    BY <1>1, <2>1 DEF ResponsesMatch
  <2> QED
    BY <1>g, <2>1, <2>2, <2>3
<1>3. u = t => ~Opens(t) /\ ~Returns(t) /\ ~Appends(t)
  BY <1>1 DEF Opens, Returns, Appends
<1>5. CASE u = t /\ Works(t)
  <2>1. /\ call[t].seq <= sequence[c] /\ sequence' = sequence /\ call'[t].seq = call[t].seq
        /\ call'[t].resp.seq = call[t].seq
    BY <1>1, <1>5 DEF Works, NumbersDiffer
  <2> QED
    BY <1>0, <1>5, <1>g, <2>1
<1>6. CASE u = t /\ \E s \in Server : Sends(t, s)
  <2>1. PICK s \in Server : Sends(t, s)
    BY <1>6
  <2>2. /\ call'[t].seq = call[t].seq /\ sequence' = sequence
        /\ call[t].seq <= session[s][c].lastSequence /\ call'[t].resp = session[s][c].lastResponse
    BY <1>1, <1>6, <2>1 DEF Sends
  <2>3. /\ session[s][c].lastSequence \in Nat /\ session[s][c].lastSequence <= sequence[c]
        /\ session[s][c].lastResponse.seq = session[s][c].lastSequence
    BY <1>0 DEF TypeOK, ClientTypes, SessionsMatch
  <2> QED
    BY <1>0, <1>6, <2>2, <2>3
<1> QED
  BY <1>2, <1>3, <1>5, <1>6

\* For any number of goroutines that share a Client: the response a request gets was made for that
\* request, or for a later one of its client, never for an earlier one (session.go CheckDuplicate,
\* CacheResponse and cleanup).  So the newest request of a client always gets its own answer.
THEOREM AnswersAreNotOld == Spec => []OwnAnswerUnlessOvertaken
<1>1. Init => SessionInv
  <2> SUFFICES ASSUME Init PROVE SessionInv
    OBVIOUS
  <2>1. \A t \in Thread : call[t].pc = "idle"
    BY DEF Init, Idle
  <2>2. \A s \in Server, c \in Client :
          /\ session[s][c].lastSequence = 0 /\ sequence[c] = 0
          /\ session[s][c].lastResponse.seq = 0
    BY DEF Init, NoSession, NoResponse, Response
  <2>3. SessionsMatch
    BY <2>2 DEF SessionsMatch
  <2>4. CachedMatch /\ ResponsesMatch
    BY <2>1 DEF CachedMatch, ResponsesMatch
  <2> QED
    BY <2>3, <2>4 DEF SessionInv
<1>2. ApiInv /\ SessionInv /\ [Next]_vars => SessionInv'
  <2> SUFFICES ASSUME ApiInv, SessionInv, [Next]_vars PROVE SessionInv'
    OBVIOUS
  <2>0. TypeOK /\ NumbersDiffer /\ NodeInv
    BY DEF ApiInv, WriteInv
  <2>1. CASE \E t \in Thread : \/ Opens(t) \/ Appends(t) \/ Works(t) \/ Returns(t)
                               \/ \E s \in Server : Sends(t, s)
    BY <2>0, <2>1, SessionsKept, CachedKept, ResponsesKept DEF SessionInv
  <2>2. CASE UNCHANGED <<call, sequence, session>>
    BY <2>2 DEF SessionInv, SessionsMatch, CachedMatch, ResponsesMatch
  <2>3. CASE Forgets
    <3>1. sequence \in [Client -> Nat] /\ UNCHANGED <<call, sequence>>
      BY <2>0, <2>3 DEF TypeOK, ClientTypes, Forgets
    <3>2. \A s \in Server, c \in Client :
            /\ session'[s][c].lastSequence <= sequence[c]
            /\ session'[s][c].lastResponse.seq = session'[s][c].lastSequence
      <4> SUFFICES ASSUME NEW s \in Server, NEW c \in Client
                   PROVE  /\ session'[s][c].lastSequence <= sequence[c]
                          /\ session'[s][c].lastResponse.seq = session'[s][c].lastSequence
        OBVIOUS
      <4>1. /\ session[s][c].lastSequence <= sequence[c]
            /\ session[s][c].lastResponse.seq = session[s][c].lastSequence
        BY DEF SessionInv, SessionsMatch
      <4>2. \/ session'[s][c] = session[s][c]
            \/ session'[s][c].lastSequence = 0 /\ session'[s][c].lastResponse.seq = 0
        BY <2>3 DEF Forgets
      <4>3. 0 <= sequence[c]
        BY <3>1
      <4> QED
        BY <4>1, <4>2, <4>3
    <3> QED
      BY <3>1, <3>2 DEF SessionInv, SessionsMatch, CachedMatch, ResponsesMatch
  <2>4. (\E s \in Server : Elects(s)) => UNCHANGED <<call, sequence, session>>
    BY DEF Elects, apiVars
  <2>5. Settles => UNCHANGED <<call, sequence, session>>
    BY DEF Settles, apiVars
  <2>6. (\E l, s \in Server : Copies(l, s)) => UNCHANGED <<call, sequence, session>>
    BY DEF Copies, apiVars
  <2>7. (\E s \in Server : \E k \in 1 .. Len(log[s]) : Decides(s, k)) => UNCHANGED <<call, sequence, session>>
    BY DEF Decides, apiVars
  <2>8. UNCHANGED vars => UNCHANGED <<call, sequence, session>>
    BY DEF vars, apiVars
  <2> QED
    BY <2>0, <2>1, <2>2, <2>3, <2>4, <2>5, <2>6, <2>7, <2>8, NextSteps DEF NodeInv
<1>3. ApiInv /\ SessionInv => OwnAnswerUnlessOvertaken
  <2> SUFFICES ASSUME ApiInv, SessionInv, NEW t \in Thread, call[t].pc = "answered"
               PROVE  \/ call[t].resp.seq = call[t].seq
                      \/ call[t].resp.seq \in call[t].seq + 1 .. sequence[ClientOf(t)]
    BY DEF OwnAnswerUnlessOvertaken
  <2>1. call[t].seq \in Nat /\ call[t].resp.seq \in Nat /\ sequence[ClientOf(t)] \in Nat
    BY ThreadClient DEF ApiInv, TypeOK, ClientTypes, Request, Reply
  <2>2. call[t].seq <= call[t].resp.seq /\ call[t].resp.seq <= sequence[ClientOf(t)]
    BY DEF SessionInv, ResponsesMatch
  <2> QED
    BY <2>1, <2>2
<1> QED
  BY <1>1, <1>2, <1>3, ApiInvariant, PTL DEF Spec
=============================================================================
