------------------------------- MODULE Shutdown -------------------------------
(***************************************************************************)
(* Stopping a node: Node.Stop (pkg/raft/node.go), rpc.Server.Stop and the  *)
(* handlers of RPCs that are being served (pkg/rpc/server.go), the senders *)
(* of RPCs and their connections, with the three locks they share:         *)
(* Node.mu, rpc.Server.mu and ClientPool.mu.                               *)
(*                                                                         *)
(* grpc.Server.GracefulStop is external: it accepts no new call and        *)
(* returns when every call being served has been answered.                 *)
(***************************************************************************)
EXTENDS ClientPool, FiniteSets

CONSTANTS
  Caller,  \* goroutines that call Node.Stop
  Call     \* RPCs of other nodes: RequestVote, AppendEntries or InstallSnapshot

ASSUME ShutdownAssumption ==
  IsFiniteSet(Caller) /\ IsFiniteSet(Call) /\ Caller \cap Call = {}

VARIABLES
  stop,       \* where each caller is in Node.Stop
  call,       \* where each call is in its handler
  nodeMu,     \* holders of Node.mu: a caller or a handler, at most one
  rpcMuHeld,  \* rpc.Server.Stop holds rpc.Server.mu
  stopCh,     \* Node.stopCh is closed
  accepting   \* the gRPC server accepts calls

serverVars == <<stop, call, nodeMu, rpcMuHeld, stopCh, accepting>>
vars == <<serverVars, poolVars>>

Init ==
  /\ stop = [c \in Caller |-> "idle"]
  /\ call = [h \in Call |-> "away"]
  /\ nodeMu = {}
  /\ rpcMuHeld = FALSE
  /\ stopCh = FALSE
  /\ accepting = TRUE
  /\ PoolInit

-----------------------------------------------------------------------------
(* An RPC: Server.RequestVote and its siblings, and the handler of the node *)

Accept(h) ==
  /\ call[h] = "away" /\ accepting
  /\ call' = [call EXCEPT ![h] = "accepted"]
  /\ UNCHANGED <<stop, nodeMu, rpcMuHeld, stopCh, accepting, poolVars>>

\* The handler is read under the read lock of Server.mu.
ReadHandler(h) ==
  /\ call[h] = "accepted" /\ ~rpcMuHeld
  /\ call' = [call EXCEPT ![h] = "dispatched"]
  /\ UNCHANGED <<stop, nodeMu, rpcMuHeld, stopCh, accepting, poolVars>>

LockNode(h) ==
  /\ call[h] = "dispatched" /\ nodeMu = {}
  /\ call' = [call EXCEPT ![h] = "handling"]
  /\ nodeMu' = {h}
  /\ UNCHANGED <<stop, rpcMuHeld, stopCh, accepting, poolVars>>

\* Mutant of Answer: an early return leaves Node.mu locked.
AnswerKeepsLock(h) ==
  /\ call[h] = "handling"
  /\ call' = [call EXCEPT ![h] = "answered"]
  /\ UNCHANGED <<stop, nodeMu, rpcMuHeld, stopCh, accepting, poolVars>>

Answer(h) ==
  /\ call[h] = "handling"
  /\ call' = [call EXCEPT ![h] = "answered"]
  /\ nodeMu' = {}
  /\ UNCHANGED <<stop, rpcMuHeld, stopCh, accepting, poolVars>>

-----------------------------------------------------------------------------
(* Node.Stop *)

BeginStop(c) ==
  /\ stop[c] = "idle"
  /\ stop' = [stop EXCEPT ![c] = "locking"]
  /\ UNCHANGED <<call, nodeMu, rpcMuHeld, stopCh, accepting, poolVars>>

\* Under the lock: a second caller returns, the first closes stopCh and stops the timer.
LockForStop(c) ==
  /\ stop[c] = "locking" /\ nodeMu = {}
  /\ IF stopCh
     THEN stop' = [stop EXCEPT ![c] = "returned"] /\ UNCHANGED <<nodeMu, stopCh>>
     ELSE stop' = [stop EXCEPT ![c] = "stopping"] /\ nodeMu' = {c} /\ stopCh' = TRUE
  /\ UNCHANGED <<call, rpcMuHeld, accepting, poolVars>>

\* Server.Stop takes Server.mu (readers hold it for one step only) and enters GracefulStop.
StopServer(c) ==
  /\ stop[c] = "stopping"
  /\ stop' = [stop EXCEPT ![c] = "draining"]
  /\ rpcMuHeld' = TRUE
  /\ accepting' = FALSE
  /\ UNCHANGED <<call, nodeMu, stopCh, poolVars>>

\* Mutant of Drained: the connections are closed without waiting.
NotDrained == TRUE

\* What GracefulStop waits for.
Drained == \A h \in Call : call[h] \in {"away", "answered"}

\* GracefulStop returns.
ServerStopped(c) ==
  /\ stop[c] = "draining" /\ Drained
  /\ stop' = [stop EXCEPT ![c] = "closing"]
  /\ rpcMuHeld' = FALSE
  /\ UNCHANGED <<call, nodeMu, stopCh, accepting, poolVars>>

\* CloseAll waits for a sender that dials; Node.mu is released when it is done.
FinishStop(c) ==
  /\ stop[c] = "closing"
  /\ CloseAll
  /\ stop' = [stop EXCEPT ![c] = "returned"]
  /\ nodeMu' = {}
  /\ UNCHANGED <<call, rpcMuHeld, stopCh, accepting>>

-----------------------------------------------------------------------------
(* Senders; a response is handled under Node.mu, also after Stop *)

InPool(s) ==
  /\ StartSend(s) \/ Lookup(s) \/ LockPool(s) \/ Connect(s) \/ DialTimeout(s)
       \/ CallFails(s) \/ Responds(s)
  /\ UNCHANGED serverVars

HandleResponse(s) ==
  /\ SenderAt(s, "response") /\ nodeMu = {}
  /\ SenderGoes(s, "idle")
  /\ UNCHANGED <<serverVars, poolMu, clients, conns>>

-----------------------------------------------------------------------------
StepOfCall(h) == ReadHandler(h) \/ LockNode(h) \/ Answer(h)

StepOfStop(c) == LockForStop(c) \/ StopServer(c) \/ ServerStopped(c) \/ FinishStop(c)

StepOfSend(s) == (InPool(s) /\ ~SenderAt(s, "idle")) \/ HandleResponse(s)

Next ==
  \/ \E h \in Call : Accept(h) \/ StepOfCall(h)
  \/ \E c \in Caller : BeginStop(c) \/ StepOfStop(c)
  \/ \E s \in Sender : InPool(s) \/ HandleResponse(s)

\* Every goroutine that can go on does, and whoever waits for a lock that is released again
\* and again gets it (sync.Mutex is fair to those who wait long).  Dials and calls time out.
\* Nothing makes calls arrive, or begins a send.
Fairness ==
  /\ \A h \in Call : SF_vars(StepOfCall(h))
  /\ \A c \in Caller : SF_vars(StepOfStop(c))
  /\ \A s \in Sender : SF_vars(StepOfSend(s))

Spec == Init /\ [][Next]_vars /\ Fairness

-----------------------------------------------------------------------------
(* Properties *)

\* Once Stop has returned to anyone, no handler of an RPC works on the node any more.
QuietAfterStop ==
  (\E c \in Caller : stop[c] = "returned") =>
    \A h \in Call : call[h] \in {"away", "answered"}

\* A call that arrives is answered, unless somebody stops the node.
CallsAnswered ==
  \A h \in Call : call[h] = "accepted" ~> call[h] = "answered" \/ stopCh

\* Only a call that was accepted and has not locked the node when Stop does can keep Stop from
\* returning: two callers, answered calls and calls that hold the lock never do.
StopWaitsForCallsOnly ==
  \A c \in Caller : stop[c] = "locking" ~>
    \/ stop[c] = "returned"
    \/ stopCh /\ \E h \in Call : call[h] \in {"accepted", "dispatched"}

\* Every open connection is the one of a client in the pool, however lookups, dials and
\* CloseAll interleave: none is opened twice and then forgotten.
PoolHasEveryConnection ==
  \A p \in Peer : conns[p] = IF p \in clients THEN 1 ELSE 0

\* A dead peer holds up the sends to all the others while it is dialed, but each of them ends,
\* unless Stop begins, which keeps Node.mu locked while it waits for its calls.
SendsEnd ==
  \A s \in Sender : SenderAt(s, "lookup") ~> SenderAt(s, "idle") \/ stopCh

\* What does not hold (Shutdown_connections.cfg): a sender that comes after CloseAll connects again.
NoConnectionAfterStop ==
  (\E c \in Caller : stop[c] = "returned") => \A p \in Peer : conns[p] = 0

\* Stop returns.
StopReturns == \A c \in Caller : stop[c] = "locking" ~> stop[c] = "returned"
=============================================================================
