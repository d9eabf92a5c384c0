---------------------------- MODULE ShutdownProofs ----------------------------
(***************************************************************************)
(* Theorems about module Shutdown, for any number of callers, calls,       *)
(* senders and peers: nothing works on a stopped node, and the pool knows  *)
(* every connection.                                                       *)
(***************************************************************************)
EXTENDS Shutdown, TLAPS

-----------------------------------------------------------------------------
(* The inductive invariants *)

\* Node.mu is held by the caller that stops the node, from closing stopCh on.
StopHoldsNode ==
  \A c \in Caller : stop[c] \in {"stopping", "draining", "closing"} => nodeMu = {c} /\ stopCh

\* ... and by the handler that works on it.
HandlerHoldsNode == \A h \in Call : call[h] = "handling" => nodeMu = {h}

\* When stopCh is closed, somebody is on the way to stop the server, or it accepts no call;
\* somebody waits for the calls being served, or there are none.
StopIsUnderWay ==
  stopCh =>
    /\ (\E c \in Caller : stop[c] = "stopping") \/ ~accepting
    /\ (\E c \in Caller : stop[c] \in {"stopping", "draining"}) \/ Drained

\* Nobody is still stopping the server when Stop has returned to anyone.
ReturnedLast ==
  \A c \in Caller : stop[c] = "returned" =>
    stopCh /\ \A d \in Caller : stop[d] \notin {"stopping", "draining", "closing"}

StopType ==
  /\ stop \in [Caller -> {"idle", "locking", "stopping", "draining", "closing", "returned"}]
  /\ call \in [Call -> {"away", "accepted", "dispatched", "handling", "answered"}]

StopInv ==
  StopType /\ StopHoldsNode /\ HandlerHoldsNode /\ StopIsUnderWay /\ ReturnedLast

PoolType ==
  /\ sender \in [Sender -> [step : {"idle", "lookup", "missing", "dialing", "calling", "response"},
                            peer : Peer]]
  /\ clients \subseteq Peer
  /\ conns \in [Peer -> Nat]

\* A sender that dials holds the pool's lock, and its peer has no client.
DialerHoldsPool ==
  \A s \in Sender : SenderAt(s, "dialing") => poolMu = {s} /\ sender[s].peer \notin clients

PoolInv == PoolType /\ DialerHoldsPool /\ PoolHasEveryConnection

-----------------------------------------------------------------------------
(* The node *)

\* A started node satisfies the invariant.
LEMMA StopInvInit == Init => StopInv
  BY DEF Init, StopInv, StopType, StopHoldsNode, HandlerHoldsNode, StopIsUnderWay, ReturnedLast

\* A step of an RPC keeps it; a handler that unlocks Node.mu has held it.
LEMMA StopInvCall ==
  ASSUME StopInv, NEW h \in Call, Accept(h) \/ StepOfCall(h)
  PROVE  StopInv'
<1> USE DEF StopInv, StopType, StopHoldsNode, HandlerHoldsNode, StopIsUnderWay, ReturnedLast, Drained
<1>1. CASE Accept(h)
  BY <1>1 DEF Accept
<1>2. CASE ReadHandler(h)
  BY <1>2 DEF ReadHandler
<1>3. CASE LockNode(h)
  BY <1>3 DEF LockNode
<1>4. CASE Answer(h)
  <2>1. \A c \in Caller : stop[c] \notin {"stopping", "draining", "closing"}
    BY <1>4, ShutdownAssumption DEF Answer
  <2> QED BY <1>4, <2>1 DEF Answer
<1> QED BY <1>1, <1>2, <1>3, <1>4 DEF StepOfCall

\* A step of Node.Stop keeps it.
LEMMA StopInvStop ==
  ASSUME StopInv, NEW c \in Caller, BeginStop(c) \/ StepOfStop(c)
  PROVE  StopInv'
<1> USE DEF StopInv, StopType, StopHoldsNode, HandlerHoldsNode, StopIsUnderWay, ReturnedLast, Drained
<1>1. CASE BeginStop(c)
  BY <1>1 DEF BeginStop
<1>2. CASE LockForStop(c)
  <2>1. \A d \in Caller : stop[d] \notin {"stopping", "draining", "closing"}
    BY <1>2 DEF LockForStop
  <2>2. CASE stopCh
    BY <1>2, <2>1, <2>2 DEF LockForStop
  <2>3. CASE ~stopCh
    BY <1>2, <2>1, <2>3 DEF LockForStop
  <2> QED BY <2>2, <2>3
<1>3. CASE StopServer(c)
  BY <1>3 DEF StopServer
<1>4. CASE ServerStopped(c)
  BY <1>4 DEF ServerStopped
<1>5. CASE FinishStop(c)
  BY <1>5 DEF FinishStop
<1> QED BY <1>1, <1>2, <1>3, <1>4, <1>5 DEF StepOfStop

\* Every step keeps it; senders do not touch what it speaks of.
LEMMA StopInvStep == StopInv /\ [Next]_vars => StopInv'
<1> SUFFICES ASSUME StopInv, [Next]_vars PROVE StopInv'
  OBVIOUS
<1>1. CASE UNCHANGED serverVars
  BY <1>1 DEF serverVars, StopInv, StopType, StopHoldsNode, HandlerHoldsNode, StopIsUnderWay,
              ReturnedLast, Drained
<1>2. ASSUME NEW s \in Sender, InPool(s) \/ HandleResponse(s) PROVE UNCHANGED serverVars
  BY <1>2 DEF InPool, HandleResponse, serverVars
<1> QED BY <1>1, <1>2, StopInvCall, StopInvStop DEF Next, vars

\* Once Stop has returned to anyone, no handler of an RPC works on the node any more: not for
\* any number of concurrent calls of Stop and of RPCs.  Node.Stop gets there by holding Node.mu
\* over GracefulStop, which is what StopInv says step by step.
THEOREM StoppedNodeIsQuiet == Spec => []QuietAfterStop
<1>1. StopInv => QuietAfterStop
  BY DEF StopInv, StopIsUnderWay, ReturnedLast, QuietAfterStop, Drained
<1> QED BY <1>1, StopInvInit, StopInvStep, PTL DEF Spec

-----------------------------------------------------------------------------
(* The pool *)

\* An empty pool satisfies the invariant.
LEMMA PoolInvInit == Init => PoolInv
  BY DEF Init, PoolInit, PoolInv, PoolType, DialerHoldsPool, SenderAt, PoolHasEveryConnection

\* A step of a sender keeps it; GetClient looks again once it has the write lock.
LEMMA PoolInvSend ==
  ASSUME PoolInv, NEW s \in Sender, InPool(s) \/ HandleResponse(s)
  PROVE  PoolInv'
<1> USE DEF PoolInv, PoolType, DialerHoldsPool, PoolHasEveryConnection, SenderAt, SenderGoes, PoolFree
<1>1. CASE StartSend(s)
  BY <1>1 DEF StartSend
<1>2. CASE Lookup(s)
  BY <1>2 DEF Lookup
<1>3. CASE LockPool(s)
  <2>1. PoolType'
    BY <1>3 DEF LockPool
  <2>2. DialerHoldsPool'
    <3>1. \A r \in Sender : ~SenderAt(r, "dialing")
      BY <1>3 DEF LockPool
    <3> QED BY <1>3, <3>1 DEF LockPool
  <2> QED BY <1>3, <2>1, <2>2 DEF LockPool
<1>4. CASE Connect(s)
  <2> DEFINE p == sender[s].peer
  <2>1. p \in Peer /\ p \notin clients /\ poolMu = {s}
    BY <1>4 DEF Connect
  <2>2. conns' = [conns EXCEPT ![p] = 1] /\ clients' = clients \cup {p}
    <3>1. conns[p] + 1 = 1
      BY <2>1
    <3>2. conns' = [conns EXCEPT ![p] = conns[p] + 1] /\ clients' = clients \cup {p}
      BY <1>4, Zenon DEF Connect
    <3> QED BY <3>1, <3>2
  <2>3. PoolType'
    <3>1. sender' = [sender EXCEPT ![s].step = "calling"]
      BY <1>4 DEF Connect
    <3>2. clients' \subseteq Peer /\ conns' \in [Peer -> Nat]
      BY <2>1, <2>2
    <3> QED BY <3>1, <3>2
  <2>4. DialerHoldsPool'
    <3>1. \A r \in Sender : ~SenderAt(r, "dialing")'
      BY <1>4, <2>1 DEF Connect
    <3> QED BY <3>1
  <2>5. PoolHasEveryConnection'
    BY <2>1, <2>2
  <2> QED BY <2>3, <2>4, <2>5
<1>5. CASE DialTimeout(s)
  <2>1. \A r \in Sender : ~SenderAt(r, "dialing")'
    <3>1. poolMu = {s} /\ sender' = [sender EXCEPT ![s].step = "idle"]
      BY <1>5 DEF DialTimeout
    <3> QED BY <3>1
  <2> QED BY <1>5, <2>1 DEF DialTimeout
<1>6. CASE CallFails(s)
  BY <1>6 DEF CallFails
<1>7. CASE Responds(s)
  BY <1>7 DEF Responds
<1>8. CASE HandleResponse(s)
  BY <1>8 DEF HandleResponse
<1> QED BY <1>1, <1>2, <1>3, <1>4, <1>5, <1>6, <1>7, <1>8 DEF InPool

\* CloseAll keeps it: with the lock free nobody dials.
LEMMA PoolInvClose ==
  ASSUME PoolInv, CloseAll
  PROVE  PoolInv'
  BY DEF CloseAll, PoolInv, PoolType, DialerHoldsPool, PoolHasEveryConnection, SenderAt, PoolFree

\* Every step keeps it; of Node.Stop only CloseAll touches the pool.
LEMMA PoolInvStep == PoolInv /\ [Next]_vars => PoolInv'
<1> SUFFICES ASSUME PoolInv, [Next]_vars PROVE PoolInv'
  OBVIOUS
<1>1. CASE UNCHANGED poolVars
  BY <1>1 DEF poolVars, PoolInv, PoolType, DialerHoldsPool, PoolHasEveryConnection, SenderAt
<1>2. ASSUME NEW h \in Call, Accept(h) \/ StepOfCall(h) PROVE UNCHANGED poolVars
  BY <1>2 DEF Accept, StepOfCall, ReadHandler, LockNode, Answer
<1>3. ASSUME NEW c \in Caller, BeginStop(c) \/ StepOfStop(c)
      PROVE  CloseAll \/ UNCHANGED poolVars
  BY <1>3 DEF BeginStop, StepOfStop, LockForStop, StopServer, ServerStopped, FinishStop
<1> QED BY <1>1, <1>2, <1>3, PoolInvSend, PoolInvClose DEF Next, vars

\* Every open connection is that of a client in the pool, for any senders and peers: the second
\* look of GetClient under the write lock, and its dialing under that lock, leave no connection
\* behind that CloseAll would not find.
THEOREM PoolKnowsConnections == Spec => []PoolHasEveryConnection
<1>1. PoolInv => PoolHasEveryConnection
  BY DEF PoolInv
<1> QED BY <1>1, PoolInvInit, PoolInvStep, PTL DEF Spec
===============================================================================
