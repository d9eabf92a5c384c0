------------------------------ MODULE ClientPool ------------------------------
(***************************************************************************)
(* The pool of connections to the other nodes (pkg/rpc/client.go) and the  *)
(* goroutines that send RPCs through it: sendRequestVote,                  *)
(* sendAppendEntries and sendHeartbeatToPeer (pkg/raft).  GetClient dials  *)
(* with ClientPool.mu locked.                                              *)
(*                                                                         *)
(* gRPC is external: grpc.DialContext connects, or fails when its timeout  *)
(* has passed; a call gets a response or fails by its own timeout.         *)
(***************************************************************************)
EXTENDS Naturals

CONSTANTS
  Sender,  \* goroutines that send
  Peer,    \* the other nodes
  Dead     \* those of them that do not answer

ASSUME PoolAssumption == Dead \subseteq Peer

VARIABLES
  sender,   \* where each sender is, and the peer it sends to
  poolMu,   \* who holds ClientPool.mu between two steps, at most one sender
  clients,  \* ClientPool.clients: the peers that have a client
  conns     \* open connections to each peer

poolVars == <<sender, poolMu, clients, conns>>

PoolInit ==
  /\ sender \in [Sender -> [step : {"idle"}, peer : Peer]]
  /\ poolMu = {}
  /\ clients = {}
  /\ conns = [p \in Peer |-> 0]

PoolFree == poolMu = {}
SenderAt(s, step) == sender[s].step = step
SenderGoes(s, step) == sender' = [sender EXCEPT ![s].step = step]

-----------------------------------------------------------------------------
(* GetClient *)

StartSend(s) ==
  /\ SenderAt(s, "idle")
  /\ SenderGoes(s, "lookup")
  /\ UNCHANGED <<poolMu, clients, conns>>

\* Under the read lock.
Lookup(s) ==
  /\ SenderAt(s, "lookup") /\ PoolFree
  /\ SenderGoes(s, IF sender[s].peer \in clients THEN "calling" ELSE "missing")
  /\ UNCHANGED <<poolMu, clients, conns>>

\* Mutant of LockPool: there is no second look under the write lock.
LockPoolUnchecked(s) ==
  /\ SenderAt(s, "missing") /\ PoolFree
  /\ SenderGoes(s, "dialing") /\ poolMu' = {s}
  /\ UNCHANGED <<clients, conns>>

LockPool(s) ==
  /\ SenderAt(s, "missing") /\ PoolFree
  /\ IF sender[s].peer \in clients
     THEN SenderGoes(s, "calling") /\ UNCHANGED poolMu
     ELSE SenderGoes(s, "dialing") /\ poolMu' = {s}
  /\ UNCHANGED <<clients, conns>>

Connect(s) ==
  LET p == sender[s].peer
  IN  /\ SenderAt(s, "dialing") /\ p \notin Dead
      /\ clients' = clients \cup {p}
      /\ conns' = [conns EXCEPT ![p] = @ + 1]
      /\ poolMu' = {}
      /\ SenderGoes(s, "calling")

\* Mutant of DialTimeout: the error path leaves the pool locked.
DialTimeoutKeepsLock(s) ==
  /\ SenderAt(s, "dialing")
  /\ SenderGoes(s, "idle")
  /\ UNCHANGED <<poolMu, clients, conns>>

DialTimeout(s) ==
  /\ SenderAt(s, "dialing")
  /\ poolMu' = {}
  /\ SenderGoes(s, "idle")
  /\ UNCHANGED <<clients, conns>>

-----------------------------------------------------------------------------
(* The call on the client, which may have been closed meanwhile.  A        *)
(* heartbeat first reads its prevLogIndex, under the read lock of Node.mu: *)
(* here this is part of the time that the call takes.                      *)

CallFails(s) ==
  /\ SenderAt(s, "calling")
  /\ SenderGoes(s, "idle")
  /\ UNCHANGED <<poolMu, clients, conns>>

Responds(s) ==
  /\ SenderAt(s, "calling")
  /\ sender[s].peer \in clients
  /\ SenderGoes(s, "response")
  /\ UNCHANGED <<poolMu, clients, conns>>

\* CloseAll, by a caller for whom the pool is free.
CloseAll ==
  /\ PoolFree
  /\ conns' = [p \in Peer |-> IF p \in clients THEN conns[p] - 1 ELSE conns[p]]
  /\ clients' = {}
  /\ UNCHANGED <<sender, poolMu>>
===============================================================================
