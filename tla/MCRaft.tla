--------------------------------- MODULE MCRaft ---------------------------------
(***************************************************************************)
(* Raft for TLC: the servers are interchangeable.                          *)
(***************************************************************************)
EXTENDS Raft

ServerSymmetry == Permutations(Server)
=============================================================================
