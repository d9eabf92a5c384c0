------------------------------ MODULE MCSnapshots ------------------------------
(* Snapshots for TLC: writers are interchangeable; a log of puts and deletes *)
(* of a key and of batches, which all end up under the empty key.            *)
EXTENDS Snapshots

CONSTANTS k1, v1

Put == [type |-> "put", key |-> k1, value |-> v1]
Delete == [type |-> "delete", key |-> k1, value |-> v1]

OneKey == {Put, Delete, [type |-> "batch", commands |-> <<Delete>>]}

WriterSymmetry == Permutations(Writer)
===============================================================================
