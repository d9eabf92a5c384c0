------------------------------ MODULE DurableLog ------------------------------
(***************************************************************************)
(* What the WAL interface of pkg/storage/types.go promises its callers:    *)
(* records come back in the order they were appended, what a Sync covered  *)
(* survives every crash, Truncate removes exactly the records above an     *)
(* index, and a crash costs no more than a tail of the records that no     *)
(* Sync has covered yet.                                                   *)
(*                                                                         *)
(* The promise ends with a Fault.  The detailed specification decides when *)
(* one happens; it names each cause.                                       *)
(***************************************************************************)
EXTENDS Naturals, Sequences, Subsequences

CONSTANTS
  Record,    \* what can be appended; a record has an index
  Position   \* indices at which the log is truncated

VARIABLES
  durable,   \* the records that a Sync has covered
  volatile,  \* the records after them
  intact     \* no fault so far

vars == <<durable, volatile, intact>>

Init == durable = <<>> /\ volatile = <<>> /\ intact = TRUE

DoAppend(r) ==
  /\ volatile' = Append(volatile, r)
  /\ UNCHANGED durable

DoSync ==
  /\ durable' = durable \o volatile
  /\ volatile' = <<>>

UpTo(log, position) == Subsequence(log, {i \in 1..Len(log) : log[i].index <= position})

DoTruncate(position) ==
  /\ durable' = UpTo(durable \o volatile, position)
  /\ volatile' = <<>>

DoCrash(survivors) ==
  /\ volatile' = SubSeq(volatile, 1, survivors)
  /\ UNCHANGED durable

Fault == intact' = FALSE

Next ==
  \/ /\ intact = TRUE /\ intact' = TRUE
     /\ \/ \E r \in Record : DoAppend(r)
        \/ DoSync
        \/ \E position \in Position : DoTruncate(position)
        \/ \E survivors \in 0..Len(volatile) : DoCrash(survivors)
  \/ Fault

Spec == Init /\ [][Next]_vars
===============================================================================
