---------------------------- MODULE KvStateMachine ----------------------------
(***************************************************************************)
(* The key-value state machine of pkg/statemachine/kv.go, as operators on  *)
(* its map: Apply, Snapshot and Restore.                                   *)
(***************************************************************************)
EXTENDS Naturals, SequencesExt, FiniteSetsExt

CONSTANTS
  Key,       \* the keys of clients
  Value,     \* the values of clients
  EmptyKey,  \* the empty string
  Absent,    \* what a key that is not in the map has for a value
  Chunks     \* pieces in which a snapshot is written

ASSUME KvAssumption ==
  /\ EmptyKey \notin Key /\ Absent \notin Value
  /\ Chunks \in Nat \ {0}

NilValue == EmptyKey

Store == [Key \cup {EmptyKey} -> Value \cup {NilValue, Absent}]
EmptyStore == [k \in Key \cup {EmptyKey} |-> Absent]

\* Entries of the log: a Command, or the BatchCommand of pkg/api/batch.go.
Command == [type : {"put", "delete"}, key : Key, value : Value]
Batch == [type : {"batch"}, commands : {<<c>> : c \in Command}]
Entry == Command \cup Batch

\* json.Unmarshal into a Command: a BatchCommand has none of its fields, which
\* keep their zero values, and the zero CommandType is CommandPut.
Decode(entry) ==
  IF entry.type = "batch"
  THEN [type |-> "put", key |-> EmptyKey, value |-> NilValue]
  ELSE entry

\* Mutant of Apply: delete leaves the key in the map.
ApplyKeepsDeleted(store, entry) ==
  LET cmd == Decode(entry)
  IN  [store EXCEPT ![cmd.key] = IF cmd.type = "put" THEN cmd.value ELSE NilValue]

Apply(store, entry) ==
  LET cmd == Decode(entry)
  IN  [store EXCEPT ![cmd.key] = IF cmd.type = "put" THEN cmd.value ELSE Absent]

\* gob walks the map in any order, so one map has several encodings.  The
\* bytes are cut in chunks; a chunk belongs to one encoding of one map.
Encodings(store) ==
  LET several == Cardinality({k \in DOMAIN store : store[k] # Absent}) > 1
  IN  {[i \in 1..Chunks |-> [of |-> store, order |-> o]] :
         o \in IF several THEN {1, 2} ELSE {1}}

\* Restore fails, or gives a map nobody has ever seen, on bytes that are not
\* an encoding of one map.
Restorable(bytes) ==
  Len(bytes) = Chunks /\ \A i \in 1..Chunks : bytes[i] = bytes[1]

Restore(bytes) == IF Restorable(bytes) THEN bytes[1].of ELSE [k \in Key |-> Absent]

\* The reference: a key has what the last of the entries about it says.
LastWrites(log, n) ==
  [k \in DOMAIN EmptyStore |->
     LET about == {i \in 1..n : Decode(log[i]).key = k}
         last == Decode(log[Max(about)])
     IN  IF about = {} \/ last.type = "delete" THEN Absent ELSE last.value]
===============================================================================
