----------------------------- MODULE Persistence -----------------------------
(***************************************************************************)
(* The persistence layer of a node (pkg/raft/persistence.go): every call   *)
(* changes the BoltDB store in one transaction (pkg/storage/store.go), and *)
(* then repeats the change in the write-ahead log.  The layer has no lock  *)
(* of its own, so calls interleave between those two steps.  Recovery      *)
(* (pkg/raft/recovery.go) reads the store; the WAL is what is left to      *)
(* recover from when the store is lost.                                    *)
(*                                                                         *)
(* bbolt is external: db.Update is atomic, and durable when it returns.    *)
(***************************************************************************)
EXTENDS Wal

CONSTANTS
  Caller,       \* goroutines that call the layer
  MaxIndex,     \* log indices are 1..MaxIndex
  MaxTerm,      \* terms are 1..MaxTerm
  MaxBatch,     \* entries of one PersistLogEntries
  MaxCalls,     \* bound: calls that begin
  MaxFaults     \* bound: crashes, losses of power, restarts and I/O errors

ASSUME PersistenceAssumption ==
  /\ {MaxIndex, MaxTerm, MaxBatch} \subseteq Nat \ {0}
  /\ {MaxCalls, MaxFaults} \subseteq Nat

VARIABLES
  store,     \* the buckets: metadata, log and snapshot
  todo,      \* the steps that the call of each caller still has to take
  holder,    \* who holds FileWAL.mu between two steps, at most one caller
  calls, faults,  \* counters
  behind,    \* history: keys whose last change may be missing in the WAL
  mixed      \* history: two calls were under way at the same time

callVars == <<store, todo, holder>>
countVars == <<calls, faults>>
historyVars == <<behind, mixed>>
vars == <<walVars, callVars, countVars, historyVars>>

Index == 1..MaxIndex
Term == 1..MaxTerm
NoTerm == 0

LogRecord == [type : {"log"}, index : Index, term : Term]
MetaRecord == [type : {"meta"}, index : {0}, term : Term]
SnapRecord == [type : {"snap"}, index : Index, term : Term]
Record == LogRecord \cup MetaRecord \cup SnapRecord

\* What a record is about: an index of the log, the metadata, the snapshot.
Key(r) == <<r.type, IF r.type = "log" THEN r.index ELSE 0>>
LogKeysFrom(index) == {<<"log", i>> : i \in index..MaxIndex}

EmptyStore ==
  [meta |-> NoTerm, log |-> [i \in Index |-> NoTerm],
   snap |-> [index |-> 0, term |-> NoTerm]]

Init ==
  /\ WalInit
  /\ store = EmptyStore
  /\ todo = [c \in Caller |-> <<>>]
  /\ holder = {}
  /\ calls = 0 /\ faults = 0
  /\ behind = {} /\ mixed = FALSE

-----------------------------------------------------------------------------
(* The calls, as the steps they take *)

Step(op, records, from) == [op |-> op, recs |-> records, from |-> from]

PersistMetadata(r) ==
  << Step("SaveMetadata", <<r>>, 0), Step("Append", <<r>>, 0), Step("Sync", <<r>>, 0) >>

PersistLogEntries(rs) ==
  << Step("SaveLogEntries", rs, 0), Step("AppendBatch", rs, 0), Step("Sync", rs, 0) >>

DeleteLogEntriesFrom(index) ==
  << Step("DeleteFrom", <<>>, index), Step("Truncate", <<>>, index),
     Step("Sync", <<>>, index) >>

PersistSnapshot(r) ==
  << Step("SaveSnapshot", <<r>>, 0), Step("Append", <<r>>, 0), Step("Sync", <<r>>, 0) >>

\* The keys a step is about.
Keys(step) ==
  {Key(step.recs[i]) : i \in 1..Len(step.recs)}
    \cup (IF step.from = 0 THEN {} ELSE LogKeysFrom(step.from))

LastIndex == Max({0} \cup {i \in Index : store.log[i] # NoTerm})

\* RecoverState and VerifyIntegrity demand indices 1, 2, ... without a gap.
SequentialLog == \A i \in Index : store.log[i] # NoTerm => \A j \in 1..i : store.log[j] # NoTerm

Entries(from, n, t) ==
  [k \in 1..n |-> [type |-> "log", index |-> from + k - 1, term |-> t]]

StoredEntries ==
  [i \in 1..LastIndex |-> [type |-> "log", index |-> i, term |-> store.log[i]]]

\* CreateCheckpoint writes again what the node holds: what it has persisted.
CreateCheckpoint ==
  PersistMetadata([type |-> "meta", index |-> 0, term |-> store.meta])
    \o (IF LastIndex = 0 THEN <<>> ELSE PersistLogEntries(StoredEntries))
    \o << Step("Sync", <<>>, 0) >>

Idle(c) == todo[c] = <<>>

Begin(c, steps) ==
  /\ Idle(c) /\ calls < MaxCalls
  /\ todo' = [todo EXCEPT ![c] = steps]
  /\ calls' = calls + 1
  /\ mixed' = (mixed \/ \E d \in Caller : ~Idle(d))
  /\ UNCHANGED <<walVars, store, holder, faults, behind>>

BeginMetadata(c) ==
  \E r \in MetaRecord : r.term >= store.meta /\ Begin(c, PersistMetadata(r))

\* The entries continue the log or replace its end; they are not of a term
\* that the node has yet to enter.
BeginLogEntries(c) ==
  \E from \in 1..(LastIndex + 1), n \in 1..MaxBatch, t \in 1..Max({1, store.meta}) :
    /\ from + n - 1 <= MaxIndex
    /\ from > store.snap.index
    /\ Begin(c, PersistLogEntries(Entries(from, n, t)))

\* Only what conflicts is deleted, never what a snapshot covers.
BeginDelete(c) ==
  \E index \in (store.snap.index + 1)..LastIndex : Begin(c, DeleteLogEntriesFrom(index))

\* A snapshot takes the term of an entry that the node holds.
BeginSnapshot(c) ==
  \E index \in (store.snap.index + 1)..LastIndex :
    /\ store.log[index] # NoTerm
    /\ Begin(c, PersistSnapshot([type |-> "snap", index |-> index,
                                 term |-> store.log[index]]))

\* The log that the node holds has no gap.
BeginCheckpoint(c) ==
  store.meta # NoTerm /\ SequentialLog /\ Begin(c, CreateCheckpoint)

-----------------------------------------------------------------------------
(* Steps in the store *)

At(c, op) == ~Idle(c) /\ Head(todo[c]).op = op
Done(c) == todo' = [todo EXCEPT ![c] = Tail(@)]
Return(c) == todo' = [todo EXCEPT ![c] = <<>>]

InStore(c, op, newStore) ==
  /\ At(c, op)
  /\ store' = newStore
  /\ Done(c)
  /\ behind' = behind \cup Keys(Head(todo[c]))
  /\ UNCHANGED <<walVars, holder, countVars, mixed>>

SaveMetadata(c) ==
  InStore(c, "SaveMetadata", [store EXCEPT !.meta = Head(todo[c]).recs[1].term])

Put(log, records) ==
  [i \in Index |->
     LET at == {k \in 1..Len(records) : records[k].index = i}
     IN  IF at = {} THEN log[i] ELSE records[Max(at)].term]

SaveLogEntries(c) ==
  InStore(c, "SaveLogEntries", [store EXCEPT !.log = Put(@, Head(todo[c]).recs)])

\* Mutant of Without: only the first of the keys is deleted.
WithoutOne(log, from) == [i \in Index |-> IF i = from THEN NoTerm ELSE log[i]]

Without(log, from) == [i \in Index |-> IF i >= from THEN NoTerm ELSE log[i]]

DeleteFrom(c) ==
  InStore(c, "DeleteFrom", [store EXCEPT !.log = Without(@, Head(todo[c]).from)])

SaveSnapshot(c) ==
  LET r == Head(todo[c]).recs[1]
  IN  InStore(c, "SaveSnapshot",
              [store EXCEPT !.snap = [index |-> r.index, term |-> r.term]])

\* The transaction is rolled back and the call returns the error.
StoreFails(c) ==
  /\ faults < MaxFaults
  /\ \E op \in {"SaveMetadata", "SaveLogEntries", "DeleteFrom", "SaveSnapshot"} : At(c, op)
  /\ Return(c)
  /\ faults' = faults + 1
  /\ UNCHANGED <<walVars, store, holder, calls, historyVars>>

-----------------------------------------------------------------------------
(* Steps in the WAL, under FileWAL.mu *)

Free == holder = {}
Lock(c) == holder' = {c}
Unlock == holder' = {}
OnlyWal == UNCHANGED <<store, countVars, historyVars>>

WalAppend(c) ==
  /\ At(c, "Append") /\ Free
  /\ appendEntry(Head(todo[c]).recs[1])
  /\ Done(c)
  /\ UNCHANGED <<trunc, holder>> /\ OnlyWal

\* AppendBatch appends one record at a time and ends with a sync.
BatchAppend(c) ==
  LET recs == Head(todo[c]).recs
  IN  /\ At(c, "AppendBatch") /\ (Free \/ holder = {c})
      /\ recs # <<>>
      /\ appendEntry(Head(recs))
      /\ todo' = [todo EXCEPT ![c][1].recs = Tail(recs)]
      /\ Lock(c)
      /\ UNCHANGED trunc /\ OnlyWal

BatchSync(c) ==
  /\ At(c, "AppendBatch") /\ holder = {c}
  /\ Head(todo[c]).recs = <<>>
  /\ sync
  /\ Done(c) /\ Unlock
  /\ UNCHANGED trunc /\ OnlyWal

\* The error of a rotation comes back to the caller.
AppendFails(c) ==
  /\ faults < MaxFaults
  /\ At(c, "Append") \/ (At(c, "AppendBatch") /\ Head(todo[c]).recs # <<>>)
  /\ Free \/ holder = {c}
  /\ RotateFails
  /\ Return(c) /\ Unlock
  /\ faults' = faults + 1
  /\ UNCHANGED <<trunc, store, calls, historyVars>>

TruncateBegin(c) ==
  /\ At(c, "Truncate") /\ Free
  /\ TruncateRead(Head(todo[c]).from - 1)
  /\ Lock(c)
  /\ UNCHANGED todo /\ OnlyWal

\* A record cut by an earlier crash makes every later Truncate fail here.
TruncateUnreadable(c) ==
  /\ At(c, "Truncate") /\ Free /\ ~Readable
  /\ Return(c)
  /\ UNCHANGED <<walVars, holder>> /\ OnlyWal

TruncateStep(c) ==
  /\ At(c, "Truncate") /\ holder = {c}
  /\ RemoveSegment \/ RecreateSegment \/ RewriteRecord
  /\ UNCHANGED <<todo, holder>> /\ OnlyWal

TruncateEnd(c) ==
  /\ At(c, "Truncate") /\ holder = {c}
  /\ TruncateSync
  /\ Done(c) /\ Unlock /\ OnlyWal

TruncateFails(c) ==
  /\ faults < MaxFaults
  /\ At(c, "Truncate") /\ holder = {c}
  /\ RemoveFails \/ RecreateFails \/ RewriteFails
  /\ Return(c) /\ Unlock
  /\ faults' = faults + 1
  /\ UNCHANGED <<store, calls, historyVars>>

WalSync(c) ==
  /\ At(c, "Sync") /\ Free
  /\ sync
  /\ Done(c)
  /\ behind' = behind \ Keys(Head(todo[c]))
  /\ UNCHANGED <<trunc, store, holder, countVars, mixed>>

-----------------------------------------------------------------------------
(* Crashes and restarts *)

Restarted ==
  /\ todo' = [c \in Caller |-> <<>>]
  /\ holder' = {}
  /\ UNCHANGED <<store, calls, historyVars>>

\* Some caller is in a sync of the WAL.
Syncing ==
  \E c \in Caller :
    (At(c, "Sync") /\ Free) \/ (At(c, "AppendBatch") /\ Head(todo[c]).recs = <<>>)

Crash ==
  /\ faults < MaxFaults
  /\ WalCrash(Syncing) \/ WalPowerLoss(Syncing)
  /\ faults' = faults + 1
  /\ Restarted

\* appendEntry with neither file nor writer: the process panics.
AppendPanics(c) ==
  /\ At(c, "Append") \/ At(c, "AppendBatch")
  /\ Free /\ ~open
  /\ WalCrash(FALSE)
  /\ Restarted
  /\ UNCHANGED faults

\* PersistenceLayer.Close between calls, and the next start.
Reopen ==
  /\ faults < MaxFaults
  /\ \A c \in Caller : Idle(c)
  /\ WalReopen
  /\ faults' = faults + 1
  /\ Restarted

BeginCall(c) ==
  \/ BeginMetadata(c) \/ BeginLogEntries(c) \/ BeginDelete(c)
  \/ BeginSnapshot(c) \/ BeginCheckpoint(c)

StepOfCall(c) ==
  \/ SaveMetadata(c) \/ SaveLogEntries(c) \/ DeleteFrom(c) \/ SaveSnapshot(c)
  \/ WalAppend(c) \/ BatchAppend(c) \/ BatchSync(c) \/ WalSync(c)
  \/ TruncateBegin(c) \/ TruncateUnreadable(c) \/ TruncateStep(c) \/ TruncateEnd(c)
  \/ AppendPanics(c)

Next ==
  \/ \E c \in Caller :
       BeginCall(c) \/ StepOfCall(c)
         \/ StoreFails(c) \/ AppendFails(c) \/ TruncateFails(c)
  \/ Crash \/ Reopen

\* A call that can go on does: goroutines are scheduled, and FileWAL.mu is
\* handed to a goroutine that waits long enough.
Fairness == \A c \in Caller : SF_vars(StepOfCall(c))

Spec == Init /\ [][Next]_vars
FairSpec == Spec /\ Fairness

-----------------------------------------------------------------------------
(* Recovery *)

VerifyIntegrity == SequentialLog /\ Readable

\* What a replay of the WAL finds for a key: the last record about it.
Replayed(key) ==
  LET about == {i \in 1..Len(disk) : Key(disk[i].rec) = key}
  IN  IF about = {} THEN NoTerm ELSE disk[Max(about)].rec.term

Stored(key) ==
  CASE key[1] = "log"  -> store.log[key[2]]
    [] key[1] = "meta" -> store.meta
    [] key[1] = "snap" -> store.snap.term

AllKeys == LogKeysFrom(1) \cup {<<"meta", 0>>, <<"snap", 0>>}

-----------------------------------------------------------------------------
(* Properties *)

StepType ==
  [op : {"SaveMetadata", "SaveLogEntries", "DeleteFrom", "SaveSnapshot",
         "Append", "AppendBatch", "Truncate", "Sync"},
   recs : Seq(Record), from : 0..MaxIndex]

TypeOK ==
  /\ disk \in Seq([rec : Record, seg : Nat, part : {Header, Torn, Whole}, synced : BOOLEAN])
  /\ current \in Nat
  /\ buffer \in Seq(Record) /\ spilled \in {None, Header, Torn}
  /\ trunc.stage \in {"no", "closed", "removing", "rewriting"}
  /\ trunc.keep \in Seq(Record) /\ trunc.done \in Nat
  /\ promised \in 0..Len(disk)
  /\ {open, damaged, mixed} \subseteq BOOLEAN
  /\ store \in [meta : Term \cup {NoTerm}, log : [Index -> Term \cup {NoTerm}],
                snap : [index : Index \cup {0}, term : Term \cup {NoTerm}]]
  /\ todo \in [Caller -> Seq(StepType)]
  /\ holder \in SUBSET Caller /\ Cardinality(holder) <= 1
  /\ behind \subseteq AllKeys

\* As long as none of the named causes has damaged it, the WAL keeps the
\* promise of DurableLog: every interleaving of its callers, every rotation,
\* every truncation and every crash is a step of the abstract log.
DL == INSTANCE DurableLog WITH
        Position <- 0..MaxIndex,
        durable <- DurableRecords, volatile <- VolatileRecords, intact <- ~damaged
WalIsDurable == DL!Spec

\* Whatever crashes in between, a replay of the WAL gives for every key what
\* the store holds, except for the keys whose last call did not come to its
\* end.  Callers that overlap can order the store and the WAL differently.
WalAgreesWithStore ==
  (~damaged /\ ~mixed /\ trunc.stage = "no") =>
    \A key \in AllKeys \ behind : Replayed(key) = Stored(key)

\* With no call under way, VerifyIntegrity and RecoverState succeed.
IntegrityHolds ==
  (~damaged /\ ~mixed /\ \A c \in Caller : Idle(c)) => VerifyIntegrity

\* What the WAL does not give (Persistence_survive.cfg): a crash loses records
\* that a Sync had covered, when it falls into the rewriting of Truncate or,
\* with the power, on a segment that a rotation closed without an fsync.
CrashKeepsSynced ==
  [][Crash => IsPrefix(DurableRecords, RecordsOf(disk'))]_vars

\* Nor this (Persistence_readable.cfg): one record cut by a crash makes ReadAll,
\* VerifyIntegrity and every later Truncate fail.
ReadableWhenIdle == (\A c \in Caller : Idle(c)) => Readable

\* Every call returns, or the process dies under it (Persistence_calls.cfg).
CallsReturn == \A c \in Caller : (~Idle(c)) ~> Idle(c)

CallerSymmetry == Permutations(Caller)
===============================================================================
