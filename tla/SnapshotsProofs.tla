--------------------------- MODULE SnapshotsProofs ---------------------------
(***************************************************************************)
(* Theorems of module Snapshots, for any keys, values, logs, writers and   *)
(* bounds: what a restart restores is what the entries make of the map,    *)
(* the current snapshot can be loaded, and a restart does not go back.     *)
(***************************************************************************)
EXTENDS Snapshots, NumberFacts, TLAPS

Chunk == [of : Store, order : 0..2]

StepName == {"idle", "writing", "closing", "rename data", "rename meta", "finish", "hung"}
Kind == {"none", "writer", "create"}
Work == [step : StepName, kind : Kind, index : Nat, inode : Nat,
         bytes : Seq(Chunk), sent : Nat, alone : BOOLEAN]

\* The map of a prefix of the log, and the bytes that stand for it.
BytesOf(i) == Encodings(LastWrites(log, i))

-----------------------------------------------------------------------------
(* The inductive invariant *)

ExactType ==
  /\ log \in [Index -> Inputs]
  /\ applied \in 0..MaxApplied
  /\ writes \in Nat
  /\ tmp \in [Index -> Nat]
  /\ tmpMeta \in [Index -> Seq(Chunk)] /\ meta \in [Index -> Seq(Chunk)]
  /\ work \in [Writer -> Work]

\* A writer works on the bytes of the index it writes.
WorkIsExact ==
  \A w \in Writer : work[w].step # "idle" =>
    work[w].index \in Index /\ work[w].bytes \in BytesOf(work[w].index)

\* A checksum is the one of the name it is stored under, whatever the data file holds.
SumsAreExact ==
  \A i \in Index :
    /\ tmpMeta[i] # NoSum => tmpMeta[i] \in BytesOf(i)
    /\ meta[i] # NoSum => meta[i] \in BytesOf(i)

ExactInv == ExactType /\ StateIsExact /\ WorkIsExact /\ SumsAreExact

-----------------------------------------------------------------------------
(* Facts about the state machine *)

\* What json.Unmarshal makes of an entry is a command on a key the map can have.
LEMMA DecodeType ==
  ASSUME NEW e \in Entry
  PROVE  /\ Decode(e).key \in Key \cup {EmptyKey}
         /\ Decode(e).value \in Value \cup {NilValue}
  BY DEF Decode, Entry, Command, Batch, NilValue

\* The reference map of a prefix of the log is a map.
LEMMA LastWritesType ==
  ASSUME NEW l \in [Index -> Inputs], NEW n \in 0..MaxApplied
  PROVE  LastWrites(l, n) \in Store
<1> SUFFICES ASSUME NEW k \in Key \cup {EmptyKey}
             PROVE  LastWrites(l, n)[k] \in Value \cup {NilValue, Absent}
  BY DEF LastWrites, Store, EmptyStore
<1> DEFINE about == {i \in 1..n : Decode(l[i]).key = k}
<1>1. CASE about = {}
  BY <1>1 DEF LastWrites, EmptyStore
<1>2. CASE about # {}
  <2>1. Max(about) \in about
    <3>1. n \in Nat /\ about \subseteq 0..n
      BY SnapshotsAssumption
    <3> HIDE DEF about
    <3> QED BY <1>2, <3>1, MaxType
  <2>2. Max(about) \in Index
    BY <2>1, SnapshotsAssumption DEF Index
  <2>3. Decode(l[Max(about)]).value \in Value \cup {NilValue}
    BY <2>2, DecodeType, SnapshotsAssumption
  <2> QED BY <2>3 DEF LastWrites, EmptyStore
<1> QED BY <1>1, <1>2

\* Applying the next entry to what the entries so far have made.
LEMMA ApplyIsExact ==
  ASSUME NEW l \in [Index -> Inputs], NEW n \in 0..MaxApplied, n < MaxApplied
  PROVE  Apply(LastWrites(l, n), l[n + 1]) = LastWrites(l, n + 1)
<1> DEFINE cmd == Decode(l[n + 1])
           about(m, k) == {i \in 1..m : Decode(l[i]).key = k}
           of(m, k) == IF about(m, k) = {} \/ Decode(l[Max(about(m, k))]).type = "delete"
                       THEN Absent ELSE Decode(l[Max(about(m, k))]).value
<1>1. n + 1 \in Index /\ n \in Nat /\ n + 1 \in Nat
  BY SnapshotsAssumption DEF Index
<1>2. cmd.key \in Key \cup {EmptyKey} /\ cmd.type \in {"put", "delete"}
  <2>1. l[n + 1] \in Entry
    BY <1>1, SnapshotsAssumption
  <2> QED BY <2>1, DecodeType DEF Decode, Entry, Command, Batch
<1>3. \A m : LastWrites(l, m) = [k \in Key \cup {EmptyKey} |-> of(m, k)]
  BY DEF LastWrites, EmptyStore
<1>4. \A k \in Key \cup {EmptyKey} : k # cmd.key => about(n + 1, k) = about(n, k)
  <2>1. 1..(n + 1) = 1..n \cup {n + 1}
    BY <1>1
  <2> QED BY <2>1
<1>5. Max(about(n + 1, cmd.key)) = n + 1
  <2> DEFINE a == about(n + 1, cmd.key)
  <2>1. n + 1 \in a /\ a \subseteq 0..(n + 1)
    <3>1. n + 1 \in 1..(n + 1) /\ 1..(n + 1) \subseteq 0..(n + 1)
      BY <1>1
    <3> QED BY <3>1, Zenon
  <2>2. a # {}
    BY <2>1
  <2> HIDE DEF a
  <2>3. Max(a) \in a /\ \A y \in a : y <= Max(a)
    BY <1>1, <2>1, <2>2, MaxType
  <2>4. Max(a) = n + 1
    <3>1. \A m : m \in 0..(n + 1) /\ n + 1 <= m => m = n + 1
      BY <1>1
    <3>2. Max(a) \in 0..(n + 1) /\ n + 1 <= Max(a)
      BY <2>1, <2>3, Zenon
    <3> QED BY <3>1, <3>2, Zenon
  <2> QED BY <2>4 DEF a
<1>6. about(n + 1, cmd.key) # {}
  <2>1. n + 1 \in 1..(n + 1)
    BY <1>1
  <2> QED BY <2>1
<1>7. of(n + 1, cmd.key) = IF cmd.type = "put" THEN cmd.value ELSE Absent
  BY <1>2, <1>5, <1>6
<1>8. \A k \in Key \cup {EmptyKey} : k # cmd.key => of(n + 1, k) = of(n, k)
  BY <1>4
<1>9. Apply(LastWrites(l, n), l[n + 1])
        = [LastWrites(l, n) EXCEPT ![cmd.key] = IF cmd.type = "put" THEN cmd.value ELSE Absent]
  BY DEF Apply
<1> HIDE DEF of, cmd
<1> QED BY <1>2, <1>3, <1>7, <1>8, <1>9

\* What Snapshot encodes: as many chunks as there are, all of the same map.
LEMMA EncodingsType ==
  ASSUME NEW st \in Store, NEW b \in Encodings(st)
  PROVE  b \in Seq(Chunk) /\ Len(b) = Chunks /\ \A i \in 1..Chunks : b[i] \in Chunk /\ b[i].of = st
<1>1. PICK o \in {1, 2} : b = [i \in 1..Chunks |-> [of |-> st, order |-> o]]
  BY DEF Encodings
<1> QED BY <1>1, KvAssumption DEF Chunk

\* Restoring what Snapshot has encoded, in whichever order it walked the map.
LEMMA RestoreInverts ==
  ASSUME NEW st \in Store, NEW b \in Encodings(st)
  PROVE  Restore(b) = st
<1>1. PICK o \in {1, 2} : b = [i \in 1..Chunks |-> [of |-> st, order |-> o]]
  BY DEF Encodings
<1>2. Restorable(b)
  BY <1>1, EncodingsType, KvAssumption DEF Restorable
<1> QED BY <1>1, <1>2, KvAssumption DEF Restore

-----------------------------------------------------------------------------
(* The steps *)

\* A writer that does nothing is of the type of writers.
LEMMA IdleType == Idle \in Work
<1>1. <<>> \in Seq(Chunk)
  OBVIOUS
<1> QED BY <1>1 DEF Idle, Work, StepName, Kind

\* A new manager and a new state machine satisfy the invariant.
LEMMA ExactInit == Init => ExactInv
<1> SUFFICES ASSUME Init PROVE ExactInv
  OBVIOUS
<1> USE DEF Init
<1>1. ExactType
  <2>1. <<>> \in Seq(Chunk) /\ 0 \in 0..MaxApplied
    BY SnapshotsAssumption
  <2> QED BY <2>1, IdleType DEF ExactType, NoSum
<1>2. StateIsExact
  BY DEF StateIsExact, LastWrites, EmptyStore
<1>3. WorkIsExact /\ SumsAreExact
  BY DEF WorkIsExact, SumsAreExact, Idle
<1> QED BY <1>1, <1>2, <1>3 DEF ExactInv

\* Applying an entry keeps it.
LEMMA ExactApply ==
  ASSUME ExactInv, ApplyEntry
  PROVE  ExactInv'
<1> USE DEF ExactInv, ApplyEntry
<1>1. ExactType'
  BY SnapshotsAssumption DEF ExactType, dirVars, countVars
<1>2. StateIsExact'
  BY ApplyIsExact DEF ExactType, StateIsExact
<1>3. WorkIsExact' /\ SumsAreExact'
  BY DEF WorkIsExact, SumsAreExact, BytesOf, dirVars
<1> QED BY <1>1, <1>2, <1>3

\* Create and OpenSnapshotWriter take the bytes of the map as it is.
LEMMA ExactStart ==
  ASSUME ExactInv, NEW w \in Writer, NEW kind \in Kind, NEW step \in StepName,
         NEW content \in BOOLEAN, Start(w, kind, step, content)
  PROVE  ExactInv'
<1> USE DEF ExactInv, kvVars
<1>1. applied \in Index /\ applied \in Nat
  BY SnapshotsAssumption DEF Start, ExactType, Index
<1>2. UNCHANGED <<log, applied, kv, tmpMeta, meta>>
  BY DEF Start
<1>3. PICK bytes \in Encodings(kv) :
        work' = [v \in Writer |->
                   IF v = w
                   THEN [step |-> step, kind |-> kind, index |-> applied,
                         inode |-> TempInode(applied), bytes |-> bytes,
                         sent |-> 0, alone |-> Others(w, applied) = {}]
                   ELSE [work[v] EXCEPT !.alone = @ /\ v \notin Others(w, applied)]]
  BY DEF Start
<1>4. kv = LastWrites(log, applied) /\ kv \in Store
  BY LastWritesType DEF StateIsExact, ExactType
<1>5. bytes \in Seq(Chunk)
  BY <1>4, EncodingsType
<1>6. TempInode(applied) \in Nat
  BY <1>1 DEF TempInode, ExactType
<1>7. ExactType'
  <2>1. writes' \in Nat /\ tmp' \in [Index -> Nat]
    BY <1>1, <1>6 DEF Start, ExactType
  <2>2. \A v \in Writer : work[v] \in Work
    BY DEF ExactType
  <2>3. \A v \in Writer : work'[v] \in Work
    BY <1>1, <1>3, <1>5, <1>6, <2>2 DEF Work
  <2>4. work' \in [Writer -> Work]
    BY <1>3, <2>3
  <2> QED BY <1>2, <2>1, <2>4 DEF ExactType
<1>8. WorkIsExact'
  <2> SUFFICES ASSUME NEW v \in Writer, work'[v].step # "idle"
               PROVE  work'[v].index \in Index /\ work'[v].bytes \in BytesOf(work'[v].index)
    BY <1>2 DEF WorkIsExact, BytesOf
  <2>1. CASE v = w
    BY <1>1, <1>3, <1>4, <2>1 DEF BytesOf
  <2>2. CASE v # w
    BY <1>3, <2>2 DEF WorkIsExact, ExactType, Work
  <2> QED BY <2>1, <2>2
<1>9. SumsAreExact' /\ StateIsExact'
  BY <1>2 DEF SumsAreExact, StateIsExact, BytesOf
<1> QED BY <1>7, <1>8, <1>9

\* A step of a writer that has the bytes it works on.
LEMMA ExactWriter ==
  ASSUME ExactInv, NEW w \in Writer, StepOfWriter(w) \/ Abort(w) \/ IOError(w)
  PROVE  ExactInv'
<1> USE DEF ExactInv, kvVars, At, Goto, countVars, historyVars, dirVars
<1>1. UNCHANGED <<log, applied, kv, writes>>
  BY DEF StepOfWriter, Abort, IOError, Missing, Failed, Write, WriteMeta, RenameData, RenameMeta,
         Finish, CreateHangs
<1>2. StateIsExact'
  BY <1>1 DEF StateIsExact
<1>3. work[w] \in Work /\ work[w].step \in StepName
  BY DEF ExactType, Work
<1>4. work[w].step # "idle"
  BY DEF StepOfWriter, Abort, IOError, Missing, Failed, Write, WriteMeta, RenameData, RenameMeta,
         Finish, CreateHangs
<1>5. work[w].index \in Index /\ work[w].bytes \in BytesOf(work[w].index)
  BY <1>4 DEF WorkIsExact
<1>6. \/ work' = [work EXCEPT ![w] = Idle]
      \/ \E step \in StepName : work' = [work EXCEPT ![w].step = step]
      \/ \E n \in Nat, step \in StepName : work' = [work EXCEPT ![w].sent = n, ![w].step = step]
  <2>1. work[w].sent + 1 \in Nat
    BY <1>3 DEF Work
  <2> QED BY <2>1 DEF StepOfWriter, Abort, IOError, Missing, Failed, Write, WriteMeta, RenameData,
                      RenameMeta, Finish, CreateHangs, StepName
<1>7. /\ work' \in [Writer -> Work]
      /\ \A v \in Writer : work'[v].step # "idle" =>
           work'[v].index = work[v].index /\ work'[v].bytes = work[v].bytes /\ work[v].step # "idle"
  <2>1. CASE work' = [work EXCEPT ![w] = Idle]
    BY <2>1, IdleType DEF ExactType, Idle
  <2>2. CASE \E step \in StepName : work' = [work EXCEPT ![w].step = step]
    <3>1. PICK step \in StepName : work' = [work EXCEPT ![w].step = step]
      BY <2>2
    <3>2. [work[w] EXCEPT !.step = step] \in Work
      BY <1>3 DEF Work
    <3>3. work' = [work EXCEPT ![w] = [work[w] EXCEPT !.step = step]]
      BY <3>1
    <3>4. /\ [work[w] EXCEPT !.step = step].index = work[w].index
          /\ [work[w] EXCEPT !.step = step].bytes = work[w].bytes
      BY <1>3 DEF Work
    <3> QED BY <1>4, <3>2, <3>3, <3>4 DEF ExactType
  <2>3. CASE \E n \in Nat, step \in StepName : work' = [work EXCEPT ![w].sent = n, ![w].step = step]
    <3>1. PICK n \in Nat, step \in StepName :
            work' = [work EXCEPT ![w].sent = n, ![w].step = step]
      BY <2>3
    <3> DEFINE r == [work[w] EXCEPT !.sent = n, !.step = step]
    <3>2. r \in Work /\ r.index = work[w].index /\ r.bytes = work[w].bytes
      BY <1>3 DEF Work
    <3>3. work' = [work EXCEPT ![w] = r]
      BY <3>1 DEF ExactType
    <3> HIDE DEF r
    <3> QED BY <1>4, <3>2, <3>3 DEF ExactType
  <2> QED BY <1>6, <2>1, <2>2, <2>3
<1>8. WorkIsExact'
  BY <1>1, <1>7 DEF WorkIsExact, BytesOf
<1>9. /\ tmp' \in [Index -> Nat]
      /\ tmpMeta' \in [Index -> Seq(Chunk)] /\ meta' \in [Index -> Seq(Chunk)]
      /\ \A i \in Index :
           /\ tmpMeta'[i] # NoSum => tmpMeta'[i] \in BytesOf(i)
           /\ meta'[i] # NoSum => meta'[i] \in BytesOf(i)
  <2> USE DEF ExactType, SumsAreExact
  <2>1. work[w].bytes \in Seq(Chunk) /\ NoSum \in Seq(Chunk) /\ 0 \in Nat
    BY <1>3 DEF Work, NoSum
  <2>2. CASE UNCHANGED <<tmp, tmpMeta, meta>>
    BY <2>2
  <2>3. CASE Abort(w)
    BY <2>1, <2>3 DEF Abort
  <2>4. CASE WriteMeta(w)
    BY <1>5, <2>1, <2>4 DEF WriteMeta
  <2>5. CASE RenameData(w)
    BY <2>1, <2>5 DEF RenameData
  <2>6. CASE RenameMeta(w)
    BY <1>5, <2>1, <2>6 DEF RenameMeta
  <2>7. CASE Failed(w)
    BY <1>5, <2>1, <2>7 DEF Failed
  <2> QED BY <2>2, <2>3, <2>4, <2>5, <2>6, <2>7
          DEF StepOfWriter, IOError, Missing, Write, Finish, CreateHangs
<1>10. ExactType'
  BY <1>1, <1>7, <1>9 DEF ExactType
<1>11. SumsAreExact'
  BY <1>1, <1>9 DEF SumsAreExact, BytesOf
<1> QED BY <1>2, <1>8, <1>10, <1>11

\* A crash or a loss of power at any point, and what the next process restores.
LEMMA ExactRestart ==
  ASSUME ExactInv, Crash \/ PowerLoss
  PROVE  ExactInv'
<1> USE DEF ExactInv
<1>1. /\ UNCHANGED <<log, writes, tmp, tmpMeta>>
      /\ \/ UNCHANGED meta
         \/ \E lost \in SUBSET Index :
              meta' = [i \in Index |-> IF i \in lost THEN NoSum ELSE meta[i]]
  BY DEF Crash, PowerLoss, Restarted, dirVars
<1>2. Restarted
  BY DEF Crash, PowerLoss
<1>3. /\ meta' \in [Index -> Seq(Chunk)]
      /\ \A i \in Index : meta'[i] # NoSum => meta'[i] \in BytesOf(i)
  <2>1. NoSum \in Seq(Chunk)
    BY DEF NoSum
  <2> QED BY <1>1, <2>1 DEF ExactType, SumsAreExact
<1>4. SumsAreExact'
  BY <1>1, <1>3 DEF SumsAreExact, BytesOf
<1>5. work' = [w \in Writer |-> Idle] /\ WorkIsExact'
  BY <1>2 DEF Restarted, WorkIsExact, Idle
<1>6. current' = 0 \/ current' \in Index
  <2> DEFINE T == {0} \cup {i \in Index : meta'[i] # NoSum}
  <2>1. MaxApplied \in Nat /\ T \subseteq 0..MaxApplied /\ T # {}
    BY SnapshotsAssumption DEF Index
  <2>2. current' = Max(T)
    BY <1>2 DEF Restarted, LatestMetadata
  <2>3. Max(T) \in T
    <3> HIDE DEF T
    <3> QED BY <2>1, MaxType
  <2> QED BY <2>2, <2>3
<1>7. applied' \in 0..MaxApplied /\ StateIsExact'
  <2>1. CASE ~Load'
    <3>1. kv' = EmptyStore /\ applied' = 0
      BY <1>2, <2>1 DEF Restarted
    <3> QED BY <3>1, SnapshotsAssumption DEF StateIsExact, LastWrites, EmptyStore
  <2>2. CASE Load'
    <3>1. /\ current' \in Index /\ meta'[current'] # NoSum
          /\ CurrentBytes' = meta'[current']
      BY <1>6, <2>2 DEF Load, Loads, CurrentBytes
    <3>2. kv' = Restore(CurrentBytes') /\ applied' = current'
      BY <1>2, <2>2 DEF Restarted, Restore, Restorable
    <3>3. current' \in 0..MaxApplied
      BY <3>1, SnapshotsAssumption DEF Index
    <3>4. LastWrites(log, current') \in Store
      BY <3>3, LastWritesType DEF ExactType
    <3>5. meta'[current'] \in Encodings(LastWrites(log, current'))
      BY <1>3, <3>1 DEF BytesOf
    <3>6. kv' = LastWrites(log, current')
      BY <3>1, <3>2, <3>4, <3>5, RestoreInverts
    <3> QED BY <1>1, <3>2, <3>3, <3>6 DEF StateIsExact
  <2> QED BY <2>1, <2>2
<1>8. ExactType'
  BY <1>1, <1>3, <1>5, <1>7, IdleType DEF ExactType
<1> QED BY <1>4, <1>5, <1>7, <1>8

\* Every step of the specification keeps the invariant.
LEMMA ExactStep == ExactInv /\ [Next]_vars => ExactInv'
<1> SUFFICES ASSUME ExactInv, [Next]_vars PROVE ExactInv'
  OBVIOUS
<1>1. CASE UNCHANGED vars
  BY <1>1 DEF vars, kvVars, dirVars, countVars, historyVars, ExactInv, ExactType, StateIsExact,
              WorkIsExact, SumsAreExact, BytesOf
<1>2. ASSUME NEW w \in Writer, OpenSnapshotWriter(w) \/ Create(w) PROVE ExactInv'
  <2>1. {"writer", "create"} \subseteq Kind /\ {"writing", "closing"} \subseteq StepName
    BY DEF Kind, StepName
  <2>2. Start(w, "writer", "writing", FALSE) \/ Start(w, "create", "closing", TRUE)
    BY <1>2 DEF OpenSnapshotWriter, Create
  <2> QED BY <2>1, <2>2, ExactStart
<1> QED BY <1>1, <1>2, ExactApply, ExactWriter, ExactRestart DEF Next

\* The map is always what the applied entries make of it, also when it was restored: for any log,
\* any number of writers on the same names, and a crash, an I/O error or a loss of power at any
\* step.  The checksum of loadSnapshot carries it: whatever the data file holds, what is loaded is
\* what some writer of that index had encoded.
THEOREM RestoredStateIsExact == Spec => []StateIsExact
<1>1. ExactInv => StateIsExact
  BY DEF ExactInv
<1> QED BY <1>1, ExactInit, ExactStep, PTL DEF Spec

-----------------------------------------------------------------------------
(* The current snapshot can be loaded: the inductive invariant *)

Active(w) == work[w].step # "idle"

LoadType ==
  /\ writes <= MaxWrites
  /\ file \in [Inode -> Seq(Chunk)]
  /\ data \in [Index -> Nat]
  /\ current \in 0..MaxApplied /\ done \in 0..MaxApplied
  /\ unsound \subseteq Index

\* A file has at most one name, and who writes to a file with a name writes that name.
OwnFiles ==
  /\ \A i \in Index : tmp[i] <= writes /\ data[i] <= writes
  /\ \A i, j \in Index :
       /\ tmp[i] # 0 => tmp[i] # data[j]
       /\ i # j => (tmp[i] # 0 => tmp[i] # tmp[j]) /\ (data[i] # 0 => data[i] # data[j])
  /\ \A w \in Writer : Active(w) =>
       /\ work[w].inode \in 1..writes
       /\ \A j \in Index : work[w].inode \in {tmp[j], data[j]} => j = work[w].index

\* Who is alone on its name has met no other writer of it.
AloneInv == \A w \in Writer : Active(w) /\ work[w].alone => Others(w, work[w].index) = {}

\* A file that is written to under its final name, or waits for its .meta file, is known to be
\* unsound; a writer that finishes has put its .meta file in place.
MarkedInv ==
  \A w \in Writer :
    /\ At(w, "writing") /\ work[w].inode = data[work[w].index] => work[w].index \in unsound
    /\ At(w, "rename meta") => work[w].index \in unsound
    /\ At(w, "finish") => meta[work[w].index] # NoSum

\* What a writer that is alone on its name has brought about.
Progress(r) ==
  /\ r.step = "writing" =>
       /\ r.sent < Chunks /\ tmp[r.index] = r.inode
       /\ Len(file[r.inode]) = r.sent
       /\ \A k \in 1..r.sent : file[r.inode][k] = r.bytes[k]
  /\ r.step \in {"closing", "rename data"} => tmp[r.index] = r.inode /\ file[r.inode] = r.bytes
  /\ r.step \in {"rename data", "rename meta"} => tmpMeta[r.index] = r.bytes
  /\ r.step = "rename meta" => data[r.index] = r.inode /\ file[r.inode] = r.bytes

ProgressInv == \A w \in Writer : Active(w) /\ work[w].alone => Progress(work[w])

\* A name that is not unsound and has a .meta file has the data file that belongs to it.
SoundInv ==
  /\ \A i \in Index \ unsound : meta[i] # NoSum => data[i] # 0 /\ file[data[i]] = meta[i]
  /\ current # 0 /\ current \notin unsound => meta[current] # NoSum

\* Every snapshot that has become current has its .meta file.
DoneInv == done # 0 => meta[done] # NoSum

LoadInv == LoadType /\ OwnFiles /\ AloneInv /\ MarkedInv /\ ProgressInv /\ SoundInv /\ DoneInv

-----------------------------------------------------------------------------
(* The current snapshot can be loaded: the steps *)

\* What a step of a writer leaves alone: the other writers, and what it is writing itself.
LEMMA WriterKeeps ==
  ASSUME ExactType, NEW w \in Writer, StepOfWriter(w) \/ Abort(w) \/ IOError(w)
  PROVE  /\ Active(w) /\ work[w] \in Work
         /\ UNCHANGED <<applied, log, writes>>
         /\ \A v \in Writer \ {w} : work'[v] = work[v]
         /\ work'[w].step # "idle" =>
              /\ work'[w].index = work[w].index /\ work'[w].inode = work[w].inode
              /\ work'[w].bytes = work[w].bytes /\ work'[w].alone = work[w].alone
<1> USE DEF kvVars, At, Goto, countVars, historyVars, dirVars
<1>1. UNCHANGED <<log, applied, writes>>
  BY DEF StepOfWriter, Abort, IOError, Missing, Failed, Write, WriteMeta, RenameData, RenameMeta,
         Finish, CreateHangs
<1>2. work \in [Writer -> Work] /\ work[w] \in Work
  BY DEF ExactType
<1>3. Active(w)
  BY DEF Active, StepOfWriter, Abort, IOError, Missing, Failed, Write, WriteMeta, RenameData,
         RenameMeta, Finish, CreateHangs
<1>4. \/ work' = [work EXCEPT ![w] = Idle]
      \/ \E step : work' = [work EXCEPT ![w].step = step]
      \/ \E n, step : work' = [work EXCEPT ![w].sent = n, ![w].step = step]
  BY ZenonT(40) DEF StepOfWriter, Abort, IOError, Missing, Failed, Write, WriteMeta, RenameData, RenameMeta,
         Finish, CreateHangs
<1>5. CASE work' = [work EXCEPT ![w] = Idle]
  BY <1>1, <1>2, <1>3, <1>5 DEF Idle
<1>6. CASE \E step : work' = [work EXCEPT ![w].step = step]
  <2>1. PICK step : work' = [work EXCEPT ![w].step = step]
    BY <1>6
  <2>2. work'[w] = [work[w] EXCEPT !.step = step] /\ \A v \in Writer \ {w} : work'[v] = work[v]
    BY <1>2, <2>1
  <2> QED BY <1>1, <1>2, <1>3, <2>2 DEF Work
<1>7. CASE \E n, step : work' = [work EXCEPT ![w].sent = n, ![w].step = step]
  <2>1. PICK n, step : work' = [work EXCEPT ![w].sent = n, ![w].step = step]
    BY <1>7
  <2>2. work'[w] = [work[w] EXCEPT !.sent = n, !.step = step] /\ \A v \in Writer \ {w} : work'[v] = work[v]
    BY <1>2, <2>1
  <2> QED BY <1>1, <1>2, <1>3, <2>2 DEF Work
<1> QED BY <1>4, <1>5, <1>6, <1>7

\* Where writers only stop, those that are alone on their names remain so.
LEMMA AloneKept ==
  ASSUME AloneInv,
         \A v \in Writer : Active(v)' =>
           Active(v) /\ work'[v].index = work[v].index /\ work'[v].alone = work[v].alone
  PROVE  AloneInv'
BY DEF AloneInv, Active, Others

\* Two writers, one of which is alone on its name, are on different names.
LEMMA AloneElsewhere ==
  ASSUME AloneInv, NEW v \in Writer, NEW w \in Writer, v # w, Active(v), Active(w), work[v].alone
  PROVE  work[v].index # work[w].index
BY DEF AloneInv, Active, Others

\* What a writer has brought about stays when its own names and its file stay as they are.
LEMMA ProgressKept ==
  ASSUME NEW v \in Writer, Progress(work[v]),
         work'[v].step = work[v].step, work'[v].index = work[v].index,
         work'[v].inode = work[v].inode, work'[v].bytes = work[v].bytes,
         work'[v].sent = work[v].sent,
         tmp'[work[v].index] = tmp[work[v].index],
         tmpMeta'[work[v].index] = tmpMeta[work[v].index],
         data'[work[v].index] = data[work[v].index],
         file'[work[v].inode] = file[work[v].inode] \/ work[v].step \in {"finish", "hung"}
  PROVE  Progress(work[v])'
<1>1. PICK r : r = work[v]
  OBVIOUS
<1>2. PICK q : q = work'[v]
  OBVIOUS
<1>3. Progress(r)
  BY <1>1 DEF Progress
<1>4. /\ q.step = r.step /\ q.index = r.index /\ q.inode = r.inode /\ q.bytes = r.bytes /\ q.sent = r.sent
      /\ tmp'[r.index] = tmp[r.index] /\ tmpMeta'[r.index] = tmpMeta[r.index]
      /\ data'[r.index] = data[r.index]
      /\ file'[r.inode] = file[r.inode] \/ r.step \in {"finish", "hung"}
  BY <1>1, <1>2
<1>5. Progress(q)'
  <2>1. CASE file'[r.inode] = file[r.inode]
    BY ZenonT(40), <1>3, <1>4, <2>1 DEF Progress
  <2>2. CASE r.step \in {"finish", "hung"}
    BY <1>4, <2>2 DEF Progress
  <2> QED BY <1>4, <2>1, <2>2
<1> QED BY <1>2, <1>5 DEF Progress

\* The file of a writer that is alone on its name has that name.
LEMMA OwnFileNamed ==
  ASSUME ExactInv, NEW v \in Writer, Active(v), Progress(work[v])
  PROVE  \/ work[v].step \in {"finish", "hung"}
         \/ work[v].inode \in {tmp[work[v].index], data[work[v].index]}
<1>1. work[v].step \in StepName
  BY DEF ExactInv, ExactType, Work
<1> QED BY <1>1 DEF Progress, Active, StepName

\* The types that the steps below use.
LEMMA LoadFacts ==
  ASSUME ExactInv, LoadInv
  PROVE  /\ MaxApplied \in Nat /\ MaxWrites \in Nat /\ writes \in Nat /\ Chunks \in Nat \ {0}
         /\ \A i \in Index : tmp[i] \in Nat /\ data[i] \in Nat
         /\ \A i \in Inode : file[i] \in Seq(Chunk)
         /\ current # 0 => current \in Index
         /\ done # 0 => done \in Index
         /\ \A w \in Writer : Active(w) =>
              /\ work[w].index \in Index /\ work[w].inode \in Inode /\ work[w].sent \in Nat
              /\ work[w].bytes \in Seq(Chunk) /\ Len(work[w].bytes) = Chunks
              /\ work[w].bytes # NoSum
<1>1. /\ MaxApplied \in Nat /\ MaxWrites \in Nat /\ writes \in Nat /\ Chunks \in Nat \ {0}
  BY SnapshotsAssumption, KvAssumption DEF ExactInv, ExactType
<1>2. ASSUME NEW w \in Writer, Active(w)
      PROVE  /\ work[w].index \in Index /\ work[w].inode \in Inode /\ work[w].sent \in Nat
             /\ work[w].bytes \in Seq(Chunk) /\ Len(work[w].bytes) = Chunks
             /\ work[w].bytes # NoSum
  <2>1. work[w].index \in Index /\ work[w].bytes \in Encodings(LastWrites(log, work[w].index))
    BY <1>2 DEF ExactInv, WorkIsExact, Active, BytesOf
  <2>2. work[w].index \in 0..MaxApplied
    BY <1>1, <2>1 DEF Index
  <2>3. LastWrites(log, work[w].index) \in Store
    BY <2>2, LastWritesType DEF ExactInv, ExactType
  <2>4. work[w].bytes \in Seq(Chunk) /\ Len(work[w].bytes) = Chunks
    BY <2>1, <2>3, EncodingsType
  <2>5. work[w].bytes # NoSum
    BY <1>1, <2>4 DEF NoSum
  <2>6. work[w].sent \in Nat
    BY DEF ExactInv, ExactType, Work
  <2>7. work[w].inode \in Inode
    BY <1>1, <1>2 DEF LoadInv, LoadType, OwnFiles, Inode
  <2> QED BY <2>1, <2>4, <2>5, <2>6, <2>7
<1>3. (current # 0 => current \in Index) /\ (done # 0 => done \in Index)
  BY <1>1 DEF LoadInv, LoadType, Index
<1> QED BY <1>1, <1>2, <1>3 DEF ExactInv, ExactType, LoadInv, LoadType

\* A new manager satisfies the invariant.
LEMMA LoadInit ==
  ASSUME Init
  PROVE  LoadInv
<1> USE DEF Init
<1>1. LoadType
  <2>1. <<>> \in Seq(Chunk)
    OBVIOUS
  <2> QED BY <2>1, SnapshotsAssumption DEF LoadType
<1>2. OwnFiles
  BY DEF OwnFiles, Active, Idle
<1>3. AloneInv /\ MarkedInv /\ ProgressInv
  BY DEF AloneInv, MarkedInv, ProgressInv, Active, At, Idle
<1>4. SoundInv /\ DoneInv
  BY DEF SoundInv, DoneInv
<1> QED BY <1>1, <1>2, <1>3, <1>4 DEF LoadInv

\* A writer that stops, or fails, may leave its files behind or remove them.
LEMMA LoadQuits ==
  ASSUME ExactInv, LoadInv, NEW w \in Writer, Abort(w) \/ Failed(w),
         StepOfWriter(w) \/ Abort(w) \/ IOError(w)
  PROVE  LoadInv'
<1> DEFINE i == work[w].index
<1> USE DEF LoadInv
<1>0. work'[w] = Idle /\ Active(w) /\ i \in Index /\ writes' = writes
  <2>1. work'[w] = Idle
    BY DEF Abort, Failed, ExactInv, ExactType
  <2> QED BY <2>1, WriterKeeps, LoadFacts DEF ExactInv
<1>1. /\ UNCHANGED <<current, file, data, meta, done, unsound>>
      /\ tmp' = tmp \/ tmp' = [tmp EXCEPT ![i] = 0]
      /\ tmpMeta' = tmpMeta \/ tmpMeta' = [tmpMeta EXCEPT ![i] = NoSum]
  BY DEF Abort, Failed, historyVars
<1>2. \A v \in Writer : Active(v)' => v # w /\ work'[v] = work[v] /\ Active(v)
  BY <1>0, WriterKeeps DEF ExactInv, Active, Idle
<1>3. \A j \in Index : tmp'[j] \in {0, tmp[j]} /\ (j # i => tmp'[j] = tmp[j] /\ tmpMeta'[j] = tmpMeta[j])
  BY <1>0, <1>1 DEF ExactInv, ExactType
<1>4. LoadType'
  BY <1>0, <1>1 DEF LoadType
<1>5. OwnFiles'
  <2>1. \A j \in Index : tmp'[j] <= writes' /\ data'[j] <= writes'
    BY <1>0, <1>1, <1>3, LoadFacts DEF OwnFiles
  <2>2. \A v \in Writer : Active(v)' => work'[v].inode \in 1..writes' /\ work'[v].inode # 0
    BY <1>0, <1>2, LoadFacts DEF OwnFiles
  <2>3. \A v \in Writer : Active(v)' =>
          \A j \in Index : work'[v].inode \in {tmp'[j], data'[j]} => j = work'[v].index
    BY <1>1, <1>2, <1>3, <2>2 DEF OwnFiles
  <2>4. \A k, j \in Index :
          /\ tmp'[k] # 0 => tmp'[k] # data'[j]
          /\ k # j => (tmp'[k] # 0 => tmp'[k] # tmp'[j]) /\ (data'[k] # 0 => data'[k] # data'[j])
    BY <1>1, <1>3 DEF OwnFiles
  <2> QED BY <2>1, <2>2, <2>3, <2>4 DEF OwnFiles
<1>6. AloneInv'
  BY <1>2, AloneKept
<1>7. MarkedInv'
  <2> SUFFICES ASSUME NEW v \in Writer, Active(v)'
               PROVE  /\ At(v, "writing")' /\ work'[v].inode = data'[work'[v].index] => work'[v].index \in unsound'
                      /\ At(v, "rename meta")' => work'[v].index \in unsound'
                      /\ At(v, "finish")' => meta'[work'[v].index] # NoSum
    BY DEF MarkedInv, At, Active
  <2> QED BY <1>1, <1>2 DEF MarkedInv, At
<1>8. ProgressInv'
  <2> SUFFICES ASSUME NEW v \in Writer, Active(v)', work'[v].alone
               PROVE  Progress(work[v])'
    BY <1>2 DEF ProgressInv
  <2>1. work'[v] = work[v] /\ Active(v) /\ v # w /\ Progress(work[v]) /\ work[v].index \in Index
    BY <1>2, LoadFacts DEF ProgressInv
  <2>2. work[v].index # i
    BY <1>0, <1>2, <2>1, AloneElsewhere
  <2> QED BY <1>1, <1>3, <2>1, <2>2, ProgressKept
<1>9. SoundInv' /\ DoneInv'
  BY <1>1 DEF SoundInv, DoneInv
<1> QED BY <1>4, <1>5, <1>6, <1>7, <1>8, <1>9

\* A finished snapshot becomes current; its .meta file is in place.
LEMMA LoadFinish ==
  ASSUME ExactInv, LoadInv, NEW w \in Writer, Finish(w) \/ CreateHangs(w)
  PROVE  LoadInv'
<1> DEFINE i == work[w].index
<1> USE DEF LoadInv
<1>0. /\ Active(w) /\ i \in Index /\ i \in 0..MaxApplied /\ writes' = writes
      /\ StepOfWriter(w)
  BY WriterKeeps, LoadFacts DEF StepOfWriter, ExactInv, Index
<1>1. /\ UNCHANGED <<file, tmp, data, tmpMeta, meta, unsound>>
      /\ current' = i /\ done' = Max({done, i}) /\ At(w, "finish")
  BY DEF Finish, CreateHangs, dirVars
<1>2. work'[w].step \in {"idle", "hung"}
  <2>1. work'[w] = Idle \/ work'[w] = [work[w] EXCEPT !.step = "hung"]
    BY DEF Finish, CreateHangs, Goto, ExactInv, ExactType
  <2> QED BY <1>0, <2>1, WriterKeeps DEF Idle, ExactInv, Work
<1>3. \A v \in Writer : Active(v)' =>
        /\ Active(v) /\ work'[v].index = work[v].index /\ work'[v].inode = work[v].inode
        /\ work'[v].alone = work[v].alone /\ (v # w => work'[v] = work[v])
  BY <1>0, WriterKeeps DEF ExactInv, Active
<1>4. done' \in {done, i}
  <2>1. {done, i} \subseteq 0..MaxApplied /\ MaxApplied \in Nat
    BY <1>0, LoadFacts DEF LoadType
  <2>2. Max({done, i}) \in {done, i}
    BY <2>1, MaxType
  <2> QED BY <1>1, <2>2
<1>5. LoadType'
  BY <1>0, <1>1, <1>4 DEF LoadType
<1>6. OwnFiles'
  BY <1>0, <1>1, <1>3 DEF OwnFiles
<1>7. AloneInv'
  BY <1>3, AloneKept
<1>8. MarkedInv'
  BY <1>1, <1>2, <1>3 DEF MarkedInv, At, Active
<1>9. ProgressInv'
  <2> SUFFICES ASSUME NEW v \in Writer, Active(v)', work'[v].alone
               PROVE  Progress(work[v])'
    BY DEF ProgressInv
  <2>1. CASE v = w
    BY <1>2, <2>1 DEF Progress, Active
  <2>2. CASE v # w
    BY <1>1, <1>3, <2>2, ProgressKept DEF ProgressInv
  <2> QED BY <2>1, <2>2
<1>10. meta'[i] # NoSum
  BY <1>1 DEF MarkedInv
<1>11. SoundInv' /\ DoneInv'
  BY <1>1, <1>4, <1>10 DEF SoundInv, DoneInv
<1> QED BY <1>5, <1>6, <1>7, <1>8, <1>9, <1>11

\* The checksum goes into the temporary .meta file.
LEMMA LoadWriteMeta ==
  ASSUME ExactInv, LoadInv, NEW w \in Writer, WriteMeta(w)
  PROVE  LoadInv'
<1> DEFINE i == work[w].index
<1> USE DEF LoadInv
<1>0. /\ Active(w) /\ i \in Index /\ writes' = writes /\ StepOfWriter(w)
  BY WriterKeeps, LoadFacts DEF StepOfWriter, ExactInv
<1>1. /\ UNCHANGED <<file, tmp, data, meta, unsound, current, done>>
      /\ At(w, "closing") /\ tmpMeta' = [tmpMeta EXCEPT ![i] = work[w].bytes]
  BY DEF WriteMeta, historyVars
<1>2. work'[w].step = "rename data"
  BY <1>0, WriterKeeps DEF WriteMeta, Goto, ExactInv, ExactType, Work
<1>3. \A v \in Writer : Active(v)' =>
        /\ Active(v) /\ work'[v].index = work[v].index /\ work'[v].inode = work[v].inode
        /\ work'[v].bytes = work[v].bytes
        /\ work'[v].alone = work[v].alone /\ (v # w => work'[v] = work[v])
  BY <1>0, WriterKeeps DEF ExactInv, Active
<1>4. \A j \in Index : tmpMeta'[j] = IF j = i THEN work[w].bytes ELSE tmpMeta[j]
  BY <1>0, <1>1 DEF ExactInv, ExactType
<1>5. LoadType'
  BY <1>0, <1>1 DEF LoadType
<1>6. OwnFiles'
  BY <1>0, <1>1, <1>3 DEF OwnFiles
<1>7. AloneInv'
  BY <1>3, AloneKept
<1>8. MarkedInv'
  BY <1>1, <1>2, <1>3 DEF MarkedInv, At, Active
<1>9. ProgressInv'
  <2> SUFFICES ASSUME NEW v \in Writer, Active(v)', work'[v].alone
               PROVE  Progress(work[v])'
    BY DEF ProgressInv
  <2>0. Progress(work[v]) /\ Active(v) /\ work[v].index \in Index
    BY <1>3, LoadFacts DEF ProgressInv
  <2>1. CASE v = w
    <3>1. PICK r : r = work[w]
      OBVIOUS
    <3>2. tmp[r.index] = r.inode /\ file[r.inode] = r.bytes
      BY <1>1, <2>0, <2>1, <3>1 DEF Progress, At
    <3>3. /\ work'[w].index = r.index /\ work'[w].inode = r.inode /\ work'[w].bytes = r.bytes
          /\ tmpMeta'[r.index] = r.bytes
      BY <1>0, <1>3, <1>4, <2>1, <3>1
    <3> QED BY <1>1, <1>2, <2>1, <3>2, <3>3 DEF Progress
  <2>2. CASE v # w
    <3>1. work[v].index # i
      BY <1>0, <1>3, <2>0, <2>2, AloneElsewhere
    <3> QED BY <1>1, <1>3, <1>4, <2>0, <2>2, <3>1, ProgressKept
  <2> QED BY <2>1, <2>2
<1>10. SoundInv' /\ DoneInv'
  BY <1>1 DEF SoundInv, DoneInv
<1> QED BY <1>5, <1>6, <1>7, <1>8, <1>9, <1>10

\* The data file gets its name, which is unsound until the .meta file has followed.
LEMMA LoadRenameData ==
  ASSUME ExactInv, LoadInv, NEW w \in Writer, RenameData(w)
  PROVE  LoadInv'
<1> DEFINE i == work[w].index
<1> USE DEF LoadInv
<1>0. /\ Active(w) /\ i \in Index /\ writes' = writes /\ StepOfWriter(w)
  BY WriterKeeps, LoadFacts DEF StepOfWriter, ExactInv
<1>1. /\ UNCHANGED <<file, tmpMeta, meta, current, done>>
      /\ At(w, "rename data") /\ tmp[i] # 0 /\ unsound' = unsound \cup {i}
      /\ data' = [data EXCEPT ![i] = tmp[i]] /\ tmp' = [tmp EXCEPT ![i] = 0]
  BY DEF RenameData
<1>2. work'[w].step = "rename meta"
  BY <1>0, WriterKeeps DEF RenameData, Goto, ExactInv, ExactType, Work
<1>3. \A v \in Writer : Active(v)' =>
        /\ Active(v) /\ work'[v].index = work[v].index /\ work'[v].inode = work[v].inode
        /\ work'[v].bytes = work[v].bytes
        /\ work'[v].alone = work[v].alone /\ (v # w => work'[v] = work[v])
  BY <1>0, WriterKeeps DEF ExactInv, Active
<1>4. \A j \in Index : /\ data'[j] = IF j = i THEN tmp[i] ELSE data[j]
                       /\ tmp'[j] = IF j = i THEN 0 ELSE tmp[j]
  BY <1>0, <1>1 DEF ExactInv, ExactType, LoadType
<1>5. LoadType'
  <2>1. data' \in [Index -> Nat]
    BY <1>0, <1>1, LoadFacts DEF LoadType
  <2> QED BY <1>0, <1>1, <2>1 DEF LoadType
<1>6. OwnFiles'
  <2>1. \A j \in Index : tmp'[j] <= writes' /\ data'[j] <= writes'
    BY <1>0, <1>4, LoadFacts DEF OwnFiles
  <2>2. \A v \in Writer : Active(v)' => work'[v].inode \in 1..writes' /\ work'[v].inode # 0
    BY <1>0, <1>3, LoadFacts DEF OwnFiles
  <2>3. \A v \in Writer : Active(v)' =>
          \A j \in Index : work'[v].inode \in {tmp'[j], data'[j]} => j = work'[v].index
    BY <1>0, <1>3, <1>4, <2>2 DEF OwnFiles
  <2>4. \A k, j \in Index :
          /\ tmp'[k] # 0 => tmp'[k] # data'[j]
          /\ k # j => (tmp'[k] # 0 => tmp'[k] # tmp'[j]) /\ (data'[k] # 0 => data'[k] # data'[j])
    <3> SUFFICES ASSUME NEW k \in Index, NEW j \in Index
                 PROVE  /\ tmp'[k] # 0 => tmp'[k] # data'[j]
                        /\ k # j => (tmp'[k] # 0 => tmp'[k] # tmp'[j]) /\ (data'[k] # 0 => data'[k] # data'[j])
      OBVIOUS
    <3>1. /\ tmp[k] # 0 => tmp[k] # data[j] /\ (k # j => tmp[k] # tmp[j])
          /\ tmp[i] # data[j] /\ tmp[i] # data[k] /\ (k # j /\ data[k] # 0 => data[k] # data[j])
          /\ (i # k => tmp[i] # tmp[k]) /\ (i # j => tmp[i] # tmp[j])
      BY <1>0, <1>1 DEF OwnFiles
    <3>2. /\ data'[j] = IF j = i THEN tmp[i] ELSE data[j]
          /\ data'[k] = IF k = i THEN tmp[i] ELSE data[k]
          /\ tmp'[j] = IF j = i THEN 0 ELSE tmp[j]
          /\ tmp'[k] = IF k = i THEN 0 ELSE tmp[k]
      BY <1>4
    <3> HIDE DEF i
    <3> QED BY <3>1, <3>2
  <2> QED BY <2>1, <2>2, <2>3, <2>4 DEF OwnFiles
<1>7. AloneInv'
  BY <1>3, AloneKept
<1>8. MarkedInv'
  <2> SUFFICES ASSUME NEW v \in Writer, Active(v)'
               PROVE  /\ At(v, "writing")' /\ work'[v].inode = data'[work'[v].index] => work'[v].index \in unsound'
                      /\ At(v, "rename meta")' => work'[v].index \in unsound'
                      /\ At(v, "finish")' => meta'[work'[v].index] # NoSum
    BY DEF MarkedInv, At, Active
  <2>1. CASE v = w
    BY <1>1, <1>2, <1>3, <2>1 DEF At
  <2>2. CASE v # w
    <3>1. work'[v] = work[v] /\ work[v].index \in Index
      BY <1>3, <2>2, LoadFacts
    <3> QED BY ZenonT(40), <1>1, <1>4, <3>1 DEF MarkedInv, At
  <2> QED BY <2>1, <2>2
<1>9. ProgressInv'
  <2> SUFFICES ASSUME NEW v \in Writer, Active(v)', work'[v].alone
               PROVE  Progress(work[v])'
    BY DEF ProgressInv
  <2>0. Progress(work[v]) /\ Active(v) /\ work[v].index \in Index
    BY <1>3, LoadFacts DEF ProgressInv
  <2>1. CASE v = w
    <3>1. PICK r : r = work[w]
      OBVIOUS
    <3>2. tmp[r.index] = r.inode /\ file[r.inode] = r.bytes /\ tmpMeta[r.index] = r.bytes
      BY <1>1, <2>0, <2>1, <3>1 DEF Progress, At
    <3>3. /\ work'[w].index = r.index /\ work'[w].inode = r.inode /\ work'[w].bytes = r.bytes
          /\ data'[r.index] = r.inode
      BY <1>0, <1>3, <1>4, <2>1, <3>1, <3>2
    <3> QED BY <1>1, <1>2, <2>1, <3>2, <3>3 DEF Progress
  <2>2. CASE v # w
    <3>1. work[v].index # i
      BY <1>0, <1>3, <2>0, <2>2, AloneElsewhere
    <3>2. /\ tmp'[work[v].index] = tmp[work[v].index] /\ data'[work[v].index] = data[work[v].index]
          /\ tmpMeta'[work[v].index] = tmpMeta[work[v].index] /\ work'[v] = work[v]
      BY <1>1, <1>3, <1>4, <2>0, <2>2, <3>1
    <3> QED BY <1>1, <2>0, <3>2, ProgressKept
  <2> QED BY <2>1, <2>2
<1>10. SoundInv'
  <2>1. \A j \in Index \ unsound' : j \in Index \ unsound /\ data'[j] = data[j] /\ meta'[j] = meta[j]
    BY <1>1, <1>4
  <2>2. \A j \in Index \ unsound' : meta'[j] # NoSum => data'[j] # 0 /\ file'[data'[j]] = meta'[j]
    BY ZenonT(40), <1>1, <2>1 DEF SoundInv
  <2>3. current' # 0 /\ current' \notin unsound' => meta'[current'] # NoSum
    BY <1>1 DEF SoundInv
  <2> QED BY <2>2, <2>3 DEF SoundInv
<1>11. DoneInv'
  BY <1>1 DEF DoneInv
<1> QED BY <1>5, <1>6, <1>7, <1>8, <1>9, <1>10, <1>11

\* The .meta file gets its name.  If its writer was alone, it belongs to the data file.
LEMMA LoadRenameMeta ==
  ASSUME ExactInv, LoadInv, NEW w \in Writer, RenameMeta(w)
  PROVE  LoadInv'
<1> DEFINE i == work[w].index
<1> USE DEF LoadInv
<1>0. /\ Active(w) /\ i \in Index /\ writes' = writes /\ StepOfWriter(w)
  BY WriterKeeps, LoadFacts DEF StepOfWriter, ExactInv
<1>1. /\ UNCHANGED <<file, tmp, data, current, done>>
      /\ At(w, "rename meta") /\ tmpMeta[i] # NoSum
      /\ unsound' = IF work[w].alone THEN unsound \ {i} ELSE unsound
      /\ meta' = [meta EXCEPT ![i] = tmpMeta[i]] /\ tmpMeta' = [tmpMeta EXCEPT ![i] = NoSum]
  BY DEF RenameMeta
<1>2. work'[w].step = "finish"
  BY <1>0, WriterKeeps DEF RenameMeta, Goto, ExactInv, ExactType, Work
<1>3. \A v \in Writer : Active(v)' =>
        /\ Active(v) /\ work'[v].index = work[v].index /\ work'[v].inode = work[v].inode
        /\ work'[v].bytes = work[v].bytes
        /\ work'[v].alone = work[v].alone /\ (v # w => work'[v] = work[v])
  BY <1>0, WriterKeeps DEF ExactInv, Active
<1>4. \A j \in Index : /\ meta'[j] = IF j = i THEN tmpMeta[i] ELSE meta[j]
                       /\ tmpMeta'[j] = IF j = i THEN NoSum ELSE tmpMeta[j]
  BY <1>0, <1>1 DEF ExactInv, ExactType
<1>5. LoadType'
  BY <1>0, <1>1 DEF LoadType
<1>6. OwnFiles'
  BY ZenonT(40), <1>0, <1>1, <1>3 DEF OwnFiles
<1>7. AloneInv'
  BY <1>3, AloneKept
<1>8. MarkedInv'
  <2> SUFFICES ASSUME NEW v \in Writer, Active(v)'
               PROVE  /\ At(v, "writing")' /\ work'[v].inode = data'[work'[v].index] => work'[v].index \in unsound'
                      /\ At(v, "rename meta")' => work'[v].index \in unsound'
                      /\ At(v, "finish")' => meta'[work'[v].index] # NoSum
    BY DEF MarkedInv, At, Active
  <2>1. CASE v = w
    BY <1>0, <1>1, <1>2, <1>3, <1>4, <2>1 DEF At
  <2>2. CASE v # w
    <3>1. work'[v] = work[v] /\ work[v].index \in Index /\ Active(v)
      BY <1>3, <2>2, LoadFacts
    <3>2. work[v].index = i => ~work[w].alone
      BY <1>0, <2>2, <3>1, AloneElsewhere
    <3> QED BY ZenonT(40), <1>1, <1>4, <3>1, <3>2 DEF MarkedInv, At
  <2> QED BY <2>1, <2>2
<1>9. ProgressInv'
  <2> SUFFICES ASSUME NEW v \in Writer, Active(v)', work'[v].alone
               PROVE  Progress(work[v])'
    BY DEF ProgressInv
  <2>0. Progress(work[v]) /\ Active(v) /\ work[v].index \in Index
    BY <1>3, LoadFacts DEF ProgressInv
  <2>1. CASE v = w
    BY <1>2, <2>1 DEF Progress
  <2>2. CASE v # w
    <3>1. work[v].index # i
      BY <1>0, <1>3, <2>0, <2>2, AloneElsewhere
    <3>2. /\ tmp'[work[v].index] = tmp[work[v].index] /\ data'[work[v].index] = data[work[v].index]
          /\ tmpMeta'[work[v].index] = tmpMeta[work[v].index] /\ work'[v] = work[v]
      BY <1>1, <1>3, <1>4, <2>0, <2>2, <3>1
    <3> QED BY <1>1, <2>0, <3>2, ProgressKept
  <2> QED BY <2>1, <2>2
<1>10. SoundInv'
  <2>1. \A j \in Index \ {i} : j \notin unsound' => j \notin unsound
    BY <1>1
  <2>2. i \notin unsound' => data'[i] # 0 /\ file'[data'[i]] = meta'[i]
    <3>0. SUFFICES ASSUME work[w].alone PROVE data[i] # 0 /\ file[data[i]] = tmpMeta[i]
      BY <1>0, <1>1, <1>4 DEF MarkedInv
    <3>1. PICK r : r = work[w]
      OBVIOUS
    <3>2. data[r.index] = r.inode /\ file[r.inode] = r.bytes /\ tmpMeta[r.index] = r.bytes
      BY <1>0, <1>1, <3>0, <3>1 DEF ProgressInv, Progress, At
    <3>3. r.inode # 0
      BY <1>0, <3>1, LoadFacts DEF OwnFiles
    <3> QED BY <3>1, <3>2, <3>3
  <2>3. \A j \in Index \ unsound' : meta'[j] # NoSum => data'[j] # 0 /\ file'[data'[j]] = meta'[j]
    <3> SUFFICES ASSUME NEW j \in Index \ unsound', meta'[j] # NoSum
                 PROVE  data'[j] # 0 /\ file'[data'[j]] = meta'[j]
      OBVIOUS
    <3>1. CASE j = i
      BY <2>2, <3>1
    <3>2. CASE j # i
      BY <1>1, <1>4, <2>1, <3>2 DEF SoundInv
    <3> QED BY <3>1, <3>2
  <2>4. current' # 0 /\ current' \notin unsound' => meta'[current'] # NoSum
    <3>1. CASE current = i
      BY <1>0, <1>1, <1>4, <3>1
    <3>2. CASE current # i
      BY <1>1, <1>4, <2>1, <3>2, LoadFacts DEF SoundInv
    <3> QED BY <3>1, <3>2
  <2> QED BY <2>3, <2>4 DEF SoundInv
<1>11. DoneInv'
  BY <1>1, <1>4, LoadFacts DEF DoneInv
<1> QED BY <1>5, <1>6, <1>7, <1>8, <1>9, <1>10, <1>11

\* A function on 1..m is a sequence.
LEMMA FunctionIsSeq ==
  ASSUME NEW m \in Nat, NEW s \in [1..m -> Chunk]
  PROVE  s \in Seq(Chunk) /\ Len(s) = m
OBVIOUS

\* What Write makes of a file: the chunk at its place, and holes before it if there is nothing.
WithChunk(old, bytes, at) ==
  [i \in 1..Max({at, Len(old)}) |->
     IF i = at THEN bytes[at] ELSE IF i <= Len(old) THEN old[i] ELSE Hole]

\* What a chunk makes of the file it is written to.
LEMMA WrittenChunk ==
  ASSUME NEW old \in Seq(Chunk), NEW bytes \in Seq(Chunk), NEW at \in Nat, 1 <= at, at <= Len(bytes)
  PROVE  LET new == WithChunk(old, bytes, at)
         IN  /\ new \in Seq(Chunk)
             /\ Len(old) = at - 1 => /\ Len(new) = at /\ new[at] = bytes[at]
                                     /\ \A k \in 1..(at - 1) : new[k] = old[k]
<1>1. Len(old) \in Nat /\ Len(bytes) \in Nat /\ at \in 1..Len(bytes)
  OBVIOUS
<1>2. bytes[at] \in Chunk /\ Hole \in Chunk /\ \A i \in 1..Len(old) : old[i] \in Chunk
  <2>1. Hole \in Chunk
    BY DEF Hole, Chunk, EmptyStore, Store
  <2> QED BY <1>1, <2>1
<1>3. PICK m \in Nat : m = Max({at, Len(old)}) /\ at <= m /\ Len(old) <= m /\ m \in {at, Len(old)}
  <2>1. {at, Len(old)} \subseteq 0..(at + Len(old)) /\ at + Len(old) \in Nat
    BY <1>1
  <2>2. /\ Max({at, Len(old)}) \in {at, Len(old)}
        /\ \A y \in {at, Len(old)} : y <= Max({at, Len(old)})
    BY <2>1, MaxType
  <2> QED BY <1>1, <2>2
<1>4. PICK new : new = [i \in 1..m |-> IF i = at THEN bytes[at] ELSE IF i <= Len(old) THEN old[i] ELSE Hole]
  OBVIOUS
<1>5. \A i \in 1..m : (IF i = at THEN bytes[at] ELSE IF i <= Len(old) THEN old[i] ELSE Hole) \in Chunk
  BY <1>1, <1>2
<1>6. new \in [1..m -> Chunk]
  BY <1>4, <1>5
<1>7. new \in Seq(Chunk) /\ Len(new) = m
  BY <1>6, FunctionIsSeq
<1>8. ASSUME Len(old) = at - 1
      PROVE  Len(new) = at /\ new[at] = bytes[at] /\ \A k \in 1..(at - 1) : new[k] = old[k]
  <2>1. m = at
    BY <1>1, <1>3, <1>8
  <2>2. at \in 1..m /\ \A k \in 1..(at - 1) : k \in 1..m /\ k # at /\ k <= Len(old)
    BY <1>1, <1>8, <2>1
  <2> QED BY <1>4, <1>7, <2>1, <2>2
<1>9. new = WithChunk(old, bytes, at)
  BY <1>3, <1>4 DEF WithChunk
<1> QED BY <1>7, <1>8, <1>9

\* A chunk is written.  No other file that somebody relies on is the one it goes to.
LEMMA LoadWrite ==
  ASSUME ExactInv, LoadInv, NEW w \in Writer, Write(w)
  PROVE  LoadInv'
<1> DEFINE i == work[w].index
           f == work[w].inode
           at == work[w].sent + 1
<1> USE DEF LoadInv
<1>0. /\ Active(w) /\ i \in Index /\ f \in Inode /\ writes' = writes /\ StepOfWriter(w)
  BY WriterKeeps, LoadFacts DEF StepOfWriter, ExactInv
<1>1. /\ UNCHANGED <<tmp, tmpMeta, data, meta, current, done, unsound>>
      /\ At(w, "writing") /\ at <= Chunks
  BY DEF Write, historyVars
<1>2. work'[w].step = (IF at = Chunks THEN "closing" ELSE "writing") /\ work'[w].sent = at
  <2>1. work'[w] = [work[w] EXCEPT !.sent = at, !.step = IF at = Chunks THEN "closing" ELSE "writing"]
    BY DEF Write, ExactInv, ExactType
  <2> QED BY <1>0, <2>1, WriterKeeps DEF ExactInv, Work
<1>3. \A v \in Writer : Active(v)' =>
        /\ Active(v) /\ work'[v].index = work[v].index /\ work'[v].inode = work[v].inode
        /\ work'[v].bytes = work[v].bytes
        /\ work'[v].alone = work[v].alone /\ (v # w => work'[v] = work[v])
  BY <1>0, WriterKeeps DEF ExactInv, Active
<1>4. PICK new :
        /\ file' = [file EXCEPT ![f] = new] /\ new \in Seq(Chunk)
        /\ Len(file[f]) = at - 1 =>
             /\ Len(new) = at /\ new[at] = work[w].bytes[at]
             /\ \A k \in 1..(at - 1) : new[k] = file[f][k]
  <2>1. PICK new :
          /\ file' = [file EXCEPT ![f] = new]
          /\ new = WithChunk(file[f], work[w].bytes, at)
    BY DEF Write, WithChunk
  <2>2. /\ file[f] \in Seq(Chunk) /\ work[w].bytes \in Seq(Chunk) /\ at \in Nat /\ 1 <= at
        /\ at <= Len(work[w].bytes)
    BY <1>0, <1>1, LoadFacts
  <2>3. /\ new \in Seq(Chunk)
        /\ Len(file[f]) = at - 1 =>
             /\ Len(new) = at /\ new[at] = work[w].bytes[at]
             /\ \A k \in 1..(at - 1) : new[k] = file[f][k]
    <3> HIDE DEF at, f
    <3> QED BY ZenonT(40), <2>1, <2>2, WrittenChunk
  <2> QED BY <2>1, <2>3
<1>5. LoadType' /\ file'[f] = new /\ \A g \in Inode \ {f} : file'[g] = file[g]
  <2>1. file' \in [Inode -> Seq(Chunk)] /\ file'[f] = new /\ \A g \in Inode \ {f} : file'[g] = file[g]
    BY <1>0, <1>4 DEF LoadType
  <2> QED BY <1>0, <1>1, <2>1 DEF LoadType
<1>6. OwnFiles'
  BY <1>0, <1>1, <1>3 DEF OwnFiles
<1>7. AloneInv'
  BY <1>3, AloneKept
<1>8. MarkedInv'
  BY ZenonT(40), <1>1, <1>2, <1>3 DEF MarkedInv, At, Active
<1>9. ProgressInv'
  <2> SUFFICES ASSUME NEW v \in Writer, Active(v)', work'[v].alone
               PROVE  Progress(work[v])'
    BY DEF ProgressInv
  <2>0. Progress(work[v]) /\ Active(v) /\ work[v].index \in Index /\ work[v].inode \in Inode
    BY <1>3, LoadFacts DEF ProgressInv
  <2>1. CASE v = w
    <3>1. PICK r : r = work[w]
      OBVIOUS
    <3>2. /\ tmp[r.index] = r.inode /\ Len(file[f]) = at - 1
          /\ \A k \in 1..(at - 1) : file[f][k] = r.bytes[k]
      <4>1. /\ tmp[r.index] = r.inode /\ Len(file[r.inode]) = r.sent
            /\ \A k \in 1..r.sent : file[r.inode][k] = r.bytes[k]
        BY ZenonT(40), <1>1, <2>0, <2>1, <3>1 DEF Progress, At
      <4>2. r.sent \in Nat /\ at - 1 = r.sent
        BY <1>0, <3>1, LoadFacts
      <4> QED BY <3>1, <4>1, <4>2
    <3>3. PICK n \in Nat : n = at /\ n >= 1
      BY <1>0, LoadFacts
    <3>4. Len(new) = n /\ \A k \in 1..n : new[k] = r.bytes[k]
      <4> HIDE DEF at
      <4>1. Len(new) = n /\ new[n] = r.bytes[n] /\ \A k \in 1..(n - 1) : new[k] = r.bytes[k]
        BY <1>4, <3>1, <3>2, <3>3
      <4>2. \A k \in 1..n : k = n \/ k \in 1..(n - 1)
        BY <3>3
      <4> QED BY <4>1, <4>2
    <3>5. /\ work'[w].index = r.index /\ work'[w].inode = r.inode /\ work'[w].bytes = r.bytes
          /\ file'[r.inode] = new /\ r.bytes \in Seq(Chunk) /\ Len(r.bytes) = Chunks
      BY <1>0, <1>3, <1>5, <2>1, <3>1, LoadFacts
    <3>6. CASE n = Chunks
      <4>1. new = r.bytes
        BY <1>4, <3>4, <3>5, <3>6
      <4>2. work'[w].step = "closing"
        BY <1>2, <3>3, <3>6
      <4> QED BY <1>1, <2>1, <3>1, <3>2, <3>5, <4>1, <4>2 DEF Progress
    <3>7. CASE n # Chunks
      <4>1. work'[w].step = "writing" /\ work'[w].sent = n /\ n < Chunks
        BY <1>1, <1>2, <3>3, <3>7, LoadFacts
      <4> QED BY <1>1, <2>1, <3>2, <3>4, <3>5, <4>1 DEF Progress
    <3> QED BY <3>6, <3>7
  <2>2. CASE v # w
    <3>1. work[v].index # i
      BY <1>0, <1>3, <2>0, <2>2, AloneElsewhere
    <3>2. work[v].step \in {"finish", "hung"} \/ work[v].inode # f
      BY <1>0, <2>0, <3>1, OwnFileNamed DEF OwnFiles
    <3>3. work'[v] = work[v]
      BY <1>3, <2>2
    <3>4. file'[work[v].inode] = file[work[v].inode] \/ work[v].step \in {"finish", "hung"}
      BY <1>5, <2>0, <3>2
    <3> QED BY <1>1, <2>0, <3>3, <3>4, ProgressKept
  <2> QED BY <2>1, <2>2
<1>10. SoundInv'
  <2>1. ASSUME NEW j \in Index \ unsound, meta[j] # NoSum
        PROVE  data[j] # 0 /\ file'[data[j]] = meta[j]
    <3>1. data[j] # f
      BY <1>0, <1>1 DEF OwnFiles, MarkedInv
    <3>2. data[j] # 0 /\ file[data[j]] = meta[j]
      BY <2>1 DEF SoundInv
    <3>3. data[j] \in Inode
      BY <3>2, LoadFacts DEF OwnFiles, LoadType, Inode
    <3> QED BY <1>5, <3>1, <3>2, <3>3
  <2> QED BY <1>1, <2>1 DEF SoundInv
<1>11. DoneInv'
  BY <1>1 DEF DoneInv
<1> QED BY <1>5, <1>6, <1>7, <1>8, <1>9, <1>10, <1>11

\* A writer begins: its file is a new one, or the temporary one that somebody has left behind.
LEMMA LoadStart ==
  ASSUME ExactInv, LoadInv, NEW w \in Writer, NEW kind, NEW step, NEW content \in BOOLEAN,
         Start(w, kind, step, content),
         (step = "writing" /\ ~content) \/ (step = "closing" /\ content)
  PROVE  LoadInv'
<1> DEFINE i == applied
<1> USE DEF LoadInv
<1>f. PICK f : f = TempInode(applied)
  OBVIOUS
<1>0. /\ i \in Index /\ writes < MaxWrites /\ writes' = writes + 1 /\ At(w, "idle")
      /\ UNCHANGED <<current, data, tmpMeta, meta, done>>
      /\ tmp' = [tmp EXCEPT ![i] = f]
      /\ unsound' = IF Others(w, i) = {} THEN unsound ELSE unsound \cup {i}
  BY <1>f, SnapshotsAssumption DEF Start, ExactInv, ExactType, Index
<1>1. PICK bytes \in Encodings(kv) :
        /\ work' = [v \in Writer |->
                     IF v = w
                     THEN [step |-> step, kind |-> kind, index |-> i, inode |-> f, bytes |-> bytes,
                           sent |-> 0, alone |-> Others(w, i) = {}]
                     ELSE [work[v] EXCEPT !.alone = @ /\ v \notin Others(w, i)]]
        /\ file' = [file EXCEPT ![f] = IF content THEN bytes ELSE <<>>]
  BY <1>f DEF Start
<1>2. bytes \in Seq(Chunk) /\ <<>> \in Seq(Chunk) /\ Len(<<>>) = 0
  <2>1. kv \in Store
    BY LastWritesType DEF ExactInv, StateIsExact, ExactType
  <2> QED BY <2>1, EncodingsType
<1>3. /\ work'[w].step = step /\ work'[w].index = i /\ work'[w].inode = f /\ work'[w].bytes = bytes
      /\ work'[w].sent = 0 /\ work'[w].alone = (Others(w, i) = {})
  BY <1>1
<1>4. \A v \in Writer \ {w} :
        /\ work'[v].step = work[v].step /\ work'[v].index = work[v].index
        /\ work'[v].inode = work[v].inode /\ work'[v].bytes = work[v].bytes
        /\ work'[v].sent = work[v].sent
        /\ work'[v].alone => work[v].alone /\ v \notin Others(w, i)
  <2> SUFFICES ASSUME NEW v \in Writer \ {w}
               PROVE  /\ work'[v].step = work[v].step /\ work'[v].index = work[v].index
                      /\ work'[v].inode = work[v].inode /\ work'[v].bytes = work[v].bytes
                      /\ work'[v].sent = work[v].sent
                      /\ work'[v].alone => work[v].alone /\ v \notin Others(w, i)
    OBVIOUS
  <2>1. work'[v] = [work[v] EXCEPT !.alone = work[v].alone /\ v \notin Others(w, i)]
    BY <1>1
  <2>2. work[v] \in Work
    BY DEF ExactInv, ExactType
  <2>3. PICK r, b : r \in Work /\ r = work[v] /\ work'[v] = [r EXCEPT !.alone = b] /\ b = (r.alone /\ v \notin Others(w, i))
    BY <2>1, <2>2
  <2> QED BY <2>3 DEF Work
<1>5. /\ f \in 1..(writes + 1) /\ f \in Inode /\ f # 0
      /\ (f = writes + 1 \/ f = tmp[i])
  BY <1>f, <1>0, LoadFacts DEF TempInode, OwnFiles, Inode
<1>6. /\ \A j \in Index : data[j] # f
      /\ \A j \in Index \ {i} : tmp[j] # f
      /\ \A v \in Writer : Active(v) /\ work[v].inode = f => work[v].index = i
  <2>1. CASE f = writes + 1
    BY <2>1, LoadFacts DEF OwnFiles
  <2>2. CASE f = tmp[i]
    BY <1>0, <1>5, <2>2 DEF OwnFiles
  <2> QED BY <1>5, <2>1, <2>2
<1>7. \A j \in Index : tmp'[j] = IF j = i THEN f ELSE tmp[j]
  BY <1>0 DEF ExactInv, ExactType
<1>8. /\ file' \in [Inode -> Seq(Chunk)] /\ \A g \in Inode \ {f} : file'[g] = file[g]
      /\ file'[f] = IF content THEN bytes ELSE <<>>
  BY <1>1, <1>2, <1>5 DEF LoadType
<1>9. \A v \in Writer : Active(v)' => v = w \/ Active(v)
  BY <1>4 DEF Active
<1>10. LoadType'
  BY <1>0, <1>8, LoadFacts DEF LoadType
<1>11. OwnFiles'
  <2>1. \A j \in Index : tmp'[j] <= writes' /\ data'[j] <= writes'
    BY <1>0, <1>5, <1>7, LoadFacts DEF OwnFiles
  <2>2. \A k, j \in Index :
          /\ tmp'[k] # 0 => tmp'[k] # data'[j]
          /\ k # j => (tmp'[k] # 0 => tmp'[k] # tmp'[j]) /\ (data'[k] # 0 => data'[k] # data'[j])
    BY <1>0, <1>6, <1>7 DEF OwnFiles
  <2>3. ASSUME NEW v \in Writer, Active(v)'
        PROVE  /\ work'[v].inode \in 1..writes'
               /\ \A j \in Index : work'[v].inode \in {tmp'[j], data'[j]} => j = work'[v].index
    <3>1. CASE v = w
      BY <1>0, <1>3, <1>5, <1>6, <1>7, <3>1
    <3>2. CASE v # w
      <4>1. Active(v) /\ work'[v].inode = work[v].inode /\ work'[v].index = work[v].index
        BY <1>4, <1>9, <2>3, <3>2
      <4>2. work[v].inode \in 1..writes'
        BY <1>0, <4>1, LoadFacts DEF OwnFiles
      <4> QED BY <1>0, <1>6, <1>7, <4>1, <4>2 DEF OwnFiles
    <3> QED BY <3>1, <3>2
  <2> QED BY <2>1, <2>2, <2>3 DEF OwnFiles
<1>12. AloneInv'
  <2> SUFFICES ASSUME NEW v \in Writer, Active(v)', work'[v].alone, NEW u \in Writer \ {v},
                      Active(u)', work'[u].index = work'[v].index
               PROVE  FALSE
    BY DEF AloneInv, Others, Active
  <2>1. CASE v = w
    <3>1. Others(w, i) = {} /\ Active(u) /\ work[u].index = i
      BY <1>3, <1>4, <1>9, <2>1
    <3> QED BY <2>1, <3>1 DEF Others, Active
  <2>2. CASE v # w
    <3>1. Active(v) /\ work[v].alone /\ v \notin Others(w, i) /\ work'[v].index = work[v].index
      BY <1>4, <1>9, <2>2
    <3>2. work[v].index # i
      BY <2>2, <3>1 DEF Others, Active
    <3>3. u # w
      BY <1>3, <3>1, <3>2
    <3>4. Active(u) /\ work[u].index = work[v].index
      BY <1>4, <1>9, <3>1, <3>3
    <3> QED BY <3>1, <3>4, AloneElsewhere
  <2> QED BY <2>1, <2>2
<1>13. MarkedInv'
  <2> SUFFICES ASSUME NEW v \in Writer, Active(v)'
               PROVE  /\ At(v, "writing")' /\ work'[v].inode = data'[work'[v].index] => work'[v].index \in unsound'
                      /\ At(v, "rename meta")' => work'[v].index \in unsound'
                      /\ At(v, "finish")' => meta'[work'[v].index] # NoSum
    BY DEF MarkedInv, At, Active
  <2>1. CASE v = w
    BY <1>0, <1>3, <1>6, <2>1 DEF At
  <2>2. CASE v # w
    <3>1. /\ work'[v].step = work[v].step /\ work'[v].index = work[v].index
          /\ work'[v].inode = work[v].inode /\ unsound \subseteq unsound'
      BY <1>0, <1>4, <2>2
    <3> QED BY <1>0, <3>1 DEF MarkedInv, At
  <2> QED BY <2>1, <2>2
<1>14. ProgressInv'
  <2> SUFFICES ASSUME NEW v \in Writer, Active(v)', work'[v].alone
               PROVE  Progress(work[v])'
    BY DEF ProgressInv
  <2>1. CASE v = w
    <3>1. PICK q : q = work'[w]
      OBVIOUS
    <3>2. /\ tmp'[q.index] = q.inode /\ q.sent = 0 /\ q.sent < Chunks
          /\ file'[q.inode] = IF content THEN q.bytes ELSE <<>>
          /\ q.step = step
      BY <1>0, <1>3, <1>7, <1>8, <3>1, LoadFacts
    <3>3. Progress(q)'
      <4>1. CASE content
        <5>1. q.step = "closing" /\ file'[q.inode] = q.bytes
          BY <3>2, <4>1
        <5> QED BY <3>2, <5>1 DEF Progress
      <4>2. CASE ~content
        <5>1. q.step = "writing" /\ Len(file'[q.inode]) = 0 /\ \A k : k \notin 1..q.sent
          BY <1>2, <3>2, <4>2
        <5> QED BY <3>2, <5>1 DEF Progress
      <4> QED BY <4>1, <4>2
    <3> QED BY ZenonT(40), <2>1, <3>1, <3>3 DEF Progress
  <2>2. CASE v # w
    <3>1. Active(v) /\ work[v].alone /\ v \notin Others(w, i)
      BY <1>4, <1>9, <2>2
    <3>2. work[v].index # i /\ work[v].index \in Index /\ work[v].inode \in Inode /\ work[v].inode # f
      BY <1>6, <2>2, <3>1, LoadFacts DEF Others, Active
    <3>3. tmp'[work[v].index] = tmp[work[v].index] /\ file'[work[v].inode] = file[work[v].inode]
      BY <1>7, <1>8, <3>2
    <3>4. Progress(work[v])
      BY <3>1 DEF ProgressInv
    <3> QED BY <1>0, <1>4, <2>2, <3>3, <3>4, ProgressKept
  <2> QED BY <2>1, <2>2
<1>15. SoundInv'
  <2>1. unsound \subseteq unsound'
    BY <1>0
  <2>2. ASSUME NEW j \in Index \ unsound, meta[j] # NoSum
        PROVE  data[j] # 0 /\ file'[data[j]] = meta[j]
    <3>1. data[j] # 0 /\ file[data[j]] = meta[j]
      BY <2>2 DEF SoundInv
    <3>2. data[j] \in Inode
      BY <3>1, LoadFacts DEF OwnFiles, LoadType, Inode
    <3> QED BY <1>6, <1>8, <3>1, <3>2
  <2>3. \A j \in Index \ unsound' : meta'[j] # NoSum => data'[j] # 0 /\ file'[data'[j]] = meta'[j]
    BY <1>0, <2>1, <2>2
  <2>4. current' # 0 /\ current' \notin unsound' => meta'[current'] # NoSum
    BY <1>0, <2>1 DEF SoundInv
  <2> QED BY <2>3, <2>4 DEF SoundInv
<1>16. DoneInv'
  BY <1>0 DEF DoneInv
<1> QED BY <1>10, <1>11, <1>12, <1>13, <1>14, <1>15, <1>16

\* A restarted manager takes the newest .meta file there is.
LEMMA RestartTakesNewest ==
  ASSUME ExactInv, LoadInv, Restarted
  PROVE  /\ current' \in 0..MaxApplied
         /\ current' # 0 => meta'[current'] # NoSum
         /\ \A j \in Index : meta'[j] # NoSum => j <= current'
<1> DEFINE T == {0} \cup {j \in Index : meta'[j] # NoSum}
<1>1. MaxApplied \in Nat /\ T \subseteq 0..MaxApplied /\ T # {}
  BY SnapshotsAssumption DEF Index
<1>2. current' = Max(T)
  BY DEF Restarted, LatestMetadata
<1>3. Max(T) \in T /\ \A y \in T : y <= Max(T)
  <2> HIDE DEF T
  <2> QED BY <1>1, MaxType
<1> QED BY <1>1, <1>2, <1>3

\* What is left of a file that has lost its end.
LEMMA PrefixIsSeq ==
  ASSUME NEW s \in Seq(Chunk), NEW m \in Nat, m <= Len(s)
  PROVE  SubSeq(s, 1, m) \in Seq(Chunk)
<1>1. Len(s) \in Nat /\ \A k \in 1..m : s[k] \in Chunk
  OBVIOUS
<1>2. SubSeq(s, 1, m) = [k \in 1..m |-> s[k]]
  OBVIOUS
<1> QED BY <1>1, <1>2, FunctionIsSeq

\* After a crash the names that were sound are so still; after a loss of power none is.
LEMMA LoadRestart ==
  ASSUME ExactInv, LoadInv, Crash \/ PowerLoss
  PROVE  LoadInv'
<1> USE DEF LoadInv
<1>0. /\ Restarted /\ UNCHANGED <<tmp, data, tmpMeta, writes>>
      /\ \A v \in Writer : work'[v] = Idle
  BY DEF Crash, PowerLoss, Restarted, dirVars
<1>1. \A v \in Writer : work'[v].step = "idle"
  BY <1>0 DEF Idle
<1>2. OwnFiles' /\ AloneInv' /\ MarkedInv' /\ ProgressInv'
  <2>1. OwnFiles'
    BY <1>0, <1>1 DEF OwnFiles, Active
  <2> QED BY <1>1, <2>1 DEF AloneInv, MarkedInv, ProgressInv, Active, At
<1>3. CASE Crash
  <2>1. UNCHANGED <<file, meta, done, unsound>>
    BY <1>3 DEF Crash, dirVars, historyVars
  <2>2. LoadType' /\ DoneInv'
    BY <1>0, <2>1, RestartTakesNewest DEF LoadType, DoneInv
  <2>3. SoundInv'
    <3>1. \A j \in Index \ unsound' : meta'[j] # NoSum => data'[j] # 0 /\ file'[data'[j]] = meta'[j]
      BY <1>0, <2>1 DEF SoundInv
    <3> QED BY <1>0, <3>1, RestartTakesNewest DEF SoundInv
  <2> QED BY <1>2, <2>2, <2>3
<1>4. CASE PowerLoss
  <2>1. unsound' = Index /\ done' = 0
    BY <1>4 DEF PowerLoss
  <2>2. file' \in [Inode -> Seq(Chunk)]
    <3>1. PICK cut \in SUBSET {data[i] : i \in Index}, n \in 0..(Chunks - 1) :
            file' = [f \in Inode |-> IF f \in cut THEN SubSeq(file[f], 1, Min({n, Len(file[f])}))
                                     ELSE file[f]]
      BY <1>4 DEF PowerLoss
    <3>2. ASSUME NEW f \in Inode
          PROVE  SubSeq(file[f], 1, Min({n, Len(file[f])})) \in Seq(Chunk)
      <4>1. file[f] \in Seq(Chunk) /\ Len(file[f]) \in Nat /\ n \in Nat
        BY LoadFacts
      <4>2. /\ Min({n, Len(file[f])}) \in {n, Len(file[f])}
            /\ \A y \in {n, Len(file[f])} : Min({n, Len(file[f])}) <= y
        BY <4>1, MinType
      <4>3. PICK m \in Nat : m = Min({n, Len(file[f])}) /\ m <= Len(file[f])
        BY <4>1, <4>2
      <4>4. SubSeq(file[f], 1, m) \in Seq(Chunk)
        BY <4>1, <4>3, PrefixIsSeq
      <4> QED BY <4>3, <4>4
    <3> QED BY <3>1, <3>2, LoadFacts
  <2>3. LoadType'
    BY <1>0, <2>1, <2>2, RestartTakesNewest, LoadFacts DEF LoadType
  <2>4. current' # 0 => current' \in unsound'
    BY <1>0, <2>1, RestartTakesNewest, LoadFacts DEF Index
  <2>5. SoundInv' /\ DoneInv'
    BY <2>1, <2>4 DEF SoundInv, DoneInv
  <2> QED BY <1>2, <2>3, <2>5
<1> QED BY <1>3, <1>4

\* Every step of the specification keeps the invariant.
LEMMA LoadStep == ExactInv /\ LoadInv /\ [Next]_vars => LoadInv'
<1> SUFFICES ASSUME ExactInv, LoadInv, [Next]_vars PROVE LoadInv'
  OBVIOUS
<1>1. CASE ApplyEntry \/ UNCHANGED vars
  <2>1. UNCHANGED <<current, file, tmp, data, tmpMeta, meta, work, writes, done, unsound>>
    BY <1>1 DEF ApplyEntry, vars, dirVars, countVars, historyVars
  <2>2. LoadType' /\ OwnFiles' /\ MarkedInv'
    BY <2>1 DEF LoadInv, LoadType, OwnFiles, MarkedInv, Active, At
  <2>3. AloneInv'
    BY <2>1 DEF LoadInv, AloneInv, Active, Others
  <2>4. ProgressInv'
    <3> SUFFICES ASSUME NEW v \in Writer, Active(v)', work'[v].alone PROVE Progress(work[v])'
      BY DEF ProgressInv
    <3> QED BY <2>1, ProgressKept DEF LoadInv, ProgressInv, Active
  <2>5. SoundInv' /\ DoneInv'
    BY <2>1 DEF LoadInv, SoundInv, DoneInv
  <2> QED BY <2>2, <2>3, <2>4, <2>5 DEF LoadInv
<1>2. ASSUME NEW w \in Writer, OpenSnapshotWriter(w) \/ Create(w) PROVE LoadInv'
  BY <1>2, LoadStart DEF OpenSnapshotWriter, Create
<1>3. ASSUME NEW w \in Writer, StepOfWriter(w) \/ Abort(w) \/ IOError(w) PROVE LoadInv'
  BY <1>3, LoadWrite, LoadWriteMeta, LoadRenameData, LoadRenameMeta, LoadFinish, LoadQuits
     DEF StepOfWriter, IOError, Missing
<1> QED BY <1>1, <1>2, <1>3, LoadRestart DEF Next

\* The invariants hold of every behaviour of Snapshots.tla.
LEMMA LoadInvHolds == Spec => [](ExactInv /\ LoadInv)
BY ExactInit, ExactStep, LoadInit, LoadStep, PTL DEF Spec

\* The current snapshot can be loaded, for any writers, names and bounds and after a crash or an
\* I/O error at any step, unless two writers shared its files, its second write stopped between
\* the two renames, or it was there when the power was lost: renaming the data file before the
\* .meta file suffices where one writer is at work on a name.
THEOREM CurrentSnapshotLoads == Spec => []CurrentLoads
<1>1. ASSUME ExactInv, LoadInv, current \notin unsound \cup {0} PROVE Loads(current)
  <2>1. current \in Index /\ meta[current] # NoSum
    BY <1>1, LoadFacts DEF LoadInv, SoundInv
  <2> QED BY <1>1, <2>1 DEF LoadInv, SoundInv, Loads, Bytes
<1>2. ExactInv /\ LoadInv => CurrentLoads
  BY <1>1 DEF CurrentLoads
<1> QED BY <1>2, LoadInvHolds, PTL

\* A crash at any step costs no finished snapshot: NewSnapshotManager finds one at least as new
\* as every snapshot that had become current, for any writers, names and bounds.
THEOREM RestartsKeepSnapshots == Spec => RestartNeverGoesBack
<1>1. ASSUME ExactInv, LoadInv, Crash PROVE current' >= done
  <2>1. Restarted /\ meta' = meta
    BY <1>1 DEF Crash, dirVars
  <2>2. done \in 0..MaxApplied /\ MaxApplied \in Nat /\ current' \in 0..MaxApplied
    BY <1>1, <2>1, LoadFacts, RestartTakesNewest DEF LoadInv, LoadType
  <2>3. CASE done = 0
    BY <2>2, <2>3
  <2>4. CASE done # 0
    BY <1>1, <2>1, <2>2, <2>4, LoadFacts, RestartTakesNewest DEF LoadInv, DoneInv
  <2> QED BY <2>3, <2>4
<1>2. ExactInv /\ LoadInv /\ [Next]_vars => [Crash => current' >= done]_vars
  BY <1>1
<1> QED BY <1>2, LoadInvHolds, PTL DEF Spec, RestartNeverGoesBack
=============================================================================
