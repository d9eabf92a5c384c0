------------------------------ MODULE Snapshots ------------------------------
(***************************************************************************)
(* Snapshots of the key-value state machine: SnapshotManager and           *)
(* SnapshotWriter of pkg/storage/snapshot.go on the files they write, with *)
(* the state machine whose map is written and restored.  A snapshot is a   *)
(* data file and a .meta file, each written under a temporary name and     *)
(* renamed; Create does so under SnapshotManager.mu, a SnapshotWriter does *)
(* not.                                                                    *)
(*                                                                         *)
(* A name is an index: one index has one term.  SHA-256 is abstracted to   *)
(* the bytes it is computed from.  Who takes snapshots and who restores    *)
(* them is not in the source; here the goroutines of the node do, at the   *)
(* index it has applied, and a restart restores the current snapshot.      *)
(***************************************************************************)
EXTENDS KvStateMachine

CONSTANTS
  Writer,      \* goroutines that write snapshots
  Inputs,      \* entries that the log is made of
  MaxApplied,  \* bound: entries of the log
  MaxWrites,   \* bound: snapshots that are begun
  MaxFaults    \* bound: crashes, losses of power and I/O errors

ASSUME SnapshotsAssumption ==
  /\ Inputs \subseteq Entry
  /\ {MaxApplied, MaxWrites, MaxFaults} \subseteq Nat

VARIABLES
  log,      \* the committed entries
  applied,  \* how many of them the map reflects
  kv,       \* KVStateMachine.store
  current,  \* SnapshotManager.currentSnapshot, an index or 0 for nil
  mu,       \* who holds SnapshotManager.mu between two steps, at most one
  file,     \* the bytes of the files, by inode
  tmp,      \* the inode of the temporary data file of each name, 0 for none
  data,     \* the inode of the data file of each name
  tmpMeta,  \* the checksum in the temporary .meta file of each name
  meta,     \* the checksum in the .meta file of each name
  work,     \* what each writer is doing
  writes, faults,  \* counters
  done,     \* history: the highest index that a finished write has made current
  unsound   \* history: names whose files may not match, by one of the causes

kvVars == <<log, applied, kv>>
dirVars == <<file, tmp, data, tmpMeta, meta>>
countVars == <<writes, faults>>
historyVars == <<done, unsound>>
vars == <<kvVars, current, mu, dirVars, work, countVars, historyVars>>

Index == 1..MaxApplied
Inode == 1..MaxWrites
NoSum == <<>>
Hole == [of |-> EmptyStore, order |-> 0]
Idle == [step |-> "idle", kind |-> "none", index |-> 0, inode |-> 0,
         bytes |-> <<>>, sent |-> 0, alone |-> TRUE]

Init ==
  /\ log \in [Index -> Inputs] /\ applied = 0 /\ kv = EmptyStore
  /\ current = 0 /\ mu = {}
  /\ file = [f \in Inode |-> <<>>]
  /\ tmp = [i \in Index |-> 0] /\ data = [i \in Index |-> 0]
  /\ tmpMeta = [i \in Index |-> NoSum] /\ meta = [i \in Index |-> NoSum]
  /\ work = [w \in Writer |-> Idle]
  /\ writes = 0 /\ faults = 0
  /\ done = 0 /\ unsound = {}

-----------------------------------------------------------------------------
(* The state machine applies the log *)

ApplyEntry ==
  /\ applied < MaxApplied
  /\ applied' = applied + 1
  /\ kv' = Apply(kv, log[applied'])
  /\ UNCHANGED <<log, current, mu, dirVars, work, countVars, historyVars>>

-----------------------------------------------------------------------------
(* Writing a snapshot *)

Free == mu = {}
At(w, step) == work[w].step = step
Goto(w, step) == work' = [work EXCEPT ![w].step = step]
Others(w, i) == {v \in Writer \ {w} : work[v].step # "idle" /\ work[v].index = i}

\* os.Create and os.WriteFile truncate the temporary file if it exists.
TempInode(i) == IF tmp[i] = 0 THEN writes + 1 ELSE tmp[i]

Start(w, kind, step, content) ==
  /\ At(w, "idle") /\ Free
  /\ applied > 0 /\ writes < MaxWrites
  /\ writes' = writes + 1
  /\ \E bytes \in Encodings(kv) :
       /\ work' = [v \in Writer |->
                     IF v = w
                     THEN [step |-> step, kind |-> kind, index |-> applied,
                           inode |-> TempInode(applied), bytes |-> bytes,
                           sent |-> 0, alone |-> Others(w, applied) = {}]
                     ELSE [work[v] EXCEPT !.alone = @ /\ v \notin Others(w, applied)]]
       /\ file' = [file EXCEPT ![TempInode(applied)] = IF content THEN bytes ELSE <<>>]
  /\ tmp' = [tmp EXCEPT ![applied] = TempInode(applied)]
  /\ unsound' = IF Others(w, applied) = {} THEN unsound ELSE unsound \cup {applied}
  /\ UNCHANGED <<kvVars, current, data, tmpMeta, meta, faults, done>>

OpenSnapshotWriter(w) == Start(w, "writer", "writing", FALSE) /\ UNCHANGED mu

\* Create has the lock from here to its return.
Create(w) == Start(w, "create", "closing", TRUE) /\ mu' = {w}

\* A chunk goes to the place in the file that this writer has reached, in
\* whatever file its temporary one has become.
Write(w) ==
  LET at == work[w].sent + 1
      old == file[work[w].inode]
      new == [i \in 1..Max({at, Len(old)}) |->
                IF i = at THEN work[w].bytes[at] ELSE IF i <= Len(old) THEN old[i] ELSE Hole]
  IN  /\ At(w, "writing") /\ at <= Chunks
      /\ file' = [file EXCEPT ![work[w].inode] = new]
      /\ work' = [work EXCEPT ![w].sent = at,
                              ![w].step = IF at = Chunks THEN "closing" ELSE "writing"]
      /\ UNCHANGED <<kvVars, current, mu, tmp, data, tmpMeta, meta, countVars, historyVars>>

Abort(w) ==
  /\ At(w, "writing") \/ (At(w, "closing") /\ work[w].kind = "writer")
  /\ tmp' = [tmp EXCEPT ![work[w].index] = 0]
  /\ work' = [work EXCEPT ![w] = Idle]
  /\ UNCHANGED <<kvVars, current, mu, file, data, tmpMeta, meta, countVars, historyVars>>

\* Mutant of WriteMeta: the .meta file is written under its final name.
WriteMetaInPlace(w) ==
  /\ At(w, "closing")
  /\ tmpMeta' = [tmpMeta EXCEPT ![work[w].index] = work[w].bytes]
  /\ meta' = [meta EXCEPT ![work[w].index] = work[w].bytes]
  /\ Goto(w, "rename data")
  /\ UNCHANGED <<kvVars, current, mu, file, tmp, data, countVars, historyVars>>

WriteMeta(w) ==
  /\ At(w, "closing")
  /\ tmpMeta' = [tmpMeta EXCEPT ![work[w].index] = work[w].bytes]
  /\ Goto(w, "rename data")
  /\ UNCHANGED <<kvVars, current, mu, file, tmp, data, meta, countVars, historyVars>>

RenameData(w) ==
  LET i == work[w].index
  IN  /\ At(w, "rename data") /\ tmp[i] # 0
      /\ data' = [data EXCEPT ![i] = tmp[i]]
      /\ tmp' = [tmp EXCEPT ![i] = 0]
      /\ unsound' = unsound \cup {i}
      /\ Goto(w, "rename meta")
      /\ UNCHANGED <<kvVars, current, mu, file, tmpMeta, meta, countVars, done>>

RenameMeta(w) ==
  LET i == work[w].index
  IN  /\ At(w, "rename meta") /\ tmpMeta[i] # NoSum
      /\ meta' = [meta EXCEPT ![i] = tmpMeta[i]]
      /\ tmpMeta' = [tmpMeta EXCEPT ![i] = NoSum]
      /\ unsound' = IF work[w].alone THEN unsound \ {i} ELSE unsound
      /\ Goto(w, "finish")
      /\ UNCHANGED <<kvVars, current, mu, file, tmp, data, countVars, done>>

\* The last step of SnapshotWriter.Close, under the lock.
Finish(w) ==
  /\ At(w, "finish") /\ work[w].kind = "writer" /\ Free
  /\ current' = work[w].index
  /\ done' = Max({done, current'})
  /\ work' = [work EXCEPT ![w] = Idle]
  /\ UNCHANGED <<kvVars, mu, dirVars, countVars, unsound>>

\* Create sets the current snapshot, and then cleanupOldSnapshots calls List,
\* which waits for the lock that Create holds.
CreateHangs(w) ==
  /\ At(w, "finish") /\ work[w].kind = "create"
  /\ current' = work[w].index
  /\ done' = Max({done, current'})
  /\ Goto(w, "hung")
  /\ UNCHANGED <<kvVars, mu, dirVars, countVars, unsound>>

\* A step fails; what it has to remove is removed, and Create unlocks.
Failed(w) ==
  LET i == work[w].index
  IN  /\ \/ /\ At(w, "closing")
            /\ tmp' = [tmp EXCEPT ![i] = 0]
            /\ UNCHANGED tmpMeta
         \/ /\ At(w, "closing") /\ work[w].kind = "create"  \* writing the data
            /\ UNCHANGED <<tmp, tmpMeta>>
         \/ /\ At(w, "rename data")
            /\ tmp' = [tmp EXCEPT ![i] = 0]
            /\ tmpMeta' = [tmpMeta EXCEPT ![i] = NoSum]
         \/ /\ At(w, "rename meta")
            /\ tmpMeta' = [tmpMeta EXCEPT ![i] = NoSum]
            /\ UNCHANGED tmp
      /\ mu' = mu \ {w}
      /\ work' = [work EXCEPT ![w] = Idle]
      /\ UNCHANGED <<kvVars, current, file, data, meta, writes, historyVars>>

\* The file to rename is not there: another writer of the name has moved it.
Missing(w) ==
  /\ \/ At(w, "rename data") /\ tmp[work[w].index] = 0
     \/ At(w, "rename meta") /\ tmpMeta[work[w].index] = NoSum
  /\ Failed(w)
  /\ UNCHANGED faults

IOError(w) ==
  /\ faults < MaxFaults
  /\ Failed(w)
  /\ faults' = faults + 1

-----------------------------------------------------------------------------
(* Loading *)

Bytes(i) == IF data[i] = 0 THEN NoSum ELSE file[data[i]]

\* Mutant of Loads: the checksum is not compared.
LoadsUnverified(i) == i # 0 /\ meta[i] # NoSum /\ data[i] # 0

\* loadSnapshot: both files are there and the checksum matches.
Loads(i) == i # 0 /\ meta[i] # NoSum /\ data[i] # 0 /\ Bytes(i) = meta[i]

Load == Loads(current)
CurrentBytes == Bytes(current)

\* Mutant of LatestMetadata: the first file of the directory is taken.
FirstMetadata(metas) == LET found == {i \in Index : metas[i] # NoSum}
                        IN  IF found = {} THEN 0 ELSE Min(found)

\* loadLatestMetadata looks at .meta files only.
LatestMetadata(metas) == Max({0} \cup {i \in Index : metas[i] # NoSum})

-----------------------------------------------------------------------------
(* Crashes and restarts *)

\* NewSnapshotManager, Load, and Restore into a new state machine.
Restarted ==
  /\ faults < MaxFaults
  /\ faults' = faults + 1
  /\ current' = LatestMetadata(meta')
  /\ IF Load'
     THEN kv' = Restore(CurrentBytes)' /\ applied' = current'
     ELSE kv' = EmptyStore /\ applied' = 0
  /\ mu' = {}
  /\ work' = [w \in Writer |-> Idle]
  /\ UNCHANGED <<log, writes>>

Crash ==
  /\ UNCHANGED <<dirVars, historyVars>>
  /\ Restarted

\* Nothing is ever fsynced: data files may have lost their ends and .meta
\* files their contents, which then do not parse and are skipped.
PowerLoss ==
  /\ \E cut \in SUBSET {data[i] : i \in Index}, n \in 0..(Chunks - 1) :
       file' = [f \in Inode |-> IF f \in cut THEN SubSeq(file[f], 1, Min({n, Len(file[f])}))
                                ELSE file[f]]
  /\ \E lost \in SUBSET {i \in Index : meta[i] # NoSum} :
       meta' = [i \in Index |-> IF i \in lost THEN NoSum ELSE meta[i]]
  /\ UNCHANGED <<tmp, data, tmpMeta>>
  /\ unsound' = Index
  /\ done' = 0
  /\ Restarted

StepOfWriter(w) ==
  \/ Write(w) \/ WriteMeta(w) \/ RenameData(w) \/ RenameMeta(w)
  \/ Finish(w) \/ CreateHangs(w) \/ Missing(w)

Next ==
  \/ ApplyEntry
  \/ \E w \in Writer :
       OpenSnapshotWriter(w) \/ Create(w) \/ StepOfWriter(w) \/ Abort(w) \/ IOError(w)
  \/ Crash \/ PowerLoss

Spec == Init /\ [][Next]_vars

\* A writer that can go on does, and gets the lock when it keeps asking.
FairSpec == Spec /\ \A w \in Writer : SF_vars(StepOfWriter(w))

-----------------------------------------------------------------------------
(* Properties *)

\* The map is always what the applied entries make of it, also after it was
\* restored from a snapshot: no crash, no I/O error, no loss of power and no
\* two writers on one temporary file get past the checksum.
StateIsExact == kv = LastWrites(log, applied)

\* The current snapshot can be loaded, except for the names whose files two
\* writers shared, whose second write stopped between its two renames, or
\* that were there when the power was lost.
CurrentLoads == current \notin unsound \cup {0} => Loads(current)

\* A crash at any step does not cost a finished snapshot: the restarted
\* manager is at least as far as every snapshot that had become current.
RestartNeverGoesBack == [][Crash => current' >= done]_vars

\* What the code does not do (MCSnapshots_create.cfg): Create never returns.
CreateReturns ==
  \A w \in Writer : (work[w].kind = "create") ~> (work[w].kind # "create")

\* Nor this (MCSnapshots_latest.cfg): a writer that was opened first and is
\* closed last takes the current snapshot back to its older index.
LatestIsNewest == current >= done

\* Nor this (MCSnapshots_batch.cfg): the commands of a batch reach the map.
BatchesTakeEffect ==
  applied > 0 /\ log[applied].type = "batch" =>
    LET cmd == log[applied].commands[1]
    IN  kv[cmd.key] = IF cmd.type = "put" THEN cmd.value ELSE Absent
===============================================================================
