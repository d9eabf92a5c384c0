--------------------------------- MODULE Wal ---------------------------------
(***************************************************************************)
(* The write-ahead log of pkg/storage/wal.go: segment files, the buffered  *)
(* writer of the current one, and what a crash of the process or a loss of *)
(* power leaves of them.  Every method runs under FileWAL.mu; the module   *)
(* that uses this one holds that lock over the methods that take several   *)
(* steps here (AppendBatch and Truncate).                                  *)
(*                                                                         *)
(* Bytes are abstracted to what a reader can tell apart: of a record that  *)
(* was cut, exactly the size header is there (readSegment then sees a      *)
(* clean end of file) or any other part (it fails).                        *)
(***************************************************************************)
EXTENDS Integers, FiniteSetsExt, SequencesExt, Subsequences

CONSTANTS
  SegmentRecords  \* segmentSize, counted in records

ASSUME SegmentAssumption == SegmentRecords \in Nat \ {0}

VARIABLES
  disk,      \* the records in the files, all segments in order
  current,   \* the last segment, FileWAL.currentIndex while it is open
  buffer,    \* records in the bufio.Writer, not or only partly in the file
  spilled,   \* the part of the first of them that is already in the file
  open,      \* FileWAL.currentFile and writer are not nil
  trunc,     \* where Truncate is
  promised,  \* history: how many records in the files a Sync has covered
  damaged    \* history: one of the causes below has broken the log

walVars == <<disk, current, buffer, spilled, open, trunc, promised, damaged>>

None == 0     \* nothing of the record
Header == 1   \* exactly its four bytes of size
Torn == 2     \* any other proper part of it
Whole == 3

NotTruncating == [stage |-> "no", keep |-> <<>>, done |-> 0]

WalInit ==
  /\ disk = <<>> /\ current = 0
  /\ buffer = <<>> /\ spilled = None
  /\ open = TRUE
  /\ trunc = NotTruncating
  /\ promised = 0 /\ damaged = FALSE

-----------------------------------------------------------------------------
(* Files *)

\* Records as they are written to a segment; nothing has fsynced them.
InFile(records, segment) ==
  [i \in 1..Len(records) |->
     [rec |-> records[i], seg |-> segment, part |-> Whole, synced |-> FALSE]]

RecordsOf(files) == [i \in 1..Len(files) |-> files[i].rec]

LastOfSegment(files, i) == \A j \in (i + 1)..Len(files) : files[j].seg # files[i].seg

\* readSegment over every segment: a cut record is an error, unless exactly
\* its header is there and nothing was appended behind it.
Readable ==
  /\ \A i \in 1..Len(disk) :
       disk[i].part = Whole \/ (disk[i].part = Header /\ LastOfSegment(disk, i))
  /\ spilled # Torn

WholeRecords == RecordsOf(Subsequence(disk, {i \in 1..Len(disk) : disk[i].part = Whole}))

\* closeCurrentFile, and the Flush of sync: what is buffered goes to the file.
Flushed == disk \o InFile(buffer, current)

\* Mutant of FsyncCurrent: the data reaches the operating system only.
NoFsync(files) == files

FsyncCurrent(files) ==
  [i \in 1..Len(files) |->
     [files[i] EXCEPT !.synced = @ \/ files[i].seg = current]]

\* shouldRotate asks for the size of the file, which does not count the buffer.
ShouldRotate ==
  LET inFile == Cardinality({i \in 1..Len(disk) : disk[i].seg = current})
  IN  inFile + (IF spilled = None THEN 0 ELSE 1) + 1 > SegmentRecords

-----------------------------------------------------------------------------
(* Methods *)

\* The 4096 bytes of a bufio.Writer hold every metadata record (a term and
\* the name of a node); the other records can be of any size.
FillsBuffer(pending) == \E i \in 1..Len(pending) : pending[i].type # "meta"

\* A bufio.Writer that is full writes any prefix of its bytes.
Spill(files, pending) ==
  \E n \in IF FillsBuffer(pending) THEN 0..Len(pending) ELSE {0} :
    \E part \in IF FillsBuffer(pending) /\ n < Len(pending)
               THEN {None, Header, Torn} ELSE {None} :
      /\ disk' = files \o InFile(SubSeq(pending, 1, n), current')
      /\ buffer' = SubSeq(pending, n + 1, Len(pending))
      /\ spilled' = part

AppendInPlace(r) ==
  /\ ~ShouldRotate
  /\ UNCHANGED current
  /\ Spill(disk, Append(buffer, r))
  /\ (buffer' # <<>> /\ Len(disk') = Len(disk)) => spilled' >= spilled

\* rotateSegment closes the old file without an fsync.
AppendRotated(r) ==
  /\ ShouldRotate
  /\ current' = current + 1
  /\ Spill(Flushed, <<r>>)

appendEntry(r) ==
  /\ open
  /\ AppendInPlace(r) \/ AppendRotated(r)
  /\ UNCHANGED <<open, promised, damaged>>

\* The new segment cannot be created: the old file is closed, and the WAL is
\* left with neither a file nor a writer.
RotateFails ==
  /\ open /\ ShouldRotate
  /\ disk' = Flushed /\ buffer' = <<>> /\ spilled' = None
  /\ open' = FALSE /\ damaged' = TRUE
  /\ UNCHANGED <<current, promised>>

\* With no file, sync succeeds and does nothing.
sync ==
  IF open
  THEN /\ disk' = FsyncCurrent(Flushed)
       /\ buffer' = <<>> /\ spilled' = None
       /\ promised' = Len(disk')
       /\ UNCHANGED <<current, open, damaged>>
  ELSE UNCHANGED <<disk, current, buffer, spilled, open, promised, damaged>>

-----------------------------------------------------------------------------
(* Truncate: read the files, close, remove every segment, write the rest   *)

\* Mutant of Keeps: the last record that should stay goes too.
KeepsBelow(r, position) == r.index < position

Keeps(r, position) == r.index <= position

TruncateRead(position) ==
  LET read == WholeRecords
      kept == {i \in 1..Len(read) : Keeps(read[i], position)}
  IN  /\ Readable /\ trunc.stage = "no"
      /\ trunc' = [stage |-> "closed", keep |-> Subsequence(read, kept), done |-> 0]
      /\ disk' = Flushed /\ buffer' = <<>> /\ spilled' = None
      /\ open' = FALSE
      /\ damaged' = (damaged \/ buffer # <<>>)
      /\ UNCHANGED <<current, promised>>

\* os.Remove of the first segment that is left; done counts them.
RemoveSegment ==
  /\ trunc.stage \in {"closed", "removing"} /\ trunc.done <= current
  /\ disk' = Subsequence(disk, {i \in 1..Len(disk) : disk[i].seg # trunc.done})
  /\ trunc' = [trunc EXCEPT !.stage = "removing", !.done = @ + 1]
  /\ promised' = 0
  /\ UNCHANGED <<current, buffer, spilled, open, damaged>>

\* A segment cannot be removed: Truncate returns, and the file is closed.
RemoveFails ==
  /\ trunc.stage \in {"closed", "removing"} /\ trunc.done <= current
  /\ trunc' = NotTruncating
  /\ damaged' = TRUE
  /\ UNCHANGED <<disk, current, buffer, spilled, open, promised>>

\* createSegment(0)
RecreateSegment ==
  /\ trunc.stage = "removing" /\ trunc.done > current
  /\ trunc' = [trunc EXCEPT !.stage = "rewriting", !.done = 0]
  /\ current' = 0 /\ open' = TRUE
  /\ UNCHANGED <<disk, buffer, spilled, promised, damaged>>

RecreateFails ==
  /\ trunc.stage = "removing" /\ trunc.done > current
  /\ trunc' = NotTruncating
  /\ current' = 0
  /\ damaged' = TRUE
  /\ UNCHANGED <<disk, buffer, spilled, open, promised>>

RewriteRecord ==
  /\ trunc.stage = "rewriting" /\ trunc.done < Len(trunc.keep)
  /\ appendEntry(trunc.keep[trunc.done + 1])
  /\ trunc' = [trunc EXCEPT !.done = @ + 1]

RewriteFails ==
  /\ trunc.stage = "rewriting" /\ trunc.done < Len(trunc.keep)
  /\ RotateFails
  /\ trunc' = NotTruncating

TruncateSync ==
  /\ trunc.stage = "rewriting" /\ trunc.done = Len(trunc.keep)
  /\ sync
  /\ trunc' = NotTruncating

-----------------------------------------------------------------------------
(* Crashes, and NewWAL, which opens the last segment for appending *)

NoSegmentLeft == trunc.stage = "removing" /\ trunc.done > current

NewWAL ==
  /\ current' = IF NoSegmentLeft THEN 0 ELSE current
  /\ buffer' = <<>> /\ spilled' = None
  /\ open' = TRUE
  /\ trunc' = NotTruncating
  /\ promised' = Min({promised, Len(disk')})

CutTail ==
  IF spilled = None THEN <<>>
  ELSE << [InFile(buffer, current)[1] EXCEPT !.part = spilled] >>

\* What the files hold when the process stops: with no buffer, or with all of
\* it when a sync was between its Flush and its fsync.
FilesAtCrash(syncing) == {disk \o CutTail} \cup (IF syncing THEN {Flushed} ELSE {})

\* Damage: a record cut in two, or a Truncate that had begun to remove.
DamagedBy(files) ==
  \/ \E i \in 1..Len(files) : files[i].part # Whole
  \/ trunc.stage \in {"removing", "rewriting"}

\* The process dies: what is in the files stays.
WalCrash(syncing) ==
  /\ disk' \in FilesAtCrash(syncing)
  /\ damaged' = (damaged \/ DamagedBy(disk'))
  /\ NewWAL

\* Power is lost: of each file, what was never fsynced may be cut anywhere.
\* Damage, besides that of a crash: a closed segment was never fsynced.
WalPowerLoss(syncing) ==
  \E files \in FilesAtCrash(syncing) :
    LET loose == {i \in 1..Len(files) : ~files[i].synced}
        Left(part) == [i \in 1..Len(files) |->
                         [files[i] EXCEPT !.synced = TRUE,
                            !.part = IF i \in loose THEN part[i] ELSE @]]
        Present(part) == {i \in 1..Len(files) : i \in loose => part[i] # None}
    IN  \E part \in [loose -> {None, Header, Torn, Whole}] :
          /\ \A i \in loose : part[i] <= files[i].part
          /\ \A i, j \in loose :
               (i < j /\ files[i].seg = files[j].seg /\ part[i] < files[i].part)
                 => part[j] = None
          /\ disk' = Subsequence(Left(part), Present(part))
          /\ damaged' = (\/ damaged \/ DamagedBy(disk')
                         \/ \E i \in loose : files[i].seg < current)
          /\ NewWAL

\* Close, and the NewWAL of the next start.
WalReopen ==
  /\ disk' = IF open THEN Flushed ELSE disk
  /\ UNCHANGED damaged
  /\ NewWAL

-----------------------------------------------------------------------------
(* The abstract log that the files and the buffer stand for *)

Rewriting == trunc.stage \in {"removing", "rewriting"}

DurableRecords ==
  IF Rewriting THEN trunc.keep ELSE RecordsOf(SubSeq(disk, 1, promised))

VolatileRecords ==
  IF Rewriting THEN <<>>
  ELSE RecordsOf(SubSeq(disk, promised + 1, Len(disk))) \o buffer
===============================================================================
