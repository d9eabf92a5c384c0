-------------------------- MODULE PersistenceProofs --------------------------
(***************************************************************************)
(* The write-ahead log keeps the promise of DurableLog, and what it holds  *)
(* agrees with the store, for every number of callers, of indices, of      *)
(* calls and of faults.                                                    *)
(***************************************************************************)
EXTENDS Persistence, NumberFacts, FiniteSetTheorems, SequenceTheorems

-----------------------------------------------------------------------------
(* The invariants *)

\* A part of a file: a record, its segment, how much of it is there.
FilePart == [rec : Record, seg : Nat, part : {Header, Torn, Whole}, synced : BOOLEAN]

\* The records that the WAL stands for, and how many of them a Sync covers: a
\* Truncate that has begun to remove segments stands for what it will write.
Written == RecordsOf(disk) \o buffer
View == IF Rewriting THEN trunc.keep ELSE Written
Covered == IF Rewriting THEN Len(trunc.keep) ELSE promised

\* The types of the state of the WAL; what a full buffer has written is a part
\* of the first record in it.
WalType ==
  /\ disk \in Seq(FilePart)
  /\ current \in Nat
  /\ buffer \in Seq(Record) /\ spilled \in {None, Header, Torn}
  /\ trunc \in [stage : {"no", "closed", "removing", "rewriting"},
                keep : Seq(Record), done : Nat]
  /\ promised \in 0..Len(disk)
  /\ open \in BOOLEAN /\ damaged \in BOOLEAN
  /\ spilled # None => buffer # <<>>

\* Segments hold whole records in the order of the segments, the last being seg, and
\* of each segment an fsync has covered a prefix.
InOrder(files, seg) ==
  /\ \A i \in 1..Len(files) : files[i].part = Whole /\ files[i].seg <= seg
  /\ \A i, j \in 1..Len(files) :
       i < j => /\ files[i].seg <= files[j].seg
                /\ (files[i].seg = files[j].seg /\ files[j].synced) => files[i].synced

\* What was promised, n records, is fsynced, or lies in a segment that was closed.
Safe(files, n, seg) == \A i \in 1..n : files[i].synced \/ files[i].seg < seg

\* Where Truncate is, and what that says of the files.
TruncateStages ==
  /\ trunc.stage = "no" => open
  /\ trunc.stage \in {"closed", "removing"} => ~open /\ buffer = <<>>
  /\ trunc.stage = "closed" => trunc.done = 0
  /\ trunc.stage = "removing" =>
       promised = 0 /\ \A i \in 1..Len(disk) : disk[i].seg >= trunc.done
  /\ trunc.stage = "rewriting" =>
       /\ open /\ promised = 0
       /\ trunc.done <= Len(trunc.keep) /\ Written = SubSeq(trunc.keep, 1, trunc.done)

WalGood == InOrder(disk, current) /\ Safe(disk, promised, current) /\ TruncateStages

Consecutive(recs) ==
  /\ recs # <<>>
  /\ \A i \in 1..Len(recs) : recs[i] \in LogRecord /\ recs[i].index = recs[1].index + i - 1

Follows(steps, k, step) == k < Len(steps) /\ steps[k + 1] = step

\* The order of the steps of a call.
WellFormedAt(steps, k) ==
  LET s == steps[k]
  IN  /\ s.op = "SaveMetadata" =>
           /\ k = 1 /\ s.from = 0 /\ Len(s.recs) = 1 /\ s.recs[1] \in MetaRecord
           /\ Follows(steps, k, Step("Append", s.recs, 0))
      /\ s.op = "SaveSnapshot" =>
           /\ k = 1 /\ s.from = 0 /\ Len(s.recs) = 1 /\ s.recs[1] \in SnapRecord
           /\ Follows(steps, k, Step("Append", s.recs, 0))
      /\ s.op = "Append" =>
           /\ s.from = 0 /\ Len(s.recs) = 1
           /\ Follows(steps, k, Step("Sync", s.recs, 0))
      /\ s.op = "SaveLogEntries" =>
           /\ s.from = 0 /\ Consecutive(s.recs) /\ (k > 1 => s.recs[1].index = 1)
           /\ Follows(steps, k, Step("AppendBatch", s.recs, 0))
           /\ Follows(steps, k + 1, Step("Sync", s.recs, 0))
      /\ s.op = "AppendBatch" =>
           s.from = 0 /\ k < Len(steps) /\ steps[k + 1].op = "Sync" /\ steps[k + 1].from = 0
      /\ s.op = "DeleteFrom" =>
           /\ k = 1 /\ s.recs = <<>> /\ s.from \in Index
           /\ Follows(steps, k, Step("Truncate", <<>>, s.from))
      /\ s.op = "Truncate" =>
           /\ s.recs = <<>> /\ s.from \in Index
           /\ Follows(steps, k, Step("Sync", <<>>, s.from))
      /\ (s.op = "Sync" /\ k < Len(steps)) =>
           steps[k + 1].op = "SaveLogEntries" \/ steps[k + 1] = Step("Sync", <<>>, 0)

WellFormed(steps) == \A k \in 1..Len(steps) : WellFormedAt(steps, k)

StoreType ==
  [meta : Term \cup {NoTerm}, log : [Index -> Term \cup {NoTerm}],
   snap : [index : Index \cup {0}, term : Term \cup {NoTerm}]]

CallType ==
  /\ store \in StoreType
  /\ todo \in [Caller -> Seq(StepType)]
  /\ \A c \in Caller : WellFormed(todo[c])
  /\ holder = {} \/ \E c \in Caller : holder = {c}
  /\ mixed \in BOOLEAN /\ behind \subseteq AllKeys

\* A Truncate that is under way is the one of the caller that holds the lock, and
\* keeps what its call asks for.
TruncateIsHeld ==
  /\ trunc.stage # "no" => \E c \in Caller : holder = {c} /\ At(c, "Truncate")
  /\ (~damaged /\ trunc.stage = "closed") =>
       \A c \in Caller : holder = {c} =>
         trunc.keep = DL!UpTo(Written, Head(todo[c]).from - 1)

\* The store s holds what the record r says.
Holds(s, r) ==
  CASE r.type = "log"  -> s.log[r.index] = r.term
    [] r.type = "meta" -> s.meta = r.term
    [] r.type = "snap" -> s.snap.index = r.index /\ s.snap.term = r.term

StoredIn(s, key) ==
  CASE key[1] = "log"  -> s.log[key[2]]
    [] key[1] = "meta" -> s.meta
    [] key[1] = "snap" -> s.snap.term

LastAbout(w, key, i) ==
  /\ i \in 1..Len(w) /\ Key(w[i]) = key
  /\ \A j \in 1..Len(w) : j > i => Key(w[j]) # key

\* The last of the records w about a key says what the store s holds.
Agrees(w, s, key) ==
  /\ \A i \in 1..Len(w) : LastAbout(w, key, i) => Holds(s, w[i])
  /\ (\A i \in 1..Len(w) : Key(w[i]) # key) => StoredIn(s, key) = NoTerm

\* What the first of the steps that are left finds.
Ready(c) ==
  LET s == Head(todo[c])
  IN  /\ At(c, "SaveLogEntries") =>
           s.recs[1].index = 1 \/ store.log[s.recs[1].index - 1] # NoTerm
      /\ (At(c, "DeleteFrom") \/ At(c, "Truncate")) => store.snap.index < s.from
      /\ (At(c, "Append") \/ At(c, "AppendBatch")) =>
           \A i \in 1..Len(s.recs) : Holds(store, s.recs[i]) /\ Key(s.recs[i]) \in behind
      /\ At(c, "AppendBatch") =>
           \A key \in Keys(todo[c][2]) :
             Agrees(View, store, key) \/ \E i \in 1..Len(s.recs) : key = Key(s.recs[i])
      /\ At(c, "Truncate") =>
           /\ \A i \in Index : i >= s.from => store.log[i] = NoTerm
           /\ LogKeysFrom(s.from) \subseteq behind
           /\ Rewriting => \A key \in LogKeysFrom(s.from) : Agrees(View, store, key)
      /\ At(c, "Sync") => \A key \in Keys(s) : Agrees(View, store, key)

\* One caller is under way.  The store and the WAL agree on every key that is not
\* behind, and a record that no Sync has covered is about one that is.
Agreement ==
  /\ \A c, d \in Caller : (~Idle(c) /\ ~Idle(d)) => c = d
  /\ SequentialLog
  /\ \A key \in AllKeys \ behind : Agrees(View, store, key)
  /\ \A i \in 1..Len(View) : i > Covered => Key(View[i]) \in behind
  /\ \A c \in Caller : Ready(c)
  /\ buffer # <<>> =>
       \E c \in Caller : \/ At(c, "Sync") \/ At(c, "AppendBatch")
                         \/ At(c, "Truncate") /\ trunc.stage = "rewriting"

WalInv == WalType /\ (~damaged => WalGood)
CallInv == CallType /\ TruncateIsHeld
AgreeInv == (~damaged /\ ~mixed) => Agreement

-----------------------------------------------------------------------------
(* Subsequences *)

\* Of a set of numbers, the ones up to i are finitely many; i counts itself.
LEMMA RankType ==
  ASSUME NEW n \in Nat, NEW I \in SUBSET (1..n), NEW i \in I
  PROVE  /\ IsFiniteSet(I) /\ Cardinality(I) \in Nat
         /\ Rank(I, i) \in 1..Cardinality(I)
<1>1. IsFiniteSet(1..n)
  BY FS_Interval
<1>2. IsFiniteSet(I) /\ Cardinality(I) \in Nat
  BY <1>1, FS_Subset, FS_CardinalityType
<1> DEFINE J == {j \in I : j <= i}
<1>3. J \in SUBSET I /\ i \in J
  OBVIOUS
<1>4. IsFiniteSet(J) /\ Cardinality(J) <= Cardinality(I) /\ Cardinality(J) \in Nat
  <2> HIDE DEF J
  <2> QED
    BY <1>2, <1>3, FS_Subset, FS_CardinalityType
<1>5. Cardinality(J) # 0
  <2> HIDE DEF J
  <2> QED
    BY <1>3, <1>4, FS_EmptySet
<1> QED
  BY <1>2, <1>4, <1>5 DEF Rank

\* A later position has a higher rank.
LEMMA RankOrder ==
  ASSUME NEW n \in Nat, NEW I \in SUBSET (1..n), NEW i \in I, NEW j \in I, i < j
  PROVE  Rank(I, i) < Rank(I, j)
<1> DEFINE A == {k \in I : k <= i}
           B == {k \in I : k <= j}
<1>1. IsFiniteSet(I)
  BY RankType
<1>2. B \in SUBSET I /\ A \in SUBSET B /\ j \in B /\ j \notin A
  <2>1. \A k \in I : k \in Int
    OBVIOUS
  <2>2. \A k \in I : k <= i => k <= j
    BY <2>1
  <2>3. ~(j <= i)
    BY <2>1
  <2>4. B \in SUBSET I /\ A \in SUBSET B
    BY <2>2
  <2>5. j \in B /\ j \notin A
    BY <2>1, <2>3
  <2> QED
    BY <2>4, <2>5
<1>3. IsFiniteSet(B) /\ Cardinality(B) \in Nat
  <2> HIDE DEF A, B
  <2> QED
    BY <1>1, <1>2, FS_Subset, FS_CardinalityType
<1>4. IsFiniteSet(A) /\ Cardinality(A) <= Cardinality(B) /\ Cardinality(A) # Cardinality(B)
  <2> HIDE DEF A, B
  <2> QED
    BY <1>2, <1>3, FS_Subset
<1>5. Cardinality(A) \in Nat
  <2> HIDE DEF A, B
  <2> QED
    BY <1>4, FS_CardinalityType
<1> QED
  BY <1>3, <1>4, <1>5 DEF Rank

\* Every number up to their count is the rank of one of the positions.
LEMMA RankOnto ==
  ASSUME NEW n \in Nat, NEW I \in SUBSET (1..n), NEW k \in 1..Cardinality(I)
  PROVE  \E i \in I : Rank(I, i) = k
<1> DEFINE c == Cardinality(I)
           f == [i \in I |-> Rank(I, i)]
<1>1. IsFiniteSet(I) /\ c \in Nat
  <2>1. IsFiniteSet(1..n)
    BY FS_Interval
  <2> QED
    BY <2>1, FS_Subset, FS_CardinalityType
<1>2. f \in [I -> 1..c]
  BY RankType
<1>3. \A i, j \in I : f[i] = f[j] => i = j
  <2> SUFFICES ASSUME NEW i \in I, NEW j \in I, Rank(I, i) = Rank(I, j), i # j PROVE FALSE
    OBVIOUS
  <2>1. Rank(I, i) \in Int /\ Rank(I, j) \in Int
    <3>1. Rank(I, i) \in 1..c /\ Rank(I, j) \in 1..c
      BY RankType
    <3> QED
      BY <1>1, <3>1
  <2>2. i < j \/ j < i
    OBVIOUS
  <2>3. Rank(I, i) < Rank(I, j) \/ Rank(I, j) < Rank(I, i)
    BY <2>2, RankOrder
  <2> QED
    BY <2>1, <2>3
<1>4. f \in Injection(I, 1..c)
  BY <1>2, <1>3, Zenon DEF Injection, IsInjective
<1>5. IsFiniteSet(1..c) /\ Cardinality(1..c) = c
  BY <1>1, FS_Interval
<1>6. f \in Surjection(I, 1..c)
  BY <1>1, <1>4, <1>5, FS_Injection
<1>7. \E i \in I : f[i] = k
  BY <1>6 DEF Surjection
<1> QED
  BY <1>7

\* A subsequence has the chosen elements, each at its rank, and no other.
LEMMA SubsequenceElements ==
  ASSUME NEW S, NEW s \in Seq(S), NEW I \in SUBSET (1..Len(s))
  PROVE  /\ Subsequence(s, I) \in Seq(S)
         /\ Len(Subsequence(s, I)) = Cardinality(I)
         /\ Cardinality(I) \in Nat
         /\ \A i \in I : /\ Rank(I, i) \in 1..Cardinality(I)
                         /\ Subsequence(s, I)[Rank(I, i)] = s[i]
         /\ \A k \in 1..Cardinality(I) :
              \E i \in I : Rank(I, i) = k /\ Subsequence(s, I)[k] = s[i]
<1> DEFINE c == Cardinality(I)
           at(k) == CHOOSE i \in I : Rank(I, i) = k
           t == [k \in 1..c |-> s[at(k)]]
<1>1. Len(s) \in Nat
  OBVIOUS
<1>2. c \in Nat
  <2>1. IsFiniteSet(1..Len(s))
    BY <1>1, FS_Interval
  <2> QED
    BY <2>1, FS_Subset, FS_CardinalityType
<1>3. \A k \in 1..c : at(k) \in I /\ Rank(I, at(k)) = k
  BY <1>1, RankOnto
<1>4. \A i \in I : Rank(I, i) \in 1..c
  BY <1>1, RankType
<1>5. \A i, j \in I : Rank(I, i) = Rank(I, j) => i = j
  <2> SUFFICES ASSUME NEW i \in I, NEW j \in I, Rank(I, i) = Rank(I, j), i # j PROVE FALSE
    OBVIOUS
  <2>1. Rank(I, i) \in Int /\ Rank(I, j) \in Int
    BY <1>2, <1>4
  <2>2. i < j \/ j < i
    OBVIOUS
  <2>3. Rank(I, i) < Rank(I, j) \/ Rank(I, j) < Rank(I, i)
    BY <1>1, <2>2, RankOrder
  <2> QED
    BY <2>1, <2>3
<1>6. Subsequence(s, I) = t
  BY DEF Subsequence
<1>7. \A i \in I : at(Rank(I, i)) = i
  BY <1>3, <1>4, <1>5
<1> HIDE DEF c, at
<1>8. \A i \in I : s[i] \in S
  OBVIOUS
<1>9. t \in [1..c -> S]
  BY <1>3, <1>8
<1>10. t \in Seq(S) /\ Len(t) = c
  BY <1>2, <1>9
<1>11. \A i \in I : t[Rank(I, i)] = s[i]
  BY <1>4, <1>7
<1>12. \A k \in 1..c : \E i \in I : Rank(I, i) = k /\ t[k] = s[i]
  BY <1>3
<1> QED
  BY <1>2, <1>4, <1>6, <1>10, <1>11, <1>12 DEF c

\* The subsequence of the first positions is the prefix.
LEMMA SubsequencePrefix ==
  ASSUME NEW S, NEW s \in Seq(S), NEW m \in 0..Len(s)
  PROVE  Subsequence(s, 1..m) = SubSeq(s, 1, m)
<1> DEFINE I == 1..m
<1>1. I \in SUBSET (1..Len(s)) /\ m \in Nat
  OBVIOUS
<1>2. Cardinality(I) = m
  BY <1>1, FS_Interval
<1>3. \A i \in I : Rank(I, i) = i
  <2> SUFFICES ASSUME NEW i \in I PROVE Rank(I, i) = i
    OBVIOUS
  <2>1. {j \in I : j <= i} = 1..i
    OBVIOUS
  <2>2. Cardinality(1..i) = i
    BY FS_Interval
  <2> QED
    BY <2>1, <2>2 DEF Rank
<1> HIDE DEF I
<1> DEFINE t == Subsequence(s, I)
<1>4. /\ t \in Seq(S) /\ Len(t) = m
      /\ \A i \in I : t[i] = s[i]
  BY <1>1, <1>2, <1>3, SubsequenceElements
<1> HIDE DEF t
<1>5. t = SubSeq(s, 1, m)
  BY <1>1, <1>4 DEF I
<1> QED
  BY <1>5 DEF t, I

\* A set of positions that contains every position below one of its own is a prefix.
LEMMA DownClosed ==
  ASSUME NEW n \in Nat, NEW I \in SUBSET (1..n),
         \A j \in I : \A i \in 1..n : i < j => i \in I
  PROVE  \E m \in 0..n : I = 1..m
<1>1. CASE I = {}
  <2>1. I = 1..0
    BY <1>1
  <2> QED
    BY <2>1
<1>2. CASE I # {}
  <2>1. I \subseteq 0..n
    OBVIOUS
  <2>2. Max(I) \in I /\ \A y \in I : y <= Max(I)
    BY <1>2, <2>1, MaxType
  <2>3. PICK m \in I : \A y \in I : y <= m
    BY <2>2
  <2>4. m \in 1..n
    OBVIOUS
  <2>5. \A i \in 1..m : i \in 1..n /\ (i < m \/ i = m)
    BY <2>4
  <2>6. \A i \in 1..m : i \in I
    BY <2>5
  <2>7. \A i \in I : i \in 1..m
    BY <2>3, <2>4
  <2>8. I = 1..m
    BY <2>6, <2>7
  <2> QED
    BY <2>4, <2>8
<1> QED
  BY <1>1, <1>2

\* A sequence is what comes up to a position and what comes after it.
LEMMA SplitSeq ==
  ASSUME NEW S, NEW s \in Seq(S), NEW n \in 0..Len(s)
  PROVE  /\ SubSeq(s, 1, n) \in Seq(S) /\ Len(SubSeq(s, 1, n)) = n
         /\ \A i \in 1..n : SubSeq(s, 1, n)[i] = s[i]
         /\ SubSeq(s, n + 1, Len(s)) \in Seq(S) /\ Len(SubSeq(s, n + 1, Len(s))) = Len(s) - n
         /\ \A i \in 1..(Len(s) - n) : SubSeq(s, n + 1, Len(s))[i] = s[n + i]
         /\ SubSeq(s, 1, n) \o SubSeq(s, n + 1, Len(s)) = s
<1>1. Len(s) \in Nat /\ n \in Nat /\ n <= Len(s)
  OBVIOUS
<1> DEFINE a == SubSeq(s, 1, n)
           b == SubSeq(s, n + 1, Len(s))
<1>2. \A i \in 1..n : s[i] \in S
  BY <1>1
<1>3. a \in Seq(S) /\ Len(a) = n /\ \A i \in 1..n : a[i] = s[i]
  BY <1>1, <1>2
<1>4. \A i \in (n + 1)..Len(s) : s[i] \in S
  BY <1>1
<1>5. b \in Seq(S) /\ Len(b) = Len(s) - n
  BY <1>1, <1>4
<1>6. \A i \in 1..(Len(s) - n) : b[i] = s[n + i]
  BY <1>1
<1> HIDE DEF a, b
<1>7. a \o b \in Seq(S) /\ Len(a \o b) = Len(s)
  BY <1>1, <1>3, <1>5
<1>8. \A i \in 1..Len(s) : (a \o b)[i] = s[i]
  <2> SUFFICES ASSUME NEW i \in 1..Len(s) PROVE (a \o b)[i] = s[i]
    OBVIOUS
  <2>1. CASE i <= n
    BY <1>1, <1>3, <1>5, <2>1
  <2>2. CASE i > n
    <3>1. i - n \in 1..(Len(s) - n) /\ n + (i - n) = i
      BY <1>1, <2>2
    <3>2. (a \o b)[i] = b[i - n]
      BY <1>1, <1>3, <1>5, <2>2
    <3> QED
      BY <1>6, <3>1, <3>2
  <2>3. i <= n \/ i > n
    BY <1>1
  <2> QED
    BY <2>1, <2>2, <2>3
<1>9. a \o b = s
  BY <1>7, <1>8, SeqEqual
<1> QED
  BY <1>3, <1>5, <1>6, <1>9 DEF a, b

\* The elements of a concatenation.
LEMMA ConcatElements ==
  ASSUME NEW S, NEW s \in Seq(S), NEW t \in Seq(S)
  PROVE  /\ s \o t \in Seq(S) /\ Len(s \o t) = Len(s) + Len(t)
         /\ \A i \in 1..Len(s) : (s \o t)[i] = s[i]
         /\ \A i \in 1..Len(t) : (s \o t)[Len(s) + i] = t[i]
<1>1. Len(s) \in Nat /\ Len(t) \in Nat
  OBVIOUS
<1>2. \A i \in 1..Len(t) : (s \o t)[Len(s) + i] = t[i]
  <2> SUFFICES ASSUME NEW i \in 1..Len(t) PROVE (s \o t)[Len(s) + i] = t[i]
    OBVIOUS
  <2>1. Len(s) + i \in 1..(Len(s) + Len(t)) /\ ~(Len(s) + i <= Len(s)) /\ Len(s) + i - Len(s) = i
    BY <1>1
  <2> QED
    BY <2>1
<1> QED
  BY <1>2

-----------------------------------------------------------------------------
(* Files *)

\* What a part of a file consists of.
LEMMA FilePartFields ==
  ASSUME NEW e \in FilePart
  PROVE  /\ e.rec \in Record /\ e.seg \in Nat /\ e.synced \in BOOLEAN
         /\ e.part \in {Header, Torn, Whole}
BY DEF FilePart

\* Records written to a segment.
LEMMA InFileType ==
  ASSUME NEW recs \in Seq(Record), NEW seg \in Nat
  PROVE  /\ InFile(recs, seg) \in Seq(FilePart)
         /\ Len(InFile(recs, seg)) = Len(recs)
         /\ \A i \in 1..Len(recs) :
              /\ InFile(recs, seg)[i].rec = recs[i] /\ InFile(recs, seg)[i].seg = seg
              /\ InFile(recs, seg)[i].part = Whole /\ ~InFile(recs, seg)[i].synced
<1> DEFINE e(i) == [rec |-> recs[i], seg |-> seg, part |-> Whole, synced |-> FALSE]
           f == [i \in 1..Len(recs) |-> e(i)]
<1>1. InFile(recs, seg) = f
  BY DEF InFile
<1>2. \A i \in 1..Len(recs) : e(i) \in FilePart
  BY DEF FilePart
<1> HIDE DEF e
<1>3. Len(recs) \in Nat
  OBVIOUS
<1>4. f \in [1..Len(recs) -> FilePart]
  BY <1>2
<1>5. f \in Seq(FilePart) /\ Len(f) = Len(recs)
  BY <1>3, <1>4
<1>6. \A i \in 1..Len(recs) : f[i] = e(i)
  OBVIOUS
<1>7. \A i \in 1..Len(recs) : /\ e(i).rec = recs[i] /\ e(i).seg = seg
                              /\ e(i).part = Whole /\ ~e(i).synced
  BY DEF e
<1>8. \A i \in 1..Len(recs) : /\ f[i].rec = recs[i] /\ f[i].seg = seg
                              /\ f[i].part = Whole /\ ~f[i].synced
  BY <1>6, <1>7
<1> QED
  BY <1>1, <1>5, <1>8

\* The records of some files.
LEMMA RecordsOfType ==
  ASSUME NEW files \in Seq(FilePart)
  PROVE  /\ RecordsOf(files) \in Seq(Record)
         /\ Len(RecordsOf(files)) = Len(files)
         /\ \A i \in 1..Len(files) : RecordsOf(files)[i] = files[i].rec
<1>1. \A i \in 1..Len(files) : files[i].rec \in Record
  <2>1. \A i \in 1..Len(files) : files[i] \in FilePart
    OBVIOUS
  <2> QED
    BY <2>1, FilePartFields
<1>2. Len(files) \in Nat
  OBVIOUS
<1>3. RecordsOf(files) \in [1..Len(files) -> Record]
  BY <1>1 DEF RecordsOf
<1>4. RecordsOf(files) \in Seq(Record) /\ Len(RecordsOf(files)) = Len(files)
  BY <1>2, <1>3
<1> QED
  BY <1>4 DEF RecordsOf

\* The records of files that follow one another.
LEMMA RecordsOfConcat ==
  ASSUME NEW f \in Seq(FilePart), NEW g \in Seq(FilePart)
  PROVE  RecordsOf(f \o g) = RecordsOf(f) \o RecordsOf(g)
<1>1. f \o g \in Seq(FilePart) /\ Len(f \o g) = Len(f) + Len(g)
  OBVIOUS
<1> DEFINE a == RecordsOf(f \o g)
           b == RecordsOf(f)
           d == RecordsOf(g)
<1>2. /\ a \in Seq(Record) /\ Len(a) = Len(f) + Len(g)
      /\ \A i \in 1..(Len(f) + Len(g)) : a[i] = (f \o g)[i].rec
  BY <1>1, RecordsOfType
<1>3. /\ b \in Seq(Record) /\ Len(b) = Len(f)
      /\ \A i \in 1..Len(f) : b[i] = f[i].rec
  BY RecordsOfType
<1>4. /\ d \in Seq(Record) /\ Len(d) = Len(g)
      /\ \A i \in 1..Len(g) : d[i] = g[i].rec
  BY RecordsOfType
<1> HIDE DEF a, b, d
<1>5. b \o d \in Seq(Record) /\ Len(b \o d) = Len(f) + Len(g)
  <2>1. b \in Seq(Record) /\ d \in Seq(Record) /\ Len(b) = Len(f) /\ Len(d) = Len(g)
    BY <1>3, <1>4
  <2> QED
    BY <2>1
<1>6. ASSUME NEW i \in 1..(Len(f) + Len(g)) PROVE a[i] = (b \o d)[i]
  <2>1. CASE i <= Len(f)
    BY <1>2, <1>3, <1>4, <2>1
  <2>2. CASE i > Len(f)
    <3>1. i - Len(f) \in 1..Len(g)
      BY <2>2
    <3>2. (f \o g)[i] = g[i - Len(f)] /\ (b \o d)[i] = d[i - Len(f)]
      BY <1>3, <1>4, <2>2, <3>1
    <3> QED
      BY <1>2, <1>4, <3>1, <3>2
  <2>3. i <= Len(f) \/ i > Len(f)
    OBVIOUS
  <2> QED
    BY <2>1, <2>2, <2>3
<1>7. a = b \o d
  BY <1>2, <1>5, <1>6, SeqEqual
<1> QED
  BY <1>7 DEF a, b, d

\* The records of records just written.
LEMMA RecordsOfInFile ==
  ASSUME NEW recs \in Seq(Record), NEW seg \in Nat
  PROVE  RecordsOf(InFile(recs, seg)) = recs
<1> DEFINE f == InFile(recs, seg)
           g == RecordsOf(f)
<1>1. /\ f \in Seq(FilePart) /\ Len(f) = Len(recs)
      /\ \A i \in 1..Len(recs) : f[i].rec = recs[i]
  BY InFileType
<1> HIDE DEF f
<1>2. g \in Seq(Record) /\ Len(g) = Len(recs) /\ \A i \in 1..Len(recs) : g[i] = recs[i]
  BY <1>1, RecordsOfType
<1> HIDE DEF g
<1>3. g = recs
  BY <1>2, SeqEqual
<1> QED
  BY <1>3 DEF f, g

\* The records of a part of the files.
LEMMA RecordsOfSub ==
  ASSUME NEW f \in Seq(FilePart), NEW m \in 1..(Len(f) + 1), NEW n \in 0..Len(f)
  PROVE  /\ SubSeq(f, m, n) \in Seq(FilePart)
         /\ RecordsOf(SubSeq(f, m, n)) = SubSeq(RecordsOf(f), m, n)
<1> DEFINE a == RecordsOf(f)
           g == SubSeq(f, m, n)
           h == RecordsOf(g)
           b == SubSeq(a, m, n)
<1>1. a \in Seq(Record) /\ Len(a) = Len(f) /\ \A i \in 1..Len(f) : a[i] = f[i].rec
  BY RecordsOfType
<1>2. /\ g \in Seq(FilePart) /\ Len(g) = IF m <= n THEN n - m + 1 ELSE 0
      /\ \A i \in 1..Len(g) : g[i] = f[m + i - 1]
  OBVIOUS
<1> HIDE DEF a, g
<1>3. /\ h \in Seq(Record) /\ Len(h) = Len(g)
      /\ \A i \in 1..Len(g) : h[i] = g[i].rec
  BY <1>2, RecordsOfType
<1>4. /\ b \in Seq(Record) /\ Len(b) = Len(g)
      /\ \A i \in 1..Len(g) : b[i] = a[m + i - 1]
  BY <1>1, <1>2
<1> HIDE DEF b, h
<1>5. \A i \in 1..Len(g) : m + i - 1 \in 1..Len(f)
  BY <1>2
<1>6. \A i \in 1..Len(g) : h[i] = b[i]
  <2> SUFFICES ASSUME NEW i \in 1..Len(g) PROVE h[i] = b[i]
    OBVIOUS
  <2>1. h[i] = g[i].rec /\ g[i] = f[m + i - 1] /\ b[i] = a[m + i - 1]
    BY <1>2, <1>3, <1>4
  <2>2. a[m + i - 1] = f[m + i - 1].rec
    BY <1>1, <1>5
  <2> QED
    BY <2>1, <2>2
<1>7. h \in Seq(Record) /\ b \in Seq(Record) /\ Len(h) = Len(g) /\ Len(b) = Len(g)
  BY <1>3, <1>4
<1>8. h = b
  BY <1>6, <1>7, SeqEqual
<1> QED
  BY <1>2, <1>8 DEF a, b, g, h

\* What is appended to the last segment, or to a later one, keeps the order and what
\* was promised.
LEMMA OrderExtends ==
  ASSUME NEW f \in Seq(FilePart), NEW recs \in Seq(Record),
         NEW seg \in Nat, NEW last \in Nat, last <= seg, InOrder(f, last)
  PROVE  /\ InOrder(f \o InFile(recs, seg), seg)
         /\ \A n \in 0..Len(f) : Safe(f, n, last) => Safe(f \o InFile(recs, seg), n, seg)
<1> DEFINE g == InFile(recs, seg)
           h == f \o g
<1>1. /\ g \in Seq(FilePart)
      /\ \A i \in 1..Len(g) : g[i].part = Whole /\ g[i].seg = seg /\ ~g[i].synced
  <2>1. /\ g \in Seq(FilePart) /\ Len(g) = Len(recs)
        /\ \A i \in 1..Len(recs) :
             g[i].part = Whole /\ g[i].seg = seg /\ ~g[i].synced
    BY InFileType
  <2> HIDE DEF g
  <2> QED
    BY <2>1
<1> HIDE DEF g
<1>2. /\ h \in Seq(FilePart) /\ Len(h) = Len(f) + Len(g)
      /\ \A i \in 1..Len(f) : h[i] = f[i]
      /\ \A i \in 1..Len(h) : i > Len(f) => h[i] = g[i - Len(f)] /\ i - Len(f) \in 1..Len(g)
  BY <1>1
<1> HIDE DEF h
<1>3. \A i \in 1..Len(h) :
        i > Len(f) => h[i].part = Whole /\ h[i].seg = seg /\ ~h[i].synced
  BY <1>1, <1>2
<1>4. \A i \in 1..Len(f) : f[i].part = Whole /\ f[i].seg <= last /\ f[i].seg \in Nat
  <2>1. \A i \in 1..Len(f) : f[i] \in FilePart
    OBVIOUS
  <2>2. \A i \in 1..Len(f) : f[i].seg \in Nat
    BY <2>1, FilePartFields
  <2> QED
    BY <2>2 DEF InOrder
<1>5. \A i \in 1..Len(h) : h[i].part = Whole /\ h[i].seg <= seg
  <2> SUFFICES ASSUME NEW i \in 1..Len(h) PROVE h[i].part = Whole /\ h[i].seg <= seg
    OBVIOUS
  <2>1. CASE i \in 1..Len(f)
    <3>1. h[i] = f[i]
      BY <1>2, <2>1
    <3>2. f[i].part = Whole /\ f[i].seg <= last /\ f[i].seg \in Nat
      BY <1>4, <2>1
    <3> QED
      BY <3>1, <3>2
  <2>2. CASE i > Len(f)
    BY <1>3, <2>2
  <2> QED
    BY <2>1, <2>2
<1>6. ASSUME NEW i \in 1..Len(h), NEW j \in 1..Len(h), i < j
      PROVE  /\ h[i].seg <= h[j].seg
             /\ (h[i].seg = h[j].seg /\ h[j].synced) => h[i].synced
  <2>1. CASE j \in 1..Len(f)
    <3>1. i \in 1..Len(f) /\ h[i] = f[i] /\ h[j] = f[j]
      BY <1>2, <1>6, <2>1
    <3> QED
      BY <1>6, <2>1, <3>1 DEF InOrder
  <2>2. CASE j > Len(f)
    BY <1>3, <1>5, <2>2
  <2> QED
    BY <2>1, <2>2
<1>7. InOrder(h, seg)
  BY <1>5, <1>6 DEF InOrder
<1>8. ASSUME NEW n \in 0..Len(f), Safe(f, n, last) PROVE Safe(h, n, seg)
  <2> SUFFICES ASSUME NEW i \in 1..n PROVE h[i].synced \/ h[i].seg < seg
    BY DEF Safe
  <2>1. i \in 1..Len(f)
    OBVIOUS
  <2>2. h[i] = f[i] /\ f[i].seg \in Nat
    BY <1>2, <1>4, <2>1
  <2>3. f[i].synced \/ f[i].seg < last
    BY <1>8 DEF Safe
  <2> QED
    BY <2>2, <2>3
<1> QED
  BY <1>7, <1>8 DEF g, h

-----------------------------------------------------------------------------
(* The methods of the WAL *)

\* Everything that was appended, in the files or in the buffer.
LEMMA WrittenType ==
  ASSUME WalType
  PROVE  /\ RecordsOf(disk) \in Seq(Record) /\ Len(RecordsOf(disk)) = Len(disk)
         /\ Written \in Seq(Record) /\ Len(Written) = Len(disk) + Len(buffer)
<1>1. disk \in Seq(FilePart) /\ buffer \in Seq(Record)
  BY DEF WalType
<1>2. RecordsOf(disk) \in Seq(Record) /\ Len(RecordsOf(disk)) = Len(disk)
  BY <1>1, RecordsOfType
<1> QED
  BY <1>1, <1>2 DEF Written

\* A flush moves the buffer into the file.
LEMMA FlushedType ==
  ASSUME WalType
  PROVE  /\ Flushed \in Seq(FilePart) /\ Len(Flushed) = Len(Written)
         /\ RecordsOf(Flushed) = Written
         /\ Len(Flushed) >= Len(disk)
         /\ InOrder(disk, current) =>
              /\ InOrder(Flushed, current)
              /\ Safe(disk, promised, current) => Safe(Flushed, promised, current)
<1> DEFINE g == InFile(buffer, current)
<1>1. /\ disk \in Seq(FilePart) /\ buffer \in Seq(Record) /\ current \in Nat
      /\ promised \in 0..Len(disk)
  BY DEF WalType
<1>2. g \in Seq(FilePart) /\ Len(g) = Len(buffer) /\ RecordsOf(g) = buffer
  BY <1>1, InFileType, RecordsOfInFile
<1>3. Flushed = disk \o g
  BY DEF Flushed
<1>4. InOrder(disk, current) =>
        /\ InOrder(Flushed, current)
        /\ Safe(disk, promised, current) => Safe(Flushed, promised, current)
  BY <1>1, <1>3, OrderExtends
<1> HIDE DEF g
<1>5. /\ Flushed \in Seq(FilePart) /\ Len(Flushed) = Len(disk) + Len(buffer)
      /\ Len(Flushed) >= Len(disk)
  BY <1>1, <1>2, <1>3
<1>6. RecordsOf(Flushed) = Written
  BY <1>1, <1>2, <1>3, RecordsOfConcat DEF Written
<1> QED
  BY <1>4, <1>5, <1>6, WrittenType

\* A buffer that spills moves a prefix of what is pending into the file.
LEMMA SpillEffect ==
  ASSUME NEW files \in Seq(FilePart), NEW pending \in Seq(Record),
         current' \in Nat, Spill(files, pending)
  PROVE  /\ \E recs \in Seq(Record) : disk' = files \o InFile(recs, current')
         /\ disk' \in Seq(FilePart) /\ Len(disk') >= Len(files)
         /\ buffer' \in Seq(Record) /\ spilled' \in {None, Header, Torn}
         /\ spilled' # None => buffer' # <<>>
         /\ Written' = RecordsOf(files) \o pending
<1>1. PICK n \in 0..Len(pending), part \in {None, Header, Torn} :
        /\ n = Len(pending) => part = None
        /\ disk' = files \o InFile(SubSeq(pending, 1, n), current')
        /\ buffer' = SubSeq(pending, n + 1, Len(pending))
        /\ spilled' = part
  <2>1. CASE FillsBuffer(pending)
    <3>1. PICK n \in 0..Len(pending) :
            \E part \in IF n < Len(pending) THEN {None, Header, Torn} ELSE {None} :
              /\ disk' = files \o InFile(SubSeq(pending, 1, n), current')
              /\ buffer' = SubSeq(pending, n + 1, Len(pending))
              /\ spilled' = part
      BY <2>1 DEF Spill
    <3>2. PICK part \in {None, Header, Torn} :
            /\ n = Len(pending) => part = None
            /\ disk' = files \o InFile(SubSeq(pending, 1, n), current')
            /\ buffer' = SubSeq(pending, n + 1, Len(pending))
            /\ spilled' = part
      BY <3>1
    <3> QED
      BY <3>2
  <2>2. CASE ~FillsBuffer(pending)
    <3>1. /\ disk' = files \o InFile(SubSeq(pending, 1, 0), current')
          /\ buffer' = SubSeq(pending, 0 + 1, Len(pending))
          /\ spilled' = None
      BY <2>2 DEF Spill
    <3>2. 0 \in 0..Len(pending)
      OBVIOUS
    <3> QED
      BY <3>1, <3>2
  <2> QED
    BY <2>1, <2>2
<1> DEFINE a == SubSeq(pending, 1, n)
           b == SubSeq(pending, n + 1, Len(pending))
           g == InFile(a, current')
<1>2. /\ a \in Seq(Record) /\ b \in Seq(Record) /\ a \o b = pending
      /\ Len(b) = Len(pending) - n
  BY SplitSeq
<1>3. n # Len(pending) => b # <<>>
  <2> HIDE DEF b
  <2>1. Len(b) = Len(pending) - n /\ Len(pending) \in Int /\ n \in Int
    BY <1>2
  <2> QED
    BY <2>1
<1>4. disk' = files \o g /\ buffer' = b /\ spilled' = part
  BY <1>1
<1> HIDE DEF a, b
<1>5. g \in Seq(FilePart) /\ RecordsOf(g) = a
  BY <1>2, InFileType, RecordsOfInFile
<1>6. \E recs \in Seq(Record) : disk' = files \o InFile(recs, current')
  BY <1>2, <1>4
<1> HIDE DEF g
<1>7. disk' \in Seq(FilePart) /\ Len(disk') >= Len(files)
  BY <1>4, <1>5
<1>8. RecordsOf(disk') = RecordsOf(files) \o a
  BY <1>4, <1>5, RecordsOfConcat
<1>9. RecordsOf(files) \in Seq(Record)
  BY RecordsOfType
<1>10. Written' = RecordsOf(files) \o pending
  <2>1. Written' = (RecordsOf(files) \o a) \o b
    BY <1>4, <1>8 DEF Written
  <2>2. a \in Seq(Record) /\ b \in Seq(Record)
    BY <1>2
  <2>3. (RecordsOf(files) \o a) \o b = RecordsOf(files) \o (a \o b)
    <3> DEFINE x == RecordsOf(files)
    <3> HIDE DEF x
    <3>1. x \in Seq(Record)
      BY <1>9 DEF x
    <3>2. (x \o a) \o b = x \o (a \o b)
      <4>1. PICK R : R = Seq(Record)
        OBVIOUS
      <4>2. \A p, q, r \in R : (p \o q) \o r = p \o (q \o r)
        BY ONLY <4>1, ConcatAssociative, SMTT(60)
      <4>3. x \in R /\ a \in R /\ b \in R
        BY ONLY <2>2, <3>1, <4>1
      <4> QED
        BY ONLY <4>2, <4>3, Zenon
    <3> QED
      BY <3>2 DEF x
  <2> QED
    BY <1>2, <2>1, <2>3
<1>11. spilled' # None => buffer' # <<>>
  BY <1>1, <1>3, <1>4
<1> QED
  BY <1>2, <1>4, <1>6, <1>7, <1>10, <1>11

\* appendEntry adds one record at the end; the files stay in order.
LEMMA AppendEffect ==
  ASSUME WalType, NEW r \in Record, appendEntry(r)
  PROVE  /\ disk' \in Seq(FilePart) /\ current' \in Nat
         /\ buffer' \in Seq(Record) /\ spilled' \in {None, Header, Torn}
         /\ spilled' # None => buffer' # <<>>
         /\ promised' \in 0..Len(disk')
         /\ open /\ open' = open /\ promised' = promised /\ damaged' = damaged
         /\ Written' = Append(Written, r)
         /\ InOrder(disk, current) =>
              /\ InOrder(disk', current')
              /\ Safe(disk, promised, current) => Safe(disk', promised', current')
<1>1. /\ disk \in Seq(FilePart) /\ buffer \in Seq(Record) /\ current \in Nat
      /\ promised \in 0..Len(disk)
  BY DEF WalType
<1>2. open /\ open' = open /\ promised' = promised /\ damaged' = damaged
  BY DEF appendEntry
<1>3. RecordsOf(disk) \in Seq(Record)
  BY <1>1, RecordsOfType
<1>4. CASE AppendInPlace(r)
  <2> DEFINE pending == Append(buffer, r)
  <2>1. current' = current /\ pending \in Seq(Record) /\ Spill(disk, pending)
    BY <1>1, <1>4 DEF AppendInPlace
  <2>2. RecordsOf(disk) \o pending = Append(Written, r)
    BY <1>1, <1>3 DEF Written
  <2> HIDE DEF pending
  <2>3. /\ \E recs \in Seq(Record) : disk' = disk \o InFile(recs, current')
        /\ disk' \in Seq(FilePart) /\ Len(disk') >= Len(disk)
        /\ buffer' \in Seq(Record) /\ spilled' \in {None, Header, Torn}
        /\ spilled' # None => buffer' # <<>>
        /\ Written' = RecordsOf(disk) \o pending
    BY <1>1, <2>1, SpillEffect
  <2>4. InOrder(disk, current) =>
          /\ InOrder(disk', current')
          /\ Safe(disk, promised, current) => Safe(disk', promised', current')
    <3>1. PICK recs \in Seq(Record) : disk' = disk \o InFile(recs, current)
      BY <2>1, <2>3
    <3>2. current <= current
      BY <1>1
    <3> QED
      BY <1>1, <1>2, <2>1, <3>1, <3>2, OrderExtends
  <2>5. promised' \in 0..Len(disk')
    BY <1>1, <1>2, <2>3
  <2> QED
    BY <1>1, <1>2, <2>1, <2>2, <2>3, <2>4, <2>5
<1>5. CASE AppendRotated(r)
  <2>1. current' = current + 1 /\ <<r>> \in Seq(Record) /\ Spill(Flushed, <<r>>)
    BY <1>5 DEF AppendRotated
  <2>2. /\ Flushed \in Seq(FilePart) /\ RecordsOf(Flushed) = Written
        /\ Len(Flushed) >= Len(disk)
        /\ InOrder(disk, current) =>
             /\ InOrder(Flushed, current)
             /\ Safe(disk, promised, current) => Safe(Flushed, promised, current)
    BY FlushedType
  <2>3. current' \in Nat /\ current <= current'
    BY <1>1, <2>1
  <2>4. /\ \E recs \in Seq(Record) : disk' = Flushed \o InFile(recs, current')
        /\ disk' \in Seq(FilePart) /\ Len(disk') >= Len(Flushed)
        /\ buffer' \in Seq(Record) /\ spilled' \in {None, Header, Torn}
        /\ spilled' # None => buffer' # <<>>
        /\ Written' = RecordsOf(Flushed) \o <<r>>
    BY <2>1, <2>2, <2>3, SpillEffect
  <2>5. InOrder(disk, current) =>
          /\ InOrder(disk', current')
          /\ Safe(disk, promised, current) => Safe(disk', promised', current')
    <3>1. PICK recs \in Seq(Record) : disk' = Flushed \o InFile(recs, current')
      BY <2>4
    <3>2. promised \in 0..Len(Flushed)
      BY <1>1, <2>2
    <3> QED
      BY <1>1, <1>2, <2>2, <2>3, <3>1, <3>2, OrderExtends
  <2>6. promised' \in 0..Len(disk')
    BY <1>1, <1>2, <2>2, <2>4
  <2>7. Written \in Seq(Record)
    BY WrittenType
  <2>8. Written' = Append(Written, r)
    BY <2>2, <2>4, <2>7
  <2> QED
    BY <1>2, <2>3, <2>4, <2>5, <2>6, <2>8
<1> QED
  BY <1>4, <1>5 DEF appendEntry

\* An fsync changes nothing but what it covers: all of the current segment.
LEMMA FsyncEffect ==
  ASSUME NEW f \in Seq(FilePart), current \in Nat
  PROVE  /\ FsyncCurrent(f) \in Seq(FilePart) /\ Len(FsyncCurrent(f)) = Len(f)
         /\ RecordsOf(FsyncCurrent(f)) = RecordsOf(f)
         /\ InOrder(f, current) =>
              InOrder(FsyncCurrent(f), current) /\ Safe(FsyncCurrent(f), Len(f), current)
<1> DEFINE e(i) == [f[i] EXCEPT !.synced = @ \/ f[i].seg = current]
           g == FsyncCurrent(f)
<1>1. g = [i \in 1..Len(f) |-> e(i)] /\ Len(f) \in Nat
  BY DEF FsyncCurrent
<1>2. \A i \in 1..Len(f) : f[i] \in FilePart
  OBVIOUS
<1>3. ASSUME NEW i \in 1..Len(f)
      PROVE  /\ e(i) \in FilePart
             /\ e(i).rec = f[i].rec /\ e(i).seg = f[i].seg /\ e(i).part = f[i].part
             /\ e(i).synced <=> (f[i].synced \/ f[i].seg = current)
  <2> DEFINE x == f[i]
  <2>1. x \in FilePart
    BY <1>2
  <2> HIDE DEF x
  <2>2. e(i) = [x EXCEPT !.synced = @ \/ x.seg = current]
    BY DEF x
  <2> HIDE DEF e
  <2>3. /\ e(i) \in FilePart
        /\ e(i).rec = x.rec /\ e(i).seg = x.seg /\ e(i).part = x.part
    BY <2>1, <2>2 DEF FilePart
  <2>4. e(i).synced = (x.synced \/ x.seg = current)
    BY <2>1, <2>2 DEF FilePart
  <2> QED
    BY <2>3, <2>4 DEF x
<1> HIDE DEF e
<1>4. g \in [1..Len(f) -> FilePart]
  BY <1>1, <1>3
<1>5. g \in Seq(FilePart) /\ Len(g) = Len(f)
  BY <1>1, <1>4
<1>6. \A i \in 1..Len(f) : g[i] = e(i)
  BY <1>1
<1>7. \A i \in 1..Len(f) :
        /\ g[i].rec = f[i].rec /\ g[i].seg = f[i].seg /\ g[i].part = f[i].part
        /\ g[i].synced <=> (f[i].synced \/ f[i].seg = current)
  BY <1>3, <1>6
<1> HIDE DEF g
<1>8. RecordsOf(g) = RecordsOf(f)
  BY <1>5, <1>7 DEF RecordsOf
<1>9. ASSUME InOrder(f, current) PROVE InOrder(g, current)
  <2>1. \A i \in 1..Len(g) : g[i].part = Whole /\ g[i].seg <= current
    BY <1>5, <1>7, <1>9 DEF InOrder
  <2>2. ASSUME NEW i \in 1..Len(g), NEW j \in 1..Len(g), i < j
        PROVE  /\ g[i].seg <= g[j].seg
               /\ (g[i].seg = g[j].seg /\ g[j].synced) => g[i].synced
    <3>1. i \in 1..Len(f) /\ j \in 1..Len(f)
      BY <1>5
    <3>2. /\ f[i].seg <= f[j].seg
          /\ (f[i].seg = f[j].seg /\ f[j].synced) => f[i].synced
      BY <1>9, <2>2, <3>1 DEF InOrder
    <3>3. /\ g[i].seg = f[i].seg /\ (g[i].synced <=> (f[i].synced \/ f[i].seg = current))
          /\ g[j].seg = f[j].seg /\ (g[j].synced <=> (f[j].synced \/ f[j].seg = current))
      BY <1>7, <3>1
    <3> QED
      BY <3>2, <3>3
  <2> QED
    BY <2>1, <2>2 DEF InOrder
<1>10. ASSUME InOrder(f, current) PROVE Safe(g, Len(f), current)
  <2> SUFFICES ASSUME NEW i \in 1..Len(f) PROVE g[i].synced \/ g[i].seg < current
    BY DEF Safe
  <2>1. g[i].seg = f[i].seg /\ (g[i].synced <=> (f[i].synced \/ f[i].seg = current))
    BY <1>7
  <2>2. f[i].seg <= current
    BY <1>10 DEF InOrder
  <2>3. f[i].seg \in Nat
    BY <1>2, FilePartFields
  <2> QED
    BY <2>1, <2>2, <2>3
<1> QED
  BY <1>5, <1>8, <1>9, <1>10 DEF g

\* A sync of an open WAL covers everything that was appended.
LEMMA SyncEffect ==
  ASSUME WalType, sync, open
  PROVE  /\ disk' \in Seq(FilePart) /\ current' = current /\ buffer' = <<>> /\ spilled' = None
         /\ promised' = Len(disk') /\ promised' = Len(Written)
         /\ open' = open /\ damaged' = damaged
         /\ Written' = Written
         /\ InOrder(disk, current) =>
              InOrder(disk', current') /\ Safe(disk', promised', current')
<1>1. /\ disk' = FsyncCurrent(Flushed) /\ buffer' = <<>> /\ spilled' = None
      /\ promised' = Len(disk') /\ current' = current /\ open' = open /\ damaged' = damaged
  BY DEF sync
<1>2. current \in Nat
  BY DEF WalType
<1>3. /\ Flushed \in Seq(FilePart) /\ Len(Flushed) = Len(Written)
      /\ RecordsOf(Flushed) = Written
      /\ InOrder(disk, current) => InOrder(Flushed, current)
  BY FlushedType
<1>4. /\ disk' \in Seq(FilePart) /\ Len(disk') = Len(Flushed)
      /\ RecordsOf(disk') = Written
      /\ InOrder(Flushed, current) =>
           InOrder(disk', current) /\ Safe(disk', Len(Flushed), current)
  BY <1>1, <1>2, <1>3, FsyncEffect
<1>5. Written' = Written
  <2>1. Written \in Seq(Record)
    BY WrittenType
  <2>2. Written' = Written \o <<>>
    BY <1>1, <1>4 DEF Written
  <2> QED
    BY <2>1, <2>2
<1> QED
  BY <1>1, <1>3, <1>4, <1>5

\* What the files and the buffer stand for, as one sequence and how much of it a Sync
\* has covered.
LEMMA AbstractLog ==
  ASSUME WalType
  PROVE  /\ View \in Seq(Record) /\ Covered \in 0..Len(View)
         /\ DurableRecords = SubSeq(View, 1, Covered)
         /\ VolatileRecords = SubSeq(View, Covered + 1, Len(View))
<1>1. /\ disk \in Seq(FilePart) /\ buffer \in Seq(Record) /\ promised \in 0..Len(disk)
      /\ trunc.keep \in Seq(Record)
  BY DEF WalType
<1>2. CASE Rewriting
  <2> DEFINE k == trunc.keep
  <2>1. /\ View = k /\ Covered = Len(k)
        /\ DurableRecords = k /\ VolatileRecords = <<>>
    BY <1>2 DEF View, Covered, DurableRecords, VolatileRecords
  <2>2. k \in Seq(Record)
    BY <1>1
  <2> HIDE DEF k
  <2>3. Len(k) \in Nat /\ SubSeq(k, 1, Len(k)) = k /\ SubSeq(k, Len(k) + 1, Len(k)) = <<>>
    BY <2>2
  <2> QED
    BY <2>1, <2>2, <2>3
<1>3. CASE ~Rewriting
  <2> DEFINE a == RecordsOf(disk)
  <2>1. a \in Seq(Record) /\ Len(a) = Len(disk) /\ Len(disk) \in Nat
    BY <1>1, RecordsOfType
  <2>2. /\ View = a \o buffer /\ Covered = promised
    BY <1>3 DEF View, Covered, Written
  <2>3. /\ DurableRecords = SubSeq(a, 1, promised)
        /\ VolatileRecords = SubSeq(a, promised + 1, Len(a)) \o buffer
    <3>1. /\ promised + 1 \in 1..(Len(disk) + 1) /\ promised \in 0..Len(disk)
          /\ Len(disk) \in 0..Len(disk)
      BY <1>1, <2>1
    <3>2. RecordsOf(SubSeq(disk, 1, promised)) = SubSeq(a, 1, promised)
      BY <1>1, <3>1, RecordsOfSub
    <3>3. RecordsOf(SubSeq(disk, promised + 1, Len(disk))) = SubSeq(a, promised + 1, Len(disk))
      BY <1>1, <3>1, RecordsOfSub
    <3> QED
      BY <1>3, <2>1, <3>2, <3>3 DEF DurableRecords, VolatileRecords
  <2> HIDE DEF a
  <2>4. SubSeq(a \o buffer, 1, promised) = SubSeq(a, 1, promised)
    BY <1>1, <2>1
  <2> DEFINE x == SubSeq(a \o buffer, promised + 1, Len(a \o buffer))
             b == SubSeq(a, promised + 1, Len(a))
             y == b \o buffer
  <2>5. /\ a \o buffer \in Seq(Record) /\ Len(a \o buffer) = Len(a) + Len(buffer)
        /\ promised \in 0..Len(a) /\ promised \in 0..Len(a \o buffer)
        /\ Len(buffer) \in Nat /\ Len(a) \in Nat
    <3>1. a \in Seq(Record) /\ buffer \in Seq(Record)
      BY <1>1, <2>1
    <3>2. Len(buffer) \in Nat /\ Len(a) \in Nat /\ promised \in 0..Len(a)
      BY <1>1, <2>1
    <3>3. a \o buffer \in Seq(Record) /\ Len(a \o buffer) = Len(a) + Len(buffer)
      BY <3>1
    <3>4. promised \in 0..(Len(a) + Len(buffer))
      BY <3>2
    <3> QED
      BY <3>2, <3>3, <3>4
  <2>6. /\ x \in Seq(Record) /\ Len(x) = Len(a) + Len(buffer) - promised
        /\ \A i \in 1..(Len(a) + Len(buffer) - promised) : x[i] = (a \o buffer)[promised + i]
    BY <2>5, SplitSeq
  <2>7. /\ b \in Seq(Record) /\ Len(b) = Len(a) - promised
        /\ \A i \in 1..(Len(a) - promised) : b[i] = a[promised + i]
    BY <2>1, <2>5, SplitSeq
  <2> HIDE DEF x, b
  <2>8. y \in Seq(Record) /\ Len(y) = Len(a) - promised + Len(buffer)
    BY <1>1, <2>5, <2>7
  <2>9. ASSUME NEW i \in 1..(Len(a) + Len(buffer) - promised) PROVE x[i] = y[i]
    <3>1. CASE i <= Len(a) - promised
      <4>1. promised + i \in 1..Len(a) /\ i \in 1..(Len(a) - promised)
        BY <2>5, <3>1
      <4>2. x[i] = a[promised + i]
        BY <1>1, <2>1, <2>6, <4>1
      <4>3. y[i] = b[i]
        BY <1>1, <2>7, <4>1
      <4> QED
        BY <2>7, <4>1, <4>2, <4>3
    <3>2. CASE ~(i <= Len(a) - promised)
      <4>1. promised + i \in (Len(a) + 1)..(Len(a) + Len(buffer)) /\ i > Len(b)
        BY <2>5, <2>7, <3>2
      <4>2. x[i] = buffer[promised + i - Len(a)]
        <5> DEFINE j == promised + i - Len(a)
        <5>1. a \in Seq(Record) /\ buffer \in Seq(Record)
          BY <1>1, <2>1
        <5>2. j \in 1..Len(buffer) /\ promised + i = Len(a) + j
          BY <2>5, <4>1
        <5> HIDE DEF j
        <5>3. (a \o buffer)[Len(a) + j] = buffer[j]
          BY <5>1, <5>2, ConcatElements
        <5>4. x[i] = (a \o buffer)[promised + i]
          BY <2>6
        <5> QED
          BY <5>2, <5>3, <5>4 DEF j
      <4>3. y[i] = buffer[i - Len(b)] /\ i - Len(b) = promised + i - Len(a)
        <5>1. PICK k : k = i - Len(b)
          OBVIOUS
        <5>2. k \in 1..Len(buffer) /\ Len(b) + k = i /\ k = promised + i - Len(a)
          BY ONLY <2>5, <2>7, <4>1, <5>1, i \in 1..(Len(a) + Len(buffer) - promised)
        <5>3. b \in Seq(Record) /\ buffer \in Seq(Record)
          BY <1>1, <2>7
        <5>4. (b \o buffer)[Len(b) + k] = buffer[k]
          BY ONLY <5>2, <5>3, ConcatElements
        <5> QED
          BY ONLY <5>1, <5>2, <5>4
      <4> QED
        BY <4>2, <4>3
    <3> QED
      BY <3>1, <3>2
  <2>10. Len(x) = Len(y) /\ \A i \in 1..Len(x) : x[i] = y[i]
    BY <2>5, <2>6, <2>8, <2>9
  <2>11. x \in Seq(Record) /\ y \in Seq(Record)
    BY <2>6, <2>8
  <2>12. x = y
    BY <2>10, <2>11, SeqEqual
  <2> QED
    BY <2>2, <2>3, <2>4, <2>5, <2>12 DEF x, b
<1> QED
  BY <1>2, <1>3

-----------------------------------------------------------------------------
(* What each method does to the abstract log *)

\* The types survive a method that appends, outside Truncate or in it.
LEMMA AppendType ==
  ASSUME WalType, NEW r \in Record, appendEntry(r),
         trunc' \in [stage : {"no", "closed", "removing", "rewriting"},
                     keep : Seq(Record), done : Nat]
  PROVE  WalType'
<1>1. /\ disk' \in Seq(FilePart) /\ current' \in Nat
      /\ buffer' \in Seq(Record) /\ spilled' \in {None, Header, Torn}
      /\ spilled' # None => buffer' # <<>>
      /\ promised' \in 0..Len(disk')
      /\ open' = open /\ damaged' = damaged
  BY AppendEffect
<1>2. open \in BOOLEAN /\ damaged \in BOOLEAN
  BY DEF WalType
<1> QED
  BY <1>1, <1>2 DEF WalType

\* appendEntry adds a record that no Sync covers.
LEMMA AppendRefines ==
  ASSUME WalType, WalGood, NEW r \in Record, appendEntry(r), trunc' = trunc,
         trunc.stage = "no"
  PROVE  WalGood' /\ View' = Append(View, r) /\ Covered' = Covered
<1>1. /\ Written' = Append(Written, r) /\ promised' = promised /\ open' = open
      /\ InOrder(disk, current) =>
           /\ InOrder(disk', current')
           /\ Safe(disk, promised, current) => Safe(disk', promised', current')
  BY AppendEffect
<1>2. InOrder(disk', current') /\ Safe(disk', promised', current')
  BY <1>1 DEF WalGood
<1>3. trunc'.stage = "no" /\ open'
  BY <1>1 DEF WalGood, TruncateStages
<1>4. TruncateStages'
  BY <1>3 DEF TruncateStages
<1>5. View = Written /\ Covered = promised /\ View' = Written' /\ Covered' = promised'
  BY <1>3 DEF View, Covered, Rewriting
<1> QED
  BY <1>1, <1>2, <1>4, <1>5 DEF WalGood

\* A record that Truncate writes again was in the abstract log all the time.
LEMMA RewriteRefines ==
  ASSUME WalType, RewriteRecord
  PROVE  /\ WalType'
         /\ trunc'.stage = "rewriting"
         /\ WalGood => WalGood' /\ View' = View /\ Covered' = Covered
         /\ damaged' = damaged
<1> DEFINE k == trunc.keep
           d == trunc.done
           r == k[d + 1]
<1>1. /\ trunc.stage = "rewriting" /\ d < Len(k) /\ appendEntry(r)
      /\ trunc' = [trunc EXCEPT !.done = @ + 1]
  BY DEF RewriteRecord
<1>2. /\ trunc \in [stage : {"no", "closed", "removing", "rewriting"},
                    keep : Seq(Record), done : Nat]
  BY DEF WalType
<1>3. k \in Seq(Record) /\ d \in Nat
  BY <1>2
<1>4. /\ trunc'.stage = "rewriting" /\ trunc'.keep = k /\ trunc'.done = d + 1
      /\ trunc' \in [stage : {"no", "closed", "removing", "rewriting"},
                     keep : Seq(Record), done : Nat]
  BY <1>1, <1>2, <1>3
<1> HIDE DEF k, d
<1>5. d + 1 \in 1..Len(k) /\ r \in Record
  <2>1. d + 1 \in 1..Len(k)
    BY <1>1, <1>3
  <2> QED
    BY <1>3, <2>1
<1> HIDE DEF r
<1>6. WalType'
  BY <1>1, <1>4, <1>5, AppendType
<1>7. /\ Written' = Append(Written, r) /\ promised' = promised /\ open' = open
      /\ damaged' = damaged
      /\ InOrder(disk, current) =>
           /\ InOrder(disk', current')
           /\ Safe(disk, promised, current) => Safe(disk', promised', current')
  BY <1>1, <1>5, AppendEffect
<1>8. ASSUME WalGood PROVE WalGood'
  <2>1. open /\ promised = 0 /\ Written = SubSeq(k, 1, d)
    BY <1>1, <1>8 DEF WalGood, TruncateStages, k, d
  <2>2. Append(SubSeq(k, 1, d), r) = SubSeq(k, 1, d + 1)
    BY <1>1, <1>3, <1>5 DEF r
  <2>3. d + 1 <= Len(k)
    BY <1>5
  <2>4. TruncateStages'
    BY <1>4, <1>7, <2>1, <2>2, <2>3 DEF TruncateStages
  <2> QED
    BY <1>7, <1>8, <2>4 DEF WalGood
<1>9. View' = View /\ Covered' = Covered
  BY <1>1, <1>4 DEF View, Covered, Rewriting, k
<1> QED
  BY <1>4, <1>6, <1>7, <1>8, <1>9

\* A sync outside Truncate covers the whole abstract log.
LEMMA SyncRefines ==
  ASSUME WalType, sync, trunc' = trunc
  PROVE  /\ WalType' /\ damaged' = damaged
         /\ (WalGood /\ trunc.stage = "no") =>
              WalGood' /\ View' = View /\ Covered' = Len(View) /\ buffer' = <<>>
<1>1. CASE ~open
  <2>1. UNCHANGED <<disk, current, buffer, spilled, open, promised, damaged, trunc>>
    BY <1>1 DEF sync
  <2>2. WalType'
    BY <2>1 DEF WalType
  <2>3. ~(WalGood /\ trunc.stage = "no")
    BY <1>1 DEF WalGood, TruncateStages
  <2> QED
    BY <2>1, <2>2, <2>3
<1>2. CASE open
  <2>1. /\ disk' \in Seq(FilePart) /\ current' = current /\ buffer' = <<>> /\ spilled' = None
        /\ promised' = Len(disk') /\ promised' = Len(Written)
        /\ open' = open /\ damaged' = damaged
        /\ Written' = Written
        /\ InOrder(disk, current) =>
             InOrder(disk', current') /\ Safe(disk', promised', current')
    BY <1>2, SyncEffect
  <2>2. Len(disk') \in Nat /\ promised' \in 0..Len(disk') /\ <<>> \in Seq(Record)
    BY <2>1
  <2>3. WalType'
    BY <2>1, <2>2 DEF WalType
  <2>4. ASSUME WalGood, trunc.stage = "no"
        PROVE  WalGood' /\ View' = View /\ Covered' = Len(View)
    <3>1. InOrder(disk', current') /\ Safe(disk', promised', current')
      BY <2>1, <2>4 DEF WalGood
    <3>2. TruncateStages'
      BY <1>2, <2>1, <2>4 DEF TruncateStages
    <3>3. View = Written /\ View' = Written' /\ Covered' = promised'
      BY <2>4 DEF View, Covered, Rewriting
    <3> QED
      BY <2>1, <3>1, <3>2, <3>3 DEF WalGood
  <2> QED
    BY <2>1, <2>3, <2>4
<1> QED
  BY <1>1, <1>2

\* The sync at the end of Truncate leaves the abstract log as it is.
LEMMA TruncateSyncRefines ==
  ASSUME WalType, TruncateSync
  PROVE  /\ WalType' /\ damaged' = damaged /\ trunc'.stage = "no"
         /\ WalGood => WalGood' /\ View' = View /\ Covered' = Covered /\ buffer' = <<>>
<1>1. /\ trunc.stage = "rewriting" /\ trunc.done = Len(trunc.keep) /\ sync
      /\ trunc' = NotTruncating
  BY DEF TruncateSync
<1>2. NotTruncating \in [stage : {"no", "closed", "removing", "rewriting"},
                         keep : Seq(Record), done : Nat] /\ NotTruncating.stage = "no"
  BY DEF NotTruncating
<1>3. CASE ~open
  <2>1. UNCHANGED <<disk, current, buffer, spilled, open, promised, damaged>>
    BY <1>1, <1>3 DEF sync
  <2>2. WalType'
    BY <1>1, <1>2, <2>1 DEF WalType
  <2>3. ~WalGood
    BY <1>1, <1>3 DEF WalGood, TruncateStages
  <2> QED
    BY <1>1, <1>2, <2>1, <2>2, <2>3
<1>4. CASE open
  <2>1. /\ disk' \in Seq(FilePart) /\ current' = current /\ buffer' = <<>> /\ spilled' = None
        /\ promised' = Len(disk') /\ promised' = Len(Written)
        /\ open' = open /\ damaged' = damaged
        /\ Written' = Written
        /\ InOrder(disk, current) =>
             InOrder(disk', current') /\ Safe(disk', promised', current')
    BY <1>1, <1>4, SyncEffect
  <2>2. Len(disk') \in Nat /\ promised' \in 0..Len(disk') /\ <<>> \in Seq(Record)
    BY <2>1
  <2>3. WalType'
    BY <1>1, <1>2, <2>1, <2>2 DEF WalType
  <2>4. ASSUME WalGood
        PROVE  WalGood' /\ View' = View /\ Covered' = Covered
    <3>1. InOrder(disk', current') /\ Safe(disk', promised', current')
      BY <2>1, <2>4 DEF WalGood
    <3>2. TruncateStages'
      BY <1>1, <1>2, <1>4, <2>1, <2>4 DEF TruncateStages
    <3>3. View = trunc.keep /\ Covered = Len(trunc.keep) /\ View' = Written' /\ Covered' = promised'
      BY <1>1, <1>2 DEF View, Covered, Rewriting
    <3>4. Written = SubSeq(trunc.keep, 1, trunc.done)
      BY <1>1, <2>4 DEF WalGood, TruncateStages
    <3>5. trunc.keep \in Seq(Record)
      BY DEF WalType
    <3>6. Written = trunc.keep
      BY <1>1, <3>4, <3>5
    <3> QED
      BY <2>1, <3>1, <3>2, <3>3, <3>6 DEF WalGood
  <2> QED
    BY <1>1, <1>2, <2>1, <2>3, <2>4
<1> QED
  BY <1>3, <1>4

\* The abstract log up to a position is a subsequence of it.
LEMMA UpToIsSubsequence ==
  ASSUME NEW w, NEW p
  PROVE  DL!UpTo(w, p) = Subsequence(w, {i \in 1..Len(w) : w[i].index <= p})
BY DEF DL!UpTo, DL!Subsequence, DL!Rank, Subsequence, Rank, Cardinality, DL!Cardinality, IsFiniteSet, DL!IsFiniteSet

\* What the files hold that is whole.
LEMMA WholeRecordsType ==
  ASSUME WalType
  PROVE  /\ WholeRecords \in Seq(Record)
         /\ InOrder(disk, current) => WholeRecords = RecordsOf(disk)
<1> DEFINE I == {i \in 1..Len(disk) : disk[i].part = Whole}
           s == Subsequence(disk, I)
<1>1. disk \in Seq(FilePart)
  BY DEF WalType
<1>2. I \in SUBSET (1..Len(disk))
  OBVIOUS
<1>3. WholeRecords = RecordsOf(s)
  BY DEF WholeRecords
<1>4. ASSUME InOrder(disk, current) PROVE I = 1..Len(disk)
  BY <1>4 DEF InOrder
<1> HIDE DEF I
<1>5. s \in Seq(FilePart)
  BY <1>1, <1>2, SubsequenceElements
<1>6. ASSUME InOrder(disk, current) PROVE s = disk
  <2>1. Len(disk) \in 0..Len(disk)
    BY <1>1
  <2>2. s = SubSeq(disk, 1, Len(disk))
    BY <1>1, <1>4, <1>6, <2>1, SubsequencePrefix
  <2> QED
    BY <1>1, <2>2
<1> HIDE DEF s
<1> QED
  BY <1>3, <1>5, <1>6, RecordsOfType

\* Truncate reads the files and closes the last one: outside a fault the abstract log
\* is untouched, and what Truncate has read of it is what it must keep.
LEMMA TruncateReadRefines ==
  ASSUME WalType, NEW p, TruncateRead(p)
  PROVE  /\ WalType' /\ trunc.stage = "no" /\ trunc'.stage = "closed"
         /\ damaged => damaged'
         /\ (WalGood /\ ~damaged') =>
              /\ WalGood' /\ View' = View /\ Covered' = Covered
              /\ buffer' = <<>> /\ Written' = Written
              /\ trunc'.keep = DL!UpTo(Written, p)
<1> DEFINE w == WholeRecords
           I == {i \in 1..Len(w) : Keeps(w[i], p)}
           k == Subsequence(w, I)
<1>1. /\ trunc.stage = "no" /\ trunc' = [stage |-> "closed", keep |-> k, done |-> 0]
      /\ disk' = Flushed /\ buffer' = <<>> /\ spilled' = None /\ open' = FALSE
      /\ damaged' = (damaged \/ buffer # <<>>) /\ current' = current /\ promised' = promised
  BY DEF TruncateRead
<1>2. I = {i \in 1..Len(w) : w[i].index <= p}
  BY DEF Keeps
<1>3. /\ disk \in Seq(FilePart) /\ buffer \in Seq(Record) /\ current \in Nat
      /\ promised \in 0..Len(disk) /\ damaged \in BOOLEAN
  BY DEF WalType
<1>4. w \in Seq(Record) /\ (InOrder(disk, current) => w = RecordsOf(disk))
  BY WholeRecordsType
<1>5. I \in SUBSET (1..Len(w))
  OBVIOUS
<1>6. k = DL!UpTo(w, p)
  BY <1>2, UpToIsSubsequence
<1> HIDE DEF w, I
<1>7. k \in Seq(Record)
  BY <1>4, <1>5, SubsequenceElements
<1> HIDE DEF k
<1>8. /\ trunc'.stage = "closed" /\ trunc'.keep = k /\ trunc'.done = 0
      /\ trunc' \in [stage : {"no", "closed", "removing", "rewriting"},
                     keep : Seq(Record), done : Nat]
  BY <1>1, <1>7
<1>9. Flushed \in Seq(FilePart) /\ Len(Flushed) >= Len(disk)
  BY FlushedType
<1>10. promised' \in 0..Len(disk')
  BY <1>1, <1>3, <1>9
<1>11. WalType'
  <2>1. damaged' \in BOOLEAN /\ open' \in BOOLEAN /\ (damaged => damaged')
    BY <1>1, <1>3
  <2>2. /\ disk' \in Seq(FilePart) /\ current' \in Nat /\ buffer' \in Seq(Record)
        /\ spilled' \in {None, Header, Torn} /\ (spilled' # None => buffer' # <<>>)
    BY <1>1, <1>3, <1>9
  <2> QED
    BY <1>8, <1>10, <2>1, <2>2 DEF WalType
<1>12. ASSUME WalGood, ~damaged'
       PROVE  /\ WalGood' /\ View' = View /\ Covered' = Covered
              /\ Written' = Written /\ k = DL!UpTo(Written, p)
  <2>1. buffer = <<>>
    BY <1>1, <1>12
  <2>2. /\ RecordsOf(Flushed) = Written
        /\ InOrder(disk, current) =>
             /\ InOrder(Flushed, current)
             /\ Safe(disk, promised, current) => Safe(Flushed, promised, current)
    BY FlushedType
  <2>3. InOrder(disk', current') /\ Safe(disk', promised', current')
    BY <1>1, <1>12, <2>2 DEF WalGood
  <2>4. Written \in Seq(Record) /\ RecordsOf(disk) \in Seq(Record)
    BY WrittenType
  <2>5. Written' = Written
    <3>1. Written' = Written \o <<>>
      BY <1>1, <2>2 DEF Written
    <3> QED
      BY <2>4, <3>1
  <2>6. w = Written
    <3>1. Written = RecordsOf(disk) \o <<>>
      BY <2>1 DEF Written
    <3>2. w = RecordsOf(disk)
      BY <1>4, <1>12 DEF WalGood
    <3> QED
      BY <2>4, <3>1, <3>2
  <2>7. TruncateStages'
    BY <1>1, <1>8 DEF TruncateStages
  <2>8. View = Written /\ View' = Written' /\ Covered = promised /\ Covered' = promised'
    BY <1>1, <1>8 DEF View, Covered, Rewriting
  <2> QED
    BY <1>1, <1>6, <2>3, <2>5, <2>6, <2>7, <2>8 DEF WalGood
<1> QED
  BY <1>1, <1>8, <1>11, <1>12

\* The removal of the first segment is the step that truncates the abstract log: from
\* there on it is what Truncate will have written.
LEMMA RemoveRefines ==
  ASSUME WalType, RemoveSegment
  PROVE  /\ WalType' /\ damaged' = damaged /\ buffer' = buffer
         /\ trunc.stage # "no" /\ trunc'.stage = "removing" /\ trunc'.keep = trunc.keep
         /\ View' = trunc.keep /\ Covered' = Len(View')
         /\ WalGood => WalGood'
<1> DEFINE I == {i \in 1..Len(disk) : disk[i].seg # trunc.done}
           s == Subsequence(disk, I)
<1>1. /\ trunc.stage \in {"closed", "removing"} /\ trunc.done <= current
      /\ disk' = s /\ trunc' = [trunc EXCEPT !.stage = "removing", !.done = @ + 1]
      /\ promised' = 0
      /\ UNCHANGED <<current, buffer, spilled, open, damaged>>
  BY DEF RemoveSegment
<1>2. /\ disk \in Seq(FilePart) /\ current \in Nat
      /\ trunc \in [stage : {"no", "closed", "removing", "rewriting"},
                    keep : Seq(Record), done : Nat]
  BY DEF WalType
<1>3. /\ trunc'.stage = "removing" /\ trunc'.keep = trunc.keep /\ trunc'.done = trunc.done + 1
      /\ trunc' \in [stage : {"no", "closed", "removing", "rewriting"},
                     keep : Seq(Record), done : Nat]
  <2>1. PICK t : t = trunc
    OBVIOUS
  <2>2. /\ t \in [stage : {"no", "closed", "removing", "rewriting"},
                  keep : Seq(Record), done : Nat]
        /\ trunc' = [t EXCEPT !.stage = "removing", !.done = t.done + 1]
    BY <1>1, <1>2, <2>1
  <2>3. PICK d \in Nat : d = t.done + 1
    <3>1. t.done \in Nat
      BY <2>2
    <3> QED
      BY <3>1
  <2>4. /\ trunc'.stage = "removing" /\ trunc'.keep = t.keep /\ trunc'.done = t.done + 1
        /\ trunc' \in [stage : {"no", "closed", "removing", "rewriting"},
                       keep : Seq(Record), done : Nat]
    BY <2>2, <2>3
  <2> QED
    BY <2>1, <2>4
<1>4. I \in SUBSET (1..Len(disk)) /\ Len(disk) \in Nat
  BY <1>2
<1>5. \A i \in I : disk[i].seg # trunc.done
  OBVIOUS
<1> HIDE DEF I
<1>6. /\ s \in Seq(FilePart) /\ Len(s) = Cardinality(I) /\ Cardinality(I) \in Nat
      /\ \A i \in I : Rank(I, i) \in 1..Cardinality(I)
      /\ \A n \in 1..Cardinality(I) : \E i \in I : Rank(I, i) = n /\ s[n] = disk[i]
  BY <1>2, <1>4, SubsequenceElements
<1> HIDE DEF s
<1>7. WalType'
  <2>1. 0 \in 0..Len(s)
    BY <1>6
  <2> QED
    BY <1>1, <1>2, <1>3, <1>6, <2>1 DEF WalType
<1>8. View' = trunc.keep /\ Covered' = Len(View')
  BY <1>3 DEF View, Covered, Rewriting
<1>9. ASSUME WalGood PROVE WalGood'
  <2>1. \A i \in 1..Len(disk) : disk[i].part = Whole /\ disk[i].seg <= current
    BY <1>9 DEF WalGood, InOrder
  <2>2. \A i, j \in 1..Len(disk) :
           i < j => /\ disk[i].seg <= disk[j].seg
                    /\ (disk[i].seg = disk[j].seg /\ disk[j].synced) => disk[i].synced
    BY <1>9 DEF WalGood, InOrder
  <2>3. InOrder(s, current)
    <3>1. \A n \in 1..Len(s) : s[n].part = Whole /\ s[n].seg <= current
      BY <1>4, <1>6, <2>1
    <3>2. ASSUME NEW m \in 1..Len(s), NEW n \in 1..Len(s), m < n
          PROVE  /\ s[m].seg <= s[n].seg
                 /\ (s[m].seg = s[n].seg /\ s[n].synced) => s[m].synced
      <4>1. PICK i \in I : Rank(I, i) = m /\ s[m] = disk[i]
        BY <1>6
      <4>2. PICK j \in I : Rank(I, j) = n /\ s[n] = disk[j]
        BY <1>6
      <4>3. i < j
        <5>1. i \in Int /\ j \in Int
          BY <1>4
        <5>2. CASE i = j
          BY <3>2, <4>1, <4>2, <5>2
        <5>3. CASE j < i
          <6>1. Rank(I, j) < Rank(I, i)
            BY <1>4, <5>3, RankOrder
          <6> QED
            BY <3>2, <4>1, <4>2, <6>1
        <5> QED
          BY <5>1, <5>2, <5>3
      <4> QED
        BY <1>4, <2>2, <4>1, <4>2, <4>3
    <3> QED
      BY <3>1, <3>2 DEF InOrder
  <2>4. Safe(s, 0, current)
    BY DEF Safe
  <2>5. \A i \in 1..Len(disk) : disk[i].seg >= trunc.done
    <3>1. CASE trunc.stage = "removing"
      BY <1>9, <3>1 DEF WalGood, TruncateStages
    <3>2. CASE trunc.stage = "closed"
      <4>1. trunc.done = 0
        BY <1>9, <3>2 DEF WalGood, TruncateStages
      <4>2. \A i \in 1..Len(disk) : disk[i] \in FilePart
        BY <1>2
      <4>3. \A i \in 1..Len(disk) : disk[i].seg \in Nat
        BY <4>2, FilePartFields
      <4> QED
        BY <4>1, <4>3
    <3> QED
      BY <1>1, <3>1, <3>2
  <2>6. \A n \in 1..Len(s) : s[n].seg >= trunc.done + 1
    <3> SUFFICES ASSUME NEW n \in 1..Len(s) PROVE s[n].seg >= trunc.done + 1
      OBVIOUS
    <3>1. PICK i \in I : s[n] = disk[i]
      BY <1>6
    <3>2. disk[i].seg >= trunc.done /\ disk[i].seg # trunc.done
      BY <1>4, <1>5, <2>5
    <3>3. disk[i] \in FilePart /\ trunc.done \in Nat
      BY <1>2, <1>4
    <3>4. disk[i].seg \in Nat
      BY <3>3, FilePartFields
    <3> QED
      BY <3>1, <3>2, <3>3, <3>4
  <2>7. ~open /\ buffer = <<>>
    BY <1>1, <1>9 DEF WalGood, TruncateStages
  <2>8. TruncateStages'
    BY <1>1, <1>3, <2>6, <2>7 DEF TruncateStages
  <2> QED
    BY <1>1, <2>3, <2>4, <2>8 DEF WalGood
<1> QED
  BY <1>1, <1>3, <1>7, <1>8, <1>9

\* When every segment is removed nothing is left, and the new one is empty.
LEMMA RecreateRefines ==
  ASSUME WalType, RecreateSegment
  PROVE  /\ WalType' /\ damaged' = damaged
         /\ trunc.stage = "removing" /\ trunc'.stage = "rewriting" /\ trunc'.keep = trunc.keep
         /\ View' = View /\ Covered' = Covered
         /\ WalGood => WalGood'
<1>1. /\ trunc.stage = "removing" /\ trunc.done > current
      /\ trunc' = [trunc EXCEPT !.stage = "rewriting", !.done = 0]
      /\ current' = 0 /\ open' = TRUE
      /\ UNCHANGED <<disk, buffer, spilled, promised, damaged>>
  BY DEF RecreateSegment
<1>2. /\ disk \in Seq(FilePart) /\ current \in Nat
      /\ trunc \in [stage : {"no", "closed", "removing", "rewriting"},
                    keep : Seq(Record), done : Nat]
  BY DEF WalType
<1>3. /\ trunc'.stage = "rewriting" /\ trunc'.keep = trunc.keep /\ trunc'.done = 0
      /\ trunc' \in [stage : {"no", "closed", "removing", "rewriting"},
                     keep : Seq(Record), done : Nat]
  BY <1>1, <1>2
<1>4. WalType'
  BY <1>1, <1>3 DEF WalType
<1>5. View' = View /\ Covered' = Covered
  BY <1>1, <1>3 DEF View, Covered, Rewriting
<1>6. ASSUME WalGood PROVE WalGood'
  <2>1. /\ \A i \in 1..Len(disk) : disk[i].seg >= trunc.done /\ disk[i].seg <= current
        /\ promised = 0 /\ buffer = <<>>
    BY <1>1, <1>6 DEF WalGood, TruncateStages, InOrder
  <2>2. \A i \in 1..Len(disk) : FALSE
    <3> SUFFICES ASSUME NEW i \in 1..Len(disk) PROVE FALSE
      OBVIOUS
    <3>1. disk[i] \in FilePart /\ trunc.done \in Nat
      BY <1>2
    <3>2. disk[i].seg \in Nat
      BY <3>1, FilePartFields
    <3> QED
      BY <1>1, <1>2, <2>1, <3>1, <3>2
  <2>3. Len(disk) = 0
    BY <1>2, <2>2
  <2>4. disk = <<>>
    BY <1>2, <2>3
  <2>5. InOrder(disk', current') /\ Safe(disk', promised', current')
    BY <1>1, <2>1, <2>2 DEF InOrder, Safe
  <2>6. Written = <<>>
    BY <2>1, <2>4 DEF Written, RecordsOf
  <2>7. Written' = <<>>
    BY <1>1, <2>6 DEF Written
  <2>8. SubSeq(trunc.keep, 1, 0) = <<>> /\ 0 <= Len(trunc.keep)
    BY <1>2
  <2>9. TruncateStages'
    BY <1>1, <1>3, <2>1, <2>7, <2>8 DEF TruncateStages
  <2> QED
    BY <2>5, <2>9 DEF WalGood
<1> QED
  BY <1>1, <1>3, <1>4, <1>5, <1>6

\* A failure of the file system damages the log and leaves its types.
LEMMA FailType ==
  ASSUME WalType,
         \/ RotateFails /\ UNCHANGED trunc
         \/ RemoveFails \/ RecreateFails \/ RewriteFails
  PROVE  WalType' /\ damaged' = TRUE
<1>1. /\ disk \in Seq(FilePart) /\ promised \in 0..Len(disk)
  BY DEF WalType
<1>2. NotTruncating \in [stage : {"no", "closed", "removing", "rewriting"},
                         keep : Seq(Record), done : Nat]
  BY DEF NotTruncating
<1>3. CASE RotateFails /\ (UNCHANGED trunc \/ trunc' = NotTruncating)
  <2>1. /\ disk' = Flushed /\ buffer' = <<>> /\ spilled' = None
        /\ open' = FALSE /\ damaged' = TRUE
        /\ UNCHANGED <<current, promised>>
    BY <1>3 DEF RotateFails
  <2>2. Flushed \in Seq(FilePart) /\ Len(Flushed) >= Len(disk)
    BY FlushedType
  <2>3. promised' \in 0..Len(disk')
    BY <1>1, <2>1, <2>2
  <2>4. trunc' \in [stage : {"no", "closed", "removing", "rewriting"},
                    keep : Seq(Record), done : Nat]
    BY <1>2, <1>3 DEF WalType
  <2>5. current' \in Nat /\ buffer' \in Seq(Record) /\ spilled' \in {None, Header, Torn}
    BY <2>1 DEF WalType
  <2> QED
    BY <2>1, <2>2, <2>3, <2>4, <2>5 DEF WalType
<1>4. CASE RemoveFails
  BY <1>2, <1>4 DEF RemoveFails, WalType
<1>5. CASE RecreateFails
  BY <1>2, <1>5 DEF RecreateFails, WalType
<1> QED
  BY <1>3, <1>4, <1>5 DEF RewriteFails

-----------------------------------------------------------------------------
(* Crashes *)

\* The segments of some files come in order up to the last one, and of each an fsync
\* has covered a prefix, whatever was cut.
Ordered(files, seg) ==
  /\ \A i \in 1..Len(files) : files[i].seg <= seg
  /\ \A i, j \in 1..Len(files) :
       i < j => /\ files[i].seg <= files[j].seg
                /\ (files[i].seg = files[j].seg /\ files[j].synced) => files[i].synced

\* A crash finds the files, and behind them at most records of the buffer, in the last
\* segment and not fsynced.
LEMMA CrashFiles ==
  ASSUME WalType, NEW syncing \in BOOLEAN, NEW files \in FilesAtCrash(syncing)
  PROVE  /\ files \in Seq(FilePart)
         /\ Len(files) \in Len(disk)..Len(Written)
         /\ \A i \in 1..Len(disk) : files[i] = disk[i]
         /\ \A i \in 1..Len(files) : i > Len(disk) => files[i].seg = current /\ ~files[i].synced
         /\ RecordsOf(files) = SubSeq(Written, 1, Len(files))
<1> DEFINE g == InFile(buffer, current)
           a == RecordsOf(disk)
<1>1. /\ disk \in Seq(FilePart) /\ buffer \in Seq(Record) /\ current \in Nat
      /\ spilled \in {None, Header, Torn} /\ (spilled # None => buffer # <<>>)
  BY DEF WalType
<1>2. /\ g \in Seq(FilePart) /\ Len(g) = Len(buffer)
      /\ \A i \in 1..Len(buffer) : /\ g[i].rec = buffer[i] /\ g[i].seg = current
                                   /\ g[i].part = Whole /\ ~g[i].synced
  BY <1>1, InFileType
<1>3. /\ a \in Seq(Record) /\ Len(a) = Len(disk)
      /\ Written \in Seq(Record) /\ Len(Written) = Len(disk) + Len(buffer)
      /\ Written = a \o buffer
  BY WrittenType DEF Written
<1>4. Len(disk) \in Nat /\ Len(buffer) \in Nat
  BY <1>1
<1>5. files = Flushed \/ (spilled = None /\ files = disk \o <<>>)
        \/ (spilled # None /\ files = disk \o <<[g[1] EXCEPT !.part = spilled]>>)
  BY DEF FilesAtCrash, CutTail
<1> HIDE DEF g, a
<1>6. CASE files = Flushed
  <2>1. /\ Flushed \in Seq(FilePart) /\ Len(Flushed) = Len(Written)
        /\ RecordsOf(Flushed) = Written
    BY FlushedType
  <2>2. Flushed = disk \o g
    BY DEF Flushed, g
  <2>3. /\ \A i \in 1..Len(disk) : (disk \o g)[i] = disk[i]
        /\ \A i \in 1..Len(g) : (disk \o g)[Len(disk) + i] = g[i]
    BY <1>1, <1>2, ConcatElements
  <2>4. SubSeq(Written, 1, Len(Written)) = Written
    BY <1>3
  <2>5. ASSUME NEW i \in 1..Len(files), i > Len(disk)
        PROVE  files[i].seg = current /\ ~files[i].synced
    <3>1. PICK j : j = i - Len(disk)
      OBVIOUS
    <3>2. j \in 1..Len(g) /\ i = Len(disk) + j
      BY <1>2, <1>3, <1>4, <1>6, <2>1, <2>5, <3>1
    <3>3. files[i] = g[j]
      BY <1>6, <2>2, <2>3, <3>2
    <3> QED
      BY <1>2, <3>2, <3>3
  <2>6. Len(files) \in Len(disk)..Len(Written)
    BY <1>3, <1>4, <1>6, <2>1
  <2> QED
    BY <1>6, <2>1, <2>2, <2>3, <2>4, <2>5, <2>6
<1>7. CASE spilled = None /\ files = disk \o <<>>
  <2>1. files = disk
    BY <1>1, <1>7
  <2>2. Len(files) \in Len(disk)..Len(Written)
    BY <1>3, <1>4, <2>1
  <2>3. SubSeq(a \o buffer, 1, Len(a)) = a
    BY <1>1, <1>3
  <2>4. RecordsOf(files) = SubSeq(Written, 1, Len(files))
    BY <1>3, <2>1, <2>3 DEF a
  <2> QED
    BY <1>1, <2>1, <2>2, <2>4
<1>8. CASE spilled # None /\ files = disk \o <<[g[1] EXCEPT !.part = spilled]>>
  <2>1. 1 \in 1..Len(buffer)
    BY <1>1, <1>8
  <2>2. PICK y : y = g[1]
    OBVIOUS
  <2>3. y \in FilePart /\ y.rec = buffer[1] /\ y.seg = current /\ ~y.synced
    BY <1>2, <2>1, <2>2
  <2>4. PICK x : x = [y EXCEPT !.part = spilled]
    OBVIOUS
  <2>5. /\ x \in FilePart /\ x.rec = buffer[1] /\ x.seg = current /\ ~x.synced
    <3>1. x \in FilePart /\ x.rec = y.rec /\ x.seg = y.seg /\ x.synced = y.synced
      BY <1>1, <1>8, <2>3, <2>4 DEF FilePart
    <3> QED
      BY <2>3, <3>1
  <2>6. files = disk \o <<x>> /\ <<x>> \in Seq(FilePart)
    BY <1>8, <2>2, <2>4, <2>5
  <2>7. /\ files \in Seq(FilePart) /\ Len(files) = Len(disk) + 1
        /\ \A i \in 1..Len(disk) : files[i] = disk[i]
        /\ files[Len(disk) + 1] = x
    BY <1>1, <2>6
  <2>8. Len(files) \in Len(disk)..Len(Written)
    BY <1>3, <1>4, <2>1, <2>7
  <2>9. ASSUME NEW i \in 1..Len(files), i > Len(disk)
        PROVE  files[i].seg = current /\ ~files[i].synced
    <3>1. i = Len(disk) + 1
      BY <1>4, <2>7, <2>9
    <3> QED
      BY <2>5, <2>7, <3>1
  <2>10. RecordsOf(files) = SubSeq(Written, 1, Len(files))
    <3>1. /\ RecordsOf(files) \in Seq(Record) /\ Len(RecordsOf(files)) = Len(files)
          /\ \A i \in 1..Len(files) : RecordsOf(files)[i] = files[i].rec
      BY <2>7, RecordsOfType
    <3>2. Len(files) \in 0..Len(Written)
      BY <1>4, <2>8
    <3>3. /\ SubSeq(Written, 1, Len(files)) \in Seq(Record)
          /\ Len(SubSeq(Written, 1, Len(files))) = Len(files)
          /\ \A i \in 1..Len(files) : SubSeq(Written, 1, Len(files))[i] = Written[i]
      BY <1>3, <3>2, SplitSeq
    <3>4. ASSUME NEW i \in 1..Len(files) PROVE files[i].rec = Written[i]
      <4>1. CASE i \in 1..Len(disk)
        <5>1. a[i] = disk[i].rec
          BY <1>1, <4>1, RecordsOfType DEF a
        <5>2. Written[i] = a[i]
          BY <1>1, <1>3, <4>1
        <5> QED
          BY <2>7, <4>1, <5>1, <5>2
      <4>2. CASE i = Len(disk) + 1
        <5>1. Written[Len(a) + 1] = buffer[1]
          BY <1>1, <1>3, <2>1, ConcatElements
        <5> QED
          BY <1>3, <2>5, <2>7, <4>2, <5>1
      <4> QED
        BY <1>4, <2>7, <4>1, <4>2
    <3>5. \A i \in 1..Len(files) : RecordsOf(files)[i] = SubSeq(Written, 1, Len(files))[i]
      BY <3>1, <3>3, <3>4
    <3> QED
      BY <3>1, <3>3, <3>5, SeqEqual
  <2> QED
    BY <2>7, <2>8, <2>9, <2>10
<1> QED
  BY <1>5, <1>6, <1>7, <1>8

\* The files that a crash finds are in order when the files were.
LEMMA CrashFilesOrdered ==
  ASSUME WalType, InOrder(disk, current), NEW syncing \in BOOLEAN,
         NEW files \in FilesAtCrash(syncing)
  PROVE  Ordered(files, current)
<1>1. /\ files \in Seq(FilePart)
      /\ Len(files) \in Len(disk)..Len(Written)
      /\ \A i \in 1..Len(disk) : files[i] = disk[i]
      /\ \A i \in 1..Len(files) : i > Len(disk) => files[i].seg = current /\ ~files[i].synced
  BY CrashFiles
<1>2. disk \in Seq(FilePart) /\ current \in Nat
  BY DEF WalType
<1>3. Len(disk) \in Nat /\ Len(files) \in Nat
  BY <1>1, <1>2
<1>4. ASSUME NEW i \in 1..Len(files) PROVE files[i].seg <= current
  <2>1. CASE i \in 1..Len(disk)
    BY <1>1, <2>1 DEF InOrder
  <2>2. CASE i > Len(disk)
    BY <1>1, <1>2, <2>2
  <2> QED
    BY <1>3, <2>1, <2>2
<1>5. ASSUME NEW i \in 1..Len(files), NEW j \in 1..Len(files), i < j
      PROVE  /\ files[i].seg <= files[j].seg
             /\ (files[i].seg = files[j].seg /\ files[j].synced) => files[i].synced
  <2>1. CASE j \in 1..Len(disk)
    <3>1. i \in 1..Len(disk)
      BY <1>3, <1>5, <2>1
    <3> QED
      BY <1>1, <1>5, <2>1, <3>1 DEF InOrder
  <2>2. CASE j > Len(disk)
    BY <1>1, <1>4, <2>2
  <2> QED
    BY <1>3, <2>1, <2>2
<1> QED
  BY <1>4, <1>5 DEF Ordered

\* NewWAL keeps the types, and starts with an empty buffer and no Truncate.
LEMMA NewWALType ==
  ASSUME WalType, disk' \in Seq(FilePart), damaged' \in BOOLEAN, NewWAL
  PROVE  WalType' /\ trunc'.stage = "no" /\ buffer' = <<>>
<1>1. /\ current' = IF NoSegmentLeft THEN 0 ELSE current
      /\ buffer' = <<>> /\ spilled' = None /\ open' = TRUE
      /\ trunc' = NotTruncating
      /\ promised' = Min({promised, Len(disk')})
  BY DEF NewWAL
<1>2. /\ current \in Nat /\ promised \in Nat /\ Len(disk') \in Nat
  BY DEF WalType
<1>3. promised' \in 0..Len(disk')
  <2> DEFINE T == {promised, Len(disk')}
  <2>1. T \subseteq Nat /\ T # {} /\ Len(disk') \in T
    BY <1>2
  <2> HIDE DEF T
  <2>2. Min(T) \in T /\ Min(T) <= Len(disk')
    BY <2>1, MinType
  <2>3. Min(T) \in 0..Len(disk')
    <3>1. Min(T) \in Nat
      BY <2>1, <2>2
    <3> QED
      BY <1>2, <2>2, <3>1
  <2> QED
    BY <1>1, <2>3 DEF T
<1>4. trunc' \in [stage : {"no", "closed", "removing", "rewriting"},
                  keep : Seq(Record), done : Nat] /\ trunc'.stage = "no"
  BY <1>1 DEF NotTruncating
<1>5. current' \in Nat /\ buffer' \in Seq(Record) /\ spilled' \in {None, Header, Torn}
  BY <1>1, <1>2
<1> QED
  BY <1>1, <1>3, <1>4, <1>5 DEF WalType

\* A restart that finds the first m records whole and in order, no fewer than were
\* promised, cuts the abstract log after m records.
LEMMA RestartRefines ==
  ASSUME WalType, WalGood, disk' \in Seq(FilePart), damaged' \in BOOLEAN, NewWAL,
         trunc.stage \in {"no", "closed"},
         NEW m \in promised..Len(Written), Len(disk') = m,
         RecordsOf(disk') = SubSeq(Written, 1, m),
         InOrder(disk', current), Safe(disk', promised, current)
  PROVE  /\ WalGood' /\ m \in Covered..Len(View)
         /\ View' = SubSeq(View, 1, m) /\ Covered' = Covered
<1>1. /\ current' = current /\ buffer' = <<>> /\ open' = TRUE
      /\ trunc' = NotTruncating /\ trunc'.stage = "no"
      /\ promised' = Min({promised, Len(disk')})
  BY DEF NewWAL, NoSegmentLeft, NotTruncating
<1>2. promised \in Nat /\ m \in Nat /\ promised <= m
  <2>1. promised \in Nat /\ Len(Written) \in Nat
    BY WrittenType DEF WalType
  <2> QED
    BY <2>1
<1>3. promised' = promised
  <2> DEFINE T == {promised, m}
  <2>1. T \subseteq Nat /\ T # {} /\ promised \in T /\ \A x \in T : promised <= x
    BY <1>2
  <2> HIDE DEF T
  <2>2. Min(T) \in T /\ Min(T) <= promised
    BY <2>1, MinType
  <2>3. promised <= Min(T) /\ Min(T) \in Nat
    BY <2>1, <2>2
  <2>4. Min(T) = promised
    BY <1>2, <2>2, <2>3
  <2> QED
    BY <1>1, <2>4 DEF T
<1>4. View = Written /\ Covered = promised /\ View' = Written' /\ Covered' = promised'
  BY <1>1 DEF View, Covered, Rewriting
<1>5. Written' = SubSeq(Written, 1, m)
  <2>1. Written' = RecordsOf(disk') \o <<>>
    BY <1>1 DEF Written
  <2>2. RecordsOf(disk') \in Seq(Record)
    BY RecordsOfType
  <2> QED
    BY <2>1, <2>2
<1>6. TruncateStages'
  BY <1>1 DEF TruncateStages
<1> QED
  BY <1>1, <1>3, <1>4, <1>5, <1>6 DEF WalGood

\* What a method may do to the abstract log by a crash or a restart.
Cut == \E m \in Covered..Len(View) : View' = SubSeq(View, 1, m) /\ Covered' = Covered

\* The death of the process costs the abstract log at most records that no Sync covers.
LEMMA CrashRefines ==
  ASSUME WalType, NEW syncing \in BOOLEAN, WalCrash(syncing)
  PROVE  /\ WalType' /\ trunc'.stage = "no" /\ buffer' = <<>> /\ (damaged => damaged')
         /\ (WalGood /\ ~damaged') => WalGood' /\ Cut
<1>1. PICK files \in FilesAtCrash(syncing) : disk' = files
  BY DEF WalCrash
<1>2. NewWAL /\ damaged' = (damaged \/ DamagedBy(disk'))
  BY DEF WalCrash
<1>3. /\ files \in Seq(FilePart)
      /\ Len(files) \in Len(disk)..Len(Written)
      /\ \A i \in 1..Len(disk) : files[i] = disk[i]
      /\ RecordsOf(files) = SubSeq(Written, 1, Len(files))
  BY CrashFiles
<1>4. damaged \in BOOLEAN /\ promised \in 0..Len(disk) /\ Len(disk) \in Nat
  BY DEF WalType
<1>5. damaged' \in BOOLEAN /\ (damaged => damaged')
  BY <1>2, <1>4
<1>6. WalType' /\ trunc'.stage = "no" /\ buffer' = <<>>
  BY <1>1, <1>2, <1>3, <1>5, NewWALType
<1>7. ASSUME WalGood, ~damaged' PROVE WalGood' /\ Cut
  <2>1. ~DamagedBy(disk')
    BY <1>2, <1>7
  <2>2. /\ \A i \in 1..Len(files) : files[i].part = Whole
        /\ trunc.stage \notin {"removing", "rewriting"}
    BY <1>1, <2>1 DEF DamagedBy
  <2>3. trunc.stage \in {"no", "closed"}
    BY <2>2 DEF WalType
  <2>4. Ordered(files, current)
    BY <1>7, CrashFilesOrdered DEF WalGood
  <2>5. InOrder(files, current)
    BY <2>2, <2>4 DEF InOrder, Ordered
  <2>6. Safe(files, promised, current)
    <3>1. \A i \in 1..promised : i \in 1..Len(disk)
      BY <1>4
    <3> QED
      BY <1>3, <1>7, <3>1 DEF WalGood, Safe
  <2>7. PICK m : m = Len(files)
    OBVIOUS
  <2>8. m \in promised..Len(Written)
    <3>1. Len(Written) \in Nat
      BY WrittenType
    <3> QED
      BY <1>3, <1>4, <2>7, <3>1
  <2>9. /\ WalGood' /\ m \in Covered..Len(View)
        /\ View' = SubSeq(View, 1, m) /\ Covered' = Covered
    BY <1>1, <1>2, <1>3, <1>5, <1>7, <2>3, <2>5, <2>6, <2>7, <2>8, RestartRefines
  <2> QED
    BY <2>9 DEF Cut
<1> QED
  BY <1>5, <1>6, <1>7

\* A WAL that is closed and opened again keeps everything.
LEMMA ReopenRefines ==
  ASSUME WalType, WalReopen
  PROVE  /\ WalType' /\ trunc'.stage = "no" /\ buffer' = <<>> /\ damaged' = damaged
         /\ (WalGood /\ trunc.stage = "no") => WalGood' /\ Cut
<1>1. disk' = (IF open THEN Flushed ELSE disk) /\ damaged' = damaged /\ NewWAL
  BY DEF WalReopen
<1>2. /\ disk \in Seq(FilePart) /\ damaged \in BOOLEAN
      /\ promised \in 0..Len(disk) /\ Len(disk) \in Nat
  BY DEF WalType
<1>3. /\ Flushed \in Seq(FilePart) /\ Len(Flushed) = Len(Written)
      /\ RecordsOf(Flushed) = Written /\ Len(Flushed) >= Len(disk)
      /\ InOrder(disk, current) =>
           /\ InOrder(Flushed, current)
           /\ Safe(disk, promised, current) => Safe(Flushed, promised, current)
  BY FlushedType
<1>4. disk' \in Seq(FilePart)
  BY <1>1, <1>2, <1>3
<1>5. WalType' /\ trunc'.stage = "no" /\ buffer' = <<>>
  BY <1>1, <1>2, <1>4, NewWALType
<1>6. ASSUME WalGood, trunc.stage = "no" PROVE WalGood' /\ Cut
  <2>1. open
    BY <1>6 DEF WalGood, TruncateStages
  <2>2. disk' = Flushed
    BY <1>1, <2>1
  <2>3. InOrder(disk', current) /\ Safe(disk', promised, current)
    BY <1>3, <1>6, <2>2 DEF WalGood
  <2>4. Written \in Seq(Record) /\ Len(Written) \in Nat
    BY WrittenType
  <2>5. PICK m : m = Len(Written)
    OBVIOUS
  <2>6. RecordsOf(disk') = SubSeq(Written, 1, m) /\ Len(disk') = m
    BY <1>3, <2>2, <2>4, <2>5
  <2>7. m \in promised..Len(Written)
    BY <1>2, <1>3, <2>4, <2>5
  <2>8. trunc.stage \in {"no", "closed"} /\ damaged' \in BOOLEAN
    BY <1>1, <1>2, <1>6
  <2>9. /\ WalGood' /\ m \in Covered..Len(View)
        /\ View' = SubSeq(View, 1, m) /\ Covered' = Covered
    BY <1>1, <1>4, <1>6, <2>3, <2>6, <2>7, <2>8, RestartRefines
  <2> QED
    BY <2>9 DEF Cut
<1> QED
  BY <1>1, <1>5, <1>6

\* A loss of power costs the abstract log at most records that no Sync covers, unless
\* it is one of the named causes of damage: of the last segment, what was not fsynced
\* is cut at some point, and every other segment is whole.
LEMMA PowerLossRefines ==
  ASSUME WalType, NEW syncing \in BOOLEAN, WalPowerLoss(syncing)
  PROVE  /\ WalType' /\ trunc'.stage = "no" /\ buffer' = <<>> /\ (damaged => damaged')
         /\ (WalGood /\ ~damaged') => WalGood' /\ Cut
<1> DEFINE LoosePart == [rec : Record, seg : Nat, part : {None, Header, Torn, Whole},
                         synced : BOOLEAN]
           loose(f) == {i \in 1..Len(f) : ~f[i].synced}
           left(f, part) == [i \in 1..Len(f) |->
                               [f[i] EXCEPT !.synced = TRUE,
                                  !.part = IF i \in loose(f) THEN part[i] ELSE @]]
           present(f, part) == {i \in 1..Len(f) : i \in loose(f) => part[i] # None}
<1>1. PICK files \in FilesAtCrash(syncing) :
        \E part \in [loose(files) -> {None, Header, Torn, Whole}] :
          /\ \A i \in loose(files) : part[i] <= files[i].part
          /\ \A i, j \in loose(files) :
               (i < j /\ files[i].seg = files[j].seg /\ part[i] < files[i].part)
                 => part[j] = None
          /\ disk' = Subsequence(left(files, part), present(files, part))
          /\ damaged' = (\/ damaged \/ DamagedBy(disk')
                         \/ \E i \in loose(files) : files[i].seg < current)
          /\ NewWAL
  BY DEF WalPowerLoss
<1>2. PICK part \in [loose(files) -> {None, Header, Torn, Whole}] :
          /\ \A i \in loose(files) : part[i] <= files[i].part
          /\ \A i, j \in loose(files) :
               (i < j /\ files[i].seg = files[j].seg /\ part[i] < files[i].part)
                 => part[j] = None
          /\ disk' = Subsequence(left(files, part), present(files, part))
          /\ damaged' = (\/ damaged \/ DamagedBy(disk')
                         \/ \E i \in loose(files) : files[i].seg < current)
          /\ NewWAL
  BY <1>1
<1> DEFINE L == loose(files)
           I == present(files, part)
           t == left(files, part)
<1>3. /\ files \in Seq(FilePart) /\ Len(files) \in Nat
      /\ Len(files) \in Len(disk)..Len(Written)
      /\ \A i \in 1..Len(disk) : files[i] = disk[i]
      /\ RecordsOf(files) = SubSeq(Written, 1, Len(files))
  BY CrashFiles
<1>4. \A i \in 1..Len(files) : /\ files[i] \in FilePart /\ files[i].seg \in Nat
                               /\ files[i].part \in {Header, Torn, Whole}
  <2>1. \A i \in 1..Len(files) : files[i] \in FilePart
    BY <1>3
  <2> QED
    BY <2>1, FilePartFields
<1>5. /\ L \subseteq 1..Len(files) /\ I \in SUBSET (1..Len(files))
      /\ \A i \in 1..Len(files) : i \in L <=> ~files[i].synced
      /\ \A i \in 1..Len(files) : i \in I <=> (i \in L => part[i] # None)
  OBVIOUS
<1>6. t = [i \in 1..Len(files) |->
             [files[i] EXCEPT !.synced = TRUE, !.part = IF i \in L THEN part[i] ELSE @]]
  OBVIOUS
<1>7. /\ part \in [L -> {None, Header, Torn, Whole}]
      /\ \A i \in L : part[i] <= files[i].part
      /\ \A i, j \in L :
               (i < j /\ files[i].seg = files[j].seg /\ part[i] < files[i].part)
                 => part[j] = None
      /\ disk' = Subsequence(t, I)
      /\ damaged' = (damaged \/ DamagedBy(disk') \/ \E i \in L : files[i].seg < current)
      /\ NewWAL
  BY <1>2
<1> HIDE DEF L, I, t
<1>8. ASSUME NEW i \in 1..Len(files)
      PROVE  /\ t[i] \in LoosePart /\ t[i].rec = files[i].rec /\ t[i].seg = files[i].seg
             /\ t[i].synced = TRUE
             /\ t[i].part = IF i \in L THEN part[i] ELSE files[i].part
  <2>1. PICK x : x = files[i]
    OBVIOUS
  <2>2. PICK q : q = IF i \in L THEN part[i] ELSE x.part
    OBVIOUS
  <2>3. x \in FilePart
    BY <1>4, <2>1
  <2>4. q \in {None, Header, Torn, Whole}
    BY <1>4, <1>7, <2>1, <2>2
  <2>5. t[i] = [x EXCEPT !.synced = TRUE, !.part = q]
    BY <1>6, <2>1, <2>2
  <2>6. /\ t[i] \in LoosePart /\ t[i].rec = x.rec /\ t[i].seg = x.seg
        /\ t[i].synced = TRUE /\ t[i].part = q
    BY <2>3, <2>4, <2>5 DEF FilePart
  <2> QED
    BY <2>1, <2>2, <2>6
<1> HIDE DEF LoosePart
<1>9. t \in Seq(LoosePart) /\ Len(t) = Len(files)
  <2>1. t \in [1..Len(files) -> LoosePart]
    BY <1>6, <1>8
  <2> QED
    BY <1>3, <2>1
<1>10. ASSUME NEW i \in I PROVE t[i] \in FilePart
  <2>1. i \in 1..Len(files)
    BY <1>5
  <2>2. t[i].part # None
    <3>1. CASE i \in L
      <4>1. part[i] # None
        BY <1>5, <2>1, <3>1
      <4> QED
        BY <1>8, <2>1, <3>1, <4>1
    <3>2. CASE i \notin L
      <4>1. t[i].part = files[i].part
        BY <1>8, <2>1, <3>2
      <4> QED
        BY <1>4, <2>1, <4>1 DEF None, Header, Torn, Whole
    <3> QED
      BY <3>1, <3>2
  <2>3. PICK x : x = t[i]
    OBVIOUS
  <2>4. x \in LoosePart /\ x.part # None
    BY <1>8, <2>1, <2>2, <2>3
  <2>5. x \in FilePart
    BY <2>4 DEF LoosePart, FilePart
  <2> QED
    BY <2>3, <2>5
<1>11. /\ disk' \in Seq(LoosePart) /\ Len(disk') \in Nat
       /\ \A k \in 1..Len(disk') : \E i \in I : disk'[k] = t[i]
  <2>1. I \in SUBSET (1..Len(t))
    BY <1>5, <1>9
  <2>2. /\ Subsequence(t, I) \in Seq(LoosePart)
        /\ Len(Subsequence(t, I)) = Cardinality(I) /\ Cardinality(I) \in Nat
        /\ \A k \in 1..Cardinality(I) :
             \E i \in I : Rank(I, i) = k /\ Subsequence(t, I)[k] = t[i]
    BY <1>9, <2>1, SubsequenceElements
  <2> QED
    BY <1>7, <2>2
<1>12. disk' \in Seq(FilePart)
  <2>1. \A k \in 1..Len(disk') : disk'[k] \in FilePart
    BY <1>10, <1>11
  <2> QED
    BY <1>11, <2>1
<1>13. damaged \in BOOLEAN /\ promised \in 0..Len(disk) /\ Len(disk) \in Nat
  BY DEF WalType
<1>14. damaged' \in BOOLEAN /\ (damaged => damaged')
  BY <1>7, <1>13
<1>15. WalType' /\ trunc'.stage = "no" /\ buffer' = <<>>
  BY <1>7, <1>12, <1>14, NewWALType
<1>16. ASSUME WalGood, ~damaged' PROVE WalGood' /\ Cut
  <2>1. ~DamagedBy(disk') /\ \A i \in L : ~(files[i].seg < current)
    BY <1>7, <1>16
  <2>2. /\ \A i \in 1..Len(disk') : disk'[i].part = Whole
        /\ trunc.stage \in {"no", "closed"}
    <3>1. trunc.stage \notin {"removing", "rewriting"}
      BY <2>1 DEF DamagedBy
    <3> QED
      BY <2>1, <3>1 DEF DamagedBy, WalType
  <2>3. Ordered(files, current)
    BY <1>16, CrashFilesOrdered DEF WalGood
  <2>4. current \in Nat
    BY DEF WalType
  <2>5. \A i \in L : files[i].seg = current
    <3> SUFFICES ASSUME NEW i \in L PROVE files[i].seg = current
      OBVIOUS
    <3>1. i \in 1..Len(files)
      BY <1>5
    <3>2. files[i].seg <= current /\ files[i].seg \in Nat
      BY <1>4, <2>3, <3>1 DEF Ordered
    <3> QED
      BY <2>1, <2>4, <3>2
  <2>6. ASSUME NEW j \in I, NEW i \in 1..Len(files), i < j PROVE i \in I
    <3> SUFFICES ASSUME i \notin I PROVE FALSE
      OBVIOUS
    <3>1. i \in L /\ part[i] = None /\ j \in 1..Len(files)
      BY <1>5
    <3>2. part[i] < files[i].part
      BY <1>4, <3>1 DEF None, Header, Torn, Whole
    <3>3. files[i].seg = current
      BY <2>5, <3>1
    <3>4. CASE j \in L
      <4>1. part[j] = None
        BY <1>7, <2>5, <2>6, <3>1, <3>2, <3>3, <3>4
      <4> QED
        BY <1>5, <3>1, <3>4, <4>1
    <3>5. CASE j \notin L
      <4>1. files[j].synced
        BY <1>5, <3>1, <3>5
      <4>2. files[i].seg <= files[j].seg /\ files[j].seg <= current
        BY <2>3, <2>6, <3>1 DEF Ordered
      <4>3. files[j].seg \in Nat
        BY <1>4, <3>1
      <4>4. files[j].seg = files[i].seg
        BY <2>4, <3>3, <4>2, <4>3
      <4>5. files[i].synced
        BY <2>3, <2>6, <3>1, <4>1, <4>4 DEF Ordered
      <4> QED
        BY <1>5, <3>1, <4>5
    <3> QED
      BY <3>4, <3>5
  <2>7. PICK m \in 0..Len(files) : I = 1..m
    BY <1>3, <1>5, <2>6, DownClosed
  <2>8. disk' = SubSeq(t, 1, m) /\ m \in 0..Len(t)
    BY <1>7, <1>9, <2>7, SubsequencePrefix
  <2>9. Len(disk') = m /\ \A i \in 1..m : disk'[i] = t[i] /\ i \in 1..Len(files)
    <3>1. \A i \in 1..m : i \in 1..Len(files)
      BY <1>3
    <3> QED
      BY <1>9, <2>8, <3>1, SplitSeq
  <2>10. InOrder(disk', current)
    <3>1. \A i \in 1..m : disk'[i].seg = files[i].seg /\ disk'[i].synced = TRUE
      BY <1>8, <2>9
    <3>2. \A i \in 1..m : files[i].seg <= current
      BY <2>3, <2>9 DEF Ordered
    <3>3. \A i, j \in 1..m : i < j => files[i].seg <= files[j].seg
      BY <2>3, <2>9 DEF Ordered
    <3> QED
      BY <2>2, <2>9, <3>1, <3>2, <3>3 DEF InOrder
  <2>11. promised <= m
    <3>1. CASE promised = 0
      BY <3>1
    <3>2. CASE promised # 0
      <4>1. promised \in 1..Len(disk) /\ promised \in 1..promised
        BY <1>13, <3>2
      <4>2. disk[promised].synced \/ disk[promised].seg < current
        BY <1>16, <4>1 DEF WalGood, Safe
      <4>3. files[promised] = disk[promised] /\ promised \in 1..Len(files)
        <5>1. promised \in 1..Len(files)
          BY <1>3, <1>13, <4>1
        <5> QED
          BY <1>3, <4>1, <5>1
      <4>4. promised \notin L
        BY <1>5, <2>1, <4>2, <4>3
      <4>5. promised \in I
        BY <1>5, <4>3, <4>4
      <4> QED
        BY <2>7, <4>5
    <3> QED
      BY <3>1, <3>2
  <2>12. Safe(disk', promised, current)
    <3>1. \A i \in 1..promised : i \in 1..m
      BY <1>13, <2>11
    <3> QED
      BY <1>8, <2>9, <3>1 DEF Safe
  <2>13. RecordsOf(disk') = SubSeq(Written, 1, m)
    <3>1. Written \in Seq(Record) /\ m \in 0..Len(Written) /\ Len(files) \in 0..Len(Written)
      <4>1. Written \in Seq(Record) /\ Len(Written) \in Nat
        BY WrittenType
      <4> QED
        BY <1>3, <1>13, <2>7, <4>1
    <3>2. /\ RecordsOf(disk') \in Seq(Record) /\ Len(RecordsOf(disk')) = m
          /\ \A i \in 1..m : RecordsOf(disk')[i] = disk'[i].rec
      BY <1>12, <2>9, RecordsOfType
    <3>3. /\ SubSeq(Written, 1, m) \in Seq(Record) /\ Len(SubSeq(Written, 1, m)) = m
          /\ \A i \in 1..m : SubSeq(Written, 1, m)[i] = Written[i]
      BY <3>1, SplitSeq
    <3>4. \A i \in 1..Len(files) : files[i].rec = SubSeq(Written, 1, Len(files))[i]
      BY <1>3, RecordsOfType
    <3>5. \A i \in 1..Len(files) : SubSeq(Written, 1, Len(files))[i] = Written[i]
      BY <3>1, SplitSeq
    <3>6. ASSUME NEW i \in 1..m PROVE RecordsOf(disk')[i] = SubSeq(Written, 1, m)[i]
      <4>1. i \in 1..Len(files) /\ disk'[i] = t[i]
        BY <2>9
      <4>2. t[i].rec = files[i].rec
        BY <1>8, <4>1
      <4>3. files[i].rec = Written[i]
        BY <3>4, <3>5, <4>1
      <4> QED
        BY <3>2, <3>3, <4>1, <4>2, <4>3
    <3> QED
      BY <3>2, <3>3, <3>6, SeqEqual
  <2>14. m \in promised..Len(Written)
    <3>1. Len(Written) \in Nat
      BY WrittenType
    <3> QED
      BY <1>3, <1>13, <2>7, <2>11, <3>1
  <2>15. /\ WalGood' /\ m \in Covered..Len(View)
         /\ View' = SubSeq(View, 1, m) /\ Covered' = Covered
    BY <1>7, <1>12, <1>14, <1>16, <2>2, <2>9, <2>10, <2>12, <2>13, <2>14, RestartRefines
  <2> QED
    BY <2>15 DEF Cut
<1> QED
  BY <1>14, <1>15, <1>16

-----------------------------------------------------------------------------
(* The calls and their steps *)

\* What the step of a call is made of.
LEMMA StepFields ==
  ASSUME NEW s \in StepType
  PROVE  s.recs \in Seq(Record) /\ s.from \in 0..MaxIndex
BY DEF StepType

\* A step that is put together from its parts.
LEMMA StepIsStep ==
  ASSUME NEW op \in {"SaveMetadata", "SaveLogEntries", "DeleteFrom", "SaveSnapshot",
                     "Append", "AppendBatch", "Truncate", "Sync"},
         NEW recs \in Seq(Record), NEW from \in 0..MaxIndex
  PROVE  /\ Step(op, recs, from) \in StepType
         /\ Step(op, recs, from).op = op /\ Step(op, recs, from).recs = recs
         /\ Step(op, recs, from).from = from
BY DEF Step, StepType

\* The steps that are left once the first is taken are in order too.
LEMMA TailWellFormed ==
  ASSUME NEW steps \in Seq(StepType), steps # <<>>, WellFormed(steps)
  PROVE  Tail(steps) \in Seq(StepType) /\ WellFormed(Tail(steps))
<1> DEFINE t == Tail(steps)
<1>1. /\ t \in Seq(StepType) /\ Len(t) = Len(steps) - 1 /\ Len(steps) \in Nat /\ Len(t) \in Nat
      /\ \A k \in 1..Len(t) : t[k] = steps[k + 1]
  OBVIOUS
<1> HIDE DEF t
<1>2. ASSUME NEW k \in 1..Len(t), NEW step, Follows(steps, k + 1, step)
      PROVE  Follows(t, k, step)
  BY <1>1, <1>2 DEF Follows
<1>3. ASSUME NEW k \in 1..Len(t), NEW step, Follows(steps, k + 2, step)
      PROVE  Follows(t, k + 1, step)
  BY <1>1, <1>3 DEF Follows
<1>4. WellFormed(t)
  <2> SUFFICES ASSUME NEW k \in 1..Len(t) PROVE WellFormedAt(t, k)
    BY DEF WellFormed
  <2> DEFINE s == t[k]
             j == k + 1
  <2>1. j \in 1..Len(steps) /\ j > 1 /\ s = steps[j] /\ j = k + 1 /\ j + 1 = k + 2
    BY <1>1
  <2>2. k < Len(t) <=> j < Len(steps)
    BY <1>1
  <2>3. k < Len(t) => t[k + 1] = steps[j + 1]
    BY <1>1, <2>1
  <2> HIDE DEF s, j
  <2>4. /\ s.op \notin {"SaveMetadata", "SaveSnapshot", "DeleteFrom"}
        /\ s.op = "Append" =>
             /\ s.from = 0 /\ Len(s.recs) = 1
             /\ Follows(steps, j, Step("Sync", s.recs, 0))
        /\ s.op = "SaveLogEntries" =>
             /\ s.from = 0 /\ Consecutive(s.recs) /\ s.recs[1].index = 1
             /\ Follows(steps, j, Step("AppendBatch", s.recs, 0))
             /\ Follows(steps, j + 1, Step("Sync", s.recs, 0))
        /\ s.op = "AppendBatch" =>
             s.from = 0 /\ j < Len(steps) /\ steps[j + 1].op = "Sync" /\ steps[j + 1].from = 0
        /\ s.op = "Truncate" =>
             /\ s.recs = <<>> /\ s.from \in Index
             /\ Follows(steps, j, Step("Sync", <<>>, s.from))
        /\ (s.op = "Sync" /\ j < Len(steps)) =>
             steps[j + 1].op = "SaveLogEntries" \/ steps[j + 1] = Step("Sync", <<>>, 0)
    <3>1. \A n \in 1..Len(steps) : n > 1 => n # 1
      BY <1>1
    <3> QED
      BY <2>1, <3>1, Zenon DEF WellFormed, WellFormedAt
  <2>5. \A step : (Follows(steps, j, step) => Follows(t, k, step))
    BY <1>2, <2>1
  <2>6. \A step : (Follows(steps, j + 1, step) => Follows(t, k + 1, step))
    BY <1>3, <2>1
  <2> QED
    BY <2>2, <2>3, <2>4, <2>5, <2>6 DEF s, WellFormedAt
<1> QED
  BY <1>1, <1>4 DEF t

\* The step that a call takes next.
LEMMA HeadStep ==
  ASSUME CallType, NEW c \in Caller, ~Idle(c)
  PROVE  /\ todo[c] \in Seq(StepType) /\ todo[c] # <<>> /\ Len(todo[c]) \in Nat \ {0}
         /\ WellFormed(todo[c])
         /\ Head(todo[c]) = todo[c][1] /\ Head(todo[c]) \in StepType
         /\ Head(todo[c]).recs \in Seq(Record) /\ Head(todo[c]).from \in 0..MaxIndex
         /\ Tail(todo[c]) \in Seq(StepType) /\ WellFormed(Tail(todo[c]))
         /\ Len(Tail(todo[c])) = Len(todo[c]) - 1
         /\ \A k \in 1..(Len(todo[c]) - 1) : Tail(todo[c])[k] = todo[c][k + 1]
<1> DEFINE s == todo[c]
<1>1. s \in Seq(StepType) /\ s # <<>> /\ WellFormed(s)
  BY DEF CallType, Idle
<1> HIDE DEF s
<1>2. Len(s) \in Nat \ {0} /\ Head(s) = s[1] /\ Head(s) \in StepType
  BY <1>1
<1>3. Head(s).recs \in Seq(Record) /\ Head(s).from \in 0..MaxIndex
  BY <1>2, StepFields
<1>4. Tail(s) \in Seq(StepType) /\ WellFormed(Tail(s))
  BY <1>1, TailWellFormed
<1>5. Len(Tail(s)) = Len(s) - 1 /\ \A k \in 1..(Len(s) - 1) : Tail(s)[k] = s[k + 1]
  BY <1>1
<1> QED
  BY <1>1, <1>2, <1>3, <1>4, <1>5 DEF s

\* What the first step of a call promises of the ones behind it.
LEMMA HeadShape ==
  ASSUME CallType, NEW c \in Caller, ~Idle(c)
  PROVE  LET s == Head(todo[c])
             rest == Tail(todo[c])
         IN  /\ s.op = "SaveMetadata" =>
                  /\ s.from = 0 /\ Len(s.recs) = 1 /\ s.recs[1] \in MetaRecord
                  /\ rest # <<>> /\ rest[1] = Step("Append", s.recs, 0)
             /\ s.op = "SaveSnapshot" =>
                  /\ s.from = 0 /\ Len(s.recs) = 1 /\ s.recs[1] \in SnapRecord
                  /\ rest # <<>> /\ rest[1] = Step("Append", s.recs, 0)
             /\ s.op = "Append" =>
                  /\ s.from = 0 /\ Len(s.recs) = 1
                  /\ rest # <<>> /\ rest[1] = Step("Sync", s.recs, 0)
             /\ s.op = "SaveLogEntries" =>
                  /\ s.from = 0 /\ Consecutive(s.recs)
                  /\ rest # <<>> /\ rest[1] = Step("AppendBatch", s.recs, 0)
                  /\ Len(rest) > 1 /\ rest[2] = Step("Sync", s.recs, 0)
             /\ s.op = "AppendBatch" =>
                  /\ s.from = 0
                  /\ rest # <<>> /\ rest[1] = todo[c][2] /\ rest[1].op = "Sync" /\ rest[1].from = 0
             /\ s.op = "DeleteFrom" =>
                  /\ s.recs = <<>> /\ s.from \in Index
                  /\ rest # <<>> /\ rest[1] = Step("Truncate", <<>>, s.from)
             /\ s.op = "Truncate" =>
                  /\ s.recs = <<>> /\ s.from \in Index
                  /\ rest # <<>> /\ rest[1] = Step("Sync", <<>>, s.from)
             /\ (s.op = "Sync" /\ rest # <<>>) =>
                  \/ rest[1].op = "SaveLogEntries" /\ rest[1].recs[1].index = 1
                  \/ rest[1] = Step("Sync", <<>>, 0)
<1> DEFINE steps == todo[c]
           s == Head(steps)
           rest == Tail(steps)
<1>1. /\ steps \in Seq(StepType) /\ Len(steps) \in Nat \ {0} /\ WellFormed(steps)
      /\ s = steps[1] /\ rest \in Seq(StepType) /\ Len(rest) = Len(steps) - 1
      /\ \A k \in 1..(Len(steps) - 1) : rest[k] = steps[k + 1]
  BY HeadStep
<1>2. todo[c][2] = steps[2]
  OBVIOUS
<1> HIDE DEF steps, s, rest
<1>3. 1 \in 1..Len(steps) /\ 1 + 1 = 2
  BY <1>1
<1>4. 1 < Len(steps) => rest # <<>> /\ rest[1] = steps[2]
  BY <1>1
<1>5. rest # <<>> => 1 < Len(steps) /\ 2 \in 1..Len(steps)
  <2>1. rest # <<>> => Len(rest) # 0
    BY <1>1
  <2> QED
    BY <1>1, <2>1
<1>6. 2 < Len(steps) => Len(rest) > 1 /\ rest[2] = steps[3]
  BY <1>1
<1>7. \A step : Follows(steps, 1, step) => rest # <<>> /\ rest[1] = step
  BY <1>4 DEF Follows
<1>8. \A step : Follows(steps, 2, step) => Len(rest) > 1 /\ rest[2] = step
  BY <1>6 DEF Follows
<1>9. /\ s.op = "SaveMetadata" =>
           /\ s.from = 0 /\ Len(s.recs) = 1 /\ s.recs[1] \in MetaRecord
           /\ Follows(steps, 1, Step("Append", s.recs, 0))
      /\ s.op = "SaveSnapshot" =>
           /\ s.from = 0 /\ Len(s.recs) = 1 /\ s.recs[1] \in SnapRecord
           /\ Follows(steps, 1, Step("Append", s.recs, 0))
      /\ s.op = "Append" =>
           /\ s.from = 0 /\ Len(s.recs) = 1
           /\ Follows(steps, 1, Step("Sync", s.recs, 0))
      /\ s.op = "SaveLogEntries" =>
           /\ s.from = 0 /\ Consecutive(s.recs)
           /\ Follows(steps, 1, Step("AppendBatch", s.recs, 0))
           /\ Follows(steps, 2, Step("Sync", s.recs, 0))
      /\ s.op = "AppendBatch" =>
           s.from = 0 /\ 1 < Len(steps) /\ steps[2].op = "Sync" /\ steps[2].from = 0
      /\ s.op = "DeleteFrom" =>
           /\ s.recs = <<>> /\ s.from \in Index
           /\ Follows(steps, 1, Step("Truncate", <<>>, s.from))
      /\ s.op = "Truncate" =>
           /\ s.recs = <<>> /\ s.from \in Index
           /\ Follows(steps, 1, Step("Sync", <<>>, s.from))
      /\ (s.op = "Sync" /\ 1 < Len(steps)) =>
           steps[2].op = "SaveLogEntries" \/ steps[2] = Step("Sync", <<>>, 0)
  BY <1>1, <1>3 DEF WellFormed, WellFormedAt
<1>10. (2 \in 1..Len(steps) /\ steps[2].op = "SaveLogEntries") => steps[2].recs[1].index = 1
  BY <1>1 DEF WellFormed, WellFormedAt
<1>11. (s.op = "Sync" /\ rest # <<>>) =>
         \/ rest[1].op = "SaveLogEntries" /\ rest[1].recs[1].index = 1
         \/ rest[1] = Step("Sync", <<>>, 0)
  BY <1>4, <1>5, <1>9, <1>10
<1>12. s.op = "AppendBatch" =>
         /\ s.from = 0
         /\ rest # <<>> /\ rest[1] = todo[c][2] /\ rest[1].op = "Sync" /\ rest[1].from = 0
  BY <1>2, <1>4, <1>9
<1> QED
  BY <1>7, <1>8, <1>9, <1>11, <1>12 DEF s, rest, steps

-----------------------------------------------------------------------------
(* The calls that begin *)

\* Where the log in the store ends.
LEMMA LastIndexType ==
  ASSUME store \in StoreType
  PROVE  /\ LastIndex \in 0..MaxIndex
         /\ LastIndex # 0 => store.log[LastIndex] # NoTerm
         /\ \A i \in Index : store.log[i] # NoTerm => i <= LastIndex
<1> DEFINE T == {0} \cup {i \in Index : store.log[i] # NoTerm}
<1>1. MaxIndex \in Nat
  BY PersistenceAssumption
<1>2. T \subseteq 0..MaxIndex /\ T # {}
  BY <1>1 DEF Index
<1>3. /\ \A i \in T : i # 0 => store.log[i] # NoTerm
      /\ \A i \in Index : store.log[i] # NoTerm => i \in T
  OBVIOUS
<1>4. LastIndex = Max(T)
  BY DEF LastIndex
<1> HIDE DEF T
<1>5. Max(T) \in T /\ \A i \in T : i <= Max(T)
  BY <1>1, <1>2, MaxType
<1> QED
  BY <1>2, <1>3, <1>4, <1>5

\* The entries of a call are records of the log, at consecutive indices.
LEMMA EntriesType ==
  ASSUME NEW from \in Nat \ {0}, NEW n \in Nat \ {0}, NEW t \in Term,
         from + n - 1 <= MaxIndex
  PROVE  /\ Entries(from, n, t) \in Seq(Record)
         /\ Consecutive(Entries(from, n, t))
         /\ Entries(from, n, t)[1].index = from
<1> DEFINE e(k) == [type |-> "log", index |-> from + k - 1, term |-> t]
           s == [k \in 1..n |-> e(k)]
<1>1. Entries(from, n, t) = s
  BY DEF Entries
<1>2. MaxIndex \in Nat
  BY PersistenceAssumption
<1>3. ASSUME NEW k \in 1..n PROVE e(k) \in LogRecord /\ e(k).index = from + k - 1
  <2>1. PICK i : i = from + k - 1
    OBVIOUS
  <2>2. i \in Index
    BY <1>2, <2>1 DEF Index
  <2> QED
    BY <2>1, <2>2 DEF LogRecord
<1> HIDE DEF e
<1>4. s \in [1..n -> LogRecord] /\ \A k \in 1..n : s[k].index = from + k - 1
  BY <1>3
<1>5. Len(s) = n /\ s \in Seq(LogRecord)
  BY <1>4
<1>6. LogRecord \subseteq Record
  BY DEF Record
<1>7. s \in Seq(Record)
  BY <1>5, <1>6, SeqMonotonic
<1> HIDE DEF s
<1>8. s[1].index = from /\ 1 \in 1..n
  BY <1>4
<1>9. \A k \in 1..n : s[k] \in LogRecord /\ s[k].index = s[1].index + k - 1
  BY <1>4, <1>8
<1>10. s # <<>>
  BY <1>5
<1> QED
  BY <1>1, <1>5, <1>7, <1>8, <1>9, <1>10 DEF Consecutive

\* The entries that a checkpoint writes again are the log from its first index on.
LEMMA StoredEntriesType ==
  ASSUME store \in StoreType, SequentialLog, LastIndex # 0
  PROVE  /\ StoredEntries \in Seq(Record)
         /\ Consecutive(StoredEntries) /\ StoredEntries[1].index = 1
<1> DEFINE n == LastIndex
           e(i) == [type |-> "log", index |-> i, term |-> store.log[i]]
           s == [i \in 1..n |-> e(i)]
<1>1. StoredEntries = s
  BY DEF StoredEntries
<1>2. n \in 0..MaxIndex /\ n # 0 /\ store.log[n] # NoTerm /\ MaxIndex \in Nat
  BY LastIndexType, PersistenceAssumption
<1>3. n \in Index
  BY <1>2 DEF Index
<1>4. \A i \in 1..n : i \in Index /\ store.log[i] # NoTerm
  <2>1. \A i \in 1..n : store.log[i] # NoTerm
    BY <1>2, <1>3 DEF SequentialLog
  <2>2. \A i \in 1..n : i \in 1..MaxIndex
    BY <1>2
  <2> QED
    BY <2>1, <2>2 DEF Index
<1> HIDE DEF n
<1>5. ASSUME NEW i \in 1..n PROVE e(i) \in LogRecord /\ e(i).index = i
  <2>1. store.log \in [Index -> Term \cup {NoTerm}]
    BY DEF StoreType
  <2>2. store.log[i] \in Term
    BY <1>4, <2>1
  <2> QED
    BY <1>4, <2>2 DEF LogRecord
<1> HIDE DEF e
<1>6. s \in [1..n -> LogRecord] /\ \A k \in 1..n : s[k].index = k
  BY <1>5
<1>7. Len(s) = n /\ s \in Seq(LogRecord)
  BY <1>2, <1>6
<1>8. LogRecord \subseteq Record
  BY DEF Record
<1>9. s \in Seq(Record)
  BY <1>7, <1>8, SeqMonotonic
<1> HIDE DEF s
<1>10. s[1].index = 1 /\ 1 \in 1..n
  BY <1>2, <1>6
<1>11. \A k \in 1..n : s[k] \in LogRecord /\ s[k].index = s[1].index + k - 1
  BY <1>6, <1>10
<1>12. s # <<>>
  BY <1>2, <1>7
<1> QED
  BY <1>1, <1>7, <1>9, <1>10, <1>11, <1>12 DEF Consecutive

\* A record and the sequence of it alone.
LEMMA OneRecord ==
  ASSUME NEW r \in Record
  PROVE  <<r>> \in Seq(Record) /\ Len(<<r>>) = 1 /\ <<r>>[1] = r /\ 0 \in 0..MaxIndex
BY PersistenceAssumption

\* The steps of PersistMetadata.
LEMMA MetadataSteps ==
  ASSUME NEW r \in MetaRecord
  PROVE  PersistMetadata(r) \in Seq(StepType) /\ WellFormed(PersistMetadata(r))
<1> DEFINE rs == <<r>>
           a == Step("SaveMetadata", rs, 0)
           b == Step("Append", rs, 0)
           d == Step("Sync", rs, 0)
<1>1. rs \in Seq(Record) /\ Len(rs) = 1 /\ rs[1] = r /\ 0 \in 0..MaxIndex
  BY OneRecord DEF Record
<1>2. PersistMetadata(r) = <<a, b, d>>
  BY DEF PersistMetadata
<1> HIDE DEF rs
<1>3. /\ a \in StepType /\ a.op = "SaveMetadata" /\ a.recs = rs /\ a.from = 0
      /\ b \in StepType /\ b.op = "Append" /\ b.recs = rs /\ b.from = 0
      /\ d \in StepType /\ d.op = "Sync" /\ d.recs = rs /\ d.from = 0
  BY <1>1, StepIsStep
<1>4. b = Step("Append", a.recs, 0) /\ d = Step("Sync", b.recs, 0)
  BY <1>3
<1> HIDE DEF a, b, d
<1>5. PICK s : s = <<a, b, d>>
  OBVIOUS
<1>6. s \in Seq(StepType) /\ Len(s) = 3 /\ s[1] = a /\ s[2] = b /\ s[3] = d
  BY <1>3, <1>5
<1>7. WellFormedAt(s, 1) /\ WellFormedAt(s, 2) /\ WellFormedAt(s, 3)
  BY <1>1, <1>3, <1>4, <1>6 DEF WellFormedAt, Follows
<1>8. WellFormed(s)
  BY <1>6, <1>7 DEF WellFormed
<1> QED
  BY <1>2, <1>5, <1>6, <1>8

\* The steps of PersistSnapshot.
LEMMA SnapshotSteps ==
  ASSUME NEW r \in SnapRecord
  PROVE  PersistSnapshot(r) \in Seq(StepType) /\ WellFormed(PersistSnapshot(r))
<1> DEFINE rs == <<r>>
           a == Step("SaveSnapshot", rs, 0)
           b == Step("Append", rs, 0)
           d == Step("Sync", rs, 0)
<1>1. rs \in Seq(Record) /\ Len(rs) = 1 /\ rs[1] = r /\ 0 \in 0..MaxIndex
  BY OneRecord DEF Record
<1>2. PersistSnapshot(r) = <<a, b, d>>
  BY DEF PersistSnapshot
<1> HIDE DEF rs
<1>3. /\ a \in StepType /\ a.op = "SaveSnapshot" /\ a.recs = rs /\ a.from = 0
      /\ b \in StepType /\ b.op = "Append" /\ b.recs = rs /\ b.from = 0
      /\ d \in StepType /\ d.op = "Sync" /\ d.recs = rs /\ d.from = 0
  BY <1>1, StepIsStep
<1>4. b = Step("Append", a.recs, 0) /\ d = Step("Sync", b.recs, 0)
  BY <1>3
<1> HIDE DEF a, b, d
<1>5. PICK s : s = <<a, b, d>>
  OBVIOUS
<1>6. s \in Seq(StepType) /\ Len(s) = 3 /\ s[1] = a /\ s[2] = b /\ s[3] = d
  BY <1>3, <1>5
<1>7. WellFormedAt(s, 1) /\ WellFormedAt(s, 2) /\ WellFormedAt(s, 3)
  BY <1>1, <1>3, <1>4, <1>6 DEF WellFormedAt, Follows
<1>8. WellFormed(s)
  BY <1>6, <1>7 DEF WellFormed
<1> QED
  BY <1>2, <1>5, <1>6, <1>8

\* The steps of PersistLogEntries.
LEMMA LogSteps ==
  ASSUME NEW rs \in Seq(Record), Consecutive(rs)
  PROVE  PersistLogEntries(rs) \in Seq(StepType) /\ WellFormed(PersistLogEntries(rs))
<1> DEFINE a == Step("SaveLogEntries", rs, 0)
           b == Step("AppendBatch", rs, 0)
           d == Step("Sync", rs, 0)
<1>1. 0 \in 0..MaxIndex
  BY PersistenceAssumption
<1>2. PersistLogEntries(rs) = <<a, b, d>>
  BY DEF PersistLogEntries
<1>3. /\ a \in StepType /\ a.op = "SaveLogEntries" /\ a.recs = rs /\ a.from = 0
      /\ b \in StepType /\ b.op = "AppendBatch" /\ b.recs = rs /\ b.from = 0
      /\ d \in StepType /\ d.op = "Sync" /\ d.recs = rs /\ d.from = 0
  BY <1>1, StepIsStep
<1>4. b = Step("AppendBatch", a.recs, 0) /\ d = Step("Sync", a.recs, 0)
  BY <1>3
<1> HIDE DEF a, b, d
<1>5. PICK s : s = <<a, b, d>>
  OBVIOUS
<1>6. s \in Seq(StepType) /\ Len(s) = 3 /\ s[1] = a /\ s[2] = b /\ s[3] = d
  BY <1>3, <1>5
<1>7. WellFormedAt(s, 1) /\ WellFormedAt(s, 2) /\ WellFormedAt(s, 3)
  BY <1>3, <1>4, <1>6 DEF WellFormedAt, Follows
<1>8. WellFormed(s)
  BY <1>6, <1>7 DEF WellFormed
<1> QED
  BY <1>2, <1>5, <1>6, <1>8

\* The steps of DeleteLogEntriesFrom.
LEMMA DeleteSteps ==
  ASSUME NEW index \in Index
  PROVE  DeleteLogEntriesFrom(index) \in Seq(StepType) /\ WellFormed(DeleteLogEntriesFrom(index))
<1> DEFINE rs == <<>>
           a == Step("DeleteFrom", rs, index)
           b == Step("Truncate", rs, index)
           d == Step("Sync", rs, index)
<1>1. index \in 0..MaxIndex /\ rs \in Seq(Record)
  BY PersistenceAssumption DEF Index
<1>2. DeleteLogEntriesFrom(index) = <<a, b, d>>
  BY DEF DeleteLogEntriesFrom
<1> HIDE DEF rs
<1>3. /\ a \in StepType /\ a.op = "DeleteFrom" /\ a.recs = rs /\ a.from = index
      /\ b \in StepType /\ b.op = "Truncate" /\ b.recs = rs /\ b.from = index
      /\ d \in StepType /\ d.op = "Sync" /\ d.recs = rs /\ d.from = index
  BY <1>1, StepIsStep
<1>4. b = Step("Truncate", <<>>, a.from) /\ d = Step("Sync", <<>>, b.from) /\ rs = <<>>
  BY <1>3 DEF rs
<1> HIDE DEF a, b, d
<1>5. PICK s : s = <<a, b, d>>
  OBVIOUS
<1>6. s \in Seq(StepType) /\ Len(s) = 3 /\ s[1] = a /\ s[2] = b /\ s[3] = d
  BY <1>3, <1>5
<1>7. WellFormedAt(s, 1) /\ WellFormedAt(s, 2) /\ WellFormedAt(s, 3)
  BY <1>3, <1>4, <1>6 DEF WellFormedAt, Follows
<1>8. WellFormed(s)
  BY <1>6, <1>7 DEF WellFormed
<1> QED
  BY <1>2, <1>5, <1>6, <1>8

\* Two calls in one are in order when the first ends with a Sync and the second
\* may follow one.
LEMMA ConcatSteps ==
  ASSUME NEW s \in Seq(StepType), NEW t \in Seq(StepType), WellFormed(s), WellFormed(t),
         s # <<>>, t # <<>>, s[Len(s)].op = "Sync",
         \A k \in 1..Len(t) : /\ t[k].op \notin {"SaveMetadata", "SaveSnapshot", "DeleteFrom"}
                              /\ t[k].op = "SaveLogEntries" => t[k].recs[1].index = 1,
         t[1].op = "SaveLogEntries" \/ t[1] = Step("Sync", <<>>, 0)
  PROVE  s \o t \in Seq(StepType) /\ WellFormed(s \o t)
<1> DEFINE u == s \o t
           n == Len(s)
<1>1. /\ u \in Seq(StepType) /\ Len(u) = n + Len(t)
      /\ \A i \in 1..n : u[i] = s[i]
      /\ \A i \in 1..Len(t) : u[n + i] = t[i]
  BY ConcatElements
<1>2. n \in Nat \ {0} /\ Len(t) \in Nat \ {0}
  OBVIOUS
<1> HIDE DEF u
<1>3. ASSUME NEW k \in 1..n PROVE WellFormedAt(u, k)
  <2>1. WellFormedAt(s, k)
    BY DEF WellFormed
  <2>2. u[k] = s[k]
    BY <1>1
  <2>3. CASE k = n
    <3>1. u[k].op = "Sync"
      BY <2>2, <2>3
    <3>2. u[k + 1] = t[1]
      BY <1>1, <1>2, <2>3
    <3> QED
      BY <3>1, <3>2 DEF WellFormedAt
  <2>4. CASE k < n
    <3>1. u[k + 1] = s[k + 1] /\ k < Len(u) /\ k < Len(s)
      <4>1. k + 1 \in 1..n /\ k < n + Len(t)
        BY ONLY <1>2, <2>4, k \in 1..n
      <4> QED
        BY ONLY <1>1, <2>4, <4>1
    <3>2. \A step : Follows(s, k, step) => Follows(u, k, step)
      BY <3>1 DEF Follows
    <3>3. \A step : Follows(s, k + 1, step) => Follows(u, k + 1, step)
      <4>1. ASSUME k + 1 < Len(s) PROVE k + 1 < Len(u) /\ u[k + 1 + 1] = s[k + 1 + 1]
        <5>1. k + 1 + 1 \in 1..n /\ k + 1 < Len(u)
          BY <1>1, <1>2, <4>1
        <5> QED
          BY <1>1, <5>1
      <4> QED
        BY <4>1 DEF Follows
    <3> QED
      BY <2>1, <2>2, <3>1, <3>2, <3>3 DEF WellFormedAt
  <2> QED
    BY <1>2, <2>3, <2>4
<1>4. ASSUME NEW j \in 1..Len(t) PROVE WellFormedAt(u, n + j)
  <2>1. WellFormedAt(t, j)
    BY DEF WellFormed
  <2>2. u[n + j] = t[j]
    BY <1>1
  <2>3. j < Len(t) <=> n + j < Len(u)
    BY <1>1, <1>2
  <2>4. j < Len(t) => u[n + j + 1] = t[j + 1]
    <3>1. ASSUME j < Len(t) PROVE u[n + j + 1] = t[j + 1]
      <4>1. j + 1 \in 1..Len(t) /\ n + (j + 1) = n + j + 1
        BY <1>2, <3>1
      <4> QED
        BY <1>1, <4>1
    <3> QED
      BY <3>1
  <2>5. \A step : Follows(t, j, step) => Follows(u, n + j, step)
    BY <2>3, <2>4 DEF Follows
  <2>6. \A step : Follows(t, j + 1, step) => Follows(u, n + j + 1, step)
    <3>1. ASSUME j + 1 < Len(t) PROVE n + j + 1 < Len(u) /\ u[n + j + 1 + 1] = t[j + 1 + 1]
      <4>1. j + 2 \in 1..Len(t) /\ n + (j + 2) = n + j + 1 + 1 /\ j + 2 = j + 1 + 1
        BY <1>2, <3>1
      <4>2. n + j + 1 < Len(u)
        BY <1>1, <1>2, <3>1
      <4> QED
        BY <1>1, <4>1, <4>2
    <3> QED
      BY <3>1 DEF Follows
  <2>7. /\ t[j].op \notin {"SaveMetadata", "SaveSnapshot", "DeleteFrom"}
        /\ t[j].op = "SaveLogEntries" => t[j].recs[1].index = 1
    OBVIOUS
  <2> QED
    BY <2>1, <2>2, <2>3, <2>4, <2>5, <2>6, <2>7 DEF WellFormedAt
<1>5. ASSUME NEW k \in 1..Len(u) PROVE WellFormedAt(u, k)
  <2>1. CASE k \in 1..n
    BY <1>3, <2>1
  <2>2. CASE k > n
    <3>1. PICK j : j = k - n
      OBVIOUS
    <3>2. j \in 1..Len(t) /\ k = n + j
      BY <1>1, <1>2, <2>2, <3>1
    <3> QED
      BY <1>4, <3>2
  <2> QED
    BY <1>2, <2>1, <2>2
<1> QED
  BY <1>1, <1>5 DEF WellFormed, u

\* The steps of CreateCheckpoint.
LEMMA CheckpointSteps ==
  ASSUME store \in StoreType, store.meta # NoTerm, SequentialLog
  PROVE  /\ CreateCheckpoint \in Seq(StepType) /\ WellFormed(CreateCheckpoint)
         /\ CreateCheckpoint # <<>> /\ CreateCheckpoint[1].op = "SaveMetadata"
<1> DEFINE r == [type |-> "meta", index |-> 0, term |-> store.meta]
           m == PersistMetadata(r)
           z == << Step("Sync", <<>>, 0) >>
           l == PersistLogEntries(StoredEntries)
<1>1. r \in MetaRecord
  BY DEF StoreType, MetaRecord
<1> HIDE DEF r
<1>2. /\ m \in Seq(StepType) /\ WellFormed(m)
      /\ Len(m) = 3 /\ m[1].op = "SaveMetadata" /\ m[3].op = "Sync" /\ m # <<>>
  <2>1. m \in Seq(StepType) /\ WellFormed(m)
    BY <1>1, MetadataSteps
  <2>2. Len(m) = 3 /\ m[1].op = "SaveMetadata" /\ m[3].op = "Sync" /\ m # <<>>
    BY DEF PersistMetadata, Step
  <2> QED
    BY <2>1, <2>2
<1>3. /\ z \in Seq(StepType) /\ WellFormed(z) /\ z # <<>> /\ Len(z) = 1
      /\ z[1] = Step("Sync", <<>>, 0) /\ z[1].op = "Sync"
  <2>1. Step("Sync", <<>>, 0) \in StepType /\ Step("Sync", <<>>, 0).op = "Sync"
    <3> DEFINE rs == <<>>
    <3>1. rs \in Seq(Record) /\ 0 \in 0..MaxIndex
      BY PersistenceAssumption
    <3> HIDE DEF rs
    <3>2. Step("Sync", rs, 0) \in StepType /\ Step("Sync", rs, 0).op = "Sync"
      BY <3>1, StepIsStep
    <3> QED
      BY <3>2 DEF rs
  <2>2. z \in Seq(StepType) /\ z # <<>> /\ Len(z) = 1 /\ z[1] = Step("Sync", <<>>, 0)
    BY <2>1
  <2> HIDE DEF z
  <2>3. WellFormedAt(z, 1)
    BY <2>1, <2>2 DEF WellFormedAt
  <2> QED
    BY <2>1, <2>2, <2>3 DEF WellFormed
<1>4. CASE LastIndex = 0
  <2>1. CreateCheckpoint = (m \o <<>>) \o z
    BY <1>4 DEF CreateCheckpoint, r
  <2> HIDE DEF m, z
  <2>2. CreateCheckpoint = m \o z
    BY <1>2, <2>1
  <2>3. \A k \in 1..Len(z) :
          /\ z[k].op \notin {"SaveMetadata", "SaveSnapshot", "DeleteFrom"}
          /\ z[k].op = "SaveLogEntries" => z[k].recs[1].index = 1
    BY <1>3
  <2>4. m \o z \in Seq(StepType) /\ WellFormed(m \o z)
    BY <1>2, <1>3, <2>3, ConcatSteps
  <2>5. m \o z # <<>> /\ (m \o z)[1] = m[1]
    BY <1>2, <1>3
  <2> QED
    BY <1>2, <2>2, <2>4, <2>5
<1>5. CASE LastIndex # 0
  <2>1. CreateCheckpoint = (m \o l) \o z
    BY <1>5 DEF CreateCheckpoint, r
  <2>2. /\ StoredEntries \in Seq(Record)
        /\ Consecutive(StoredEntries) /\ StoredEntries[1].index = 1
    BY <1>5, StoredEntriesType
  <2>3. /\ l \in Seq(StepType) /\ WellFormed(l) /\ Len(l) = 3
        /\ l[1].op = "SaveLogEntries" /\ l[1].recs = StoredEntries
        /\ l[2].op = "AppendBatch" /\ l[3].op = "Sync" /\ l # <<>>
    <3>1. l \in Seq(StepType) /\ WellFormed(l)
      BY <2>2, LogSteps
    <3>2. /\ Len(l) = 3 /\ l[1].op = "SaveLogEntries" /\ l[1].recs = StoredEntries
          /\ l[2].op = "AppendBatch" /\ l[3].op = "Sync" /\ l # <<>>
      BY DEF PersistLogEntries, Step
    <3> QED
      BY <3>1, <3>2
  <2> HIDE DEF m, z, l
  <2>4. \A k \in 1..Len(l) :
          /\ l[k].op \notin {"SaveMetadata", "SaveSnapshot", "DeleteFrom"}
          /\ l[k].op = "SaveLogEntries" => l[k].recs[1].index = 1
    <3>1. \A k \in 1..Len(l) : k = 1 \/ k = 2 \/ k = 3
      BY <2>3
    <3> QED
      BY <2>2, <2>3, <3>1
  <2>5. m \o l \in Seq(StepType) /\ WellFormed(m \o l)
    BY <1>2, <2>3, <2>4, ConcatSteps
  <2>6. Len(m \o l) = 6 /\ (m \o l)[1] = m[1] /\ (m \o l)[6] = l[3]
    <3>1. m \in Seq(StepType) /\ l \in Seq(StepType)
      BY <1>2, <2>3
    <3>2. /\ Len(m \o l) = Len(m) + Len(l)
          /\ \A i \in 1..Len(m) : (m \o l)[i] = m[i]
          /\ \A i \in 1..Len(l) : (m \o l)[Len(m) + i] = l[i]
      BY ONLY <3>1, ConcatElements
    <3>3. Len(m) = 3 /\ Len(l) = 3
      BY <1>2, <2>3
    <3>4. (m \o l)[3 + 3] = l[3]
      BY ONLY <3>2, <3>3
    <3> QED
      BY ONLY <3>2, <3>3, <3>4
  <2>7. PICK u : u = m \o l
    OBVIOUS
  <2>8. /\ u \in Seq(StepType) /\ WellFormed(u) /\ Len(u) = 6 /\ u # <<>>
        /\ u[1].op = "SaveMetadata" /\ u[6].op = "Sync"
    BY <1>2, <2>3, <2>5, <2>6, <2>7
  <2>9. \A k \in 1..Len(z) :
          /\ z[k].op \notin {"SaveMetadata", "SaveSnapshot", "DeleteFrom"}
          /\ z[k].op = "SaveLogEntries" => z[k].recs[1].index = 1
    BY <1>3
  <2>10. u \o z \in Seq(StepType) /\ WellFormed(u \o z)
    BY <1>3, <2>8, <2>9, ConcatSteps
  <2>11. u \o z # <<>> /\ (u \o z)[1] = u[1]
    BY <1>3, <2>8
  <2> QED
    BY <2>1, <2>7, <2>8, <2>10, <2>11
<1> QED
  BY <1>4, <1>5

-----------------------------------------------------------------------------
(* The steps of the calls, and what they do to the abstract log *)

Same == View' = View /\ Covered' = Covered
Added(r) == View' = Append(View, r) /\ Covered' = Covered
Synced == View' = View /\ Covered' = Len(View)
Trimmed(p) == View' = DL!UpTo(View, p) /\ Covered' = Len(View')

\* The state of the calls stays typed when the steps of one of them are replaced.
LEMMA StepsReplaced ==
  ASSUME CallType, NEW c \in Caller, NEW steps \in Seq(StepType), WellFormed(steps),
         todo' = [todo EXCEPT ![c] = steps],
         store' \in StoreType, holder' = {} \/ \E d \in Caller : holder' = {d},
         mixed' \in BOOLEAN, behind' \subseteq AllKeys
  PROVE  /\ CallType' /\ todo'[c] = steps
         /\ \A d \in Caller : d # c => todo'[d] = todo[d]
<1>1. todo \in [Caller -> Seq(StepType)] /\ \A d \in Caller : WellFormed(todo[d])
  BY DEF CallType
<1>2. /\ todo' \in [Caller -> Seq(StepType)] /\ todo'[c] = steps
      /\ \A d \in Caller : d # c => todo'[d] = todo[d]
  BY <1>1
<1>3. \A d \in Caller : WellFormed(todo[d])'
  <2>1. TAKE d \in Caller
  <2>2. CASE d = c
    <3>1. todo'[d] = steps
      BY <1>2, <2>2
    <3> QED
      BY <3>1
  <2>3. CASE d # c
    <3>1. todo'[d] = todo[d] /\ WellFormed(todo[d])
      BY <1>1, <1>2, <2>3
    <3> QED
      BY <3>1
  <2> QED
    BY <2>2, <2>3
<1> QED
  BY <1>2, <1>3 DEF CallType

\* With no steps left there is nothing to order.
LEMMA NoSteps ==
  <<>> \in Seq(StepType) /\ WellFormed(<<>>)
  BY DEF WellFormed

\* A step is about keys of the store.
LEMMA KeysOfStep ==
  ASSUME NEW s \in StepType
  PROVE  Keys(s) \subseteq AllKeys
<1>1. s.recs \in Seq(Record) /\ s.from \in 0..MaxIndex
  BY StepFields
<1>2. \A i \in 1..Len(s.recs) : s.recs[i] \in Record
  BY <1>1
<1>3. \A r \in Record : Key(r) \in AllKeys
  BY DEF Record, LogRecord, MetaRecord, SnapRecord, Key, AllKeys, LogKeysFrom, Index
<1>4. \A n \in 0..MaxIndex : n # 0 => LogKeysFrom(n) \subseteq AllKeys
  BY PersistenceAssumption DEF AllKeys, LogKeysFrom
<1> QED
  BY <1>1, <1>2, <1>3, <1>4 DEF Keys

\* Nobody truncates while the lock is free, or while its holder does something else.
LEMMA NobodyTruncates ==
  ASSUME WalType, CallInv,
         Free \/ \E c \in Caller : holder = {c} /\ ~At(c, "Truncate")
  PROVE  trunc.stage = "no"
  BY DEF WalType, CallInv, TruncateIsHeld, Free

\* A step that leaves the WAL and its lock alone.
LEMMA QuietStep ==
  ASSUME WalInv, CallInv, NEW c \in Caller, UNCHANGED walVars, holder' = holder,
         ~At(c, "Truncate") \/ trunc.stage = "no",
         NEW steps \in Seq(StepType), WellFormed(steps), todo' = [todo EXCEPT ![c] = steps],
         store' \in StoreType, mixed' \in BOOLEAN, behind' \subseteq AllKeys
  PROVE  WalInv' /\ CallInv' /\ Same /\ damaged' = damaged
<1>1. WalInv' /\ Same /\ Written' = Written
  BY DEF WalInv, WalType, WalGood, InOrder, Safe, TruncateStages, Same, View, Covered, Written,
         Rewriting, RecordsOf, walVars
<1>2. /\ CallType' /\ todo'[c] = steps
      /\ \A d \in Caller : d # c => todo'[d] = todo[d]
  <2>1. holder' = {} \/ \E d \in Caller : holder' = {d}
    BY DEF CallInv, CallType
  <2> QED
    BY <2>1, StepsReplaced DEF CallInv
<1>3. TruncateIsHeld'
  <2>1. CASE trunc.stage = "no"
    BY <2>1 DEF TruncateIsHeld, walVars
  <2>2. CASE trunc.stage # "no"
    <3>1. PICK d \in Caller : holder = {d} /\ At(d, "Truncate")
      BY <2>2 DEF CallInv, TruncateIsHeld
    <3>2. d # c /\ todo'[d] = todo[d]
      BY <1>2, <2>2, <3>1
    <3>3. At(d, "Truncate")' /\ holder' = {d}
      BY <3>1, <3>2 DEF At, Idle
    <3>4. (~damaged /\ trunc.stage = "closed") =>
             trunc.keep = DL!UpTo(Written, Head(todo[d]).from - 1)
      BY <3>1 DEF CallInv, TruncateIsHeld
    <3>5. (~damaged' /\ trunc'.stage = "closed") =>
             trunc'.keep = DL!UpTo(Written', Head(todo'[d]).from - 1)
      BY <1>1, <3>2, <3>4 DEF walVars
    <3>6. \A e \in Caller : holder' = {e} => e = d
      BY <3>3
    <3> QED
      BY <3>3, <3>5, <3>6 DEF TruncateIsHeld
  <2> QED
    BY <2>1, <2>2
<1> QED
  BY <1>1, <1>2, <1>3 DEF CallInv, walVars

\* A call begins with a change of the store: metadata, a snapshot, log entries that
\* continue the log or replace its end, or a deletion of what no snapshot covers.
LEMMA BeginSteps ==
  ASSUME store \in StoreType, NEW c \in Caller, BeginCall(c)
  PROVE  \E steps \in Seq(StepType) :
           /\ WellFormed(steps) /\ Begin(c, steps) /\ steps # <<>>
           /\ steps[1].op \in {"SaveMetadata", "SaveSnapshot", "SaveLogEntries", "DeleteFrom"}
           /\ (steps[1].op = "SaveLogEntries" /\ SequentialLog) =>
                steps[1].recs[1].index = 1 \/ store.log[steps[1].recs[1].index - 1] # NoTerm
           /\ steps[1].op = "DeleteFrom" => store.snap.index < steps[1].from
<1>0. /\ LastIndex \in 0..MaxIndex /\ MaxIndex \in Nat \ {0} /\ MaxTerm \in Nat \ {0}
      /\ LastIndex # 0 => store.log[LastIndex] # NoTerm
  BY LastIndexType, PersistenceAssumption
<1>00. store.snap.index \in Index \cup {0} /\ store.meta \in Term \cup {NoTerm}
       /\ \A i \in Index : store.log[i] \in Term \cup {NoTerm}
  BY DEF StoreType
<1>1. CASE BeginMetadata(c)
  <2>1. PICK r \in MetaRecord : Begin(c, PersistMetadata(r))
    BY <1>1 DEF BeginMetadata
  <2>2. PersistMetadata(r) \in Seq(StepType) /\ WellFormed(PersistMetadata(r))
    BY MetadataSteps
  <2>3. PersistMetadata(r) # <<>> /\ PersistMetadata(r)[1].op = "SaveMetadata"
    BY DEF PersistMetadata, Step
  <2> QED
    BY <2>1, <2>2, <2>3
<1>2. CASE BeginLogEntries(c)
  <2>1. PICK from \in 1..(LastIndex + 1), n \in 1..MaxBatch, t \in 1..Max({1, store.meta}) :
               from + n - 1 <= MaxIndex /\ Begin(c, PersistLogEntries(Entries(from, n, t)))
    BY <1>2 DEF BeginLogEntries
  <2>2. t \in Term
    <3>1. {1, store.meta} \subseteq 0..MaxTerm /\ {1, store.meta} # {}
      BY <1>0, <1>00 DEF Term, NoTerm
    <3>2. Max({1, store.meta}) \in {1, store.meta}
      BY <1>0, <3>1, MaxType
    <3> QED
      BY <1>0, <3>1, <3>2 DEF Term
  <2>3. from \in Nat \ {0} /\ n \in Nat \ {0}
    BY <1>0, PersistenceAssumption
  <2>4. PICK rs : rs = Entries(from, n, t)
    OBVIOUS
  <2>5. rs \in Seq(Record) /\ Consecutive(rs) /\ rs[1].index = from
    BY <2>1, <2>2, <2>3, <2>4, EntriesType
  <2>6. PersistLogEntries(rs) \in Seq(StepType) /\ WellFormed(PersistLogEntries(rs))
    BY <2>5, LogSteps
  <2>7. /\ PersistLogEntries(rs) # <<>> /\ PersistLogEntries(rs)[1].op = "SaveLogEntries"
        /\ PersistLogEntries(rs)[1].recs = rs
    BY DEF PersistLogEntries, Step
  <2>8. SequentialLog => from = 1 \/ store.log[from - 1] # NoTerm
    <3>1. SUFFICES ASSUME SequentialLog, from # 1
                   PROVE  store.log[from - 1] # NoTerm
      OBVIOUS
    <3>2. from - 1 \in 1..LastIndex /\ LastIndex # 0 /\ LastIndex \in Index
      BY <1>0, <2>3, <3>1 DEF Index
    <3> QED
      BY <1>0, <3>1, <3>2 DEF SequentialLog
  <2>9. PICK steps : steps = PersistLogEntries(rs)
    OBVIOUS
  <2>10. /\ steps \in Seq(StepType) /\ WellFormed(steps) /\ Begin(c, steps) /\ steps # <<>>
         /\ steps[1].op = "SaveLogEntries" /\ steps[1].recs[1].index = from
    BY <2>1, <2>4, <2>5, <2>6, <2>7, <2>9
  <2> QED
    BY <2>8, <2>10
<1>3. CASE BeginDelete(c)
  <2>1. PICK index \in (store.snap.index + 1)..LastIndex : Begin(c, DeleteLogEntriesFrom(index))
    BY <1>3 DEF BeginDelete
  <2>2. index \in Index /\ store.snap.index < index
    BY <1>0, <1>00 DEF Index
  <2>3. /\ DeleteLogEntriesFrom(index) \in Seq(StepType)
        /\ WellFormed(DeleteLogEntriesFrom(index))
    BY <2>2, DeleteSteps
  <2>4. /\ DeleteLogEntriesFrom(index) # <<>> /\ DeleteLogEntriesFrom(index)[1].op = "DeleteFrom"
        /\ DeleteLogEntriesFrom(index)[1].from = index
    BY DEF DeleteLogEntriesFrom, Step
  <2> QED
    BY <2>1, <2>2, <2>3, <2>4
<1>4. CASE BeginSnapshot(c)
  <2>1. PICK index \in (store.snap.index + 1)..LastIndex :
               /\ store.log[index] # NoTerm
               /\ Begin(c, PersistSnapshot([type |-> "snap", index |-> index,
                                            term |-> store.log[index]]))
    BY <1>4 DEF BeginSnapshot
  <2>2. index \in Index
    BY <1>0, <1>00 DEF Index
  <2>3. PICK r : r = [type |-> "snap", index |-> index, term |-> store.log[index]]
    OBVIOUS
  <2>4. r \in SnapRecord
    BY <1>00, <2>1, <2>2, <2>3 DEF SnapRecord
  <2>5. PersistSnapshot(r) \in Seq(StepType) /\ WellFormed(PersistSnapshot(r))
    BY <2>4, SnapshotSteps
  <2>6. PersistSnapshot(r) # <<>> /\ PersistSnapshot(r)[1].op = "SaveSnapshot"
    BY DEF PersistSnapshot, Step
  <2> QED
    BY <2>1, <2>3, <2>5, <2>6
<1>5. CASE BeginCheckpoint(c)
  <2>1. store.meta # NoTerm /\ SequentialLog /\ Begin(c, CreateCheckpoint)
    BY <1>5 DEF BeginCheckpoint
  <2>2. /\ CreateCheckpoint \in Seq(StepType) /\ WellFormed(CreateCheckpoint)
        /\ CreateCheckpoint # <<>> /\ CreateCheckpoint[1].op = "SaveMetadata"
    BY <2>1, CheckpointSteps
  <2> QED
    BY <2>1, <2>2
<1> QED
  BY <1>1, <1>2, <1>3, <1>4, <1>5 DEF BeginCall

\* The beginning of a call.
LEMMA BeginEffect ==
  ASSUME WalInv, CallInv, NEW c \in Caller,
         NEW steps \in Seq(StepType), WellFormed(steps), Begin(c, steps)
  PROVE  /\ WalInv' /\ CallInv' /\ Same /\ damaged' = damaged
         /\ todo'[c] = steps /\ \A d \in Caller : d # c => todo'[d] = todo[d]
<1>1. /\ UNCHANGED walVars /\ holder' = holder /\ ~At(c, "Truncate")
      /\ todo' = [todo EXCEPT ![c] = steps]
  BY DEF Begin, At
<1>2. store' \in StoreType /\ mixed' \in BOOLEAN /\ behind' \subseteq AllKeys
  BY DEF Begin, CallInv, CallType
<1>3. WalInv' /\ CallInv' /\ Same /\ damaged' = damaged
  BY <1>1, <1>2, QuietStep
<1>4. todo'[c] = steps /\ \A d \in Caller : d # c => todo'[d] = todo[d]
  BY <1>1 DEF CallInv, CallType
<1> QED
  BY <1>3, <1>4

\* What SaveLogEntries makes of the log: the entries of the batch at their indices, and
\* what was there before at the others.
LEMMA PutEffect ==
  ASSUME NEW log \in [Index -> Term \cup {NoTerm}], NEW recs \in Seq(Record), Consecutive(recs)
  PROVE  /\ Put(log, recs) \in [Index -> Term \cup {NoTerm}]
         /\ \A k \in 1..Len(recs) : recs[k].index \in Index /\ Put(log, recs)[recs[k].index] = recs[k].term
         /\ \A i \in Index : (\A k \in 1..Len(recs) : recs[k].index # i) => Put(log, recs)[i] = log[i]
<1> DEFINE at(i) == {k \in 1..Len(recs) : recs[k].index = i}
<1>1. Len(recs) \in Nat
  OBVIOUS
<1>2. \A k \in 1..Len(recs) : /\ recs[k] \in LogRecord /\ recs[k].index = recs[1].index + k - 1
                              /\ recs[k].index \in Index /\ recs[k].term \in Term
                              /\ recs[1].index \in Index
  BY DEF Consecutive, LogRecord
<1>3. \A i \in Index : at(i) # {} => Max(at(i)) \in at(i)
  <2>1. TAKE i \in Index
  <2>2. at(i) \subseteq 0..Len(recs)
    BY <1>1
  <2> HIDE DEF at
  <2> QED
    BY <1>1, <2>2, MaxType
<1>4. \A i \in Index : Put(log, recs)[i] = IF at(i) = {} THEN log[i] ELSE recs[Max(at(i))].term
  BY DEF Put
<1>5. \A i \in Index : Put(log, recs)[i] \in Term \cup {NoTerm}
  BY <1>2, <1>3, <1>4
<1>6. Put(log, recs) \in [Index -> Term \cup {NoTerm}]
  <2>1. Put(log, recs) = [i \in Index |-> Put(log, recs)[i]]
    BY DEF Put
  <2> QED
    BY <1>5, <2>1
<1>7. ASSUME NEW k \in 1..Len(recs)
      PROVE  Put(log, recs)[recs[k].index] = recs[k].term
  <2>1. k \in at(recs[k].index) /\ recs[k].index \in Index
    BY <1>2
  <2>2. PICK m : m = Max(at(recs[k].index))
    OBVIOUS
  <2>3. m \in 1..Len(recs) /\ recs[m].index = recs[k].index
    BY <1>3, <2>1, <2>2
  <2>4. m = k
    BY <1>1, <1>2, <2>3 DEF Index
  <2> QED
    BY <1>4, <2>1, <2>2, <2>4
<1>8. \A i \in Index : (\A k \in 1..Len(recs) : recs[k].index # i) => Put(log, recs)[i] = log[i]
  BY <1>4
<1> QED
  BY <1>2, <1>6, <1>7, <1>8

\* A change of the store.
LEMMA InStoreEffect ==
  ASSUME WalInv, CallInv, NEW c \in Caller, NEW op, op # "Truncate",
         NEW s \in StoreType, InStore(c, op, s)
  PROVE  WalInv' /\ CallInv' /\ Same /\ damaged' = damaged
<1>1. /\ At(c, op) /\ UNCHANGED <<walVars, holder, mixed>>
      /\ todo' = [todo EXCEPT ![c] = Tail(todo[c])] /\ store' = s
      /\ behind' = behind \cup Keys(Head(todo[c]))
  BY DEF InStore, Done
<1>2. ~Idle(c) /\ ~At(c, "Truncate")
  BY <1>1 DEF At
<1>3. CallType
  BY DEF CallInv
<1>4. /\ Tail(todo[c]) \in Seq(StepType) /\ WellFormed(Tail(todo[c]))
      /\ Head(todo[c]) \in StepType
  BY <1>2, <1>3, HeadStep
<1>5. mixed' \in BOOLEAN /\ behind' \subseteq AllKeys
  <2>1. Keys(Head(todo[c])) \subseteq AllKeys
    BY <1>4, KeysOfStep
  <2> QED
    BY <1>1, <1>3, <2>1 DEF CallType
<1> QED
  BY <1>1, <1>2, <1>4, <1>5, QuietStep

\* The stores that the four transactions leave.
LEMMA StoreSteps ==
  ASSUME CallType, NEW c \in Caller, ~Idle(c)
  PROVE  /\ SaveMetadata(c) => [store EXCEPT !.meta = Head(todo[c]).recs[1].term] \in StoreType
         /\ SaveLogEntries(c) => [store EXCEPT !.log = Put(@, Head(todo[c]).recs)] \in StoreType
         /\ DeleteFrom(c) => [store EXCEPT !.log = Without(@, Head(todo[c]).from)] \in StoreType
         /\ SaveSnapshot(c) =>
              [store EXCEPT !.snap = [index |-> Head(todo[c]).recs[1].index,
                                      term |-> Head(todo[c]).recs[1].term]] \in StoreType
<1> DEFINE h == Head(todo[c])
<1>1. /\ h.op = "SaveMetadata" => h.recs[1] \in MetaRecord
      /\ h.op = "SaveSnapshot" => h.recs[1] \in SnapRecord
      /\ h.op = "SaveLogEntries" => Consecutive(h.recs)
  BY HeadShape
<1>2. h.recs \in Seq(Record)
  BY HeadStep
<1> HIDE DEF h
<1>3. store \in StoreType /\ store.log \in [Index -> Term \cup {NoTerm}]
  BY DEF CallType, StoreType
<1>4. h.op = "SaveMetadata" => [store EXCEPT !.meta = h.recs[1].term] \in StoreType
  BY <1>1, <1>3 DEF StoreType, MetaRecord
<1>5. h.op = "SaveLogEntries" => [store EXCEPT !.log = Put(@, h.recs)] \in StoreType
  <2>1. h.op = "SaveLogEntries" => Put(store.log, h.recs) \in [Index -> Term \cup {NoTerm}]
    BY <1>1, <1>2, <1>3, PutEffect
  <2> QED
    BY <1>3, <2>1 DEF StoreType
<1>6. [store EXCEPT !.log = Without(@, h.from)] \in StoreType
  BY <1>3 DEF StoreType, Without
<1>7. h.op = "SaveSnapshot" =>
        [store EXCEPT !.snap = [index |-> h.recs[1].index, term |-> h.recs[1].term]] \in StoreType
  BY <1>1, <1>3 DEF StoreType, SnapRecord
<1> QED
  BY <1>4, <1>5, <1>6, <1>7 DEF SaveMetadata, SaveLogEntries, DeleteFrom, SaveSnapshot, InStore,
                                At, h

\* The transactions, and the errors of them.
LEMMA StoreStepEffect ==
  ASSUME WalInv, CallInv, NEW c \in Caller,
         SaveMetadata(c) \/ SaveLogEntries(c) \/ DeleteFrom(c) \/ SaveSnapshot(c) \/ StoreFails(c)
  PROVE  WalInv' /\ CallInv' /\ Same /\ damaged' = damaged
<1>1. ~Idle(c) /\ CallType
  BY DEF SaveMetadata, SaveLogEntries, DeleteFrom, SaveSnapshot, StoreFails, InStore, At, CallInv
<1>2. CASE SaveMetadata(c)
  BY <1>1, <1>2, StoreSteps, InStoreEffect DEF SaveMetadata
<1>3. CASE SaveLogEntries(c)
  BY <1>1, <1>3, StoreSteps, InStoreEffect DEF SaveLogEntries
<1>4. CASE DeleteFrom(c)
  BY <1>1, <1>4, StoreSteps, InStoreEffect DEF DeleteFrom
<1>5. CASE SaveSnapshot(c)
  BY <1>1, <1>5, StoreSteps, InStoreEffect DEF SaveSnapshot
<1>6. CASE StoreFails(c)
  <2>1. /\ UNCHANGED walVars /\ holder' = holder /\ ~At(c, "Truncate")
        /\ todo' = [todo EXCEPT ![c] = <<>>]
        /\ store' = store /\ mixed' = mixed /\ behind' = behind
    BY <1>6 DEF StoreFails, Return, historyVars, At
  <2>2. store' \in StoreType /\ mixed' \in BOOLEAN /\ behind' \subseteq AllKeys
    BY <1>1, <2>1 DEF CallType
  <2> QED
    BY <2>1, <2>2, NoSteps, QuietStep
<1> QED
  BY <1>2, <1>3, <1>4, <1>5, <1>6

\* Where a step of the WAL leaves the state of the calls.
LEMMA CallStaysTyped ==
  ASSUME CallType, NEW c \in Caller, ~Idle(c),
         \/ Done(c) \/ Return(c) \/ todo' = todo,
         store' = store, mixed' = mixed, behind' \subseteq AllKeys,
         holder' = {} \/ holder' = {c} \/ holder' = holder
  PROVE  CallType'
<1>1. /\ Tail(todo[c]) \in Seq(StepType) /\ WellFormed(Tail(todo[c]))
      /\ todo[c] \in Seq(StepType) /\ WellFormed(todo[c])
  BY HeadStep
<1>2. /\ store' \in StoreType /\ mixed' \in BOOLEAN
      /\ holder' = {} \/ \E d \in Caller : holder' = {d}
  BY DEF CallType
<1>3. CASE Done(c)
  BY <1>1, <1>2, <1>3, StepsReplaced DEF Done
<1>4. CASE Return(c)
  BY <1>2, <1>4, NoSteps, StepsReplaced DEF Return
<1>5. CASE todo' = todo
  <2>1. todo' = [todo EXCEPT ![c] = todo[c]]
    BY <1>5 DEF CallType
  <2> QED
    BY <1>1, <1>2, <2>1, StepsReplaced
<1> QED
  BY <1>3, <1>4, <1>5

\* With nobody truncating there is nothing to hold the lock for.
LEMMA NothingHeld ==
  ASSUME trunc'.stage = "no"
  PROVE  TruncateIsHeld'
  BY DEF TruncateIsHeld

\* The Append of a call appends its record.
LEMMA WalAppendEffect ==
  ASSUME WalInv, CallInv, NEW c \in Caller, WalAppend(c)
  PROVE  /\ WalInv' /\ CallInv' /\ damaged' = damaged /\ trunc'.stage = "no"
         /\ Head(todo[c]).recs[1] \in Record
         /\ ~damaged => Added(Head(todo[c]).recs[1])
<1>1. /\ At(c, "Append") /\ Free /\ Done(c) /\ trunc' = trunc /\ holder' = holder
      /\ store' = store /\ mixed' = mixed /\ behind' = behind
      /\ appendEntry(Head(todo[c]).recs[1])
  BY DEF WalAppend, OnlyWal, historyVars
<1>2. WalType /\ (~damaged => WalGood) /\ CallType /\ ~Idle(c) /\ behind' \subseteq AllKeys
  BY <1>1 DEF WalInv, CallInv, At, CallType
<1>3. trunc.stage = "no"
  BY <1>1, <1>2, NobodyTruncates
<1>4. PICK r : r = Head(todo[c]).recs[1]
  OBVIOUS
<1>5. r \in Record
  <2>1. Head(todo[c]).recs \in Seq(Record)
    BY <1>2, HeadStep
  <2>2. Len(Head(todo[c]).recs) = 1
    BY <1>1, <1>2, HeadShape DEF At
  <2> QED
    BY <1>4, <2>1, <2>2
<1>6. trunc' \in [stage : {"no", "closed", "removing", "rewriting"}, keep : Seq(Record), done : Nat]
  BY <1>1, <1>2 DEF WalType
<1>7. WalType' /\ damaged' = damaged
  BY <1>1, <1>2, <1>4, <1>5, <1>6, AppendType DEF appendEntry
<1>8. ~damaged => WalGood' /\ Added(r)
  BY <1>1, <1>2, <1>3, <1>4, <1>5, AppendRefines DEF Added
<1>9. CallType' /\ TruncateIsHeld'
  BY <1>1, <1>2, <1>3, CallStaysTyped, NothingHeld
<1> QED
  BY <1>1, <1>3, <1>4, <1>5, <1>7, <1>8, <1>9 DEF WalInv, CallInv

FirstRecs(steps, recs) == [steps EXCEPT ![1].recs = recs]

\* The steps that are left of a batch, when its first record is taken off.
LEMMA BatchSteps ==
  ASSUME NEW steps \in Seq(StepType), WellFormed(steps), steps # <<>>,
         steps[1].op = "AppendBatch", NEW recs \in Seq(Record),
         NEW t, t = FirstRecs(steps, recs)
  PROVE  /\ t \in Seq(StepType) /\ WellFormed(t) /\ t # <<>> /\ Len(t) = Len(steps)
         /\ t[1].op = "AppendBatch" /\ t[1].recs = recs
         /\ \A k \in 2..Len(steps) : t[k] = steps[k]
<1>1. Len(steps) \in Nat \ {0} /\ 1 \in 1..Len(steps) /\ steps[1] \in StepType
  OBVIOUS
<1>2. PICK first : first = [steps[1] EXCEPT !.recs = recs]
  OBVIOUS
<1>3. /\ first \in StepType /\ first.op = "AppendBatch" /\ first.recs = recs
      /\ first.from = steps[1].from
  BY <1>1, <1>2 DEF StepType
<1>5. t = [steps EXCEPT ![1] = first]
  BY <1>2 DEF FirstRecs
<1>6. /\ t \in Seq(StepType) /\ Len(t) = Len(steps) /\ t[1] = first /\ t # <<>>
      /\ \A k \in 2..Len(steps) : t[k] = steps[k]
  BY <1>1, <1>3, <1>5
<1>7. WellFormed(t)
  <2>1. SUFFICES ASSUME NEW k \in 1..Len(t)
                 PROVE  WellFormedAt(t, k)
    BY DEF WellFormed
  <2>2. k \in 1..Len(steps) /\ (k = 1 \/ k > 1) /\ WellFormedAt(steps, k) /\ WellFormedAt(steps, 1)
    BY <1>1, <1>6 DEF WellFormed
  <2>3. CASE k = 1
    <3>1. /\ steps[1].from = 0 /\ 1 < Len(steps) /\ steps[2].op = "Sync" /\ steps[2].from = 0
      BY <1>1, <2>2 DEF WellFormedAt
    <3>2. t[2] = steps[2]
      BY <1>1, <1>6, <3>1
    <3> QED
      BY <1>3, <1>6, <2>3, <3>1, <3>2 DEF WellFormedAt
  <2>4. CASE k > 1
    <3>1. t[k] = steps[k] /\ k \in Nat
      BY <1>1, <1>6, <2>2, <2>4
    <3>2. \A j \in k..Len(t) : t[j] = steps[j]
      BY <1>1, <1>6, <2>2, <2>4
    <3>3. \A s : /\ Follows(steps, k, s) => Follows(t, k, s)
                 /\ Follows(steps, k + 1, s) => Follows(t, k + 1, s)
      BY <1>1, <1>6, <3>1, <3>2 DEF Follows
    <3>4. k < Len(steps) => k < Len(t) /\ t[k + 1] = steps[k + 1]
      BY <1>1, <1>6, <3>1, <3>2
    <3>5. Len(t) = Len(steps)
      BY <1>6
    <3> QED
      BY ONLY <2>2, <3>1, <3>3, <3>4, <3>5 DEF WellFormedAt
  <2> QED
    BY <2>2, <2>3, <2>4
<1> QED
  BY <1>3, <1>6, <1>7

\* A record of a batch.
LEMMA BatchAppendEffect ==
  ASSUME WalInv, CallInv, NEW c \in Caller, BatchAppend(c)
  PROVE  /\ WalInv' /\ CallInv' /\ damaged' = damaged /\ trunc'.stage = "no"
         /\ Head(todo[c]).recs[1] \in Record /\ todo[c] # <<>>
         /\ todo'[c] # <<>> /\ Len(todo'[c]) = Len(todo[c])
         /\ todo'[c][1].op = "AppendBatch" /\ todo'[c][1].recs = Tail(Head(todo[c]).recs)
         /\ \A k \in 2..Len(todo[c]) : todo'[c][k] = todo[c][k]
         /\ \A d \in Caller : d # c => todo'[d] = todo[d]
         /\ ~damaged => Added(Head(todo[c]).recs[1])
<1>1. PICK recs : recs = Head(todo[c]).recs
  OBVIOUS
<1>2. /\ At(c, "AppendBatch") /\ (Free \/ holder = {c}) /\ trunc' = trunc /\ holder' = {c}
      /\ store' = store /\ mixed' = mixed /\ behind' = behind
      /\ recs # <<>> /\ appendEntry(Head(recs))
      /\ todo' = [todo EXCEPT ![c][1].recs = Tail(recs)]
  BY <1>1 DEF BatchAppend, OnlyWal, historyVars, Lock
<1>3. /\ WalType /\ (~damaged => WalGood) /\ CallType /\ ~Idle(c) /\ behind' \subseteq AllKeys
      /\ ~At(c, "Truncate")
  BY <1>2 DEF WalInv, CallInv, At, CallType
<1>4. trunc.stage = "no"
  BY <1>2, <1>3, NobodyTruncates
<1>5. /\ todo[c] \in Seq(StepType) /\ WellFormed(todo[c]) /\ todo[c] # <<>>
      /\ todo[c][1].op = "AppendBatch" /\ recs \in Seq(Record)
  BY <1>1, <1>2, <1>3, HeadStep DEF At
<1>6. Head(recs) \in Record /\ Head(recs) = recs[1] /\ Tail(recs) \in Seq(Record)
  BY <1>2, <1>5
<1>7. PICK r : r = Head(recs)
  OBVIOUS
<1>8. trunc' \in [stage : {"no", "closed", "removing", "rewriting"}, keep : Seq(Record), done : Nat]
  BY <1>2, <1>3 DEF WalType
<1>9. WalType' /\ damaged' = damaged
  BY <1>2, <1>3, <1>6, <1>7, <1>8, AppendType DEF appendEntry
<1>10. ~damaged => WalGood' /\ Added(r)
  BY <1>2, <1>3, <1>4, <1>6, <1>7, AppendRefines DEF Added
<1>11. PICK steps : steps = [todo[c] EXCEPT ![1].recs = Tail(recs)]
  OBVIOUS
<1>12. /\ steps \in Seq(StepType) /\ WellFormed(steps) /\ steps # <<>>
       /\ Len(steps) = Len(todo[c])
       /\ steps[1].op = "AppendBatch" /\ steps[1].recs = Tail(recs)
       /\ \A k \in 2..Len(todo[c]) : steps[k] = todo[c][k]
  <2>1. PICK old, rest : old = todo[c] /\ rest = Tail(recs)
    OBVIOUS
  <2>2. /\ old \in Seq(StepType) /\ WellFormed(old) /\ old # <<>> /\ old[1].op = "AppendBatch"
        /\ rest \in Seq(Record) /\ steps = FirstRecs(old, rest)
    BY <1>5, <1>6, <1>11, <2>1 DEF FirstRecs
  <2>3. /\ steps \in Seq(StepType) /\ WellFormed(steps) /\ steps # <<>>
        /\ Len(steps) = Len(old)
        /\ steps[1].op = "AppendBatch" /\ steps[1].recs = rest
        /\ \A k \in 2..Len(old) : steps[k] = old[k]
    BY ONLY <2>2, BatchSteps
  <2> QED
    BY <2>1, <2>3
<1>13. todo' = [todo EXCEPT ![c] = steps]
  BY <1>2, <1>11
<1>14. /\ store' \in StoreType /\ mixed' \in BOOLEAN
       /\ holder' = {} \/ \E d \in Caller : holder' = {d}
  BY <1>2, <1>3 DEF CallType
<1>15. /\ CallType' /\ todo'[c] = steps /\ \A d \in Caller : d # c => todo'[d] = todo[d]
  BY <1>3, <1>12, <1>13, <1>14, StepsReplaced
<1>16. TruncateIsHeld' /\ trunc'.stage = "no"
  BY <1>2, <1>4, NothingHeld
<1> QED
  BY <1>1, <1>5, <1>6, <1>7, <1>9, <1>10, <1>12, <1>15, <1>16 DEF WalInv, CallInv

\* The Sync that ends a batch, and the one that ends a call.
LEMMA SyncStepEffect ==
  ASSUME WalInv, CallInv, NEW c \in Caller, BatchSync(c) \/ WalSync(c)
  PROVE  /\ WalInv' /\ CallInv' /\ damaged' = damaged /\ trunc'.stage = "no"
         /\ ~damaged => Synced /\ buffer' = <<>>
<1>1. /\ sync /\ trunc' = trunc /\ Done(c) /\ store' = store /\ mixed' = mixed
      /\ ~Idle(c) /\ ~At(c, "Truncate") /\ (Free \/ holder = {c})
      /\ holder' = {} \/ holder' = holder
  BY DEF BatchSync, WalSync, OnlyWal, historyVars, Unlock, At
<1>2. behind' \subseteq behind
  BY DEF BatchSync, WalSync, OnlyWal, historyVars
<1>3. WalType /\ (~damaged => WalGood) /\ CallType /\ behind' \subseteq AllKeys
  BY <1>2 DEF WalInv, CallInv, CallType
<1>4. trunc.stage = "no"
  BY <1>1, <1>3, NobodyTruncates
<1>5. WalType' /\ damaged' = damaged
  BY <1>1, <1>3, SyncRefines
<1>6. ~damaged => WalGood' /\ Synced /\ buffer' = <<>>
  BY <1>1, <1>3, <1>4, SyncRefines DEF Synced
<1>7. CallType' /\ TruncateIsHeld'
  BY <1>1, <1>3, <1>4, CallStaysTyped, NothingHeld
<1> QED
  BY <1>1, <1>4, <1>5, <1>6, <1>7 DEF WalInv, CallInv

\* The errors of the WAL leave a log that no longer keeps its promise.
LEMMA FailEffect ==
  ASSUME WalInv, CallInv, NEW c \in Caller, AppendFails(c) \/ TruncateFails(c)
  PROVE  WalInv' /\ CallInv' /\ damaged'
<1>1. WalType /\ CallType
  BY DEF WalInv, CallInv
<1>2. CASE AppendFails(c)
  <2>1. /\ RotateFails /\ trunc' = trunc /\ Return(c) /\ holder' = {}
        /\ store' = store /\ mixed' = mixed /\ behind' = behind
        /\ ~Idle(c) /\ ~At(c, "Truncate") /\ (Free \/ holder = {c})
    BY <1>2 DEF AppendFails, Unlock, historyVars, At
  <2>2. WalType' /\ damaged'
    BY <1>1, <2>1, FailType
  <2>3. trunc'.stage = "no"
    BY <1>1, <2>1, NobodyTruncates
  <2>4. behind' \subseteq AllKeys
    BY <1>1, <2>1 DEF CallType
  <2>5. CallType' /\ TruncateIsHeld'
    BY <1>1, <2>1, <2>3, <2>4, CallStaysTyped, NothingHeld
  <2> QED
    BY <2>2, <2>5 DEF WalInv, CallInv
<1>3. CASE TruncateFails(c)
  <2>1. /\ RemoveFails \/ RecreateFails \/ RewriteFails
        /\ Return(c) /\ holder' = {} /\ ~Idle(c)
        /\ store' = store /\ mixed' = mixed /\ behind' = behind
    BY <1>3 DEF TruncateFails, Unlock, historyVars, At
  <2>2. WalType' /\ damaged'
    BY <1>1, <2>1, FailType
  <2>3. trunc'.stage = "no"
    BY <2>1 DEF RemoveFails, RecreateFails, RewriteFails, NotTruncating
  <2>4. behind' \subseteq AllKeys
    BY <1>1, <2>1 DEF CallType
  <2>5. CallType' /\ TruncateIsHeld'
    BY <1>1, <2>1, <2>3, <2>4, CallStaysTyped, NothingHeld
  <2> QED
    BY <2>2, <2>5 DEF WalInv, CallInv
<1> QED
  BY <1>2, <1>3

\* Truncate reads and closes the files: the log is the same one.
LEMMA TruncateBeginEffect ==
  ASSUME WalInv, CallInv, NEW c \in Caller, TruncateBegin(c)
  PROVE  /\ WalInv' /\ CallInv' /\ (damaged => damaged') /\ trunc'.stage = "closed"
         /\ ~damaged' => Same /\ buffer' = <<>>
<1>1. /\ At(c, "Truncate") /\ TruncateRead(Head(todo[c]).from - 1) /\ holder' = {c}
      /\ todo' = todo /\ store' = store /\ mixed' = mixed /\ behind' = behind
  BY DEF TruncateBegin, Lock, OnlyWal, historyVars
<1>2. WalType /\ (~damaged => WalGood) /\ CallType /\ ~Idle(c) /\ behind' \subseteq AllKeys
  BY <1>1 DEF WalInv, CallInv, At, CallType
<1>3. PICK p : p = Head(todo[c]).from - 1
  OBVIOUS
<1>4. WalType' /\ trunc'.stage = "closed" /\ (damaged => damaged')
  BY <1>1, <1>2, <1>3, TruncateReadRefines
<1>5. ~damaged' => ~damaged /\ WalGood
  BY <1>2, <1>4 DEF WalType
<1>6. ~damaged' => /\ WalGood' /\ Same /\ buffer' = <<>> /\ Written' = Written
                   /\ trunc'.keep = DL!UpTo(Written, p)
  BY <1>1, <1>2, <1>3, <1>5, TruncateReadRefines DEF Same
<1>7. CallType'
  BY <1>1, <1>2, CallStaysTyped
<1>8. TruncateIsHeld'
  <2>1. At(c, "Truncate")' /\ holder' = {c}
    BY <1>1 DEF At, Idle
  <2>2. \A d \in Caller : holder' = {d} => d = c
    BY <2>1
  <2>3. ~damaged' => trunc'.keep = DL!UpTo(Written', Head(todo'[c]).from - 1)
    BY <1>1, <1>3, <1>6
  <2> QED
    BY <2>1, <2>2, <2>3 DEF TruncateIsHeld
<1> QED
  BY <1>4, <1>6, <1>7, <1>8 DEF WalInv, CallInv

\* A Truncate that cannot read the files returns and changes nothing.
LEMMA TruncateUnreadableEffect ==
  ASSUME WalInv, CallInv, NEW c \in Caller, TruncateUnreadable(c)
  PROVE  WalInv' /\ CallInv' /\ Same /\ damaged' = damaged
<1>1. /\ UNCHANGED walVars /\ holder' = holder /\ Free
      /\ todo' = [todo EXCEPT ![c] = <<>>]
      /\ store' = store /\ mixed' = mixed /\ behind' = behind
  BY DEF TruncateUnreadable, Return, OnlyWal, historyVars
<1>2. store' \in StoreType /\ mixed' \in BOOLEAN /\ behind' \subseteq AllKeys /\ WalType
  BY <1>1 DEF CallInv, CallType, WalInv
<1>3. trunc.stage = "no"
  BY <1>1, <1>2, NobodyTruncates
<1> QED
  BY <1>1, <1>2, <1>3, NoSteps, QuietStep

\* Truncate takes effect when it removes the first segment; what it does after that
\* changes the log no more.
LEMMA TruncateStepEffect ==
  ASSUME WalInv, CallInv, NEW c \in Caller, TruncateStep(c)
  PROVE  /\ WalInv' /\ CallInv' /\ damaged' = damaged
         /\ trunc'.stage \in {"removing", "rewriting"}
         /\ (~damaged /\ trunc.stage = "closed") => Trimmed(Head(todo[c]).from - 1) /\ buffer' = <<>>
         /\ (~damaged /\ trunc.stage # "closed") => Same
         /\ ~damaged => (buffer' = <<>> \/ trunc'.stage = "rewriting")
<1>1. /\ At(c, "Truncate") /\ holder = {c} /\ holder' = holder
      /\ RemoveSegment \/ RecreateSegment \/ RewriteRecord
      /\ todo' = todo /\ store' = store /\ mixed' = mixed /\ behind' = behind
  BY DEF TruncateStep, OnlyWal, historyVars
<1>2. /\ WalType /\ (~damaged => WalGood) /\ CallType /\ TruncateIsHeld
      /\ ~Idle(c) /\ behind' \subseteq AllKeys
  BY <1>1 DEF WalInv, CallInv, At, CallType
<1>3. CallType'
  BY <1>1, <1>2, CallStaysTyped
<1>4. At(c, "Truncate")' /\ holder' = {c}
  BY <1>1 DEF At, Idle
<1>5. CASE RemoveSegment
  <2>1. /\ WalType' /\ damaged' = damaged /\ buffer' = buffer
        /\ trunc.stage # "no" /\ trunc'.stage = "removing"
        /\ View' = trunc.keep /\ Covered' = Len(View') /\ (WalGood => WalGood')
    BY <1>2, <1>5, RemoveRefines
  <2>2. trunc.stage \in {"closed", "removing"}
    BY <1>5 DEF RemoveSegment
  <2>3. ~damaged => buffer = <<>>
    BY <1>2, <2>2 DEF WalGood, TruncateStages
  <2>4. (~damaged /\ trunc.stage = "closed") => Trimmed(Head(todo[c]).from - 1)
    <3>1. SUFFICES ASSUME ~damaged, trunc.stage = "closed"
                   PROVE  Trimmed(Head(todo[c]).from - 1)
      OBVIOUS
    <3>2. trunc.keep = DL!UpTo(Written, Head(todo[c]).from - 1)
      BY <1>1, <1>2, <3>1 DEF TruncateIsHeld
    <3>3. View = Written
      BY <3>1 DEF View, Rewriting
    <3> QED
      BY <2>1, <3>2, <3>3 DEF Trimmed
  <2>5. trunc.stage # "closed" => Same
    <3>1. SUFFICES ASSUME trunc.stage # "closed"
                   PROVE  Same
      OBVIOUS
    <3>2. View = trunc.keep /\ Covered = Len(View)
      BY <2>2, <3>1 DEF View, Covered, Rewriting
    <3> QED
      BY <2>1, <3>2 DEF Same
  <2>6. TruncateIsHeld'
    BY <1>4, <2>1 DEF TruncateIsHeld
  <2> QED
    BY <1>2, <1>3, <2>1, <2>3, <2>4, <2>5, <2>6 DEF WalInv, CallInv
<1>6. CASE RecreateSegment
  <2>1. /\ WalType' /\ damaged' = damaged /\ Same
        /\ trunc.stage = "removing" /\ trunc'.stage = "rewriting" /\ (WalGood => WalGood')
    BY <1>2, <1>6, RecreateRefines DEF Same
  <2>2. TruncateIsHeld'
    BY <1>4, <2>1 DEF TruncateIsHeld
  <2> QED
    BY <1>2, <1>3, <2>1, <2>2 DEF WalInv, CallInv
<1>7. CASE RewriteRecord
  <2>1. /\ WalType' /\ damaged' = damaged /\ trunc'.stage = "rewriting"
        /\ (WalGood => WalGood' /\ Same)
    BY <1>2, <1>7, RewriteRefines DEF Same
  <2>2. trunc.stage = "rewriting"
    BY <1>7 DEF RewriteRecord
  <2>3. TruncateIsHeld'
    BY <1>4, <2>1 DEF TruncateIsHeld
  <2> QED
    BY <1>2, <1>3, <2>1, <2>2, <2>3 DEF WalInv, CallInv
<1> QED
  BY <1>1, <1>5, <1>6, <1>7

\* The Sync that ends a Truncate.
LEMMA TruncateEndEffect ==
  ASSUME WalInv, CallInv, NEW c \in Caller, TruncateEnd(c)
  PROVE  /\ WalInv' /\ CallInv' /\ damaged' = damaged
         /\ trunc.stage = "rewriting" /\ trunc'.stage = "no"
         /\ ~damaged => Same /\ buffer' = <<>>
<1>1. /\ At(c, "Truncate") /\ TruncateSync /\ Done(c) /\ holder' = {}
      /\ store' = store /\ mixed' = mixed /\ behind' = behind
  BY DEF TruncateEnd, Unlock, OnlyWal, historyVars
<1>2. WalType /\ (~damaged => WalGood) /\ CallType /\ ~Idle(c) /\ behind' \subseteq AllKeys
  BY <1>1 DEF WalInv, CallInv, At, CallType
<1>3. /\ WalType' /\ damaged' = damaged /\ trunc'.stage = "no"
      /\ WalGood => WalGood' /\ Same /\ buffer' = <<>>
  BY <1>1, <1>2, TruncateSyncRefines DEF Same
<1>4. trunc.stage = "rewriting"
  BY <1>1 DEF TruncateSync
<1>5. CallType' /\ TruncateIsHeld'
  BY <1>1, <1>2, <1>3, CallStaysTyped, NothingHeld
<1> QED
  BY <1>2, <1>3, <1>4, <1>5 DEF WalInv, CallInv

\* After a restart no call is under way.
LEMMA RestartedCalls ==
  ASSUME CallType, Restarted, trunc'.stage = "no"
  PROVE  CallInv' /\ \A c \in Caller : Idle(c)'
<1>1. /\ todo' = [c \in Caller |-> <<>>] /\ holder' = {}
      /\ store' = store /\ mixed' = mixed /\ behind' = behind
  BY DEF Restarted, historyVars
<1>2. PICK none : none = <<>>
  OBVIOUS
<1>3. none \in Seq(StepType) /\ WellFormed(none)
  BY <1>2, NoSteps
<1>4. todo' \in [Caller -> Seq(StepType)] /\ \A c \in Caller : todo'[c] = none
  BY <1>1, <1>2, <1>3
<1>5. \A c \in Caller : WellFormed(todo[c])'
  BY <1>3, <1>4
<1>6. CallType'
  BY <1>1, <1>4, <1>5 DEF CallType
<1>7. TruncateIsHeld'
  BY NothingHeld
<1> QED
  BY <1>2, <1>4, <1>6, <1>7 DEF CallInv, Idle

\* A crash costs at most a tail of what no Sync has covered.
LEMMA CrashEffect ==
  ASSUME WalInv, CallInv, Crash \/ Reopen \/ \E c \in Caller : AppendPanics(c)
  PROVE  /\ WalInv' /\ CallInv' /\ (damaged => damaged')
         /\ trunc'.stage = "no" /\ buffer' = <<>> /\ \A c \in Caller : Idle(c)'
         /\ store' = store /\ mixed' = mixed /\ behind' = behind
         /\ ~damaged' => Cut
<1>1. WalType /\ (~damaged => WalGood) /\ CallType /\ Restarted
  BY DEF WalInv, CallInv, Crash, Reopen, AppendPanics
<1>2. store' = store /\ mixed' = mixed /\ behind' = behind
  BY <1>1 DEF Restarted, historyVars
<1>3. /\ WalType' /\ trunc'.stage = "no" /\ buffer' = <<>> /\ (damaged => damaged')
      /\ (WalGood /\ ~damaged') => WalGood' /\ Cut
  <2>1. Syncing \in BOOLEAN /\ FALSE \in BOOLEAN
    BY DEF Syncing
  <2>2. CASE Crash
    BY <1>1, <2>1, <2>2, CrashRefines, PowerLossRefines DEF Crash
  <2>3. CASE \E c \in Caller : AppendPanics(c)
    BY <1>1, <2>1, <2>3, CrashRefines DEF AppendPanics
  <2>4. CASE Reopen
    <3>1. WalReopen /\ \A c \in Caller : Idle(c)
      BY <2>4 DEF Reopen
    <3>2. trunc.stage = "no"
      BY <3>1 DEF CallInv, TruncateIsHeld, At
    <3> QED
      BY <1>1, <3>1, <3>2, ReopenRefines
  <2> QED
    BY <2>2, <2>3, <2>4
<1>4. CallInv' /\ \A c \in Caller : Idle(c)'
  BY <1>1, <1>3, RestartedCalls
<1>5. ~damaged' => ~damaged
  BY <1>1, <1>3 DEF WalType
<1> QED
  BY <1>1, <1>2, <1>3, <1>4, <1>5 DEF WalInv

\* The initial state.
LEMMA InitialState ==
  ASSUME Init
  PROVE  WalInv /\ CallInv /\ View = <<>> /\ Covered = 0 /\ ~damaged
<1>1. /\ disk = <<>> /\ current = 0 /\ buffer = <<>> /\ spilled = None /\ open = TRUE
      /\ trunc = NotTruncating /\ promised = 0 /\ damaged = FALSE
      /\ store = EmptyStore /\ todo = [c \in Caller |-> <<>>] /\ holder = {}
      /\ behind = {} /\ mixed = FALSE
  BY DEF Init, WalInit
<1>2. /\ trunc.stage = "no" /\ trunc.keep = <<>> /\ trunc.done = 0
      /\ trunc \in [stage : {"no", "closed", "removing", "rewriting"},
                    keep : Seq(Record), done : Nat]
  BY <1>1 DEF NotTruncating
<1>3. WalType
  <2>1. disk \in Seq(FilePart) /\ buffer \in Seq(Record) /\ Len(disk) = 0
    BY <1>1
  <2>2. open \in BOOLEAN /\ damaged \in BOOLEAN /\ spilled \in {None, Header, Torn}
    BY <1>1
  <2>3. current \in Nat /\ promised \in 0..Len(disk) /\ ~(spilled # None)
    BY <1>1, <2>1
  <2> QED
    BY <1>2, <2>1, <2>2, <2>3 DEF WalType
<1>4. WalGood
  BY <1>1, <1>2 DEF WalGood, InOrder, Safe, TruncateStages
<1>5. View = <<>> /\ Covered = 0
  BY <1>1, <1>2 DEF View, Covered, Rewriting, Written, RecordsOf
<1>6. CallType
  <2>1. store \in StoreType
    BY <1>1 DEF EmptyStore, StoreType
  <2>2. PICK none : none = <<>>
    OBVIOUS
  <2>3. none \in Seq(StepType) /\ WellFormed(none)
    BY <2>2, NoSteps
  <2>4. todo \in [Caller -> Seq(StepType)] /\ \A c \in Caller : todo[c] = none
    BY <1>1, <2>2, <2>3
  <2> QED
    BY <1>1, <2>1, <2>3, <2>4 DEF CallType
<1> QED
  BY <1>1, <1>2, <1>3, <1>4, <1>5, <1>6 DEF WalInv, CallInv, TruncateIsHeld

LogEffect ==
  \/ Same \/ Synced \/ Cut
  \/ \E r \in Record : Added(r)
  \/ \E p \in 0..MaxIndex : Trimmed(p)

\* Every step keeps the invariants of the WAL and of the calls, never repairs damage,
\* and does to the abstract log what one of its steps does.
LEMMA StepEffect ==
  ASSUME WalInv, CallInv, Next
  PROVE  WalInv' /\ CallInv' /\ (damaged => damaged') /\ (~damaged' => LogEffect)
<1>1. ASSUME NEW c \in Caller, BeginCall(c)
      PROVE  WalInv' /\ CallInv' /\ Same /\ damaged' = damaged
  <2>1. PICK steps \in Seq(StepType) : WellFormed(steps) /\ Begin(c, steps)
    BY <1>1, BeginSteps DEF CallInv, CallType
  <2> QED
    BY <2>1, BeginEffect
<1>2. ASSUME NEW c \in Caller, TruncateStep(c)
      PROVE  WalInv' /\ CallInv' /\ damaged' = damaged /\ (~damaged => LogEffect)
  <2>1. /\ WalInv' /\ CallInv' /\ damaged' = damaged
        /\ (~damaged /\ trunc.stage = "closed") => Trimmed(Head(todo[c]).from - 1)
        /\ (~damaged /\ trunc.stage # "closed") => Same
    BY <1>2, TruncateStepEffect
  <2>2. At(c, "Truncate") /\ ~Idle(c) /\ CallType
    BY <1>2 DEF TruncateStep, At, CallInv
  <2>3. Head(todo[c]).from \in Index
    BY <2>2, HeadShape DEF At
  <2>4. Head(todo[c]).from - 1 \in 0..MaxIndex
    BY <2>3, PersistenceAssumption DEF Index
  <2> QED
    BY <2>1, <2>4 DEF LogEffect
<1>3. ASSUME NEW c \in Caller, StepOfCall(c), ~AppendPanics(c)
      PROVE  WalInv' /\ CallInv' /\ (damaged => damaged') /\ (~damaged' => LogEffect)
  <2>1. CASE SaveMetadata(c) \/ SaveLogEntries(c) \/ DeleteFrom(c) \/ SaveSnapshot(c)
    BY <2>1, StoreStepEffect DEF LogEffect
  <2>2. CASE WalAppend(c)
    BY <2>2, WalAppendEffect DEF LogEffect
  <2>3. CASE BatchAppend(c)
    BY <2>3, BatchAppendEffect DEF LogEffect
  <2>4. CASE BatchSync(c) \/ WalSync(c)
    BY <2>4, SyncStepEffect DEF LogEffect
  <2>5. CASE TruncateBegin(c)
    BY <2>5, TruncateBeginEffect DEF LogEffect
  <2>6. CASE TruncateUnreadable(c)
    BY <2>6, TruncateUnreadableEffect DEF LogEffect
  <2>7. CASE TruncateStep(c)
    BY <1>2, <2>7
  <2>8. CASE TruncateEnd(c)
    BY <2>8, TruncateEndEffect DEF LogEffect
  <2> QED
    BY <1>3, <2>1, <2>2, <2>3, <2>4, <2>5, <2>6, <2>7, <2>8 DEF StepOfCall
<1>4. ASSUME NEW c \in Caller, StoreFails(c) \/ AppendFails(c) \/ TruncateFails(c)
      PROVE  WalInv' /\ CallInv' /\ (damaged => damaged') /\ (~damaged' => LogEffect)
  BY <1>4, StoreStepEffect, FailEffect DEF LogEffect
<1>5. CASE Crash \/ Reopen \/ \E c \in Caller : AppendPanics(c)
  BY <1>5, CrashEffect DEF LogEffect
<1> QED
  BY <1>1, <1>3, <1>4, <1>5 DEF Next, LogEffect

\* A step that leaves the state alone keeps the invariants.
LEMMA StutterKeeps ==
  ASSUME WalInv, CallInv, UNCHANGED vars
  PROVE  WalInv' /\ CallInv' /\ Same /\ damaged' = damaged
<1>1. UNCHANGED walVars /\ UNCHANGED <<store, todo, holder, behind, mixed>>
  BY DEF vars, callVars, historyVars
<1>2. WalInv' /\ Same /\ damaged' = damaged /\ Written' = Written
  BY <1>1 DEF WalInv, WalType, WalGood, InOrder, Safe, TruncateStages, Same, View, Covered, Written,
              Rewriting, RecordsOf, walVars
<1>3. \A c \in Caller : WellFormed(todo[c])'
  BY <1>1 DEF CallInv, CallType
<1>4. CallType'
  BY <1>1, <1>3 DEF CallInv, CallType
<1>5. TruncateIsHeld'
  BY <1>1, <1>2 DEF CallInv, TruncateIsHeld, At, Idle, walVars
<1> QED
  BY <1>2, <1>4, <1>5 DEF CallInv

LogIsView ==
  /\ View \in Seq(Record) /\ Covered \in 0..Len(View)
  /\ DurableRecords = SubSeq(View, 1, Covered)
  /\ VolatileRecords = SubSeq(View, Covered + 1, Len(View))

\* The two parts of a sequence, when an element is appended to it.
LEMMA SplitAppend ==
  ASSUME NEW S, NEW w \in Seq(S), NEW r \in S, NEW n \in 0..Len(w),
         NEW v, v = Append(w, r)
  PROVE  /\ SubSeq(v, 1, n) = SubSeq(w, 1, n)
         /\ SubSeq(v, n + 1, Len(v)) = Append(SubSeq(w, n + 1, Len(w)), r)
<1>1. /\ v \in Seq(S) /\ Len(v) = Len(w) + 1 /\ v[Len(v)] = r
      /\ \A i \in 1..Len(w) : v[i] = w[i]
  OBVIOUS
<1>2. n \in Nat /\ Len(w) \in Nat /\ n \in 0..Len(v)
  BY <1>1
<1> DEFINE a == SubSeq(w, 1, n)
           b == SubSeq(w, n + 1, Len(w))
           c == SubSeq(v, 1, n)
           d == SubSeq(v, n + 1, Len(v))
           e == Append(b, r)
<1>3. /\ a \in Seq(S) /\ Len(a) = n /\ \A i \in 1..n : a[i] = w[i]
      /\ b \in Seq(S) /\ Len(b) = Len(w) - n /\ \A i \in 1..(Len(w) - n) : b[i] = w[n + i]
  BY SplitSeq
<1>4. /\ c \in Seq(S) /\ Len(c) = n /\ \A i \in 1..n : c[i] = v[i]
      /\ d \in Seq(S) /\ Len(d) = Len(v) - n /\ \A i \in 1..(Len(v) - n) : d[i] = v[n + i]
  <2>1. v \in Seq(S) /\ n \in 0..Len(v)
    BY <1>1, <1>2
  <2> QED
    BY ONLY <2>1, SplitSeq
<1> HIDE DEF a, b, c, d
<1>5. c = a
  <2>1. \A i \in 1..Len(c) : c[i] = a[i]
    BY <1>1, <1>2, <1>3, <1>4
  <2> QED
    BY <1>3, <1>4, <2>1, SeqEqual
<1>6. /\ e \in Seq(S) /\ Len(e) = Len(b) + 1 /\ e[Len(b) + 1] = r
      /\ \A i \in 1..Len(b) : e[i] = b[i]
  BY <1>3
<1> HIDE DEF e
<1>7. \A i \in 1..Len(d) : d[i] = e[i]
  <2>1. TAKE i \in 1..Len(d)
  <2>2. i \in 1..(Len(w) - n) \/ i = Len(w) - n + 1
    <3>1. Len(d) = Len(w) + 1 - n /\ i \in 1..Len(d) /\ Len(w) - n \in Int
      BY <1>1, <1>2, <1>4
    <3> HIDE DEF d
    <3> QED
      BY ONLY <3>1, <1>2
  <2>3. CASE i \in 1..(Len(w) - n)
    <3>1. n + i \in 1..Len(w) /\ i \in 1..(Len(w) + 1 - n)
      BY ONLY <1>2, <2>3, n \in 0..Len(w)
    <3>2. Len(v) - n = Len(w) + 1 - n
      BY ONLY <1>1
    <3>3. d[i] = v[n + i]
      BY ONLY <1>4, <3>1, <3>2
    <3>4. b[i] = w[n + i] /\ e[i] = b[i]
      BY ONLY <1>3, <1>6, <2>3
    <3>5. v[n + i] = w[n + i]
      BY ONLY <1>1, <3>1
    <3> QED
      BY ONLY <3>3, <3>4, <3>5
  <2>4. CASE i = Len(w) - n + 1
    <3>1. n + i = Len(w) + 1 /\ i \in 1..(Len(w) + 1 - n)
      BY ONLY <1>2, <2>4, n \in 0..Len(w)
    <3>2. Len(v) - n = Len(w) + 1 - n /\ n + i = Len(v) /\ i = Len(b) + 1
      BY ONLY <1>1, <1>3, <2>4, <3>1
    <3>3. d[i] = v[n + i]
      BY ONLY <1>4, <3>1, <3>2
    <3> QED
      BY ONLY <1>1, <1>6, <3>2, <3>3
  <2> QED
    BY <2>2, <2>3, <2>4
<1>8. Len(d) = Len(e)
  BY <1>1, <1>2, <1>3, <1>4, <1>6
<1>9. d = e
  BY <1>4, <1>6, <1>7, <1>8, SeqEqual
<1> QED
  BY <1>5, <1>9 DEF a, b, c, d, e

\* The two parts of a sequence, when its end is cut.
LEMMA SplitCut ==
  ASSUME NEW S, NEW w \in Seq(S), NEW n \in 0..Len(w), NEW k \in n..Len(w),
         NEW v, v = SubSeq(w, 1, k)
  PROVE  /\ v \in Seq(S) /\ Len(v) = k /\ (\A i \in 1..k : v[i] = w[i])
         /\ SubSeq(v, 1, n) = SubSeq(w, 1, n)
         /\ SubSeq(v, n + 1, Len(v)) = SubSeq(SubSeq(w, n + 1, Len(w)), 1, k - n)
<1>1. n \in Nat /\ Len(w) \in Nat /\ k \in Nat /\ k \in 0..Len(w) /\ n <= k
  OBVIOUS
<1>2. v \in Seq(S) /\ Len(v) = k /\ \A i \in 1..k : v[i] = w[i]
  BY <1>1, SplitSeq
<1> DEFINE a == SubSeq(w, 1, n)
           b == SubSeq(w, n + 1, Len(w))
           c == SubSeq(v, 1, n)
           d == SubSeq(v, n + 1, Len(v))
           e == SubSeq(b, 1, k - n)
<1>3. /\ a \in Seq(S) /\ Len(a) = n /\ \A i \in 1..n : a[i] = w[i]
      /\ b \in Seq(S) /\ Len(b) = Len(w) - n /\ \A i \in 1..(Len(w) - n) : b[i] = w[n + i]
  BY SplitSeq
<1>4. /\ c \in Seq(S) /\ Len(c) = n /\ \A i \in 1..n : c[i] = v[i]
      /\ d \in Seq(S) /\ Len(d) = Len(v) - n /\ \A i \in 1..(Len(v) - n) : d[i] = v[n + i]
  <2>1. v \in Seq(S) /\ n \in 0..Len(v)
    BY <1>1, <1>2
  <2> QED
    BY ONLY <2>1, SplitSeq
<1> HIDE DEF a, b, c, d
<1>5. e \in Seq(S) /\ Len(e) = k - n /\ \A i \in 1..(k - n) : e[i] = b[i]
  <2>1. b \in Seq(S) /\ k - n \in 0..Len(b)
    BY <1>1, <1>3
  <2> QED
    BY ONLY <2>1, SplitSeq DEF e
<1> HIDE DEF e
<1>6. c = a
  <2>1. \A i \in 1..Len(c) : c[i] = a[i]
    BY <1>1, <1>2, <1>3, <1>4
  <2> QED
    BY <1>3, <1>4, <2>1, SeqEqual
<1>7. \A i \in 1..Len(d) : d[i] = e[i]
  <2>1. TAKE i \in 1..Len(d)
  <2>2. i \in 1..(k - n) /\ i \in 1..(Len(w) - n) /\ n + i \in 1..k
    BY <1>1, <1>2, <1>4
  <2> QED
    BY <1>2, <1>3, <1>4, <1>5, <2>2
<1>8. Len(d) = Len(e)
  BY <1>2, <1>4, <1>5
<1>9. d = e
  BY <1>4, <1>5, <1>7, <1>8, SeqEqual
<1> QED
  BY <1>2, <1>6, <1>9 DEF a, b, c, d, e

\* AbstractLog, as an implication that holds of the next state too.
LEMMA AbstractLogHolds ==
  WalType => LogIsView
  BY AbstractLog DEF LogIsView

\* What the steps do to the view of the log is a step of the abstract log, or none.
LEMMA EffectIsAbstract ==
  ASSUME WalType, WalType', ~damaged, ~damaged', LogEffect
  PROVE  [DL!Next]_(DL!vars)
<1>1. /\ View \in Seq(Record) /\ Covered \in 0..Len(View)
      /\ DurableRecords = SubSeq(View, 1, Covered)
      /\ VolatileRecords = SubSeq(View, Covered + 1, Len(View))
  BY AbstractLog
<1>2. /\ View' \in Seq(Record) /\ Covered' \in 0..Len(View')
      /\ DurableRecords' = SubSeq(View', 1, Covered')
      /\ VolatileRecords' = SubSeq(View', Covered' + 1, Len(View'))
  <2>1. LogIsView'
    BY AbstractLogHolds, PTL
  <2> QED
    BY <2>1 DEF LogIsView
<1>3. PICK w, n : w = View /\ n = Covered
  OBVIOUS
<1>4. PICK v, m : v = View' /\ m = Covered'
  OBVIOUS
<1>5. /\ w \in Seq(Record) /\ n \in 0..Len(w)
      /\ DurableRecords = SubSeq(w, 1, n) /\ VolatileRecords = SubSeq(w, n + 1, Len(w))
  BY <1>1, <1>3
<1>6. /\ v \in Seq(Record) /\ m \in 0..Len(v)
      /\ DurableRecords' = SubSeq(v, 1, m) /\ VolatileRecords' = SubSeq(v, m + 1, Len(v))
  BY <1>2, <1>4
<1>7. (~damaged) = TRUE /\ (~damaged') = TRUE
  OBVIOUS
<1>8. /\ SubSeq(w, 1, n) \in Seq(Record) /\ SubSeq(w, n + 1, Len(w)) \in Seq(Record)
      /\ SubSeq(w, 1, n) \o SubSeq(w, n + 1, Len(w)) = w
      /\ Len(SubSeq(w, n + 1, Len(w))) = Len(w) - n
      /\ \A i \in 1..(Len(w) - n) : SubSeq(w, n + 1, Len(w))[i] = w[n + i]
      /\ Len(w) \in Nat /\ n \in Nat
  <2>1. w \in Seq(Record) /\ n \in 0..Len(w)
    BY <1>5
  <2>2. Len(w) \in Nat /\ n \in Nat
    BY <2>1
  <2>3. /\ SubSeq(w, 1, n) \in Seq(Record) /\ SubSeq(w, n + 1, Len(w)) \in Seq(Record)
        /\ SubSeq(w, 1, n) \o SubSeq(w, n + 1, Len(w)) = w
        /\ Len(SubSeq(w, n + 1, Len(w))) = Len(w) - n
        /\ \A i \in 1..(Len(w) - n) : SubSeq(w, n + 1, Len(w))[i] = w[n + i]
    BY ONLY <2>1, SplitSeq
  <2> QED
    BY <2>2, <2>3
<1>9. CASE Same
  <2>1. DurableRecords' = DurableRecords /\ VolatileRecords' = VolatileRecords
    BY <1>3, <1>4, <1>5, <1>6, <1>9 DEF Same
  <2> QED
    BY <1>7, <2>1 DEF DL!vars
<1>10. ASSUME NEW r \in Record, Added(r)
       PROVE  DL!Next
  <2>1. v = Append(w, r) /\ m = n
    BY <1>3, <1>4, <1>10 DEF Added
  <2>2. w \in Seq(Record) /\ n \in 0..Len(w)
    BY <1>5
  <2>3. /\ SubSeq(v, 1, n) = SubSeq(w, 1, n)
        /\ SubSeq(v, n + 1, Len(v)) = Append(SubSeq(w, n + 1, Len(w)), r)
    BY ONLY <2>1, <2>2, r \in Record, SplitAppend, ZenonT(60)
  <2>4. DL!DoAppend(r)
    BY <1>5, <1>6, <2>1, <2>3 DEF DL!DoAppend
  <2> QED
    BY <1>7, <2>4 DEF DL!Next
<1>11. CASE Synced
  <2>1. v = w /\ m = Len(w)
    BY <1>3, <1>4, <1>11 DEF Synced
  <2>2. SubSeq(v, 1, m) = w /\ SubSeq(v, m + 1, Len(v)) = <<>>
    BY <1>5, <2>1
  <2>3. DL!DoSync
    BY <1>5, <1>6, <1>8, <2>2 DEF DL!DoSync
  <2> QED
    BY <1>7, <2>3 DEF DL!Next
<1>12. ASSUME NEW p \in 0..MaxIndex, Trimmed(p)
       PROVE  DL!Next
  <2>1. v = DL!UpTo(w, p) /\ m = Len(v)
    BY <1>3, <1>4, <1>12 DEF Trimmed
  <2>2. SubSeq(v, 1, m) = v /\ SubSeq(v, m + 1, Len(v)) = <<>>
    BY <1>6, <2>1
  <2>3. DL!DoTruncate(p)
    BY <1>5, <1>6, <1>8, <2>1, <2>2 DEF DL!DoTruncate
  <2> QED
    BY <1>7, <2>3 DEF DL!Next
<1>13. CASE Cut
  <2>1. PICK k \in n..Len(w) : v = SubSeq(w, 1, k) /\ m = n
    BY <1>3, <1>4, <1>13 DEF Cut
  <2>2. w \in Seq(Record) /\ n \in 0..Len(w)
    BY <1>5
  <2>3. /\ SubSeq(v, 1, n) = SubSeq(w, 1, n)
        /\ SubSeq(v, n + 1, Len(v)) = SubSeq(SubSeq(w, n + 1, Len(w)), 1, k - n)
    BY ONLY <2>1, <2>2, k \in n..Len(w), SplitCut
  <2>5. k - n \in 0..Len(VolatileRecords)
    BY <1>5, <1>8, <2>1
  <2>6. DL!DoCrash(k - n)
    BY <1>5, <1>6, <2>1, <2>3 DEF DL!DoCrash
  <2> QED
    BY <1>7, <2>5, <2>6 DEF DL!Next
<1> QED
  BY <1>9, <1>10, <1>11, <1>12, <1>13 DEF LogEffect

-----------------------------------------------------------------------------
(* Types, and the refinement of DurableLog *)

\* The invariants imply the types.
LEMMA InvImpliesType ==
  ASSUME WalInv, CallInv
  PROVE  TypeOK
<1>1. WalType /\ CallType
  BY DEF WalInv, CallInv
<1>2. /\ disk \in Seq([rec : Record, seg : Nat, part : {Header, Torn, Whole}, synced : BOOLEAN])
      /\ current \in Nat
      /\ buffer \in Seq(Record) /\ spilled \in {None, Header, Torn}
      /\ promised \in 0..Len(disk)
  BY <1>1 DEF WalType, FilePart
<1>3. /\ trunc.stage \in {"no", "closed", "removing", "rewriting"}
      /\ trunc.keep \in Seq(Record) /\ trunc.done \in Nat
  BY <1>1 DEF WalType
<1>4. {open, damaged, mixed} \subseteq BOOLEAN
  BY <1>1 DEF WalType, CallType
<1>5. holder \in SUBSET Caller /\ Cardinality(holder) <= 1
  <2>1. CASE holder = {}
    BY <2>1, FS_EmptySet
  <2>2. ASSUME NEW c \in Caller, holder = {c}
        PROVE  holder \in SUBSET Caller /\ Cardinality(holder) <= 1
    <3>1. Cardinality({c}) = 1
      BY FS_Singleton
    <3> QED
      BY <2>2, <3>1
  <2> QED
    BY <1>1, <2>1, <2>2 DEF CallType
<1>6. /\ store \in [meta : Term \cup {NoTerm}, log : [Index -> Term \cup {NoTerm}],
                    snap : [index : Index \cup {0}, term : Term \cup {NoTerm}]]
      /\ todo \in [Caller -> Seq(StepType)] /\ behind \subseteq AllKeys
  BY <1>1 DEF CallType, StoreType
<1> QED
  BY <1>2, <1>3, <1>4, <1>5, <1>6 DEF TypeOK

\* The invariants of the WAL and of the calls hold in every reachable state.
THEOREM WalInvariant == Spec => [](WalInv /\ CallInv)
<1>1. Init => WalInv /\ CallInv
  BY InitialState
<1>2. WalInv /\ CallInv /\ [Next]_vars => (WalInv /\ CallInv)'
  BY StepEffect, StutterKeeps
<1> QED
  BY <1>1, <1>2, PTL DEF Spec

\* Type correctness of the persistence layer and of the write-ahead log: whatever the
\* callers interleave and wherever a crash falls, files, buffer, lock, store and the
\* steps of the calls keep their types, and at most one caller holds FileWAL.mu.
THEOREM TypeCorrect == Spec => []TypeOK
<1>1. WalInv /\ CallInv => TypeOK
  BY InvImpliesType
<1> QED
  BY <1>1, WalInvariant, PTL

\* The initial state is one of the abstract log.
LEMMA InitIsAbstract ==
  ASSUME Init
  PROVE  DL!Init
<1>1. WalType /\ View = <<>> /\ Covered = 0 /\ damaged = FALSE
  <2>1. WalInv /\ View = <<>> /\ Covered = 0 /\ ~damaged
    BY InitialState
  <2> QED
    BY <2>1 DEF WalInv, WalType
<1>2. /\ DurableRecords = SubSeq(View, 1, Covered)
      /\ VolatileRecords = SubSeq(View, Covered + 1, Len(View))
  BY <1>1, AbstractLog
<1>3. DurableRecords = <<>> /\ VolatileRecords = <<>>
  BY <1>1, <1>2
<1> QED
  BY <1>1, <1>3 DEF DL!Init

\* Every step is a step of the abstract log, leaves it alone, or is a fault.
LEMMA StepIsAbstract ==
  ASSUME WalInv, CallInv, [Next]_vars
  PROVE  [DL!Next]_(DL!vars)
<1>1. /\ WalInv' /\ (damaged => damaged')
      /\ ~damaged' => LogEffect
  BY StepEffect, StutterKeeps DEF LogEffect
<1>2. WalType /\ WalType' /\ damaged \in BOOLEAN /\ damaged' \in BOOLEAN
  BY <1>1 DEF WalInv, WalType
<1>3. CASE damaged'
  <2>1. DL!Fault
    BY <1>3 DEF DL!Fault
  <2> QED
    BY <2>1 DEF DL!Next
<1>4. CASE ~damaged'
  BY <1>1, <1>2, <1>4, EffectIsAbstract
<1> QED
  BY <1>2, <1>3, <1>4

\* The write-ahead log implements DurableLog: as long as no named cause has damaged it,
\* every append, flush, rotation, fsync, truncation, crash, loss of power and restart,
\* of any number of interleaved callers, appends one record, covers all records, drops
\* exactly the records above an index, loses a tail of what no Sync covered, or changes
\* nothing of the log that the files and the buffer stand for.
THEOREM WalImplementsDurableLog == Spec => WalIsDurable
<1>1. Init => DL!Init
  BY InitIsAbstract
<1>2. WalInv /\ CallInv /\ [Next]_vars => [DL!Next]_(DL!vars)
  BY StepIsAbstract
<1> QED
  BY <1>1, <1>2, WalInvariant, PTL DEF Spec, WalIsDurable, DL!Spec

-----------------------------------------------------------------------------
(* What the log says about a key *)

\* What a record is about decides its type and, in the log, its index.
LEMMA KeyFields ==
  ASSUME NEW r \in Record
  PROVE  /\ r.type \in {"log", "meta", "snap"} /\ r.term \in Term /\ r.index \in 0..MaxIndex
         /\ Key(r)[1] = r.type /\ (r.type = "log" => Key(r)[2] = r.index)
         /\ r.type = "log" => r.index \in Index
         /\ r.type = "meta" => r.index = 0
         /\ Key(r) \in AllKeys
<1>1. /\ r.type \in {"log", "meta", "snap"} /\ r.term \in Term /\ r.index \in 0..MaxIndex
      /\ r.type = "log" => r.index \in Index
      /\ r.type = "meta" => r.index = 0
  BY PersistenceAssumption DEF Record, LogRecord, MetaRecord, SnapRecord, Index
<1>2. Key(r)[1] = r.type /\ (r.type = "log" => Key(r)[2] = r.index)
  BY DEF Key
<1>3. Key(r) \in AllKeys
  BY <1>1 DEF Key, AllKeys, LogKeysFrom, Index
<1> QED
  BY <1>1, <1>2, <1>3

\* A record that is appended is the last one about its key, and changes nothing for the
\* other keys.
LEMMA AgreesAppend ==
  ASSUME NEW w \in Seq(Record), NEW r \in Record, NEW s, NEW key, NEW v, v = Append(w, r)
  PROVE  /\ (Key(r) # key /\ Agrees(w, s, key)) => Agrees(v, s, key)
         /\ (Key(r) = key /\ Holds(s, r)) => Agrees(v, s, key)
<1>1. /\ v \in Seq(Record) /\ Len(w) \in Nat /\ Len(v) = Len(w) + 1 /\ v[Len(w) + 1] = r
      /\ \A i \in 1..Len(w) : v[i] = w[i]
  OBVIOUS
<1>2. \A i \in 1..Len(v) : i \in 1..Len(w) \/ i = Len(w) + 1
  BY <1>1
<1>3. \A i \in 1..Len(w) : i \in 1..Len(v) /\ i < Len(w) + 1 /\ Len(w) + 1 \in 1..Len(v)
  BY <1>1
<1>4. Len(w) + 1 \in 1..Len(v)
  BY <1>1
<1>5. ASSUME Key(r) # key, Agrees(w, s, key)
      PROVE  Agrees(v, s, key)
  <2>1. ASSUME NEW i \in 1..Len(v), LastAbout(v, key, i)
        PROVE  Holds(s, v[i])
    <3>1. i \in 1..Len(w) /\ v[i] = w[i]
      BY <1>1, <1>2, <1>5, <2>1 DEF LastAbout
    <3>2. \A j \in 1..Len(w) : j > i => Key(w[j]) # key
      BY <1>1, <1>3, <2>1 DEF LastAbout
    <3>3. LastAbout(w, key, i)
      BY <2>1, <3>1, <3>2 DEF LastAbout
    <3> QED
      BY <1>5, <3>1, <3>3 DEF Agrees
  <2>2. ASSUME \A i \in 1..Len(v) : Key(v[i]) # key
        PROVE  StoredIn(s, key) = NoTerm
    <3>1. \A i \in 1..Len(w) : Key(w[i]) # key
      BY <1>1, <1>3, <2>2
    <3> QED
      BY <1>5, <3>1 DEF Agrees
  <2> QED
    BY <2>1, <2>2 DEF Agrees
<1>6. ASSUME Key(r) = key, Holds(s, r)
      PROVE  Agrees(v, s, key)
  <2>1. ASSUME NEW i \in 1..Len(v), LastAbout(v, key, i)
        PROVE  Holds(s, v[i])
    <3>1. CASE i = Len(w) + 1
      BY <1>1, <1>6, <3>1
    <3>2. CASE i \in 1..Len(w)
      <4>1. Len(w) + 1 > i /\ Len(w) + 1 \in 1..Len(v)
        BY <1>1, <1>4, <3>2
      <4>2. Key(v[Len(w) + 1]) # key
        BY <2>1, <4>1 DEF LastAbout
      <4> QED
        BY <1>1, <1>6, <4>2
    <3> QED
      BY <1>2, <3>1, <3>2
  <2>2. Key(v[Len(w) + 1]) = key
    BY <1>1, <1>6
  <2> QED
    BY <1>4, <2>1, <2>2 DEF Agrees
<1> QED
  BY <1>5, <1>6

\* A tail that says nothing about a key can be lost.
LEMMA AgreesCut ==
  ASSUME NEW w \in Seq(Record), NEW k \in 0..Len(w), NEW s, NEW key,
         NEW v \in Seq(Record), Len(v) = k, \A i \in 1..k : v[i] = w[i],
         \A i \in 1..Len(w) : i > k => Key(w[i]) # key, Agrees(w, s, key)
  PROVE  Agrees(v, s, key)
<1>1. Len(w) \in Nat /\ k \in Nat /\ \A i \in 1..k : i \in 1..Len(w)
  OBVIOUS
<1>2. \A i \in 1..Len(w) : i \in 1..k \/ i > k
  BY <1>1
<1>3. ASSUME NEW i \in 1..Len(v), LastAbout(v, key, i)
      PROVE  Holds(s, v[i])
  <2>1. i \in 1..k /\ i \in 1..Len(w) /\ v[i] = w[i]
    BY <1>1
  <2>2. \A j \in 1..Len(w) : j > i => Key(w[j]) # key
    BY <1>2, <1>3 DEF LastAbout
  <2>3. LastAbout(w, key, i)
    BY <1>3, <2>1, <2>2 DEF LastAbout
  <2> QED
    BY <2>1, <2>3 DEF Agrees
<1>4. ASSUME \A i \in 1..Len(v) : Key(v[i]) # key
      PROVE  StoredIn(s, key) = NoTerm
  <2>1. \A i \in 1..Len(w) : Key(w[i]) # key
    BY <1>2, <1>4
  <2> QED
    BY <2>1 DEF Agrees
<1> QED
  BY <1>3, <1>4 DEF Agrees

\* Of the records about a key there is a last one.
LEMMA SomeLastAbout ==
  ASSUME NEW w \in Seq(Record), NEW key, NEW i \in 1..Len(w), Key(w[i]) = key
  PROVE  \E j \in 1..Len(w) : j >= i /\ LastAbout(w, key, j)
<1> DEFINE T == {j \in 1..Len(w) : Key(w[j]) = key}
<1>1. Len(w) \in Nat /\ T \subseteq 0..Len(w) /\ i \in T /\ T # {}
  OBVIOUS
<1>2. \A j \in T : j \in 1..Len(w) /\ Key(w[j]) = key
  OBVIOUS
<1>3. \A j \in 1..Len(w) : Key(w[j]) = key => j \in T
  OBVIOUS
<1> HIDE DEF T
<1>4. Max(T) \in T /\ \A j \in T : j <= Max(T)
  BY <1>1, MaxType
<1>5. PICK m : m = Max(T)
  OBVIOUS
<1>6. m \in 1..Len(w) /\ Key(w[m]) = key /\ m >= i
  BY <1>1, <1>2, <1>4, <1>5
<1>7. \A j \in 1..Len(w) : j > m => Key(w[j]) # key
  BY <1>1, <1>3, <1>4, <1>5, <1>6
<1> QED
  BY <1>6, <1>7 DEF LastAbout

\* Records can be dropped when the last one about a key is not among them.
LEMMA AgreesKept ==
  ASSUME NEW w \in Seq(Record), NEW I \in SUBSET (1..Len(w)), NEW s, NEW key,
         NEW v, v = Subsequence(w, I),
         \A i \in 1..Len(w) : LastAbout(w, key, i) => i \in I, Agrees(w, s, key)
  PROVE  Agrees(v, s, key)
<1>1. /\ v \in Seq(Record) /\ Len(v) = Cardinality(I) /\ Cardinality(I) \in Nat
      /\ \A i \in I : Rank(I, i) \in 1..Len(v) /\ v[Rank(I, i)] = w[i]
      /\ \A k \in 1..Len(v) : \E i \in I : Rank(I, i) = k /\ v[k] = w[i]
  BY SubsequenceElements
<1>2. Len(w) \in Nat
  OBVIOUS
<1>3. ASSUME NEW k \in 1..Len(v), LastAbout(v, key, k)
      PROVE  Holds(s, v[k])
  <2>1. PICK i \in I : Rank(I, i) = k /\ v[k] = w[i]
    BY <1>1
  <2>2. Key(w[i]) = key /\ i \in 1..Len(w)
    BY <1>3, <2>1 DEF LastAbout
  <2>3. PICK j \in 1..Len(w) : j >= i /\ LastAbout(w, key, j)
    BY <2>2, SomeLastAbout
  <2>4. j \in I
    BY <2>3
  <2>5. j = i
    <3>1. SUFFICES ASSUME j > i
                   PROVE  FALSE
      BY <1>2, <2>2, <2>3
    <3>2. Rank(I, i) < Rank(I, j)
      BY <1>2, <2>4, <3>1, RankOrder
    <3>3. Rank(I, j) \in 1..Len(v) /\ v[Rank(I, j)] = w[j] /\ Rank(I, i) \in 1..Len(v)
      BY <1>1, <2>4
    <3>4. Rank(I, j) > k
      BY <2>1, <3>2, <3>3
    <3>5. Key(w[j]) # key
      BY <1>3, <3>3, <3>4 DEF LastAbout
    <3> QED
      BY <2>3, <3>5 DEF LastAbout
  <2> QED
    BY <2>1, <2>3, <2>5 DEF Agrees
<1>4. ASSUME \A k \in 1..Len(v) : Key(v[k]) # key
      PROVE  StoredIn(s, key) = NoTerm
  <2>1. ASSUME NEW i \in 1..Len(w), Key(w[i]) = key
        PROVE  FALSE
    <3>1. PICK j \in 1..Len(w) : LastAbout(w, key, j)
      BY <2>1, SomeLastAbout
    <3>2. j \in I
      BY <3>1
    <3>3. Key(v[Rank(I, j)]) = key /\ Rank(I, j) \in 1..Len(v)
      BY <1>1, <3>1, <3>2 DEF LastAbout
    <3> QED
      BY <1>4, <3>3
  <2> QED
    BY <2>1 DEF Agrees
<1> QED
  BY <1>3, <1>4 DEF Agrees

SameAt(s, t, key) ==
  /\ key[1] = "log" => s.log[key[2]] = t.log[key[2]]
  /\ key[1] = "meta" => s.meta = t.meta
  /\ key[1] = "snap" => s.snap = t.snap

\* A change of the store at other keys changes nothing for a key.
LEMMA AgreesElsewhere ==
  ASSUME NEW w \in Seq(Record), NEW s, NEW t, NEW key \in AllKeys, SameAt(s, t, key),
         Agrees(w, s, key)
  PROVE  Agrees(w, t, key)
<1>1. key[1] \in {"log", "meta", "snap"}
  BY DEF AllKeys, LogKeysFrom
<1>2. StoredIn(t, key) = StoredIn(s, key)
  BY <1>1 DEF StoredIn, SameAt
<1>3. ASSUME NEW r \in Record, Key(r) = key, Holds(s, r)
      PROVE  Holds(t, r)
  <2>1. r.type = key[1] /\ (r.type = "log" => r.index = key[2])
    BY <1>3, KeyFields
  <2> QED
    BY <1>1, <1>3, <2>1 DEF Holds, SameAt
<1>4. ASSUME NEW i \in 1..Len(w), LastAbout(w, key, i)
      PROVE  Holds(t, w[i])
  <2>1. w[i] \in Record /\ Key(w[i]) = key
    BY <1>4 DEF LastAbout
  <2>2. Holds(s, w[i])
    BY <1>4 DEF Agrees
  <2> QED
    BY <1>3, <2>1, <2>2
<1> QED
  BY <1>2, <1>4 DEF Agrees

\* Truncating above p keeps what the log says about the keys up to p, when no snapshot
\* above p is stored, and says nothing about the indices above p.
LEMMA AgreesTrim ==
  ASSUME NEW w \in Seq(Record), NEW s \in StoreType, NEW p \in 0..MaxIndex,
         NEW key \in AllKeys, NEW v, v = DL!UpTo(w, p)
  PROVE  /\ (Agrees(w, s, key) /\ (key[1] = "log" => key[2] <= p) /\ s.snap.index <= p) =>
              Agrees(v, s, key)
         /\ (key[1] = "log" /\ key[2] > p /\ s.log[key[2]] = NoTerm) => Agrees(v, s, key)
<1> DEFINE I == {i \in 1..Len(w) : w[i].index <= p}
<1>1. v = Subsequence(w, I) /\ I \in SUBSET (1..Len(w))
  BY UpToIsSubsequence
<1>2. /\ \A i \in I : i \in 1..Len(w) /\ w[i].index <= p
      /\ \A i \in 1..Len(w) : w[i].index <= p => i \in I
  OBVIOUS
<1>3. /\ MaxIndex \in Nat /\ p \in Nat /\ s.snap.index \in 0..MaxIndex
      /\ (key[1] = "log" => key[2] \in Nat) /\ key[1] \in {"log", "meta", "snap"}
  BY PersistenceAssumption DEF StoreType, Index, AllKeys, LogKeysFrom
<1> HIDE DEF I
<1>4. /\ v \in Seq(Record) /\ Len(v) = Cardinality(I)
      /\ \A k \in 1..Len(v) : \E i \in I : v[k] = w[i]
  BY <1>1, SubsequenceElements
<1>5. ASSUME Agrees(w, s, key), key[1] = "log" => key[2] <= p, s.snap.index <= p
      PROVE  Agrees(v, s, key)
  <2>1. ASSUME NEW i \in 1..Len(w), LastAbout(w, key, i)
        PROVE  i \in I
    <3>1. PICK r : r = w[i]
      OBVIOUS
    <3>2. r \in Record /\ Key(r) = key /\ Holds(s, r)
      BY <1>5, <2>1, <3>1 DEF Agrees, LastAbout
    <3>3. /\ r.type = key[1] /\ (r.type = "log" => r.index = key[2])
          /\ (r.type = "meta" => r.index = 0)
      BY <3>2, KeyFields
    <3>4. r.type = "snap" => r.index = s.snap.index
      BY <3>2 DEF Holds
    <3>5. r.index <= p
      BY <1>3, <1>5, <3>3, <3>4
    <3> QED
      BY <1>2, <3>1, <3>5
  <2> QED
    BY <1>1, <1>5, <2>1, AgreesKept
<1>6. ASSUME key[1] = "log", key[2] > p, s.log[key[2]] = NoTerm
      PROVE  Agrees(v, s, key)
  <2>1. ASSUME NEW k \in 1..Len(v), Key(v[k]) = key
        PROVE  FALSE
    <3>1. PICK i \in I : v[k] = w[i]
      BY <1>4
    <3>2. w[i] \in Record /\ w[i].index <= p
      BY <1>2
    <3>3. w[i].type = "log" /\ w[i].index = key[2]
      BY <1>6, <2>1, <3>1, <3>2, KeyFields
    <3> QED
      BY <1>3, <1>6, <3>2, <3>3
  <2>2. StoredIn(s, key) = NoTerm
    BY <1>6 DEF StoredIn
  <2> QED
    BY <2>1, <2>2 DEF Agrees, LastAbout
<1> QED
  BY <1>5, <1>6

\* What is to be shown of a step of one caller.
LEMMA AgreementKept ==
  ASSUME Agreement, NEW c \in Caller, ~Idle(c) \/ \A d \in Caller : Idle(d),
         \A d \in Caller : d # c => todo'[d] = todo[d],
         SequentialLog',
         \A key \in AllKeys \ behind' : Agrees(View', store', key),
         \A i \in 1..Len(View') : i > Covered' => Key(View'[i]) \in behind',
         Ready(c)',
         buffer' # <<>> => \/ At(c, "Sync")' \/ At(c, "AppendBatch")'
                           \/ At(c, "Truncate")' /\ trunc'.stage = "rewriting"
  PROVE  Agreement'
<1>1. \A d \in Caller : d # c => Idle(d)'
  BY DEF Agreement, Idle
<1>2. \A d, e \in Caller : (~Idle(d)' /\ ~Idle(e)') => d = e
  BY <1>1
<1>3. \A d \in Caller : Ready(d)'
  <2>1. TAKE d \in Caller
  <2>2. CASE d = c
    BY <2>2
  <2>3. CASE d # c
    <3>1. \A op : ~(At(d, op)')
      BY <1>1, <2>3 DEF At
    <3> QED
      BY <3>1 DEF Ready
  <2> QED
    BY <2>2, <2>3
<1> QED
  BY <1>2, <1>3 DEF Agreement

\* What the last clause says when the caller under way is at none of the steps that
\* leave records in the buffer.
LEMMA BufferEmpty ==
  ASSUME Agreement,
         \A d \in Caller : \/ Idle(d)
                           \/ ~At(d, "Sync") /\ ~At(d, "AppendBatch")
                              /\ (At(d, "Truncate") => trunc.stage # "rewriting")
  PROVE  buffer = <<>>
  BY DEF Agreement, At

\* While one caller is under way and not in a Truncate, nobody truncates.
LEMMA OnlyOneTruncates ==
  ASSUME WalType, CallInv, Agreement, NEW c \in Caller, ~Idle(c), ~At(c, "Truncate")
  PROVE  trunc.stage = "no"
  BY DEF CallInv, TruncateIsHeld, Agreement, At

-----------------------------------------------------------------------------
(* Each step keeps the agreement of the store and the log *)

\* A call begins when no other one is under way.
LEMMA BeginAgrees ==
  ASSUME WalInv, CallInv, Agreement, NEW c \in Caller, BeginCall(c), ~mixed'
  PROVE  Agreement'
<1>1. PICK steps \in Seq(StepType) :
        /\ WellFormed(steps) /\ Begin(c, steps) /\ steps # <<>>
        /\ steps[1].op \in {"SaveMetadata", "SaveSnapshot", "SaveLogEntries", "DeleteFrom"}
        /\ (steps[1].op = "SaveLogEntries" /\ SequentialLog) =>
             steps[1].recs[1].index = 1 \/ store.log[steps[1].recs[1].index - 1] # NoTerm
        /\ steps[1].op = "DeleteFrom" => store.snap.index < steps[1].from
  BY BeginSteps DEF CallInv, CallType
<1>2. /\ \A d \in Caller : Idle(d)
      /\ store' = store /\ behind' = behind /\ buffer' = buffer /\ trunc' = trunc
  BY <1>1 DEF Begin, walVars
<1>3. /\ View' = View /\ Covered' = Covered
      /\ todo'[c] = steps /\ \A d \in Caller : d # c => todo'[d] = todo[d]
  BY <1>1, BeginEffect DEF Same
<1>4. SequentialLog /\ SequentialLog'
  BY <1>2 DEF Agreement, SequentialLog, Index
<1>5. /\ \A key \in AllKeys \ behind' : Agrees(View', store', key)
      /\ \A i \in 1..Len(View') : i > Covered' => Key(View'[i]) \in behind'
  BY <1>2, <1>3 DEF Agreement
<1>6. buffer' = <<>>
  BY <1>2, BufferEmpty
<1>7. Ready(c)'
  <2>1. Head(todo'[c]) = steps[1] /\ todo'[c] # <<>>
    BY <1>1, <1>3
  <2>2. \A op : At(c, op)' <=> steps[1].op = op
    BY <2>1 DEF At, Idle
  <2>3. /\ ~(At(c, "Append")') /\ ~(At(c, "AppendBatch")') /\ ~(At(c, "Truncate")')
        /\ ~(At(c, "Sync")')
    BY <1>1, <2>2
  <2>4. At(c, "SaveLogEntries")' =>
          steps[1].recs[1].index = 1 \/ store'.log[steps[1].recs[1].index - 1] # NoTerm
    BY <1>1, <1>2, <1>4, <2>2
  <2>5. At(c, "DeleteFrom")' => store'.snap.index < steps[1].from
    BY <1>1, <1>2, <2>2
  <2> QED
    BY <2>1, <2>3, <2>4, <2>5 DEF Ready
<1> QED
  BY <1>2, <1>3, <1>4, <1>5, <1>6, <1>7, AgreementKept

\* The end of a call that fails in the store, or in a Truncate that could not read.
LEMMA ReturnAgrees ==
  ASSUME WalInv, CallInv, Agreement, NEW c \in Caller, StoreFails(c) \/ TruncateUnreadable(c)
  PROVE  Agreement'
<1>1. /\ todo' = [todo EXCEPT ![c] = <<>>] /\ ~Idle(c)
      /\ store' = store /\ behind' = behind /\ buffer' = buffer
      /\ ~At(c, "Sync") /\ ~At(c, "AppendBatch")
  BY DEF StoreFails, TruncateUnreadable, Return, OnlyWal, historyVars, walVars, At
<1>2. View' = View /\ Covered' = Covered
  BY StoreStepEffect, TruncateUnreadableEffect DEF Same
<1>3. todo'[c] = <<>> /\ \A d \in Caller : d # c => todo'[d] = todo[d]
  BY <1>1 DEF CallInv, CallType
<1>4. At(c, "Truncate") => trunc.stage = "no"
  <2>1. At(c, "Truncate") => Free
    BY DEF StoreFails, TruncateUnreadable, At
  <2> QED
    BY <2>1, NobodyTruncates DEF WalInv
<1>5. buffer' = <<>>
  <2>1. \A d \in Caller : d # c => Idle(d)
    BY <1>1 DEF Agreement
  <2> QED
    BY <1>1, <1>4, <2>1, BufferEmpty
<1>6. SequentialLog'
  BY <1>1 DEF Agreement, SequentialLog, Index
<1>7. /\ \A key \in AllKeys \ behind' : Agrees(View', store', key)
      /\ \A i \in 1..Len(View') : i > Covered' => Key(View'[i]) \in behind'
  BY <1>1, <1>2 DEF Agreement
<1>8. Ready(c)'
  <2>1. \A op : ~(At(c, op)')
    BY <1>3 DEF At, Idle
  <2> QED
    BY <2>1 DEF Ready
<1> QED
  BY <1>1, <1>3, <1>5, <1>6, <1>7, <1>8, AgreementKept

\* After a crash, what no Sync had covered may be missing: it is about keys whose call
\* did not come to its end.
LEMMA CrashAgrees ==
  ASSUME WalInv, CallInv, Agreement, ~damaged',
         Crash \/ Reopen \/ \E c \in Caller : AppendPanics(c)
  PROVE  Agreement'
<1>1. /\ buffer' = <<>> /\ \A c \in Caller : Idle(c)'
      /\ store' = store /\ behind' = behind /\ Cut
  BY CrashEffect
<1>2. PICK w, n : w = View /\ n = Covered
  OBVIOUS
<1>3. w \in Seq(Record) /\ n \in 0..Len(w) /\ Len(w) \in Nat /\ n \in Nat
  <2>1. View \in Seq(Record) /\ Covered \in 0..Len(View)
    BY AbstractLog DEF WalInv
  <2> QED
    BY <1>2, <2>1
<1>4. PICK k \in n..Len(w) : View' = SubSeq(w, 1, k) /\ Covered' = n
  BY <1>1, <1>2 DEF Cut
<1>5. PICK v : v = View'
  OBVIOUS
<1>6. v \in Seq(Record) /\ Len(v) = k /\ (\A i \in 1..k : v[i] = w[i]) /\ k \in 0..Len(w) /\ k \in Nat
  <2>1. v = SubSeq(w, 1, k) /\ k \in 0..Len(w) /\ k \in Nat
    BY <1>3, <1>4, <1>5
  <2> QED
    BY <1>3, <2>1, SplitSeq
<1>7. ASSUME NEW key \in AllKeys \ behind'
      PROVE  Agrees(v, store', key)
  <2>1. Agrees(w, store', key)
    BY <1>1, <1>2, <1>7 DEF Agreement
  <2>2. \A i \in 1..Len(w) : i > k => Key(w[i]) # key
    <3>1. TAKE i \in 1..Len(w)
    <3>2. HAVE i > k
    <3>3. i > n
      BY <1>3, <1>4, <1>6, <3>2
    <3> QED
      BY <1>1, <1>2, <1>7, <3>3 DEF Agreement
  <2> QED
    BY <1>3, <1>6, <2>1, <2>2, AgreesCut
<1>8. ASSUME NEW i \in 1..Len(v), i > n
      PROVE  Key(v[i]) \in behind'
  <2>1. i \in 1..Len(w) /\ v[i] = w[i]
    BY <1>3, <1>6
  <2> QED
    BY <1>1, <1>2, <1>8, <2>1 DEF Agreement
<1>9. SequentialLog'
  BY <1>1 DEF Agreement, SequentialLog, Index
<1>10. \A c \in Caller : Ready(c)'
  <2>1. \A c \in Caller : \A op : ~(At(c, op)')
    BY <1>1 DEF At
  <2> QED
    BY <2>1 DEF Ready
<1>11. \A c, d \in Caller : (~Idle(c)' /\ ~Idle(d)') => c = d
  BY <1>1
<1> QED
  BY <1>1, <1>4, <1>5, <1>7, <1>8, <1>9, <1>10, <1>11 DEF Agreement

\* The step after the one that is done.
LEMMA NextStep ==
  ASSUME CallType, NEW c \in Caller, ~Idle(c), Done(c)
  PROVE  /\ todo'[c] = Tail(todo[c]) /\ \A d \in Caller : d # c => todo'[d] = todo[d]
         /\ Tail(todo[c]) # <<>> =>
              /\ todo'[c] # <<>> /\ Head(todo'[c]) = Tail(todo[c])[1]
              /\ \A op : At(c, op)' <=> Tail(todo[c])[1].op = op
         /\ Tail(todo[c]) = <<>> => \A op : ~(At(c, op)')
<1>1. todo'[c] = Tail(todo[c]) /\ \A d \in Caller : d # c => todo'[d] = todo[d]
  BY DEF Done, CallType
<1>2. Tail(todo[c]) \in Seq(StepType)
  BY HeadStep
<1>3. Tail(todo[c]) # <<>> => todo'[c] # <<>> /\ Head(todo'[c]) = Tail(todo[c])[1]
  BY <1>1, <1>2
<1>4. Tail(todo[c]) # <<>> => \A op : At(c, op)' <=> Tail(todo[c])[1].op = op
  BY <1>3 DEF At, Idle
<1>5. Tail(todo[c]) = <<>> => \A op : ~(At(c, op)')
  BY <1>1 DEF At, Idle
<1> QED
  BY <1>1, <1>3, <1>4, <1>5

\* A change of the store at the keys of a step, which are behind from then on.
LEMMA InStoreAgrees ==
  ASSUME WalInv, CallInv, Agreement, NEW c \in Caller, Same,
         NEW op \in {"SaveMetadata", "SaveLogEntries", "DeleteFrom", "SaveSnapshot"},
         InStore(c, op, store'),
         \A key \in AllKeys \ Keys(Head(todo[c])) : SameAt(store, store', key),
         SequentialLog', Ready(c)'
  PROVE  Agreement'
<1>1. /\ At(c, op) /\ Done(c) /\ behind' = behind \cup Keys(Head(todo[c])) /\ buffer' = buffer
      /\ ~Idle(c) /\ ~At(c, "Sync") /\ ~At(c, "AppendBatch") /\ ~At(c, "Truncate")
  BY DEF InStore, At, walVars
<1>2. \A d \in Caller : d # c => todo'[d] = todo[d]
  BY <1>1, NextStep DEF CallInv
<1>3. buffer' = <<>>
  <2>1. \A d \in Caller : d # c => Idle(d)
    BY <1>1 DEF Agreement
  <2> QED
    BY <1>1, <2>1, BufferEmpty
<1>4. View' = View /\ Covered' = Covered /\ View \in Seq(Record)
  BY AbstractLog DEF Same, WalInv
<1>5. ASSUME NEW key \in AllKeys \ behind'
      PROVE  Agrees(View', store', key)
  <2>1. key \in AllKeys \ behind /\ SameAt(store, store', key)
    BY <1>1
  <2>2. Agrees(View, store, key)
    BY <2>1 DEF Agreement
  <2>3. Agrees(View, store', key)
    BY <1>4, <2>1, <2>2, AgreesElsewhere
  <2> QED
    BY <1>4, <2>3
<1>6. \A i \in 1..Len(View') : i > Covered' => Key(View'[i]) \in behind'
  BY <1>1, <1>4 DEF Agreement
<1> QED
  BY <1>1, <1>2, <1>3, <1>5, <1>6, AgreementKept

\* What Ready asks for after a record was stored: it goes to the log next.
LEMMA ReadyToAppend ==
  ASSUME NEW c \in Caller, NEW r \in Record, At(c, "Append")', Head(todo'[c]).recs = <<r>>,
         Holds(store', r), Key(r) \in behind'
  PROVE  Ready(c)'
<1>1. \A op : At(c, op)' => op = "Append"
  BY DEF At
<1>2. Len(Head(todo'[c]).recs) = 1 /\ Head(todo'[c]).recs[1] = r
  OBVIOUS
<1>3. \A i \in 1..Len(Head(todo'[c]).recs) :
        Holds(store', Head(todo'[c]).recs[i]) /\ Key(Head(todo'[c]).recs[i]) \in behind'
  BY <1>2
<1> QED
  BY <1>1, <1>3 DEF Ready

\* The keys of a step with one record, and of one with a position.
LEMMA KeysOfOne ==
  ASSUME NEW s \in StepType, s.from = 0
  PROVE  Keys(s) = {Key(s.recs[i]) : i \in 1..Len(s.recs)}
  BY DEF Keys

\* PersistMetadata and PersistSnapshot store their record.
LEMMA SaveOneAgrees ==
  ASSUME WalInv, CallInv, Agreement, NEW c \in Caller, SaveMetadata(c) \/ SaveSnapshot(c)
  PROVE  Agreement'
<1> DEFINE h == Head(todo[c])
<1>1. CallType /\ ~Idle(c) /\ Done(c) /\ (h.op = "SaveMetadata" \/ h.op = "SaveSnapshot")
  BY DEF SaveMetadata, SaveSnapshot, InStore, At, CallInv
<1>2. h \in StepType /\ h.recs \in Seq(Record)
  BY <1>1, HeadStep
<1>3. /\ h.from = 0 /\ Len(h.recs) = 1
      /\ h.op = "SaveMetadata" => h.recs[1] \in MetaRecord
      /\ h.op = "SaveSnapshot" => h.recs[1] \in SnapRecord
      /\ Tail(todo[c]) # <<>> /\ Tail(todo[c])[1] = Step("Append", h.recs, 0)
  BY <1>1, HeadShape
<1> HIDE DEF h
<1>4. PICK r : r = h.recs[1]
  OBVIOUS
<1>5. /\ r \in Record /\ h.recs = <<r>> /\ Key(r) \in Keys(h)
      /\ r.type = IF h.op = "SaveMetadata" THEN "meta" ELSE "snap"
      /\ Key(r) = <<r.type, 0>>
  <2>1. r \in Record /\ h.recs = <<r>>
    BY <1>2, <1>3, <1>4
  <2>2. r.type = IF h.op = "SaveMetadata" THEN "meta" ELSE "snap"
    BY <1>1, <1>3, <1>4 DEF MetaRecord, SnapRecord
  <2>3. Key(r) \in Keys(h)
    BY <1>2, <1>3, <1>4, KeysOfOne
  <2>4. Key(r) = <<r.type, 0>>
    BY <1>1, <2>2 DEF Key
  <2> QED
    BY <2>1, <2>2, <2>3, <2>4
<1>6. Same /\ store \in StoreType
  BY <1>1, StoreStepEffect DEF CallType
<1>7. /\ InStore(c, h.op, store') /\ behind' = behind \cup Keys(h)
      /\ h.op = "SaveMetadata" => store' = [store EXCEPT !.meta = r.term]
      /\ h.op = "SaveSnapshot" => store' = [store EXCEPT !.snap = [index |-> r.index, term |-> r.term]]
  BY <1>1, <1>4 DEF SaveMetadata, SaveSnapshot, InStore, At, h
<1>8. /\ store'.log = store.log /\ Holds(store', r)
      /\ h.op = "SaveMetadata" => store'.snap = store.snap
      /\ h.op = "SaveSnapshot" => store'.meta = store.meta
  <2>1. CASE h.op = "SaveMetadata"
    <3>1. store'.log = store.log /\ store'.snap = store.snap /\ store'.meta = r.term
      BY <1>6, <1>7, <2>1 DEF StoreType
    <3>2. r.type = "meta"
      BY <1>5, <2>1
    <3>3. Holds(store', r)
      BY <3>1, <3>2 DEF Holds
    <3> QED
      BY <2>1, <3>1, <3>3
  <2>2. CASE h.op = "SaveSnapshot"
    <3>1. /\ store'.log = store.log /\ store'.meta = store.meta
          /\ store'.snap = [index |-> r.index, term |-> r.term]
      BY <1>6, <1>7, <2>2 DEF StoreType
    <3>2. r.type = "snap" /\ store'.snap.index = r.index /\ store'.snap.term = r.term
      BY <1>5, <2>2, <3>1
    <3>3. Holds(store', r)
      BY <3>2 DEF Holds
    <3> QED
      BY <2>2, <3>1, <3>3
  <2> QED
    BY <1>1, <2>1, <2>2
<1>9. ASSUME NEW key \in AllKeys \ Keys(h)
      PROVE  SameAt(store, store', key)
  <2>1. key # Key(r) /\ (key[1] = "log" \/ key = <<"meta", 0>> \/ key = <<"snap", 0>>)
    BY <1>5, <1>9 DEF AllKeys, LogKeysFrom
  <2> QED
    BY <1>1, <1>5, <1>8, <2>1 DEF SameAt
<1>10. SequentialLog'
  BY <1>8 DEF Agreement, SequentialLog, Index
<1>11. Ready(c)'
  <2>1. At(c, "Append")' /\ Head(todo'[c]).recs = <<r>>
    <3>1. Step("Append", h.recs, 0).op = "Append" /\ Step("Append", h.recs, 0).recs = h.recs
      BY DEF Step
    <3> QED
      BY <1>1, <1>3, <1>5, <3>1, NextStep
  <2>2. Key(r) \in behind'
    BY <1>5, <1>7
  <2> QED
    BY <1>5, <1>8, <2>1, <2>2, ReadyToAppend
<1> QED
  BY <1>1, <1>6, <1>7, <1>9, <1>10, <1>11, InStoreAgrees DEF h

\* Entries that begin the log, continue it or replace its end leave no gap.
LEMMA PutSequential ==
  ASSUME NEW log \in [Index -> Term \cup {NoTerm}], NEW recs \in Seq(Record), Consecutive(recs),
         recs[1].index = 1 \/ log[recs[1].index - 1] # NoTerm,
         \A i \in Index : log[i] # NoTerm => \A j \in 1..i : log[j] # NoTerm
  PROVE  \A i \in Index : Put(log, recs)[i] # NoTerm => \A j \in 1..i : Put(log, recs)[j] # NoTerm
<1>1. /\ \A k \in 1..Len(recs) : recs[k].index \in Index /\ Put(log, recs)[recs[k].index] = recs[k].term
      /\ \A i \in Index : (\A k \in 1..Len(recs) : recs[k].index # i) => Put(log, recs)[i] = log[i]
  BY PutEffect
<1>2. PICK new : new = Put(log, recs)
  OBVIOUS
<1>3. PICK first : first = recs[1].index
  OBVIOUS
<1>4. /\ Len(recs) \in Nat \ {0} /\ first \in Index /\ MaxIndex \in Nat
      /\ \A k \in 1..Len(recs) : recs[k].index = first + k - 1 /\ recs[k].term # NoTerm
  <2>1. Len(recs) \in Nat \ {0} /\ MaxIndex \in Nat
    BY PersistenceAssumption DEF Consecutive
  <2>2. 1 \in 1..Len(recs)
    BY <2>1
  <2>3. first \in Index
    BY <1>3, <2>2 DEF Consecutive, LogRecord
  <2>4. \A k \in 1..Len(recs) : recs[k].index = first + k - 1 /\ recs[k].term # NoTerm
    BY <1>3 DEF Consecutive, LogRecord, Term, NoTerm
  <2> QED
    BY <2>1, <2>3, <2>4
<1>5. \A i \in Index : (first <= i /\ i < first + Len(recs)) => new[i] # NoTerm
  <2>1. TAKE i \in Index
  <2>2. HAVE first <= i /\ i < first + Len(recs)
  <2>3. i - first + 1 \in 1..Len(recs) /\ first + (i - first + 1) - 1 = i
    BY <1>4, <2>2 DEF Index
  <2>4. PICK k \in 1..Len(recs) : k = i - first + 1
    BY <2>3
  <2>5. recs[k].index = i /\ recs[k].term # NoTerm
    BY <1>4, <2>3, <2>4
  <2> QED
    BY <1>1, <1>2, <2>5
<1>6. \A i \in Index : ~(first <= i /\ i < first + Len(recs)) => new[i] = log[i]
  <2>1. TAKE i \in Index
  <2>2. HAVE ~(first <= i /\ i < first + Len(recs))
  <2>3. \A k \in 1..Len(recs) : recs[k].index # i
    BY <1>4, <2>2 DEF Index
  <2> QED
    BY <1>1, <1>2, <2>3
<1>7. ASSUME NEW i \in Index, new[i] # NoTerm, NEW j \in 1..i
      PROVE  new[j] # NoTerm
  <2>1. j \in Index /\ j \in Nat /\ i \in Nat /\ j <= i /\ first \in Nat
    BY <1>4 DEF Index
  <2>2. CASE first <= j /\ j < first + Len(recs)
    BY <1>5, <2>1, <2>2
  <2>3. CASE ~(first <= j /\ j < first + Len(recs))
    <3>1. new[j] = log[j]
      BY <1>6, <2>1, <2>3
    <3>2. CASE first <= i /\ i < first + Len(recs)
      <4>1. j < first
        BY <1>4, <2>1, <2>3, <3>2
      <4>2. first - 1 \in Index /\ j \in 1..(first - 1) /\ log[first - 1] # NoTerm
        BY <1>3, <1>4, <2>1, <4>1 DEF Index
      <4> QED
        BY <3>1, <4>2
    <3>3. CASE ~(first <= i /\ i < first + Len(recs))
      <4>1. log[i] # NoTerm
        BY <1>6, <1>7, <3>3
      <4> QED
        BY <3>1, <4>1
    <3> QED
      BY <3>2, <3>3
  <2> QED
    BY <2>2, <2>3
<1> QED
  BY <1>2, <1>7

\* PersistLogEntries stores its entries.
LEMMA SaveLogAgrees ==
  ASSUME WalInv, CallInv, Agreement, NEW c \in Caller, SaveLogEntries(c)
  PROVE  Agreement'
<1> DEFINE h == Head(todo[c])
<1>1. /\ CallType /\ ~Idle(c) /\ Done(c) /\ h.op = "SaveLogEntries" /\ At(c, "SaveLogEntries")
      /\ store' = [store EXCEPT !.log = Put(@, h.recs)] /\ behind' = behind \cup Keys(h)
      /\ InStore(c, "SaveLogEntries", store')
  BY DEF SaveLogEntries, InStore, At, CallInv
<1>2. h \in StepType /\ h.recs \in Seq(Record)
  BY <1>1, HeadStep
<1>3. /\ h.from = 0 /\ Consecutive(h.recs)
      /\ Tail(todo[c]) # <<>> /\ Tail(todo[c])[1] = Step("AppendBatch", h.recs, 0)
      /\ Len(Tail(todo[c])) > 1 /\ Tail(todo[c])[2] = Step("Sync", h.recs, 0)
  BY <1>1, HeadShape
<1>4. h.recs[1].index = 1 \/ store.log[h.recs[1].index - 1] # NoTerm
  BY <1>1 DEF Agreement, Ready
<1> HIDE DEF h
<1>5. PICK recs : recs = h.recs
  OBVIOUS
<1>6. Same /\ store \in StoreType /\ store.log \in [Index -> Term \cup {NoTerm}]
  BY <1>1, StoreStepEffect DEF CallType, StoreType
<1>7. store'.log = Put(store.log, recs) /\ store'.meta = store.meta /\ store'.snap = store.snap
  BY <1>1, <1>5, <1>6 DEF StoreType
<1>8. /\ \A k \in 1..Len(recs) :
           recs[k].index \in Index /\ Put(store.log, recs)[recs[k].index] = recs[k].term
      /\ \A i \in Index : (\A k \in 1..Len(recs) : recs[k].index # i) =>
           Put(store.log, recs)[i] = store.log[i]
  BY <1>2, <1>3, <1>5, <1>6, PutEffect
<1>9. \A k \in 1..Len(recs) : recs[k] \in Record /\ recs[k].type = "log"
  BY <1>3, <1>5 DEF Consecutive, LogRecord, Record
<1>10. \A k \in 1..Len(recs) : Key(recs[k]) \in Keys(h) /\ Key(recs[k]) = <<"log", recs[k].index>>
  <2>1. Keys(h) = {Key(recs[i]) : i \in 1..Len(recs)}
    BY <1>2, <1>3, <1>5, KeysOfOne
  <2> QED
    BY <1>9, <2>1 DEF Key
<1>11. ASSUME NEW key \in AllKeys \ Keys(h)
       PROVE  SameAt(store, store', key)
  <2>1. CASE key[1] = "log"
    <3>1. PICK i \in Index : key = <<"log", i>>
      BY <2>1 DEF AllKeys, LogKeysFrom, Index
    <3>2. \A k \in 1..Len(recs) : recs[k].index # i
      BY <1>10, <1>11, <3>1
    <3>3. store'.log[i] = store.log[i]
      BY <1>7, <1>8, <3>2
    <3> QED
      BY <3>1, <3>3 DEF SameAt
  <2>2. CASE key[1] # "log"
    BY <1>7, <2>2 DEF SameAt
  <2> QED
    BY <2>1, <2>2
<1>12. SequentialLog'
  <2>1. \A i \in Index : store.log[i] # NoTerm => \A j \in 1..i : store.log[j] # NoTerm
    BY DEF Agreement, SequentialLog
  <2>2. PICK old : old = store.log
    OBVIOUS
  <2>3. /\ old \in [Index -> Term \cup {NoTerm}] /\ recs \in Seq(Record) /\ Consecutive(recs)
        /\ recs[1].index = 1 \/ old[recs[1].index - 1] # NoTerm
        /\ \A i \in Index : old[i] # NoTerm => \A j \in 1..i : old[j] # NoTerm
    BY <1>2, <1>3, <1>4, <1>5, <1>6, <2>1, <2>2
  <2>4. \A i \in Index : Put(old, recs)[i] # NoTerm => \A j \in 1..i : Put(old, recs)[j] # NoTerm
    BY <2>3, PutSequential
  <2> QED
    BY <1>7, <2>2, <2>4 DEF SequentialLog, Index
<1>13. Ready(c)'
  <2>1. /\ Step("AppendBatch", recs, 0).op = "AppendBatch" /\ Step("AppendBatch", recs, 0).recs = recs
        /\ Step("Sync", recs, 0).recs = recs /\ Step("Sync", recs, 0).from = 0
    BY DEF Step
  <2>2. /\ todo'[c] = Tail(todo[c]) /\ Head(todo'[c]).recs = recs
        /\ todo'[c][2] = Step("Sync", recs, 0)
        /\ \A op : At(c, op)' <=> op = "AppendBatch"
    <3>1. /\ Tail(todo[c])[1].op = "AppendBatch" /\ Tail(todo[c])[1].recs = recs
          /\ Tail(todo[c])[2] = Step("Sync", recs, 0)
      BY <1>3, <1>5, <2>1
    <3>2. /\ todo'[c] = Tail(todo[c]) /\ Head(todo'[c]) = Tail(todo[c])[1]
          /\ \A op : At(c, op)' <=> Tail(todo[c])[1].op = op
      BY <1>1, <1>3, NextStep
    <3> QED
      BY <3>1, <3>2
  <2>3. \A k \in 1..Len(recs) : Holds(store', recs[k]) /\ Key(recs[k]) \in behind'
    <3>1. TAKE k \in 1..Len(recs)
    <3>2. store'.log[recs[k].index] = recs[k].term /\ recs[k].type = "log"
      BY <1>7, <1>8, <1>9
    <3> QED
      BY <1>1, <1>10, <3>2 DEF Holds
  <2>4. \A key \in Keys(todo'[c][2]) : \E k \in 1..Len(recs) : key = Key(recs[k])
    BY <2>1, <2>2 DEF Keys
  <2> QED
    BY <2>2, <2>3, <2>4 DEF Ready
<1> QED
  BY <1>1, <1>6, <1>11, <1>12, <1>13, InStoreAgrees DEF h

\* DeleteLogEntriesFrom deletes the entries in the store.
LEMMA DeleteAgrees ==
  ASSUME WalInv, CallInv, Agreement, NEW c \in Caller, DeleteFrom(c)
  PROVE  Agreement'
<1> DEFINE h == Head(todo[c])
<1>1. /\ CallType /\ ~Idle(c) /\ Done(c) /\ h.op = "DeleteFrom" /\ At(c, "DeleteFrom")
      /\ store' = [store EXCEPT !.log = Without(@, h.from)] /\ behind' = behind \cup Keys(h)
      /\ InStore(c, "DeleteFrom", store') /\ trunc' = trunc
  BY DEF DeleteFrom, InStore, At, CallInv, walVars
<1>2. h \in StepType
  BY <1>1, HeadStep
<1>3. /\ h.recs = <<>> /\ h.from \in Index
      /\ Tail(todo[c]) # <<>> /\ Tail(todo[c])[1] = Step("Truncate", <<>>, h.from)
  BY <1>1, HeadShape
<1>4. store.snap.index < h.from
  BY <1>1 DEF Agreement, Ready
<1>5. trunc.stage = "no"
  <2>1. ~At(c, "Truncate") /\ WalType
    BY <1>1 DEF At, WalInv
  <2> QED
    BY <1>1, <2>1, OnlyOneTruncates
<1> HIDE DEF h
<1>6. PICK from : from = h.from
  OBVIOUS
<1>7. Same /\ store \in StoreType /\ store.log \in [Index -> Term \cup {NoTerm}]
  BY <1>1, StoreStepEffect DEF CallType, StoreType
<1>8. store'.log = Without(store.log, from) /\ store'.meta = store.meta /\ store'.snap = store.snap
  BY <1>1, <1>6, <1>7 DEF StoreType
<1>9. \A i \in Index : store'.log[i] = IF i >= from THEN NoTerm ELSE store.log[i]
  BY <1>8 DEF Without
<1>10. LogKeysFrom(from) \subseteq Keys(h) /\ from \in 1..MaxIndex /\ MaxIndex \in Nat
  BY <1>3, <1>6, PersistenceAssumption DEF Keys, Index
<1>11. ASSUME NEW key \in AllKeys \ Keys(h)
       PROVE  SameAt(store, store', key)
  <2>1. CASE key[1] = "log"
    <3>1. PICK i \in Index : key = <<"log", i>>
      BY <2>1 DEF AllKeys, LogKeysFrom, Index
    <3>2. ~(i >= from)
      <4>1. SUFFICES ASSUME i >= from
                     PROVE  key \in LogKeysFrom(from)
        BY <1>10, <1>11
      <4>2. i \in from..MaxIndex
        BY <1>10, <4>1 DEF Index
      <4> QED
        BY <3>1, <4>2 DEF LogKeysFrom
    <3>3. store'.log[i] = store.log[i]
      BY <1>9, <3>2
    <3> QED
      BY <3>1, <3>3 DEF SameAt
  <2>2. CASE key[1] # "log"
    BY <1>8, <2>2 DEF SameAt
  <2> QED
    BY <2>1, <2>2
<1>12. SequentialLog'
  <2>1. \A i \in Index : store.log[i] # NoTerm => \A j \in 1..i : store.log[j] # NoTerm
    BY DEF Agreement, SequentialLog
  <2>2. ASSUME NEW i \in Index, store'.log[i] # NoTerm, NEW j \in 1..i
        PROVE  store'.log[j] # NoTerm
    <3>1. ~(i >= from) /\ store.log[i] # NoTerm
      BY <1>9, <2>2
    <3>2. ~(j >= from) /\ j \in Index
      BY <1>10, <3>1 DEF Index
    <3> QED
      BY <1>9, <2>1, <3>1, <3>2
  <2> QED
    BY <2>2 DEF SequentialLog, Index
<1>13. Ready(c)'
  <2>1. /\ Step("Truncate", <<>>, from).op = "Truncate" /\ Step("Truncate", <<>>, from).from = from
    BY DEF Step
  <2>2. Head(todo'[c]).from = from /\ \A op : At(c, op)' <=> op = "Truncate"
    BY <1>1, <1>3, <1>6, <2>1, NextStep
  <2>3. store'.snap.index < from /\ \A i \in Index : i >= from => store'.log[i] = NoTerm
    BY <1>4, <1>6, <1>8, <1>9
  <2>4. LogKeysFrom(from) \subseteq behind'
    BY <1>1, <1>10
  <2>5. ~Rewriting'
    BY <1>1, <1>5 DEF Rewriting
  <2> QED
    BY <2>2, <2>3, <2>4, <2>5 DEF Ready, Index
<1> QED
  BY <1>1, <1>7, <1>11, <1>12, <1>13, InStoreAgrees DEF h

\* A record about a key that is behind goes to the log.
LEMMA AddedAgrees ==
  ASSUME WalInv, Agreement, NEW r \in Record, Added(r), Key(r) \in behind,
         store' = store, behind' = behind
  PROVE  /\ SequentialLog'
         /\ \A key \in AllKeys \ behind' : Agrees(View', store', key)
         /\ \A i \in 1..Len(View') : i > Covered' => Key(View'[i]) \in behind'
         /\ \A key : (Key(r) # key /\ Agrees(View, store, key)) => Agrees(View', store', key)
         /\ Holds(store, r) => Agrees(View', store', Key(r))
<1>1. PICK w, v : w = View /\ v = View'
  OBVIOUS
<1>2. w \in Seq(Record) /\ v = Append(w, r) /\ Covered' = Covered /\ Len(w) \in Nat
  <2>1. View \in Seq(Record)
    BY AbstractLog DEF WalInv
  <2> QED
    BY <1>1, <2>1 DEF Added
<1>3. \A key : (Key(r) # key /\ Agrees(w, store, key)) => Agrees(v, store, key)
  BY <1>2, AgreesAppend
<1>4. Holds(store, r) => Agrees(v, store, Key(r))
  BY <1>2, AgreesAppend
<1>5. \A key \in AllKeys \ behind : Agrees(v, store, key)
  BY <1>1, <1>3 DEF Agreement
<1>6. ASSUME NEW i \in 1..Len(v), i > Covered'
      PROVE  Key(v[i]) \in behind
  <2>1. (i \in 1..Len(w) /\ v[i] = w[i]) \/ v[i] = r
    BY <1>2
  <2>2. CASE i \in 1..Len(w) /\ v[i] = w[i]
    BY <1>1, <1>2, <1>6, <2>2 DEF Agreement
  <2> QED
    BY <2>1, <2>2
<1>7. SequentialLog'
  BY DEF Agreement, SequentialLog, Index
<1> QED
  BY <1>1, <1>3, <1>4, <1>5, <1>6, <1>7

\* The Append of PersistMetadata and PersistSnapshot.
LEMMA WalAppendAgrees ==
  ASSUME WalInv, CallInv, Agreement, ~damaged, NEW c \in Caller, WalAppend(c)
  PROVE  Agreement'
<1>1. /\ CallType /\ ~Idle(c) /\ Done(c) /\ At(c, "Append") /\ Head(todo[c]).op = "Append"
      /\ store' = store /\ behind' = behind
  BY DEF WalAppend, At, CallInv, OnlyWal, historyVars
<1>2. PICK r : r = Head(todo[c]).recs[1]
  OBVIOUS
<1>3. r \in Record /\ Added(r)
  BY <1>2, WalAppendEffect
<1>4. /\ Head(todo[c]).from = 0 /\ Len(Head(todo[c]).recs) = 1
      /\ Tail(todo[c]) # <<>> /\ Tail(todo[c])[1] = Step("Sync", Head(todo[c]).recs, 0)
  BY <1>1, HeadShape
<1>5. Holds(store, r) /\ Key(r) \in behind
  <2>1. \A i \in 1..Len(Head(todo[c]).recs) :
          Holds(store, Head(todo[c]).recs[i]) /\ Key(Head(todo[c]).recs[i]) \in behind
    BY <1>1 DEF Agreement, Ready
  <2>2. 1 \in 1..Len(Head(todo[c]).recs)
    <3>1. Len(Head(todo[c]).recs) = 1 /\ 1 \in 1..1
      BY <1>4
    <3> QED
      BY ONLY <3>1
  <2> QED
    BY <1>2, <2>1, <2>2
<1>6. /\ SequentialLog'
      /\ \A key \in AllKeys \ behind' : Agrees(View', store', key)
      /\ \A i \in 1..Len(View') : i > Covered' => Key(View'[i]) \in behind'
      /\ Agrees(View', store', Key(r))
  BY <1>1, <1>3, <1>5, AddedAgrees
<1>7. /\ \A d \in Caller : d # c => todo'[d] = todo[d]
      /\ Head(todo'[c]) = Step("Sync", Head(todo[c]).recs, 0)
      /\ \A op : At(c, op)' <=> Tail(todo[c])[1].op = op
  BY <1>1, <1>4, NextStep
<1>8. \A op : At(c, op)' <=> op = "Sync"
  <2>1. Tail(todo[c])[1].op = "Sync"
    BY <1>4 DEF Step
  <2> QED
    BY <1>7, <2>1
<1>9. Ready(c)'
  <2>1. Keys(Head(todo'[c])) = {Key(r)}
    <3>1. PICK recs : recs = Head(todo[c]).recs
      OBVIOUS
    <3>2. Len(recs) = 1 /\ recs[1] = r
      BY <1>2, <1>4, <3>1
    <3>3. Step("Sync", recs, 0).recs = recs /\ Step("Sync", recs, 0).from = 0
      BY DEF Step
    <3>4. Keys(Step("Sync", recs, 0)) = {Key(r)}
      BY <3>2, <3>3 DEF Keys
    <3> QED
      BY <1>7, <3>1, <3>4
  <2>2. \A key \in Keys(Head(todo'[c])) : Agrees(View', store', key)
    BY <1>6, <2>1
  <2> QED
    BY <1>8, <2>2 DEF Ready
<1> QED
  BY <1>1, <1>6, <1>7, <1>8, <1>9, AgreementKept

\* A record of AppendBatch.
LEMMA BatchAppendAgrees ==
  ASSUME WalInv, CallInv, Agreement, ~damaged, NEW c \in Caller, BatchAppend(c)
  PROVE  Agreement'
<1>1. PICK recs : recs = Head(todo[c]).recs
  OBVIOUS
<1>2. /\ CallType /\ ~Idle(c) /\ At(c, "AppendBatch") /\ Head(todo[c]).op = "AppendBatch"
      /\ store' = store /\ behind' = behind /\ recs # <<>>
  BY <1>1 DEF BatchAppend, At, CallInv, OnlyWal, historyVars
<1>3. recs \in Seq(Record) /\ Len(todo[c]) \in Nat
  BY <1>1, <1>2, HeadStep
<1>4. PICK r : r = recs[1]
  OBVIOUS
<1>5. /\ r \in Record /\ Added(r) /\ todo'[c] # <<>> /\ Len(todo'[c]) = Len(todo[c])
      /\ todo'[c][1].op = "AppendBatch" /\ todo'[c][1].recs = Tail(recs)
      /\ \A k \in 2..Len(todo[c]) : todo'[c][k] = todo[c][k]
      /\ \A d \in Caller : d # c => todo'[d] = todo[d]
  BY <1>1, <1>4, BatchAppendEffect
<1>6. /\ Len(recs) \in Nat \ {0} /\ Tail(recs) \in Seq(Record) /\ Len(Tail(recs)) = Len(recs) - 1
      /\ \A i \in 1..Len(Tail(recs)) : i + 1 \in 1..Len(recs) /\ Tail(recs)[i] = recs[i + 1]
      /\ \A i \in 2..Len(recs) : i - 1 \in 1..Len(Tail(recs)) /\ Tail(recs)[i - 1] = recs[i]
  BY <1>2, <1>3
<1>7. \A i \in 1..Len(recs) : Holds(store, recs[i]) /\ Key(recs[i]) \in behind
  BY <1>1, <1>2 DEF Agreement, Ready
<1>8. Holds(store, r) /\ Key(r) \in behind
  BY <1>4, <1>6, <1>7
<1>9. /\ SequentialLog'
      /\ \A key \in AllKeys \ behind' : Agrees(View', store', key)
      /\ \A i \in 1..Len(View') : i > Covered' => Key(View'[i]) \in behind'
      /\ \A key : (Key(r) # key /\ Agrees(View, store, key)) => Agrees(View', store', key)
      /\ Agrees(View', store', Key(r))
  BY <1>2, <1>5, <1>8, AddedAgrees
<1>10. Head(todo'[c]) = todo'[c][1] /\ \A op : At(c, op)' <=> op = "AppendBatch"
  <2>1. Head(todo'[c]) = todo'[c][1]
    OBVIOUS
  <2> QED
    BY <1>5, <2>1 DEF At, Idle
<1>11. todo'[c][2] = todo[c][2]
  <2>1. Tail(todo[c]) # <<>> /\ Len(Tail(todo[c])) = Len(todo[c]) - 1 /\ Tail(todo[c]) \in Seq(StepType)
    BY <1>2, HeadShape, HeadStep
  <2>2. 2 \in 2..Len(todo[c])
    BY <1>3, <2>1
  <2> QED
    BY <1>5, <2>2
<1>12. Ready(c)'
  <2>1. \A i \in 1..Len(Tail(recs)) :
          Holds(store', Tail(recs)[i]) /\ Key(Tail(recs)[i]) \in behind'
    BY <1>2, <1>6, <1>7
  <2>2. ASSUME NEW key \in Keys(todo[c][2])
        PROVE  \/ Agrees(View', store', key)
               \/ \E i \in 1..Len(Tail(recs)) : key = Key(Tail(recs)[i])
    <3>1. Agrees(View, store, key) \/ \E i \in 1..Len(recs) : key = Key(recs[i])
      BY <1>1, <1>2, <2>2 DEF Agreement, Ready
    <3>2. CASE key = Key(r)
      BY <1>9, <3>2
    <3>3. CASE key # Key(r) /\ Agrees(View, store, key)
      BY <1>9, <3>3
    <3>4. ASSUME key # Key(r), NEW i \in 1..Len(recs), key = Key(recs[i])
          PROVE  \E j \in 1..Len(Tail(recs)) : key = Key(Tail(recs)[j])
      <4>1. i \in 2..Len(recs)
        BY <1>4, <1>6, <3>4
      <4>2. i - 1 \in 1..Len(Tail(recs)) /\ Tail(recs)[i - 1] = recs[i]
        BY <1>6, <4>1
      <4> QED
        BY <3>4, <4>2
    <3> QED
      BY <3>1, <3>2, <3>3, <3>4
  <2> QED
    <3>1. /\ ~At(c, "SaveLogEntries")' /\ ~At(c, "DeleteFrom")' /\ ~At(c, "Truncate")'
          /\ ~At(c, "Append")' /\ ~At(c, "Sync")'
      BY <1>10
    <3>2. Head(todo'[c]).recs = Tail(recs)
      BY <1>5, <1>10
    <3>3. /\ \A i \in 1..Len(Head(todo'[c]).recs) :
               Holds(store', Head(todo'[c]).recs[i]) /\ Key(Head(todo'[c]).recs[i]) \in behind'
          /\ \A key \in Keys(todo'[c][2]) :
               \/ Agrees(View', store', key)
               \/ \E i \in 1..Len(Head(todo'[c]).recs) : key = Key(Head(todo'[c]).recs[i])
      BY ONLY <1>11, <2>1, <2>2, <3>2
    <3> QED
      BY ONLY <3>1, <3>3 DEF Ready
<1>13. At(c, "AppendBatch")'
  BY <1>10
<1> QED
  BY <1>2, <1>5, <1>9, <1>12, <1>13, AgreementKept

\* The Sync of a batch, and of a call.
LEMMA SyncAgrees ==
  ASSUME WalInv, CallInv, Agreement, ~damaged, NEW c \in Caller, BatchSync(c) \/ WalSync(c)
  PROVE  Agreement'
<1>1. /\ CallType /\ ~Idle(c) /\ Done(c) /\ store' = store
      /\ \/ At(c, "AppendBatch") /\ Head(todo[c]).recs = <<>> /\ behind' = behind
         \/ At(c, "Sync") /\ behind' = behind \ Keys(Head(todo[c]))
  BY DEF BatchSync, WalSync, At, CallInv, OnlyWal, historyVars
<1>2. Synced /\ buffer' = <<>>
  BY SyncStepEffect
<1>3. View' = View /\ Covered' = Len(View) /\ Len(View) \in Nat
  <2>1. View \in Seq(Record)
    BY AbstractLog DEF WalInv
  <2> QED
    BY <1>2, <2>1 DEF Synced
<1>4. \A key \in AllKeys \ behind' : Agrees(View', store', key)
  <2>1. TAKE key \in AllKeys \ behind'
  <2>2. key \in AllKeys \ behind \/ (At(c, "Sync") /\ key \in Keys(Head(todo[c])))
    BY <1>1
  <2>3. Agrees(View, store, key)
    BY <2>2 DEF Agreement, Ready
  <2> QED
    BY <1>1, <1>3, <2>3
<1>5. \A i \in 1..Len(View') : i > Covered' => Key(View'[i]) \in behind'
  BY <1>3
<1>6. SequentialLog'
  BY <1>1 DEF Agreement, SequentialLog, Index
<1>7. /\ \A d \in Caller : d # c => todo'[d] = todo[d]
      /\ Tail(todo[c]) # <<>> =>
           /\ Head(todo'[c]) = Tail(todo[c])[1]
           /\ \A op : At(c, op)' <=> Tail(todo[c])[1].op = op
      /\ Tail(todo[c]) = <<>> => \A op : ~(At(c, op)')
  BY <1>1, NextStep
<1>8. Ready(c)'
  <2>1. CASE Tail(todo[c]) = <<>>
    <3>1. \A op : ~(At(c, op)')
      BY <1>7, <2>1
    <3> QED
      BY <3>1 DEF Ready
  <2>2. CASE Tail(todo[c]) # <<>>
    <3>1. PICK s : s = Tail(todo[c])[1]
      OBVIOUS
    <3>2. Head(todo'[c]) = s /\ \A op : At(c, op)' <=> s.op = op
      BY <1>7, <2>2, <3>1
    <3>3. CASE At(c, "AppendBatch")
      <4>1. s = todo[c][2] /\ s.op = "Sync"
        BY <1>1, <3>1, <3>3, HeadShape DEF At
      <4>2. Head(todo[c]).recs = <<>>
        BY <1>1, <3>3 DEF At
      <4>3. \A key \in Keys(s) : Agrees(View', store', key)
        <5>1. TAKE key \in Keys(s)
        <5>2. \/ Agrees(View, store, key)
              \/ \E i \in 1..Len(Head(todo[c]).recs) : key = Key(Head(todo[c]).recs[i])
          BY <3>3, <4>1 DEF Agreement, Ready
        <5>3. ~ \E i \in 1..Len(Head(todo[c]).recs) : TRUE
          BY <4>2
        <5> QED
          BY <1>1, <1>3, <5>2, <5>3
      <4>4. \A op : At(c, op)' => op = "Sync"
        BY <3>2, <4>1
      <4> QED
        BY <3>2, <4>3, <4>4 DEF Ready
    <3>4. CASE At(c, "Sync")
      <4>1. \/ s.op = "SaveLogEntries" /\ s.recs[1].index = 1
            \/ s = Step("Sync", <<>>, 0)
        BY <1>1, <2>2, <3>1, <3>4, HeadShape DEF At
      <4>2. CASE s.op = "SaveLogEntries" /\ s.recs[1].index = 1
        <5>1. \A op : At(c, op)' => op = "SaveLogEntries"
          BY <3>2, <4>2
        <5> QED
          BY <3>2, <4>2, <5>1 DEF Ready
      <4>3. CASE s = Step("Sync", <<>>, 0)
        <5>1. s.op = "Sync" /\ s.recs = <<>> /\ s.from = 0
          BY <4>3 DEF Step
        <5>2. \A op : At(c, op)' => op = "Sync"
          BY <3>2, <5>1
        <5>3. Keys(s) = {}
          BY <5>1 DEF Keys
        <5> QED
          BY <3>2, <5>2, <5>3 DEF Ready
      <4> QED
        BY <4>1, <4>2, <4>3
    <3> QED
      BY <1>1, <3>3, <3>4
  <2> QED
    BY <2>1, <2>2
<1> QED
  BY <1>1, <1>2, <1>4, <1>5, <1>6, <1>7, <1>8, AgreementKept

\* What holds of a caller in a Truncate.
LEMMA TruncateReady ==
  ASSUME CallInv, Agreement, NEW c \in Caller, At(c, "Truncate"), NEW from, from = Head(todo[c]).from
  PROVE  /\ from \in Index /\ store.snap.index < from
         /\ \A i \in Index : i >= from => store.log[i] = NoTerm
         /\ LogKeysFrom(from) \subseteq behind
         /\ Rewriting => \A key \in LogKeysFrom(from) : Agrees(View, store, key)
         /\ Tail(todo[c]) # <<>> /\ Tail(todo[c])[1] = Step("Sync", <<>>, from)
<1>1. CallType /\ ~Idle(c) /\ Head(todo[c]).op = "Truncate"
  BY DEF At, CallInv
<1>2. /\ from \in Index
      /\ Tail(todo[c]) # <<>> /\ Tail(todo[c])[1] = Step("Sync", <<>>, from)
  BY <1>1, HeadShape
<1>3. Ready(c)
  BY DEF Agreement
<1> QED
  BY <1>2, <1>3 DEF Ready

\* The steps of a Truncate.
LEMMA TruncateStepAgrees ==
  ASSUME WalInv, CallInv, Agreement, ~damaged', NEW c \in Caller, TruncateBegin(c) \/ TruncateStep(c)
  PROVE  Agreement'
<1>1. PICK from : from = Head(todo[c]).from
  OBVIOUS
<1>2. /\ ~Idle(c) /\ At(c, "Truncate") /\ todo' = todo /\ store' = store /\ behind' = behind
  BY DEF TruncateBegin, TruncateStep, At, OnlyWal, historyVars
<1>3. /\ from \in Index /\ store.snap.index < from
      /\ \A i \in Index : i >= from => store.log[i] = NoTerm
      /\ LogKeysFrom(from) \subseteq behind
      /\ Rewriting => \A key \in LogKeysFrom(from) : Agrees(View, store, key)
  BY <1>1, <1>2, TruncateReady
<1>4. /\ View \in Seq(Record) /\ store \in StoreType /\ store.snap.index \in 0..MaxIndex
      /\ MaxIndex \in Nat
  BY AbstractLog, PersistenceAssumption DEF WalInv, CallInv, CallType, StoreType, Index
<1>5. SequentialLog'
  BY <1>2 DEF Agreement, SequentialLog, Index
<1>6. Head(todo'[c]).from = from /\ \A op : At(c, op)' <=> op = "Truncate"
  <2>1. Head(todo[c]).op = "Truncate" /\ todo'[c] = todo[c] /\ todo'[c] # <<>>
    BY <1>2 DEF At, Idle
  <2> QED
    BY <1>1, <2>1 DEF At, Idle
<1>7. ASSUME Rewriting' => \A key \in LogKeysFrom(from) : Agrees(View', store', key)
      PROVE  Ready(c)'
  <2>1. /\ store'.snap.index < from /\ LogKeysFrom(from) \subseteq behind'
        /\ \A i \in Index : i >= from => store'.log[i] = NoTerm
    BY <1>2, <1>3
  <2> QED
    BY <1>6, <1>7, <2>1 DEF Ready, Index
<1>8. \A d \in Caller : d # c => todo'[d] = todo[d]
  BY <1>2
<1>9. ASSUME Same
      PROVE  /\ \A key \in AllKeys \ behind' : Agrees(View', store', key)
             /\ \A i \in 1..Len(View') : i > Covered' => Key(View'[i]) \in behind'
             /\ Rewriting => \A key \in LogKeysFrom(from) : Agrees(View', store', key)
  BY <1>2, <1>3, <1>9 DEF Agreement, Same
<1>10. CASE TruncateBegin(c)
  <2>1. Same /\ buffer' = <<>> /\ trunc'.stage = "closed"
    BY <1>10, TruncateBeginEffect
  <2>2. ~Rewriting'
    BY <2>1 DEF Rewriting
  <2>3. Ready(c)'
    BY <1>7, <2>2
  <2> QED
    BY <1>2, <1>5, <1>8, <1>9, <2>1, <2>3, AgreementKept
<1>11. CASE TruncateStep(c)
  <2>1. /\ trunc'.stage \in {"removing", "rewriting"} /\ damaged' = damaged
        /\ trunc.stage = "closed" => Trimmed(from - 1)
        /\ trunc.stage # "closed" => Same
        /\ buffer' = <<>> \/ trunc'.stage = "rewriting"
    BY <1>1, <1>11, TruncateStepEffect
  <2>2. At(c, "Truncate")'
    BY <1>6
  <2>3. CASE trunc.stage # "closed"
    <3>1. Rewriting
      BY <1>11, <2>3 DEF TruncateStep, RemoveSegment, RecreateSegment, RewriteRecord, Rewriting
    <3>2. Same
      BY <2>1, <2>3
    <3>3. Ready(c)'
      BY <1>7, <1>9, <3>1, <3>2
    <3> QED
      BY <1>2, <1>5, <1>8, <1>9, <2>1, <2>2, <3>2, <3>3, AgreementKept
  <2>4. CASE trunc.stage = "closed"
    <3>1. PICK w, v, p : w = View /\ v = View' /\ p = from - 1
      OBVIOUS
    <3>2. /\ w \in Seq(Record) /\ v = DL!UpTo(w, p) /\ Covered' = Len(v) /\ p \in 0..MaxIndex
          /\ p \in Nat /\ store.snap.index <= p
      <4>1. v = DL!UpTo(w, p) /\ Covered' = Len(v)
        BY <2>1, <2>4, <3>1 DEF Trimmed
      <4>2. p \in 0..MaxIndex /\ p \in Nat /\ store.snap.index <= p
        BY <1>3, <1>4, <3>1 DEF Index
      <4> QED
        BY <1>4, <3>1, <4>1, <4>2
    <3>3. ASSUME NEW key \in AllKeys \ behind
          PROVE  Agrees(v, store, key)
      <4>1. Agrees(w, store, key)
        BY <3>1 DEF Agreement
      <4>2. key[1] = "log" => key[2] <= p
        <5>1. SUFFICES ASSUME key[1] = "log"
                       PROVE  key[2] <= p
          OBVIOUS
        <5>2. PICK i \in Index : key = <<"log", i>>
          BY <5>1 DEF AllKeys, LogKeysFrom, Index
        <5>3. ~(i \in from..MaxIndex)
          BY <1>3, <5>2 DEF LogKeysFrom
        <5>4. i <= p
          BY <1>3, <1>4, <3>1, <5>3 DEF Index
        <5> QED
          BY <5>2, <5>4
      <4> QED
        BY <1>4, <3>2, <4>1, <4>2, AgreesTrim
    <3>4. ASSUME NEW key \in LogKeysFrom(from)
          PROVE  Agrees(v, store, key)
      <4>1. PICK i \in from..MaxIndex : key = <<"log", i>>
        BY DEF LogKeysFrom
      <4>2. i \in Index /\ i > p /\ store.log[i] = NoTerm
        BY <1>3, <1>4, <3>1 DEF Index
      <4>3. key[1] = "log" /\ key[2] = i /\ key \in AllKeys
        BY <4>1, <4>2 DEF AllKeys, LogKeysFrom, Index
      <4> QED
        BY <1>4, <3>2, <4>2, <4>3, AgreesTrim
    <3>5. \A i \in 1..Len(v) : ~(i > Covered')
      <4>1. v \in Seq(Record)
        BY <3>2, UpToIsSubsequence, SubsequenceElements
      <4> QED
        BY <3>2, <4>1
    <3>6. Ready(c)'
      BY <1>2, <1>7, <3>1, <3>4
    <3>7. /\ \A key \in AllKeys \ behind' : Agrees(View', store', key)
          /\ \A i \in 1..Len(View') : i > Covered' => Key(View'[i]) \in behind'
      BY <1>2, <3>1, <3>3, <3>5
    <3> QED
      BY <1>2, <1>5, <1>8, <2>1, <2>2, <3>6, <3>7, AgreementKept
  <2> QED
    BY <2>3, <2>4
<1> QED
  BY <1>10, <1>11

\* The end of a Truncate: the log says nothing more about what was deleted.
LEMMA TruncateEndAgrees ==
  ASSUME WalInv, CallInv, Agreement, ~damaged, NEW c \in Caller, TruncateEnd(c)
  PROVE  Agreement'
<1>1. PICK from : from = Head(todo[c]).from
  OBVIOUS
<1>2. /\ CallType /\ ~Idle(c) /\ At(c, "Truncate") /\ Done(c) /\ store' = store /\ behind' = behind
  BY DEF TruncateEnd, At, OnlyWal, historyVars, CallInv
<1>3. trunc.stage = "rewriting" /\ View' = View /\ Covered' = Covered /\ buffer' = <<>>
  BY TruncateEndEffect DEF Same
<1>4. /\ from \in Index /\ Tail(todo[c]) # <<>> /\ Tail(todo[c])[1] = Step("Sync", <<>>, from)
      /\ \A key \in LogKeysFrom(from) : Agrees(View, store, key)
  BY <1>1, <1>2, <1>3, TruncateReady DEF Rewriting
<1>5. /\ \A d \in Caller : d # c => todo'[d] = todo[d]
      /\ Head(todo'[c]) = Step("Sync", <<>>, from)
      /\ \A op : At(c, op)' <=> Tail(todo[c])[1].op = op
  BY <1>2, <1>4, NextStep
<1>6. \A op : At(c, op)' => op = "Sync"
  <2>1. Tail(todo[c])[1].op = "Sync"
    BY <1>4 DEF Step
  <2> QED
    BY <1>5, <2>1
<1>7. Ready(c)'
  <2>1. Step("Sync", <<>>, from).recs = <<>> /\ Step("Sync", <<>>, from).from = from
    BY DEF Step
  <2>2. Keys(Step("Sync", <<>>, from)) \subseteq LogKeysFrom(from)
    BY <2>1 DEF Keys
  <2>3. \A key \in Keys(Head(todo'[c])) : Agrees(View', store', key)
    BY <1>2, <1>3, <1>4, <1>5, <2>2
  <2> QED
    BY <1>6, <2>3 DEF Ready
<1>8. SequentialLog'
  BY <1>2 DEF Agreement, SequentialLog, Index
<1>9. /\ \A key \in AllKeys \ behind' : Agrees(View', store', key)
      /\ \A i \in 1..Len(View') : i > Covered' => Key(View'[i]) \in behind'
  BY <1>2, <1>3 DEF Agreement
<1> QED
  BY <1>2, <1>3, <1>5, <1>7, <1>8, <1>9, AgreementKept

\* Two calls that were under way at the same time stay part of the history.
LEMMA MixedStays ==
  ASSUME CallInv, Next, ~mixed'
  PROVE  ~mixed
<1>1. ASSUME NEW c \in Caller, BeginCall(c)
      PROVE  ~mixed
  BY <1>1 DEF BeginCall, BeginMetadata, BeginLogEntries, BeginDelete, BeginSnapshot,
              BeginCheckpoint, Begin
<1>2. ASSUME NEW c \in Caller,
             StepOfCall(c) \/ StoreFails(c) \/ AppendFails(c) \/ TruncateFails(c)
      PROVE  ~mixed
  BY <1>2 DEF StepOfCall, StoreFails, AppendFails, TruncateFails, SaveMetadata, SaveLogEntries,
              DeleteFrom, SaveSnapshot, InStore, WalAppend, BatchAppend, BatchSync, WalSync,
              TruncateBegin, TruncateUnreadable, TruncateStep, TruncateEnd, AppendPanics,
              Restarted, OnlyWal, historyVars
<1>3. CASE Crash \/ Reopen
  BY <1>3 DEF Crash, Reopen, Restarted, historyVars
<1> QED
  BY <1>1, <1>2, <1>3 DEF Next

\* Every step keeps the agreement of the store and the log.
LEMMA StepAgrees ==
  ASSUME WalInv, CallInv, AgreeInv, Next
  PROVE  AgreeInv'
<1>1. SUFFICES ASSUME ~damaged', ~mixed'
               PROVE  Agreement'
  BY DEF AgreeInv
<1>2. ~damaged /\ ~mixed
  <2>1. damaged => damaged'
    BY StepEffect
  <2> QED
    BY <1>1, <2>1, MixedStays
<1>3. Agreement
  BY <1>2 DEF AgreeInv
<1>4. ASSUME NEW c \in Caller, BeginCall(c)
      PROVE  Agreement'
  BY <1>1, <1>3, <1>4, BeginAgrees
<1>5. ASSUME NEW c \in Caller, StepOfCall(c), ~AppendPanics(c)
      PROVE  Agreement'
  <2>1. CASE SaveMetadata(c) \/ SaveSnapshot(c)
    BY <1>3, <2>1, SaveOneAgrees
  <2>2. CASE SaveLogEntries(c)
    BY <1>3, <2>2, SaveLogAgrees
  <2>3. CASE DeleteFrom(c)
    BY <1>3, <2>3, DeleteAgrees
  <2>4. CASE WalAppend(c)
    BY <1>2, <1>3, <2>4, WalAppendAgrees
  <2>5. CASE BatchAppend(c)
    BY <1>2, <1>3, <2>5, BatchAppendAgrees
  <2>6. CASE BatchSync(c) \/ WalSync(c)
    BY <1>2, <1>3, <2>6, SyncAgrees
  <2>7. CASE TruncateBegin(c) \/ TruncateStep(c)
    BY <1>1, <1>3, <2>7, TruncateStepAgrees
  <2>8. CASE TruncateUnreadable(c)
    BY <1>3, <2>8, ReturnAgrees
  <2>9. CASE TruncateEnd(c)
    BY <1>2, <1>3, <2>9, TruncateEndAgrees
  <2> QED
    BY <1>5, <2>1, <2>2, <2>3, <2>4, <2>5, <2>6, <2>7, <2>8, <2>9 DEF StepOfCall
<1>6. ASSUME NEW c \in Caller, StoreFails(c) \/ AppendFails(c) \/ TruncateFails(c)
      PROVE  Agreement'
  <2>1. CASE StoreFails(c)
    BY <1>3, <2>1, ReturnAgrees
  <2>2. CASE AppendFails(c) \/ TruncateFails(c)
    BY <1>1, <2>2, FailEffect
  <2> QED
    BY <1>6, <2>1, <2>2
<1>7. CASE Crash \/ Reopen \/ \E c \in Caller : AppendPanics(c)
  BY <1>1, <1>3, <1>7, CrashAgrees
<1> QED
  BY <1>4, <1>5, <1>6, <1>7 DEF Next

\* A step that leaves the state alone keeps it too.
LEMMA StutterAgrees ==
  ASSUME WalInv, CallInv, AgreeInv, UNCHANGED vars
  PROVE  AgreeInv'
<1>1. SUFFICES ASSUME ~damaged', ~mixed'
               PROVE  Agreement'
  BY DEF AgreeInv
<1>2. /\ store' = store /\ todo' = todo /\ behind' = behind /\ buffer' = buffer /\ trunc' = trunc
      /\ ~damaged /\ ~mixed
  BY <1>1 DEF vars, walVars, callVars, historyVars
<1>3. View' = View /\ Covered' = Covered
  BY StutterKeeps DEF Same
<1>4. Agreement
  BY <1>2 DEF AgreeInv
<1>5. \A c \in Caller : Ready(c)'
  <2>1. TAKE c \in Caller
  <2>2. Ready(c) /\ \A op : At(c, op)' <=> At(c, op)
    BY <1>2, <1>4 DEF Agreement, At, Idle
  <2>3. Rewriting' <=> Rewriting
    BY <1>2 DEF Rewriting
  <2> QED
    BY <1>2, <1>3, <2>2, <2>3 DEF Ready
<1>6. /\ \A c, d \in Caller : (~Idle(c)' /\ ~Idle(d)') => c = d
      /\ SequentialLog'
      /\ buffer' # <<>> =>
           \E c \in Caller : \/ At(c, "Sync")' \/ At(c, "AppendBatch")'
                             \/ At(c, "Truncate")' /\ trunc'.stage = "rewriting"
  BY <1>2, <1>4 DEF Agreement, Idle, At, SequentialLog
<1>7. /\ \A key \in AllKeys \ behind' : Agrees(View', store', key)
      /\ \A i \in 1..Len(View') : i > Covered' => Key(View'[i]) \in behind'
  BY <1>2, <1>3, <1>4 DEF Agreement
<1> QED
  BY <1>5, <1>6, <1>7 DEF Agreement

\* At first nothing is stored and nothing is logged.
LEMMA InitAgrees ==
  ASSUME Init
  PROVE  AgreeInv
<1>1. /\ View = <<>> /\ store = EmptyStore /\ todo = [c \in Caller |-> <<>>]
      /\ buffer = <<>>
  BY InitialState DEF Init, WalInit
<1>2. \A c \in Caller : Idle(c) /\ \A op : ~At(c, op)
  BY <1>1 DEF Idle, At
<1>3. \A c \in Caller : Ready(c)
  BY <1>2 DEF Ready
<1>4. SequentialLog
  BY <1>1 DEF SequentialLog, EmptyStore
<1>5. \A key \in AllKeys : StoredIn(store, key) = NoTerm
  <2>1. TAKE key \in AllKeys
  <2>2. (\E i \in Index : key = <<"log", i>>) \/ key = <<"meta", 0>> \/ key = <<"snap", 0>>
    BY DEF AllKeys, LogKeysFrom, Index
  <2>3. /\ \A i \in Index : store.log[i] = NoTerm
        /\ store.meta = NoTerm /\ store.snap.term = NoTerm
    BY <1>1 DEF EmptyStore
  <2> QED
    BY <2>2, <2>3 DEF StoredIn
<1>6. \A key \in AllKeys : Agrees(View, store, key)
  <2>1. \A i \in 1..Len(View) : FALSE
    BY <1>1
  <2> QED
    BY <1>5, <2>1 DEF Agrees
<1>7. \A i \in 1..Len(View) : FALSE
  BY <1>1
<1> QED
  BY <1>1, <1>2, <1>3, <1>4, <1>6, <1>7 DEF AgreeInv, Agreement

\* The invariants imply that a replay of the files finds what the store holds: the last
\* record about a key that is not behind lies in the files, since what is still in the
\* buffer is about keys that are.
LEMMA InvImpliesAgreement ==
  ASSUME WalInv, CallInv, AgreeInv
  PROVE  WalAgreesWithStore
<1>1. SUFFICES ASSUME ~damaged, ~mixed, trunc.stage = "no", NEW key \in AllKeys \ behind
               PROVE  Replayed(key) = Stored(key)
  BY DEF WalAgreesWithStore
<1>2. WalType /\ Agreement
  BY <1>1 DEF WalInv, AgreeInv
<1>3. PICK w : w = View
  OBVIOUS
<1>4. w = RecordsOf(disk) \o buffer /\ Covered = promised
  BY <1>1, <1>3 DEF View, Covered, Rewriting, Written
<1>5. /\ RecordsOf(disk) \in Seq(Record) /\ Len(RecordsOf(disk)) = Len(disk)
      /\ \A i \in 1..Len(disk) : RecordsOf(disk)[i] = disk[i].rec
  BY <1>2, RecordsOfType DEF WalType
<1>6. buffer \in Seq(Record) /\ promised \in 0..Len(disk) /\ Len(disk) \in Nat
  <2>1. disk \in Seq(FilePart)
    BY <1>2 DEF WalType
  <2>2. Len(disk) \in Nat
    BY <2>1
  <2> QED
    BY <1>2, <2>2 DEF WalType
<1>7. /\ w \in Seq(Record) /\ Len(w) = Len(disk) + Len(buffer) /\ Len(buffer) \in Nat
      /\ \A i \in 1..Len(disk) : w[i] = disk[i].rec
  <2>1. PICK a : a = RecordsOf(disk)
    OBVIOUS
  <2>2. a \in Seq(Record) /\ buffer \in Seq(Record)
    BY <1>5, <1>6, <2>1
  <2>3. /\ a \o buffer \in Seq(Record) /\ Len(a \o buffer) = Len(a) + Len(buffer)
        /\ \A i \in 1..Len(a) : (a \o buffer)[i] = a[i]
    BY <2>2, ConcatElements
  <2>4. Len(buffer) \in Nat
    BY <2>2
  <2> QED
    BY <1>4, <1>5, <2>1, <2>3, <2>4
<1>8. Agrees(w, store, key)
  BY <1>1, <1>2, <1>3 DEF Agreement
<1>9. \A i \in 1..Len(w) : i > Len(disk) => Key(w[i]) # key
  <2>1. TAKE i \in 1..Len(w)
  <2>2. HAVE i > Len(disk)
  <2>3. i > Covered
    BY <1>4, <1>6, <1>7, <2>2
  <2> QED
    BY <1>1, <1>2, <1>3, <2>3 DEF Agreement
<1>10. \A i \in 1..Len(w) : i \in 1..Len(disk) \/ i > Len(disk)
  BY <1>6, <1>7
<1>11. \A i \in 1..Len(disk) : i \in 1..Len(w)
  BY <1>6, <1>7
<1> DEFINE T == {i \in 1..Len(disk) : Key(disk[i].rec) = key}
<1>12. Replayed(key) = IF T = {} THEN NoTerm ELSE disk[Max(T)].rec.term
  BY DEF Replayed
<1>13. Stored(key) = StoredIn(store, key)
  BY DEF Stored, StoredIn
<1>14. CASE T = {}
  <2>1. \A i \in 1..Len(w) : Key(w[i]) # key
    BY <1>7, <1>9, <1>10, <1>14
  <2>2. StoredIn(store, key) = NoTerm
    BY <1>8, <2>1 DEF Agrees
  <2> QED
    BY <1>12, <1>13, <1>14, <2>2
<1>15. CASE T # {}
  <2>1. T \subseteq 0..Len(disk)
    BY <1>6
  <2>2. /\ \A i \in T : i \in 1..Len(disk) /\ Key(disk[i].rec) = key
        /\ \A i \in 1..Len(disk) : Key(disk[i].rec) = key => i \in T
    OBVIOUS
  <2> HIDE DEF T
  <2>3. Max(T) \in T /\ \A i \in T : i <= Max(T)
    BY <1>6, <1>15, <2>1, MaxType
  <2>4. PICK m : m = Max(T)
    OBVIOUS
  <2>5. m \in 1..Len(disk) /\ m \in 1..Len(w) /\ w[m] = disk[m].rec /\ Key(w[m]) = key
    BY <1>7, <1>11, <2>2, <2>3, <2>4
  <2>6. \A j \in 1..Len(w) : j > m => Key(w[j]) # key
    <3>1. TAKE j \in 1..Len(w)
    <3>2. HAVE j > m
    <3>3. CASE j > Len(disk)
      BY <1>9, <3>3
    <3>4. CASE j \in 1..Len(disk)
      <4>1. j \notin T
        BY <2>3, <2>4, <2>5, <3>2, <3>4
      <4> QED
        BY <1>7, <2>2, <3>4, <4>1
    <3> QED
      BY <1>10, <3>3, <3>4
  <2>7. Holds(store, w[m])
    BY <1>8, <2>5, <2>6 DEF Agrees, LastAbout
  <2>8. PICK r : r = w[m]
    OBVIOUS
  <2>9. r \in Record /\ Key(r) = key /\ Holds(store, r)
    BY <1>7, <2>5, <2>7, <2>8
  <2>10. /\ r.type \in {"log", "meta", "snap"} /\ key[1] = r.type
         /\ r.type = "log" => key[2] = r.index
    BY <2>9, KeyFields
  <2>11. StoredIn(store, key) = r.term
    BY <2>9, <2>10 DEF Holds, StoredIn
  <2> QED
    BY <1>12, <1>13, <1>15, <2>4, <2>5, <2>8, <2>11
<1> QED
  BY <1>14, <1>15

\* The invariants imply that an idle layer verifies.
LEMMA InvImpliesIntegrity ==
  ASSUME WalInv, CallInv, AgreeInv
  PROVE  IntegrityHolds
<1>1. SUFFICES ASSUME ~damaged, ~mixed, \A c \in Caller : Idle(c)
               PROVE  SequentialLog /\ Readable
  BY DEF IntegrityHolds, VerifyIntegrity
<1>2. WalType /\ WalGood /\ Agreement
  BY <1>1 DEF WalInv, AgreeInv
<1>3. buffer = <<>>
  BY <1>1, <1>2, BufferEmpty
<1>4. spilled # Torn
  BY <1>2, <1>3 DEF WalType, None, Torn
<1>5. \A i \in 1..Len(disk) : disk[i].part = Whole
  BY <1>2 DEF WalGood, InOrder
<1> QED
  BY <1>2, <1>4, <1>5 DEF Readable, Agreement

\* The store and the log agree in every reachable state.
THEOREM AgreementInvariant == Spec => [](WalInv /\ CallInv /\ AgreeInv)
<1>1. Init => WalInv /\ CallInv /\ AgreeInv
  BY InitialState, InitAgrees
<1>2. WalInv /\ CallInv /\ AgreeInv /\ [Next]_vars => (WalInv /\ CallInv /\ AgreeInv)'
  BY StepEffect, StutterKeeps, StepAgrees, StutterAgrees
<1> QED
  BY <1>1, <1>2, PTL DEF Spec

\* The two copies of the persistent state agree, with any number of indices, terms, calls,
\* crashes and losses of power: as long as nothing has damaged the log and no two calls
\* overlapped, a replay of the WAL gives, for every key whose last call came to its end,
\* what the BoltDB store holds.
THEOREM StoreAndWalAgree == Spec => []WalAgreesWithStore
<1>1. WalInv /\ CallInv /\ AgreeInv => WalAgreesWithStore
  BY InvImpliesAgreement
<1> QED
  BY <1>1, AgreementInvariant, PTL

\* VerifyIntegrity and RecoverState succeed between calls under the same conditions: the
\* log in the store has no gap, and every segment of the WAL can be read.
THEOREM RecoverySucceeds == Spec => []IntegrityHolds
<1>1. WalInv /\ CallInv /\ AgreeInv => IntegrityHolds
  BY InvImpliesIntegrity
<1> QED
  BY <1>1, AgreementInvariant, PTL

=============================================================================
