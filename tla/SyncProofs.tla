----------------------------- MODULE SyncProofs -----------------------------
(***************************************************************************)
(* Proofs about parallel instances, for any number of them, any finite map  *)
(* and any number of trims, deaths and restarts.  Only the instance itself  *)
(* writes to its queue directory, so the invariant speaks of one instance   *)
(* at a time; the peers matter for what is imported.                        *)
(***************************************************************************)
EXTENDS Sync, FiniteSetTheorems, TLAPS

FileStates == {Missing, Empty} \cup {Case(b) : b \in SUBSET Bits}
Pcs == {"fuzz", "create", "write", "readdir", "open", "down", "fatal"}
Jobs == [id : Nat, bits : SUBSET Bits, next : {"none", "fuzz", "readdir"}]
Scans == [peer : Fuzzers, min : Nat, next : Nat, cur : Ids,
          listed : SUBSET Ids, must : SUBSET Ids]

\* The types of the variables that the safety properties depend on.
STypeOK ==
  /\ file \in [Fuzzers -> [Ids -> FileStates]]
  /\ synced \in [Fuzzers -> [Fuzzers -> Nat]]
  /\ seen \in [Fuzzers -> SUBSET Bits]
  /\ paths \in [Fuzzers -> Nat]
  /\ pc \in [Fuzzers -> Pcs]
  /\ job \in [Fuzzers -> Jobs]
  /\ scan \in [Fuzzers -> Scans]

Busy(f) == pc[f] \in {"create", "write"}

\* The file being written has a name that was given out and is free.
JobNamed(f) ==
  IF Busy(f)
  THEN /\ job[f].id \in Ids /\ job[f].id < paths[f]
       /\ job[f].next \in {"fuzz", "readdir"}
       /\ file[f][job[f].id] = IF pc[f] = "create" THEN Missing ELSE Empty
  ELSE job[f] = NoJob

\* Every name on disk was given out, and each of them but the first has cost a
\* bit of the map: names do not run out.
NamesBounded(f) ==
  pc[f] # "down" =>
    /\ \A i \in Present(f) : i < paths[f]
    /\ paths[f] <= Cardinality(seen[f]) + 1

\* A case on disk or on its way there, and its bits.
Held(f, i) == file[f][i].st = "case" \/ (job[f].next # "none" /\ job[f].id = i)
HeldBits(f, i) == file[f][i].bits \cup (IF job[f].id = i THEN job[f].bits ELSE {})

\* NoEcho, for the case on its way to the disk, too.
HeldFresh(f) ==
  \A i \in Ids \ {0} : Held(f, i) =>
    \E b \in HeldBits(f, i) :
      \A j \in Ids : j < i => b \notin HeldBits(f, j)

\* All that an instance has seen is held by it.
SeenIsHeld(f) ==
  pc[f] \notin {"down", "fatal"} =>
    seen[f] = job[f].bits \cup UNION {file[f][i].bits : i \in Ids}

Sound(f) == JobNamed(f) /\ NamesBounded(f) /\ HeldFresh(f) /\ SeenIsHeld(f)

\* The inductive invariant.
SInv == STypeOK /\ \A f \in Fuzzers : Sound(f)

-----------------------------------------------------------------------------
(* Facts about the data.                                                    *)

\* The names are the naturals up to the number of bits.
LEMMA IdFacts ==
  /\ MaxId \in Nat /\ 0 \in Ids /\ Ids \subseteq Nat
  /\ \A i \in Nat : i \in Ids <=> i <= MaxId
<1>1. MaxId \in Nat
  BY SyncAssumption, FS_CardinalityType DEF MaxId
<1> QED
  BY <1>1 DEF Ids

\* The three states of a file, told apart by st.
LEMMA FileFacts ==
  /\ Missing \in FileStates /\ Missing.st = "missing" /\ Missing.bits = {}
  /\ Empty \in FileStates /\ Empty.st = "empty" /\ Empty.bits = {}
  /\ \A b \in SUBSET Bits : Case(b) \in FileStates /\ Case(b).st = "case" /\ Case(b).bits = b
  /\ \A x \in FileStates :
       /\ x.bits \subseteq Bits
       /\ x.st = "missing" <=> x = Missing
       /\ x.st = "empty" <=> x = Empty
       /\ x.st \in {"missing", "empty", "case"}
       /\ x.st # "case" => x.bits = {}
<1>1. Missing.st = "missing" /\ Missing.bits = {} /\ Missing \in FileStates
  BY DEF FileStates, Missing
<1>2. Empty.st = "empty" /\ Empty.bits = {} /\ Empty \in FileStates
  BY DEF FileStates, Empty
<1>3. ASSUME NEW b \in SUBSET Bits
      PROVE  Case(b) \in FileStates /\ Case(b).st = "case" /\ Case(b).bits = b
  BY DEF FileStates, Case
<1>4. \A x \in FileStates : x = Missing \/ x = Empty \/ \E b \in SUBSET Bits : x = Case(b)
  BY DEF FileStates
<1> QED
  BY <1>1, <1>2, <1>3, <1>4

\* Nothing to write, and no scan.
LEMMA JobFacts ==
  /\ NoJob \in Jobs /\ NoJob.id = 0 /\ NoJob.bits = {} /\ NoJob.next = "none"
  /\ \A f \in Fuzzers : NoScan(f) \in Scans
BY IdFacts DEF NoJob, Jobs, NoScan, Scans

\* What sync_fuzzers() does to its locals.
LEMMA ScanUpdates ==
  ASSUME NEW s \in Scans
  PROVE  /\ s.peer \in Fuzzers /\ s.cur \in Ids /\ s.next \in Nat
         /\ [s EXCEPT !.cur = 0] \in Scans
         /\ \A i \in Ids : [s EXCEPT !.listed = @ \cup {i}] \in Scans
         /\ \A i \in Ids, n \in Nat :
              [s EXCEPT !.listed = @ \cup {i}, !.cur = i, !.next = n] \in Scans
         /\ \A S : [s EXCEPT !.must = @ \ S] \in Scans
         /\ [s EXCEPT !.must = {}] \in Scans
BY IdFacts DEF Scans

-----------------------------------------------------------------------------
(* One instance at a time.                                                  *)

\* What the steps of one instance leave alone is sound as before.
LEMMA SoundFrame ==
  ASSUME NEW g \in Fuzzers, Sound(g), file'[g] = file[g], seen'[g] = seen[g],
         paths'[g] = paths[g], pc'[g] = pc[g], job'[g] = job[g]
  PROVE  Sound(g)'
BY DEF Sound, JobNamed, Busy, NamesBounded, Present, HeldFresh, Held, HeldBits, SeenIsHeld

\* Steps that neither write nor save: the scan of a peer's directory.
LEMMA ScanSound ==
  ASSUME NEW f \in Fuzzers, Sound(f), pc[f] \in {"fuzz", "readdir", "open"},
         pc'[f] \in {"fuzz", "readdir", "open", "fatal"},
         file'[f] = file[f], seen'[f] = seen[f], paths'[f] = paths[f], job'[f] = job[f]
  PROVE  Sound(f)'
BY DEF Sound, JobNamed, Busy, NamesBounded, Present, HeldFresh, Held, HeldBits, SeenIsHeld

\* A bit that is new to an instance leaves room for one more name.
LEMMA NewBitCounts ==
  ASSUME NEW S \in SUBSET Bits, NEW T \in SUBSET Bits, T \ S # {}
  PROVE  /\ Cardinality(S) \in Nat /\ Cardinality(S \cup T) \in Nat
         /\ Cardinality(S) < MaxId
         /\ Cardinality(S) + 1 <= Cardinality(S \cup T)
<1>1. PICK b \in T : b \notin S
  OBVIOUS
<1>2. IsFiniteSet(S) /\ IsFiniteSet(S \cup T)
  BY SyncAssumption, FS_Subset
<1>3. Cardinality(S) \in Nat /\ Cardinality(S \cup T) \in Nat
  BY <1>2, FS_CardinalityType
<1>4. IsFiniteSet(S \cup {b}) /\ Cardinality(S \cup {b}) = Cardinality(S) + 1
  BY <1>1, <1>2, FS_AddElement
<1>5. Cardinality(S \cup {b}) <= Cardinality(S \cup T)
  BY <1>1, <1>2, FS_Subset
<1>6. Cardinality(S \cup {b}) <= MaxId /\ MaxId \in Nat
  BY <1>1, SyncAssumption, FS_Subset, IdFacts DEF MaxId
<1> QED
  BY <1>3, <1>4, <1>5, <1>6

\* A case with a new bit gets a name of its own, which is a legal one.
LEMMA SaveSound ==
  ASSUME STypeOK, NEW f \in Fuzzers, Sound(f), NEW bits \in SUBSET Bits,
         NEW next \in {"fuzz", "readdir"}, pc[f] \in {"fuzz", "open"},
         save_if_interesting(f, bits, next), file' = file
  PROVE  Sound(f)'
<1> DEFINE n == paths[f]
<1>1. /\ seen'[f] = seen[f] \cup bits /\ paths'[f] = n + 1 /\ pc'[f] = "create"
      /\ job'[f] = [id |-> n, bits |-> bits, next |-> next]
      /\ file'[f] = file[f] /\ bits \ seen[f] # {}
  BY DEF STypeOK, save_if_interesting
<1>2. job[f] = NoJob /\ job[f].bits = {} /\ job[f].next = "none"
  BY JobFacts DEF Sound, JobNamed, Busy
<1>3. n \in Nat /\ seen[f] \in SUBSET Bits /\ file[f] \in [Ids -> FileStates]
  BY DEF STypeOK
<1>4. n <= Cardinality(seen[f]) + 1 /\ \A i \in Present(f) : i < n
  BY DEF Sound, NamesBounded
<1>5. n \in Ids /\ n + 1 <= Cardinality(seen'[f]) + 1
  <2>1. /\ Cardinality(seen[f]) \in Nat /\ Cardinality(seen'[f]) \in Nat
        /\ Cardinality(seen[f]) < MaxId
        /\ Cardinality(seen[f]) + 1 <= Cardinality(seen'[f])
    BY <1>1, <1>3, NewBitCounts
  <2> QED
    BY <1>3, <1>4, <2>1, IdFacts
<1>6. \A i \in Ids : i >= n => file[f][i] = Missing
  BY <1>3, <1>4, IdFacts, FileFacts DEF Present
<1>7. seen[f] = UNION {file[f][i].bits : i \in Ids}
  BY <1>2 DEF Sound, SeenIsHeld
<1> HIDE DEF n
<1>8. JobNamed(f)'
  BY <1>1, <1>3, <1>5, <1>6 DEF JobNamed, Busy
<1>9. NamesBounded(f)'
  <2>1. Present(f)' = Present(f) /\ Present(f) \subseteq Nat
    BY <1>1, IdFacts DEF Present
  <2>2. \A i \in Present(f)' : i < paths'[f]
    BY <1>1, <1>3, <1>4, <2>1
  <2> QED
    BY <1>1, <1>5, <2>2 DEF NamesBounded
<1>10. HeldFresh(f)'
  <2>1. \A i \in Ids : HeldBits(f, i)' = IF i = n THEN bits ELSE file[f][i].bits
    BY <1>1, <1>3, <1>6, FileFacts DEF HeldBits
  <2>2. \A i \in Ids : HeldBits(f, i) = file[f][i].bits
    BY <1>2 DEF HeldBits
  <2>3. ASSUME NEW i \in Ids \ {0}, Held(f, i)'
        PROVE  \E b \in HeldBits(f, i)' : \A j \in Ids : j < i => b \notin HeldBits(f, j)'
    <3>1. CASE i = n
      <4>1. PICK b \in bits : b \notin seen[f]
        BY <1>1
      <4>2. \A j \in Ids : j < i => b \notin HeldBits(f, j)'
        BY <2>1, <3>1, <4>1, <1>7, <1>3, IdFacts
      <4> QED
        BY <2>1, <3>1, <4>1, <4>2
    <3>2. CASE i # n
      <4>1. file[f][i].st = "case" /\ Held(f, i)
        BY <2>3, <3>2, <1>1 DEF Held
      <4>2. i < n
        BY <4>1, <1>6, <1>3, IdFacts, FileFacts
      <4>3. PICK b \in HeldBits(f, i) : \A j \in Ids : j < i => b \notin HeldBits(f, j)
        BY <4>1 DEF Sound, HeldFresh
      <4> QED
        BY <2>1, <2>2, <3>2, <4>2, <4>3, <1>3, IdFacts
    <3> QED
      BY <3>1, <3>2
  <2> QED
    BY <2>3 DEF HeldFresh
<1>11. SeenIsHeld(f)'
  BY <1>1, <1>7 DEF SeenIsHeld
<1> QED
  BY <1>8, <1>9, <1>10, <1>11 DEF Sound

\* open(O_CREAT | O_EXCL) makes the file; it is not there yet.
LEMMA CreateSound ==
  ASSUME STypeOK, NEW f \in Fuzzers, Sound(f), CreateFile(f)
  PROVE  Sound(f)'
<1> DEFINE n == job[f].id
<1>1. n \in Ids /\ n < paths[f] /\ file[f][n] = Missing
  BY DEF Sound, JobNamed, Busy, CreateFile
<1>2. /\ file'[f] = [file[f] EXCEPT ![n] = Empty] /\ pc'[f] = "write" /\ pc[f] = "create"
      /\ seen'[f] = seen[f] /\ paths'[f] = paths[f] /\ job'[f] = job[f]
  BY <1>1 DEF STypeOK, CreateFile
<1>3. file[f] \in [Ids -> FileStates]
  BY DEF STypeOK
<1>4. file'[f][n] = Empty /\ \A i \in Ids \ {n} : file'[f][i] = file[f][i]
  BY <1>1, <1>2, <1>3
<1>5. \A i \in Ids :
        /\ file'[f][i].bits = file[f][i].bits
        /\ file'[f][i].st = "case" <=> file[f][i].st = "case"
  <2>1. /\ file'[f][n].bits = {} /\ file[f][n].bits = {}
        /\ file'[f][n].st # "case" /\ file[f][n].st # "case"
    BY <1>1, <1>4, FileFacts
  <2> HIDE DEF n
  <2> QED
    BY <1>4, <2>1, Zenon
<1> HIDE DEF n
<1>6. JobNamed(f)'
  BY <1>1, <1>2, <1>4 DEF Sound, JobNamed, Busy, n
<1>7. NamesBounded(f)'
  BY <1>1, <1>2, <1>4 DEF Sound, NamesBounded, Present
<1>8. HeldFresh(f)'
  <2>1. \A i \in Ids : HeldBits(f, i)' = HeldBits(f, i) /\ (Held(f, i)' <=> Held(f, i))
    BY <1>2, <1>5 DEF Held, HeldBits
  <2> QED
    BY <2>1 DEF Sound, HeldFresh
<1>9. SeenIsHeld(f)'
  <2>1. {file'[f][i].bits : i \in Ids} = {file[f][i].bits : i \in Ids}
    BY <1>5, Zenon
  <2> QED
    BY <1>2, <2>1 DEF Sound, SeenIsHeld
<1> QED
  BY <1>6, <1>7, <1>8, <1>9 DEF Sound

\* The contents move from the instance to the file.
LEMMA WriteSound ==
  ASSUME STypeOK, NEW f \in Fuzzers, Sound(f), WriteFile(f)
  PROVE  Sound(f)'
<1> DEFINE n == job[f].id
<1>1. /\ n \in Ids /\ n < paths[f] /\ file[f][n] = Empty
      /\ job[f].next \in {"fuzz", "readdir"} /\ job[f].bits \in SUBSET Bits
  BY DEF STypeOK, Jobs, Sound, JobNamed, Busy, WriteFile
<1>2. /\ file'[f] = [file[f] EXCEPT ![n] = Case(job[f].bits)]
      /\ pc'[f] = job[f].next /\ pc[f] = "write"
      /\ seen'[f] = seen[f] /\ paths'[f] = paths[f] /\ job'[f] = NoJob
  BY <1>1 DEF STypeOK, WriteFile
<1>3. file[f] \in [Ids -> FileStates]
  BY DEF STypeOK
<1>4. file'[f][n] = Case(job[f].bits) /\ \A i \in Ids \ {n} : file'[f][i] = file[f][i]
  BY <1>1, <1>2, <1>3
<1>5. \A i \in Ids : HeldBits(f, i)' = HeldBits(f, i) /\ (Held(f, i)' => Held(f, i))
  BY <1>1, <1>2, <1>4, FileFacts, JobFacts DEF HeldBits, Held, n
<1>6. JobNamed(f)'
  BY <1>1, <1>2 DEF JobNamed, Busy
<1>7. NamesBounded(f)'
  BY <1>1, <1>2, <1>4 DEF Sound, NamesBounded, Present
<1>8. HeldFresh(f)'
  BY <1>5 DEF Sound, HeldFresh
<1>9. SeenIsHeld(f)'
  <2>1. seen[f] = job[f].bits \cup UNION {file[f][i].bits : i \in Ids}
    BY <1>2 DEF Sound, SeenIsHeld
  <2>2. UNION {file'[f][i].bits : i \in Ids} = job[f].bits \cup UNION {file[f][i].bits : i \in Ids}
    BY <1>1, <1>4, FileFacts
  <2> QED
    BY <1>2, <2>1, <2>2, JobFacts DEF SeenIsHeld
<1> QED
  BY <1>6, <1>7, <1>8, <1>9 DEF Sound

\* trim_case() takes a case off the disk and keeps it in memory.
LEMMA TrimSound ==
  ASSUME STypeOK, NEW f \in Fuzzers, NEW n \in Ids, Sound(f), trim_case(f, n)
  PROVE  Sound(f)'
<1>1. /\ file'[f] = [file[f] EXCEPT ![n] = Missing]
      /\ pc[f] = "fuzz" /\ pc'[f] = "create" /\ n \in Complete(f)
      /\ seen'[f] = seen[f] /\ paths'[f] = paths[f]
      /\ job'[f] = [id |-> n, bits |-> file[f][n].bits, next |-> "fuzz"]
  BY DEF STypeOK, trim_case
<1>2. job[f] = NoJob
  BY <1>1 DEF Sound, JobNamed, Busy
<1>3. file[f] \in [Ids -> FileStates]
  BY DEF STypeOK
<1>4. file'[f][n] = Missing /\ \A i \in Ids \ {n} : file'[f][i] = file[f][i]
  BY <1>1, <1>3
<1>5. n < paths[f] /\ file[f][n].st = "case"
  BY <1>1 DEF Sound, NamesBounded, Present, Complete
<1>6. \A i \in Ids : HeldBits(f, i)' = HeldBits(f, i) /\ (Held(f, i)' => Held(f, i))
  BY <1>1, <1>2, <1>4, <1>5, FileFacts, JobFacts DEF HeldBits, Held
<1>7. JobNamed(f)'
  BY <1>1, <1>4, <1>5 DEF JobNamed, Busy
<1>8. NamesBounded(f)'
  BY <1>1, <1>4, FileFacts DEF Sound, NamesBounded, Present
<1>9. HeldFresh(f)'
  BY <1>6 DEF Sound, HeldFresh
<1>10. SeenIsHeld(f)'
  <2>1. seen[f] = UNION {file[f][i].bits : i \in Ids}
    BY <1>1, <1>2, JobFacts DEF Sound, SeenIsHeld
  <2>2. UNION {file[f][i].bits : i \in Ids} = file[f][n].bits \cup UNION {file'[f][i].bits : i \in Ids}
    BY <1>4, FileFacts
  <2> QED
    BY <1>1, <2>1, <2>2 DEF SeenIsHeld
<1> QED
  BY <1>7, <1>8, <1>9, <1>10 DEF Sound

\* A death drops the job; the cases on disk stay as they are.
LEMMA CrashSound ==
  ASSUME STypeOK, NEW f \in Fuzzers, Sound(f), Crash(f)
  PROVE  Sound(f)'
<1>1. pc'[f] = "down" /\ job'[f] = NoJob /\ file'[f] = file[f]
  BY DEF STypeOK, Crash
<1>2. \A i \in Ids : HeldBits(f, i)' = file[f][i].bits /\ (Held(f, i)' <=> file[f][i].st = "case")
  BY <1>1, JobFacts DEF HeldBits, Held
<1>3. \A i \in Ids : file[f][i].bits \subseteq HeldBits(f, i)
  BY DEF HeldBits
<1>4. \A i \in Ids : file[f][i].st = "case" => Held(f, i) /\ HeldBits(f, i) = file[f][i].bits
  BY FileFacts, JobFacts DEF Held, HeldBits, Sound, JobNamed, Busy
<1>5. HeldFresh(f)'
  BY <1>2, <1>3, <1>4 DEF Sound, HeldFresh
<1> QED
  BY <1>1, <1>5 DEF Sound, JobNamed, Busy, NamesBounded, SeenIsHeld

-----------------------------------------------------------------------------
(* Restart: the cases are numbered anew.                                    *)

Rank(S, k) == Cardinality({j \in S : j < k})

\* The new numbers are legal names, and keep the order.
LEMMA RankFacts ==
  ASSUME NEW S \in SUBSET Ids
  PROVE  /\ \A k \in S : Rank(S, k) \in Nat /\ Rank(S, k) <= k /\ Rank(S, k) \in Ids
         /\ \A j, k \in S : j < k => Rank(S, j) < Rank(S, k)
         /\ \A j, k \in S : Rank(S, j) = Rank(S, k) => j = k
<1> DEFINE Below(k) == {j \in S : j < k}
<1>1. ASSUME NEW k \in S
      PROVE  IsFiniteSet(Below(k)) /\ Rank(S, k) \in Nat /\ Rank(S, k) <= k
  <2>1. k \in Nat /\ 0 \in Int /\ k - 1 \in Int
    BY IdFacts
  <2>2. IsFiniteSet(0 .. k - 1) /\ Cardinality(0 .. k - 1) = k
    <3>1. /\ IsFiniteSet(0 .. k - 1)
          /\ Cardinality(0 .. k - 1) = IF 0 > k - 1 THEN 0 ELSE (k - 1) - 0 + 1
      BY <2>1, FS_Interval
    <3> QED
      BY <2>1, <3>1
  <2>3. Below(k) \in SUBSET (0 .. k - 1)
    <3>1. \A j \in S : j \in Nat
      BY IdFacts
    <3>2. \A j \in Below(k) : j \in 0 .. k - 1
      BY <2>1, <3>1
    <3> QED
      BY <3>2
  <2> HIDE DEF Below
  <2>4. IsFiniteSet(Below(k)) /\ Cardinality(Below(k)) <= Cardinality(0 .. k - 1)
    BY <2>2, <2>3, FS_Subset
  <2> QED
    BY <2>2, <2>4, FS_CardinalityType DEF Rank, Below
<1>2. ASSUME NEW j \in S, NEW k \in S, j < k
      PROVE  Rank(S, j) < Rank(S, k)
  <2>1. Below(j) \cup {j} \in SUBSET Below(k) /\ j \notin Below(j)
    <3>1. \A l \in S : l \in Nat
      BY IdFacts
    <3>2. \A l \in Below(j) : l \in Below(k)
      BY <1>2, <3>1
    <3> QED
      BY <1>2, <3>1, <3>2
  <2>2. IsFiniteSet(Below(j)) /\ IsFiniteSet(Below(k))
    BY <1>1
  <2> HIDE DEF Below
  <2>3. Cardinality(Below(j) \cup {j}) = Cardinality(Below(j)) + 1
    BY <2>1, <2>2, FS_AddElement
  <2>4. Cardinality(Below(j) \cup {j}) <= Cardinality(Below(k))
    BY <2>1, <2>2, FS_Subset
  <2>5. Cardinality(Below(j)) \in Nat /\ Cardinality(Below(k)) \in Nat
    BY <2>2, FS_CardinalityType
  <2>6. Cardinality(Below(j)) < Cardinality(Below(k))
    BY <2>3, <2>4, <2>5
  <2> QED
    BY <2>6 DEF Rank, Below
<1>3. ASSUME NEW k \in S PROVE Rank(S, k) \in Ids
  <2>1. k \in Nat /\ k <= MaxId /\ Rank(S, k) \in Nat /\ Rank(S, k) <= k
    BY <1>1, IdFacts
  <2> QED
    BY <2>1, IdFacts
<1>4. ASSUME NEW j \in S, NEW k \in S, Rank(S, j) = Rank(S, k) PROVE j = k
  <2>1. j \in Nat /\ k \in Nat /\ Rank(S, j) \in Nat
    BY <1>1, IdFacts
  <2>2. ~(j < k) /\ ~(k < j)
    BY <1>2, <1>4, <2>1
  <2> QED
    BY <2>1, <2>2
<1> QED
  BY <1>1, <1>2, <1>3, <1>4

\* There are more names than the number of any of them says.
LEMMA RankBound ==
  ASSUME NEW S \in SUBSET Ids, NEW P \in SUBSET Ids,
         \A k \in S : Rank(S, k) \in P, NEW k \in S
  PROVE  Rank(S, k) < Cardinality(P)
<1> DEFINE Below == {j \in S : j < k}
           L == Below \cup {k}
           rank == [j \in L |-> Rank(S, j)]
<1>1. L \subseteq S /\ k \notin Below
  BY IdFacts
<1>2. rank \in Injection(L, P)
  BY <1>1, RankFacts DEF Injection, IsInjective
<1>3. IsFiniteSet(Ids)
  BY IdFacts, FS_Interval DEF Ids
<1>4. IsFiniteSet(P) /\ IsFiniteSet(Below)
  BY <1>1, <1>3, FS_Subset
<1> HIDE DEF rank
<1>5. Cardinality(L) <= Cardinality(P)
  BY <1>2, <1>4, FS_Injection
<1>6. Cardinality(L) = Cardinality(Below) + 1
  BY <1>1, <1>4, FS_AddElement
<1>7. Cardinality(Below) \in Nat /\ Cardinality(P) \in Nat
  BY <1>4, FS_CardinalityType
<1> QED
  BY <1>5, <1>6, <1>7 DEF Rank

\* Cases that show something new each are no more than there are bits, not
\* counting the first.
LEMMA FreshCount ==
  ASSUME NEW c \in [Ids -> SUBSET Bits], NEW P \in SUBSET Ids,
         \A i \in P \ {0} : \E b \in c[i] : \A j \in Ids : j < i => b \notin c[j]
  PROVE  Cardinality(P) <= Cardinality(UNION {c[i] : i \in Ids}) + 1
<1> DEFINE U == UNION {c[i] : i \in Ids}
           Q == P \ {0}
           New(i) == {b \in c[i] : \A j \in Ids : j < i => b \notin c[j]}
           g == [i \in Q |-> CHOOSE b \in New(i) : TRUE]
<1>1. \A i \in Q : g[i] \in c[i] /\ \A j \in Ids : j < i => g[i] \notin c[j]
  <2> TAKE i \in Q
  <2>1. New(i) # {}
    OBVIOUS
  <2>2. g[i] \in New(i)
    BY <2>1
  <2> QED
    BY <2>2
<1> HIDE DEF New
<1>2. g \in [Q -> U]
  BY <1>1
<1>3. ASSUME NEW i \in Q, NEW j \in Q, g[i] = g[j] PROVE i = j
  <2>1. i \in Nat /\ j \in Nat /\ i \in Ids /\ j \in Ids
    BY IdFacts
  <2>2. ~(i < j) /\ ~(j < i)
    BY <1>1, <1>3, <2>1
  <2> QED
    BY <2>1, <2>2
<1> HIDE DEF g
<1>4. g \in Injection(Q, U)
  BY <1>2, <1>3 DEF Injection, IsInjective
<1>5. U \in SUBSET Bits
  OBVIOUS
<1> HIDE DEF U
<1>6. IsFiniteSet(U)
  BY <1>5, SyncAssumption, FS_Subset
<1>7. Cardinality(Q) <= Cardinality(U) /\ IsFiniteSet(Q)
  BY <1>4, <1>6, FS_Injection
<1>8. IsFiniteSet(P)
  <2>1. IsFiniteSet(Ids)
    BY IdFacts, FS_Interval DEF Ids
  <2> QED
    BY <2>1, FS_Subset
<1>9. Cardinality(P) <= Cardinality(Q) + 1
  <2>1. Cardinality(P) \in Nat
    BY <1>8, FS_CardinalityType
  <2>2. Cardinality(Q) = IF 0 \in P THEN Cardinality(P) - 1 ELSE Cardinality(P)
    BY <1>8, FS_RemoveElement
  <2> QED
    BY <2>1, <2>2
<1>10. Cardinality(P) \in Nat /\ Cardinality(Q) \in Nat /\ Cardinality(U) \in Nat
  BY <1>6, <1>7, <1>8, FS_CardinalityType
<1>11. Cardinality(P) <= Cardinality(U) + 1
  BY <1>7, <1>9, <1>10
<1> QED
  BY <1>11 DEF U

\* What pivot_inputs() makes of the complete files of an instance.
LEMMA PivotedFacts ==
  ASSUME STypeOK, NEW f \in Fuzzers, NEW C, C = Complete(f),
         NEW new, new = Pivoted(C, f)
  PROVE  /\ C \in SUBSET Ids
         /\ new \in [Ids -> FileStates]
         /\ \A k \in C : new[Rank(C, k)] = file[f][k]
         /\ \A i \in Ids : new[i] # Missing => \E k \in C : i = Rank(C, k)
<1> DEFINE ranked(i) == {k \in C : Rank(C, k) = i}
<1>1. C \in SUBSET Ids /\ file[f] \in [Ids -> FileStates]
  BY DEF Complete, STypeOK
<1>2. new = [i \in Ids |-> IF ranked(i) = {} THEN Missing
                           ELSE file[f][CHOOSE k \in ranked(i) : TRUE]]
  BY DEF Pivoted, Rank
<1>3. ASSUME NEW k \in C PROVE ranked(Rank(C, k)) = {k} /\ Rank(C, k) \in Ids
  BY <1>1, RankFacts, SMTT(20)
<1>4. \A i \in Ids : ranked(i) # {} => (CHOOSE k \in ranked(i) : TRUE) \in ranked(i)
  OBVIOUS
<1>5. ASSUME NEW k \in C PROVE new[Rank(C, k)] = file[f][k]
  <2>1. (CHOOSE j \in ranked(Rank(C, k)) : TRUE) = k
    BY <1>3, <1>4
  <2> QED
    BY <1>2, <1>3, <2>1
<1>6. \A i \in Ids : new[i] # Missing => \E k \in C : i = Rank(C, k)
  BY <1>2
<1>7. new \in [Ids -> FileStates]
  BY <1>1, <1>2, <1>4, FileFacts
<1> QED
  BY <1>1, <1>5, <1>6, <1>7

\* What a restarted instance finds: any directory whose names have no gap above
\* their number, and whose cases show something new each.
LEMMA RestartSound ==
  ASSUME STypeOK, NEW f \in Fuzzers, Sound(f), Restart(f)
  PROVE  /\ Sound(f)'
         /\ file' \in [Fuzzers -> [Ids -> FileStates]]
         /\ seen' \in [Fuzzers -> SUBSET Bits] /\ paths' \in [Fuzzers -> Nat]
<1> DEFINE Names(d) == {i \in Ids : d[i] # Missing}
           Fresh(d) == \A i \in Names(d) \ {0} : \E b \in d[i].bits :
                         \A j \in Ids : j < i => b \notin d[j].bits
           seeded == [i \in Ids |-> IF i = 0 THEN Case({}) ELSE Missing]
           C == Complete(f)
           pivoted == Pivoted(C, f)
<1>1. PICK new \in {seeded, pivoted} :
        /\ file' = [file EXCEPT ![f] = new]
        /\ paths' = [paths EXCEPT ![f] = Cardinality(Names(new))]
        /\ seen' = [seen EXCEPT ![f] = UNION {new[i].bits : i \in Ids}]
  <2>1. PICK cases \in {C, {}} :
          LET new == IF cases = {} THEN seeded ELSE Pivoted(cases, f)
          IN  /\ file' = [file EXCEPT ![f] = new]
              /\ paths' = [paths EXCEPT ![f] = Cardinality(Names(new))]
              /\ seen' = [seen EXCEPT ![f] = UNION {new[i].bits : i \in Ids}]
    BY Zenon DEF Restart
  <2> HIDE DEF seeded, Names
  <2>2. CASE cases = {}
    BY <2>1, <2>2
  <2>3. CASE cases # {}
    <3>1. cases = C
      BY <2>1, <2>3
    <3> QED
      BY <2>1, <2>3, <3>1
  <2> QED
    BY <2>2, <2>3
<1>2. /\ pc[f] = "down" /\ pc'[f] = "fuzz" /\ job' = job /\ job[f] = NoJob
      /\ job[f].bits = {} /\ job[f].next = "none"
  BY JobFacts DEF Restart, STypeOK, Sound, JobNamed, Busy
<1>3. seeded \in [Ids -> FileStates] /\ Names(seeded) = {0} /\ Fresh(seeded)
  BY IdFacts, FileFacts
<1>4. pivoted \in [Ids -> FileStates] /\ C \in SUBSET Ids
  BY PivotedFacts
<1>5. /\ \A k \in C : pivoted[Rank(C, k)] = file[f][k]
      /\ \A i \in Names(pivoted) : \E k \in C : i = Rank(C, k)
  BY PivotedFacts
<1>6. \A k \in C : Rank(C, k) \in Names(pivoted)
  BY <1>4, <1>5, RankFacts, FileFacts DEF Complete
<1>7. ASSUME NEW i \in Names(pivoted) PROVE i < Cardinality(Names(pivoted))
  <2>1. PICK k \in C : i = Rank(C, k)
    BY <1>5
  <2> HIDE DEF pivoted, C
  <2> QED
    BY <1>4, <1>6, <2>1, RankBound
<1>8. ASSUME NEW i \in Names(pivoted) \ {0}
      PROVE  \E b \in pivoted[i].bits : \A j \in Ids : j < i => b \notin pivoted[j].bits
  <2>1. PICK k \in C : i = Rank(C, k)
    BY <1>5
  <2>2. k \in Ids /\ k \in Nat /\ i \in Nat /\ i <= k /\ k # 0
    <3>1. k \in Ids /\ k \in Nat /\ i \in Ids /\ i \in Nat /\ i # 0
      BY <1>4, IdFacts
    <3> HIDE DEF C
    <3>2. i <= k
      BY <1>4, <2>1, RankFacts
    <3> QED
      BY <3>1, <3>2
  <2>3. \A j \in Ids : HeldBits(f, j) = file[f][j].bits
    BY <1>2 DEF HeldBits
  <2>4. Held(f, k)
    BY DEF Held, Complete
  <2>5. PICK b \in file[f][k].bits : \A j \in Ids : j < k => b \notin file[f][j].bits
    BY <2>2, <2>3, <2>4 DEF Sound, HeldFresh
  <2>6. ASSUME NEW j \in Ids, j < i PROVE b \notin pivoted[j].bits
    <3>1. CASE pivoted[j] = Missing
      BY <3>1, FileFacts
    <3>2. CASE pivoted[j] # Missing
      <4>1. PICK l \in C : j = Rank(C, l)
        BY <1>5, <3>2
      <4> HIDE DEF C, pivoted
      <4>2. l \in Nat /\ l \in Ids /\ j \in Nat
        BY <1>4, IdFacts
      <4>3. ~(k < l) /\ k # l
        <5>1. k < l => i < j
          BY <1>4, <2>1, <4>1, RankFacts
        <5> QED
          BY <2>1, <2>2, <2>6, <4>1, <4>2, <5>1
      <4>4. l < k
        BY <2>2, <4>2, <4>3
      <4> QED
        BY <1>5, <2>5, <4>1, <4>2, <4>4
    <3> QED
      BY <3>1, <3>2
  <2>7. pivoted[i] = file[f][k]
    BY <1>5, <2>1
  <2> QED
    BY <2>5, <2>6, <2>7
<1>9. \A i \in Names(seeded) : i < Cardinality(Names(seeded))
  <2> HIDE DEF Names
  <2>1. Cardinality(Names(seeded)) = 1
    BY <1>3, FS_Singleton
  <2> QED
    BY <1>3, <2>1
<1> HIDE DEF seeded, pivoted, C
<1>10. new \in [Ids -> FileStates] /\ Fresh(new) /\ \A i \in Names(new) : i < Cardinality(Names(new))
  BY <1>3, <1>4, <1>7, <1>8, <1>9
<1>11. Cardinality(Names(new)) <= Cardinality(UNION {new[i].bits : i \in Ids}) + 1
  <2> DEFINE c == [i \in Ids |-> new[i].bits]
  <2>1. c \in [Ids -> SUBSET Bits]
    BY <1>10, FileFacts
  <2>2. \A i \in Names(new) \ {0} : \E b \in c[i] : \A j \in Ids : j < i => b \notin c[j]
    BY <1>10
  <2>3. Names(new) \in SUBSET Ids
    OBVIOUS
  <2>4. {c[i] : i \in Ids} = {new[i].bits : i \in Ids}
    OBVIOUS
  <2> HIDE DEF c, Names
  <2>5. Cardinality(Names(new)) <= Cardinality(UNION {c[i] : i \in Ids}) + 1
    BY <2>1, <2>2, <2>3, FreshCount
  <2> QED
    BY <2>4, <2>5
<1>12. IsFiniteSet(Names(new)) /\ Cardinality(Names(new)) \in Nat
  <2>1. IsFiniteSet(Ids)
    BY IdFacts, FS_Interval DEF Ids
  <2>2. IsFiniteSet(Names(new))
    BY <2>1, FS_Subset
  <2> QED
    BY <2>2, FS_CardinalityType
<1>13. UNION {new[i].bits : i \in Ids} \in SUBSET Bits
  BY <1>10, FileFacts
<1>14. /\ file'[f] = new /\ paths'[f] = Cardinality(Names(new))
       /\ seen'[f] = UNION {new[i].bits : i \in Ids}
  BY <1>1 DEF STypeOK
<1>15. JobNamed(f)' /\ SeenIsHeld(f)'
  BY <1>2, <1>14 DEF JobNamed, Busy, SeenIsHeld
<1>16. NamesBounded(f)'
  <2>1. \A i \in Present(f)' : i \in Names(new)
    BY <1>14, FileFacts DEF Present
  <2> QED
    BY <1>2, <1>10, <1>11, <1>14, <2>1 DEF NamesBounded
<1>17. HeldFresh(f)'
  <2>1. \A i \in Ids : HeldBits(f, i)' = new[i].bits /\ (Held(f, i)' => new[i].st = "case")
    BY <1>2, <1>14 DEF HeldBits, Held
  <2>2. \A i \in Ids : new[i].st = "case" => i \in Names(new)
    BY FileFacts
  <2> QED
    BY <1>10, <2>1, <2>2 DEF HeldFresh
<1> QED
  BY <1>1, <1>10, <1>12, <1>13, <1>15, <1>16, <1>17 DEF Sound, STypeOK

-----------------------------------------------------------------------------
(* Types.                                                                   *)

\* A case that is kept gets a name and becomes the job of its instance.
LEMMA SaveTypes ==
  ASSUME STypeOK, NEW f \in Fuzzers, NEW bits \in SUBSET Bits,
         NEW next \in {"fuzz", "readdir"}, save_if_interesting(f, bits, next)
  PROVE  /\ seen' \in [Fuzzers -> SUBSET Bits] /\ paths' \in [Fuzzers -> Nat]
         /\ pc' \in [Fuzzers -> Pcs] /\ job' \in [Fuzzers -> Jobs]
<1>1. [id |-> paths[f], bits |-> bits, next |-> next] \in Jobs
  BY DEF STypeOK, Jobs
<1> QED
  BY <1>1 DEF STypeOK, save_if_interesting, Pcs

\* Every step keeps the types.
LEMMA STypeStep ==
  ASSUME SInv, [Next]_vars
  PROVE  STypeOK'
<1> USE IdFacts, FileFacts, JobFacts DEF STypeOK, SInv
<1>1. ASSUME NEW f \in Fuzzers, CreateFile(f) PROVE STypeOK'
  <2>1. pc' \in [Fuzzers -> Pcs]
    BY <1>1, ZenonT(40) DEF CreateFile, Pcs
  <2>2. file' \in [Fuzzers -> [Ids -> FileStates]]
    <3>1. [file[f] EXCEPT ![job[f].id] = Empty] \in [Ids -> FileStates]
      OBVIOUS
    <3>2. \/ file' = [file EXCEPT ![f] = [file[f] EXCEPT ![job[f].id] = Empty]]
          \/ file' = file
      BY <1>1 DEF CreateFile
    <3> QED
      BY <3>1, <3>2, ZenonT(40)
  <2> QED
    BY <1>1, <2>1, <2>2 DEF CreateFile
<1>2. ASSUME NEW f \in Fuzzers, WriteFile(f) PROVE STypeOK'
  <2>1. job[f].bits \in SUBSET Bits /\ job[f].next \in Pcs
    BY <1>2 DEF WriteFile, Pcs, Sound, JobNamed, Busy, Jobs
  <2> QED
    BY <1>2, <2>1 DEF WriteFile
<1>3. ASSUME NEW f \in Fuzzers, sync_fuzzers_List(f) PROVE STypeOK'
  <2>1. PICK i \in Present(scan[f].peer) :
          IF i < scan[f].min
          THEN /\ scan' = [scan EXCEPT ![f].listed = @ \cup {i}]
               /\ UNCHANGED pc
          ELSE /\ scan' = [scan EXCEPT ![f].listed = @ \cup {i}, ![f].cur = i,
                                       ![f].next = IF i >= @ THEN i + 1 ELSE @]
               /\ pc' = [pc EXCEPT ![f] = "open"]
    BY <1>3 DEF sync_fuzzers_List
  <2>2. i \in Ids /\ i \in Nat
    BY DEF Present
  <2>3. scan[f] \in Scans
    OBVIOUS
  <2>4. scan' \in [Fuzzers -> Scans]
    <3>1. CASE i < scan[f].min
      <4>1. scan' = [scan EXCEPT ![f] = [scan[f] EXCEPT !.listed = @ \cup {i}]]
        BY <2>1, <3>1
      <4> QED
        BY <4>1, <2>2, <2>3, ScanUpdates
    <3>2. CASE ~(i < scan[f].min)
      <4> DEFINE n == IF i >= scan[f].next THEN i + 1 ELSE scan[f].next
      <4>1. n \in Nat
        <5>1. scan[f].next \in Nat
          BY <2>3, ScanUpdates
        <5> QED
          BY <2>2, <5>1
      <4>2. scan' = [scan EXCEPT ![f] =
                       [scan[f] EXCEPT !.listed = @ \cup {i}, !.cur = i, !.next = n]]
        BY <2>1, <3>2
      <4> HIDE DEF n
      <4> QED
        BY <4>1, <4>2, <2>2, <2>3, ScanUpdates
    <3> QED
      BY <3>1, <3>2
  <2>5. pc' \in [Fuzzers -> Pcs]
    BY <2>1 DEF Pcs
  <2> QED
    BY <1>3, <2>4, <2>5 DEF sync_fuzzers_List
<1>4. ASSUME NEW f \in Fuzzers, sync_fuzzers_Open(f) PROVE STypeOK'
  <2> DEFINE c == file[scan[f].peer][scan[f].cur]
  <2>1. c \in FileStates /\ c.bits \in SUBSET Bits
    <3>1. scan[f].peer \in Fuzzers /\ scan[f].cur \in Ids
      BY ScanUpdates
    <3>2. file[scan[f].peer] \in [Ids -> FileStates]
      BY <3>1
    <3> QED
      BY <3>1, <3>2
  <2>2. scan' \in [Fuzzers -> Scans]
    <3>1. scan' = [scan EXCEPT ![f] = [scan[f] EXCEPT !.cur = 0]]
      BY <1>4 DEF sync_fuzzers_Open
    <3> QED
      BY <3>1, ScanUpdates
  <2>3. CASE save_if_interesting(f, c.bits, "readdir")
    BY <1>4, <2>1, <2>2, <2>3, SaveTypes DEF sync_fuzzers_Open
  <2>4. CASE ~save_if_interesting(f, c.bits, "readdir")
    BY <1>4, <2>2, <2>4 DEF sync_fuzzers_Open, Pcs
  <2> QED
    BY <2>3, <2>4
<1>5. ASSUME NEW f \in Fuzzers, sync_fuzzers_End(f) PROVE STypeOK'
  BY <1>5 DEF sync_fuzzers_End, Scans, Pcs
<1>6. ASSUME NEW f \in Fuzzers, NEW g \in Fuzzers, sync_fuzzers_Begin(f, g) PROVE STypeOK'
  <2>1. [peer |-> g, min |-> synced[f][g], next |-> synced[f][g], cur |-> 0,
         listed |-> {}, must |-> Present(g)] \in Scans
    BY DEF Scans, Present
  <2> QED
    BY <1>6, <2>1 DEF sync_fuzzers_Begin, Pcs
<1>7. ASSUME NEW f \in Fuzzers, NEW bits \in Inputs, Find(f, bits) PROVE STypeOK'
  BY <1>7, SaveTypes, SyncAssumption DEF Find
<1>8. ASSUME NEW f \in Fuzzers, NEW i \in Ids, trim_case(f, i) PROVE STypeOK'
  <2>1. [id |-> i, bits |-> file[f][i].bits, next |-> "fuzz"] \in Jobs
    BY DEF Jobs
  <2>2. scan' \in [Fuzzers -> Scans]
    BY <1>8, ScanUpdates DEF trim_case
  <2> QED
    BY <1>8, <2>1, <2>2 DEF trim_case, Pcs
<1>9. ASSUME NEW f \in Fuzzers, Crash(f) PROVE STypeOK'
  BY <1>9 DEF Crash, Pcs
<1>10. ASSUME NEW f \in Fuzzers, Restart(f) PROVE STypeOK'
  <2>1. /\ file' \in [Fuzzers -> [Ids -> FileStates]]
        /\ seen' \in [Fuzzers -> SUBSET Bits] /\ paths' \in [Fuzzers -> Nat]
    BY <1>10, RestartSound
  <2>2. scan' \in [Fuzzers -> Scans]
    BY <1>10, ScanUpdates DEF Restart
  <2>3. synced' \in [Fuzzers -> [Fuzzers -> Nat]] /\ pc' \in [Fuzzers -> Pcs]
    BY <1>10 DEF Restart, Pcs
  <2> QED
    BY <1>10, <2>1, <2>2, <2>3 DEF Restart
<1>11. CASE UNCHANGED vars
  BY <1>11 DEF vars
<1> QED
  BY <1>1, <1>2, <1>3, <1>4, <1>5, <1>6, <1>7, <1>8, <1>9, <1>10, <1>11
  DEF Next, Running

-----------------------------------------------------------------------------
(* The theorems.                                                            *)

\* A step of instance f is a sound step of f, and none of the others.
LEMMA SoundStep ==
  ASSUME SInv, [Next]_vars, NEW g \in Fuzzers
  PROVE  Sound(g)'
<1> USE DEF SInv
<1>1. ASSUME NEW f \in Fuzzers, CreateFile(f) PROVE Sound(g)'
  <2>1. CASE f = g
    BY <1>1, <2>1, CreateSound
  <2>2. CASE f # g
    BY <1>1, <2>2, SoundFrame DEF CreateFile, STypeOK
  <2> QED
    BY <2>1, <2>2
<1>2. ASSUME NEW f \in Fuzzers, WriteFile(f) PROVE Sound(g)'
  <2>1. CASE f = g
    BY <1>2, <2>1, WriteSound
  <2>2. CASE f # g
    BY <1>2, <2>2, SoundFrame DEF WriteFile, STypeOK
  <2> QED
    BY <2>1, <2>2
<1>3. ASSUME NEW f \in Fuzzers, sync_fuzzers_List(f) PROVE Sound(g)'
  <2>1. CASE f = g
    BY <1>3, <2>1, ScanSound DEF sync_fuzzers_List, STypeOK
  <2>2. CASE f # g
    BY <1>3, <2>2, SoundFrame DEF sync_fuzzers_List, STypeOK
  <2> QED
    BY <2>1, <2>2
<1>4. ASSUME NEW f \in Fuzzers, sync_fuzzers_Open(f) PROVE Sound(g)'
  <2> DEFINE c == file[scan[f].peer][scan[f].cur]
  <2>1. c.bits \in SUBSET Bits
    <3>1. scan[f].peer \in Fuzzers /\ scan[f].cur \in Ids
      BY ScanUpdates DEF STypeOK
    <3>2. file[scan[f].peer] \in [Ids -> FileStates]
      BY <3>1, SMTT(20) DEF STypeOK
    <3> QED
      BY <3>1, <3>2, FileFacts
  <2>2. CASE f = g /\ save_if_interesting(f, c.bits, "readdir")
    BY <1>4, <2>1, <2>2, SaveSound DEF sync_fuzzers_Open
  <2>3. CASE f = g /\ ~save_if_interesting(f, c.bits, "readdir")
    BY <1>4, <2>3, ScanSound, SMTT(20) DEF sync_fuzzers_Open, STypeOK
  <2>4. CASE f # g
    BY <1>4, <2>4, SoundFrame DEF sync_fuzzers_Open, save_if_interesting, STypeOK
  <2> QED
    BY <2>2, <2>3, <2>4
<1>5. ASSUME NEW f \in Fuzzers, sync_fuzzers_End(f) PROVE Sound(g)'
  <2>1. CASE f = g
    BY <1>5, <2>1, ScanSound DEF sync_fuzzers_End, STypeOK
  <2>2. CASE f # g
    BY <1>5, <2>2, SoundFrame DEF sync_fuzzers_End, STypeOK
  <2> QED
    BY <2>1, <2>2
<1>6. ASSUME NEW f \in Fuzzers, NEW h \in Fuzzers, sync_fuzzers_Begin(f, h) PROVE Sound(g)'
  <2>1. CASE f = g
    BY <1>6, <2>1, ScanSound DEF sync_fuzzers_Begin, STypeOK
  <2>2. CASE f # g
    BY <1>6, <2>2, SoundFrame DEF sync_fuzzers_Begin, STypeOK
  <2> QED
    BY <2>1, <2>2
<1>7. ASSUME NEW f \in Fuzzers, NEW bits \in Inputs, Find(f, bits) PROVE Sound(g)'
  <2>1. CASE f = g
    BY <1>7, <2>1, SaveSound, SyncAssumption DEF Find
  <2>2. CASE f # g
    BY <1>7, <2>2, SoundFrame DEF Find, save_if_interesting, STypeOK
  <2> QED
    BY <2>1, <2>2
<1>8. ASSUME NEW f \in Fuzzers, NEW i \in Ids, trim_case(f, i) PROVE Sound(g)'
  <2>1. CASE f = g
    BY <1>8, <2>1, TrimSound
  <2>2. CASE f # g
    BY <1>8, <2>2, SoundFrame DEF trim_case, STypeOK
  <2> QED
    BY <2>1, <2>2
<1>9. ASSUME NEW f \in Fuzzers, Crash(f) PROVE Sound(g)'
  <2>1. CASE f = g
    BY <1>9, <2>1, CrashSound
  <2>2. CASE f # g
    BY <1>9, <2>2, SoundFrame DEF Crash, STypeOK
  <2> QED
    BY <2>1, <2>2
<1>10. ASSUME NEW f \in Fuzzers, Restart(f) PROVE Sound(g)'
  <2>1. CASE f = g
    BY <1>10, <2>1, RestartSound
  <2>2. CASE f # g
    BY <1>10, <2>2, SoundFrame DEF Restart, STypeOK
  <2> QED
    BY <2>1, <2>2
<1>11. CASE UNCHANGED vars
  BY <1>11, SoundFrame DEF vars
<1> QED
  BY <1>1, <1>2, <1>3, <1>4, <1>5, <1>6, <1>7, <1>8, <1>9, <1>10, <1>11
  DEF Next, Running

\* All instances start from a queue with the seed.
LEMMA InitSInv == Init => SInv
<1> SUFFICES ASSUME Init PROVE SInv
  OBVIOUS
<1> USE IdFacts, FileFacts, JobFacts
<1>1. STypeOK
  BY DEF Init, STypeOK, Pcs
<1>2. ASSUME NEW f \in Fuzzers PROVE Sound(f)
  <2>1. /\ pc[f] = "fuzz" /\ job[f] = NoJob /\ seen[f] = {} /\ paths[f] = 1
        /\ file[f] = [i \in Ids |-> IF i = 0 THEN Case({}) ELSE Missing]
    BY DEF Init
  <2>2. \A i \in Ids : file[f][i].bits = {} /\ (i # 0 => file[f][i].st = "missing")
    BY <2>1
  <2>3. JobNamed(f) /\ SeenIsHeld(f) /\ HeldFresh(f)
    BY <2>1, <2>2 DEF JobNamed, Busy, SeenIsHeld, HeldFresh, Held
  <2>4. NamesBounded(f)
    BY <2>1, <2>2, FS_EmptySet DEF NamesBounded, Present
  <2> QED
    BY <2>3, <2>4 DEF Sound
<1> QED
  BY <1>1, <1>2 DEF SInv

\* SInv holds in every reachable state.
THEOREM SyncInvariant == Spec => []SInv
<1>1. SInv /\ [Next]_vars => SInv'
  BY STypeStep, SoundStep DEF SInv
<1> QED
  BY InitSInv, <1>1, PTL DEF Spec

\* open(O_EXCL) never meets an existing file, for any number of instances,
\* deaths and restarts.
THEOREM NamesAreFree == Spec => []NoNameClash
<1>1. SInv => NoNameClash
  BY DEF SInv, Sound, JobNamed, Busy, NamesBounded, NoNameClash
<1> QED
  BY SyncInvariant, <1>1, PTL

\* Every case an instance keeps shows something that its earlier cases do not:
\* imports do not echo.
THEOREM ImportsDoNotEcho == Spec => []NoEcho
<1>1. ASSUME SInv, NEW f \in Fuzzers, NEW i \in Complete(f) \ {0}
      PROVE  \E b \in file[f][i].bits : \A j \in Complete(f) : j < i => b \notin file[f][j].bits
  <2>1. i \in Ids /\ file[f][i].st = "case" /\ Held(f, i)
    BY DEF Complete, Held
  <2>2. HeldBits(f, i) = file[f][i].bits
    BY <1>1, <2>1, FileFacts, JobFacts DEF SInv, Sound, JobNamed, Busy, HeldBits
  <2>3. PICK b \in HeldBits(f, i) : \A j \in Ids : j < i => b \notin HeldBits(f, j)
    BY <1>1, <2>1 DEF SInv, Sound, HeldFresh
  <2>4. \A j \in Complete(f) : j < i => b \notin file[f][j].bits
    BY <2>3 DEF Complete, HeldBits
  <2> QED
    BY <2>2, <2>3, <2>4
<1>2. SInv => NoEcho
  BY <1>1 DEF NoEcho
<1> QED
  BY SyncInvariant, <1>2, PTL

\* A death at any moment costs at most the case being written.
THEOREM DeathCostsOneCase == Spec => []CrashLosesOneCase
<1>1. SInv => CrashLosesOneCase
  BY DEF SInv, Sound, SeenIsHeld, CrashLosesOneCase
<1> QED
  BY SyncInvariant, <1>1, PTL
=============================================================================
