-------------------------------- MODULE Sync --------------------------------
(***************************************************************************)
(* Instances of afl-fuzz that share a sync directory and import each        *)
(* other's test cases: sync_fuzzers(), against the file operations of       *)
(* save_if_interesting() and trim_case() and the restart of an instance.    *)
(*                                                                         *)
(* The instances communicate through the file system only; every system     *)
(* call on the queue directories is a step of its own.  A test case is the  *)
(* set of map bits its (deterministic) execution hits: a file is missing,   *)
(* empty (created, not yet written) or holds a case.                        *)
(***************************************************************************)
EXTENDS Naturals, FiniteSets

CONSTANTS
  Fuzzers,     \* instances (-M and -S)
  Bits,        \* bits of the map that the seed does not hit
  Inputs,      \* bit sets of the inputs that fuzzing may come up with
  MaxTrims,    \* bound: test cases trimmed, all instances together
  MaxRestarts  \* bound: deaths of instances

ASSUME SyncAssumption ==
  /\ IsFiniteSet(Fuzzers) /\ IsFiniteSet(Bits) /\ Inputs \subseteq SUBSET Bits
  /\ MaxTrims \in Nat /\ MaxRestarts \in Nat

VARIABLES
  file,      \* file[f][i]: id:i in the queue directory of f
  synced,    \* synced[f][g]: the number in f's .synced/g
  seen,      \* seen[f]: bits f has seen (virgin_bits, inverted)
  paths,     \* paths[f]: queued_paths of f
  pc,        \* where f is
  job,       \* job[f]: the case f is writing: its id and its bits
  scan,      \* scan[f]: locals of sync_fuzzers
  trims, restarts

vars == <<file, synced, seen, paths, pc, job, scan, trims, restarts>>

MaxId == Cardinality(Bits)
Ids == 0..MaxId

Missing == [st |-> "missing", bits |-> {}]
Empty == [st |-> "empty", bits |-> {}]
Case(b) == [st |-> "case", bits |-> b]

NoJob == [id |-> 0, bits |-> {}, next |-> "none"]
NoScan(f) == [peer |-> f, min |-> 0, next |-> 0, cur |-> 0, listed |-> {}, must |-> {}]

Present(g) == {i \in Ids : file[g][i].st # "missing"}
Complete(g) == {i \in Ids : file[g][i].st = "case"}

-----------------------------------------------------------------------------
(* save_if_interesting(): a case with new bits gets the next id, is         *)
(* calibrated, and only then is its file created and written.               *)

\* Mutant: bits that are not new count.
save_if_interesting_AnyBit(f, bits, next) ==
  /\ bits # {}
  /\ seen' = [seen EXCEPT ![f] = @ \cup bits]
  /\ paths' = [paths EXCEPT ![f] = @ + 1]
  /\ job' = [job EXCEPT ![f] = [id |-> paths[f], bits |-> bits, next |-> next]]
  /\ pc' = [pc EXCEPT ![f] = "create"]

save_if_interesting(f, bits, next) ==
  /\ bits \ seen[f] # {}
  /\ seen' = [seen EXCEPT ![f] = @ \cup bits]
  /\ paths' = [paths EXCEPT ![f] = @ + 1]
  /\ job' = [job EXCEPT ![f] = [id |-> paths[f], bits |-> bits, next |-> next]]
  /\ pc' = [pc EXCEPT ![f] = "create"]

Find(f, bits) ==
  /\ pc[f] = "fuzz"
  /\ save_if_interesting(f, bits, "fuzz")
  /\ UNCHANGED <<file, synced, scan, trims, restarts>>

\* open(O_CREAT | O_EXCL): an existing file would be fatal.
CreateFile(f) ==
  /\ pc[f] = "create"
  /\ IF file[f][job[f].id] = Missing
     THEN /\ file' = [file EXCEPT ![f][job[f].id] = Empty]
          /\ pc' = [pc EXCEPT ![f] = "write"]
     ELSE /\ pc' = [pc EXCEPT ![f] = "fatal"]
          /\ UNCHANGED file
  /\ UNCHANGED <<synced, seen, paths, job, scan, trims, restarts>>

\* Mutant: the file stays empty.
WriteFile_Nothing(f) ==
  /\ pc[f] = "write"
  /\ UNCHANGED file
  /\ pc' = [pc EXCEPT ![f] = job[f].next]
  /\ job' = [job EXCEPT ![f] = NoJob]
  /\ UNCHANGED <<synced, seen, paths, scan, trims, restarts>>

WriteFile(f) ==
  /\ pc[f] = "write"
  /\ file' = [file EXCEPT ![f][job[f].id] = Case(job[f].bits)]
  /\ pc' = [pc EXCEPT ![f] = job[f].next]
  /\ job' = [job EXCEPT ![f] = NoJob]
  /\ UNCHANGED <<synced, seen, paths, scan, trims, restarts>>

\* trim_case(): unlink, then create and write anew.  A readdir() under way
\* need not return a name that was removed and made again.
trim_case(f, i) ==
  /\ pc[f] = "fuzz" /\ i \in Complete(f)
  /\ trims < MaxTrims
  /\ trims' = trims + 1
  /\ file' = [file EXCEPT ![f][i] = Missing]
  /\ job' = [job EXCEPT ![f] = [id |-> i, bits |-> file[f][i].bits, next |-> "fuzz"]]
  /\ pc' = [pc EXCEPT ![f] = "create"]
  /\ scan' = [g \in Fuzzers |->
               IF scan[g].peer = f THEN [scan[g] EXCEPT !.must = @ \ {i}] ELSE scan[g]]
  /\ UNCHANGED <<synced, seen, paths, restarts>>

-----------------------------------------------------------------------------
(* sync_fuzzers() of f, in the directory of g.                              *)

\* opendir() and the marker.  Names present now, and not touched meanwhile,
\* will be returned; names that appear later may be.
sync_fuzzers_Begin(f, g) ==
  /\ pc[f] = "fuzz" /\ g # f
  /\ scan' = [scan EXCEPT ![f] =
       [peer |-> g, min |-> synced[f][g], next |-> synced[f][g], cur |-> 0,
        listed |-> {}, must |-> Present(g)]]
  /\ pc' = [pc EXCEPT ![f] = "readdir"]
  /\ UNCHANGED <<file, synced, seen, paths, job, trims, restarts>>

\* Mutant: the marker names the last case seen, not the next one.
sync_fuzzers_List_OffByOne(f) ==
  /\ pc[f] = "readdir"
  /\ \E i \in Present(scan[f].peer) \ scan[f].listed :
       IF i <= scan[f].min
       THEN /\ scan' = [scan EXCEPT ![f].listed = @ \cup {i}]
            /\ UNCHANGED pc
       ELSE /\ scan' = [scan EXCEPT ![f].listed = @ \cup {i}, ![f].cur = i,
                                    ![f].next = IF i >= @ THEN i + 1 ELSE @]
            /\ pc' = [pc EXCEPT ![f] = "open"]
  /\ UNCHANGED <<file, synced, seen, paths, job, trims, restarts>>

\* readdir(), in no particular order; the marker moves before the file is
\* looked at.
sync_fuzzers_List(f) ==
  /\ pc[f] = "readdir"
  /\ \E i \in Present(scan[f].peer) \ scan[f].listed :
       IF i < scan[f].min
       THEN /\ scan' = [scan EXCEPT ![f].listed = @ \cup {i}]
            /\ UNCHANGED pc
       ELSE /\ scan' = [scan EXCEPT ![f].listed = @ \cup {i}, ![f].cur = i,
                                    ![f].next = IF i >= @ THEN i + 1 ELSE @]
            /\ pc' = [pc EXCEPT ![f] = "open"]
  /\ UNCHANGED <<file, synced, seen, paths, job, trims, restarts>>

\* open() and fstat(): a vanished file is fatal, an empty one is ignored, a
\* case is executed and kept if it shows something new.
sync_fuzzers_Open(f) ==
  /\ pc[f] = "open"
  /\ LET c == file[scan[f].peer][scan[f].cur]
     IN \/ /\ c.st = "missing"
           /\ pc' = [pc EXCEPT ![f] = "fatal"]
           /\ UNCHANGED <<seen, paths, job>>
        \/ /\ c.st = "empty" \/ c.bits \subseteq seen[f]
           /\ c.st # "missing"
           /\ pc' = [pc EXCEPT ![f] = "readdir"]
           /\ UNCHANGED <<seen, paths, job>>
        \/ /\ c.st = "case"
           /\ save_if_interesting(f, c.bits, "readdir")
  /\ scan' = [scan EXCEPT ![f].cur = 0]
  /\ UNCHANGED <<file, synced, trims, restarts>>

\* No more names: the marker is written.
sync_fuzzers_End(f) ==
  /\ pc[f] = "readdir"
  /\ scan[f].must \subseteq scan[f].listed
  /\ synced' = [synced EXCEPT ![f][scan[f].peer] = scan[f].next]
  /\ scan' = [scan EXCEPT ![f] = NoScan(f)]
  /\ pc' = [pc EXCEPT ![f] = "fuzz"]
  /\ UNCHANGED <<file, seen, paths, job, trims, restarts>>

-----------------------------------------------------------------------------
(* Death and restart.  What is on disk stays.                               *)

Crash(f) ==
  /\ pc[f] \notin {"down", "fatal"}
  /\ restarts < MaxRestarts
  /\ restarts' = restarts + 1
  /\ pc' = [pc EXCEPT ![f] = "down"]
  /\ job' = [job EXCEPT ![f] = NoJob]
  /\ scan' = [scan EXCEPT ![f] = NoScan(f)]
  /\ UNCHANGED <<file, synced, seen, paths, trims>>

\* Mutant: the old ids are kept.
Pivoted_Keeps(cases, f) ==
  [i \in Ids |->
     IF i \in cases THEN file[f][i] ELSE Missing]

\* The new queue directory: pivot_inputs() numbers the given cases from 0.
Pivoted(cases, f) ==
  [i \in Ids |->
     LET ranked == {k \in cases : Cardinality({j \in cases : j < k}) = i}
     IN IF ranked = {} THEN Missing ELSE file[f][CHOOSE k \in ranked : TRUE]]

\* -i -: the old queue without empty files; or, in a young directory, a fresh
\* start from the seed.  The instance's own markers are deleted, the markers
\* of the others stay.
Restart(f) ==
  /\ pc[f] = "down" /\ Complete(f) # {}
  /\ \E cases \in {Complete(f), {}} :
       LET new == IF cases = {} THEN [i \in Ids |-> IF i = 0 THEN Case({}) ELSE Missing]
                                ELSE Pivoted(cases, f)
       IN /\ file' = [file EXCEPT ![f] = new]
          /\ paths' = [paths EXCEPT ![f] = Cardinality({i \in Ids : new[i] # Missing})]
          /\ seen' = [seen EXCEPT ![f] = UNION {new[i].bits : i \in Ids}]
  /\ synced' = [synced EXCEPT ![f] = [g \in Fuzzers |-> 0]]
  /\ pc' = [pc EXCEPT ![f] = "fuzz"]
  /\ scan' = [g \in Fuzzers |->
               IF scan[g].peer = f /\ g # f THEN [scan[g] EXCEPT !.must = {}] ELSE scan[g]]
  /\ UNCHANGED <<job, trims, restarts>>

-----------------------------------------------------------------------------
\* All instances started from one seed, which hits none of Bits.
Init ==
  /\ file = [f \in Fuzzers |-> [i \in Ids |-> IF i = 0 THEN Case({}) ELSE Missing]]
  /\ synced = [f \in Fuzzers |-> [g \in Fuzzers |-> 0]]
  /\ seen = [f \in Fuzzers |-> {}]
  /\ paths = [f \in Fuzzers |-> 1]
  /\ pc = [f \in Fuzzers |-> "fuzz"]
  /\ job = [f \in Fuzzers |-> NoJob]
  /\ scan = [f \in Fuzzers |-> NoScan(f)]
  /\ trims = 0 /\ restarts = 0

Running(f) ==
  \/ CreateFile(f) \/ WriteFile(f)
  \/ sync_fuzzers_List(f) \/ sync_fuzzers_Open(f) \/ sync_fuzzers_End(f)

Next ==
  \E f \in Fuzzers :
    \/ Running(f)
    \/ \E g \in Fuzzers : sync_fuzzers_Begin(f, g)
    \/ \E bits \in Inputs : Find(f, bits)
    \/ \E i \in Ids : trim_case(f, i)
    \/ Crash(f) \/ Restart(f)

Spec == Init /\ [][Next]_vars

\* The main loop goes on and calls sync_fuzzers() every few inputs; nothing
\* says that anything is found, trimmed or restarted.
FairSpec ==
  /\ Spec
  /\ \A f \in Fuzzers :
       /\ WF_vars(Running(f))
       /\ \A g \in Fuzzers : WF_vars(sync_fuzzers_Begin(f, g))

-----------------------------------------------------------------------------
(* Safety.                                                                  *)

\* O_EXCL never meets a file of that name, even after deaths in the middle of
\* a write: the names on disk are those the running instance has given out.
NoNameClash ==
  \A f \in Fuzzers :
    /\ pc[f] = "create" => file[f][job[f].id] = Missing
    /\ pc[f] # "down" => \A i \in Present(f) : i < paths[f]

\* Imports do not echo: a case an instance keeps shows something that none of
\* its earlier cases shows, so cases do not travel back and forth for ever.
NoEcho ==
  \A f \in Fuzzers : \A i \in Complete(f) \ {0} :
    \E b \in file[f][i].bits : \A j \in Complete(f) : j < i => b \notin file[f][j].bits

\* A death loses no more than the one case being written: all other bits an
\* instance has seen are in the files it would resume from.
CrashLosesOneCase ==
  \A f \in Fuzzers : pc[f] \notin {"down", "fatal"} =>
    seen[f] = job[f].bits \cup UNION {file[f][i].bits : i \in Ids}

-----------------------------------------------------------------------------
(* Liveness.                                                                *)

\* A complete case that the peer has not passed yet when it is not scanning
\* reaches it, if nobody trims or restarts.
CasesArrive ==
  \A f, g \in Fuzzers : f # g => \A i \in Ids :
    (i \in Complete(g) /\ i >= synced[f][g] /\ pc[f] = "fuzz")
      ~> file[g][i].bits \subseteq seen[f]

-----------------------------------------------------------------------------
(* What a document says and the code does not keep.                         *)

\* docs/parallel_fuzzing.txt:53: an instance "will also periodically rescan the
\* top-level sync directory for any test cases found by other fuzzers": what
\* lies below its marker it has looked at.
SyncedIsSeen ==
  \A f, g \in Fuzzers : pc[f] = "fuzz" =>
    \A i \in Complete(g) : i < synced[f][g] => file[g][i].bits \subseteq seen[f]
=============================================================================
