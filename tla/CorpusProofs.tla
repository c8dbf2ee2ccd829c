---------------------------- MODULE CorpusProofs ----------------------------
(***************************************************************************)
(* Proofs about the corpus: for every map, queue and target, deterministic  *)
(* or not, the reference counts of top_rated are exact, the counters that   *)
(* steer fuzz_one() are exact, and the favored entries cover the map.       *)
(***************************************************************************)
EXTENDS Corpus, FiniteSetTheorems, TLAPS

Entries == 1..MaxEntries

EntryType ==
  [len : Nat, exec_us : Nat, exec_cksum : Traces \cup {NoTrace}, cal_failed : Nat,
   trim_done : BOOLEAN, has_new_cov : BOOLEAN, var_behavior : BOOLEAN]

CalType ==
  [who : 0..MaxEntries, caller : {"none", "dried", "recalibrated", "fuzz", "sync"},
   cur : Nat, max : Nat, new_bits : 0..2, var : BOOLEAN, first_run : BOOLEAN,
   fault : {"NONE", "HANG", "CRASH", "NOINST", "NOBITS"}]

ScoredType ==
  [who : 0..MaxEntries, trace : Traces \cup {NoTrace},
   next : {"none", "calibrated", "trimmed"}]

CType ==
  /\ pc \in {"dry", "dried", "calibrate", "calibrated", "score", "top", "cull", "pick",
             "recalibrated", "trim", "trimmed", "fuzz", "abandon", "complete", "sync",
             "next", "done"}
  /\ queued_paths \in Entries
  /\ queue_cur \in 0 .. queued_paths + 1
  /\ q \in [Entries -> EntryType]
  /\ was_fuzzed \subseteq Queue /\ favored \subseteq Queue
  /\ top_rated \in [Bytes -> 0..queued_paths]
  /\ tc_ref \in [Entries -> Int]
  /\ trace_mini \in [Entries -> (SUBSET Bytes) \cup {NULL}]
  /\ cal \in CalType /\ scored \in ScoredType
  /\ kept_trace \in Traces \cup {NoTrace}

\* calibrate_case() is being executed, called from c.
Call ==
  \/ pc \in {"calibrate", "calibrated"}
  \/ pc = "score" /\ scored.next = "calibrated"

Calling(c) == Call /\ cal.caller = c

\* Where the program is, and on which entry.
Place ==
  /\ Call => cal.who \in Queue /\ cal.caller # "none"
  /\ Calling("dried") \/ Calling("recalibrated") => cal.who = queue_cur
  /\ pc = "score" => /\ scored.who \in Queue /\ scored.next # "none"
                     /\ loop \in 1 .. MapSize + 1
                     /\ scored.next = "calibrated" => scored.who = cal.who
                     /\ scored.next = "trimmed" => scored.who = queue_cur
  /\ pc \in {"dried", "recalibrated", "trim", "trimmed", "fuzz", "abandon", "complete"} =>
       queue_cur \in Queue
  /\ Calling("fuzz") => queue_cur \in Queue
  /\ pc \notin {"dry", "done"} => queue_cur \in 0..queued_paths

\* What has failed, or not passed, its calibration is marked by cal_failed; what
\* is scored has passed it.
Passed ==
  /\ pc = "calibrate" => q[cal.who].cal_failed > 0 /\ cal.fault = "NONE"
  /\ pc = "calibrated" =>
       /\ cal.fault \in {"HANG", "CRASH"} => q[cal.who].cal_failed > 0
       /\ cal.fault = "NONE" /\ ~stop_soon => q[cal.who].cal_failed = 0
  /\ pc = "score" => q[scored.who].cal_failed = 0
  /\ pc = "score" /\ scored.next = "calibrated" => cal.fault \notin {"HANG", "CRASH"}
  /\ pc = "dried" /\ cal.fault \in {"HANG", "CRASH"} => q[queue_cur].cal_failed > 0
  /\ pc = "recalibrated" /\ cal.fault = "NONE" /\ ~stop_soon => q[queue_cur].cal_failed = 0
  /\ pc = "trim" => q[queue_cur].cal_failed = 0

\* In the dry run the entries from queue_cur on have not been scored, and nothing
\* is favored.
Dry ==
  /\ pc \in {"dry", "dried"} \/ Calling("dried") =>
       favored = {} /\ queue_cur # 0 /\ \A b \in Bytes : top_rated[b] <= queue_cur
  /\ pc = "dry" => \A b \in Bytes : top_rated[b] < queue_cur

\* Between the trimming of queue_cur and its being marked as fuzzed.
Busy ==
  \/ pc \in {"trimmed", "fuzz", "abandon", "complete"}
  \/ pc = "score" /\ scored.next = "trimmed"
  \/ Calling("fuzz")
  \/ pc \in {"next", "done"} /\ stop_soon

\* The trace saved with an entry shows all bytes the entry is the best of.  That
\* need not be so once a trimmed case has been scored with another trace than
\* the one of its calibration; but then the entry is marked as fuzzed before
\* the next cull.
Minis ==
  /\ \A b \in Bytes :
       /\ top_rated[b] # 0 /\ top_rated[b] \notin was_fuzzed
       /\ ~(Busy /\ top_rated[b] = queue_cur)
       => b \in trace_mini[top_rated[b]]
  /\ pc = "score" /\ scored.next = "calibrated" =>
       trace_mini[scored.who] \in {NULL, Hit(scored.trace)}

\* How far a cull has come: temp_v is what the favorites so far do not show.
Culled ==
  pc = "cull" =>
    /\ loop \in 1 .. MapSize + 1
    /\ \A e \in favored : trace_mini[e] \cap temp_v = {}
    /\ \A b \in Bytes \ temp_v : \E e \in favored : b \in trace_mini[e]
    /\ \A b \in Bytes : b < loop /\ top_rated[b] # 0 =>
         \E e \in favored : b \in trace_mini[e] \/ e = top_rated[b]

\* The inductive invariant.
CInv ==
  /\ CType /\ Place /\ Passed /\ Dry
  /\ RefCounts /\ PendingExact /\ Minis /\ Culled /\ FavoredCover

-----------------------------------------------------------------------------
(* Counting.                                                                *)

\* The bytes entry e is the best of.
BestOf(e) == {b \in Bytes : top_rated[b] = e}

\* The map and the queue are finite.
LEMMA FiniteParts ==
  ASSUME CType
  PROVE  /\ IsFiniteSet(Bytes) /\ IsFiniteSet(Queue)
         /\ \A S : IsFiniteSet(favored \ S) /\ IsFiniteSet(Queue \ S)
         /\ \A e : IsFiniteSet(BestOf(e))
<1>1. MapSize \in Nat /\ queued_paths \in Nat /\ MaxEntries \in Nat
  BY CorpusAssumption DEF CType, Entries
<1>2. IsFiniteSet(Bytes) /\ IsFiniteSet(Queue)
  BY <1>1, FS_Interval DEF Bytes, Queue
<1>3. \A S : favored \ S \in SUBSET Queue /\ Queue \ S \in SUBSET Queue
  BY DEF CType
<1>4. \A e : BestOf(e) \in SUBSET Bytes
  BY DEF BestOf
<1> HIDE DEF Bytes, Queue
<1> QED
  BY <1>2, <1>3, <1>4, FS_Subset

\* The reference count of an entry is zero exactly if no byte is its own.
LEMMA RefZero ==
  ASSUME CType, RefCounts, NEW e \in Entries
  PROVE  /\ tc_ref[e] \in Nat
         /\ tc_ref[e] = 0 <=> \A b \in Bytes : top_rated[b] # e
<1>1. tc_ref[e] = Cardinality(BestOf(e))
  BY DEF RefCounts, BestOf, Entries
<1>2. Cardinality(BestOf(e)) \in Nat /\ (Cardinality(BestOf(e)) = 0 <=> BestOf(e) = {})
  BY FiniteParts, FS_CardinalityType, FS_EmptySet
<1>3. BestOf(e) = {} <=> \A b \in Bytes : top_rated[b] # e
  BY DEF BestOf
<1> QED
  BY <1>1, <1>2, <1>3

\* The best entry of a byte has passed calibration, and its trace is there.
LEMMA WinnerFacts ==
  ASSUME CType, RefCounts, NEW b \in Bytes, top_rated[b] # 0
  PROVE  /\ top_rated[b] \in Queue /\ Queue \subseteq Entries
         /\ q[top_rated[b]].cal_failed = 0 /\ trace_mini[top_rated[b]] \in SUBSET Bytes
<1>1. Queue \subseteq Entries /\ top_rated[b] \in Queue
  BY CorpusAssumption DEF CType, Queue, Entries
<1>2. tc_ref[top_rated[b]] \in Nat /\ tc_ref[top_rated[b]] # 0
  BY <1>1, RefZero
<1>3. tc_ref[top_rated[b]] > 0 /\ top_rated[b] \in Entries
  BY <1>1, <1>2
<1>4. q[top_rated[b]].cal_failed = 0 /\ trace_mini[top_rated[b]] # NULL
  BY <1>2, <1>3, Zenon DEF RefCounts, Entries
<1>5. trace_mini[top_rated[b]] \in (SUBSET Bytes) \cup {NULL}
  BY <1>3 DEF CType
<1> QED
  BY <1>1, <1>4, <1>5

\* What has not passed calibration is best of nothing.
LEMMA FailedFacts ==
  ASSUME CType, RefCounts, NEW e \in Entries, q[e].cal_failed # 0
  PROVE  /\ e \notin favored /\ tc_ref[e] = 0 /\ trace_mini[e] = NULL
         /\ \A b \in Bytes : top_rated[b] # e
<1>1. tc_ref[e] \in Nat
  BY RefZero
<1>2. e \notin favored /\ ~(tc_ref[e] > 0)
  BY DEF RefCounts, Entries
<1>3. tc_ref[e] = 0
  BY <1>1, <1>2
<1> QED
  BY <1>2, <1>3, RefZero DEF RefCounts, Entries

-----------------------------------------------------------------------------
(* Steps that leave the ratings and the favored set alone.                  *)

\* Nothing is counted differently if the entries that count stay calibrated.
LEMMA CountsStay ==
  ASSUME RefCounts, PendingExact, UNCHANGED <<top_rated, tc_ref, trace_mini, culling, progress, queued_paths>>,
         \A e \in Entries : e \in favored \/ tc_ref[e] > 0 => q'[e].cal_failed = q[e].cal_failed
  PROVE  RefCounts' /\ PendingExact'
<1>1. PendingExact'
  BY DEF PendingExact, culling, progress, Queue
<1>2. RefCounts'
  BY DEF RefCounts, culling, Entries
<1> QED
  BY <1>1, <1>2

\* The rest of the invariant, once type and place are known.
LEMMA PlainStep ==
  ASSUME CInv, CType', Place', Passed', Dry',
         UNCHANGED <<rating, culling, progress, queued_paths>>,
         \A e \in Entries : e \in favored \/ tc_ref[e] > 0 => q'[e].cal_failed = q[e].cal_failed,
         Busy => Busy' /\ queue_cur' = queue_cur, pc # "cull", pc' # "cull",
         pc' = "score" /\ scored'.next = "calibrated" =>
           trace_mini[scored'.who] \in {NULL, Hit(scored'.trace)}
  PROVE  CInv'
<1>1. RefCounts' /\ PendingExact'
  BY CountsStay DEF CInv, rating
<1>2. Minis'
  BY DEF CInv, Minis, rating, progress
<1>3. Culled' /\ FavoredCover'
  BY DEF CInv, Culled, FavoredCover, rating, culling
<1> QED
  BY <1>1, <1>2, <1>3 DEF CInv

\* A step to another place of the main loop, with nothing else changed.
LEMMA GotoStep ==
  ASSUME CInv, NEW from, NEW to, Goto(from, to),
         from \in {"pick", "recalibrated", "trim", "fuzz", "sync"},
         to \in {"next", "trim", "abandon", "trimmed", "complete"},
         from = "sync" => to = "next", from # "sync" => queue_cur # 0,
         to = "trim" => q[queue_cur].cal_failed = 0,
         from = "fuzz" => to # "next" /\ to # "trim"
  PROVE  CInv'
<1>1. /\ pc = from /\ pc' = to
      /\ UNCHANGED <<stop_soon, queue_cur, q, rating, culling, progress, found, work>>
  BY DEF Goto
<1>2. CType'
  BY <1>1 DEF CInv, CType, rating, culling, progress, found, work, Queue
<1>3. Place'
  <2>1. queue_cur \in 0..queued_paths /\ (from # "sync" => queue_cur \in Queue)
    BY <1>1 DEF CInv, CType, Place, Queue, Entries
  <2> QED
    <3>1. ~Call' /\ UNCHANGED <<queue_cur, queued_paths>>
      BY <1>1 DEF Call, found
    <3> QED
      BY <1>1, <2>1, <3>1 DEF Place, Calling, Queue
<1>5. Passed' /\ Dry'
  BY <1>1 DEF Passed, Dry, Calling, Call
<1>4. Busy => Busy'
  BY <1>1 DEF Busy, Calling, Call
<1> QED
  BY <1>1, <1>2, <1>3, <1>4, <1>5, PlainStep DEF found

-----------------------------------------------------------------------------
(* calibrate_case().                                                        *)

\* A calibration of an entry that has not been scored begins.
LEMMA CalibrateStep ==
  ASSUME CInv, NEW e \in Queue, NEW caller \in {"dried", "recalibrated"}, Calibrate(e, caller),
         UNCHANGED <<stop_soon, queue_cur, rating, culling, progress, found, loop, scored,
                     kept_trace>>,
         e = queue_cur, e \notin favored, tc_ref[e] = 0, pc \in {"dry", "pick"},
         pc = "dry" <=> caller = "dried"
  PROVE  CInv'
<1>0. /\ e \in Entries /\ CType /\ CalCycles \in Nat /\ 0 \in 0..MaxEntries
      /\ queued_paths' = queued_paths
  BY CorpusAssumption DEF CInv, CType, Entries, Queue, found
<1>1. /\ q' \in [Entries -> EntryType] /\ q'[e].cal_failed = q[e].cal_failed + 1
      /\ \A x \in Entries : x # e => q'[x] = q[x]
  <2>1. q \in [Entries -> EntryType] /\ q' = [q EXCEPT ![e].cal_failed = @ + 1]
    BY <1>0 DEF CType, Calibrate
  <2> QED
    BY <1>0, <2>1 DEF EntryType
<1>2. /\ cal' \in CalType /\ cal'.who = e /\ cal'.caller = caller /\ cal'.fault = "NONE"
  <2> DEFINE first == q[e].exec_cksum = NoTrace
  <2>1. e \in 0..MaxEntries /\ first \in BOOLEAN
    BY <1>0 DEF Entries
  <2>2. cal' = [NoCal EXCEPT !.who = e, !.caller = caller, !.max = CalCycles, !.first_run = first]
    BY DEF Calibrate
  <2> HIDE DEF first
  <2>3. cal' = [who |-> e, caller |-> caller, cur |-> 0, max |-> CalCycles, new_bits |-> 0,
                var |-> FALSE, first_run |-> first, fault |-> "NONE"]
    BY <2>2 DEF NoCal
  <2> QED
    BY <1>0, <2>1, <2>3 DEF CalType
<1>3. CType'
  BY <1>0, <1>1, <1>2 DEF CType, Calibrate, rating, culling, progress, found, Queue
<1>4. Place' /\ Dry'
  BY <1>0, <1>2 DEF CInv, Place, Dry, Calibrate, Calling, Call, Queue, culling, rating
<1>5. Passed'
  <2>1. q[e].cal_failed \in Nat
    BY <1>0 DEF CType, EntryType
  <2> QED
    BY <1>1, <1>2, <2>1 DEF Passed, Calibrate
<1>6. ~Busy /\ pc' = "calibrate"
  BY DEF Busy, Calling, Call, Calibrate
<1>7. \A x \in Entries : x \in favored \/ tc_ref[x] > 0 => q'[x].cal_failed = q[x].cal_failed
  BY <1>1
<1> QED
  BY <1>0, <1>3, <1>4, <1>5, <1>6, <1>7, PlainStep

\* What every state has to show for its types.
LEMMA StateFacts ==
  ASSUME CInv
  PROVE  /\ CType /\ Place /\ Dry /\ RefCounts /\ Queue \subseteq Entries
         /\ q \in [Entries -> EntryType] /\ cal \in CalType
         /\ kept_trace \in Traces \cup {NoTrace}
         /\ CalCyclesLong \in Nat /\ CalChances \in Nat \ {0}
<1>1. CType /\ Place /\ Dry /\ RefCounts
  BY DEF CInv
<1>2. Queue \subseteq Entries
  BY <1>1, CorpusAssumption DEF CType, Queue, Entries
<1> QED
  BY <1>1, <1>2, CorpusAssumption DEF CType

\* An execution changes no more than the fault or the checksum.
LEMMA CalibrateRun ==
  ASSUME CInv, NEW t \in Traces, NEW fault \in {"NONE", "HANG", "CRASH"},
         calibrate_case_Run(t, fault)
  PROVE  CInv'
<1>0. /\ pc = "calibrate" /\ cal.who \in Queue /\ Queue \subseteq Entries /\ CType
      /\ cal.who \in Entries /\ cal \in CalType /\ q \in [Entries -> EntryType]
      /\ CalCyclesLong \in Nat
      /\ UNCHANGED <<stop_soon, queue_cur, rating, culling, progress, queued_paths, loop, scored>>
  BY StateFacts DEF calibrate_case_Run, Place, Call
<1>1. CASE pc' = "calibrated"
  <2>1. /\ cal' = [cal EXCEPT !.fault = IF fault = "NONE" /\ ~stop_soon THEN "NOINST" ELSE fault]
        /\ UNCHANGED <<q, kept_trace>>
    BY <1>0, <1>1 DEF calibrate_case_Run
  <2>2. /\ cal' \in CalType /\ cal'.who = cal.who /\ cal'.caller = cal.caller
        /\ cal'.fault # "NONE" \/ stop_soon
    BY <1>0, <2>1 DEF CalType
  <2>3. CType'
    BY <1>0, <1>1, <2>1, <2>2 DEF CType, rating, culling, progress, Queue
  <2>4. Place' /\ Dry'
    BY <1>0, <1>1, <2>2 DEF CInv, Place, Dry, Calling, Call, Queue, culling, rating
  <2>5. Passed'
    BY <1>0, <1>1, <2>1, <2>2 DEF CInv, Passed
  <2>6. Busy => Busy'
    BY <1>0, <1>1, <2>2 DEF Busy, Calling, Call
  <2> QED
    BY <1>0, <1>1, <2>1, <2>3, <2>4, <2>5, <2>6, PlainStep
<1>2. CASE pc' # "calibrated"
  <2> DEFINE differs == q[cal.who].exec_cksum # t
             variable == differs /\ q[cal.who].exec_cksum # NoTrace
             hnb == IF differs THEN has_new_bits(t) ELSE 0
  <2>1. /\ cal' = [cal EXCEPT !.cur = @ + 1, !.new_bits = IF hnb > @ THEN hnb ELSE @,
                              !.var = @ \/ variable,
                              !.max = IF variable THEN CalCyclesLong ELSE @]
        /\ q' = IF differs /\ ~variable THEN [q EXCEPT ![cal.who].exec_cksum = t] ELSE q
        /\ kept_trace' = t /\ pc' = pc
    BY <1>0, <1>2 DEF calibrate_case_Run
  <2>2. hnb \in 0..2
    BY DEF has_new_bits
  <2>3. variable \in BOOLEAN
    OBVIOUS
  <2> DEFINE bits == IF hnb > cal.new_bits THEN hnb ELSE cal.new_bits
             var == cal.var \/ variable
             max == IF variable THEN CalCyclesLong ELSE cal.max
  <2>10. bits \in 0..2 /\ var \in BOOLEAN /\ max \in Nat /\ cal.cur + 1 \in Nat
    BY <1>0, <2>2 DEF CalType
  <2>11. cal' = [cal EXCEPT !.cur = cal.cur + 1, !.new_bits = bits, !.var = var, !.max = max]
    BY <2>1
  <2> HIDE DEF hnb, variable, differs, bits, var, max
  <2>4. /\ cal' \in CalType /\ cal'.who = cal.who /\ cal'.caller = cal.caller
        /\ cal'.fault = cal.fault
    BY <1>0, <2>10, <2>11 DEF CalType
  <2>5. /\ q' \in [Entries -> EntryType]
        /\ \A x \in Entries : q'[x].cal_failed = q[x].cal_failed
    BY <1>0, <2>1 DEF EntryType
  <2>6. CType'
    BY <1>0, <2>1, <2>4, <2>5 DEF CType, rating, culling, progress, Queue
  <2>7. Place' /\ Dry'
    BY <1>0, <2>1, <2>4 DEF CInv, Place, Dry, Calling, Call, Queue, culling, rating
  <2>8. Passed'
    BY <1>0, <2>1, <2>4, <2>5 DEF CInv, Passed
  <2>9. Busy => Busy'
    BY <1>0, <2>1, <2>4 DEF Busy, Calling, Call
  <2> QED
    BY <1>0, <2>1, <2>5, <2>6, <2>7, <2>8, <2>9, PlainStep
<1> QED
  BY <1>1, <1>2

\* The entry has passed, and will be scored; so far it has no trace.
LEMMA CalibrateRate ==
  ASSUME CInv, NEW us \in ExecTimes, calibrate_case_Rate(us)
  PROVE  CInv'
<1>0. /\ pc = "calibrate" /\ cal.who \in Queue /\ Queue \subseteq Entries /\ CType
      /\ cal.who \in Entries /\ cal \in CalType /\ q \in [Entries -> EntryType]
      /\ kept_trace \in Traces \cup {NoTrace}
      /\ UNCHANGED <<stop_soon, queue_cur, rating, culling, progress, found, kept_trace>>
  BY StateFacts DEF calibrate_case_Rate, Place, Call
<1>11. us \in Nat /\ MapSize \in Nat \ {0} /\ MaxEntries \in Nat
  BY CorpusAssumption
<1>1. /\ q' \in [Entries -> EntryType] /\ q'[cal.who].cal_failed = 0
      /\ \A x \in Entries : x # cal.who => q'[x] = q[x]
  BY <1>0, <1>11 DEF calibrate_case_Rate, EntryType
<1>2. /\ cal' \in CalType /\ cal'.who = cal.who /\ cal'.caller = cal.caller
      /\ cal'.fault \in {"NONE", "NOBITS"}
  <2>1. cal.fault = "NONE"
    BY <1>0 DEF CInv, Passed
  <2> QED
    BY <1>0, <2>1 DEF calibrate_case_Rate, CalType
<1>3. /\ pc' = "score" /\ loop' = 1 /\ scored' \in ScoredType
      /\ scored'.who = cal.who /\ scored'.next = "calibrated"
  BY <1>0, <1>11 DEF calibrate_case_Rate, Score, ScoredType, CType, Entries
<1>4. CType'
  BY <1>0, <1>1, <1>2, <1>3 DEF CType, rating, culling, progress, found, Queue
<1>5. Place'
  BY <1>0, <1>2, <1>3, <1>11 DEF CInv, Place, Calling, Call, Queue, found
<1>6. Dry' /\ Passed'
  BY <1>0, <1>1, <1>2, <1>3 DEF CInv, Passed, Dry, Calling, Call, culling, rating
<1>7. q[cal.who].cal_failed # 0
  BY <1>0 DEF CInv, Passed, EntryType
<1>8. cal.who \notin favored /\ tc_ref[cal.who] = 0 /\ trace_mini[cal.who] = NULL
  BY <1>0, <1>7, FailedFacts DEF CInv
<1>9. Busy => Busy'
  BY <1>0, <1>2, <1>3 DEF Busy, Calling, Call
<1>10. \A x \in Entries : x \in favored \/ tc_ref[x] > 0 => q'[x].cal_failed = q[x].cal_failed
  BY <1>1, <1>8
<1> QED
  BY <1>0, <1>3, <1>4, <1>5, <1>6, <1>8, <1>9, <1>10, PlainStep DEF found

\* Back to the caller, with the fault.
LEMMA CalibrateReturn ==
  ASSUME CInv, calibrate_case_Return
  PROVE  CInv'
<1>0. /\ pc = "calibrated" /\ cal.who \in Queue /\ Queue \subseteq Entries /\ CType
      /\ cal.who \in Entries /\ cal \in CalType /\ q \in [Entries -> EntryType]
      /\ cal.caller # "none" /\ pc' = cal.caller
      /\ kept_trace' = NoTrace
      /\ UNCHANGED <<stop_soon, queue_cur, rating, culling, progress, queued_paths, loop, scored>>
  BY StateFacts DEF calibrate_case_Return, Place, Call
<1>1. /\ q' \in [Entries -> EntryType]
      /\ \A x \in Entries : q'[x].cal_failed = q[x].cal_failed
  <2> DEFINE cov == cal.new_bits = 2 /\ ~q[cal.who].has_new_cov
             var == cal.var /\ ~q[cal.who].var_behavior
             covered == q[cal.who].has_new_cov \/ cov
             varies == q[cal.who].var_behavior \/ var
  <2>1. q' = [q EXCEPT ![cal.who].has_new_cov = @ \/ cov, ![cal.who].var_behavior = @ \/ var]
    BY DEF calibrate_case_Return
  <2>2. covered \in BOOLEAN /\ varies \in BOOLEAN
    OBVIOUS
  <2>3. q' = [q EXCEPT ![cal.who] = [@ EXCEPT !.has_new_cov = covered, !.var_behavior = varies]]
    BY <1>0, <2>1 DEF EntryType
  <2> HIDE DEF cov, var, covered, varies
  <2> QED
    BY <1>0, <2>2, <2>3, ZenonT(40) DEF EntryType
<1>2. cal' \in CalType /\ cal'.fault = cal.fault /\ cal'.who = 0
  <2>1. cal' = [who |-> 0, caller |-> "none", cur |-> 0, max |-> 0, new_bits |-> 0,
                var |-> FALSE, first_run |-> FALSE, fault |-> cal.fault]
    BY DEF calibrate_case_Return, NoCal
  <2>2. 0 \in 0..MaxEntries /\ cal.fault \in {"NONE", "HANG", "CRASH", "NOINST", "NOBITS"}
    BY <1>0, CorpusAssumption DEF CalType
  <2> QED
    BY <2>1, <2>2 DEF CalType
<1>3. CType'
  BY <1>0, <1>1, <1>2 DEF CType, rating, culling, progress, Queue, CalType
<1>4. Place'
  BY <1>0 DEF CInv, Place, Calling, Call, Queue, CalType
<1>5. Dry'
  BY <1>0 DEF CInv, Dry, Calling, Call, CalType, culling, rating
<1>6. Passed'
  BY <1>0, <1>1, <1>2 DEF CInv, Place, Passed, Calling, Call, CalType
<1>7. Busy => Busy'
  BY <1>0 DEF Busy, Calling, Call
<1>8. pc' # "score" /\ pc' # "cull"
  BY <1>0 DEF CalType
<1> QED
  BY <1>0, <1>1, <1>3, <1>4, <1>5, <1>6, <1>7, <1>8, PlainStep

-----------------------------------------------------------------------------
(* update_bitmap_score().                                                   *)

\* The counts after entry e has taken byte b.
LEMMA TakeByte ==
  ASSUME CType, RefCounts, NEW b \in Bytes, NEW e \in Queue, NEW t, t[b] > 0,
         q[e].cal_failed = 0, UNCHANGED <<q, favored>>,
         top_rated' = [top_rated EXCEPT ![b] = e],
         tc_ref' = RefAfter(b, e), trace_mini' = MiniAfter(b, e, t)
  PROVE  /\ tc_ref' \in [Entries -> Int] /\ trace_mini' \in [Entries -> (SUBSET Bytes) \cup {NULL}]
         /\ RefCounts'
<1> DEFINE old == top_rated[b]
<1>0. /\ e \in Entries /\ old \in 0..queued_paths /\ (old # 0 => old \in Entries)
      /\ top_rated \in [Bytes -> 0..queued_paths] /\ tc_ref \in [Entries -> Int]
      /\ trace_mini \in [Entries -> (SUBSET Bytes) \cup {NULL}]
  BY CorpusAssumption DEF CType, Queue, Entries
<1>1. /\ tc_ref' \in [Entries -> Int]
      /\ \A x \in Entries :
           tc_ref'[x] = tc_ref[x] + (IF x = e THEN 1 ELSE 0) - (IF x = old THEN 1 ELSE 0)
  <2>1. CASE old = 0
    <3>1. tc_ref' = [tc_ref EXCEPT ![e] = @ + 1]
      BY <2>1 DEF RefAfter
    <3>2. \A x \in Entries : x # old
      BY <2>1 DEF Entries
    <3> HIDE DEF old
    <3> QED
      BY <1>0, <3>1, <3>2
  <2>2. CASE old # 0
    <3> DEFINE dec == [tc_ref EXCEPT ![old] = @ - 1]
    <3>1. tc_ref' = [dec EXCEPT ![e] = @ + 1]
      BY <2>2 DEF RefAfter
    <3>2. dec \in [Entries -> Int] /\ \A x \in Entries : dec[x] = tc_ref[x] - (IF x = old THEN 1 ELSE 0)
      BY <1>0, <2>2
    <3> HIDE DEF old, dec
    <3> QED
      BY <1>0, <3>1, <3>2
  <2> QED
    BY <2>1, <2>2
<1>2. ASSUME NEW x \in Entries
      PROVE  tc_ref'[x] = Cardinality(BestOf(x)')
  <2>0. tc_ref[x] = Cardinality(BestOf(x)) /\ IsFiniteSet(BestOf(x)) /\ tc_ref[x] \in Nat
    <3>1. tc_ref[x] = Cardinality(BestOf(x))
      BY DEF RefCounts, BestOf, Entries
    <3>2. IsFiniteSet(BestOf(x)) /\ tc_ref[x] \in Nat
      BY FiniteParts, RefZero
    <3> QED
      BY <3>1, <3>2
  <2>1. CASE x = e /\ x = old
    <3>1. BestOf(x)' = BestOf(x)
      BY <1>0, <2>1 DEF BestOf
    <3> QED
      BY <1>1, <2>0, <2>1, <3>1
  <2>2. CASE x = e /\ x # old
    <3>1. BestOf(x)' = BestOf(x) \cup {b} /\ b \notin BestOf(x)
      BY <1>0, <2>2 DEF BestOf
    <3>2. Cardinality(BestOf(x) \cup {b}) = Cardinality(BestOf(x)) + 1
      BY <2>0, <3>1, FS_AddElement
    <3> QED
      BY <1>1, <2>0, <2>2, <3>1, <3>2
  <2>3. CASE x # e /\ x = old
    <3>1. BestOf(x)' = BestOf(x) \ {b} /\ b \in BestOf(x)
      BY <1>0, <2>3 DEF BestOf
    <3>2. Cardinality(BestOf(x) \ {b}) = Cardinality(BestOf(x)) - 1
      BY <2>0, <3>1, FS_RemoveElement
    <3> QED
      BY <1>1, <2>0, <2>3, <3>1, <3>2
  <2>4. CASE x # e /\ x # old
    <3>1. BestOf(x)' = BestOf(x)
      BY <1>0, <2>4 DEF BestOf
    <3> QED
      BY <1>1, <2>0, <2>4, <3>1
  <2> QED
    BY <2>1, <2>2, <2>3, <2>4
<1> DEFINE frees == old # 0 /\ tc_ref[old] = 1
           freed == IF frees THEN [trace_mini EXCEPT ![old] = NULL] ELSE trace_mini
<1>3. /\ freed \in [Entries -> (SUBSET Bytes) \cup {NULL}]
      /\ \A x \in Entries : freed[x] = IF frees /\ x = old THEN NULL ELSE trace_mini[x]
  <2>1. CASE frees
    BY <1>0, <2>1
  <2>2. CASE ~frees
    BY <1>0, <2>2
  <2> QED
    BY <2>1, <2>2
<1>4. trace_mini' = IF freed[e] = NULL THEN [freed EXCEPT ![e] = Hit(t)] ELSE freed
  BY DEF MiniAfter
<1>5. Hit(t) \in SUBSET Bytes /\ Hit(t) # NULL
  BY CorpusAssumption DEF Hit, NULL, Bytes
<1> HIDE DEF freed, frees
<1>6. /\ trace_mini' \in [Entries -> (SUBSET Bytes) \cup {NULL}]
      /\ trace_mini'[e] # NULL
      /\ \A x \in Entries : x # e => trace_mini'[x] = freed[x]
  BY <1>0, <1>3, <1>4, <1>5
<1>7. ASSUME NEW x \in Entries
      PROVE  trace_mini'[x] = NULL <=> tc_ref'[x] = 0
  <2>0. tc_ref[x] \in Nat /\ (trace_mini[x] = NULL <=> tc_ref[x] = 0)
    BY RefZero DEF RefCounts, Entries
  <2>1. CASE x = e
    <3>1. tc_ref'[e] = Cardinality(BestOf(e)') /\ b \in BestOf(e)'
      BY <1>0, <1>2 DEF BestOf
    <3>2. IsFiniteSet(BestOf(e)')
      <4>1. BestOf(e)' \in SUBSET Bytes
        BY DEF BestOf
      <4> QED
        BY <4>1, FiniteParts, FS_Subset
    <3>3. tc_ref'[e] # 0
      BY <3>1, <3>2, FS_EmptySet
    <3> QED
      BY <2>1, <3>3, <1>6
  <2>2. CASE x # e /\ x = old
    <3>1. tc_ref'[x] = tc_ref[x] - 1 /\ old # 0
      BY <1>1, <2>0, <2>2 DEF Entries
    <3>2. frees <=> tc_ref[x] = 1
      BY <2>2, <3>1 DEF frees
    <3>3. tc_ref[x] # 0
      BY <1>0, <2>2, RefZero
    <3> QED
      BY <1>3, <1>6, <2>0, <2>2, <3>1, <3>2, <3>3
  <2>3. CASE x # e /\ x # old
    BY <1>1, <1>3, <1>6, <2>0, <2>3
  <2> QED
    BY <2>1, <2>2, <2>3
<1>8. ASSUME NEW x \in Entries, x \in favored' \/ tc_ref'[x] > 0
      PROVE  q'[x].cal_failed = 0
  <2>1. CASE x = e
    BY <2>1
  <2>2. CASE x # e
    <3>1. tc_ref[x] >= tc_ref'[x] /\ tc_ref[x] \in Int /\ tc_ref'[x] \in Int
      BY <1>0, <1>1, <2>2
    <3>2. x \in favored \/ tc_ref[x] > 0
      BY <1>8, <3>1
    <3> QED
      BY <3>2 DEF RefCounts, Entries
  <2> QED
    BY <2>1, <2>2
<1> QED
  BY <1>1, <1>2, <1>6, <1>7, <1>8 DEF RefCounts, BestOf, Entries

\* One byte of the loop.
LEMMA ScoreStep == ASSUME CInv, update_bitmap_score PROVE CInv'
<1> DEFINE e == scored.who  t == scored.trace
           wins == /\ t[loop] > 0
                   /\ top_rated[loop] # 0 => fav_factor(e) <= fav_factor(top_rated[loop])
<1>0. /\ pc = "score" /\ pc' = pc /\ loop \in Bytes /\ loop' = loop + 1 /\ CType /\ RefCounts
      /\ e \in Queue /\ q[e].cal_failed = 0 /\ scored.next # "none"
      /\ UNCHANGED <<stop_soon, queue_cur, q, culling, progress, found, scored, cal, kept_trace>>
      /\ UNCHANGED <<favored, queued_paths, was_fuzzed>>
  BY DEF update_bitmap_score, CInv, Place, Passed, culling, found, progress
<1>1. loop' \in 1 .. MapSize + 1
  BY <1>0, CorpusAssumption DEF Bytes
<1>2. Place' /\ Passed'
  <2>1. Place'
    BY <1>0, <1>1 DEF CInv, Place, Calling, Call, Queue
  <2>2. Passed'
    BY <1>0 DEF CInv, Passed
  <2> QED
    BY <2>1, <2>2
<1>3. Dry' /\ PendingExact'
  <2>1. Dry'
    <3>1. \A b \in Bytes : top_rated'[b] \in {top_rated[b], e}
      BY <1>0 DEF update_bitmap_score, CType, rating
    <3>2. Calling("dried") => e = queue_cur /\ queue_cur <= queue_cur
      BY <1>0 DEF CInv, Place, Calling, Call, CType, Entries
    <3>3. Calling("dried")' <=> Calling("dried")
      BY <1>0 DEF Calling, Call
    <3> HIDE DEF e, t, wins
    <3> QED
      BY <1>0, <3>1, <3>2, <3>3 DEF CInv, Dry
  <2>2. PendingExact'
    BY <1>0 DEF CInv, PendingExact, Queue, culling, progress
  <2> QED
    BY <2>1, <2>2
<1>4. Culled'
  BY <1>0 DEF Culled
<1>5. CASE wins
  <2>1. /\ top_rated' = [top_rated EXCEPT ![loop] = e]
        /\ tc_ref' = RefAfter(loop, e) /\ trace_mini' = MiniAfter(loop, e, t)
        /\ score_changed'
    BY <1>5 DEF update_bitmap_score
  <2>2. /\ tc_ref' \in [Entries -> Int] /\ trace_mini' \in [Entries -> (SUBSET Bytes) \cup {NULL}]
        /\ RefCounts'
    <3>1. t[loop] > 0
      BY <1>5
    <3> HIDE DEF e, t, wins
    <3> QED
      BY <1>0, <2>1, <3>1, TakeByte
  <2>3. top_rated' \in [Bytes -> 0..queued_paths']
    BY <1>0, <2>1 DEF CType, Queue, Entries
  <2>4. CType'
    BY <1>0, <2>2, <2>3 DEF CType, Queue
  <2>5. FavoredCover'
    BY <2>1 DEF FavoredCover
  <2>6. Minis'
    <3> DEFINE old == top_rated[loop]
               freed == IF old # 0 /\ tc_ref[old] = 1
                        THEN [trace_mini EXCEPT ![old] = NULL] ELSE trace_mini
    <3>0. e \in Entries /\ (old # 0 => old \in Entries) /\ trace_mini \in [Entries -> (SUBSET Bytes) \cup {NULL}]
      BY <1>0, CorpusAssumption DEF CType, Queue, Entries
    <3>1. trace_mini' = IF freed[e] = NULL THEN [freed EXCEPT ![e] = Hit(t)] ELSE freed
      BY <2>1 DEF MiniAfter
    <3>2. /\ DOMAIN freed = Entries
          /\ \A x \in Entries : freed[x] = trace_mini[x] \/ freed[x] = NULL
      BY <3>0
    <3> HIDE DEF freed
    <3>3. /\ \A x \in Entries : x # e => trace_mini'[x] \in {trace_mini[x], NULL}
          /\ trace_mini'[e] \in {trace_mini[e], Hit(t)}
      BY <3>0, <3>1, <3>2
    <3>4. scored.next = "calibrated" => trace_mini'[e] = Hit(t)
      <4>1. scored.next = "calibrated" => trace_mini[e] \in {NULL, Hit(t)}
        BY <1>0 DEF CInv, Minis
      <4>2. trace_mini'[e] # NULL
        <5>1. top_rated'[loop] = e /\ e # 0
          BY <1>0, <2>1, <3>0 DEF CType, Entries
        <5>2. tc_ref'[e] # 0
          <6>1. \E b \in Bytes : top_rated'[b] = e
            BY <1>0, <5>1
          <6>2. ASSUME CType', RefCounts' PROVE tc_ref'[e] = 0 => \A b \in Bytes : top_rated'[b] # e
            <7>1. IsFiniteSet(BestOf(e)')
              <8>1. BestOf(e)' \in SUBSET Bytes
                BY DEF BestOf
              <8> QED
                BY <1>0, <8>1, FiniteParts, FS_Subset
            <7>2. tc_ref'[e] = Cardinality(BestOf(e)')
              BY <1>0, <3>0, <6>2 DEF RefCounts, BestOf, Entries
            <7> QED
              BY <1>0, <7>1, <7>2, FS_EmptySet DEF BestOf
          <6> QED
            BY <6>1, <6>2, <2>2, <2>4
        <5> QED
          BY <2>2, <3>0, <5>2 DEF RefCounts, Entries
      <4> QED
        BY <3>3, <4>1, <4>2
    <3>5. loop \in Hit(t)
      BY <1>0, <1>5 DEF Hit
    <3>6. Busy' <=> Busy
      BY <1>0 DEF Busy, Calling, Call
    <3>7. scored.next = "trimmed" => e = queue_cur /\ Busy
      BY <1>0 DEF CInv, Place, Busy
    <3>8. scored.next \in {"calibrated", "trimmed"}
      BY <1>0 DEF CType, ScoredType
    <3>9. ASSUME NEW b \in Bytes, top_rated'[b] # 0, top_rated'[b] \notin was_fuzzed',
                 ~(Busy' /\ top_rated'[b] = queue_cur')
          PROVE  b \in trace_mini'[top_rated'[b]]
      <4>1. CASE top_rated'[b] = e
        <5>1. scored.next = "calibrated" /\ trace_mini'[e] = Hit(t)
          BY <1>0, <3>4, <3>6, <3>7, <3>8, <3>9, <4>1
        <5>2. CASE b = loop
          BY <4>1, <5>1, <5>2, <3>5
        <5>3. CASE b # loop
          <6>1. top_rated[b] = e
            BY <1>0, <2>1, <4>1, <5>3 DEF CType
          <6>2. b \in trace_mini[e] /\ trace_mini[e] # NULL
            <7>1. b \in trace_mini[e]
              BY <1>0, <3>0, <3>6, <3>9, <4>1, <6>1 DEF CInv, Minis, Entries
            <7> QED
              BY <7>1, CorpusAssumption DEF Bytes, NULL
          <6>3. trace_mini[e] = Hit(t)
            BY <1>0, <5>1, <6>2 DEF CInv, Minis
          <6> QED
            BY <4>1, <5>1, <6>2, <6>3
        <5> QED
          BY <5>2, <5>3
      <4>2. CASE top_rated'[b] # e
        <5>1. b # loop /\ top_rated[b] = top_rated'[b]
          BY <1>0, <2>1, <4>2 DEF CType
        <5>2. b \in trace_mini[top_rated[b]] /\ top_rated[b] \in Entries
          BY <1>0, <3>6, <3>9, <5>1, WinnerFacts DEF CInv, Minis
        <5>3. trace_mini'[top_rated[b]] # NULL
          <6> DEFINE x == top_rated[b]
          <6>1. IsFiniteSet(BestOf(x)') /\ b \in BestOf(x)'
            <7>1. BestOf(x)' \in SUBSET Bytes /\ b \in BestOf(x)'
              BY <5>1 DEF BestOf
            <7> QED
              BY <1>0, <7>1, FiniteParts, FS_Subset
          <6>2. tc_ref'[x] = Cardinality(BestOf(x)')
            BY <2>2, <5>2, <5>1 DEF RefCounts, BestOf, Entries
          <6>3. tc_ref'[x] # 0
            BY <6>1, <6>2, FS_EmptySet
          <6> QED
            BY <2>2, <5>2, <6>3 DEF RefCounts, Entries
        <5> QED
          BY <3>3, <4>2, <5>1, <5>2, <5>3
      <4> QED
        BY <4>1, <4>2
    <3> QED
      BY <1>0, <3>4, <3>9 DEF Minis
  <2> QED
    BY <1>2, <1>3, <1>4, <2>2, <2>4, <2>5, <2>6 DEF CInv
<1>6. CASE ~wins
  <2>1. UNCHANGED rating
    BY <1>6 DEF update_bitmap_score
  <2>2. CType'
    BY <1>0, <2>1 DEF CType, Queue, rating
  <2>3. Busy' <=> Busy
    BY <1>0 DEF Busy, Calling, Call
  <2>4. scored.next = "calibrated" => trace_mini[e] \in {NULL, Hit(t)}
    BY <1>0 DEF CInv, Minis
  <2> HIDE DEF wins
  <2> QED
    BY <1>0, <1>2, <1>3, <2>1, <2>2, <2>3, <2>4, PlainStep
<1> QED
  BY <1>5, <1>6

\* The end of the loop.
LEMMA ScoreReturn == ASSUME CInv, update_bitmap_score_Return PROVE CInv'
<1>0. /\ pc = "score" /\ pc' = scored.next /\ CType
      /\ scored.next \in {"calibrated", "trimmed"} /\ scored.who \in Queue
      /\ UNCHANGED <<stop_soon, queue_cur, q, rating, culling, progress, found, cal, kept_trace>>
  BY DEF update_bitmap_score_Return, CInv, CType, Place, ScoredType
<1>1. scored' \in ScoredType
  BY CorpusAssumption DEF update_bitmap_score_Return, ScoredType
<1>2. CType'
  BY <1>0, <1>1 DEF CType, rating, culling, progress, found, Queue
<1>3. Place'
  BY <1>0 DEF CInv, Place, Calling, Call, Queue, found
<1>4. Passed' /\ Dry'
  BY <1>0 DEF CInv, Place, Passed, Dry, Calling, Call, culling, rating
<1>5. Busy => Busy'
  BY <1>0 DEF Busy, Calling, Call
<1> QED
  BY <1>0, <1>2, <1>3, <1>4, <1>5, PlainStep DEF found

-----------------------------------------------------------------------------
(* perform_dry_run().                                                       *)

\* The next seed, which has not been scored, is calibrated.
LEMMA DryRunCase == ASSUME CInv, perform_dry_run_Case PROVE CInv'
<1>0. /\ pc = "dry" /\ queue_cur \in Queue /\ Calibrate(queue_cur, "dried") /\ CType /\ RefCounts
      /\ UNCHANGED <<stop_soon, queue_cur, rating, culling, progress, found, loop, scored, kept_trace>>
      /\ favored = {}
  BY DEF perform_dry_run_Case, CInv, Dry
<1>1. queue_cur \in Entries /\ \A b \in Bytes : top_rated[b] # queue_cur
  BY <1>0, CorpusAssumption DEF CInv, CType, Dry, Queue, Entries
<1>2. tc_ref[queue_cur] = 0
  BY <1>0, <1>1, RefZero
<1> QED
  BY <1>0, <1>2, CalibrateStep

\* A seed that crashes or hangs is taken out; it has not been scored.
LEMMA DryRunJudge == ASSUME CInv, perform_dry_run_Judge PROVE CInv'
<1>0. /\ pc = "dried" /\ pc' \in {"dry", "done"} /\ CType /\ RefCounts /\ favored = {}
      /\ queue_cur \in Queue /\ queue_cur \in Entries /\ q \in [Entries -> EntryType]
      /\ UNCHANGED <<stop_soon, rating, culling, progress, found, loop, scored, kept_trace>>
      /\ CalChances \in Nat \ {0} /\ queued_paths' = queued_paths /\ favored' = favored
  BY StateFacts DEF perform_dry_run_Judge, Place, Dry, found, culling
<1>1. /\ q' \in [Entries -> EntryType]
      /\ \A x \in Entries : x # queue_cur => q'[x] = q[x]
      /\ q' = q \/ cal.fault \in {"HANG", "CRASH"}
  <2>1. \/ q' = q
        \/ /\ q' = [q EXCEPT ![queue_cur].cal_failed = CalChances]
           /\ cal.fault \in {"HANG", "CRASH"}
    BY DEF perform_dry_run_Judge
  <2> QED
    BY <1>0, <2>1 DEF EntryType
<1>2. cal' \in CalType
  BY CorpusAssumption DEF perform_dry_run_Judge, NoCal, CalType
<1>3. \/ pc' = "dry" /\ queue_cur' = queue_cur + 1
      \/ pc' = "done" /\ queue_cur' = queue_cur
  BY DEF perform_dry_run_Judge
<1>4. CType'
  <2>1. queue_cur' \in 0 .. queued_paths' + 1
    BY <1>0, <1>3 DEF CType, Queue, Entries
  <2> QED
    BY <1>0, <1>1, <1>2, <2>1 DEF CType, rating, culling, progress, found, Queue
<1>5. Place' /\ Passed'
  BY <1>0 DEF Place, Passed, Calling, Call
<1>6. Dry'
  <2>1. \A b \in Bytes : top_rated[b] <= queue_cur
    BY <1>0 DEF CInv, Dry
  <2>2. \A b \in Bytes : top_rated[b] \in Int /\ top_rated'[b] = top_rated[b]
    BY <1>0 DEF CType, rating, Entries
  <2> QED
    BY <1>0, <1>3, <2>1, <2>2 DEF Dry, Calling, Call, Queue
<1>7. ~Busy
  BY <1>0 DEF Busy, Calling, Call
<1>8. ASSUME NEW x \in Entries, x \in favored \/ tc_ref[x] > 0
      PROVE  q'[x].cal_failed = q[x].cal_failed
  <2>1. CASE x # queue_cur \/ q' = q
    BY <1>1, <2>1
  <2>2. CASE x = queue_cur /\ q' # q
    <3>1. q[queue_cur].cal_failed # 0
      BY <1>0, <1>1, <2>2 DEF CInv, Passed, EntryType
    <3>2. tc_ref[queue_cur] = 0 /\ queue_cur \notin favored
      BY <1>0, <3>1, FailedFacts
    <3> QED
      BY <2>2, <3>2, <1>8
  <2> QED
    BY <2>1, <2>2
<1> QED
  BY <1>0, <1>4, <1>5, <1>6, <1>7, <1>8, PlainStep

\* Into the main loop.
LEMMA DryRunEnd == ASSUME CInv, perform_dry_run_End PROVE CInv'
<1>0. /\ pc = "dry" /\ pc' \in {"top", "done"} /\ CType
      /\ UNCHANGED <<stop_soon, q, rating, culling, progress, found, work>>
      /\ (pc' = "top" => queue_cur' \in Queue) /\ (pc' = "done" => queue_cur' = queue_cur)
  BY DEF perform_dry_run_End, CInv
<1>1. queue_cur' \in 0 .. queued_paths' + 1 /\ (pc' = "top" => queue_cur' \in 0..queued_paths')
  BY <1>0 DEF CType, Queue, found, Entries
<1>2. CType'
  BY <1>0, <1>1 DEF CType, rating, culling, progress, found, work, Queue
<1>3. Place' /\ Passed' /\ Dry'
  BY <1>0, <1>1 DEF Place, Passed, Dry, Calling, Call
<1>4. ~Busy
  BY <1>0 DEF Busy, Calling, Call
<1> QED
  BY <1>0, <1>2, <1>3, <1>4, PlainStep DEF found

-----------------------------------------------------------------------------
(* cull_queue().                                                            *)

\* A cull begins with an empty favored set, or is not needed.
LEMMA CullBegin == ASSUME CInv, cull_queue_Begin PROVE CInv'
<1>0. /\ pc = "top" /\ CType
      /\ UNCHANGED <<stop_soon, queue_cur, q, top_rated, tc_ref, trace_mini, progress, found,
                     scored, cal, kept_trace>>
      /\ UNCHANGED <<queued_paths, was_fuzzed>>
  BY DEF cull_queue_Begin, CInv, found, progress
<1>1. queue_cur \in 0..queued_paths
  BY <1>0 DEF CInv, Place
<1>2. ~Busy
  BY <1>0 DEF Busy, Calling, Call
<1>3. CASE score_changed
  <2>1. /\ temp_v' = Bytes /\ pending_favored' = 0 /\ favored' = {} /\ loop' = 1 /\ pc' = "cull"
    BY <1>3 DEF cull_queue_Begin
  <2>2. CType'
    BY <1>0, <2>1 DEF CType, Queue
  <2>3. Place' /\ Passed' /\ Dry'
    BY <1>0, <1>1, <2>1 DEF Place, Passed, Dry, Calling, Call
  <2>4. RefCounts'
    BY <1>0, <2>1 DEF CInv, RefCounts
  <2>5. PendingExact'
    <3>1. {} \ was_fuzzed = {} /\ Cardinality({}) = 0
      BY FS_EmptySet
    <3>2. pending_not_fuzzed' = Cardinality(Queue' \ was_fuzzed')
      BY <1>0 DEF CInv, PendingExact, Queue, progress
    <3> QED
      BY <1>0, <2>1, <3>1, <3>2 DEF PendingExact
  <2>6. Minis'
    <3>1. ~Busy'
      BY <2>1 DEF Busy, Calling, Call
    <3> QED
      BY <1>0, <1>2, <2>1, <3>1 DEF CInv, Minis
  <2>7. Culled' /\ FavoredCover'
    BY <1>0, <2>1, CorpusAssumption DEF Culled, FavoredCover, Bytes
  <2> QED
    BY <2>2, <2>3, <2>4, <2>5, <2>6, <2>7 DEF CInv
<1>4. CASE ~score_changed
  <2>1. pc' = "pick" /\ UNCHANGED <<score_changed, culling, loop>>
    BY <1>4 DEF cull_queue_Begin
  <2>2. CType'
    BY <1>0, <2>1 DEF CType, Queue, culling
  <2>3. Place' /\ Passed' /\ Dry'
    BY <1>0, <1>1, <2>1 DEF Place, Passed, Dry, Calling, Call
  <2> QED
    BY <1>0, <1>2, <2>1, <2>2, <2>3, PlainStep DEF rating
<1> QED
  BY <1>3, <1>4

\* One byte: its best entry becomes favored unless the favored ones show the
\* byte.  A pending entry is not counted twice, for the trace of a pending
\* favorite shows all bytes it is the best of.
LEMMA CullByte == ASSUME CInv, cull_queue_Byte PROVE CInv'
<1> DEFINE e == top_rated[loop]
<1>0. /\ pc = "cull" /\ pc' = "cull" /\ CType /\ loop \in Bytes /\ loop' = loop + 1
      /\ UNCHANGED <<stop_soon, queue_cur, q, rating, progress, found, scored, cal, kept_trace>>
      /\ UNCHANGED <<queued_paths, was_fuzzed, top_rated, tc_ref, trace_mini>>
      /\ RefCounts /\ PendingExact
  BY DEF cull_queue_Byte, CInv, found, progress, rating
<1>1. queue_cur \in 0..queued_paths /\ loop' \in 1 .. MapSize + 1 /\ loop \in Int
  BY <1>0, CorpusAssumption DEF CInv, Place, Bytes
<1>2. ~Busy /\ ~Busy'
  BY <1>0 DEF Busy, Calling, Call
<1>3. Place' /\ Passed' /\ Dry'
  BY <1>0, <1>1 DEF Place, Passed, Dry, Calling, Call
<1>4. Minis'
  BY <1>0, <1>2 DEF CInv, Minis
<1>5. FavoredCover'
  BY <1>0 DEF FavoredCover
<1>6. /\ \A f \in favored : trace_mini[f] \cap temp_v = {}
      /\ \A b \in Bytes \ temp_v : \E f \in favored : b \in trace_mini[f]
      /\ \A b \in Bytes : b < loop /\ top_rated[b] # 0 =>
           \E f \in favored : b \in trace_mini[f] \/ f = top_rated[b]
  BY <1>0 DEF CInv, Culled
<1>7. \A b \in Bytes : b < loop' => b < loop \/ b = loop
  BY <1>0, <1>1 DEF Bytes
<1>8. pending_not_fuzzed' = Cardinality(Queue' \ was_fuzzed')
  BY <1>0 DEF PendingExact, Queue, progress
<1>9. CASE e # 0 /\ loop \in temp_v
  <2>1. /\ temp_v' = temp_v \ trace_mini[e] /\ favored' = favored \cup {e}
        /\ pending_favored' = pending_favored + (IF e \in was_fuzzed THEN 0 ELSE 1)
    BY <1>9 DEF cull_queue_Byte
  <2>2. e \in Queue /\ e \in Entries /\ q[e].cal_failed = 0 /\ trace_mini[e] \in SUBSET Bytes
    BY <1>0, <1>9, WinnerFacts
  <2>3. e \notin was_fuzzed => e \notin favored
    <3>1. e \notin was_fuzzed => loop \in trace_mini[e]
      BY <1>0, <1>2, <1>9 DEF CInv, Minis
    <3> QED
      BY <1>6, <1>9, <3>1
  <2> HIDE DEF e
  <2>4. CType'
    BY <1>0, <2>1, <2>2 DEF CType, Queue
  <2>5. RefCounts'
    BY <1>0, <2>1, <2>2 DEF RefCounts, Entries
  <2>6. PendingExact'
    <3>1. IsFiniteSet(favored \ was_fuzzed) /\ pending_favored = Cardinality(favored \ was_fuzzed)
      BY <1>0, FiniteParts DEF PendingExact
    <3>2. CASE e \in was_fuzzed
      <4>1. favored' \ was_fuzzed' = favored \ was_fuzzed
        BY <1>0, <2>1, <3>2
      <4>2. Cardinality(favored \ was_fuzzed) \in Nat
        BY <3>1, FS_CardinalityType
      <4>3. pending_favored' = pending_favored
        BY <2>1, <3>1, <3>2, <4>2
      <4> QED
        BY <1>8, <3>1, <4>1, <4>3 DEF PendingExact
    <3>3. CASE e \notin was_fuzzed
      <4>1. favored' \ was_fuzzed' = (favored \ was_fuzzed) \cup {e} /\ e \notin favored \ was_fuzzed
        BY <1>0, <2>1, <2>3, <3>3
      <4>2. Cardinality((favored \ was_fuzzed) \cup {e}) = Cardinality(favored \ was_fuzzed) + 1
        BY <3>1, <4>1, FS_AddElement
      <4>3. pending_favored' = pending_favored + 1
        BY <2>1, <3>3
      <4> QED
        BY <1>8, <3>1, <4>1, <4>2, <4>3 DEF PendingExact
    <3> QED
      BY <3>2, <3>3
  <2>7. Culled'
    <3>1. \A f \in favored' : trace_mini'[f] \cap temp_v' = {}
      BY <1>0, <1>6, <2>1
    <3>2. \A b \in Bytes \ temp_v' : \E f \in favored' : b \in trace_mini'[f]
      BY <1>0, <1>6, <2>1
    <3>3. \A b \in Bytes : b < loop' /\ top_rated'[b] # 0 =>
            \E f \in favored' : b \in trace_mini'[f] \/ f = top_rated'[b]
      <4>1. e \in favored' /\ e = top_rated'[loop]
        BY <1>0, <2>1 DEF e
      <4> QED
        BY <1>0, <1>6, <1>7, <2>1, <4>1
    <3> QED
      BY <1>1, <3>1, <3>2, <3>3 DEF Culled
  <2> QED
    BY <1>3, <1>4, <1>5, <2>4, <2>5, <2>6, <2>7 DEF CInv
<1>10. CASE ~(e # 0 /\ loop \in temp_v)
  <2>1. UNCHANGED culling
    BY <1>10 DEF cull_queue_Byte
  <2>2. CType'
    BY <1>0, <2>1 DEF CType, Queue, culling
  <2>3. RefCounts' /\ PendingExact'
    BY <1>0, <2>1, CountsStay
  <2>4. Culled'
    <3>1. top_rated[loop] # 0 => \E f \in favored : loop \in trace_mini[f]
      BY <1>0, <1>6, <1>10
    <3>2. \A b \in Bytes : b < loop' /\ top_rated[b] # 0 =>
            \E f \in favored : b \in trace_mini[f] \/ f = top_rated[b]
      BY <1>6, <1>7, <3>1
    <3> HIDE DEF e
    <3> QED
      BY <1>0, <1>1, <1>6, <2>1, <3>2 DEF Culled, culling
  <2> QED
    BY <1>3, <1>4, <1>5, <2>2, <2>3, <2>4 DEF CInv
<1> QED
  BY <1>9, <1>10

\* All bytes done: the favored entries cover the map.
LEMMA CullReturn == ASSUME CInv, cull_queue_Return PROVE CInv'
<1>0. /\ pc = "cull" /\ pc' = "pick" /\ loop > MapSize /\ CType
      /\ UNCHANGED <<stop_soon, queue_cur, q, rating, favored, queued_favored, pending_favored,
                     progress, found, scored, cal, kept_trace>>
      /\ UNCHANGED <<queued_paths, was_fuzzed, top_rated, tc_ref, trace_mini>>
  BY DEF cull_queue_Return, CInv, found, progress, rating
<1>1. queue_cur \in 0..queued_paths
  BY <1>0 DEF CInv, Place
<1>2. ~Busy /\ ~Busy'
  BY <1>0 DEF Busy, Calling, Call
<1>3. CType'
  BY <1>0 DEF CType, Queue
<1>4. Place' /\ Passed' /\ Dry'
  BY <1>0, <1>1 DEF Place, Passed, Dry, Calling, Call
<1>5. RefCounts' /\ PendingExact'
  BY <1>0 DEF CInv, RefCounts, PendingExact, Queue, progress
<1>6. Minis' /\ Culled'
  BY <1>0, <1>2 DEF CInv, Minis, Culled
<1>7. FavoredCover'
  <2>1. \A b \in Bytes : b < loop
    BY <1>0, CorpusAssumption DEF CInv, Culled, Bytes
  <2> QED
    BY <1>0, <2>1 DEF CInv, Culled, FavoredCover
<1> QED
  BY <1>3, <1>4, <1>5, <1>6, <1>7 DEF CInv

-----------------------------------------------------------------------------
(* fuzz_one(), save_if_interesting() and the main loop.                     *)

\* A new entry is pending, and has not been scored.
LEMMA SaveStep ==
  ASSUME CInv, NEW t \in Traces, NEW l \in Lens, NEW caller \in {"fuzz", "sync"}, pc = caller,
         save_if_interesting(t, l, caller)
  PROVE  CInv'
<1> DEFINE e == queued_paths + 1
<1>0. /\ CType /\ RefCounts /\ PendingExact /\ queued_paths' = e /\ pc' = "calibrate"
      /\ queued_paths < MaxEntries
      /\ pending_not_fuzzed' = pending_not_fuzzed + 1
      /\ UNCHANGED <<stop_soon, queue_cur, rating, culling, was_fuzzed, loop, scored, kept_trace>>
      /\ UNCHANGED <<top_rated, tc_ref, trace_mini, favored, pending_favored, score_changed>>
  BY DEF save_if_interesting, CInv, rating, culling
<1>1. /\ e \in Entries /\ e \notin Queue /\ Queue' = Queue \cup {e} /\ Queue \subseteq Entries
      /\ queued_paths \in Nat
  BY <1>0, CorpusAssumption DEF CType, Queue, Entries
<1>2. l \in Nat /\ CalCycles \in Nat /\ MaxEntries \in Nat
  BY CorpusAssumption
<1>3. /\ q' \in [Entries -> EntryType] /\ q'[e].cal_failed = 1
      /\ \A x \in Entries : x # e => q'[x] = q[x]
  <2> DEFINE cov == has_new_bits(t) = 2
             r == [Entry(l) EXCEPT !.exec_cksum = t, !.has_new_cov = cov, !.cal_failed = 1]
  <2>1. q' = [q EXCEPT ![e] = r]
    BY DEF save_if_interesting
  <2>2. cov \in BOOLEAN
    OBVIOUS
  <2> HIDE DEF cov, e
  <2>3. Entry(l) \in EntryType
    BY <1>2 DEF Entry, EntryType
  <2>4. r \in EntryType /\ r.cal_failed = 1
    BY <2>2, <2>3 DEF EntryType
  <2> HIDE DEF r
  <2> QED
    BY <1>0, <1>1, <2>1, <2>4 DEF CType
<1>4. cal' \in CalType /\ cal'.who = e /\ cal'.caller = caller /\ cal'.fault = "NONE"
  <2>1. cal' = [who |-> e, caller |-> caller, cur |-> 0, max |-> CalCycles, new_bits |-> 0,
                var |-> FALSE, first_run |-> FALSE, fault |-> "NONE"]
    BY DEF save_if_interesting, NoCal
  <2>2. e \in 0..MaxEntries
    BY <1>1 DEF Entries
  <2> HIDE DEF e
  <2> QED
    BY <1>2, <2>1, <2>2 DEF CalType
<1>5. CType'
  <2>1. was_fuzzed' \subseteq Queue' /\ favored' \subseteq Queue'
    BY <1>0, <1>1 DEF CType
  <2>2. top_rated' \in [Bytes -> 0..queued_paths'] /\ queue_cur' \in 0 .. queued_paths' + 1
    BY <1>0, <1>1 DEF CType
  <2> QED
    BY <1>0, <1>1, <1>3, <1>4, <2>1, <2>2 DEF CType
<1>6. Place' /\ Passed' /\ Dry'
  <2>1. queue_cur' \in 0..queued_paths' /\ (caller = "fuzz" => queue_cur' \in Queue')
    BY <1>0, <1>1 DEF CInv, Place
  <2> HIDE DEF e
  <2>2. Place'
    BY <1>0, <1>1, <1>4, <2>1 DEF Place, Calling, Call
  <2>3. Passed' /\ Dry'
    BY <1>0, <1>3, <1>4 DEF Passed, Dry, Calling, Call
  <2> QED
    BY <2>2, <2>3
<1>7. e \notin favored /\ tc_ref[e] = 0
  <2>1. \A b \in Bytes : top_rated[b] # e
    BY <1>0, <1>1 DEF CType
  <2> QED
    BY <1>0, <1>1, <2>1, RefZero DEF CType
<1> HIDE DEF e
<1>8. RefCounts'
  BY <1>0, <1>3, <1>7 DEF RefCounts, Entries
<1>9. PendingExact'
  <2>1. /\ Queue' \ was_fuzzed' = (Queue \ was_fuzzed) \cup {e} /\ e \notin Queue \ was_fuzzed
        /\ IsFiniteSet(Queue \ was_fuzzed)
    BY <1>0, <1>1, FiniteParts DEF CType
  <2>2. Cardinality((Queue \ was_fuzzed) \cup {e}) = Cardinality(Queue \ was_fuzzed) + 1
    BY <2>1, FS_AddElement
  <2> QED
    BY <1>0, <2>1, <2>2 DEF PendingExact
<1>10. Minis' /\ Culled' /\ FavoredCover'
  <2>1. Busy => Busy'
    BY <1>0, <1>4 DEF Busy, Calling, Call
  <2>2. Minis'
    BY <1>0, <2>1 DEF CInv, Minis
  <2>3. Culled' /\ FavoredCover'
    BY <1>0 DEF CInv, Culled, FavoredCover
  <2> QED
    BY <2>2, <2>3
<1> QED
  BY <1>5, <1>6, <1>8, <1>9, <1>10 DEF CInv

\* The current entry is opened, or calibrated once more.
LEMMA OpenStep == ASSUME CInv, fuzz_one_Open PROVE CInv'
<1>0. pc = "pick" /\ queue_cur # 0 /\ CType /\ RefCounts
  BY DEF fuzz_one_Open, Goto, CInv
<1>1. queue_cur \in Queue /\ queue_cur \in Entries
  BY <1>0, CorpusAssumption DEF CInv, CType, Place, Queue, Entries
<1>2. CASE q[queue_cur].cal_failed = 0 /\ Goto("pick", "trim")
  BY <1>0, <1>2, GotoStep
<1>3. CASE Goto("pick", "abandon")
  BY <1>0, <1>3, GotoStep
<1>4. CASE /\ q[queue_cur].cal_failed \in 1..(CalChances - 1)
           /\ Calibrate(queue_cur, "recalibrated")
           /\ UNCHANGED <<stop_soon, queue_cur, rating, culling, progress, found,
                          loop, scored, kept_trace>>
  <2>1. queue_cur \notin favored /\ tc_ref[queue_cur] = 0
    BY <1>0, <1>1, <1>4, FailedFacts
  <2> QED
    BY <1>0, <1>1, <1>4, <2>1, CalibrateStep
<1> QED
  BY <1>2, <1>3, <1>4 DEF fuzz_one_Open

\* A chunk is dropped: only the length of the entry changes.
LEMMA TrimRun == ASSUME CInv, NEW t \in Traces, trim_case_Run(t) PROVE CInv'
<1>0. /\ pc = "trim" /\ pc' = "trim" /\ CType /\ queue_cur \in Queue /\ queue_cur \in Entries
      /\ q \in [Entries -> EntryType] /\ kept_trace' = t
      /\ q' = [q EXCEPT ![queue_cur].len = @ - 1] /\ q[queue_cur].len > 1
      /\ UNCHANGED <<stop_soon, queue_cur, rating, culling, progress, found, loop, scored, cal>>
  BY StateFacts DEF trim_case_Run, Place
<1>1. /\ q' \in [Entries -> EntryType]
      /\ \A x \in Entries : q'[x].cal_failed = q[x].cal_failed
  BY <1>0 DEF EntryType
<1>2. CType'
  BY <1>0, <1>1 DEF CType, rating, culling, progress, found, Queue
<1>3. Place' /\ Passed' /\ Dry'
  BY <1>0, <1>1 DEF CInv, Place, Passed, Dry, Calling, Call, found, Queue
<1>4. ~Busy
  BY <1>0 DEF Busy, Calling, Call
<1> QED
  BY <1>0, <1>1, <1>2, <1>3, <1>4, PlainStep DEF found

\* A trimmed case is scored anew.
LEMMA TrimEnd == ASSUME CInv, trim_case_End PROVE CInv'
<1>0. pc = "trim" /\ CType /\ queue_cur \in Queue /\ queue_cur # 0
  BY DEF trim_case_End, CInv, Place, Queue
<1>1. CASE Goto("trim", "trimmed")
  BY <1>0, <1>1, GotoStep
<1>2. CASE ~Goto("trim", "trimmed")
  <2>1. /\ scored' = [who |-> queue_cur, trace |-> kept_trace, next |-> "trimmed"]
        /\ loop' = 1 /\ pc' = "score" /\ kept_trace' = NoTrace
        /\ UNCHANGED <<stop_soon, queue_cur, q, rating, culling, progress, found, cal>>
    BY <1>2 DEF trim_case_End, Score
  <2>2. queue_cur \in 0..MaxEntries /\ MapSize \in Nat
    BY <1>0, CorpusAssumption DEF CType, Queue, Entries
  <2>3. scored' \in ScoredType
    BY <1>0, <2>1, <2>2 DEF ScoredType, CType
  <2>4. CType'
    BY <1>0, <2>1, <2>3 DEF CType, rating, culling, progress, found, Queue
  <2>5. Place'
    BY <1>0, <2>1, <2>2 DEF CInv, Place, Calling, Call, found, Queue
  <2>6. Passed' /\ Dry'
    <3>1. q[queue_cur].cal_failed = 0
      BY <1>0 DEF CInv, Passed
    <3> QED
      BY <1>0, <2>1, <3>1 DEF CInv, Passed, Dry, Calling, Call
  <2>7. ~Busy
    BY <1>0 DEF Busy, Calling, Call
  <2> QED
    BY <1>0, <2>1, <2>4, <2>5, <2>6, <2>7, PlainStep DEF found
<1> QED
  BY <1>1, <1>2

\* Trimming is noted in the entry.
LEMMA TrimmedStep == ASSUME CInv, fuzz_one_Trimmed PROVE CInv'
<1>0. /\ pc = "trimmed" /\ pc' \in {"abandon", "fuzz"} /\ CType /\ queue_cur \in Queue
      /\ queue_cur \in Entries /\ q \in [Entries -> EntryType] /\ kept_trace' = NoTrace
      /\ UNCHANGED <<stop_soon, queue_cur, rating, culling, progress, found, loop, scored, cal>>
  BY StateFacts DEF fuzz_one_Trimmed, Place
<1>1. /\ q' \in [Entries -> EntryType]
      /\ \A x \in Entries : q'[x].cal_failed = q[x].cal_failed
  <2>1. CASE q' = q
    BY <1>0, <2>1
  <2>2. CASE q' = [q EXCEPT ![queue_cur].trim_done = TRUE]
    <3>1. q' = [q EXCEPT ![queue_cur] = [q[queue_cur] EXCEPT !.trim_done = TRUE]]
      BY <1>0, <2>2
    <3>2. /\ [q[queue_cur] EXCEPT !.trim_done = TRUE] \in EntryType
          /\ [q[queue_cur] EXCEPT !.trim_done = TRUE].cal_failed = q[queue_cur].cal_failed
      <4>1. q[queue_cur] \in EntryType
        BY <1>0
      <4> QED
        BY <4>1 DEF EntryType
    <3> QED
      BY <1>0, <3>1, <3>2
  <2> QED
    BY <2>1, <2>2 DEF fuzz_one_Trimmed
<1>2. CType'
  BY <1>0, <1>1 DEF CType, rating, culling, progress, found, Queue
<1>3. Place' /\ Passed' /\ Dry'
  BY <1>0, <1>1 DEF CInv, Place, Passed, Dry, Calling, Call, found, Queue
<1>4. Busy'
  BY <1>0 DEF Busy
<1> QED
  BY <1>0, <1>1, <1>2, <1>3, <1>4, PlainStep DEF found

\* The entry is marked as fuzzed and no longer pending.
LEMMA AbandonStep == ASSUME CInv, abandon_entry PROVE CInv'
<1> DEFINE marks == ~stop_soon /\ q[queue_cur].cal_failed = 0 /\ queue_cur \notin was_fuzzed
<1>0. /\ pc \in {"abandon", "complete"} /\ pc' \in {"next", "sync"} /\ CType /\ RefCounts
      /\ pc' = "sync" => ~stop_soon
      /\ PendingExact /\ queue_cur \in Queue
      /\ UNCHANGED <<stop_soon, queue_cur, q, rating, favored, queued_favored, temp_v, found,
                     loop, scored, kept_trace>>
      /\ UNCHANGED <<queued_paths, top_rated, tc_ref, trace_mini, score_changed>>
  BY DEF abandon_entry, CInv, Place, found, rating
<1>1. queue_cur \in Entries /\ queue_cur \in 0..queued_paths
  BY <1>0, CorpusAssumption DEF CType, Queue, Entries
<1>2. cal' \in CalType
  BY CorpusAssumption DEF abandon_entry, NoCal, CalType
<1>3. was_fuzzed' = IF marks THEN was_fuzzed \cup {queue_cur} ELSE was_fuzzed
  BY DEF abandon_entry, progress
<1>4. CType'
  BY <1>0, <1>2, <1>3 DEF CType, Queue
<1>5. Place' /\ Passed' /\ Dry'
  BY <1>0, <1>1 DEF Place, Passed, Dry, Calling, Call
<1>6. RefCounts'
  BY <1>0 DEF RefCounts
<1>7. PendingExact'
  <2>0. /\ IsFiniteSet(Queue \ was_fuzzed) /\ IsFiniteSet(favored \ was_fuzzed)
        /\ Queue' = Queue /\ favored' = favored
    BY <1>0, FiniteParts DEF Queue
  <2>1. CASE marks
    <3>1. /\ was_fuzzed' = was_fuzzed \cup {queue_cur}
          /\ pending_not_fuzzed' = pending_not_fuzzed - 1
          /\ pending_favored' = pending_favored - (IF queue_cur \in favored THEN 1 ELSE 0)
      BY <2>1 DEF abandon_entry
    <3>2. /\ Queue' \ was_fuzzed' = (Queue \ was_fuzzed) \ {queue_cur}
          /\ favored' \ was_fuzzed' = (favored \ was_fuzzed) \ {queue_cur}
          /\ queue_cur \in Queue \ was_fuzzed
          /\ queue_cur \in favored \ was_fuzzed <=> queue_cur \in favored
      BY <1>0, <2>0, <2>1, <3>1
    <3> HIDE DEF marks
    <3>3. Cardinality((Queue \ was_fuzzed) \ {queue_cur}) = Cardinality(Queue \ was_fuzzed) - 1
      BY <2>0, <3>2, FS_RemoveElement
    <3>4. Cardinality((favored \ was_fuzzed) \ {queue_cur}) =
            IF queue_cur \in favored THEN Cardinality(favored \ was_fuzzed) - 1
            ELSE Cardinality(favored \ was_fuzzed)
      BY <2>0, <3>2, FS_RemoveElement
    <3>5. Cardinality(favored \ was_fuzzed) \in Nat
      BY <2>0, FS_CardinalityType
    <3>6. pending_not_fuzzed = Cardinality(Queue \ was_fuzzed) /\ pending_favored = Cardinality(favored \ was_fuzzed)
      BY <1>0 DEF PendingExact
    <3>7. pending_not_fuzzed' = Cardinality(Queue' \ was_fuzzed')
      BY <3>1, <3>2, <3>3, <3>6
    <3>8. pending_favored' = Cardinality(favored' \ was_fuzzed')
      <4>1. CASE queue_cur \in favored
        BY <3>1, <3>2, <3>4, <3>6, <4>1
      <4>2. CASE queue_cur \notin favored
        <5>1. pending_favored' = pending_favored
          BY <3>1, <3>5, <3>6, <4>2
        <5> QED
          BY <3>2, <3>4, <3>6, <4>2, <5>1
      <4> QED
        BY <4>1, <4>2
    <3> QED
      BY <3>7, <3>8 DEF PendingExact
  <2>2. CASE ~marks
    <3>1. UNCHANGED <<was_fuzzed, pending_not_fuzzed, pending_favored>>
      BY <2>2 DEF abandon_entry, progress
    <3> QED
      BY <1>0, <2>0, <3>1 DEF PendingExact
  <2> QED
    BY <2>1, <2>2
<1>8. Minis'
  <2>1. ASSUME NEW b \in Bytes, top_rated[b] # 0, top_rated[b] \notin was_fuzzed',
               ~(Busy' /\ top_rated[b] = queue_cur)
        PROVE  b \in trace_mini[top_rated[b]]
    <3>1. top_rated[b] \notin was_fuzzed
      BY <1>3, <2>1
    <3>2. top_rated[b] # queue_cur
      <4>1. CASE stop_soon
        <5>1. Busy'
          BY <1>0, <4>1 DEF Busy
        <5> QED
          BY <2>1, <5>1
      <4>2. CASE ~stop_soon
        <5>1. q[top_rated[b]].cal_failed = 0
          BY <1>0, <2>1, WinnerFacts
        <5> QED
          BY <1>3, <2>1, <4>2, <5>1
      <4> QED
        BY <4>1, <4>2
    <3> QED
      BY <2>1, <3>1, <3>2 DEF CInv, Minis
  <2> QED
    BY <1>0, <2>1 DEF Minis
<1>9. Culled' /\ FavoredCover'
  BY <1>0 DEF CInv, Culled, FavoredCover
<1> QED
  BY <1>4, <1>5, <1>6, <1>7, <1>8, <1>9 DEF CInv

\* On to the next entry.
LEMMA NextStep == ASSUME CInv, main_Next PROVE CInv'
<1>0. /\ pc = "next" /\ CType
      /\ \/ stop_soon /\ pc' = "done" /\ queue_cur' = queue_cur
         \/ /\ ~stop_soon /\ pc' = "top"
            /\ queue_cur' = IF queue_cur < queued_paths THEN queue_cur + 1 ELSE 0
      /\ UNCHANGED <<stop_soon, q, rating, culling, progress, found, loop, scored, kept_trace>>
  BY DEF main_Next, CInv
<1>1. cal' \in CalType
  BY CorpusAssumption DEF main_Next, NoCal, CalType
<1>2. queue_cur' \in 0..queued_paths'
  BY <1>0 DEF CInv, CType, Place, found, Entries
<1>3. CType'
  <2>1. queue_cur' \in 0 .. queued_paths' + 1 /\ queued_paths' = queued_paths
    BY <1>0, <1>2 DEF CType, found, Entries
  <2> QED
    BY <1>0, <1>1, <2>1 DEF CType, rating, culling, progress, found, Queue
<1>4. Place' /\ Passed' /\ Dry'
  BY <1>0, <1>2 DEF Place, Passed, Dry, Calling, Call
<1>5. Busy => Busy' /\ queue_cur' = queue_cur
  BY <1>0 DEF Busy, Calling, Call
<1> QED
  BY <1>0, <1>3, <1>4, <1>5, PlainStep DEF found

\* A new cycle.
LEMMA CycleStep == ASSUME CInv, main_Cycle PROVE CInv'
<1>0. /\ pc = "pick" /\ pc' = pc /\ queue_cur' = 1 /\ CType
      /\ UNCHANGED <<stop_soon, q, rating, culling, progress, found, work>>
  BY DEF main_Cycle, CInv
<1>1. 1 \in 0..queued_paths' /\ 1 \in 0 .. queued_paths' + 1
  BY <1>0 DEF CType, found, Entries
<1>2. CType'
  BY <1>0, <1>1 DEF CType, rating, culling, progress, found, work, Queue
<1>3. Place' /\ Passed' /\ Dry'
  BY <1>0, <1>1 DEF Place, Passed, Dry, Calling, Call
<1>4. ~Busy
  BY <1>0 DEF Busy, Calling, Call
<1> QED
  BY <1>0, <1>2, <1>3, <1>4, PlainStep DEF found

\* ^C, and stuttering.
LEMMA QuietStep ==
  ASSUME CInv, stop_soon => stop_soon',
         UNCHANGED <<pc, queue_cur, q, rating, culling, progress, found, work>>
  PROVE  CInv'
<1>0. UNCHANGED <<queued_paths, was_fuzzed, top_rated, tc_ref, trace_mini, score_changed, favored,
                  temp_v, loop, scored, cal, kept_trace, pending_favored, pending_not_fuzzed>>
  BY DEF rating, culling, progress, found, work
<1>1. CType'
  BY <1>0 DEF CInv, CType, Queue
<1>2. Place'
  BY <1>0 DEF CInv, Place, Calling, Call, Queue
<1>3. Passed' /\ Dry'
  BY <1>0 DEF CInv, Passed, Dry, Calling, Call
<1>4. RefCounts' /\ PendingExact'
  BY <1>0 DEF CInv, RefCounts, PendingExact, Queue
<1>5. Minis'
  <2>1. Busy => Busy'
    BY <1>0 DEF Busy, Calling, Call
  <2> QED
    BY <1>0, <2>1 DEF CInv, Minis
<1>6. Culled' /\ FavoredCover'
  BY <1>0 DEF CInv, Culled, FavoredCover
<1> QED
  BY <1>1, <1>2, <1>3, <1>4, <1>5, <1>6 DEF CInv

-----------------------------------------------------------------------------

\* Every step preserves the invariant.
LEMMA CorpusStep == ASSUME CInv, [Next]_vars PROVE CInv'
<1>0. /\ pc \in {"recalibrated", "trim", "fuzz"} => queue_cur # 0
      /\ pc = "recalibrated" /\ ~stop_soon /\ cal.fault = "NONE" => q[queue_cur].cal_failed = 0
  BY DEF CInv, Place, Passed, Queue
<1>1. CASE Program
  <2>1. CASE \E t \in Traces, fault \in {"NONE", "HANG", "CRASH"} : calibrate_case_Run(t, fault)
    BY <2>1, CalibrateRun
  <2>2. CASE \E us \in ExecTimes : calibrate_case_Rate(us)
    BY <2>2, CalibrateRate
  <2>3. CASE fuzz_one_Skip
    BY <2>3, GotoStep DEF fuzz_one_Skip
  <2>4. CASE fuzz_one_Recalibrated
    <3>1. CASE stop_soon \/ cal.fault # "NONE"
      <4>1. Goto("recalibrated", "abandon")
        BY <2>4, <3>1 DEF fuzz_one_Recalibrated
      <4> QED
        BY <1>0, <4>1, GotoStep DEF Goto
    <3>2. CASE ~(stop_soon \/ cal.fault # "NONE")
      <4>1. Goto("recalibrated", "trim")
        BY <2>4, <3>2 DEF fuzz_one_Recalibrated
      <4>2. q[queue_cur].cal_failed = 0 /\ queue_cur # 0
        BY <1>0, <3>2, <4>1 DEF Goto
      <4> QED
        BY <4>1, <4>2, GotoStep
    <3> QED
      BY <3>1, <3>2
  <2>5. CASE fuzz_one_End
    BY <1>0, <2>5, GotoStep DEF fuzz_one_End, Goto
  <2>6. CASE common_fuzz_stuff_BailOut
    BY <1>0, <2>6, GotoStep DEF common_fuzz_stuff_BailOut, Goto
  <2>7. CASE sync_fuzzers_End
    BY <2>7, GotoStep DEF sync_fuzzers_End
  <2> QED
    BY <1>1, <2>1, <2>2, <2>3, <2>4, <2>5, <2>6, <2>7, ScoreStep, ScoreReturn, CalibrateReturn,
       DryRunCase, DryRunJudge, DryRunEnd, CullBegin, CullByte, CullReturn, CycleStep, OpenStep,
       TrimEnd, TrimmedStep, AbandonStep, NextStep
    DEF Program
<1>2. CASE Luck
  <2>1. CASE \E t \in Traces : trim_case_Run(t)
    BY <2>1, TrimRun
  <2>2. ASSUME NEW t \in Traces, NEW l \in Lens, common_fuzz_stuff(t, l) PROVE CInv'
    BY <2>2, SaveStep DEF common_fuzz_stuff
  <2>3. ASSUME NEW t \in Traces, NEW l \in Lens, sync_fuzzers_Case(t, l) PROVE CInv'
    BY <2>3, SaveStep DEF sync_fuzzers_Case
  <2>4. CASE handle_stop_sig
    BY <2>4, QuietStep DEF handle_stop_sig
  <2> QED
    BY <1>2, <2>1, <2>2, <2>3, <2>4 DEF Luck
<1>3. CASE UNCHANGED vars
  BY <1>3, QuietStep DEF vars
<1> QED
  BY <1>1, <1>2, <1>3 DEF Next

\* The seeds are in the queue, nothing has been run.
LEMMA CorpusStart == ASSUME Init PROVE CInv
<1>0. /\ Seeds \in Nat \ {0} /\ MaxEntries \in Nat \ {0} /\ Seeds <= MaxEntries /\ MapSize \in Nat \ {0}
      /\ Lens \subseteq Nat
  BY CorpusAssumption
<1>1. q \in [Entries -> EntryType]
  <2>1. PICK l \in [1..Seeds -> Lens] :
          q = [e \in 1..MaxEntries |-> Entry(IF e <= Seeds THEN l[e] ELSE 1)]
    BY DEF Init
  <2>2. \A n \in Nat : Entry(n) \in EntryType
    BY DEF Entry, EntryType
  <2>3. \A e \in Entries : (IF e <= Seeds THEN l[e] ELSE 1) \in Nat
    <3>1. ASSUME NEW e \in Entries, e <= Seeds PROVE l[e] \in Nat
      <4>1. e \in 1..Seeds
        BY <1>0, <3>1 DEF Entries
      <4> QED
        BY <1>0, <2>1, <4>1
    <3> QED
      BY <3>1
  <2> QED
    BY <2>1, <2>2, <2>3 DEF Entries
<1>2. cal \in CalType /\ scored \in ScoredType
  BY <1>0 DEF Init, NoCal, CalType, ScoredType
<1>3. CType
  BY <1>0, <1>1, <1>2 DEF Init, CType, Entries, Queue
<1>4. Place /\ Passed
  BY DEF Init, Place, Passed, Calling, Call
<1>5. Dry
  BY DEF Init, Dry
<1>6. RefCounts
  <2>1. \A e \in Entries : {b \in Bytes : top_rated[b] = e} = {}
    BY DEF Init, Entries
  <2>2. Cardinality({}) = 0
    BY FS_EmptySet
  <2>3. \A e \in Entries : tc_ref[e] = 0 /\ trace_mini[e] = NULL /\ e \notin favored
    BY DEF Init, Entries
  <2> QED
    BY <2>1, <2>2, <2>3 DEF RefCounts, Entries
<1>7. PendingExact
  <2>1. Queue \ was_fuzzed = 1..Seeds /\ favored \ was_fuzzed = {}
    BY DEF Init, Queue
  <2>2. Cardinality(1..Seeds) = Seeds /\ Cardinality({}) = 0
    BY <1>0, FS_Interval, FS_EmptySet
  <2> QED
    BY <2>1, <2>2 DEF Init, PendingExact
<1>8. Minis /\ Culled /\ FavoredCover
  BY DEF Init, Minis, Culled, FavoredCover
<1> QED
  BY <1>3, <1>4, <1>5, <1>6, <1>7, <1>8 DEF CInv

-----------------------------------------------------------------------------
(* Theorems.                                                                *)

\* The invariant holds of every behaviour of the corpus.
THEOREM CorpusInvariant == Spec => []CInv
  BY CorpusStart, CorpusStep, PTL DEF Spec

\* tc_ref counts exactly the bytes an entry is the best of, a trace is saved
\* exactly as long as it is needed, and winners and favorites have passed
\* calibration.
THEOREM RefCountsAreExact == Spec => []RefCounts
<1>1. CInv => RefCounts
  BY DEF CInv
<1> QED
  BY <1>1, CorpusInvariant, PTL

\* The counters of pending entries are exact, although a favorite may be counted
\* twice in queued_favored.
THEOREM PendingIsExact == Spec => []PendingExact
<1>1. CInv => PendingExact
  BY DEF CInv
<1> QED
  BY <1>1, CorpusInvariant, PTL

\* Whenever no cull is due, the favored entries cover every byte that was hit.
THEOREM FavoritesCover == Spec => []FavoredCover
<1>1. CInv => FavoredCover
  BY DEF CInv
<1> QED
  BY <1>1, CorpusInvariant, PTL
=============================================================================
