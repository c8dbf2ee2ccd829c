------------------------------- MODULE Corpus -------------------------------
(***************************************************************************)
(* The corpus of afl-fuzz: the queue of test cases, the table of best       *)
(* entries per map byte (top_rated), the favored set culled from it, and    *)
(* the counters that steer fuzz_one(); with every function that changes     *)
(* them: perform_dry_run(), calibrate_case(), update_bitmap_score(),        *)
(* cull_queue(), fuzz_one() (its mutations are data), trim_case(),          *)
(* save_if_interesting(), the import from other fuzzers, and the main loop. *)
(*                                                                         *)
(* The target is not assumed to be deterministic: each execution yields any *)
(* trace and any fault.  crash_mode and dumb_mode are off, the fork server  *)
(* is used (so that FAULT_ERROR does not occur).  The two loops over the    *)
(* map are done one byte per step.                                          *)
(***************************************************************************)
EXTENDS Integers, FiniteSets, FiniteSetsExt

CONSTANTS
  MapSize,      \* MAP_SIZE, the number of bytes of the trace map
  MaxCount,     \* bound: hit-count classes each byte can show (8 in the code)
  Seeds,        \* number of test cases in the input directory
  MaxEntries,   \* bound: entries of the queue
  Lens,         \* lengths of new test cases, in chunks that can be trimmed
  ExecTimes,    \* execution times calibration can measure
  CalCycles, CalCyclesLong, CalChances, \* CAL_CYCLES, ..._LONG, CAL_CHANCES
  FewPaths      \* the 10 of fuzz_one(): no skipping in a small queue

ASSUME CorpusAssumption ==
  /\ {MapSize, Seeds, MaxEntries, CalCycles, CalCyclesLong,
      CalChances} \subseteq Nat \ {0}
  /\ FewPaths \in Nat /\ ExecTimes \subseteq Nat /\ ExecTimes # {}
  /\ MaxCount \in [1..MapSize -> Nat \ {0}]
  /\ Lens \subseteq Nat \ {0} /\ IsFiniteSet(Lens) /\ Lens # {}
  /\ Seeds <= MaxEntries /\ CalCycles <= CalCyclesLong

VARIABLES
  pc,            \* where the program is
  stop_soon,     \* set by the handler of ^C
  queued_paths,  \* the queue is 1..queued_paths
  q,             \* what an entry knows about itself, see Entry
  was_fuzzed, favored,           \* sets of entries
  top_rated,     \* best entry for each byte of the map, 0 if none
  tc_ref,        \* number of bytes an entry is the best of
  trace_mini,    \* bytes of the trace saved with an entry, or NULL
  score_changed, \* top_rated changed since the last cull
  virgin_bits,   \* hit counts never seen, per byte
  queued_favored, pending_favored, pending_not_fuzzed,
  queued_with_cov, queued_variable,
  queue_cur,     \* current entry (in the dry run, too), 0 if none
  loop,          \* byte the loops of update_bitmap_score and cull_queue are at
  scored,        \* entry and trace update_bitmap_score works on
  temp_v,        \* bytes cull_queue still has to cover
  cal,           \* locals of calibrate_case
  kept_trace     \* trace calibrate_case or trim_case will have scored

rating == <<top_rated, tc_ref, trace_mini, score_changed>>
culling == <<favored, queued_favored, pending_favored, temp_v>>
progress == <<was_fuzzed, pending_not_fuzzed>>
found == <<queued_paths, virgin_bits, queued_with_cov, queued_variable>>
work == <<loop, scored, cal, kept_trace>>
vars == <<pc, stop_soon, queue_cur, q, rating, culling, progress, found, work>>

Bytes == 1..MapSize
Queue == 1..queued_paths
Counts == 0..Max({MaxCount[b] : b \in Bytes})
Traces == {t \in [Bytes -> Counts] : \A b \in Bytes : t[b] <= MaxCount[b]}
Hit(t) == {b \in Bytes : t[b] > 0}
NoTrace == [b \in Bytes |-> -1]
NULL == {-1}
NoCal == [who |-> 0, caller |-> "none", cur |-> 0, max |-> 0, new_bits |-> 0,
          var |-> FALSE, first_run |-> FALSE, fault |-> "NONE"]

\* An entry as ck_alloc() and add_to_queue() leave it.
Entry(l) ==
  [len |-> l, exec_us |-> 0, exec_cksum |-> NoTrace, cal_failed |-> 0,
   trim_done |-> FALSE, has_new_cov |-> FALSE, var_behavior |-> FALSE]

-----------------------------------------------------------------------------
(* has_new_bits(): 2 for a byte never hit before, 1 for a new count.        *)

NewCounts(t) == {b \in Hit(t) : t[b] \in virgin_bits[b]}

has_new_bits(t) ==
  IF NewCounts(t) = {} THEN 0
  ELSE IF \E b \in NewCounts(t) : virgin_bits[b] = 1..MaxCount[b] THEN 2 ELSE 1

Seen(t) == [b \in Bytes |-> virgin_bits[b] \ {t[b]}]

-----------------------------------------------------------------------------
(* update_bitmap_score(): one byte per step.  "scored" holds the entry, its *)
(* trace, and where to go on afterwards.                                    *)

fav_factor(e) == q[e].exec_us * q[e].len

Score(e, t, next) ==
  /\ scored' = [who |-> e, trace |-> t, next |-> next]
  /\ loop' = 1
  /\ pc' = "score"

\* The reference counts once e has taken byte b from its old winner.
RefAfter(b, e) ==
  LET old == top_rated[b]
      dec == IF old = 0 THEN tc_ref ELSE [tc_ref EXCEPT ![old] = @ - 1]
  IN [dec EXCEPT ![e] = @ + 1]

\* Mutant: the old winner's trace is not freed.
MiniAfter_Kept(b, e, t) ==
  LET freed == trace_mini
  IN IF freed[e] = NULL THEN [freed EXCEPT ![e] = Hit(t)] ELSE freed

\* The old winner's trace goes with its last byte; the new winner saves its
\* own trace unless it still has one.
MiniAfter(b, e, t) ==
  LET old == top_rated[b]
      freed == IF old # 0 /\ tc_ref[old] = 1
               THEN [trace_mini EXCEPT ![old] = NULL] ELSE trace_mini
  IN IF freed[e] = NULL THEN [freed EXCEPT ![e] = Hit(t)] ELSE freed

\* Mutant: score_changed is not set.
update_bitmap_score_Silent ==
  /\ pc = "score" /\ loop \in Bytes
  /\ LET e == scored.who
         t == scored.trace
         wins == /\ t[loop] > 0
                 /\ top_rated[loop] # 0 => fav_factor(e) <= fav_factor(top_rated[loop])
     IN IF wins
        THEN /\ top_rated' = [top_rated EXCEPT ![loop] = e]
             /\ tc_ref' = RefAfter(loop, e)
             /\ trace_mini' = MiniAfter(loop, e, t)
             /\ UNCHANGED score_changed
        ELSE UNCHANGED rating
  /\ loop' = loop + 1
  /\ UNCHANGED <<pc, stop_soon, queue_cur, q, culling, progress, found, scored,
                 cal, kept_trace>>

update_bitmap_score ==
  /\ pc = "score" /\ loop \in Bytes
  /\ LET e == scored.who
         t == scored.trace
         wins == /\ t[loop] > 0
                 /\ top_rated[loop] # 0 => fav_factor(e) <= fav_factor(top_rated[loop])
     IN IF wins
        THEN /\ top_rated' = [top_rated EXCEPT ![loop] = e]
             /\ tc_ref' = RefAfter(loop, e)
             /\ trace_mini' = MiniAfter(loop, e, t)
             /\ score_changed' = TRUE
        ELSE UNCHANGED rating
  /\ loop' = loop + 1
  /\ UNCHANGED <<pc, stop_soon, queue_cur, q, culling, progress, found, scored,
                 cal, kept_trace>>

update_bitmap_score_Return ==
  /\ pc = "score" /\ loop > MapSize
  /\ pc' = scored.next
  /\ loop' = 0
  /\ scored' = [who |-> 0, trace |-> NoTrace, next |-> "none"]
  /\ UNCHANGED <<stop_soon, queue_cur, q, rating, culling, progress, found, cal,
                 kept_trace>>

-----------------------------------------------------------------------------
(* calibrate_case().  The caller is remembered in cal.caller.               *)

Calibrate(e, caller) ==
  /\ cal' = [NoCal EXCEPT !.who = e, !.caller = caller, !.max = CalCycles,
                          !.first_run = (q[e].exec_cksum = NoTrace)]
  /\ q' = [q EXCEPT ![e].cal_failed = @ + 1]
  /\ pc' = "calibrate"

\* One execution.  A failing or traceless one ends the calibration, which
\* then has failed; a differing trace makes the loop longer.
calibrate_case_Run(t, fault) ==
  /\ pc = "calibrate" /\ cal.cur < cal.max
  /\ LET e == cal.who
         noinst == cal.cur = 0 /\ Hit(t) = {}
         differs == q[e].exec_cksum # t
         variable == differs /\ q[e].exec_cksum # NoTrace
         hnb == IF differs THEN has_new_bits(t) ELSE 0
     IN IF stop_soon \/ fault # "NONE" \/ noinst
        THEN /\ cal' = [cal EXCEPT !.fault = IF fault = "NONE" /\ ~stop_soon
                                             THEN "NOINST" ELSE fault]
             /\ pc' = "calibrated"
             /\ UNCHANGED <<q, virgin_bits, kept_trace>>
        ELSE /\ cal' = [cal EXCEPT !.cur = @ + 1,
                          !.new_bits = IF hnb > @ THEN hnb ELSE @,
                          !.var = @ \/ variable,
                          !.max = IF variable THEN CalCyclesLong ELSE @]
             /\ virgin_bits' = IF differs THEN Seen(t) ELSE virgin_bits
             /\ q' = IF differs /\ ~variable THEN [q EXCEPT ![e].exec_cksum = t] ELSE q
             /\ kept_trace' = t
             /\ UNCHANGED pc
  /\ UNCHANGED <<stop_soon, queue_cur, rating, culling, progress, queued_paths,
                 queued_with_cov, queued_variable, loop, scored>>

\* All executions done: note the speed and compete for the bytes.
calibrate_case_Rate(us) ==
  /\ pc = "calibrate" /\ cal.cur >= cal.max
  /\ q' = [q EXCEPT ![cal.who].exec_us = us, ![cal.who].cal_failed = 0]
  /\ cal' = [cal EXCEPT !.fault = IF @ = "NONE" /\ cal.first_run /\ cal.new_bits = 0
                                  THEN "NOBITS" ELSE @]
  /\ Score(cal.who, kept_trace, "calibrated")
  /\ UNCHANGED <<stop_soon, queue_cur, rating, culling, progress, found,
                 kept_trace>>

\* abort_calibration, and the return to the caller.
calibrate_case_Return ==
  /\ pc = "calibrated"
  /\ LET e == cal.who
         cov == cal.new_bits = 2 /\ ~q[e].has_new_cov
         var == cal.var /\ ~q[e].var_behavior
     IN /\ q' = [q EXCEPT ![e].has_new_cov = @ \/ cov,
                          ![e].var_behavior = @ \/ var]
        /\ queued_with_cov' = queued_with_cov + (IF cov THEN 1 ELSE 0)
        /\ queued_variable' = queued_variable + (IF var THEN 1 ELSE 0)
  /\ pc' = cal.caller
  /\ cal' = [NoCal EXCEPT !.fault = cal.fault]
  /\ kept_trace' = NoTrace
  /\ UNCHANGED <<stop_soon, queue_cur, rating, culling, progress, queued_paths,
                 virgin_bits, loop, scored>>

-----------------------------------------------------------------------------
(* perform_dry_run(): every seed is calibrated once.  What fails is skipped *)
(* with -t nn+ or AFL_SKIP_CRASHES, and fatal otherwise.                    *)

perform_dry_run_Case ==
  /\ pc = "dry" /\ queue_cur \in Queue
  /\ Calibrate(queue_cur, "dried")
  /\ UNCHANGED <<stop_soon, queue_cur, rating, culling, progress, found, loop,
                 scored, kept_trace>>

perform_dry_run_Judge ==
  /\ pc = "dried"
  /\ \/ /\ ~stop_soon /\ cal.fault \in {"NONE", "NOBITS"}
        /\ pc' = "dry" /\ queue_cur' = queue_cur + 1 /\ UNCHANGED q
     \/ /\ ~stop_soon /\ cal.fault \in {"HANG", "CRASH"}
        /\ q' = [q EXCEPT ![queue_cur].cal_failed = CalChances]
        /\ pc' = "dry" /\ queue_cur' = queue_cur + 1
     \/ /\ stop_soon \/ cal.fault \notin {"NONE", "NOBITS"}
        /\ pc' = "done" /\ UNCHANGED <<queue_cur, q>>
  /\ cal' = NoCal
  /\ UNCHANGED <<stop_soon, rating, culling, progress, found, loop, scored,
                 kept_trace>>

\* All done: into the main loop, at the place find_start_position() says.
perform_dry_run_End ==
  /\ pc = "dry" /\ queue_cur > queued_paths
  /\ \/ /\ \A e \in Queue : q[e].cal_failed = CalChances
        /\ pc' = "done" /\ UNCHANGED queue_cur
     \/ /\ \E e \in Queue : q[e].cal_failed # CalChances
        /\ pc' = "top" /\ queue_cur' \in Queue
  /\ UNCHANGED <<stop_soon, q, rating, culling, progress, found, work>>

-----------------------------------------------------------------------------
(* cull_queue(), at the top of the main loop: one byte per step.            *)

cull_queue_Begin ==
  /\ pc = "top"
  /\ IF score_changed
     THEN /\ score_changed' = FALSE
          /\ temp_v' = Bytes
          /\ queued_favored' = 0 /\ pending_favored' = 0
          /\ favored' = {}
          /\ loop' = 1
          /\ pc' = "cull"
     ELSE /\ pc' = "pick"
          /\ UNCHANGED <<score_changed, culling, loop>>
  /\ UNCHANGED <<stop_soon, queue_cur, q, top_rated, tc_ref, trace_mini,
                 progress, found, scored, cal, kept_trace>>

\* Mutant: only the byte itself counts as covered.
cull_queue_Byte_Alone ==
  /\ pc = "cull" /\ loop \in Bytes
  /\ LET e == top_rated[loop]
     IN IF e # 0 /\ loop \in temp_v
        THEN /\ temp_v' = temp_v \ {loop}
             /\ favored' = favored \cup {e}
             /\ queued_favored' = queued_favored + 1
             /\ pending_favored' = pending_favored
                                   + (IF e \in was_fuzzed THEN 0 ELSE 1)
        ELSE UNCHANGED culling
  /\ loop' = loop + 1
  /\ UNCHANGED <<pc, stop_soon, queue_cur, q, rating, progress, found, scored,
                 cal, kept_trace>>

cull_queue_Byte ==
  /\ pc = "cull" /\ loop \in Bytes
  /\ LET e == top_rated[loop]
     IN IF e # 0 /\ loop \in temp_v
        THEN /\ temp_v' = temp_v \ trace_mini[e]
             /\ favored' = favored \cup {e}
             /\ queued_favored' = queued_favored + 1
             /\ pending_favored' = pending_favored
                                   + (IF e \in was_fuzzed THEN 0 ELSE 1)
        ELSE UNCHANGED culling
  /\ loop' = loop + 1
  /\ UNCHANGED <<pc, stop_soon, queue_cur, q, rating, progress, found, scored,
                 cal, kept_trace>>

\* mark_as_redundant() then mirrors the favored set in the file system.
cull_queue_Return ==
  /\ pc = "cull" /\ loop > MapSize
  /\ pc' = "pick" /\ loop' = 0 /\ temp_v' = {}
  /\ UNCHANGED <<stop_soon, queue_cur, q, rating, favored, queued_favored,
                 pending_favored, progress, found, scored, cal, kept_trace>>

-----------------------------------------------------------------------------
(* save_if_interesting(), called with the trace of a run that did not fail: *)
(* keep the case if it shows new bits, and calibrate it at once.  (Crashes  *)
(* and hangs go to files of their own and leave the queue alone.)           *)

save_if_interesting(t, l, caller) ==
  /\ has_new_bits(t) > 0
  /\ queued_paths < MaxEntries
  /\ LET e == queued_paths + 1
         hnb == has_new_bits(t)
     IN /\ queued_paths' = e
        /\ q' = [q EXCEPT ![e] = [Entry(l) EXCEPT !.exec_cksum = t,
                                    !.has_new_cov = (hnb = 2), !.cal_failed = 1]]
        /\ queued_with_cov' = queued_with_cov + (IF hnb = 2 THEN 1 ELSE 0)
        /\ cal' = [NoCal EXCEPT !.who = e, !.caller = caller, !.max = CalCycles]
  /\ pending_not_fuzzed' = pending_not_fuzzed + 1
  /\ virgin_bits' = Seen(t)
  /\ pc' = "calibrate"
  /\ UNCHANGED <<stop_soon, queue_cur, rating, culling, was_fuzzed,
                 queued_variable, loop, scored, kept_trace>>

-----------------------------------------------------------------------------
(* fuzz_one() on queue_cur.                                                 *)

Goto(from, to) ==
  /\ pc = from /\ pc' = to
  /\ UNCHANGED <<stop_soon, queue_cur, q, rating, culling, progress, found, work>>

\* The end of the queue was reached: begin a new cycle.
main_Cycle ==
  /\ pc = "pick" /\ queue_cur = 0
  /\ queue_cur' = 1
  /\ UNCHANGED <<pc, stop_soon, q, rating, culling, progress, found, work>>

MaySkip ==
  IF pending_favored > 0
  THEN queue_cur \in was_fuzzed \/ queue_cur \notin favored
  ELSE queue_cur \notin favored /\ queued_paths > FewPaths

fuzz_one_Skip == queue_cur # 0 /\ MaySkip /\ Goto("pick", "next")

fuzz_one_Open ==
  /\ queue_cur # 0
  /\ \/ q[queue_cur].cal_failed = 0 /\ Goto("pick", "trim")
     \/ q[queue_cur].cal_failed >= CalChances /\ Goto("pick", "abandon")
     \/ /\ pc = "pick" /\ q[queue_cur].cal_failed \in 1..(CalChances - 1)
        /\ Calibrate(queue_cur, "recalibrated")
        /\ UNCHANGED <<stop_soon, queue_cur, rating, culling, progress, found,
                       loop, scored, kept_trace>>

fuzz_one_Recalibrated ==
  Goto("recalibrated",
       IF stop_soon \/ cal.fault # "NONE" THEN "abandon" ELSE "trim")

\* trim_case(): an execution without one chunk.  Same trace: drop the chunk.
\* The first chunk is never tried.
trim_case_Run(t) ==
  /\ pc = "trim" /\ ~q[queue_cur].trim_done /\ q[queue_cur].len > 1
  /\ ~stop_soon
  /\ t = q[queue_cur].exec_cksum
  /\ q' = [q EXCEPT ![queue_cur].len = @ - 1]
  /\ kept_trace' = t
  /\ UNCHANGED <<pc, stop_soon, queue_cur, rating, culling, progress, found, loop,
                 scored, cal>>

\* Done, or interrupted: a changed case is written out and scored anew.
trim_case_End ==
  /\ pc = "trim"
  /\ IF kept_trace # NoTrace /\ ~stop_soon
     THEN /\ Score(queue_cur, kept_trace, "trimmed")
          /\ kept_trace' = NoTrace
          /\ UNCHANGED <<stop_soon, queue_cur, q, rating, culling, progress,
                         found, cal>>
     ELSE Goto("trim", "trimmed")

fuzz_one_Trimmed ==
  /\ pc = "trimmed"
  /\ IF stop_soon
     THEN pc' = "abandon" /\ UNCHANGED q
     ELSE pc' = "fuzz" /\ q' = [q EXCEPT ![queue_cur].trim_done = TRUE]
  /\ kept_trace' = NoTrace
  /\ UNCHANGED <<stop_soon, queue_cur, rating, culling, progress, found, loop,
                 scored, cal>>

\* common_fuzz_stuff(): a mutated case is run, and kept if interesting.
common_fuzz_stuff(t, l) ==
  /\ pc = "fuzz" /\ ~stop_soon
  /\ save_if_interesting(t, l, "fuzz")

\* It gives up on ^C, after too many hangs, or on SIGUSR1.
common_fuzz_stuff_BailOut == Goto("fuzz", "abandon")

\* All stages done.
fuzz_one_End == ~stop_soon /\ Goto("fuzz", "complete")

\* Mutant: pending_favored is not adjusted.
abandon_entry_Pending ==
  /\ pc \in {"abandon", "complete"}
  /\ IF ~stop_soon /\ q[queue_cur].cal_failed = 0 /\ queue_cur \notin was_fuzzed
     THEN /\ was_fuzzed' = was_fuzzed \cup {queue_cur}
          /\ pending_not_fuzzed' = pending_not_fuzzed - 1
          /\ UNCHANGED pending_favored
     ELSE UNCHANGED <<progress, pending_favored>>
  /\ \/ pc' = "next"
     \/ pc = "complete" /\ ~stop_soon /\ pc' = "sync"
  /\ cal' = NoCal
  /\ UNCHANGED <<stop_soon, queue_cur, q, rating, favored, queued_favored, temp_v,
                 found, loop, scored, kept_trace>>

\* abandon_entry: count the entry as fuzzed.
abandon_entry ==
  /\ pc \in {"abandon", "complete"}
  /\ IF ~stop_soon /\ q[queue_cur].cal_failed = 0 /\ queue_cur \notin was_fuzzed
     THEN /\ was_fuzzed' = was_fuzzed \cup {queue_cur}
          /\ pending_not_fuzzed' = pending_not_fuzzed - 1
          /\ pending_favored' = pending_favored
                                - (IF queue_cur \in favored THEN 1 ELSE 0)
     ELSE UNCHANGED <<progress, pending_favored>>
  /\ \/ pc' = "next"
     \/ pc = "complete" /\ ~stop_soon /\ pc' = "sync"
  /\ cal' = NoCal
  /\ UNCHANGED <<stop_soon, queue_cur, q, rating, favored, queued_favored, temp_v,
                 found, loop, scored, kept_trace>>

\* sync_fuzzers(), as far as the queue is concerned: foreign cases are run
\* and kept if interesting.
sync_fuzzers_Case(t, l) ==
  /\ pc = "sync" /\ ~stop_soon
  /\ save_if_interesting(t, l, "sync")

sync_fuzzers_End == Goto("sync", "next")

main_Next ==
  /\ pc = "next"
  /\ IF stop_soon
     THEN pc' = "done" /\ UNCHANGED queue_cur
     ELSE /\ pc' = "top"
          /\ queue_cur' = IF queue_cur < queued_paths THEN queue_cur + 1 ELSE 0
  /\ cal' = NoCal
  /\ UNCHANGED <<stop_soon, q, rating, culling, progress, found, loop, scored,
                 kept_trace>>

handle_stop_sig ==
  /\ ~stop_soon /\ pc # "done"
  /\ stop_soon' = TRUE
  /\ UNCHANGED <<pc, queue_cur, q, rating, culling, progress, found, work>>

-----------------------------------------------------------------------------
\* read_testcases() has filled the queue.
Init ==
  /\ pc = "dry" /\ stop_soon = FALSE /\ queue_cur = 1
  /\ queued_paths = Seeds
  /\ \E l \in [1..Seeds -> Lens] :
       q = [e \in 1..MaxEntries |-> Entry(IF e <= Seeds THEN l[e] ELSE 1)]
  /\ was_fuzzed = {} /\ favored = {}
  /\ top_rated = [b \in Bytes |-> 0]
  /\ tc_ref = [e \in 1..MaxEntries |-> 0]
  /\ trace_mini = [e \in 1..MaxEntries |-> NULL]
  /\ score_changed = FALSE
  /\ virgin_bits = [b \in Bytes |-> 1..MaxCount[b]]
  /\ queued_favored = 0 /\ pending_favored = 0 /\ pending_not_fuzzed = Seeds
  /\ queued_with_cov = 0 /\ queued_variable = 0
  /\ loop = 0 /\ temp_v = {} /\ cal = NoCal /\ kept_trace = NoTrace
  /\ scored = [who |-> 0, trace |-> NoTrace, next |-> "none"]

\* Steps of the program that are bound to happen.
Program ==
  \/ update_bitmap_score \/ update_bitmap_score_Return
  \/ \E t \in Traces, fault \in {"NONE", "HANG", "CRASH"} : calibrate_case_Run(t, fault)
  \/ \E us \in ExecTimes : calibrate_case_Rate(us)
  \/ calibrate_case_Return
  \/ perform_dry_run_Case \/ perform_dry_run_Judge \/ perform_dry_run_End
  \/ cull_queue_Begin \/ cull_queue_Byte \/ cull_queue_Return
  \/ main_Cycle \/ fuzz_one_Skip \/ fuzz_one_Open \/ fuzz_one_Recalibrated
  \/ trim_case_End \/ fuzz_one_Trimmed \/ fuzz_one_End \/ common_fuzz_stuff_BailOut
  \/ abandon_entry \/ sync_fuzzers_End \/ main_Next

\* What depends on the target and the user.
Luck ==
  \/ \E t \in Traces : trim_case_Run(t)
  \/ \E t \in Traces, l \in Lens : common_fuzz_stuff(t, l) \/ sync_fuzzers_Case(t, l)
  \/ handle_stop_sig

Next == Program \/ Luck

Spec == Init /\ [][Next]_vars

\* The stages of fuzz_one() and the loops are finite: the program goes on.
FairSpec == Spec /\ WF_vars(Program)

-----------------------------------------------------------------------------
(* Safety.                                                                  *)

\* tc_ref counts the bytes an entry is the best of, and an entry has a saved
\* trace exactly while it is the best of some byte: cull_queue() finds the
\* trace of every winner and none is kept for nothing.  Winners, and thus
\* favorites, have passed calibration: fuzz_one() does not skip them before they
\* are counted as fuzzed.
RefCounts ==
  \A e \in 1..MaxEntries :
    /\ tc_ref[e] = Cardinality({b \in Bytes : top_rated[b] = e})
    /\ trace_mini[e] = NULL <=> tc_ref[e] = 0
    /\ e \in favored \/ tc_ref[e] > 0 => q[e].cal_failed = 0

\* The number of favored entries waiting to be fuzzed is exact whenever
\* fuzz_one() looks at it: too high, and 99% of the queue is skipped in search
\* of an entry that does not exist; too low, and new favorites wait.
PendingExact ==
  /\ pending_not_fuzzed = Cardinality(Queue \ was_fuzzed)
  /\ pending_favored = Cardinality(favored \ was_fuzzed)

\* Unless a cull is due or under way, the favored entries cover every byte
\* that has a best entry.
FavoredCover ==
  ~score_changed /\ pc # "cull" =>
    \A b \in Bytes : top_rated[b] # 0 =>
      \E e \in favored : b \in trace_mini[e] \/ e = top_rated[b]

-----------------------------------------------------------------------------
(* Liveness.                                                                *)

\* A pending favorite is not pending for ever.
PendingDrains == pending_favored > 0 ~> pending_favored = 0 \/ stop_soon
=============================================================================
