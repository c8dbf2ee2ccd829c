-------------------------------- MODULE Tmin --------------------------------
(***************************************************************************)
(* afl-tmin: minimize(), which makes a test case smaller as long as the     *)
(* target's behaviour, a crash or an execution path, stays the same.        *)
(*                                                                         *)
(* A buffer is a sequence of character codes.  The target is any            *)
(* deterministic program: whether an input keeps the behaviour is chosen    *)
(* when the input is run for the first time and remembered in good and bad. *)
(* A run may time out all the same, and the user may press ^C, which reaches *)
(* the fork server, too, from a terminal.                                  *)
(***************************************************************************)
EXTENDS Integers, Sequences, SequencesExt, FiniteSetsExt

CONSTANTS
  Files,              \* input files
  TMIN_SET_STEPS, TMIN_SET_MIN_SIZE, TRIM_START_STEPS,
  MaxHangs            \* bound: runs that time out for no reason

TMIN_MAX_FILE == 10 * 1024 * 1024

ASSUME TminAssumption ==
  /\ \A f \in Files : f \in Seq(0..255) /\ Len(f) \in 1 .. TMIN_MAX_FILE - 1
  /\ {TMIN_SET_STEPS, TMIN_SET_MIN_SIZE, TRIM_START_STEPS} \subseteq Nat \ {0}
  /\ MaxHangs \in Nat

VARIABLES
  pc,            \* where main() or minimize() is
  in_data,       \* the smallest input so far
  tmp_buf,       \* the buffer of stage #3
  set_pos,       \* stage #0: start of the block
  del_len, del_pos, prev_del,   \* stage #1
  alpha_map,     \* stage #2: the symbols with a count
  sym,           \* stage #2: the symbol
  pos,           \* stage #3: the character
  changed_any,
  first_pass,    \* cur_pass = 1
  good, bad,     \* inputs that keep the behaviour, and that do not
  hangs,         \* timeouts so far
  stop_soon,
  server         \* the fork server is alive

loopVars == <<set_pos, del_len, del_pos, prev_del, alpha_map, sym, pos, tmp_buf>>
runVars == <<good, bad, hangs>>
passVars == <<changed_any, first_pass>>
vars == <<pc, in_data, loopVars, passVars, runVars, stop_soon, server>>

ZERO == 48                          \* '0'
in_len == Len(in_data)

\* The first power of two that is not less; a file is shorter than 2^24.
next_p2(val) ==
  CHOOSE n \in 1 .. 2 * val + 1 :
    val <= n /\ (n = 1 \/ n < 2 * val) /\ \E k \in 0..24 : n = 2^k

Cut(b, p, n) == SubSeq(b, 1, p) \o SubSeq(b, p + n + 1, Len(b))

Zeroed(b, S) == [k \in 1..Len(b) |-> IF k \in S THEN ZERO ELSE b[k]]

-----------------------------------------------------------------------------
(* run_target(): 1 if the changes are to be kept.                           *)

\* The run ends, with the answer of the target.
Answered(t, res) ==
  /\ ~stop_soon /\ server
  /\ t \in good => res
  /\ t \in bad => ~res
  /\ good' = IF res THEN good \cup {t} ELSE good
  /\ bad' = IF res THEN bad ELSE bad \cup {t}
  /\ UNCHANGED hangs

\* "Always discard inputs that time out."
TimedOut(res) ==
  /\ ~stop_soon /\ server /\ hangs < MaxHangs
  /\ ~res
  /\ hangs' = hangs + 1
  /\ UNCHANGED <<good, bad>>

\* A failed write or read after ^C: "if (stop_soon) return 0".
NoServer(res) == stop_soon /\ ~server /\ ~res /\ UNCHANGED runVars

run_target(t, res) ==
  /\ Answered(t, res) \/ TimedOut(res) \/ NoServer(res)
  /\ UNCHANGED <<stop_soon, server>>

\* The first run makes crashes, or the path of the original, the behaviour to
\* keep; a timeout, or no instrumentation, is fatal.  main() does not look at what
\* run_target() returns: cut off by ^C once the child has written to the map, the
\* run passes for a good one, and the original is what there is to keep.
DryRun ==
  /\ pc = "dry"
  /\ \/ Answered(in_data, TRUE) /\ pc' = "normalize"
     \/ /\ stop_soon /\ ~server
        /\ good' = good \cup {in_data}
        /\ UNCHANGED <<bad, hangs>>
        /\ pc' = "normalize"
     \/ UNCHANGED runVars /\ pc' = "fatal"
  /\ UNCHANGED <<in_data, loopVars, passVars, stop_soon, server>>

\* ^C: handle_stop_sig(); the signal may reach the fork server, too.
CtrlC ==
  /\ ~stop_soon /\ pc \notin {"fatal", "exit"}
  /\ stop_soon' = TRUE
  /\ server' \in {TRUE, FALSE}
  /\ UNCHANGED <<pc, in_data, loopVars, passVars, runVars>>

\* A run after ^C that the server still serves ends in exit(1); without server
\* the write raises SIGPIPE, unless afl-tmin was started with it ignored.
InRun == pc \in {"dry", "normalize", "delete", "symbols", "chars"}
Aborted ==
  /\ stop_soon /\ InRun
  /\ pc' = "fatal"
  /\ UNCHANGED <<in_data, loopVars, passVars, runVars, stop_soon, server>>

-----------------------------------------------------------------------------
(* Stage #0: one-time block normalization.                                  *)

set_len(n) == Max({next_p2(n \div TMIN_SET_STEPS), TMIN_SET_MIN_SIZE})

NextPass(len) ==
  /\ pc' = "delete"
  /\ changed_any' = FALSE
  /\ del_len' = next_p2(len \div TRIM_START_STEPS)
  /\ del_pos' = 0 /\ prev_del' = TRUE

NormalizeBlock ==
  LET n == set_len(in_len)
      block == set_pos + 1 .. Min({set_pos + n, in_len})
      t == Zeroed(in_data, block)
  IN  /\ pc = "normalize" /\ set_pos < in_len
      /\ IF t = in_data THEN UNCHANGED <<in_data, runVars, stop_soon, server>>
         ELSE \E res \in BOOLEAN : /\ run_target(t, res)
                                   /\ in_data' = IF res THEN t ELSE in_data
      /\ set_pos' = set_pos + n
      /\ UNCHANGED <<pc, del_len, del_pos, prev_del, alpha_map, sym, pos, tmp_buf,
                     passVars>>

NormalizeEnd ==
  /\ pc = "normalize" /\ set_pos >= in_len
  /\ NextPass(in_len)
  /\ first_pass' = TRUE
  /\ UNCHANGED <<in_data, set_pos, alpha_map, sym, pos, tmp_buf, runVars, stop_soon,
                 server>>

-----------------------------------------------------------------------------
(* Stage #1: block deletion.                                                *)

tail_len == Max({0, in_len - del_pos - del_len})

\* The block repeats the one before, which could not be deleted.
SameAsPrevious ==
  /\ ~prev_del /\ tail_len > 0
  /\ SubSeq(in_data, del_pos - del_len + 1, del_pos) =
     SubSeq(in_data, del_pos + 1, del_pos + del_len)

DeleteBlock ==
  /\ pc = "delete" /\ del_pos < in_len
  /\ IF SameAsPrevious
     THEN /\ del_pos' = del_pos + del_len
          /\ UNCHANGED <<in_data, prev_del, changed_any, runVars, stop_soon, server>>
     ELSE \E res \in BOOLEAN :
            LET t == Cut(in_data, del_pos, del_len)
            IN  /\ run_target(t, res)
                /\ in_data' = IF res THEN t ELSE in_data
                /\ prev_del' = res
                /\ del_pos' = IF res THEN del_pos ELSE del_pos + del_len
                /\ changed_any' = (changed_any \/ res)
  /\ UNCHANGED <<pc, set_pos, del_len, alpha_map, sym, pos, tmp_buf, first_pass>>

\* Mutant: a later pass does not end after the deletions.
AfterDeletions_Never == "symbols"

\* Mutant: two passes are enough.
AfterDeletions_Twice == IF ~first_pass THEN "write" ELSE "symbols"

\* if (cur_pass > 1 && !changed_any) goto finalize_all.
AfterDeletions == IF ~first_pass /\ ~changed_any THEN "write" ELSE "symbols"

\* memset(alpha_map, 0, 256) clears 256 bytes: the first 64 of 256 counters.
Counted == {s \in alpha_map : s >= 64} \cup Range(in_data)

DeleteEnd ==
  /\ pc = "delete" /\ del_pos >= in_len
  /\ IF del_len > 1 /\ in_len >= 1
     THEN /\ del_len' = del_len \div 2
          /\ del_pos' = 0 /\ prev_del' = TRUE
          /\ UNCHANGED <<pc, alpha_map, sym>>
     ELSE /\ pc' = AfterDeletions
          /\ alpha_map' = IF pc' = "symbols" THEN Counted ELSE alpha_map
          /\ sym' = 0
          /\ UNCHANGED <<del_len, del_pos, prev_del>>
  /\ UNCHANGED <<in_data, set_pos, pos, tmp_buf, passVars, runVars, stop_soon, server>>

-----------------------------------------------------------------------------
(* Stages #2 and #3: alphabet and character minimization.                   *)

\* The next symbol to try, 256 if there is none.
NextSym == Min({s \in alpha_map : s >= sym /\ s # ZERO} \cup {256})

ReplaceSymbol ==
  LET t == Zeroed(in_data, {k \in 1..in_len : in_data[k] = NextSym})
  IN  /\ pc = "symbols" /\ NextSym < 256
      /\ \E res \in BOOLEAN : /\ run_target(t, res)
                              /\ in_data' = IF res THEN t ELSE in_data
                              /\ changed_any' = (changed_any \/ res)
      /\ sym' = NextSym + 1
      /\ UNCHANGED <<pc, set_pos, del_len, del_pos, prev_del, alpha_map, pos, tmp_buf,
                     first_pass>>

SymbolsEnd ==
  /\ pc = "symbols" /\ NextSym = 256
  /\ pc' = "chars" /\ pos' = 0 /\ tmp_buf' = in_data
  /\ UNCHANGED <<in_data, set_pos, del_len, del_pos, prev_del, alpha_map, sym,
                 passVars, runVars, stop_soon, server>>

\* Mutant: a refused change stays in tmp_buf.
ReplaceChar_Keeps ==
  LET t == Zeroed(tmp_buf, {pos + 1})
  IN  /\ pc = "chars" /\ pos < in_len
      /\ IF t = tmp_buf
         THEN UNCHANGED <<in_data, tmp_buf, changed_any, runVars, stop_soon, server>>
         ELSE \E res \in BOOLEAN :
                /\ run_target(t, res)
                /\ tmp_buf' = t
                /\ in_data' = IF res THEN Zeroed(in_data, {pos + 1}) ELSE in_data
                /\ changed_any' = (changed_any \/ res)
      /\ pos' = pos + 1
      /\ UNCHANGED <<pc, set_pos, del_len, del_pos, prev_del, alpha_map, sym, first_pass>>

ReplaceChar ==
  LET t == Zeroed(tmp_buf, {pos + 1})
  IN  /\ pc = "chars" /\ pos < in_len
      /\ IF t = tmp_buf
         THEN UNCHANGED <<in_data, tmp_buf, changed_any, runVars, stop_soon, server>>
         ELSE \E res \in BOOLEAN :
                /\ run_target(t, res)
                /\ tmp_buf' = IF res THEN t ELSE tmp_buf
                /\ in_data' = IF res THEN Zeroed(in_data, {pos + 1}) ELSE in_data
                /\ changed_any' = (changed_any \/ res)
      /\ pos' = pos + 1
      /\ UNCHANGED <<pc, set_pos, del_len, del_pos, prev_del, alpha_map, sym, first_pass>>

\* if (changed_any) goto next_pass.
CharsEnd ==
  /\ pc = "chars" /\ pos >= in_len
  /\ IF changed_any
     THEN NextPass(in_len) /\ first_pass' = FALSE
     ELSE pc' = "write" /\ UNCHANGED <<del_len, del_pos, prev_del, passVars>>
  /\ UNCHANGED <<in_data, set_pos, alpha_map, sym, pos, tmp_buf, runVars, stop_soon,
                 server>>

\* write_to_file(out_file, in_data, in_len), exit(0).
WriteOutput ==
  /\ pc = "write"
  /\ pc' = "exit"
  /\ UNCHANGED <<in_data, loopVars, passVars, runVars, stop_soon, server>>

-----------------------------------------------------------------------------
Init ==
  /\ pc = "dry" /\ in_data \in Files /\ tmp_buf = <<>>
  /\ set_pos = 0 /\ del_len = 1 /\ del_pos = 0 /\ prev_del = TRUE
  /\ alpha_map = {} /\ sym = 0 /\ pos = 0
  /\ changed_any = FALSE /\ first_pass = TRUE
  /\ good = {} /\ bad = {} /\ hangs = 0
  /\ stop_soon = FALSE /\ server = TRUE

Step ==
  \/ DryRun \/ Aborted
  \/ NormalizeBlock \/ NormalizeEnd \/ DeleteBlock \/ DeleteEnd
  \/ ReplaceSymbol \/ SymbolsEnd \/ ReplaceChar \/ CharsEnd \/ WriteOutput

Next == Step \/ CtrlC

\* afl-tmin goes on as long as it can; every run ends, by its timeout.
Spec == Init /\ [][Next]_vars /\ WF_vars(Step)

-----------------------------------------------------------------------------
(* Properties.                                                              *)

\* What afl-tmin holds, and finally writes, behaves as the original did, even
\* when runs time out or ^C makes all further runs fail: it is always an input
\* that has been run and kept, though the stages patch in_data and tmp_buf
\* separately.
ResultReproduces == pc \notin {"dry", "fatal"} => in_data \in good

\* No single character of a finished result can be deleted: all of these inputs
\* have been run and refused, although equal neighbours are skipped, and the
\* stages after the deletions change the input again.
DeletionMinimal ==
  pc = "exit" /\ hangs = 0 /\ ~stop_soon =>
    \A p \in 0 .. in_len - 1 : Cut(in_data, p, 1) \in bad

\* afl-tmin comes to an end, although stale counters of alpha_map make stage #2
\* "replace" symbols that are not there and ask for another pass.
Terminates == <>(pc \in {"fatal", "exit"})
=============================================================================
