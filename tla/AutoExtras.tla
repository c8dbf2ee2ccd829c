----------------------------- MODULE AutoExtras -----------------------------
(***************************************************************************)
(* The dictionaries of afl-fuzz: the user's tokens (extras[]) and the      *)
(* bounded table of tokens found on the way (a_extras[]), with its two     *)
(* sort orders, and the files queue/.state/auto_extras/auto_N that carry   *)
(* the most used of them to the next session.                              *)
(*                                                                         *)
(* A token is a sequence of bytes.  Every write of a file is two steps,     *)
(* open(O_TRUNC) and ck_write(), with a possible kill in between.  qsort()  *)
(* may leave equal elements in any order.                                  *)
(***************************************************************************)
EXTENDS DetStages, Functions

CONSTANTS
  MIN_AUTO_EXTRA, MAX_AUTO_EXTRA,   \* lengths of automatic tokens
  USE_AUTO_EXTRAS,                  \* tokens used and saved
  MAX_AUTO_EXTRAS                   \* tokens kept

ASSUME ExtrasAssumption ==
  /\ {MIN_AUTO_EXTRA, MAX_AUTO_EXTRA, USE_AUTO_EXTRAS, MAX_AUTO_EXTRAS} \subseteq Nat \ {0}
  /\ 1 < MIN_AUTO_EXTRA /\ MIN_AUTO_EXTRA <= MAX_AUTO_EXTRA
  /\ 2 * USE_AUTO_EXTRAS <= MAX_AUTO_EXTRAS

VARIABLES
  extras,        \* the user's tokens, sorted by length
  a_extras,      \* automatic tokens: [tok, hit_cnt]
  auto_changed,  \* a_extras changed since save_auto()
  files,         \* auto_N files in the output directory
  in_files,      \* those of the session that is being resumed
  load_i,        \* load_auto(): the next file
  save_i,        \* save_auto(): the file being written, 0 outside
  save_open      \* save_auto(): the file is open, and empty

dictVars == <<extras, a_extras, auto_changed, files, in_files, load_i, save_i,
              save_open>>

tolower(c) == IF c \in 65..90 THEN c + 32 ELSE c
nocase(t) == [k \in 1..Len(t) |-> tolower(t[k])]
SameToken(s, t) == nocase(s) = nocase(t)        \* equal length, memcmp_nocase

Tokens(table) == [k \in 1..Len(table) |-> table[k].tok]
UsedCount(table) == Min({USE_AUTO_EXTRAS, Len(table)})
UsedTokens == Tokens(SubSeq(a_extras, 1, UsedCount(a_extras)))

\* compare_extras_len(), compare_extras_use_d(): the keys of a table's entries.
LengthKeys(tokens) == [k \in 1..Len(tokens) |-> Len(tokens[k])]
UseKeys(table) == [k \in 1..Len(table) |-> -table[k].hit_cnt]

\* All the results qsort() may give for a sequence, where key[k] is the key of
\* s[k], ascending.
Sorts(s, key) ==
  {[k \in 1..Len(s) |-> s[p[k]]] :
     p \in {p \in Bijection(1..Len(s), 1..Len(s)) :
              \A i, j \in 1..Len(s) : i < j => key[p[i]] <= key[p[j]]}}

-----------------------------------------------------------------------------
(* maybe_add_auto()                                                         *)

\* Runs of one byte, and values the interesting-value stages insert anyway.  In
\* the 16-bit test the value is unsigned and the table is signed: of the
\* negative values only the swapped form can match.
Dull(mem) ==
  \/ \A k \in 1..Len(mem) : mem[k] = mem[1]
  \/ Len(mem) = 2 /\ \E v \in INTERESTING_16 :
       (v >= 0 /\ mem = Encode(v, 2)) \/ mem = Reverse(Encode(v, 2))
  \/ Len(mem) = 4 /\ (mem \in interesting[4] \/ Reverse(mem) \in interesting[4])

\* What the user's dictionary already has is not taken, either.
Rejected(mem) == Dull(mem) \/ \E k \in 1..Len(extras) : SameToken(extras[k], mem)

\* Mutant: any entry may be evicted.
Updated_EvictsAny(mem) ==
  LET hit == {k \in 1..Len(a_extras) : SameToken(a_extras[k].tok, mem)}
      new == [tok |-> mem, hit_cnt |-> 0]
  IN  IF hit # {} THEN {[a_extras EXCEPT ![Min(hit)].hit_cnt = @ + 1]}
      ELSE IF Len(a_extras) < MAX_AUTO_EXTRAS THEN {Append(a_extras, new)}
      ELSE {[a_extras EXCEPT ![i] = new] : i \in 1..MAX_AUTO_EXTRAS}

\* Mutant: off by one, the table grows past its limit.
Updated_OneMore(mem) ==
  LET hit == {k \in 1..Len(a_extras) : SameToken(a_extras[k].tok, mem)}
      new == [tok |-> mem, hit_cnt |-> 0]
  IN  IF hit # {} THEN {[a_extras EXCEPT ![Min(hit)].hit_cnt = @ + 1]}
      ELSE IF Len(a_extras) <= MAX_AUTO_EXTRAS THEN {Append(a_extras, new)}
      ELSE {[a_extras EXCEPT ![i] = new] : i \in 1..MAX_AUTO_EXTRAS}

\* The table with mem counted, appended, or put in the place of an entry of the
\* lower half: MAX_AUTO_EXTRAS / 2 + UR((MAX_AUTO_EXTRAS + 1) / 2).
Updated(mem) ==
  LET hit == {k \in 1..Len(a_extras) : SameToken(a_extras[k].tok, mem)}
      new == [tok |-> mem, hit_cnt |-> 0]
      half == MAX_AUTO_EXTRAS \div 2
  IN  IF hit # {} THEN {[a_extras EXCEPT ![Min(hit)].hit_cnt = @ + 1]}
      ELSE IF Len(a_extras) < MAX_AUTO_EXTRAS THEN {Append(a_extras, new)}
      ELSE {[a_extras EXCEPT ![half + 1 + r] = new] :
              r \in 0 .. (MAX_AUTO_EXTRAS + 1) \div 2 - 1}

\* Mutant: the used entries are not sorted by length.
Sorted_ByUseOnly(table) == Sorts(table, UseKeys(table))

\* By use count, descending; then the used ones by length.
Sorted(table) ==
  UNION {{used \o SubSeq(s, UsedCount(s) + 1, Len(s)) :
            used \in LET u == SubSeq(s, 1, UsedCount(s))
                     IN  Sorts(u, LengthKeys(Tokens(u)))} :
           s \in Sorts(table, UseKeys(table))}

\* Mutant: a token seen again does not mark the table as changed.
maybe_add_auto_QuietHit(mem) ==
  IF Rejected(mem) THEN UNCHANGED <<a_extras, auto_changed>>
  ELSE /\ auto_changed' = (auto_changed \/
                           ~\E k \in 1..Len(a_extras) : SameToken(a_extras[k].tok, mem))
       /\ \E table \in Updated(mem) : a_extras' \in Sorted(table)

maybe_add_auto(mem) ==
  IF Rejected(mem) THEN UNCHANGED <<a_extras, auto_changed>>
  ELSE /\ auto_changed' = TRUE
       /\ \E table \in Updated(mem) : a_extras' \in Sorted(table)

-----------------------------------------------------------------------------
(* save_auto() and load_auto()                                              *)

Saving == save_i > 0

\* "if (!auto_changed) return; auto_changed = 0", and the loop begins.
save_auto_Begin ==
  /\ auto_changed' = FALSE
  /\ save_i' = IF auto_changed THEN 1 ELSE 0
  /\ save_open' = FALSE
  /\ UNCHANGED <<extras, a_extras, files, in_files, load_i>>

\* open(O_CREAT | O_TRUNC).
save_auto_Open ==
  /\ Saving /\ ~save_open
  /\ save_open' = TRUE
  /\ files' = IF save_i <= Len(files) THEN [files EXCEPT ![save_i] = <<>>]
              ELSE Append(files, <<>>)
  /\ UNCHANGED <<extras, a_extras, auto_changed, in_files, load_i, save_i>>

\* ck_write(), close(), and the next one.
save_auto_Write ==
  /\ Saving /\ save_open
  /\ save_open' = FALSE
  /\ files' = [files EXCEPT ![save_i] = a_extras[save_i].tok]
  /\ save_i' = IF save_i < UsedCount(a_extras) THEN save_i + 1 ELSE 0
  /\ UNCHANGED <<extras, a_extras, auto_changed, in_files, load_i>>

\* One file of the resumed session; the first missing one ends the loop.
load_auto_File ==
  /\ load_i <= Min({USE_AUTO_EXTRAS, Len(in_files)})
  /\ load_i' = load_i + 1
  /\ IF Len(in_files[load_i]) \in MIN_AUTO_EXTRA .. MAX_AUTO_EXTRA
     THEN maybe_add_auto(in_files[load_i])
     ELSE UNCHANGED <<a_extras, auto_changed>>
  /\ UNCHANGED <<extras, files, in_files, save_i, save_open>>

load_auto_Done == load_i > Min({USE_AUTO_EXTRAS, Len(in_files)})

\* load_extras(), after pivot_inputs() has removed the resumed directory.
load_extras(dict) ==
  /\ LET t == SetToSeq(dict) IN extras' \in Sorts(t, LengthKeys(t))
  /\ in_files' = <<>>
  /\ UNCHANGED <<a_extras, auto_changed, files, load_i, save_i, save_open>>

\* The session ends in a kill or an exit, and the directory is resumed in
\* place: queue/ becomes _resume/, unless _resume/ is there already.
RestartDictionary(resuming) ==
  /\ in_files' = IF resuming THEN in_files ELSE files
  /\ files' = <<>>
  /\ extras' = <<>> /\ a_extras' = <<>> /\ auto_changed' = FALSE
  /\ load_i' = 1 /\ save_i' = 0 /\ save_open' = FALSE

InitDictionary ==
  /\ extras = <<>> /\ a_extras = <<>> /\ auto_changed = FALSE
  /\ files = <<>> /\ in_files = <<>>
  /\ load_i = 1 /\ save_i = 0 /\ save_open = FALSE
=============================================================================
