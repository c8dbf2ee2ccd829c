------------------------------- MODULE FuzzOne -------------------------------
(***************************************************************************)
(* fuzz_one() up to the random stages: the deterministic stages in order,  *)
(* the collection of tokens during the walking bit, the dictionary stages,  *)
(* the ways out (done, skipped, stopped), and the sessions around them that *)
(* save and reload the automatic dictionary.                               *)
(*                                                                         *)
(* A queue entry is an input together with what the target shows for it:   *)
(*   buf      its bytes,                                                   *)
(*   lsb[k]   the checksum of the map when the low bit of byte k is flipped, *)
(*   inv[k]   whether inverting byte k changes the checksum.               *)
(* The checksum of the entry itself is 0.  Random stages do not touch any   *)
(* of this state and are a single step.                                    *)
(***************************************************************************)
EXTENDS AutoExtras, Triage

CONSTANTS
  Scenarios,       \* [queue, dict, dumb, skip_det, audited, faults, restarts]:
                   \* what is fuzzed, with which user tokens, in dumb mode or
                   \* not, with -d or not; whether the test cases are recorded;
                   \* how many of them may crash or hang; how often the session
                   \* restarts
  MAX_DET_EXTRAS   \* more user tokens than this are used at random

ASSUME FuzzOneAssumption ==
  /\ MAX_DET_EXTRAS \in Nat \ {0}
  /\ \A s \in Scenarios :
       /\ Len(s.queue) \in Nat \ {0} /\ {s.dumb, s.skip_det} \subseteq BOOLEAN
       /\ IsFiniteSet(s.dict) /\ \A t \in s.dict : t \in Seq(Byte)
       /\ \A k \in 1..Len(s.queue) :
            s.queue[k].buf \in Seq(Byte) /\ Len(s.queue[k].buf) > 0

VARIABLES
  sc,          \* the scenario
  stage,       \* where fuzz_one(), or main(), is
  cur,         \* index of queue_cur
  pos,         \* the position a stage has reached
  out_buf,     \* the buffer the stages modify and restore
  eff_map,     \* effector map
  next_tok,    \* overwriting stages: the next token for this position
  last_len,    \* length of the token last written there
  a_collect,   \* bytes of the token being collected
  a_len,       \* their number, counted on past MAX_AUTO_EXTRA
  prev_cksum,  \* checksum that belongs to them
  was_fuzzed,  \* entries fuzzed in this session
  passed_det,  \* entries marked deterministic_done, kept across restarts
  restarts,    \* restarts so far
  offered,     \* history: tokens given to maybe_add_auto() for this entry
  tested,      \* history: test cases run for this entry, when audited
  overlaid     \* history: test cases of the current dictionary stage

bufVars == <<out_buf, eff_map, next_tok, last_len, a_collect, a_len, prev_cksum>>
queueVars == <<sc, cur, was_fuzzed, passed_det, restarts>>
histVars == <<offered, tested, overlaid>>
vars == <<queueVars, stage, pos, bufVars, histVars, dictVars, triageVars>>

Entry == sc.queue[cur]
in_buf == Entry.buf
len == Len(in_buf)

Stages == <<"flip1", "flip2", "flip4", "flip8", "flip16", "flip32", "arith8",
            "arith16", "arith32", "int8", "int16", "int32", "ext_UO", "ext_UI",
            "ext_AO", "det_done">>
InFuzzOne == stage \in Range(Stages) \cup {"havoc"}

Run(tests) == tested' = IF sc.audited THEN tested \cup tests ELSE tested

-----------------------------------------------------------------------------
(* Start of a session, and of fuzz_one().                                   *)

LoadAuto ==
  /\ stage = "load"
  /\ load_auto_File
  /\ UNCHANGED <<queueVars, stage, pos, bufVars, histVars, triageVars>>

\* pivot_inputs(), load_extras(), the dry run.
LoadExtras ==
  /\ stage = "load" /\ load_auto_Done
  /\ load_extras(sc.dict)
  /\ stage' = "start"
  /\ UNCHANGED <<queueVars, pos, bufVars, histVars, triageVars>>

\* The save_auto() before the main loop.
Start ==
  /\ stage = "start"
  /\ save_auto_Begin
  /\ stage' = "pick"
  /\ UNCHANGED <<queueVars, pos, bufVars, histVars, triageVars>>

\* queue_cur->next, or the first one again.
NextEntry == (cur % Len(sc.queue)) + 1

\* A resumed session seeks to the entry it was at; fuzz_one() leaves an entry out
\* at random, when others are favoured.
Skip ==
  /\ stage = "pick" /\ ~Saving
  /\ cur' = NextEntry
  /\ UNCHANGED <<sc, was_fuzzed, passed_det, restarts, stage, pos, bufVars, histVars,
                 dictVars, triageVars>>

\* fuzz_one() maps the file, and goes straight to the random stages when the
\* others have been done or are not wanted (skip_deterministic: -d and -S).
Pick ==
  /\ stage = "pick" /\ ~Saving
  /\ cur' = NextEntry
  /\ pos' = 0
  /\ out_buf' = sc.queue[cur'].buf
  /\ eff_map' = <<>> /\ next_tok' = 1 /\ last_len' = 0
  /\ a_collect' = <<>> /\ a_len' = 0
  /\ prev_cksum' = 0
  /\ IF sc.skip_det \/ cur' \in was_fuzzed \cup passed_det
     THEN stage' = "havoc" /\ UNCHANGED histVars
     ELSE stage' = "flip1" /\ offered' = <<>> /\ tested' = {} /\ overlaid' = {}
  /\ UNCHANGED <<sc, was_fuzzed, passed_det, restarts, dictVars, triageVars>>

-----------------------------------------------------------------------------
(* The walking bit, and the tokens it finds.                                *)

Worthwhile(n) == n \in MIN_AUTO_EXTRA .. MAX_AUTO_EXTRA

\* a_collect[a_len] = byte, if there is room.
Collected(coll, n, byte) == IF n < MAX_AUTO_EXTRA THEN Append(coll, byte) ELSE coll

\* Offer a token to the dictionary, or not.
Offer(offers, tok) ==
  IF offers THEN maybe_add_auto(tok) /\ offered' = Append(offered, tok)
            ELSE UNCHANGED <<a_extras, auto_changed, offered>>

\* Mutant: at the end of the file the string is not forced out.
TokenStep_NoFinal(cksum, byte, last) ==
  LET changed == cksum # prev_cksum
      coll == IF changed THEN <<>> ELSE a_collect
      n == IF changed THEN 0 ELSE a_len
  IN  /\ Offer(changed /\ Worthwhile(a_len), a_collect)
      /\ prev_cksum' = IF changed THEN cksum ELSE prev_cksum
      /\ a_collect' = IF cksum # 0 THEN Collected(coll, n, byte) ELSE coll
      /\ a_len' = IF cksum # 0 THEN n + 1 ELSE n

\* After the low bit of a byte was flipped: force out the string at the end of
\* the file, or when the checksum has changed; go on collecting if the flip
\* made a difference.
TokenStep(cksum, byte, last) ==
  LET final == last /\ cksum = prev_cksum
      changed == ~final /\ cksum # prev_cksum
      grab == Collected(a_collect, a_len, byte)
      coll == CASE final -> grab [] changed -> <<>> [] OTHER -> a_collect
      n == CASE final -> a_len + 1 [] changed -> 0 [] OTHER -> a_len
  IN  /\ Offer(\/ final /\ Worthwhile(a_len + 1)
               \/ changed /\ Worthwhile(a_len),
               IF final THEN grab ELSE a_collect)
      /\ prev_cksum' = IF changed THEN cksum ELSE prev_cksum
      /\ a_collect' = IF cksum # 0 THEN Collected(coll, n, byte) ELSE coll
      /\ a_len' = IF cksum # 0 THEN n + 1 ELSE n

\* The eight bits of one byte.
Flip1 ==
  /\ stage = "flip1" /\ ~Saving
  /\ Run({FlipBits(in_buf, p, 1) : p \in 8 * pos .. 8 * pos + 7})
  /\ IF sc.dumb THEN UNCHANGED <<a_collect, a_len, prev_cksum, a_extras,
                                  auto_changed, offered>>
     ELSE TokenStep(Entry.lsb[pos + 1], in_buf[pos + 1], pos = len - 1)
  /\ pos' = IF pos < len - 1 THEN pos + 1 ELSE 0
  /\ stage' = IF pos < len - 1 THEN "flip1" ELSE "flip2"
  /\ UNCHANGED <<queueVars, triageVars, out_buf, eff_map, next_tok, last_len, overlaid,
                 extras, files, in_files, load_i, save_i, save_open>>

-----------------------------------------------------------------------------
(* The other stages that restore each change at once.                       *)

Follows(s) == Stages[CHOOSE k \in 2..Len(Stages) : Stages[k - 1] = s]

\* A whole stage.
Do(s, tests) ==
  /\ stage = s /\ ~Saving
  /\ Run(tests)
  /\ stage' = Follows(s)
  /\ UNCHANGED <<queueVars, triageVars, pos, out_buf, next_tok, last_len, a_collect, a_len,
                 prev_cksum, offered, overlaid, dictVars>>

Flip24 ==
  /\ \/ Do("flip2", WalkingBits(in_buf, 2))
     \/ Do("flip4", WalkingBits(in_buf, 4))
  /\ UNCHANGED eff_map

\* The walking byte also fills in the effector map, and consults none.
Flip8 ==
  /\ Do("flip8", {Put(in_buf, i, Invert(Word(in_buf, i, 1))) : i \in 0 .. len - 1})
  /\ eff_map' = EffMap(in_buf, Entry.inv, sc.dumb)

Flip1632 ==
  /\ \/ Do("flip16", FlipTests(in_buf, 2, eff_map))
     \/ Do("flip32", FlipTests(in_buf, 4, eff_map))
  /\ UNCHANGED eff_map

Arith ==
  /\ \/ Do("arith8", ArithTests(in_buf, 1, eff_map))
     \/ Do("arith16", ArithTests(in_buf, 2, eff_map))
     \/ Do("arith32", ArithTests(in_buf, 4, eff_map))
  /\ UNCHANGED eff_map

Interest ==
  /\ \/ Do("int8", InterestTests(in_buf, 1, eff_map))
     \/ Do("int16", InterestTests(in_buf, 2, eff_map))
     \/ Do("int32", InterestTests(in_buf, 4, eff_map))
  /\ UNCHANGED eff_map

-----------------------------------------------------------------------------
(* The dictionary stages.                                                   *)

\* A token is left out when there is no room for it, when the buffer has it there
\* already, and when no byte under it matters.
Redundant(t) ==
  \/ Len(t) > len - pos
  \/ t = Word(out_buf, pos, Len(t))
  \/ ~SpanEffective(pos, Len(t), eff_map)

\* The next token is written over the last one, without a restore: toks is
\* sorted by length, so it covers that one.  skips: the outcomes of the draw
\* that leaves out a token.
OverToken(s, toks, skips) ==
  LET t == toks[next_tok]
      before == IF pos = 0 /\ next_tok = 1 THEN {} ELSE overlaid
  IN  /\ stage = s /\ ~Saving /\ next_tok <= Len(toks)
      /\ \E skip \in skips :
           IF skip \/ Redundant(t)
           THEN overlaid' = before /\ UNCHANGED <<out_buf, last_len, tested>>
           ELSE /\ out_buf' = Put(out_buf, pos, t) /\ last_len' = Len(t)
                /\ Run({out_buf'})
                /\ overlaid' = before \cup {out_buf'}
      /\ next_tok' = next_tok + 1
      /\ UNCHANGED <<queueVars, triageVars, stage, pos, eff_map, a_collect, a_len,
                     prev_cksum, offered, dictVars>>

\* After the last one the bytes under the token last written are restored, and
\* the next position follows.
OverRestore(s, toks) ==
  LET last == toks = <<>> \/ pos = len - 1
  IN  /\ stage = s /\ ~Saving /\ next_tok > Len(toks)
      /\ out_buf' = Put(out_buf, pos, Word(in_buf, pos, last_len))
      /\ next_tok' = 1 /\ last_len' = 0
      /\ pos' = IF last THEN 0 ELSE pos + 1
      /\ stage' = IF last THEN Follows(s) ELSE s
      /\ UNCHANGED <<queueVars, triageVars, eff_map, a_collect, a_len, prev_cksum,
                     histVars, dictVars>>

ExtrasOver ==
  \/ OverToken("ext_UO", extras,
               IF Len(extras) > MAX_DET_EXTRAS THEN BOOLEAN ELSE {FALSE})
  \/ OverRestore("ext_UO", extras)

\* Insertion: head, token, tail; the rest of the buffer is not touched.
ExtrasInsert ==
  /\ Do("ext_UI", UNION {{SubSeq(out_buf, 1, i) \o t \o SubSeq(out_buf, i + 1, len) :
                            t \in Range(extras)} : i \in 0 .. len - 1})
  /\ UNCHANGED eff_map

AutoExtrasOver ==
  \/ OverToken("ext_AO", UsedTokens, {FALSE})
  \/ OverRestore("ext_AO", UsedTokens)

-----------------------------------------------------------------------------
(* The ways out.                                                            *)

mark_as_det_done ==
  /\ stage = "det_done" /\ ~Saving
  /\ passed_det' = passed_det \cup {cur}
  /\ stage' = "havoc"
  /\ UNCHANGED <<sc, cur, was_fuzzed, restarts, pos, bufVars, histVars, triageVars,
                 dictVars>>

\* The random stages, to the end of fuzz_one().
Havoc ==
  /\ stage = "havoc" /\ ~Saving
  /\ was_fuzzed' = was_fuzzed \cup {cur}
  /\ stage' = "pick"
  /\ UNCHANGED <<sc, cur, passed_det, restarts, pos, bufVars, histVars, triageVars,
                 dictVars>>

\* common_fuzz_stuff() says to bail out: skip_requested or too many hangs, and
\* fuzz_one() counts as done; or ^C, and main() comes to its end.
Abandon ==
  /\ InFuzzOne /\ stage # "det_done" /\ ~Saving
  /\ \/ was_fuzzed' = was_fuzzed \cup {cur} /\ stage' = "pick"
     \/ UNCHANGED was_fuzzed /\ stage' = "stop"
  /\ UNCHANGED <<sc, cur, passed_det, restarts, pos, bufVars, histVars, triageVars,
                 dictVars>>

\* One of the stage's test cases crashes or hangs.
Fault ==
  /\ InFuzzOne /\ stage # "det_done" /\ ~Saving
  /\ Len(met["crash"]) + Len(met["hang"]) < sc.faults
  /\ \E kind \in Kinds, t \in Traces({1, 2}) : save_if_interesting(kind, t, sc.dumb)
  /\ UNCHANGED <<queueVars, stage, pos, bufVars, histVars, dictVars>>

\* show_stats() from common_fuzz_stuff(), once a minute.
StatsSave ==
  /\ InFuzzOne /\ stage # "det_done" /\ ~Saving /\ auto_changed
  /\ save_auto_Begin
  /\ UNCHANGED <<queueVars, stage, pos, bufVars, histVars, triageVars>>

SaveStep ==
  /\ save_auto_Open \/ save_auto_Write
  /\ UNCHANGED <<queueVars, stage, pos, bufVars, histVars, triageVars>>

\* The end of main(), after ^C.
Stop ==
  /\ stage = "stop" /\ ~Saving
  /\ save_auto_Begin
  /\ stage' = "exit"
  /\ UNCHANGED <<queueVars, pos, bufVars, histVars, triageVars>>

\* afl-fuzz is killed, or has ended, and is started again on its own output.
Restart ==
  /\ restarts < sc.restarts
  /\ restarts' = restarts + 1
  /\ RestartDictionary(stage = "load" /\ restarts > 0)
  /\ RestartTriage
  /\ cur' = 0 /\ was_fuzzed' = {}
  /\ stage' = "load"
  /\ UNCHANGED <<sc, passed_det, pos, bufVars, histVars>>

-----------------------------------------------------------------------------
Init ==
  /\ sc \in Scenarios
  /\ stage = "load" /\ cur = 0 /\ pos = 0
  /\ out_buf = <<>> /\ eff_map = <<>> /\ next_tok = 1 /\ last_len = 0
  /\ a_collect = <<>> /\ a_len = 0 /\ prev_cksum = 0
  /\ was_fuzzed = {} /\ passed_det = {} /\ restarts = 0
  /\ offered = <<>> /\ tested = {} /\ overlaid = {}
  /\ InitDictionary /\ InitTriage

DetNext ==
  \/ Flip1 \/ Flip24 \/ Flip8 \/ Flip1632 \/ Arith \/ Interest
  \/ ExtrasOver \/ ExtrasInsert \/ AutoExtrasOver \/ mark_as_det_done

Next ==
  \/ LoadAuto \/ LoadExtras \/ Start \/ Skip \/ Pick
  \/ DetNext \/ Havoc \/ Fault \/ Abandon \/ StatsSave \/ SaveStep \/ Stop \/ Restart

Spec == Init /\ [][Next]_vars

-----------------------------------------------------------------------------
(* Properties.                                                              *)

IsToken(t) ==
  Len(t) \in MIN_AUTO_EXTRA .. MAX_AUTO_EXTRA /\ t \in [1..Len(t) -> Byte]

\* Types.  The tables stay within their limits and hold no token twice, in
\* whatever case; the collected bytes stay within the array a_collect, although
\* a_len is counted on.
TypeOK ==
  /\ stage \in Range(Stages) \cup {"load", "start", "pick", "havoc", "stop", "exit"}
  /\ Len(a_extras) <= MAX_AUTO_EXTRAS /\ Len(files) <= USE_AUTO_EXTRAS
  /\ \A k \in 1..Len(a_extras) :
       /\ IsToken(a_extras[k].tok) /\ a_extras[k].hit_cnt \in Nat
       /\ \A i \in 1 .. k - 1 : ~SameToken(a_extras[i].tok, a_extras[k].tok)
  /\ \A k \in 1..Len(files) : files[k] = <<>> \/ IsToken(files[k])
  /\ Len(a_collect) = Min({a_len, MAX_AUTO_EXTRA})
  /\ save_i \in 0..USE_AUTO_EXTRAS /\ save_open \in BOOLEAN
  /\ auto_changed \in BOOLEAN
  /\ \A kind \in Kinds : unique[kind] <= Keep(kind)

\* The runs of bytes whose flips all give the same checksum, one that differs
\* from the entry's, as long as they can be: where they begin and where they end.
SameEffect(i, j) == \A k \in i..j : Entry.lsb[k] = Entry.lsb[i] /\ Entry.lsb[k] # 0
Runs ==
  {r \in (1..len) \X (1..len) :
     /\ r[1] <= r[2] /\ Worthwhile(r[2] - r[1] + 1)
     /\ SameEffect(r[1], r[2])
     /\ r[1] = 1 \/ Entry.lsb[r[1] - 1] # Entry.lsb[r[1]]
     /\ r[2] = len \/ Entry.lsb[r[2] + 1] # Entry.lsb[r[2]]}

\* toks are the strings of these runs, each once, in the order of the file.
Lists(toks, runs) ==
  \E at \in [1..Len(toks) -> runs] :
    /\ \A i, j \in 1..Len(toks) : i < j => at[i][2] < at[j][2]
    /\ \A r \in runs : \E k \in 1..Len(toks) : at[k] = r
    /\ \A k \in 1..Len(toks) : toks[k] = SubSeq(in_buf, at[k][1], at[k][2])

\* When the walking bit is over, the strings offered to the dictionary are
\* exactly those runs: none is cut at the end of the file, joined with its
\* neighbour, or repeated.
TokensExact == stage = "flip2" /\ ~sc.dumb => Lists(offered, Runs)

\* A token evicted from a full table has been used no more often than half of
\* the tokens that stay.
EvictsLeastUsed ==
  [][stage # "load" /\ stage' # "load" =>
       LET stay == {k \in 1..Len(a_extras) :
                      \E j \in 1..Len(a_extras') : a_extras'[j].tok = a_extras[k].tok}
       IN  \A k \in (1..Len(a_extras)) \ stay :
             Cardinality({j \in stay : a_extras[j].hit_cnt >= a_extras[k].hit_cnt})
               >= MAX_AUTO_EXTRAS \div 2]_vars

\* The test cases with toks laid over the input where they fit and matter.
Overlays(toks) ==
  {Put(in_buf, x[1], x[2]) : x \in
     {x \in (0 .. len - 1) \X Range(toks) :
        Len(x[2]) <= len - x[1] /\ SpanEffective(x[1], Len(x[2]), eff_map)}}

\* An overwriting stage runs every overlay that differs from the input, and
\* nothing else: leaving out the restore between two tokens of one position
\* drops none and mixes none.  Between two positions the buffer is the input
\* again, so that nothing leaks into the later stages either.
OverlaysExact ==
  /\ InFuzzOne /\ (next_tok = 1 \/ stage \notin {"ext_UO", "ext_AO"}) => out_buf = in_buf
  /\ stage = "ext_UI" /\ Len(extras) <= MAX_DET_EXTRAS /\ extras # <<>> =>
       Overlays(extras) \ {in_buf} \subseteq overlaid /\ overlaid \subseteq Overlays(extras)
  /\ stage = "det_done" /\ a_extras # <<>> =>
       Overlays(UsedTokens) \ {in_buf} \subseteq overlaid /\ overlaid \subseteq Overlays(UsedTokens)

\* An entry marked deterministic_done has seen every test case that the stages
\* would run without filters, except those that change only bytes without
\* effect and those of Straddles, which the filter for bit flips takes for one.
DetDoneComplete ==
  [][sc.audited /\ passed_det' # passed_det =>
       \A t \in Wanted(in_buf) \ tested :
         OnlyIneffective(in_buf, t, eff_map) \/ Straddles(in_buf, t)]_vars

\* A crash or hang is kept if and only if docs/technical_details.txt calls it
\* unique (see Unique): the bits left in the virgin map say the same as the whole
\* history of faults, whatever the hit counts were.
FaultsKeptExactly ==
  \A kind \in Kinds : \A i \in 1..Len(met[kind]) :
    met[kind][i].kept <=> (sc.dumb \/ Unique(met[kind], i))

\* The automatic dictionary survives the session.  Once saved, the files hold the
\* used tokens, and they are saved again whenever those change; load_auto() brings
\* back every token that a file of the last session holds in full: a file
\* left empty by a kill neither ends the loop nor is a token, and loading more
\* tokens evicts none.
TokensSurvive ==
  /\ ~Saving /\ ~auto_changed => files = UsedTokens
  /\ stage = "load" => \A k \in 1 .. load_i - 1 :
       in_files[k] # <<>> =>
         \E j \in 1..Len(a_extras) : SameToken(a_extras[j].tok, in_files[k])
=============================================================================
