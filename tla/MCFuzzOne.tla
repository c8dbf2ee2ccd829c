------------------------------ MODULE MCFuzzOne ------------------------------
(* What is fuzzed: single inputs whose every test case is recorded, and small *)
(* queues of text from which tokens are taken.                               *)
EXTENDS FuzzOne

Input(b, lsb, inv) == [buf |-> b, lsb |-> lsb, inv |-> inv]

-----------------------------------------------------------------------------
(* Numbers: bytes at the borders that carries, signs and swapped values have. *)

Numbers ==
  UNION {[1..n -> {0, 1, 127, 128, 255}] : n \in 1..2} \cup
  UNION {[1..n -> {0, 127, 128, 255}] : n \in 3..4} \cup
  {<<224, 1, 0, 6>>, <<0, 16, 220, 255, 0>>, <<1, 0, 100, 240, 15, 128>>,
   <<32, 31, 0, 128, 255, 127, 1>>}

\* Only longer inputs have blocks that may be left out.
EffPatterns(n) ==
  IF n <= EFF_MIN_LEN THEN {[k \in 1..n |-> TRUE]}
  ELSE {[k \in 1..n |-> FALSE], [k \in 1..n |-> TRUE], [k \in 1..n |-> k = 3]}

NumberScenarios ==
  UNION {{[queue |-> <<Input(b, [k \in 1..Len(b) |-> 0], inv)>>, dict |-> {},
           dumb |-> FALSE, skip_det |-> FALSE, audited |-> TRUE, faults |-> 0,
           restarts |-> 0] :
            inv \in EffPatterns(Len(b))} : b \in Numbers}

-----------------------------------------------------------------------------
(* Text: A = 65, a = 97.  The checksums make tokens of 3 and 4 letters, some   *)
(* at the end of the file, some too long or too short, some differing only in *)
(* the case of a letter.                                                     *)

All(n) == [k \in 1..n |-> TRUE]
Text1 == Input(<<65, 66, 67, 68, 69, 70>>, <<1, 1, 1, 2, 2, 2>>, All(6))
Text2 == Input(<<97, 66, 67, 71, 72, 73, 74>>, <<1, 1, 1, 2, 2, 2, 2>>,
               [k \in 1..7 |-> k < 3])
Text3 == Input(<<75, 76, 77, 78, 79, 80, 81>>, <<1, 1, 1, 1, 3, 3, 3>>, All(7))
Text4 == Input(<<80, 81, 82, 83, 84, 90, 90, 90, 65, 66, 67>>,
               <<1, 1, 1, 1, 1, 0, 0, 0, 5, 5, 6>>, All(11))
Text5 == Input(<<80, 89, 82>>, <<1, 1, 2>>, All(3))

TextScenarios ==
  {[queue |-> <<Text1, Text2, Text3>>, dict |-> {}, dumb |-> FALSE,
    skip_det |-> FALSE, audited |-> FALSE, faults |-> 0, restarts |-> 0],
   [queue |-> <<Text1, Text2>>, dict |-> {<<68, 69, 70>>, <<88>>}, dumb |-> FALSE,
    skip_det |-> FALSE, audited |-> FALSE, faults |-> 0, restarts |-> 1],
   [queue |-> <<Text4>>, dict |-> {<<88, 89>>}, dumb |-> FALSE,
    skip_det |-> FALSE, audited |-> FALSE, faults |-> 0, restarts |-> 0],
   [queue |-> <<Text5>>, dict |-> {<<88>>, <<89, 88>>, <<89, 88, 87>>},
    dumb |-> FALSE, skip_det |-> FALSE, audited |-> FALSE, faults |-> 0,
    restarts |-> 0],
   [queue |-> <<Text1>>, dict |-> {<<88>>}, dumb |-> TRUE,
    skip_det |-> FALSE, audited |-> FALSE, faults |-> 0, restarts |-> 1],
   [queue |-> <<Text1, Text2>>, dict |-> {<<88>>}, dumb |-> FALSE,
    skip_det |-> TRUE, audited |-> FALSE, faults |-> 0, restarts |-> 1]}

-----------------------------------------------------------------------------
(* Faults, in a queue that is otherwise dull.                                *)

FaultScenarios ==
  {[queue |-> <<Input(<<0>>, <<0>>, All(1))>>, dict |-> {}, dumb |-> d,
    skip_det |-> FALSE, audited |-> FALSE, faults |-> 3, restarts |-> 0] :
      d \in BOOLEAN}

MCScenarios == FaultScenarios \cup NumberScenarios \cup TextScenarios
=============================================================================
