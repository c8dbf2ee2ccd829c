------------------------------ MODULE DetStages ------------------------------
(***************************************************************************)
(* The arithmetic of fuzz_one()'s deterministic stages: which test cases   *)
(* each stage derives from an input, and the filters that leave out what an *)
(* earlier stage has tried (could_be_bitflip, could_be_arith and           *)
(* could_be_interest in afl-fuzz.c).                                       *)
(*                                                                         *)
(* A buffer is a sequence of bytes; positions i count from 0, as in the     *)
(* code.  A 16- or 32-bit word is the sequence of its bytes in memory       *)
(* order, so the host's (little-endian) value has its low byte first and    *)
(* SWAP16 and SWAP32 are Reverse.                                          *)
(***************************************************************************)
EXTENDS Integers, Sequences, SequencesExt, FiniteSets, FiniteSetsExt

CONSTANTS
  ARITH_MAX,       \* largest number added or subtracted
  EFF_MAP_SCALE2,  \* an effector block has 2^EFF_MAP_SCALE2 bytes
  EFF_MIN_LEN,     \* shorter inputs are effective everywhere
  EFF_MAX_PERC     \* denser effector maps are filled up

ASSUME StageAssumption ==
  /\ ARITH_MAX \in 1..127 /\ EFF_MAP_SCALE2 \in Nat
  /\ EFF_MIN_LEN \in Nat /\ EFF_MAX_PERC \in 0..100

Byte == 0..255
Word(b, i, n) == SubSeq(b, i + 1, i + n)
Put(b, i, w) == [k \in 1..Len(b) |->
                   IF k \in i + 1 .. i + Len(w) THEN w[k - i] ELSE b[k]]

\* The n bytes of an integer constant, 1, 2 or 4 of them.
Encode(v, n) == [k \in 1..n |-> (v \div <<1, 256, 65536, 16777216>>[k]) % 256]

INTERESTING_8 == {-128, -1, 0, 1, 16, 32, 64, 100, 127}
INTERESTING_16 == INTERESTING_8 \cup
  {-32768, -129, 128, 255, 256, 512, 1000, 1024, 4096, 32767}
INTERESTING_32 == INTERESTING_16 \cup
  {-2147483647 - 1, -100663046, -32769, 32768, 65535, 65536, 100663045,
   2147483647}

interesting == [n \in {1, 2, 4} |->
  {Encode(v, n) : v \in CASE n = 1 -> INTERESTING_8
                          [] n = 2 -> INTERESTING_16
                          [] n = 4 -> INTERESTING_32}]

-----------------------------------------------------------------------------
(* Bit flips.                                                               *)

Mask(j) == <<1, 2, 4, 8, 16, 32, 64, 128>>[j + 1]
Bit(x, j) == (x \div Mask(j)) % 2

\* x with the bits of S flipped.
FlipByte(x, S) ==
  LET d(j) == IF j \notin S THEN 0 ELSE IF Bit(x, j) = 1 THEN -Mask(j) ELSE Mask(j)
  IN  x + d(0) + d(1) + d(2) + d(3) + d(4) + d(5) + d(6) + d(7)

\* FLIP_BIT on bits p .. p + n - 1: bit 0 of the walk is the top bit of byte 0.
FlipBits(b, p, n) ==
  [k \in 1..Len(b) |->
     FlipByte(b[k], {j \in 0..7 : 8 * k - 1 - j \in p .. p + n - 1})]

WalkingBits(b, n) == {FlipBits(b, p, n) : p \in 0 .. 8 * Len(b) - n}

Invert(w) == [k \in 1..Len(w) |-> 255 - w[k]]

-----------------------------------------------------------------------------
(* The effector map: which blocks of the input change the execution path.   *)

EFF_APOS(p) == p \div 2^EFF_MAP_SCALE2
EFF_ALEN(l) == EFF_APOS(l) + (IF l % 2^EFF_MAP_SCALE2 # 0 THEN 1 ELSE 0)
EFF_SPAN_ALEN(p, l) == EFF_APOS(p + l - 1) - EFF_APOS(p) + 1

\* The map after the walking-byte stage.  changed[k]: the checksum differed
\* when byte k was inverted; in dumb mode, and for short inputs, it counts as
\* different without a look.
EffMap(b, changed, dumb) ==
  LET l == Len(b)
      Blocks == 0 .. EFF_ALEN(l) - 1
      Marked == {0, EFF_APOS(l - 1)} \cup
                {EFF_APOS(k) : k \in {k \in 0 .. l - 1 :
                                        changed[k + 1] \/ dumb \/ l < EFF_MIN_LEN}}
      eff_cnt == Cardinality(Marked)
      Fill == eff_cnt # EFF_ALEN(l) /\ (eff_cnt * 100) \div EFF_ALEN(l) > EFF_MAX_PERC
  IN  [k \in Blocks |-> k \in Marked \/ Fill]

\* Positions of n-byte words with at least one effective byte; none when the
\* input is shorter (the goto skip_bitflip, skip_arith and skip_interest).
Positions(b, n, eff) ==
  {i \in 0 .. Len(b) - n : \E k \in i .. i + n - 1 : eff[EFF_APOS(k)]}

\* memchr(eff_map + EFF_APOS(i), 1, EFF_SPAN_ALEN(i, n)).
SpanEffective(i, n, eff) ==
  \E k \in EFF_APOS(i) .. EFF_APOS(i) + EFF_SPAN_ALEN(i, n) - 1 : eff[k]

-----------------------------------------------------------------------------
(* The filters.                                                             *)

\* The bits in which two words differ, numbered from the low end.
DiffBits(v, w) ==
  UNION {{8 * (k - 1) + j : j \in {j \in 0..7 : Bit(v[k], j) # Bit(w[k], j)}} :
           k \in {k \in 1..Len(v) : v[k] # w[k]}}

\* xor_val = v ^ w.
could_be_bitflip(v, w) ==
  LET D == DiffBits(v, w)
  IN  \/ D = {}
      \/ \E sh \in D, n \in {1, 2, 4} : D = sh .. sh + n - 1
      \/ \E sh \in D, n \in {8, 16, 32} : sh % 8 = 0 /\ D = sh .. sh + n - 1

\* w + j in the width of w, for any sign of j.
Plus(w, j) ==
  LET c2 == (w[1] + j) \div 256      \* the carries
      c3 == (w[2] + c2) \div 256
      c4 == (w[3] + c3) \div 256
      carry(k) == CASE k = 1 -> j [] k = 2 -> c2 [] k = 3 -> c3 [] k = 4 -> c4
  IN  [k \in 1..Len(w) |-> (w[k] + carry(k)) % 256]

\* (uN)(v - w) <= ARITH_MAX || (uN)(w - v) <= ARITH_MAX.
InArithRange(v, w) ==
  \E j \in -ARITH_MAX .. ARITH_MAX : Plus(v, j) = w

\* Exactly one byte, 16-bit half or 32-bit word differs, and by a sum that the
\* stage of that width has tried.
could_be_arith(v, w, blen) ==
  \/ v = w
  \/ \E n \in {1, 2, 4} :
       /\ n <= blen
       /\ LET diffs == {k \in 0 .. blen \div n - 1 : Word(v, n * k, n) # Word(w, n * k, n)}
          IN  /\ Cardinality(diffs) = 1
              /\ \E k \in diffs :
                   LET ov == Word(v, n * k, n)
                       nv == Word(w, n * k, n)
                   IN  InArithRange(ov, nv) \/ InArithRange(Reverse(ov), Reverse(nv))

\* Mutant: big-endian 16-bit values count as tried when only the little-endian
\* ones have been.
could_be_interest_Eager(v, w, blen, check_le) ==
  \/ v = w
  \/ \E i \in 0 .. blen - 1, x \in interesting[1] : w = Put(v, i, x)
  \/ \E i \in 0 .. blen - 2, x \in interesting[2] :
       w = Put(v, i, x) \/ w = Put(v, i, Reverse(x))
  \/ blen = 4 /\ check_le /\ w \in interesting[4]

could_be_interest(v, w, blen, check_le) ==
  \/ v = w
  \/ \E i \in 0 .. blen - 1, x \in interesting[1] : w = Put(v, i, x)
  \/ /\ blen > 2 \/ check_le
     /\ \E i \in 0 .. blen - 2, x \in interesting[2] :
          w = Put(v, i, x) \/ (blen > 2 /\ w = Put(v, i, Reverse(x)))
  \/ blen = 4 /\ check_le /\ w \in interesting[4]

-----------------------------------------------------------------------------
(* The values the stages put in the place of a word w.                      *)

\* Adding j carries out of the low half, so that the stage of half the width
\* cannot have done it; a byte has no halves.
Carries(w, j) ==
  \/ Len(w) = 1
  \/ LET half == Len(w) \div 2
         low == IF half = 1 THEN w[1] ELSE w[1] + 256 * w[2]
     IN  low + j \notin 0 .. (IF half = 1 THEN 255 ELSE 65535)

Addends == (-ARITH_MAX .. ARITH_MAX) \ {0}

\* Little endian, and big endian with the bytes swapped around the sum.
ArithValues(w) ==
  LET le == {Plus(w, j) : j \in {j \in Addends : Carries(w, j)}}
      be == {Reverse(Plus(Reverse(w), j)) :
               j \in {j \in Addends : Carries(Reverse(w), j)}}
  IN  {v \in le \cup be : ~could_be_bitflip(w, v)}

InterestValues(w) ==
  LET n == Len(w)
      Fresh(v, check_le) ==
        /\ ~could_be_bitflip(w, v)
        /\ ~could_be_arith(w, v, n)
        /\ n = 1 \/ ~could_be_interest(w, v, n, check_le)
      be == {Reverse(v) : v \in {v \in interesting[n] : v # Reverse(v)}}
  IN  {v \in interesting[n] : Fresh(v, FALSE)} \cup {v \in be : Fresh(v, TRUE)}

\* The test cases of the stages of width n.
FlipTests(b, n, eff) ==
  {Put(b, i, Invert(Word(b, i, n))) : i \in Positions(b, n, eff)}
ArithTests(b, n, eff) ==
  UNION {{Put(b, i, v) : v \in ArithValues(Word(b, i, n))} : i \in Positions(b, n, eff)}
InterestTests(b, n, eff) ==
  UNION {{Put(b, i, v) : v \in InterestValues(Word(b, i, n))} : i \in Positions(b, n, eff)}

-----------------------------------------------------------------------------
(* The reference: what the stages would try without filters.                *)

AllSums(w) == {Plus(w, j) : j \in Addends} \cup {Reverse(Plus(Reverse(w), j)) : j \in Addends}
AllValues(w) == {Invert(w)} \cup AllSums(w) \cup interesting[Len(w)] \cup
                {Reverse(v) : v \in interesting[Len(w)]}
AllFlips(b) == UNION {WalkingBits(b, n) : n \in {1, 2, 4}}
AllWords(b) == UNION {UNION {{Put(b, i, v) : v \in AllValues(Word(b, i, n))} :
                               i \in 0 .. Len(b) - n} : n \in {1, 2, 4}}
Wanted(b) == (AllFlips(b) \cup AllWords(b)) \ {b}

\* t changes only bytes of blocks that the effector map excludes.
OnlyIneffective(b, t, eff) ==
  \A k \in 1..Len(b) : b[k] # t[k] => ~eff[EFF_APOS(k - 1)]

\* t differs in 2 or 4 bits that are neighbours in the value of a word but not
\* in the walk of the bit flips, which numbers the bits of a byte from the top.
Straddles(b, t) ==
  LET D == DiffBits(b, t)
  IN  \E sh \in D, n \in {2, 4} : D = sh .. sh + n - 1 /\ (sh % 8) + n > 8
=============================================================================
