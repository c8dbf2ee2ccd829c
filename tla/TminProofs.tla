----------------------------- MODULE TminProofs -----------------------------
(***************************************************************************)
(* Proofs about minimize(): for every input file and every deterministic    *)
(* target, and whatever runs time out and whenever ^C comes, the result      *)
(* behaves as the original, and no single byte can be deleted from it.       *)
(* Only the safety part Init /\ [][Next]_vars of the specification is used.  *)
(***************************************************************************)
EXTENDS Tmin, SequenceTheorems, TLAPS

Bytes == 0..255

TMType ==
  /\ in_data \in Seq(Bytes) /\ in_len < TMIN_MAX_FILE
  /\ del_pos \in Nat /\ del_len \in Nat \ {0} /\ hangs \in Nat

\* What is held has been run and kept; the two buffers of stage #3 agree.
Kept ==
  /\ pc \notin {"dry", "fatal"} => in_data \in good
  /\ pc = "chars" => tmp_buf = in_data

\* The inputs without one of the first n bytes have been refused.
Refused(n) == \A p \in 0 .. in_len - 1 : p < n => Cut(in_data, p, 1) \in bad

\* A refusal is one: no run has timed out, no ^C.
Sure == hangs = 0 /\ ~stop_soon

\* How far the last round of deletions, the one of single bytes, has come while
\* nothing has been changed in this pass.
Progress ==
  /\ pc = "delete" /\ del_len = 1 /\ ~prev_del => del_pos > 0
  /\ pc = "delete" /\ del_len = 1 /\ Sure /\ ~changed_any => Refused(del_pos)
  /\ pc \in {"symbols", "chars"} /\ Sure /\ ~changed_any => Refused(in_len)
  /\ pc \in {"write", "exit"} => ~changed_any /\ (Sure => Refused(in_len))

\* The inductive invariant.
TMInv == TMType /\ Kept /\ Progress

-----------------------------------------------------------------------------
(* Buffers.                                                                 *)

\* Zeroing keeps the length.
LEMMA ZeroedFacts ==
  ASSUME NEW b \in Seq(Bytes), NEW S
  PROVE  Zeroed(b, S) \in Seq(Bytes) /\ Len(Zeroed(b, S)) = Len(b)
<1>1. Len(b) \in Nat /\ \A k \in 1..Len(b) : b[k] \in Bytes
  OBVIOUS
<1>2. ZERO \in Bytes
  BY DEF ZERO, Bytes
<1>3. \A k \in 1..Len(b) : (IF k \in S THEN ZERO ELSE b[k]) \in Bytes
  BY <1>1, <1>2
<1>4. Zeroed(b, S) \in [1..Len(b) -> Bytes]
  BY <1>3 DEF Zeroed
<1> QED
  BY <1>1, <1>4

\* What is left after a cut is no longer than before.
LEMMA CutFacts ==
  ASSUME NEW b \in Seq(Bytes), NEW p \in Nat, p < Len(b), NEW n \in Nat \ {0}
  PROVE  Cut(b, p, n) \in Seq(Bytes) /\ Len(Cut(b, p, n)) <= Len(b)
<1>1. SubSeq(b, 1, p) \in Seq(Bytes) /\ Len(SubSeq(b, 1, p)) = p
  BY SubSeqProperties
<1>2. /\ SubSeq(b, p + n + 1, Len(b)) \in Seq(Bytes)
      /\ Len(SubSeq(b, p + n + 1, Len(b))) <= Len(b) - p
  BY SubSeqProperties
<1> DEFINE h == SubSeq(b, 1, p)  t == SubSeq(b, p + n + 1, Len(b))
<1>3. Cut(b, p, n) = h \o t /\ Len(h) = p /\ Len(t) <= Len(b) - p
  BY <1>1, <1>2 DEF Cut
<1>4. h \in Seq(Bytes) /\ t \in Seq(Bytes)
  BY <1>1, <1>2
<1> HIDE DEF h, t
<1>5. h \o t \in Seq(Bytes) /\ Len(h \o t) = Len(h) + Len(t)
  BY <1>4, ConcatProperties
<1> QED
  BY <1>3, <1>4, <1>5

\* A single byte cut out, byte by byte.
LEMMA CutOne ==
  ASSUME NEW b \in Seq(Bytes), NEW p \in Nat, p < Len(b)
  PROVE  /\ Len(Cut(b, p, 1)) = Len(b) - 1
         /\ \A i \in 1 .. Len(b) - 1 : Cut(b, p, 1)[i] = IF i <= p THEN b[i] ELSE b[i + 1]
<1> DEFINE h == SubSeq(b, 1, p)  t == SubSeq(b, p + 2, Len(b))
<1>0. p + 1 + 1 = p + 2 /\ Len(b) \in Nat
  OBVIOUS
<1>1. h \in Seq(Bytes) /\ Len(h) = p /\ \A i \in 1..p : h[i] = b[i]
  BY SubSeqProperties
<1>2. t \in Seq(Bytes) /\ Len(t) = Len(b) - p - 1 /\ \A i \in 1..Len(t) : t[i] = b[p + 1 + i]
  BY SubSeqProperties
<1>3. Cut(b, p, 1) = h \o t
  BY <1>0 DEF Cut
<1> HIDE DEF h, t
<1>4. /\ Len(h \o t) = Len(h) + Len(t)
      /\ \A i \in 1 .. Len(h) + Len(t) :
           (h \o t)[i] = IF i <= Len(h) THEN h[i] ELSE t[i - Len(h)]
  BY <1>1, <1>2, ConcatProperties
<1>5. Len(h) + Len(t) = Len(b) - 1
  BY <1>0, <1>1, <1>2
<1>6. ASSUME NEW i \in 1 .. Len(b) - 1
      PROVE  (h \o t)[i] = IF i <= p THEN b[i] ELSE b[i + 1]
  <2>1. (h \o t)[i] = IF i <= p THEN h[i] ELSE t[i - p]
    BY <1>1, <1>4, <1>5
  <2>2. CASE i <= p
    BY <2>1, <2>2, <1>1
  <2>3. CASE ~(i <= p)
    <3>1. i - p \in 1..Len(t) /\ p + 1 + (i - p) = i + 1
      BY <2>3, <1>0, <1>2
    <3> QED
      BY <2>1, <2>3, <3>1, <1>2
  <2> QED
    BY <2>2, <2>3
<1> QED
  BY <1>3, <1>4, <1>5, <1>6

\* Of two equal neighbours it does not matter which one is deleted.
LEMMA EqualNeighbours ==
  ASSUME NEW b \in Seq(Bytes), NEW p \in Nat, 0 < p, p < Len(b),
         SubSeq(b, p, p) = SubSeq(b, p + 1, p + 1)
  PROVE  Cut(b, p, 1) = Cut(b, p - 1, 1)
<1>1. b[p] = b[p + 1]
  <2>1. ASSUME NEW q \in 1..Len(b) PROVE SubSeq(b, q, q)[1] = b[q]
    <3>1. q \in Nat /\ q <= q /\ (q - q) + 1 = 1 /\ 1 \in 1..1 /\ (q + 1) - 1 = q
      OBVIOUS
    <3> QED
      BY <3>1, SubSeqProperties
  <2>2. p \in 1..Len(b) /\ p + 1 \in 1..Len(b)
    OBVIOUS
  <2> QED
    BY <2>1, <2>2
<1> DEFINE x == Cut(b, p, 1)  y == Cut(b, p - 1, 1)
<1>2. x \in Seq(Bytes) /\ y \in Seq(Bytes)
  BY CutFacts
<1>3. /\ Len(x) = Len(b) - 1
      /\ \A i \in 1 .. Len(b) - 1 : x[i] = IF i <= p THEN b[i] ELSE b[i + 1]
  BY CutOne
<1>4. /\ Len(y) = Len(b) - 1
      /\ \A i \in 1 .. Len(b) - 1 : y[i] = IF i <= p - 1 THEN b[i] ELSE b[i + 1]
  <2>1. p - 1 \in Nat /\ p - 1 < Len(b)
    OBVIOUS
  <2> HIDE DEF y
  <2> QED
    BY <2>1, CutOne DEF y
<1> HIDE DEF x, y
<1>5. \A i \in 1..Len(x) : x[i] = y[i]
  BY <1>1, <1>3, <1>4
<1>6. x = y
  BY <1>2, <1>3, <1>4, <1>5, SeqEqual
<1> QED
  BY <1>6 DEF x, y

\* next_p2() finds its power of two.
LEMMA NextP2Facts ==
  ASSUME NEW v \in Nat, v < TMIN_MAX_FILE
  PROVE  next_p2(v) \in Nat \ {0}
<1> DEFINE P(n) == v <= n /\ (n = 1 \/ n < 2 * v) /\ \E k \in 0..24 : n = 2^k
<1>1. /\ 1 = 2^0 /\ 2 = 2^1 /\ 4 = 2^2 /\ 8 = 2^3 /\ 16 = 2^4 /\ 32 = 2^5 /\ 64 = 2^6
      /\ 128 = 2^7 /\ 256 = 2^8 /\ 512 = 2^9 /\ 1024 = 2^10 /\ 2048 = 2^11 /\ 4096 = 2^12
      /\ 8192 = 2^13 /\ 16384 = 2^14 /\ 32768 = 2^15 /\ 65536 = 2^16 /\ 131072 = 2^17
      /\ 262144 = 2^18 /\ 524288 = 2^19 /\ 1048576 = 2^20 /\ 2097152 = 2^21
      /\ 4194304 = 2^22 /\ 8388608 = 2^23 /\ 16777216 = 2^24
  OBVIOUS
<1>2. PICK m \in {1, 2, 4, 8, 16, 32, 64, 128, 256, 512, 1024, 2048, 4096, 8192, 16384,
                  32768, 65536, 131072, 262144, 524288, 1048576, 2097152, 4194304,
                  8388608, 16777216} : v <= m /\ (m = 1 \/ m < 2 * v)
  BY DEF TMIN_MAX_FILE
<1>3. \E k \in 0..24 : m = 2^k
  BY <1>1
<1>4. m \in 1 .. 2 * v + 1
  BY <1>2
<1>5. P(m)
  BY <1>2, <1>3
<1>6. next_p2(v) = CHOOSE n \in 1 .. 2 * v + 1 : P(n)
  BY DEF next_p2
<1> HIDE DEF P
<1>7. next_p2(v) \in 1 .. 2 * v + 1
  BY <1>4, <1>5, <1>6
<1> QED
  BY <1>7

\* So the first block of a pass is not empty.
LEMMA DivFacts ==
  ASSUME NEW a \in Nat, NEW d \in Nat \ {0}
  PROVE  a \div d \in Nat /\ a \div d <= a
  OBVIOUS

-----------------------------------------------------------------------------
(* A run.                                                                   *)

\* The answers are remembered; an input is kept only if it was run and answered
\* for, and a refusal without timeout and ^C is the target's.
LEMMA RunFacts ==
  ASSUME NEW t, NEW res \in BOOLEAN, run_target(t, res), hangs \in Nat
  PROVE  /\ good \subseteq good' /\ bad \subseteq bad' /\ hangs' \in Nat
         /\ res => t \in good'
         /\ ~res /\ Sure' => t \in bad'
         /\ Sure' => Sure
         /\ stop_soon' = stop_soon
<1>1. CASE Answered(t, res)
  BY <1>1 DEF run_target, Answered, Sure
<1>2. CASE TimedOut(res)
  BY <1>2 DEF run_target, TimedOut, Sure
<1>3. CASE NoServer(res)
  BY <1>3 DEF run_target, NoServer, Sure, runVars
<1> QED
  BY <1>1, <1>2, <1>3 DEF run_target

-----------------------------------------------------------------------------
(* The steps.                                                               *)

\* A file is given, nothing has been run.
LEMMA TminStart == ASSUME Init PROVE TMInv
<1>1. in_data \in Seq(Bytes) /\ Len(in_data) \in 1 .. TMIN_MAX_FILE - 1
  BY TminAssumption DEF Init, Bytes
<1>2. TMIN_MAX_FILE \in Nat
  BY DEF TMIN_MAX_FILE
<1>3. in_len < TMIN_MAX_FILE
  BY <1>1, <1>2 DEF in_len
<1>4. TMType
  BY <1>1, <1>3 DEF Init, TMType
<1> QED
  BY <1>4 DEF Init, TMInv, Kept, Progress

\* A pass starts with blocks of some size, at the beginning, and has not changed
\* anything yet.
LEMMA PassStarts ==
  ASSUME TMInv, NextPass(in_len), UNCHANGED <<in_data, runVars, stop_soon>>, in_data \in good
  PROVE  TMInv'
<1>1. in_len \in Nat /\ in_len < TMIN_MAX_FILE /\ TRIM_START_STEPS \in Nat \ {0}
  BY TminAssumption DEF TMInv, TMType, in_len
<1>2. in_len \div TRIM_START_STEPS \in Nat /\ in_len \div TRIM_START_STEPS <= in_len
  BY <1>1, DivFacts
<1>3. in_len \div TRIM_START_STEPS < TMIN_MAX_FILE
  BY <1>1, <1>2 DEF TMIN_MAX_FILE
<1>4. del_len' \in Nat \ {0}
  BY <1>2, <1>3, NextP2Facts DEF NextPass
<1>5. TMType'
  BY <1>4 DEF NextPass, runVars, TMInv, TMType, in_len
<1>6. Kept'
  BY DEF NextPass, runVars, Kept
<1>7. Progress'
  BY DEF NextPass, Progress, Refused
<1> QED
  BY <1>5, <1>6, <1>7 DEF TMInv

\* The block that is skipped, or refused, is the one at del_pos.
LEMMA DeleteStep == ASSUME TMInv, DeleteBlock PROVE TMInv'
<1> USE DEF in_len
<1>0. /\ pc = "delete" /\ pc' = "delete" /\ del_len' = del_len /\ tmp_buf' = tmp_buf
      /\ in_data \in Seq(Bytes) /\ in_data \in good /\ Len(in_data) < TMIN_MAX_FILE
      /\ del_pos \in Nat /\ del_pos < Len(in_data) /\ del_len \in Nat \ {0} /\ hangs \in Nat
  BY DEF TMInv, TMType, Kept, DeleteBlock
<1>1. CASE SameAsPrevious
  <2>0. /\ del_pos' = del_pos + del_len
        /\ UNCHANGED <<in_data, prev_del, changed_any, good, bad, hangs, stop_soon>>
    BY <1>1 DEF DeleteBlock, runVars
  <2>1. TMType'
    BY <1>0, <2>0 DEF TMType, TMInv
  <2>2. Kept'
    BY <1>0, <2>0 DEF Kept
  <2>3. ASSUME del_len = 1, Sure, ~changed_any
        PROVE  Refused(del_pos + 1)
    <3>1. del_pos > 0 /\ Refused(del_pos)
      BY <1>0, <1>1, <2>3 DEF TMInv, Progress, SameAsPrevious
    <3>2. SubSeq(in_data, del_pos, del_pos) = SubSeq(in_data, del_pos + 1, del_pos + 1)
      <4>1. del_pos - del_len + 1 = del_pos
        BY <1>0, <2>3
      <4> QED
        BY <1>1, <2>3, <4>1 DEF SameAsPrevious
    <3>3. Cut(in_data, del_pos, 1) = Cut(in_data, del_pos - 1, 1)
      BY <1>0, <3>1, <3>2, EqualNeighbours
    <3>4. Cut(in_data, del_pos - 1, 1) \in bad
      BY <1>0, <3>1 DEF Refused
    <3>5. ASSUME NEW p \in 0 .. Len(in_data) - 1, p < del_pos + 1
          PROVE  Cut(in_data, p, 1) \in bad
      <4>1. CASE p = del_pos
        BY <4>1, <3>3, <3>4
      <4>2. CASE p < del_pos
        BY <4>2, <3>1, <3>5 DEF Refused
      <4> QED
        BY <4>1, <4>2, <3>5, <1>0
    <3> QED
      BY <3>5 DEF Refused
  <2>4. Progress'
    <3>1. ~prev_del /\ ~prev_del' /\ del_pos' > 0
      BY <1>0, <1>1, <2>0 DEF SameAsPrevious
    <3>2. ASSUME del_len' = 1, Sure', ~changed_any'
          PROVE  Refused(del_pos)'
      <4>1. del_len = 1 /\ Sure /\ ~changed_any /\ del_pos' = del_pos + 1
        BY <1>0, <2>0, <3>2 DEF Sure
      <4> QED
        BY <2>0, <2>3, <4>1 DEF Refused
    <3> QED
      BY <1>0, <3>1, <3>2 DEF Progress
  <2> QED
    BY <2>1, <2>2, <2>4 DEF TMInv
<1>2. CASE ~SameAsPrevious
  <2> DEFINE t == Cut(in_data, del_pos, del_len)
  <2>1. PICK res \in BOOLEAN :
          /\ run_target(t, res)
          /\ in_data' = IF res THEN t ELSE in_data
          /\ prev_del' = res
          /\ del_pos' = IF res THEN del_pos ELSE del_pos + del_len
          /\ changed_any' = (changed_any \/ res)
    BY <1>2 DEF DeleteBlock
  <2>2. t \in Seq(Bytes) /\ Len(t) <= Len(in_data)
    BY <1>0, CutFacts
  <2> HIDE DEF t
  <2>3. /\ good \subseteq good' /\ bad \subseteq bad' /\ hangs' \in Nat
        /\ res => t \in good'
        /\ ~res /\ Sure' => t \in bad'
        /\ Sure' => Sure
        /\ stop_soon' = stop_soon
    BY <1>0, <2>1, RunFacts
  <2>4. ~changed_any' => ~changed_any /\ ~res
    BY <2>1, Zenon
  <2>5. CASE res
    <3>1. in_data' = t /\ del_pos' = del_pos /\ prev_del' /\ changed_any'
      BY <2>1, <2>5
    <3> QED
      BY <1>0, <2>2, <2>3, <2>5, <3>1 DEF TMInv, TMType, Kept, Progress, TMIN_MAX_FILE
  <2>6. CASE ~res
    <3>1. in_data' = in_data /\ del_pos' = del_pos + del_len /\ ~prev_del'
      BY <2>1, <2>6
    <3>2. TMType' /\ Kept'
      BY <1>0, <2>3, <3>1 DEF TMType, Kept
    <3>3. ASSUME del_len' = 1, Sure', ~changed_any'
          PROVE  Refused(del_pos)'
      <4>1. del_len = 1 /\ Sure /\ ~changed_any /\ Refused(del_pos)
        BY <1>0, <2>3, <2>4, <3>3 DEF TMInv, Progress
      <4>2. Cut(in_data, del_pos, 1) \in bad'
        BY <2>3, <2>6, <3>3, <4>1 DEF t
      <4>3. ASSUME NEW p \in 0 .. Len(in_data) - 1, p < del_pos + 1
            PROVE  Cut(in_data, p, 1) \in bad'
        <5>1. CASE p = del_pos
          BY <5>1, <4>2
        <5>2. CASE p < del_pos
          BY <5>2, <4>1, <4>3, <2>3 DEF Refused
        <5> QED
          BY <5>1, <5>2, <4>3, <1>0
      <4> QED
        BY <3>1, <4>1, <4>3 DEF Refused
    <3>4. Progress'
      BY <1>0, <3>1, <3>3 DEF Progress
    <3> QED
      BY <3>2, <3>4 DEF TMInv
  <2> QED
    BY <2>1, <2>5, <2>6
<1> QED
  BY <1>1, <1>2

\* A step that runs a candidate t of the length of the input, keeps it if the
\* run says so, and asks for another pass then.
LEMMA ReplaceStep ==
  ASSUME TMInv, NEW t \in Seq(Bytes), Len(t) = in_len, NEW res \in BOOLEAN,
         run_target(t, res), in_data' = IF res THEN t ELSE in_data,
         pc \in {"normalize", "symbols", "chars"}, UNCHANGED <<pc, del_len, del_pos>>,
         pc = "chars" => tmp_buf' = in_data',
         pc # "normalize" => changed_any' = (changed_any \/ res)
  PROVE  TMInv'
<1>1. /\ good \subseteq good' /\ bad \subseteq bad' /\ hangs' \in Nat
      /\ res => t \in good'
      /\ Sure' => Sure
  BY RunFacts DEF TMInv, TMType
<1>2. TMType'
  BY <1>1 DEF TMInv, TMType, in_len
<1>3. Kept'
  BY <1>1 DEF TMInv, Kept
<1>4. ASSUME pc # "normalize", Sure', ~changed_any'
      PROVE  Refused(in_len)'
  <2>1. ~changed_any /\ ~res
    <3>1. changed_any' = (changed_any \/ res)
      BY <1>4
    <3> QED
      BY <1>4, <3>1, Zenon
  <2>2. Refused(in_len)
    BY <1>1, <1>4, <2>1 DEF TMInv, Progress
  <2>3. in_data' = in_data
    BY <2>1
  <2> QED
    BY <1>1, <2>2, <2>3 DEF Refused, in_len
<1>5. Progress'
  BY <1>4 DEF Progress
<1> QED
  BY <1>2, <1>3, <1>5 DEF TMInv

\* A step that runs nothing and changes neither the input nor changed_any, and
\* goes on to a place that promises no more.
LEMMA QuietStep ==
  ASSUME TMInv, UNCHANGED <<in_data, del_len, del_pos, prev_del, changed_any, good, bad, hangs>>,
         stop_soon => stop_soon',
         \/ pc' = pc /\ tmp_buf' = tmp_buf
         \/ pc' = "fatal"
         \/ pc = "symbols" /\ pc' = "chars" /\ tmp_buf' = in_data
         \/ pc = "chars" /\ pc' = "write" /\ ~changed_any
         \/ pc = "write" /\ pc' = "exit"
  PROVE  TMInv'
<1>1. Sure' => Sure
  BY DEF Sure
<1>2. \A n : Refused(n) => Refused(n)'
  BY DEF Refused, in_len
<1>3. Refused(in_len) => Refused(in_len)'
  BY <1>2 DEF in_len
<1>4. Refused(del_pos) => Refused(del_pos)'
  BY <1>2
<1>5. TMType' /\ Kept'
  BY DEF TMInv, TMType, Kept, in_len
<1>6. Progress'
  BY <1>1, <1>3, <1>4 DEF TMInv, Progress
<1> QED
  BY <1>5, <1>6 DEF TMInv

\* At the end of a round over the input all of it has been tried.
LEMMA RoundEnds == ASSUME TMInv, DeleteEnd PROVE TMInv'
<1>0. /\ pc = "delete" /\ del_pos \in Nat /\ in_len \in Nat /\ del_pos >= in_len
      /\ del_len \in Nat \ {0} /\ in_data \in good
      /\ UNCHANGED <<in_data, good, bad, hangs, tmp_buf, changed_any, stop_soon>>
  BY DEF DeleteEnd, TMInv, TMType, Kept, runVars, passVars, in_len
<1>1. CASE del_len > 1 /\ in_len >= 1
  <2>1. pc' = pc /\ del_len' = del_len \div 2 /\ del_pos' = 0 /\ prev_del'
    BY <1>1 DEF DeleteEnd
  <2>2. del_len' \in Nat \ {0}
    BY <1>0, <1>1, <2>1
  <2> QED
    BY <1>0, <2>1, <2>2 DEF TMInv, TMType, Kept, Progress, Refused, in_len
<1>2. CASE ~(del_len > 1 /\ in_len >= 1)
  <2>1. pc' = AfterDeletions /\ UNCHANGED <<del_len, del_pos, prev_del>>
    BY <1>2 DEF DeleteEnd
  <2>2. pc' \in {"write", "symbols"} /\ (pc' = "write" => ~changed_any)
    BY <2>1 DEF AfterDeletions
  <2>3. TMType' /\ Kept'
    BY <1>0, <2>1, <2>2 DEF TMInv, TMType, Kept, in_len
  <2>4. ASSUME Sure, ~changed_any PROVE Refused(in_len)
    <3>1. CASE in_len = 0
      BY <3>1 DEF Refused
    <3>2. CASE in_len # 0
      <4>1. del_len = 1 /\ Refused(del_pos)
        BY <1>0, <1>2, <2>4, <3>2 DEF TMInv, Progress
      <4> QED
        BY <1>0, <4>1 DEF Refused
    <3> QED
      BY <3>1, <3>2
  <2>5. Sure' = Sure /\ Refused(in_len)' = Refused(in_len)
    BY <1>0 DEF Sure, Refused, in_len
  <2>6. Progress'
    BY <1>0, <2>2, <2>4, <2>5 DEF Progress
  <2> QED
    BY <2>3, <2>6 DEF TMInv
<1> QED
  BY <1>1, <1>2

\* Every step preserves the invariant.
LEMMA TminStep == ASSUME TMInv, [Next]_vars PROVE TMInv'
<1>0. in_data \in Seq(Bytes) /\ in_len = Len(in_data)
  BY DEF TMInv, TMType, in_len
<1>1. CASE DryRun
  <2>1. CASE pc' = "normalize"
    <3>1. /\ pc = "dry" /\ UNCHANGED <<in_data, loopVars, passVars, stop_soon>>
          /\ good' = good \cup {in_data} /\ UNCHANGED <<bad, hangs>>
      BY <1>1, <2>1 DEF DryRun, Answered
    <3> QED
      BY <2>1, <3>1 DEF TMInv, TMType, Kept, Progress, loopVars, in_len
  <2>2. CASE pc' = "fatal"
    <3>1. UNCHANGED <<in_data, loopVars, passVars, stop_soon>> /\ UNCHANGED runVars
      BY <1>1, <2>2 DEF DryRun
    <3> QED
      BY <2>2, <3>1, QuietStep DEF loopVars, passVars, runVars
  <2> QED
    BY <1>1, <2>1, <2>2 DEF DryRun
<1>2. CASE Aborted
  BY <1>2, QuietStep DEF Aborted, loopVars, passVars, runVars
<1>3. CASE NormalizeBlock
  <2> DEFINE t == Zeroed(in_data, set_pos + 1 .. Min({set_pos + set_len(in_len), in_len}))
  <2>1. CASE t = in_data
    BY <1>3, <2>1, QuietStep DEF NormalizeBlock, passVars, runVars
  <2>2. CASE t # in_data
    <3>1. PICK res \in BOOLEAN : run_target(t, res) /\ in_data' = IF res THEN t ELSE in_data
      BY <1>3, <2>2 DEF NormalizeBlock
    <3>2. pc = "normalize" /\ UNCHANGED <<pc, del_len, del_pos>>
      BY <1>3 DEF NormalizeBlock
    <3>3. t \in Seq(Bytes) /\ Len(t) = in_len
      BY <1>0, ZeroedFacts
    <3> HIDE DEF t
    <3> QED
      BY <3>1, <3>2, <3>3, ReplaceStep
  <2> QED
    BY <2>1, <2>2
<1>4. CASE NormalizeEnd
  BY <1>4, PassStarts DEF NormalizeEnd, TMInv, Kept
<1>5. CASE DeleteBlock
  BY <1>5, DeleteStep
<1>6. CASE DeleteEnd
  BY <1>6, RoundEnds
<1>7. CASE ReplaceSymbol
  <2> DEFINE t == Zeroed(in_data, {k \in 1..in_len : in_data[k] = NextSym})
  <2>1. PICK res \in BOOLEAN : /\ run_target(t, res)
                               /\ in_data' = IF res THEN t ELSE in_data
                               /\ changed_any' = (changed_any \/ res)
    BY <1>7 DEF ReplaceSymbol
  <2>2. pc = "symbols" /\ UNCHANGED <<pc, del_len, del_pos>>
    BY <1>7 DEF ReplaceSymbol
  <2>3. t \in Seq(Bytes) /\ Len(t) = in_len
    BY <1>0, ZeroedFacts
  <2> HIDE DEF t
  <2> QED
    BY <2>1, <2>2, <2>3, ReplaceStep
<1>8. CASE SymbolsEnd
  BY <1>8, QuietStep DEF SymbolsEnd, passVars, runVars
<1>9. CASE ReplaceChar
  <2> DEFINE t == Zeroed(tmp_buf, {pos + 1})
  <2>0. pc = "chars" /\ tmp_buf = in_data /\ UNCHANGED <<pc, del_len, del_pos, prev_del>>
    BY <1>9 DEF ReplaceChar, TMInv, Kept
  <2>1. CASE t = tmp_buf
    BY <1>9, <2>0, <2>1, QuietStep DEF ReplaceChar, runVars
  <2>2. CASE t # tmp_buf
    <3>1. PICK res \in BOOLEAN : /\ run_target(t, res)
                                 /\ tmp_buf' = IF res THEN t ELSE tmp_buf
                                 /\ in_data' = IF res THEN Zeroed(in_data, {pos + 1}) ELSE in_data
                                 /\ changed_any' = (changed_any \/ res)
      BY <1>9, <2>2 DEF ReplaceChar
    <3>2. in_data' = IF res THEN t ELSE in_data
      BY <2>0, <3>1
    <3>3. t \in Seq(Bytes) /\ Len(t) = in_len
      BY <1>0, <2>0, ZeroedFacts
    <3> HIDE DEF t
    <3>4. tmp_buf' = in_data'
      BY <2>0, <3>1, <3>2
    <3> QED
      BY <2>0, <3>1, <3>2, <3>3, <3>4, ReplaceStep
  <2> QED
    BY <2>1, <2>2
<1>10. CASE CharsEnd
  <2>1. CASE changed_any
    BY <1>10, <2>1, PassStarts DEF CharsEnd, TMInv, Kept
  <2>2. CASE ~changed_any
    BY <1>10, <2>2, QuietStep DEF CharsEnd, passVars, runVars
  <2> QED
    BY <2>1, <2>2
<1>11. CASE WriteOutput
  BY <1>11, QuietStep DEF WriteOutput, loopVars, passVars, runVars
<1>12. CASE CtrlC
  BY <1>12, QuietStep DEF CtrlC, loopVars, passVars, runVars
<1>13. CASE UNCHANGED vars
  BY <1>13, QuietStep DEF vars, loopVars, passVars, runVars
<1> QED
  BY <1>1, <1>2, <1>3, <1>4, <1>5, <1>6, <1>7, <1>8, <1>9, <1>10, <1>11, <1>12, <1>13
  DEF Next, Step

-----------------------------------------------------------------------------
(* Theorems.                                                                *)

\* The invariant holds of every behaviour of minimize().
THEOREM TminInvariant == Spec => []TMInv
  BY TminStart, TminStep, PTL DEF Spec

\* What afl-tmin holds, and finally writes, is an input that was run and kept,
\* whatever its stages patch in in_data and tmp_buf and whichever runs fail.
THEOREM ResultIsKept == Spec => []ResultReproduces
<1>1. TMInv => ResultReproduces
  BY DEF TMInv, Kept, ResultReproduces
<1> QED
  BY <1>1, TminInvariant, PTL

\* When minimize() ends without timeout and ^C, every input with one character
\* less has been refused, the skipped ones of a run of equal characters included.
THEOREM ResultIsMinimal == Spec => []DeletionMinimal
<1>1. TMInv => DeletionMinimal
  BY DEF TMInv, TMType, Progress, Refused, Sure, DeletionMinimal, in_len
<1> QED
  BY <1>1, TminInvariant, PTL
=============================================================================
