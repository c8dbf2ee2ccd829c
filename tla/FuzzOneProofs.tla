--------------------------- MODULE FuzzOneProofs ---------------------------
(***************************************************************************)
(* Proofs about fuzz_one(): for every queue, dictionary and target the      *)
(* table of automatic tokens stays within its limits and holds no token     *)
(* twice and evicts the least used, the strings offered to it are exactly   *)
(* the runs of bytes with one effect, the tokens survive kills and restarts, *)
(* and crashes and hangs are kept exactly if they are unique; the stages    *)
(* that overwrite with tokens run every overlay and nothing else; and the   *)
(* filters of the deterministic stages leave out nothing that is not run,   *)
(* so that an entry marked as done has seen all it should have.             *)
(***************************************************************************)
EXTENDS FuzzOne, FiniteSetTheorems, TLAPS

PlainStages == {"load", "start", "pick", "havoc", "stop", "exit"}

\* Where the program is.
Place ==
  /\ sc \in Scenarios
  /\ stage \in Range(Stages) \cup PlainStages
  /\ cur \in Nat
  /\ stage = "flip1" => cur \in 1..Len(sc.queue) /\ pos \in 0 .. len - 1

\* The array a_collect.
Collecting ==
  /\ a_collect \in Seq(Byte) /\ a_len \in Nat
  /\ Len(a_collect) = Min({a_len, MAX_AUTO_EXTRA})

\* What maybe_add_auto() takes, apart from the tokens of the user.
Good(t) == IsToken(t) /\ ~Dull(t)

\* A table of tokens without doubles.
Row == [tok : Seq(Byte), hit_cnt : Nat]
Table(T) ==
  /\ T \in Seq(Row) /\ Len(T) <= MAX_AUTO_EXTRAS
  /\ \A k \in 1..Len(T) :
       /\ Good(T[k].tok)
       /\ \A i \in 1..Len(T) : SameToken(T[i].tok, T[k].tok) => i = k

\* The contents of auto_N files: a token, or nothing after a kill.
TokenFiles(F) ==
  /\ F \in Seq(Seq(Byte)) /\ Len(F) <= USE_AUTO_EXTRAS
  /\ \A k \in 1..Len(F) : F[k] = <<>> \/ Good(F[k])

Tables == Table(a_extras) /\ TokenFiles(files) /\ TokenFiles(in_files)

\* What save_auto() has written, and that it has still to write.
Saved ==
  /\ auto_changed \in BOOLEAN /\ save_open \in BOOLEAN
  /\ save_i \in 0..UsedCount(a_extras) /\ Len(files) <= UsedCount(a_extras)
  /\ save_i # 0 =>
       /\ ~auto_changed
       /\ Len(files) >= save_i - 1 /\ (save_open => Len(files) >= save_i)
       /\ \A k \in 1 .. save_i - 1 : files[k] = a_extras[k].tok
  /\ save_i = 0 /\ ~auto_changed => files = UsedTokens
  /\ auto_changed => a_extras # <<>>
  /\ stage \in {"load", "start"} => save_i = 0

Holds(T, t) == \E j \in 1..Len(T) : SameToken(T[j].tok, t)

\* How far load_auto() has come: the table has room for all of the files.
Loaded ==
  stage = "load" =>
    /\ extras = <<>>
    /\ load_i \in 1 .. Min({USE_AUTO_EXTRAS, Len(in_files)}) + 1
    /\ Len(a_extras) < load_i
    /\ \A k \in 1 .. load_i - 1 : in_files[k] # <<>> => Holds(a_extras, in_files[k])

\* The virgin maps hold what no fault so far has shown.
Triaged ==
  /\ virgin \in [Kinds -> [Tuples -> SUBSET Classes]]
  /\ unique \in [Kinds -> Nat] /\ \A kind \in Kinds : unique[kind] <= Keep(kind)
  /\ met \in [Kinds -> Seq([hit : SUBSET Tuples, kept : BOOLEAN])]
  /\ ~sc.dumb => \A kind \in Kinds, b \in Tuples :
       /\ 1 \in virgin[kind][b] <=> \A j \in 1..Len(met[kind]) : b \in met[kind][j].hit
       /\ 128 \in virgin[kind][b] <=> \A j \in 1..Len(met[kind]) : b \notin met[kind][j].hit

\* The inductive invariant.
FInv == Place /\ Collecting /\ Tables /\ Saved /\ Loaded /\ Triaged /\ FaultsKeptExactly

-----------------------------------------------------------------------------
(* Minima, permutations and sorting.                                        *)

\* The smaller of two numbers.
LEMMA MinOfTwo ==
  ASSUME NEW a \in Int, NEW b \in Int
  PROVE  Min({a, b}) = IF a <= b THEN a ELSE b
<1> DEFINE m == IF a <= b THEN a ELSE b
<1>1. m \in {a, b} /\ \A y \in {a, b} : m <= y
  OBVIOUS
<1>2. \A x \in {a, b} : (\A y \in {a, b} : x <= y) => x = m
  OBVIOUS
<1>3. Min({a, b}) = CHOOSE x \in {a, b} : \A y \in {a, b} : x <= y
  BY DEF Min
<1> HIDE DEF m
<1>4. Min({a, b}) \in {a, b} /\ \A y \in {a, b} : Min({a, b}) <= y
  BY <1>1, <1>3
<1>5. Min({a, b}) = m
  BY <1>2, <1>4
<1> QED
  BY <1>5 DEF m

\* The constants are numbers.
LEMMA Limits ==
  /\ MIN_AUTO_EXTRA \in Nat \ {0} /\ MAX_AUTO_EXTRA \in Nat \ {0}
  /\ USE_AUTO_EXTRAS \in Nat \ {0} /\ MAX_AUTO_EXTRAS \in Nat \ {0}
  /\ 1 < MIN_AUTO_EXTRA /\ MIN_AUTO_EXTRA <= MAX_AUTO_EXTRA /\ 2 * USE_AUTO_EXTRAS <= MAX_AUTO_EXTRAS
  BY ExtrasAssumption

\* The number of used tokens.
LEMMA UsedCountFacts ==
  ASSUME NEW T \in Seq(Row)
  PROVE  /\ UsedCount(T) = IF USE_AUTO_EXTRAS <= Len(T) THEN USE_AUTO_EXTRAS ELSE Len(T)
         /\ UsedCount(T) \in 0..Len(T) /\ UsedCount(T) <= USE_AUTO_EXTRAS
<1>1. Len(T) \in Nat /\ USE_AUTO_EXTRAS \in Nat
  BY Limits
<1>2. UsedCount(T) = IF USE_AUTO_EXTRAS <= Len(T) THEN USE_AUTO_EXTRAS ELSE Len(T)
  BY <1>1, MinOfTwo DEF UsedCount
<1> QED
  BY <1>1, <1>2

\* r is s in another order.
Permuted(r, s) ==
  /\ Len(r) = Len(s)
  /\ \E p \in Bijection(1..Len(s), 1..Len(s)) : \A k \in 1..Len(s) : r[k] = s[p[k]]

\* A bijection of a set with itself.
LEMMA BijectionFacts ==
  ASSUME NEW S, NEW p
  PROVE  p \in Bijection(S, S) <=>
           /\ p \in [S -> S]
           /\ \A a, b \in S : p[a] = p[b] => a = b
           /\ \A t \in S : \E s \in S : p[s] = t
  BY DEF Bijection, Injection, Surjection, IsInjective

\* qsort() permutes.
LEMMA SortsPermutes ==
  ASSUME NEW s \in Seq(Row), NEW key, NEW r \in Sorts(s, key)
  PROVE  r \in Seq(Row) /\ Permuted(r, s)
<1>1. Len(s) \in Nat /\ \A k \in 1..Len(s) : s[k] \in Row
  OBVIOUS
<1>2. PICK p \in Bijection(1..Len(s), 1..Len(s)) : r = [k \in 1..Len(s) |-> s[p[k]]]
  BY DEF Sorts
<1>3. p \in [1..Len(s) -> 1..Len(s)]
  BY <1>2, BijectionFacts
<1>4. r \in [1..Len(s) -> Row]
  BY <1>1, <1>2, <1>3
<1>5. r \in Seq(Row) /\ Len(r) = Len(s)
  BY <1>1, <1>4
<1> QED
  BY <1>2, <1>5 DEF Permuted

\* Sorting all by use and the first ones by length is a permutation.
LEMMA SortedPermutes ==
  ASSUME NEW T \in Seq(Row), NEW r \in Sorted(T)
  PROVE  r \in Seq(Row) /\ Permuted(r, T)
<1>1. PICK s \in Sorts(T, UseKeys(T)) :
        r \in {used \o SubSeq(s, UsedCount(s) + 1, Len(s)) :
                 used \in LET u == SubSeq(s, 1, UsedCount(s)) IN Sorts(u, LengthKeys(Tokens(u)))}
  BY DEF Sorted
<1> DEFINE n == Len(T)  c == UsedCount(s)  u == SubSeq(s, 1, c)  v == SubSeq(s, c + 1, Len(s))
<1>2. PICK used \in Sorts(u, LengthKeys(Tokens(u))) : r = used \o v
  BY <1>1
<1>3. s \in Seq(Row) /\ Permuted(s, T)
  BY <1>1, SortsPermutes
<1>4. n \in Nat /\ Len(s) = n /\ c \in 0..n
  <2>1. Len(s) = n /\ n \in Nat
    BY <1>3 DEF Permuted
  <2>2. UsedCount(s) \in 0..Len(s)
    BY <1>3, UsedCountFacts
  <2> QED
    BY <2>1, <2>2
<1> HIDE DEF c
<1>5. /\ u \in Seq(Row) /\ Len(u) = c /\ \A k \in 1..c : u[k] = s[k]
      /\ v \in Seq(Row) /\ Len(v) = n - c /\ \A k \in 1 .. n - c : v[k] = s[c + k]
  <2>1. u \in Seq(Row) /\ Len(u) = c /\ \A k \in 1..c : u[k] = s[k]
    BY <1>3, <1>4
  <2>2. v \in Seq(Row) /\ Len(v) = n - c /\ \A k \in 1 .. n - c : v[k] = s[c + k]
    BY <1>3, <1>4
  <2> QED
    BY <2>1, <2>2
<1> HIDE DEF u, v
<1>6. used \in Seq(Row) /\ Permuted(used, u)
  BY <1>2, <1>5, SortsPermutes
<1>7. Len(used) = c
  BY <1>5, <1>6 DEF Permuted
<1>8. /\ r \in Seq(Row) /\ Len(r) = n
      /\ \A k \in 1..n : r[k] = IF k <= c THEN used[k] ELSE s[k]
  <2>1. r \in Seq(Row) /\ Len(r) = n
    BY <1>2, <1>4, <1>5, <1>6, <1>7
  <2>2. ASSUME NEW k \in 1..n PROVE r[k] = IF k <= c THEN used[k] ELSE s[k]
    <3>1. CASE k <= c
      BY <1>2, <1>4, <1>5, <1>6, <1>7, <3>1
    <3>2. CASE ~(k <= c)
      <4>1. r[k] = v[k - c]
        BY <1>2, <1>4, <1>5, <1>6, <1>7, <3>2
      <4>2. k - c \in 1 .. n - c /\ c + (k - c) = k
        BY <1>4, <3>2
      <4> QED
        BY <1>5, <3>2, <4>1, <4>2
    <3> QED
      BY <3>1, <3>2
  <2> QED
    BY <2>1, <2>2
<1>9. PICK p \in Bijection(1..n, 1..n) : \A k \in 1..n : s[k] = T[p[k]]
  BY <1>3 DEF Permuted
<1>10. PICK p2 \in Bijection(1..c, 1..c) : \A k \in 1..c : used[k] = u[p2[k]]
  BY <1>5, <1>6 DEF Permuted
<1>11. /\ p \in [1..n -> 1..n]
       /\ \A a, b \in 1..n : p[a] = p[b] => a = b
       /\ \A t \in 1..n : \E x \in 1..n : p[x] = t
  BY <1>9, BijectionFacts
<1>12. /\ p2 \in [1..c -> 1..c]
       /\ \A a, b \in 1..c : p2[a] = p2[b] => a = b
       /\ \A t \in 1..c : \E x \in 1..c : p2[x] = t
  BY <1>10, BijectionFacts
<1> DEFINE g == [k \in 1..n |-> IF k <= c THEN p2[k] ELSE k]
           f == [k \in 1..n |-> p[g[k]]]
<1>13. \A k \in 1..n : k <= c <=> k \in 1..c
  BY <1>4
<1>14. /\ g \in [1..n -> 1..n]
       /\ \A k \in 1..n : g[k] \in 1..c <=> k \in 1..c
       /\ \A k \in 1..c : g[k] = p2[k]
       /\ \A k \in 1..n : k \notin 1..c => g[k] = k
  BY <1>4, <1>12, <1>13
<1> HIDE DEF g
<1>15. \A a, b \in 1..n : g[a] = g[b] => a = b
  BY <1>12, <1>14
<1>16. \A t \in 1..n : \E x \in 1..n : g[x] = t
  <2>1. ASSUME NEW t \in 1..n PROVE \E x \in 1..n : g[x] = t
    <3>1. CASE t \in 1..c
      <4>1. PICK x \in 1..c : p2[x] = t
        BY <1>12, <3>1
      <4>2. x \in 1..n
        BY <1>4
      <4> QED
        BY <1>14, <4>1, <4>2
    <3>2. CASE t \notin 1..c
      BY <1>14, <3>2
    <3> QED
      BY <3>1, <3>2
  <2> QED
    BY <2>1
<1>17. f \in [1..n -> 1..n] /\ \A k \in 1..n : f[k] = p[g[k]]
  BY <1>11, <1>14
<1> HIDE DEF f
<1>18. f \in Bijection(1..n, 1..n)
  <2>1. ASSUME NEW a \in 1..n, NEW b \in 1..n, f[a] = f[b] PROVE a = b
    <3>1. g[a] \in 1..n /\ g[b] \in 1..n /\ p[g[a]] = p[g[b]]
      BY <1>14, <1>17, <2>1
    <3>2. g[a] = g[b]
      BY <1>11, <3>1
    <3> QED
      BY <1>15, <3>2
  <2>2. ASSUME NEW t \in 1..n PROVE \E x \in 1..n : f[x] = t
    <3>1. PICK y \in 1..n : p[y] = t
      BY <1>11
    <3>2. PICK x \in 1..n : g[x] = y
      BY <1>16
    <3> QED
      BY <1>17, <3>1, <3>2
  <2> QED
    BY <1>17, <2>1, <2>2, BijectionFacts
<1>19. ASSUME NEW k \in 1..n PROVE r[k] = T[f[k]]
  <2>1. f[k] = p[g[k]] /\ g[k] \in 1..n
    BY <1>14, <1>17
  <2>2. s[g[k]] = T[f[k]]
    BY <1>9, <2>1
  <2>3. CASE k \in 1..c
    <3>1. r[k] = used[k] /\ used[k] = u[p2[k]] /\ p2[k] \in 1..c /\ g[k] = p2[k]
      BY <1>8, <1>10, <1>12, <1>13, <1>14, <2>3
    <3> QED
      BY <1>5, <2>2, <3>1
  <2>4. CASE k \notin 1..c
    BY <1>8, <1>13, <1>14, <2>2, <2>4
  <2> QED
    BY <2>3, <2>4
<1> QED
  BY <1>8, <1>18, <1>19 DEF Permuted

-----------------------------------------------------------------------------
(* The table of automatic tokens.                                           *)

\* Equality up to case is an equivalence.
LEMMA SameTokenFacts ==
  /\ \A s : SameToken(s, s)
  /\ \A s, t : SameToken(s, t) => SameToken(t, s)
  /\ \A s, t, w : SameToken(s, t) /\ SameToken(t, w) => SameToken(s, w)
  BY DEF SameToken

\* The order of a table does not matter.
LEMMA PermutedTable ==
  ASSUME NEW T, Table(T), NEW r \in Seq(Row), Permuted(r, T)
  PROVE  /\ Table(r) /\ Len(r) = Len(T)
         /\ \A i \in 1..Len(T) : \E j \in 1..Len(r) : r[j].tok = T[i].tok
<1>0. Len(r) = Len(T) /\ Len(T) \in Nat /\ Len(T) <= MAX_AUTO_EXTRAS
  BY DEF Table, Permuted
<1>1. PICK p \in Bijection(1..Len(T), 1..Len(T)) : \A k \in 1..Len(T) : r[k] = T[p[k]]
  BY DEF Permuted
<1>2. /\ p \in [1..Len(T) -> 1..Len(T)]
      /\ \A a, b \in 1..Len(T) : p[a] = p[b] => a = b
      /\ \A t \in 1..Len(T) : \E x \in 1..Len(T) : p[x] = t
  BY <1>1, BijectionFacts
<1>3. ASSUME NEW k \in 1..Len(r)
      PROVE  Good(r[k].tok) /\ \A i \in 1..Len(r) : SameToken(r[i].tok, r[k].tok) => i = k
  <2>1. r[k] = T[p[k]] /\ p[k] \in 1..Len(T)
    BY <1>0, <1>1, <1>2
  <2>2. Good(r[k].tok)
    BY <2>1 DEF Table
  <2>3. ASSUME NEW i \in 1..Len(r), SameToken(r[i].tok, r[k].tok) PROVE i = k
    <3>1. r[i] = T[p[i]] /\ p[i] \in 1..Len(T)
      BY <1>0, <1>1, <1>2
    <3>2. p[i] = p[k]
      BY <2>1, <2>3, <3>1 DEF Table
    <3> QED
      BY <1>0, <1>2, <3>2
  <2> QED
    BY <2>2, <2>3
<1>4. Table(r)
  BY <1>0, <1>3 DEF Table
<1>5. ASSUME NEW i \in 1..Len(T) PROVE \E j \in 1..Len(r) : r[j].tok = T[i].tok
  <2>1. PICK j \in 1..Len(T) : p[j] = i
    BY <1>2
  <2>2. r[j] = T[i]
    BY <1>1, <2>1
  <2> QED
    BY <1>0, <2>2
<1> QED
  BY <1>0, <1>4, <1>5

\* Counting, appending and replacing keep the table in order; the new token is
\* in it, and nothing is lost unless the table is full.
LEMMA UpdatedTable ==
  ASSUME Table(a_extras), NEW mem \in Seq(Byte), Good(mem), NEW T \in Updated(mem)
  PROVE  /\ Table(T) /\ Len(a_extras) <= Len(T) /\ Len(T) <= Len(a_extras) + 1 /\ Len(T) > 0
         /\ \E j \in 1..Len(T) : T[j].tok = mem \/ SameToken(T[j].tok, mem)
         /\ Len(a_extras) < MAX_AUTO_EXTRAS =>
              \A i \in 1..Len(a_extras) : \E j \in 1..Len(T) : T[j].tok = a_extras[i].tok
<1> DEFINE A == a_extras
           hit == {k \in 1..Len(a_extras) : SameToken(a_extras[k].tok, mem)}
           new == [tok |-> mem, hit_cnt |-> 0]
           half == MAX_AUTO_EXTRAS \div 2
<1>0. /\ A \in Seq(Row) /\ Len(A) \in Nat /\ Len(A) <= MAX_AUTO_EXTRAS /\ MAX_AUTO_EXTRAS \in Nat \ {0}
      /\ \A k \in 1..Len(A) : A[k] \in Row /\ Good(A[k].tok)
      /\ \A i, k \in 1..Len(A) : SameToken(A[i].tok, A[k].tok) => i = k
  BY Limits DEF Table
<1>1. new \in Row /\ new.tok = mem
  BY DEF Row
<1>2. CASE hit # {}
  <2>1. T = [A EXCEPT ![Min(hit)].hit_cnt = @ + 1]
    BY <1>2 DEF Updated
  <2>2. PICK h \in 1..Len(A) : hit = {h} /\ SameToken(A[h].tok, mem)
    <3>1. PICK h \in 1..Len(A) : SameToken(A[h].tok, mem)
      BY <1>2
    <3>2. \A k \in hit : k = h
      BY <1>0, <3>1, SameTokenFacts
    <3> QED
      BY <3>1, <3>2
  <2>3. Min({h, h}) = h /\ {h, h} = {h}
    BY MinOfTwo
  <2>4. Min(hit) = h
    BY <2>2, <2>3
  <2>5. T = [A EXCEPT ![h].hit_cnt = @ + 1]
    BY <2>1, <2>4
  <2> HIDE DEF A, hit, new
  <2>6. /\ T \in Seq(Row) /\ Len(T) = Len(A)
        /\ \A k \in 1..Len(A) : T[k].tok = A[k].tok
    <3>1. A \in [1..Len(A) -> Row]
      BY <1>0
    <3>2. T \in [1..Len(A) -> Row] /\ \A k \in 1..Len(A) : T[k].tok = A[k].tok
      BY <2>2, <2>5, <3>1 DEF Row
    <3> QED
      BY <1>0, <3>2
  <2>7. Table(T)
    BY <1>0, <2>6 DEF Table
  <2>8. Len(A) > 0
    BY <2>2, <1>0
  <2> QED
    BY <1>0, <2>2, <2>6, <2>7, <2>8 DEF A
<1>3. CASE hit = {} /\ Len(A) < MAX_AUTO_EXTRAS
  <2>1. T = Append(A, new)
    BY <1>3 DEF Updated
  <2>2. \A k \in 1..Len(A) : ~SameToken(A[k].tok, mem) /\ ~SameToken(mem, A[k].tok)
    BY <1>3, SameTokenFacts
  <2> HIDE DEF A, hit, new
  <2>3. /\ T \in Seq(Row) /\ Len(T) = Len(A) + 1 /\ T[Len(A) + 1] = new
        /\ \A k \in 1..Len(A) : T[k] = A[k]
    BY <1>0, <1>1, <2>1
  <2>4. \A k \in 1..Len(T) : k \in 1..Len(A) \/ k = Len(A) + 1
    BY <1>0, <2>3
  <2>5. ASSUME NEW k \in 1..Len(T)
        PROVE  Good(T[k].tok) /\ \A i \in 1..Len(T) : SameToken(T[i].tok, T[k].tok) => i = k
    BY <1>0, <1>1, <2>2, <2>3, <2>4
  <2>6. Table(T)
    BY <1>0, <1>3, <2>3, <2>5 DEF Table
  <2>7. Len(A) + 1 \in 1..Len(T) /\ \A i \in 1..Len(A) : i \in 1..Len(T)
    BY <1>0, <2>3
  <2> QED
    BY <1>0, <1>1, <2>3, <2>6, <2>7 DEF A
<1>4. CASE hit = {} /\ ~(Len(A) < MAX_AUTO_EXTRAS)
  <2>1. PICK x \in 0 .. (MAX_AUTO_EXTRAS + 1) \div 2 - 1 : T = [A EXCEPT ![half + 1 + x] = new]
    BY <1>4 DEF Updated
  <2>2. PICK y \in 1..Len(A) : T = [A EXCEPT ![y] = new]
    <3>1. half + 1 + x \in 1..Len(A)
      BY <1>0, <1>4
    <3> QED
      BY <2>1, <3>1
  <2>3. \A k \in 1..Len(A) : ~SameToken(A[k].tok, mem) /\ ~SameToken(mem, A[k].tok)
    BY <1>4, SameTokenFacts
  <2> HIDE DEF A, hit, new, half
  <2>4. /\ T \in Seq(Row) /\ Len(T) = Len(A) /\ T[y] = new
        /\ \A k \in 1..Len(A) : k # y => T[k] = A[k]
    BY <1>0, <1>1, <2>2
  <2>5. ASSUME NEW k \in 1..Len(T)
        PROVE  Good(T[k].tok) /\ \A i \in 1..Len(T) : SameToken(T[i].tok, T[k].tok) => i = k
    BY <1>0, <1>1, <2>3, <2>4
  <2>6. Table(T)
    BY <1>0, <2>4, <2>5 DEF Table
  <2> QED
    BY <1>0, <1>1, <1>4, <2>2, <2>4, <2>6 DEF A
<1> QED
  BY <1>2, <1>3, <1>4

\* maybe_add_auto() as a whole.
LEMMA AddedFacts ==
  ASSUME Table(a_extras), NEW mem \in Seq(Byte), IsToken(mem), maybe_add_auto(mem)
  PROVE  /\ Table(a_extras') /\ Len(a_extras) <= Len(a_extras') /\ Len(a_extras') <= Len(a_extras) + 1
         /\ \/ Rejected(mem) /\ UNCHANGED <<a_extras, auto_changed>>
            \/ /\ auto_changed' = TRUE /\ a_extras' # <<>> /\ Holds(a_extras', mem)
               /\ Len(a_extras) < MAX_AUTO_EXTRAS => \A i \in 1..Len(a_extras) : Holds(a_extras', a_extras[i].tok)
<1>0. Len(a_extras) \in Nat
  BY DEF Table
<1>1. CASE Rejected(mem)
  BY <1>0, <1>1 DEF maybe_add_auto
<1>2. CASE ~Rejected(mem)
  <2>1. PICK T \in Updated(mem) : a_extras' \in Sorted(T)
    BY <1>2 DEF maybe_add_auto
  <2>2. Good(mem)
    BY <1>2 DEF Good, Rejected
  <2>3. /\ Table(T) /\ Len(a_extras) <= Len(T) /\ Len(T) <= Len(a_extras) + 1 /\ Len(T) > 0
        /\ \E j \in 1..Len(T) : T[j].tok = mem \/ SameToken(T[j].tok, mem)
        /\ Len(a_extras) < MAX_AUTO_EXTRAS =>
             \A i \in 1..Len(a_extras) : \E j \in 1..Len(T) : T[j].tok = a_extras[i].tok
    BY <2>1, <2>2, UpdatedTable
  <2>4. a_extras' \in Seq(Row) /\ Permuted(a_extras', T)
    BY <2>1, <2>3, SortedPermutes DEF Table
  <2>5. /\ Table(a_extras') /\ Len(a_extras') = Len(T)
        /\ \A i \in 1..Len(T) : \E j \in 1..Len(a_extras') : a_extras'[j].tok = T[i].tok
    BY <2>3, <2>4, PermutedTable
  <2>6. auto_changed' = TRUE
    BY <1>2 DEF maybe_add_auto
  <2>7. Holds(a_extras', mem)
    BY <2>3, <2>5, SameTokenFacts DEF Holds
  <2>8. Len(a_extras) < MAX_AUTO_EXTRAS => \A i \in 1..Len(a_extras) : Holds(a_extras', a_extras[i].tok)
    BY <2>3, <2>5, SameTokenFacts DEF Holds
  <2>9. a_extras' # <<>>
    BY <2>3, <2>5
  <2> QED
    BY <2>3, <2>5, <2>6, <2>7, <2>8, <2>9
<1> QED
  BY <1>1, <1>2

-----------------------------------------------------------------------------
(* The steps that leave the dictionary and the triage alone.                *)

LaterStages ==
  {"flip2", "flip4", "flip8", "flip16", "flip32", "arith8", "arith16", "arith32",
   "int8", "int16", "int32", "ext_UO", "ext_UI", "ext_AO", "det_done"}

\* The stages by name.
LEMMA StageNames ==
  /\ Len(Stages) = 16 /\ \A k \in 2..16 : Stages[k] \in LaterStages
  /\ Range(Stages) = LaterStages \cup {"flip1"}
<1>1. Len(Stages) = 16 /\ DOMAIN Stages = 1..16
  BY DEF Stages
<1>2. \A k \in 2..16 : Stages[k] \in LaterStages
  <2>1. \A k \in 2..16 : \/ k = 2 \/ k = 3 \/ k = 4 \/ k = 5 \/ k = 6 \/ k = 7 \/ k = 8 \/ k = 9
                         \/ k = 10 \/ k = 11 \/ k = 12 \/ k = 13 \/ k = 14 \/ k = 15 \/ k = 16
    OBVIOUS
  <2> QED
    BY <2>1 DEF Stages, LaterStages
<1>3. Stages[1] = "flip1"
  BY DEF Stages
<1>4. \A x \in LaterStages : \E k \in 2..16 : Stages[k] = x
  BY DEF Stages, LaterStages
<1>5. \A k \in 1..16 : k = 1 \/ k \in 2..16
  OBVIOUS
<1>6. Range(Stages) = {Stages[k] : k \in 1..16}
  BY <1>1 DEF Range
<1>7. ASSUME NEW x \in Range(Stages) PROVE x \in LaterStages \cup {"flip1"}
  BY <1>2, <1>3, <1>5, <1>6
<1>8. ASSUME NEW x \in LaterStages \cup {"flip1"} PROVE x \in Range(Stages)
  BY <1>3, <1>4, <1>6
<1> QED
  BY <1>1, <1>2, <1>7, <1>8

\* A stage is followed by another one, and not by the first.
LEMMA FollowsLater ==
  ASSUME NEW s \in (LaterStages \cup {"flip1"}) \ {"det_done"}
  PROVE  Follows(s) \in LaterStages
<1>1. \E k \in 2..16 : Stages[k - 1] = s
  <2>1. \E k \in {2, 3, 4, 5, 6, 7, 8, 9, 10, 11, 12, 13, 14, 15, 16} : Stages[k - 1] = s
    BY DEF Stages, LaterStages
  <2> QED
    BY <2>1
<1>2. (CHOOSE k \in 2..16 : Stages[k - 1] = s) \in 2..16
  BY <1>1
<1>3. Follows(s) = Stages[CHOOSE k \in 2..16 : Stages[k - 1] = s]
  BY StageNames DEF Follows
<1> QED
  BY <1>2, <1>3, StageNames

\* What such a step may do.
QuietAction ==
  /\ UNCHANGED <<sc, dictVars, triageVars>> /\ cur' \in Nat
  /\ stage' \in LaterStages \cup {"flip1", "pick", "havoc", "stop"}
  /\ UNCHANGED <<a_collect, a_len>> \/ (a_collect' = <<>> /\ a_len' = 0)
  /\ stage' = "flip1" => cur' \in 1..Len(sc.queue) /\ pos' = 0

\* It does no harm.
LEMMA QuietStep ==
  ASSUME FInv, QuietAction
  PROVE  FInv'
<1> USE DEF QuietAction
<1>1. Place'
  <2>1. sc' = sc /\ sc \in Scenarios
    BY DEF FInv, Place
  <2>2. stage' = "flip1" => Len(sc.queue[cur'].buf) \in Nat \ {0}
    <3>1. ASSUME stage' = "flip1" PROVE Len(sc.queue[cur'].buf) \in Nat \ {0}
      <4>1. cur' \in 1..Len(sc.queue)
        BY <3>1
      <4> DEFINE buf == sc.queue[cur'].buf
      <4>2. buf \in Seq(Byte) /\ Len(buf) > 0
        BY <2>1, <4>1, FuzzOneAssumption
      <4> HIDE DEF buf
      <4>3. Len(buf) \in Nat \ {0}
        BY <4>2
      <4> QED
        BY <4>3 DEF buf
    <3> QED
      BY <3>1
  <2>3. stage' = "flip1" => pos' \in 0 .. Len(sc.queue[cur'].buf) - 1
    BY <2>2
  <2>4. len' = Len(sc.queue[cur'].buf)
    BY <2>1 DEF len, in_buf, Entry
  <2> QED
    BY <2>1, <2>3, <2>4, StageNames DEF Place, PlainStages
<1>2. Collecting'
  <2>1. CASE UNCHANGED <<a_collect, a_len>>
    BY <2>1 DEF FInv, Collecting
  <2>2. CASE a_collect' = <<>> /\ a_len' = 0
    <3>1. Min({0, MAX_AUTO_EXTRA}) = 0
      BY MinOfTwo, Limits
    <3> QED
      BY <2>2, <3>1 DEF Collecting
  <2> QED
    BY <2>1, <2>2
<1>3. Tables'
  BY DEF FInv, Tables, dictVars, Table, TokenFiles
<1>4. Saved'
  <2>1. stage' \notin {"load", "start"}
    BY DEF LaterStages
  <2> QED
    BY <2>1 DEF FInv, Saved, dictVars, UsedTokens
<1>5. Loaded'
  BY DEF Loaded, LaterStages
<1>6. Triaged' /\ FaultsKeptExactly'
  BY DEF FInv, Triaged, FaultsKeptExactly, triageVars
<1> QED
  BY <1>1, <1>2, <1>3, <1>4, <1>5, <1>6 DEF FInv

\* The next entry is one of the queue.
LEMMA NextEntryInQueue ==
  ASSUME FInv PROVE NextEntry \in 1..Len(sc.queue)
<1>1. Len(sc.queue) \in Nat \ {0} /\ cur \in Nat
  BY FuzzOneAssumption DEF FInv, Place
<1> DEFINE n == Len(sc.queue)
<1> HIDE DEF n
<1>2. n \in Nat \ {0}
  BY <1>1 DEF n
<1>3. cur % n \in 0 .. n - 1
  BY <1>1, <1>2
<1>4. (cur % n) + 1 \in 1..n
  BY <1>2, <1>3
<1> QED
  BY <1>4 DEF n, NextEntry

\* A whole stage.
LEMMA DoStep ==
  ASSUME FInv, NEW s \in LaterStages \ {"det_done"}, NEW tests, Do(s, tests) PROVE FInv'
<1>1. /\ UNCHANGED <<sc, dictVars, triageVars>> /\ UNCHANGED <<a_collect, a_len>>
      /\ cur' = cur /\ stage' = Follows(s)
  BY DEF Do, queueVars
<1>2. stage' \in LaterStages /\ stage' # "flip1"
  BY <1>1, FollowsLater DEF LaterStages
<1>3. cur' \in Nat
  BY <1>1 DEF FInv, Place
<1>4. QuietAction
  BY <1>1, <1>2, <1>3 DEF QuietAction
<1> QED
  BY <1>4, QuietStep

\* A step of a stage that overwrites with tokens.
LEMMA OverStep ==
  ASSUME FInv, NEW s \in LaterStages \ {"det_done"}, NEW toks, NEW skips,
         OverToken(s, toks, skips) \/ OverRestore(s, toks)
  PROVE  FInv'
<1>1. /\ UNCHANGED <<sc, dictVars, triageVars>> /\ UNCHANGED <<a_collect, a_len>>
      /\ cur' = cur /\ stage' \in {s, Follows(s)}
  BY DEF OverToken, OverRestore, queueVars
<1>2. stage' \in LaterStages /\ stage' # "flip1"
  BY <1>1, FollowsLater DEF LaterStages
<1>3. cur' \in Nat
  BY <1>1 DEF FInv, Place
<1>4. QuietAction
  BY <1>1, <1>2, <1>3 DEF QuietAction
<1> QED
  BY <1>4, QuietStep

\* All of the steps of this group.
QuietNext ==
  \/ Skip \/ Pick \/ Flip24 \/ Flip8 \/ Flip1632 \/ Arith \/ Interest
  \/ ExtrasOver \/ ExtrasInsert \/ AutoExtrasOver \/ mark_as_det_done \/ Havoc \/ Abandon

\* None of them breaks the invariant.
LEMMA QuietSteps ==
  ASSUME FInv, QuietNext PROVE FInv'
<1>0. cur \in Nat
  BY DEF FInv, Place
<1>1. CASE Skip
  <2>1. /\ UNCHANGED <<sc, dictVars, triageVars>> /\ UNCHANGED <<a_collect, a_len>>
        /\ cur' \in Nat /\ stage' = "pick"
    BY <1>1, NextEntryInQueue DEF Skip, bufVars
  <2>3. QuietAction
    BY <2>1 DEF QuietAction
  <2> QED
    BY <2>3, QuietStep
<1>2. CASE Pick
  <2>1. /\ UNCHANGED <<sc, dictVars, triageVars>> /\ a_collect' = <<>> /\ a_len' = 0
        /\ cur' = NextEntry /\ stage' \in {"havoc", "flip1"} /\ pos' = 0
    BY <1>2 DEF Pick
  <2>2. cur' \in 1..Len(sc.queue) /\ cur' \in Nat
    BY <2>1, NextEntryInQueue
  <2>3. QuietAction
    BY <2>1, <2>2 DEF QuietAction
  <2> QED
    BY <2>3, QuietStep
<1>3. CASE Flip24
  BY <1>3, DoStep DEF Flip24, LaterStages
<1>4. CASE Flip8
  BY <1>4, DoStep DEF Flip8, LaterStages
<1>5. CASE Flip1632
  BY <1>5, DoStep DEF Flip1632, LaterStages
<1>6. CASE Arith
  BY <1>6, DoStep DEF Arith, LaterStages
<1>7. CASE Interest
  BY <1>7, DoStep DEF Interest, LaterStages
<1>8. CASE ExtrasOver
  BY <1>8, OverStep DEF ExtrasOver, LaterStages
<1>9. CASE ExtrasInsert
  BY <1>9, DoStep DEF ExtrasInsert, LaterStages
<1>10. CASE AutoExtrasOver
  BY <1>10, OverStep DEF AutoExtrasOver, LaterStages
<1>11. CASE mark_as_det_done \/ Havoc \/ Abandon
  <2>1. /\ UNCHANGED <<sc, dictVars, triageVars>> /\ UNCHANGED <<a_collect, a_len>>
        /\ cur' = cur /\ stage' \in {"havoc", "pick", "stop"}
    BY <1>11 DEF mark_as_det_done, Havoc, Abandon, bufVars
  <2>3. QuietAction
    BY <1>0, <2>1 DEF QuietAction
  <2> QED
    BY <2>3, QuietStep
<1> QED
  BY <1>1, <1>2, <1>3, <1>4, <1>5, <1>6, <1>7, <1>8, <1>9, <1>10, <1>11 DEF QuietNext

-----------------------------------------------------------------------------
(* The walking bit and the collection of tokens.                            *)

\* c holds the first of n bytes, as many as there is room for.
Holding(c, n) == c \in Seq(Byte) /\ n \in Nat /\ Len(c) = Min({n, MAX_AUTO_EXTRA})

\* One byte more.
LEMMA CollectedHolds ==
  ASSUME NEW c, NEW n, Holding(c, n), NEW byte \in Byte
  PROVE  Holding(Collected(c, n, byte), n + 1)
<1>1. c \in Seq(Byte) /\ n \in Nat /\ n + 1 \in Nat /\ MAX_AUTO_EXTRA \in Nat
  BY Limits DEF Holding
<1>2. Len(c) = IF n <= MAX_AUTO_EXTRA THEN n ELSE MAX_AUTO_EXTRA
  BY <1>1, MinOfTwo DEF Holding
<1>3. Min({n + 1, MAX_AUTO_EXTRA}) = IF n + 1 <= MAX_AUTO_EXTRA THEN n + 1 ELSE MAX_AUTO_EXTRA
  BY <1>1, MinOfTwo
<1>4. CASE n < MAX_AUTO_EXTRA
  <2>1. Collected(c, n, byte) = Append(c, byte)
    BY <1>4 DEF Collected
  <2>2. Append(c, byte) \in Seq(Byte) /\ Len(Append(c, byte)) = n + 1
    BY <1>1, <1>2, <1>4
  <2>3. Min({n + 1, MAX_AUTO_EXTRA}) = n + 1
    BY <1>1, <1>3, <1>4
  <2> QED
    BY <1>1, <2>1, <2>2, <2>3 DEF Holding
<1>5. CASE ~(n < MAX_AUTO_EXTRA)
  <2>1. Collected(c, n, byte) = c
    BY <1>5 DEF Collected
  <2>2. Len(c) = MAX_AUTO_EXTRA /\ Min({n + 1, MAX_AUTO_EXTRA}) = MAX_AUTO_EXTRA
    BY <1>1, <1>2, <1>3, <1>5
  <2> QED
    BY <1>1, <2>1, <2>2 DEF Holding
<1> QED
  BY <1>4, <1>5

\* No bytes.
LEMMA NothingHolds == Holding(<<>>, 0)
<1>1. Min({0, MAX_AUTO_EXTRA}) = 0
  BY MinOfTwo, Limits
<1> QED
  BY <1>1 DEF Holding

\* When the number of bytes is that of a token, the bytes are one.
LEMMA HoldingToken ==
  ASSUME NEW c, NEW n, Holding(c, n), Worthwhile(n)
  PROVE  c \in Seq(Byte) /\ IsToken(c)
<1>1. c \in Seq(Byte) /\ n \in Nat /\ MAX_AUTO_EXTRA \in Nat /\ MIN_AUTO_EXTRA \in Nat
  BY Limits DEF Holding
<1>2. Len(c) = IF n <= MAX_AUTO_EXTRA THEN n ELSE MAX_AUTO_EXTRA
  BY <1>1, MinOfTwo DEF Holding
<1>3. n <= MAX_AUTO_EXTRA
  BY <1>1 DEF Worthwhile
<1>4. Len(c) \in MIN_AUTO_EXTRA .. MAX_AUTO_EXTRA
  BY <1>2, <1>3 DEF Worthwhile
<1>5. c \in [1..Len(c) -> Byte]
  BY <1>1
<1> QED
  BY <1>1, <1>4, <1>5 DEF IsToken

\* The table is as it was, or has changed and is to be saved.
Grown ==
  /\ Table(a_extras') /\ Len(a_extras) <= Len(a_extras')
  /\ UNCHANGED <<a_extras, auto_changed>> \/ (auto_changed' = TRUE /\ a_extras' # <<>>)

\* A token offered, or none.
LEMMA OfferGrows ==
  ASSUME Table(a_extras), NEW offers \in BOOLEAN, NEW tok,
         offers => tok \in Seq(Byte) /\ IsToken(tok), Offer(offers, tok)
  PROVE  Grown
<1>0. Len(a_extras) \in Nat
  BY DEF Table
<1>1. CASE offers
  <2>1. tok \in Seq(Byte) /\ IsToken(tok) /\ maybe_add_auto(tok)
    BY <1>1 DEF Offer
  <2> QED
    BY <2>1, AddedFacts DEF Grown
<1>2. CASE ~offers
  <2>1. UNCHANGED <<a_extras, auto_changed>>
    BY <1>2 DEF Offer
  <2>2. Table(a_extras') /\ Len(a_extras) <= Len(a_extras')
    BY <1>0, <2>1
  <2> QED
    BY <2>1, <2>2 DEF Grown
<1> QED
  BY <1>1, <1>2

\* The dictionary after a change of the table, as long as nothing is being saved.
LEMMA GrownSaved ==
  ASSUME Tables, Saved, ~Saving, Grown, UNCHANGED <<files, in_files, save_i, save_open>>
  PROVE  Tables' /\ Saved'
<1>1. save_i = 0 /\ save_i' = 0
  <2>1. UsedCount(a_extras) \in Nat
    BY UsedCountFacts DEF Tables, Table
  <2> QED
    BY <2>1 DEF Saved, Saving
<1>2. a_extras \in Seq(Row) /\ a_extras' \in Seq(Row) /\ Len(a_extras) <= Len(a_extras')
  BY DEF Tables, Table, Grown
<1>3. Len(a_extras) \in Nat /\ Len(a_extras') \in Nat /\ USE_AUTO_EXTRAS \in Nat
  BY <1>2, Limits
<1>4. UsedCount(a_extras) \in Nat /\ UsedCount(a_extras') \in Nat
  BY <1>2, UsedCountFacts
<1>5. UsedCount(a_extras) <= UsedCount(a_extras')
  <2>1. UsedCount(a_extras) = IF USE_AUTO_EXTRAS <= Len(a_extras) THEN USE_AUTO_EXTRAS ELSE Len(a_extras)
    BY <1>2, UsedCountFacts
  <2>2. UsedCount(a_extras') = IF USE_AUTO_EXTRAS <= Len(a_extras') THEN USE_AUTO_EXTRAS ELSE Len(a_extras')
    BY <1>2, UsedCountFacts
  <2> QED
    BY <1>2, <1>3, <2>1, <2>2
<1>6. Tables'
  BY DEF Tables, Grown, TokenFiles
<1>7. files' = files /\ Len(files) \in Nat
  BY DEF Tables, TokenFiles
<1>8. Len(files') <= UsedCount(a_extras')
  BY <1>4, <1>5, <1>7 DEF Saved
<1>9. auto_changed' \in BOOLEAN /\ save_open' \in BOOLEAN
  BY DEF Saved, Grown
<1>10. ~auto_changed' => files' = UsedTokens' /\ a_extras' = a_extras
  <2>1. ~auto_changed' => UNCHANGED <<a_extras, auto_changed>>
    BY Zenon DEF Grown
  <2> QED
    BY <1>1, <1>7, <2>1 DEF Saved, UsedTokens
<1>11. auto_changed' => a_extras' # <<>>
  BY DEF Saved, Grown
<1>12. save_i' \in 0..UsedCount(a_extras')
  BY <1>1, <1>4
<1> QED
  BY <1>1, <1>6, <1>8, <1>9, <1>10, <1>11, <1>12 DEF Saved

\* The byte that is flipped is one of the input.
LEMMA ByteAtPos ==
  ASSUME FInv, stage = "flip1" PROVE in_buf[pos + 1] \in Byte
<1> DEFINE buf == sc.queue[cur].buf
<1>1. sc \in Scenarios /\ cur \in 1..Len(sc.queue)
  BY DEF FInv, Place
<1>2. buf \in Seq(Byte)
  BY <1>1, FuzzOneAssumption
<1>3. in_buf = buf /\ pos \in 0 .. Len(buf) - 1
  BY DEF FInv, Place, in_buf, len, Entry
<1> HIDE DEF buf
<1>4. pos + 1 \in 1..Len(buf)
  BY <1>2, <1>3
<1> QED
  BY <1>2, <1>3, <1>4

\* The eight flips of one byte.
LEMMA Flip1Step ==
  ASSUME FInv, Flip1 PROVE FInv'
<1> DEFINE buf == sc.queue[cur].buf
<1>0. /\ sc \in Scenarios /\ sc' = sc /\ cur' = cur /\ cur \in 1..Len(sc.queue) /\ cur \in Nat
      /\ stage = "flip1"
  BY DEF FInv, Place, Flip1, queueVars
<1>1. buf \in Seq(Byte) /\ sc.dumb \in BOOLEAN
  BY <1>0, FuzzOneAssumption
<1>2. in_buf = buf /\ len = Len(buf) /\ len' = Len(buf) /\ pos \in 0 .. Len(buf) - 1
  BY <1>0 DEF FInv, Place, in_buf, len, Entry
<1> HIDE DEF buf
<1>3. Len(buf) \in Nat /\ pos \in Nat
  BY <1>1, <1>2
<1>4. in_buf[pos + 1] \in Byte
  BY <1>0, ByteAtPos
<1>5. Place'
  <2>1. stage' \in {"flip1", "flip2"} /\ (stage' = "flip1" => pos < len - 1 /\ pos' = pos + 1)
    BY DEF Flip1
  <2>2. stage' = "flip1" => pos' \in 0 .. len' - 1
    BY <1>2, <1>3, <2>1
  <2> QED
    BY <1>0, <2>1, <2>2, StageNames DEF Place, LaterStages
<1>6. Collecting' /\ Grown
  <2>0. Holding(a_collect, a_len) /\ Table(a_extras) /\ a_len \in Nat /\ Len(a_extras) \in Nat
    BY DEF FInv, Collecting, Holding, Tables, Table
  <2>1. CASE sc.dumb
    <3>1. UNCHANGED <<a_collect, a_len, a_extras, auto_changed>>
      BY <2>1 DEF Flip1
    <3>2. Collecting'
      BY <3>1 DEF FInv, Collecting
    <3>3. Grown
      BY <2>0, <3>1 DEF Grown
    <3> QED
      BY <3>2, <3>3
  <2>2. CASE ~sc.dumb
    <3> DEFINE cksum == Entry.lsb[pos + 1]
               byte == in_buf[pos + 1]
               last == pos = len - 1
               final == last /\ cksum = prev_cksum
               changed == ~final /\ cksum # prev_cksum
               grab == Collected(a_collect, a_len, byte)
               coll == CASE final -> grab [] changed -> <<>> [] OTHER -> a_collect
               n == CASE final -> a_len + 1 [] changed -> 0 [] OTHER -> a_len
               offers == \/ final /\ Worthwhile(a_len + 1)
                         \/ changed /\ Worthwhile(a_len)
               tok == IF final THEN grab ELSE a_collect
    <3>1. TokenStep(cksum, byte, last)
      BY <2>2 DEF Flip1
    <3>2. /\ Offer(offers, tok)
          /\ a_collect' = IF cksum # 0 THEN Collected(coll, n, byte) ELSE coll
          /\ a_len' = IF cksum # 0 THEN n + 1 ELSE n
      BY <3>1 DEF TokenStep
    <3>3. byte \in Byte /\ final \in BOOLEAN /\ changed \in BOOLEAN
      BY <1>4
    <3> HIDE DEF cksum, byte, last
    <3>4. Holding(grab, a_len + 1)
      BY <2>0, <3>3, CollectedHolds
    <3> HIDE DEF grab
    <3>5. Holding(coll, n)
      <4>1. CASE final
        BY <3>4, <4>1
      <4>2. CASE ~final /\ changed
        BY <4>2, NothingHolds
      <4>3. CASE ~final /\ ~changed
        BY <2>0, <4>3
      <4> QED
        BY <4>1, <4>2, <4>3
    <3>6. offers => tok \in Seq(Byte) /\ IsToken(tok)
      <4>1. CASE final
        <5>1. offers => Worthwhile(a_len + 1)
          BY <4>1
        <5>2. tok = grab
          BY <4>1
        <5> QED
          BY <3>4, <5>1, <5>2, HoldingToken
      <4>2. CASE ~final
        <5>1. offers => Worthwhile(a_len)
          BY <4>2
        <5>2. tok = a_collect
          BY <4>2
        <5> QED
          BY <2>0, <5>1, <5>2, HoldingToken
      <4> QED
        BY <4>1, <4>2
    <3>7. offers \in BOOLEAN
      OBVIOUS
    <3> HIDE DEF offers, tok, coll, n
    <3>8. Grown
      BY <2>0, <3>2, <3>6, <3>7, OfferGrows
    <3>9. Holding(Collected(coll, n, byte), n + 1)
      BY <3>3, <3>5, CollectedHolds
    <3>10. Holding(a_collect', a_len')
      <4>1. CASE cksum # 0
        BY <3>2, <3>9, <4>1
      <4>2. CASE cksum = 0
        BY <3>2, <3>5, <4>2
      <4> QED
        BY <4>1, <4>2
    <3> QED
      BY <3>8, <3>10 DEF Holding, Collecting
  <2> QED
    BY <1>1, <2>1, <2>2
<1>7. Tables' /\ Saved'
  BY <1>6, GrownSaved DEF FInv, Flip1
<1>8. Loaded'
  BY DEF Loaded, Flip1
<1>9. Triaged' /\ FaultsKeptExactly'
  BY <1>0 DEF FInv, Triaged, FaultsKeptExactly, triageVars, Flip1
<1> QED
  BY <1>5, <1>6, <1>7, <1>8, <1>9 DEF FInv

-----------------------------------------------------------------------------
(* Loading and saving the automatic tokens.                                 *)

\* A table or a directory with nothing in it.
LEMMA Nothing ==
  /\ Table(<<>>) /\ TokenFiles(<<>>) /\ UsedCount(<<>>) = 0
  /\ Tokens(SubSeq(<<>>, 1, UsedCount(<<>>))) = <<>>
<1>1. <<>> \in Seq(Row) /\ Len(<<>>) = 0 /\ <<>> \in Seq(Seq(Byte))
  OBVIOUS
<1>2. UsedCount(<<>>) = 0
  <2>1. UsedCount(<<>>) \in 0..Len(<<>>)
    BY <1>1, UsedCountFacts
  <2> QED
    BY <1>1, <2>1
<1>3. Table(<<>>) /\ TokenFiles(<<>>)
  BY <1>1, Limits DEF Table, TokenFiles
<1>4. SubSeq(<<>>, 1, 0) = <<>>
  OBVIOUS
<1>5. Tokens(<<>>) = <<>>
  BY DEF Tokens
<1> QED
  BY <1>2, <1>3, <1>4, <1>5

\* A row holds a token.
LEMMA RowTokens == \A x \in Row : x.tok \in Seq(Byte)
  BY DEF Row

\* The tokens that are used and saved.
LEMMA UsedTokensFacts ==
  ASSUME Table(a_extras)
  PROVE  /\ UsedTokens \in Seq(Seq(Byte)) /\ Len(UsedTokens) = UsedCount(a_extras)
         /\ \A k \in 1..UsedCount(a_extras) : UsedTokens[k] = a_extras[k].tok
<1> DEFINE c == UsedCount(a_extras)
           u == SubSeq(a_extras, 1, c)
<1>1. a_extras \in Seq(Row) /\ c \in 0..Len(a_extras) /\ Len(a_extras) \in Nat
  BY UsedCountFacts DEF Table
<1> HIDE DEF c
<1>2. u \in Seq(Row) /\ Len(u) = c /\ \A k \in 1..c : u[k] = a_extras[k]
  BY <1>1
<1> HIDE DEF u
<1>3. UsedTokens = [k \in 1..c |-> u[k].tok]
  BY <1>2 DEF UsedTokens, Tokens, u, c
<1>4. \A k \in 1..c : u[k].tok \in Seq(Byte)
  <2>1. \A k \in 1..c : u[k] \in Row
    BY <1>2
  <2> QED
    BY <2>1, RowTokens
<1>5. UsedTokens \in [1..c -> Seq(Byte)]
  BY <1>3, <1>4
<1>6. c \in Nat
  BY <1>1
<1>7. UsedTokens \in Seq(Seq(Byte)) /\ Len(UsedTokens) = c
  BY <1>5, <1>6
<1> QED
  BY <1>2, <1>3, <1>7 DEF c

\* save_auto() begins, or has nothing to do.
LEMMA BeginSaved ==
  ASSUME Tables, Saved, save_i = 0, save_auto_Begin, stage' \notin {"load", "start"}
  PROVE  Tables' /\ Saved'
<1>1. /\ UNCHANGED <<extras, a_extras, files, in_files, load_i>>
      /\ auto_changed' = FALSE /\ save_open' = FALSE
      /\ auto_changed => save_i' = 1
      /\ ~auto_changed => save_i' = 0
  BY DEF save_auto_Begin
<1>2. Tables'
  BY <1>1 DEF Tables
<1>3. UsedCount(a_extras) \in Nat /\ (auto_changed => 1 <= UsedCount(a_extras))
  <2>1. a_extras \in Seq(Row) /\ Len(a_extras) \in Nat
    BY DEF Tables, Table
  <2>2. UsedCount(a_extras) = IF USE_AUTO_EXTRAS <= Len(a_extras) THEN USE_AUTO_EXTRAS ELSE Len(a_extras)
    BY <2>1, UsedCountFacts
  <2>3. auto_changed => Len(a_extras) # 0
    BY <2>1 DEF Saved
  <2> QED
    BY <2>1, <2>2, <2>3, Limits
<1>4. Len(files) \in Nat /\ Len(files) <= UsedCount(a_extras)
  BY DEF Saved, Tables, TokenFiles
<1>5. CASE auto_changed
  <2>1. save_i' = 1 /\ save_i' \in 0..UsedCount(a_extras)
    BY <1>1, <1>3, <1>5
  <2>2. \A k \in 1 .. save_i' - 1 : FALSE
    BY <2>1
  <2>3. Len(files) >= save_i' - 1
    BY <1>4, <2>1
  <2>4. /\ auto_changed' \in BOOLEAN /\ save_open' \in BOOLEAN /\ ~auto_changed' /\ ~save_open'
        /\ save_i' # 0
    <3>1. save_i' # 0
      BY <2>1
    <3> QED
      BY <1>1, <3>1, Zenon
  <2>5. save_i' \in 0..UsedCount(a_extras') /\ Len(files') <= UsedCount(a_extras')
    BY <1>1, <1>4, <2>1
  <2>6. Len(files') >= save_i' - 1
    BY <1>1, <2>3
  <2>7. Saved'
    BY <2>2, <2>4, <2>5, <2>6 DEF Saved
  <2> QED
    BY <1>2, <2>7
<1>6. CASE ~auto_changed
  <2>1. files = UsedTokens /\ save_i' = 0
    BY <1>1, <1>6 DEF Saved
  <2>2. UsedTokens' = UsedTokens
    BY <1>1 DEF UsedTokens
  <2>3. save_i' \in 0..UsedCount(a_extras)
    BY <1>3, <2>1
  <2>4. Saved'
    BY <1>1, <1>4, <2>1, <2>2, <2>3 DEF Saved
  <2> QED
    BY <1>2, <2>4
<1> QED
  BY <1>5, <1>6 DEF Saved

\* A file is opened and emptied.
LEMMA OpenSaved ==
  ASSUME Tables, Saved, save_auto_Open, stage' = stage
  PROVE  Tables' /\ Saved'
<1>0. /\ save_i > 0 /\ ~save_open /\ save_open' = TRUE
      /\ UNCHANGED <<extras, a_extras, auto_changed, in_files, load_i, save_i>>
      /\ files' = IF save_i <= Len(files) THEN [files EXCEPT ![save_i] = <<>>]
                  ELSE Append(files, <<>>)
  BY DEF save_auto_Open, Saving
<1>1. /\ files \in Seq(Seq(Byte)) /\ Len(files) \in Nat /\ Len(files) <= USE_AUTO_EXTRAS
      /\ \A k \in 1..Len(files) : files[k] = <<>> \/ Good(files[k])
      /\ a_extras \in Seq(Row)
  BY DEF Tables, TokenFiles, Table
<1>2. UsedCount(a_extras) \in Nat /\ UsedCount(a_extras) <= USE_AUTO_EXTRAS /\ USE_AUTO_EXTRAS \in Nat
  BY <1>1, UsedCountFacts, Limits
<1>3. /\ save_i \in 1..UsedCount(a_extras) /\ save_i \in Nat /\ ~auto_changed
      /\ Len(files) >= save_i - 1 /\ Len(files) <= UsedCount(a_extras)
      /\ \A k \in 1 .. save_i - 1 : files[k] = a_extras[k].tok
  BY <1>0, <1>2 DEF Saved
<1>4. /\ files' \in Seq(Seq(Byte)) /\ Len(files') \in Nat
      /\ Len(files') >= save_i /\ Len(files') <= UsedCount(a_extras)
      /\ \A k \in 1..Len(files') : files'[k] = <<>> \/ (k \in 1..Len(files) /\ files'[k] = files[k])
      /\ \A k \in 1 .. save_i - 1 : files'[k] = files[k]
  <2>1. CASE save_i <= Len(files)
    BY <1>0, <1>1, <1>3, <2>1
  <2>2. CASE ~(save_i <= Len(files))
    BY <1>0, <1>1, <1>2, <1>3, <2>2
  <2> QED
    BY <2>1, <2>2
<1>5. TokenFiles(files')
  <2>1. Len(files') <= USE_AUTO_EXTRAS
    BY <1>2, <1>4
  <2>2. ASSUME NEW k \in 1..Len(files') PROVE files'[k] = <<>> \/ Good(files'[k])
    BY <1>1, <1>4
  <2> QED
    BY <1>4, <2>1, <2>2 DEF TokenFiles
<1>6. Tables'
  BY <1>0, <1>5 DEF Tables
<1>7. save_i # 0 /\ stage' \notin {"load", "start"}
  BY <1>0, <1>3 DEF Saved
<1>8. Len(files') >= save_i - 1
  BY <1>3, <1>4
<1>9. Saved'
  BY <1>0, <1>3, <1>4, <1>7, <1>8 DEF Saved
<1> QED
  BY <1>6, <1>9

\* A file is written; after the last one the files are the used tokens.
LEMMA WriteSaved ==
  ASSUME Tables, Saved, save_auto_Write, stage' = stage
  PROVE  Tables' /\ Saved'
<1> DEFINE c == UsedCount(a_extras)
<1>0. /\ save_i > 0 /\ save_open /\ save_open' = FALSE
      /\ files' = [files EXCEPT ![save_i] = a_extras[save_i].tok]
      /\ save_i' = IF save_i < c THEN save_i + 1 ELSE 0
      /\ UNCHANGED <<extras, a_extras, auto_changed, in_files, load_i>>
  BY DEF save_auto_Write, Saving
<1>1. /\ files \in Seq(Seq(Byte)) /\ Len(files) \in Nat /\ Len(files) <= USE_AUTO_EXTRAS
      /\ \A k \in 1..Len(files) : files[k] = <<>> \/ Good(files[k])
      /\ a_extras \in Seq(Row) /\ Len(a_extras) \in Nat
      /\ \A k \in 1..Len(a_extras) : Good(a_extras[k].tok) /\ a_extras[k] \in Row
  <2>1. Table(a_extras) /\ TokenFiles(files)
    BY DEF Tables
  <2>2. a_extras \in Seq(Row) /\ \A k \in 1..Len(a_extras) : Good(a_extras[k].tok)
    BY <2>1 DEF Table
  <2>3. Len(a_extras) \in Nat /\ \A k \in 1..Len(a_extras) : a_extras[k] \in Row
    BY <2>2
  <2> QED
    BY <2>1, <2>2, <2>3 DEF TokenFiles
<1>2. c \in 0..Len(a_extras) /\ c \in Nat /\ c <= USE_AUTO_EXTRAS /\ USE_AUTO_EXTRAS \in Nat
  BY <1>1, UsedCountFacts, Limits
<1>3. /\ save_i \in 1..c /\ save_i \in Nat /\ ~auto_changed
      /\ Len(files) >= save_i /\ Len(files) <= c
      /\ \A k \in 1 .. save_i - 1 : files[k] = a_extras[k].tok
  BY <1>0, <1>2 DEF Saved
<1>4. UNCHANGED UsedTokens /\ c' = c
  BY <1>0 DEF UsedTokens
<1>5. /\ UsedTokens \in Seq(Seq(Byte)) /\ Len(UsedTokens) = c
      /\ \A k \in 1..c : UsedTokens[k] = a_extras[k].tok
  BY UsedTokensFacts DEF Tables
<1> HIDE DEF c
<1>6. save_i \in 1..Len(files) /\ save_i \in 1..Len(a_extras) /\ a_extras[save_i].tok \in Seq(Byte)
  <2>1. save_i \in 1..Len(files) /\ save_i \in 1..Len(a_extras)
    BY <1>1, <1>2, <1>3
  <2> QED
    BY <1>1, <2>1, RowTokens
<1>7. /\ files' \in Seq(Seq(Byte)) /\ Len(files') = Len(files)
      /\ files'[save_i] = a_extras[save_i].tok
      /\ \A k \in 1..Len(files) : k # save_i => files'[k] = files[k]
  BY <1>0, <1>1, <1>6
<1>8. \A k \in 1..save_i : files'[k] = a_extras[k].tok
  BY <1>1, <1>3, <1>6, <1>7
<1>9. TokenFiles(files')
  BY <1>1, <1>6, <1>7 DEF TokenFiles
<1>10. Tables'
  BY <1>0, <1>9 DEF Tables
<1>11. save_i # 0 /\ stage' \notin {"load", "start"}
  BY <1>0, <1>3 DEF Saved
<1>12. CASE save_i < c
  <2>1. save_i' = save_i + 1 /\ save_i' - 1 = save_i /\ save_i' \in 0..c
    BY <1>0, <1>2, <1>3, <1>12
  <2>2. save_i' \in 0..UsedCount(a_extras)' /\ Len(files') <= UsedCount(a_extras)'
    BY <1>3, <1>4, <1>7, <2>1 DEF c
  <2>3. /\ ~auto_changed' /\ ~save_open' /\ save_i' # 0
        /\ auto_changed' \in BOOLEAN /\ save_open' \in BOOLEAN
    <3>1. save_i' # 0
      BY <1>3, <2>1
    <3> QED
      BY <1>0, <1>3, <3>1, Zenon DEF Saved
  <2>4. Len(files') >= save_i' - 1 /\ \A k \in 1 .. save_i' - 1 : files'[k] = a_extras'[k].tok
    BY <1>0, <1>3, <1>7, <1>8, <2>1
  <2>5. Saved'
    BY <1>11, <2>2, <2>3, <2>4 DEF Saved
  <2> QED
    BY <1>10, <2>5
<1>13. CASE ~(save_i < c)
  <2>1. save_i' = 0 /\ save_i = c /\ Len(files) = c
    BY <1>0, <1>1, <1>2, <1>3, <1>13
  <2>2. files' = UsedTokens
    <3>1. files' \in [1..c -> Seq(Byte)] /\ UsedTokens \in [1..c -> Seq(Byte)]
      BY <1>5, <1>7, <2>1
    <3>2. \A k \in 1..c : files'[k] = UsedTokens[k]
      BY <1>5, <1>8, <2>1
    <3> DEFINE F == files'
               U == UsedTokens
    <3> HIDE DEF F, U
    <3>3. F \in [1..c -> Seq(Byte)] /\ U \in [1..c -> Seq(Byte)] /\ \A k \in 1..c : F[k] = U[k]
      BY <3>1, <3>2 DEF F, U
    <3>4. F = [k \in 1..c |-> F[k]] /\ U = [k \in 1..c |-> U[k]]
      BY <3>3
    <3>5. [k \in 1..c |-> F[k]] = [k \in 1..c |-> U[k]]
      BY <3>3
    <3> QED
      BY <3>4, <3>5 DEF F, U
  <2>3. save_i' \in 0..c
    BY <1>2, <2>1
  <2>4. Saved'
    BY <1>0, <1>3, <1>4, <1>7, <1>11, <2>1, <2>2, <2>3 DEF Saved, c
  <2> QED
    BY <1>10, <2>4
<1> QED
  BY <1>12, <1>13

\* The four steps of save_auto().
LEMMA SaveSteps ==
  ASSUME FInv, Start \/ StatsSave \/ SaveStep \/ Stop PROVE FInv'
<1>0. /\ sc' = sc /\ cur' = cur /\ pos' = pos /\ UNCHANGED triageVars
      /\ UNCHANGED <<a_collect, a_len, extras, a_extras, in_files, load_i>>
  BY DEF Start, StatsSave, SaveStep, Stop, queueVars, bufVars, save_auto_Begin,
         save_auto_Open, save_auto_Write
<1>1. stage' = stage \/ stage' \in {"pick", "exit"}
  BY DEF Start, StatsSave, SaveStep, Stop
<1>2. Place'
  BY <1>0, <1>1 DEF FInv, Place, PlainStages, len, in_buf, Entry
<1>3. Collecting'
  BY <1>0 DEF FInv, Collecting
<1>4. ~Saving => save_i = 0
  <2>1. UsedCount(a_extras) \in Nat
    BY UsedCountFacts DEF FInv, Tables, Table
  <2> QED
    BY <2>1 DEF FInv, Saved, Saving
<1>5. Tables' /\ Saved'
  <2>1. CASE Start
    BY <2>1, BeginSaved DEF Start, FInv, Saved
  <2>2. CASE StatsSave
    <3>1. stage' \notin {"load", "start"}
      BY <2>2, StageNames DEF StatsSave, InFuzzOne, LaterStages
    <3> QED
      BY <1>4, <2>2, <3>1, BeginSaved DEF StatsSave, FInv
  <2>3. CASE SaveStep
    BY <2>3, OpenSaved, WriteSaved DEF SaveStep, FInv
  <2>4. CASE Stop
    BY <1>4, <2>4, BeginSaved DEF Stop, FInv
  <2> QED
    BY <2>1, <2>2, <2>3, <2>4
<1>6. Loaded'
  BY <1>0, <1>1 DEF FInv, Loaded, Holds
<1>7. Triaged' /\ FaultsKeptExactly'
  BY <1>0 DEF FInv, Triaged, FaultsKeptExactly, triageVars
<1> QED
  BY <1>2, <1>3, <1>5, <1>6, <1>7 DEF FInv

\* One file of load_auto(): what it holds is in the table afterwards, and the
\* table, which is not full, loses nothing.
LEMMA LoadAutoStep ==
  ASSUME FInv, LoadAuto PROVE FInv'
<1> DEFINE m == Min({USE_AUTO_EXTRAS, Len(in_files)})
           mem == in_files[load_i]
<1>0. /\ stage = "load" /\ stage' = stage /\ sc' = sc /\ cur' = cur /\ UNCHANGED triageVars
      /\ UNCHANGED <<a_collect, a_len, extras, files, in_files, save_i, save_open>>
      /\ load_i <= m /\ load_i' = load_i + 1
  BY DEF LoadAuto, load_auto_File, queueVars, bufVars
<1>1. Place' /\ Collecting'
  BY <1>0 DEF FInv, Place, PlainStages, Collecting
<1>2. Triaged' /\ FaultsKeptExactly'
  BY <1>0 DEF FInv, Triaged, FaultsKeptExactly, triageVars
<1>3. /\ in_files \in Seq(Seq(Byte)) /\ Len(in_files) \in Nat /\ Len(in_files) <= USE_AUTO_EXTRAS
      /\ \A k \in 1..Len(in_files) : in_files[k] = <<>> \/ Good(in_files[k])
      /\ Table(a_extras) /\ Len(a_extras) \in Nat
  BY DEF FInv, Tables, TokenFiles, Table
<1>4. m = IF USE_AUTO_EXTRAS <= Len(in_files) THEN USE_AUTO_EXTRAS ELSE Len(in_files)
  <2>1. USE_AUTO_EXTRAS \in Int /\ Len(in_files) \in Int
    BY <1>3, Limits
  <2> QED
    BY <2>1, MinOfTwo
<1>5. /\ extras = <<>> /\ load_i \in 1 .. m + 1 /\ Len(a_extras) < load_i
      /\ \A k \in 1 .. load_i - 1 : in_files[k] # <<>> => Holds(a_extras, in_files[k])
  BY <1>0 DEF FInv, Loaded
<1> HIDE DEF m
<1>6. /\ load_i \in 1..m /\ load_i \in 1..Len(in_files) /\ load_i \in Nat /\ m \in Nat
      /\ Len(a_extras) < MAX_AUTO_EXTRAS
  BY <1>0, <1>3, <1>4, <1>5, Limits
<1>7. mem \in Seq(Byte) /\ (mem = <<>> \/ Good(mem))
  BY <1>3, <1>6
<1>8. ~Saving
  BY <1>0 DEF FInv, Saved, Saving
<1>9. /\ Grown /\ Len(a_extras') <= Len(a_extras) + 1 /\ (mem # <<>> => Holds(a_extras', mem))
      /\ \A i \in 1..Len(a_extras) : Holds(a_extras', a_extras[i].tok)
  <2>1. CASE Len(mem) \in MIN_AUTO_EXTRA .. MAX_AUTO_EXTRA
    <3>1. maybe_add_auto(mem)
      BY <2>1 DEF LoadAuto, load_auto_File
    <3>2. mem # <<>>
      BY <2>1, Limits
    <3>3. IsToken(mem) /\ ~Dull(mem)
      BY <1>7, <3>2 DEF Good
    <3>4. ~Rejected(mem)
      BY <1>5, <3>3 DEF Rejected
    <3> HIDE DEF mem
    <3> QED
      BY <1>3, <1>6, <1>7, <3>1, <3>3, <3>4, AddedFacts DEF Grown
  <2>2. CASE ~(Len(mem) \in MIN_AUTO_EXTRA .. MAX_AUTO_EXTRA)
    <3>1. UNCHANGED <<a_extras, auto_changed>>
      BY <2>2 DEF LoadAuto, load_auto_File
    <3>2. mem = <<>>
      BY <1>7, <2>2 DEF Good, IsToken
    <3>3. \A i \in 1..Len(a_extras) : Holds(a_extras, a_extras[i].tok)
      BY SameTokenFacts DEF Holds
    <3>4. Grown
      BY <1>3, <3>1 DEF Grown
    <3> QED
      BY <1>3, <3>1, <3>2, <3>3, <3>4
  <2> QED
    BY <2>1, <2>2
<1>10. Tables' /\ Saved'
  BY <1>0, <1>8, <1>9, GrownSaved DEF FInv
<1>11. Loaded'
  <2>1. extras' = <<>> /\ load_i' \in 1 .. m + 1 /\ in_files' = in_files
    BY <1>0, <1>5, <1>6
  <2>2. Len(a_extras') < load_i'
    <3>1. Table(a_extras')
      BY <1>9 DEF Grown
    <3>2. Len(a_extras') \in Nat
      BY <3>1 DEF Table
    <3> QED
      BY <1>0, <1>3, <1>5, <1>6, <1>9, <3>2
  <2>3. ASSUME NEW k \in 1 .. load_i' - 1, in_files[k] # <<>> PROVE Holds(a_extras', in_files[k])
    <3>1. CASE k = load_i
      BY <1>9, <2>3, <3>1
    <3>2. CASE k # load_i
      <4>1. k \in 1 .. load_i - 1
        BY <1>0, <1>6, <3>2
      <4>2. Holds(a_extras, in_files[k])
        BY <1>5, <2>3, <4>1
      <4>3. PICK i \in 1..Len(a_extras) : SameToken(a_extras[i].tok, in_files[k])
        BY <4>2 DEF Holds
      <4>4. Holds(a_extras', a_extras[i].tok)
        BY <1>9
      <4> QED
        BY <4>3, <4>4, SameTokenFacts DEF Holds
    <3> QED
      BY <3>1, <3>2
  <2> QED
    BY <2>1, <2>2, <2>3 DEF Loaded, m
<1> QED
  BY <1>1, <1>2, <1>10, <1>11 DEF FInv

\* load_extras() does not touch the automatic tokens.
LEMMA LoadExtrasStep ==
  ASSUME FInv, LoadExtras PROVE FInv'
<1>0. /\ stage = "load" /\ stage' = "start" /\ sc' = sc /\ cur' = cur /\ UNCHANGED triageVars
      /\ UNCHANGED <<a_collect, a_len, a_extras, auto_changed, files, save_i, save_open>>
      /\ in_files' = <<>>
  BY DEF LoadExtras, load_extras, queueVars, bufVars
<1>1. Place' /\ Collecting'
  BY <1>0 DEF FInv, Place, PlainStages, Collecting
<1>2. Tables'
  BY <1>0, Nothing DEF FInv, Tables
<1>3. Saved'
  BY <1>0 DEF FInv, Saved, UsedTokens
<1>4. Loaded'
  BY <1>0 DEF Loaded
<1>5. Triaged' /\ FaultsKeptExactly'
  BY <1>0 DEF FInv, Triaged, FaultsKeptExactly, triageVars
<1> QED
  BY <1>1, <1>2, <1>3, <1>4, <1>5 DEF FInv

-----------------------------------------------------------------------------
(* Faults.                                                                  *)

\* The number of faults of a kind that are kept.
LEMMA KeepIsNat == \A kind \in Kinds : Keep(kind) \in Nat
  BY TriageAssumption DEF Keep, Kinds

\* The maps and the history of a session that begins.
LEMMA FreshTriage ==
  ASSUME NEW v, NEW u, NEW h,
         v = [kind \in Kinds |-> [b \in Tuples |-> Classes]],
         u = [kind \in Kinds |-> 0], h = [kind \in Kinds |-> <<>>]
  PROVE  /\ v \in [Kinds -> [Tuples -> SUBSET Classes]]
         /\ u \in [Kinds -> Nat] /\ \A kind \in Kinds : u[kind] <= Keep(kind)
         /\ h \in [Kinds -> Seq([hit : SUBSET Tuples, kept : BOOLEAN])]
         /\ \A kind \in Kinds : Len(h[kind]) = 0
         /\ \A kind \in Kinds, b \in Tuples : 1 \in v[kind][b] /\ 128 \in v[kind][b]
<1>1. \A kind \in Kinds : u[kind] = 0 /\ Keep(kind) \in Nat
  BY KeepIsNat
<1>2. \A kind \in Kinds : u[kind] <= Keep(kind)
  BY <1>1
<1>3. \A kind \in Kinds : h[kind] = <<>> /\ v[kind] = [b \in Tuples |-> Classes]
  OBVIOUS
<1>4. h \in [Kinds -> Seq([hit : SUBSET Tuples, kept : BOOLEAN])]
  OBVIOUS
<1>5. v \in [Kinds -> [Tuples -> SUBSET Classes]]
  OBVIOUS
<1>6. u \in [Kinds -> Nat]
  OBVIOUS
<1>7. \A kind \in Kinds, b \in Tuples : 1 \in v[kind][b] /\ 128 \in v[kind][b]
  BY <1>3 DEF Classes
<1> QED
  BY <1>2, <1>3, <1>4, <1>5, <1>6, <1>7

\* Whether a fault was unique does not depend on the later ones.
LEMMA UniqueIsPast ==
  ASSUME NEW h1, NEW h2, NEW i \in Nat, \A j \in 1..i : h1[j] = h2[j], i >= 1
  PROVE  Unique(h1, i) <=> Unique(h2, i)
<1>1. h1[i] = h2[i] /\ \A j \in 1 .. i - 1 : h1[j] = h2[j]
  OBVIOUS
<1> QED
  BY <1>1 DEF Unique

\* A crash or hang.  The bit 1 is left in the virgin map for the tuples that all
\* faults so far have hit, the bit 128 for those that none has hit.
LEMMA FaultStep ==
  ASSUME FInv, Fault PROVE FInv'
<1>0. /\ sc' = sc /\ cur' = cur /\ stage' = stage /\ pos' = pos
      /\ UNCHANGED <<a_collect, a_len>> /\ UNCHANGED dictVars
  BY DEF Fault, queueVars, bufVars
<1>1. Place' /\ Collecting'
  BY <1>0 DEF FInv, Place, Collecting, len, in_buf, Entry
<1>2. Tables' /\ Loaded'
  BY <1>0 DEF FInv, Tables, Loaded, dictVars, Holds
<1>3. Saved'
  BY <1>0 DEF FInv, Saved, dictVars, UsedTokens
<1>4. PICK kind \in Kinds, t \in Traces({1, 2}) : save_if_interesting(kind, t, sc.dumb)
  BY DEF Fault
<1>5. sc.dumb \in BOOLEAN
  BY FuzzOneAssumption DEF FInv, Place
<1>6. Triaged' /\ FaultsKeptExactly'
  <2>1. CASE unique[kind] >= Keep(kind)
    BY <1>0, <1>4, <2>1 DEF save_if_interesting, FInv, Triaged, FaultsKeptExactly, triageVars
  <2>2. CASE ~(unique[kind] >= Keep(kind))
    <3> DEFINE s == simplify_trace(t)
               kept == sc.dumb \/ has_new_bits(s, virgin[kind])
               fault == [hit |-> {b \in Tuples : t[b] # 0}, kept |-> kept]
               Faults == [hit : SUBSET Tuples, kept : BOOLEAN]
               h == met[kind]
               n == Len(h)
    <3>1. /\ virgin' = IF sc.dumb THEN virgin ELSE [virgin EXCEPT ![kind] = Seen(s, @)]
          /\ unique' = [unique EXCEPT ![kind] = IF kept THEN @ + 1 ELSE @]
          /\ met' = [met EXCEPT ![kind] = Append(@, fault)]
      BY <1>4, <2>2 DEF save_if_interesting
    <3>2. \A b \in Tuples : s[b] = IF t[b] = 0 THEN 1 ELSE 128
      BY DEF simplify_trace
    <3>3. kept \in BOOLEAN
      BY <1>5 DEF has_new_bits
    <3>4. /\ virgin \in [Kinds -> [Tuples -> SUBSET Classes]] /\ unique \in [Kinds -> Nat]
          /\ \A k \in Kinds : unique[k] <= Keep(k)
          /\ met \in [Kinds -> Seq(Faults)]
      BY DEF FInv, Triaged
    <3>5. ~sc.dumb => \A k \in Kinds, b \in Tuples :
            /\ 1 \in virgin[k][b] <=> \A j \in 1..Len(met[k]) : b \in met[k][j].hit
            /\ 128 \in virgin[k][b] <=> \A j \in 1..Len(met[k]) : b \notin met[k][j].hit
      BY DEF FInv, Triaged
    <3>6. ~sc.dumb => (kept <=> has_new_bits(s, virgin[kind]))
      OBVIOUS
    <3>7. sc.dumb => kept
      OBVIOUS
    <3>8. has_new_bits(s, virgin[kind]) <=> \E b \in Tuples : s[b] \in virgin[kind][b]
      BY DEF has_new_bits
    <3>9. ~sc.dumb => \A b \in Tuples : virgin'[kind][b] = virgin[kind][b] \ {s[b]}
      BY <3>1, <3>4 DEF Seen
    <3>10. \A k \in Kinds : k # kind => virgin'[k] = virgin[k]
      BY <3>1, <3>4
    <3>11. virgin' \in [Kinds -> [Tuples -> SUBSET Classes]]
      <4>1. CASE sc.dumb
        BY <3>1, <3>4, <4>1
      <4>2. CASE ~sc.dumb
        <5>1. Seen(s, virgin[kind]) \in [Tuples -> SUBSET Classes]
          BY <3>4 DEF Seen
        <5> QED
          BY <3>1, <3>4, <4>2, <5>1
      <4> QED
        BY <1>5, <4>1, <4>2
    <3> HIDE DEF s, kept
    <3>12. fault \in Faults /\ fault.hit = {b \in Tuples : t[b] # 0} /\ fault.kept = kept
      BY <3>3
    <3> HIDE DEF fault, Faults
    <3>13. h \in Seq(Faults) /\ n \in Nat
      BY <3>4
    <3>14. /\ met'[kind] = Append(h, fault)
           /\ \A k \in Kinds : k # kind => met'[k] = met[k]
      BY <3>1, <3>4
    <3> HIDE DEF h
    <3>15. /\ Append(h, fault) \in Seq(Faults) /\ Len(Append(h, fault)) = n + 1
           /\ Append(h, fault)[n + 1] = fault
           /\ \A j \in 1..n : Append(h, fault)[j] = h[j]
      BY <3>12, <3>13
    <3>16. met' \in [Kinds -> Seq(Faults)]
      BY <3>1, <3>4, <3>15 DEF h
    <3> DEFINE h2 == met'[kind]
    <3>17. /\ Len(h2) = n + 1 /\ h2[n + 1] = fault
           /\ \A j \in 1..n : h2[j] = h[j]
      BY <3>14, <3>15
    <3> HIDE DEF h2
    <3>18. \A j \in 1..Len(h2) : j \in 1..n \/ j = n + 1
      BY <3>13, <3>17
    <3>19. n + 1 \in 1..Len(h2) /\ \A j \in 1..n : j \in 1..Len(h2)
      BY <3>13, <3>17
    <3>20. unique' \in [Kinds -> Nat] /\ \A k \in Kinds : unique'[k] <= Keep(k)
      <4>1. unique[kind] \in Nat /\ unique[kind] + 1 <= Keep(kind) /\ unique[kind] <= Keep(kind)
        BY <2>2, <3>4, KeepIsNat
      <4>2. CASE kept
        <5>1. unique' = [unique EXCEPT ![kind] = unique[kind] + 1]
          BY <3>1, <4>2
        <5> QED
          BY <3>4, <4>1, <5>1
      <4>3. CASE ~kept
        <5>1. unique' = [unique EXCEPT ![kind] = unique[kind]]
          BY <3>1, <4>3
        <5> QED
          BY <3>4, <4>1, <5>1
      <4> QED
        BY <4>2, <4>3
    <3>21. ASSUME ~sc.dumb, NEW k \in Kinds, NEW b \in Tuples
           PROVE  /\ 1 \in virgin'[k][b] <=> \A j \in 1..Len(met'[k]) : b \in met'[k][j].hit
                  /\ 128 \in virgin'[k][b] <=> \A j \in 1..Len(met'[k]) : b \notin met'[k][j].hit
      <4>1. CASE k # kind
        BY <3>5, <3>10, <3>14, <3>21, <4>1
      <4>2. CASE k = kind
        <5>1. /\ 1 \in virgin[kind][b] <=> \A j \in 1..n : b \in h[j].hit
              /\ 128 \in virgin[kind][b] <=> \A j \in 1..n : b \notin h[j].hit
          BY <3>5, <3>21 DEF h
        <5>2. virgin'[kind][b] = virgin[kind][b] \ {s[b]}
          BY <3>9, <3>21
        <5>3. s[b] = IF t[b] = 0 THEN 1 ELSE 128
          BY <3>2
        <5>4. b \in fault.hit <=> t[b] # 0
          BY <3>12
        <5>5. 1 \in virgin'[kind][b] <=> \A j \in 1..Len(h2) : b \in h2[j].hit
          <6>1. 1 \in virgin'[kind][b] <=> 1 \in virgin[kind][b] /\ t[b] # 0
            BY <5>2, <5>3
          <6>2. (\A j \in 1..Len(h2) : b \in h2[j].hit) <=> (\A j \in 1..n : b \in h[j].hit) /\ b \in fault.hit
            BY <3>17, <3>18, <3>19
          <6> QED
            BY <5>1, <5>4, <6>1, <6>2
        <5>6. 128 \in virgin'[kind][b] <=> \A j \in 1..Len(h2) : b \notin h2[j].hit
          <6>1. 128 \in virgin'[kind][b] <=> 128 \in virgin[kind][b] /\ t[b] = 0
            BY <5>2, <5>3
          <6>2. (\A j \in 1..Len(h2) : b \notin h2[j].hit) <=> (\A j \in 1..n : b \notin h[j].hit) /\ b \notin fault.hit
            BY <3>17, <3>18, <3>19
          <6> QED
            BY <5>1, <5>4, <6>1, <6>2
        <5> QED
          BY <4>2, <5>5, <5>6 DEF h2
      <4> QED
        BY <4>1, <4>2
    <3>22. Triaged'
      BY <1>0, <3>11, <3>16, <3>20, <3>21 DEF Triaged, Faults
    <3>23. ~sc.dumb => (kept <=> Unique(h2, n + 1))
      <4> SUFFICES ASSUME ~sc.dumb PROVE kept <=> Unique(h2, n + 1)
        OBVIOUS
      <4>1. kept <=> \E b \in Tuples : s[b] \in virgin[kind][b]
        BY <3>6, <3>8
      <4>2. \A b \in Tuples :
              /\ 1 \in virgin[kind][b] <=> \A j \in 1..n : b \in h[j].hit
              /\ 128 \in virgin[kind][b] <=> \A j \in 1..n : b \notin h[j].hit
        BY <3>5 DEF h
      <4>3. (n + 1) - 1 = n
        BY <3>13
      <4>4. Unique(h2, n + 1) <=>
              \/ \E b \in fault.hit : \A j \in 1..n : b \notin h[j].hit
              \/ \E b \in Tuples \ fault.hit : \A j \in 1..n : b \in h[j].hit
        BY <3>17, <4>3 DEF Unique
      <4>5. ASSUME NEW b \in Tuples, s[b] \in virgin[kind][b] PROVE Unique(h2, n + 1)
        <5>1. CASE t[b] = 0
          BY <3>2, <3>12, <4>2, <4>4, <4>5, <5>1
        <5>2. CASE t[b] # 0
          BY <3>2, <3>12, <4>2, <4>4, <4>5, <5>2
        <5> QED
          BY <5>1, <5>2
      <4>6. ASSUME Unique(h2, n + 1) PROVE \E b \in Tuples : s[b] \in virgin[kind][b]
        <5>1. CASE \E b \in fault.hit : \A j \in 1..n : b \notin h[j].hit
          <6>1. PICK b \in fault.hit : \A j \in 1..n : b \notin h[j].hit
            BY <5>1
          <6>2. b \in Tuples /\ s[b] = 128 /\ 128 \in virgin[kind][b]
            BY <3>2, <3>12, <4>2, <6>1
          <6> QED
            BY <6>2
        <5>2. CASE \E b \in Tuples \ fault.hit : \A j \in 1..n : b \in h[j].hit
          <6>1. PICK b \in Tuples \ fault.hit : \A j \in 1..n : b \in h[j].hit
            BY <5>2
          <6>2. b \in Tuples /\ s[b] = 1 /\ 1 \in virgin[kind][b]
            BY <3>2, <3>12, <4>2, <6>1
          <6> QED
            BY <6>2
        <5> QED
          BY <4>4, <4>6, <5>1, <5>2
      <4> QED
        BY <3>3, <4>1, <4>5, <4>6
    <3>24. ASSUME NEW k \in Kinds, NEW i \in 1..Len(met'[k])
           PROVE  met'[k][i].kept <=> (sc.dumb \/ Unique(met'[k], i))
      <4>1. CASE k # kind
        <5>1. met'[k] = met[k]
          BY <3>14, <4>1
        <5> QED
          BY <5>1 DEF FInv, FaultsKeptExactly
      <4>2. CASE k = kind /\ i = n + 1
        <5>1. met'[k][i].kept = kept /\ met'[k] = h2
          BY <3>12, <3>17, <4>2 DEF h2
        <5>2. kept <=> (sc.dumb \/ Unique(h2, n + 1))
          BY <3>7, <3>23
        <5> QED
          BY <4>2, <5>1, <5>2
      <4>3. CASE k = kind /\ i \in 1..n
        <5>1. met'[k] = h2 /\ h2[i] = h[i]
          BY <3>17, <4>3 DEF h2
        <5>2. i \in Nat /\ i >= 1 /\ \A j \in 1..i : h2[j] = h[j]
          BY <3>13, <3>17, <4>3
        <5>3. Unique(h2, i) <=> Unique(h, i)
          BY <5>2, UniqueIsPast
        <5>4. h[i].kept <=> (sc.dumb \/ Unique(h, i))
          BY <4>3 DEF FInv, FaultsKeptExactly, h
        <5> QED
          BY <5>1, <5>3, <5>4
      <4> QED
        BY <3>18, <4>1, <4>2, <4>3 DEF h2
    <3>25. FaultsKeptExactly'
      BY <1>0, <3>24 DEF FaultsKeptExactly
    <3> QED
      BY <3>22, <3>25
  <2> QED
    BY <2>1, <2>2
<1> QED
  BY <1>1, <1>2, <1>3, <1>6 DEF FInv

-----------------------------------------------------------------------------
(* Sessions begin and end.                                                  *)

\* A restart.
LEMMA RestartStep ==
  ASSUME FInv, Restart PROVE FInv'
<1>0. /\ sc' = sc /\ cur' = 0 /\ stage' = "load" /\ UNCHANGED <<a_collect, a_len>>
      /\ in_files' \in {files, in_files} /\ files' = <<>> /\ extras' = <<>>
      /\ a_extras' = <<>> /\ auto_changed' = FALSE
      /\ load_i' = 1 /\ save_i' = 0 /\ save_open' = FALSE
      /\ RestartTriage
  BY DEF Restart, RestartDictionary, bufVars
<1>1. Place' /\ Collecting'
  BY <1>0 DEF FInv, Place, PlainStages, Collecting
<1>2. TokenFiles(in_files')
  BY <1>0 DEF FInv, Tables
<1>3. Tables'
  BY <1>0, <1>2, Nothing DEF Tables
<1>4. Saved'
  <2>1. UsedTokens' = <<>> /\ UsedCount(a_extras') = 0 /\ Len(files') = 0
    BY <1>0, Nothing DEF UsedTokens
  <2>2. ~auto_changed' /\ auto_changed' \in BOOLEAN /\ save_open' \in BOOLEAN
    BY <1>0, Zenon
  <2> QED
    BY <1>0, <2>1, <2>2 DEF Saved
<1>5. Loaded'
  <2>1. Len(in_files') \in Nat /\ USE_AUTO_EXTRAS \in Nat
    BY <1>2, Limits DEF TokenFiles
  <2>2. Min({USE_AUTO_EXTRAS, Len(in_files')}) \in Nat
    <3>1. Min({USE_AUTO_EXTRAS, Len(in_files')}) =
            IF USE_AUTO_EXTRAS <= Len(in_files') THEN USE_AUTO_EXTRAS ELSE Len(in_files')
      BY <2>1, MinOfTwo
    <3> QED
      BY <2>1, <3>1
  <2> DEFINE m == Min({USE_AUTO_EXTRAS, Len(in_files')})
  <2> HIDE DEF m
  <2>3. 1 \in 1 .. m + 1
    BY <2>2 DEF m
  <2>4. Len(a_extras') < load_i' /\ \A k \in 1 .. load_i' - 1 : FALSE
    BY <1>0
  <2> QED
    BY <1>0, <2>3, <2>4 DEF Loaded, m
<1>6. Triaged' /\ FaultsKeptExactly'
  <2>1. /\ virgin' \in [Kinds -> [Tuples -> SUBSET Classes]]
        /\ unique' \in [Kinds -> Nat] /\ \A kind \in Kinds : unique'[kind] <= Keep(kind)
        /\ met' \in [Kinds -> Seq([hit : SUBSET Tuples, kept : BOOLEAN])]
        /\ \A kind \in Kinds : Len(met'[kind]) = 0
        /\ \A kind \in Kinds, b \in Tuples : 1 \in virgin'[kind][b] /\ 128 \in virgin'[kind][b]
    BY <1>0, FreshTriage DEF RestartTriage
  <2>2. \A kind \in Kinds : \A j \in 1..Len(met'[kind]) : FALSE
    BY <2>1
  <2> QED
    BY <2>1, <2>2 DEF Triaged, FaultsKeptExactly
<1> QED
  BY <1>1, <1>3, <1>4, <1>5, <1>6 DEF FInv

\* The first session.
LEMMA InitHolds == Init => FInv
<1> SUFFICES ASSUME Init PROVE FInv
  OBVIOUS
<1> USE DEF Init, InitDictionary, InitTriage
<1>1. Place
  BY DEF Place, PlainStages
<1>2. Collecting
  BY NothingHolds DEF Holding, Collecting
<1>3. Tables
  BY Nothing DEF Tables
<1>4. Saved
  <2>1. UsedTokens = <<>> /\ UsedCount(a_extras) = 0 /\ Len(files) = 0
    BY Nothing DEF UsedTokens
  <2>2. ~auto_changed /\ auto_changed \in BOOLEAN /\ save_open \in BOOLEAN
    BY Zenon
  <2> QED
    BY <2>1, <2>2 DEF Saved
<1>5. Loaded
  <2>1. Len(in_files) = 0
    OBVIOUS
  <2>2. Min({USE_AUTO_EXTRAS, 0}) = 0
    BY MinOfTwo, Limits
  <2>3. Min({USE_AUTO_EXTRAS, Len(in_files)}) = 0
    BY <2>1, <2>2
  <2>4. load_i \in 1 .. Min({USE_AUTO_EXTRAS, Len(in_files)}) + 1
    BY <2>3
  <2>5. Len(a_extras) < load_i /\ \A k \in 1 .. load_i - 1 : FALSE
    OBVIOUS
  <2> QED
    BY <2>4, <2>5 DEF Loaded
<1>6. Triaged /\ FaultsKeptExactly
  <2>1. /\ virgin \in [Kinds -> [Tuples -> SUBSET Classes]]
        /\ unique \in [Kinds -> Nat] /\ \A kind \in Kinds : unique[kind] <= Keep(kind)
        /\ met \in [Kinds -> Seq([hit : SUBSET Tuples, kept : BOOLEAN])]
        /\ \A kind \in Kinds : Len(met[kind]) = 0
        /\ \A kind \in Kinds, b \in Tuples : 1 \in virgin[kind][b] /\ 128 \in virgin[kind][b]
    BY FreshTriage
  <2>2. \A kind \in Kinds : \A j \in 1..Len(met[kind]) : FALSE
    BY <2>1
  <2> QED
    BY <2>1, <2>2 DEF Triaged, FaultsKeptExactly
<1> QED
  BY <1>1, <1>2, <1>3, <1>4, <1>5, <1>6 DEF FInv

\* Every step of fuzz_one() and of the sessions around it.
LEMMA StepHolds == FInv /\ [Next]_vars => FInv'
<1> SUFFICES ASSUME FInv, [Next]_vars PROVE FInv'
  OBVIOUS
<1>1. CASE LoadAuto
  BY <1>1, LoadAutoStep
<1>2. CASE LoadExtras
  BY <1>2, LoadExtrasStep
<1>3. CASE Start \/ StatsSave \/ SaveStep \/ Stop
  BY <1>3, SaveSteps
<1>4. CASE Flip1
  BY <1>4, Flip1Step
<1>5. CASE QuietNext
  BY <1>5, QuietSteps
<1>6. CASE Fault
  BY <1>6, FaultStep
<1>7. CASE Restart
  BY <1>7, RestartStep
<1>8. CASE UNCHANGED vars
  <2> USE <1>8 DEF vars, queueVars, bufVars, histVars, dictVars, triageVars
  <2>1. Place' /\ Collecting'
    BY DEF FInv, Place, Collecting, len, in_buf, Entry
  <2>2. Tables' /\ Loaded'
    BY DEF FInv, Tables, Loaded, Holds
  <2>3. Saved'
    BY DEF FInv, Saved, UsedTokens
  <2>4. Triaged' /\ FaultsKeptExactly'
    BY DEF FInv, Triaged, FaultsKeptExactly
  <2> QED
    BY <2>1, <2>2, <2>3, <2>4 DEF FInv
<1> QED
  BY <1>1, <1>2, <1>3, <1>4, <1>5, <1>6, <1>7, <1>8 DEF Next, DetNext, QuietNext

-----------------------------------------------------------------------------
(* The theorems.                                                            *)

\* The inductive invariant holds of afl-fuzz from the first session on, for every
\* queue, dictionary, number of restarts and size of the tables.
THEOREM FuzzOneInvariant == Spec => []FInv
  BY InitHolds, StepHolds, PTL DEF Spec

\* The tables of maybe_add_auto() stay within their limits and hold no token
\* twice, a_collect[] is never written past its end although a_len is counted
\* on, and no more faults are kept than KEEP_UNIQUE_CRASH and KEEP_UNIQUE_HANG.
THEOREM TablesStayInBounds == Spec => []TypeOK
<1>1. FInv => TypeOK
  <2> SUFFICES ASSUME FInv PROVE TypeOK
    OBVIOUS
  <2>1. stage \in Range(Stages) \cup {"load", "start", "pick", "havoc", "stop", "exit"}
    BY DEF FInv, Place, PlainStages
  <2>2. /\ Table(a_extras) /\ TokenFiles(files) /\ a_extras \in Seq(Row)
        /\ Len(a_extras) \in Nat /\ Len(a_extras) <= MAX_AUTO_EXTRAS /\ Len(files) <= USE_AUTO_EXTRAS
    BY DEF FInv, Tables, Table, TokenFiles
  <2>3. ASSUME NEW k \in 1..Len(a_extras)
        PROVE  /\ IsToken(a_extras[k].tok) /\ a_extras[k].hit_cnt \in Nat
               /\ \A i \in 1 .. k - 1 : ~SameToken(a_extras[i].tok, a_extras[k].tok)
    <3>1. IsToken(a_extras[k].tok)
      BY <2>2 DEF Table, Good
    <3>2. a_extras[k] \in Row
      BY <2>2
    <3>3. a_extras[k].hit_cnt \in Nat
      BY <3>2 DEF Row
    <3>4. \A i \in 1..Len(a_extras) : SameToken(a_extras[i].tok, a_extras[k].tok) => i = k
      BY <2>2 DEF Table
    <3>5. \A i \in 1 .. k - 1 : i \in 1..Len(a_extras) /\ i # k
      BY <2>2
    <3> QED
      BY <3>1, <3>3, <3>4, <3>5
  <2>4. \A k \in 1..Len(files) : files[k] = <<>> \/ IsToken(files[k])
    BY <2>2 DEF TokenFiles, Good
  <2>5. Len(a_collect) = Min({a_len, MAX_AUTO_EXTRA})
    BY DEF FInv, Collecting
  <2>6. save_i \in 0..USE_AUTO_EXTRAS
    <3>1. UsedCount(a_extras) \in Nat /\ UsedCount(a_extras) <= USE_AUTO_EXTRAS
      BY <2>2, UsedCountFacts
    <3>2. save_i \in 0..UsedCount(a_extras)
      BY DEF FInv, Saved
    <3> QED
      BY <3>1, <3>2, Limits
  <2>7. save_open \in BOOLEAN /\ auto_changed \in BOOLEAN
    BY DEF FInv, Saved
  <2>8. \A kind \in Kinds : unique[kind] <= Keep(kind)
    BY DEF FInv, Triaged
  <2> QED
    BY <2>1, <2>2, <2>3, <2>4, <2>5, <2>6, <2>7, <2>8 DEF TypeOK
<1> QED
  BY <1>1, FuzzOneInvariant, PTL

\* save_if_interesting() keeps a crash or a hang exactly if it is unique among
\* the faults of the session, whatever the targets do and in whatever order.
THEOREM FaultsAreTriaged == Spec => []FaultsKeptExactly
<1>1. FInv => FaultsKeptExactly
  BY DEF FInv
<1> QED
  BY <1>1, FuzzOneInvariant, PTL

\* save_auto() and load_auto() carry the used tokens from session to session,
\* with a kill possible between open() and write() of every file.
THEOREM TokensAreKept == Spec => []TokensSurvive
<1>1. FInv => TokensSurvive
  <2> SUFFICES ASSUME FInv PROVE TokensSurvive
    OBVIOUS
  <2>1. ~Saving /\ ~auto_changed => files = UsedTokens
    <3>1. UsedCount(a_extras) \in Nat
      BY UsedCountFacts DEF FInv, Tables, Table
    <3>2. ~Saving => save_i = 0
      BY <3>1 DEF FInv, Saved, Saving
    <3> QED
      BY <3>2 DEF FInv, Saved
  <2>2. stage = "load" => \A k \in 1 .. load_i - 1 :
          in_files[k] # <<>> => Holds(a_extras, in_files[k])
    BY DEF FInv, Loaded
  <2> QED
    BY <2>1, <2>2 DEF TokensSurvive, Holds
<1> QED
  BY <1>1, FuzzOneInvariant, PTL

-----------------------------------------------------------------------------
(* Eviction.                                                                *)

\* Beyond the used tokens, which are sorted by length, no token has been seen
\* more often than one before it.
Ranked(T) ==
  \A i, k \in 1..Len(T) : i < k /\ USE_AUTO_EXTRAS < k => T[k].hit_cnt <= T[i].hit_cnt

\* The sort by length does not take a token across that border.
LEMMA SortedRanks ==
  ASSUME NEW T \in Seq(Row), NEW r \in Sorted(T)
  PROVE  Ranked(r)
<1>1. PICK s \in Sorts(T, UseKeys(T)) :
        r \in {used \o SubSeq(s, UsedCount(s) + 1, Len(s)) :
                 used \in LET u == SubSeq(s, 1, UsedCount(s)) IN Sorts(u, LengthKeys(Tokens(u)))}
  BY DEF Sorted
<1> DEFINE n == Len(T)  c == UsedCount(s)  u == SubSeq(s, 1, c)  v == SubSeq(s, c + 1, Len(s))
<1>2. PICK used \in Sorts(u, LengthKeys(Tokens(u))) : r = used \o v
  BY <1>1
<1>3. s \in Seq(Row) /\ Len(s) = n /\ n \in Nat /\ \A k \in 1..n : s[k] \in Row
  BY <1>1, SortsPermutes DEF Permuted
<1>4. \A i, j \in 1..n : i < j => s[j].hit_cnt <= s[i].hit_cnt
  <2>1. PICK p \in Bijection(1..n, 1..n) :
          /\ \A i, j \in 1..n : i < j => UseKeys(T)[p[i]] <= UseKeys(T)[p[j]]
          /\ s = [k \in 1..n |-> T[p[k]]]
    BY <1>1 DEF Sorts
  <2>2. p \in [1..n -> 1..n]
    BY <2>1, BijectionFacts
  <2>3. \A k \in 1..n : T[k].hit_cnt \in Nat /\ UseKeys(T)[k] = -T[k].hit_cnt
    <3>1. \A k \in 1..n : T[k] \in Row
      OBVIOUS
    <3> QED
      BY <3>1 DEF Row, UseKeys
  <2>4. ASSUME NEW i \in 1..n, NEW j \in 1..n, i < j PROVE s[j].hit_cnt <= s[i].hit_cnt
    <3>1. UseKeys(T)[p[i]] <= UseKeys(T)[p[j]] /\ p[i] \in 1..n /\ p[j] \in 1..n
      BY <2>1, <2>2, <2>4
    <3>2. s[i] = T[p[i]] /\ s[j] = T[p[j]]
      BY <2>1
    <3>3. -T[p[i]].hit_cnt <= -T[p[j]].hit_cnt /\ T[p[i]].hit_cnt \in Nat /\ T[p[j]].hit_cnt \in Nat
      BY <2>3, <3>1
    <3> QED
      BY <3>2, <3>3
  <2> QED
    BY <2>4
<1>5. /\ c = IF USE_AUTO_EXTRAS <= n THEN USE_AUTO_EXTRAS ELSE n
      /\ c \in 0..n /\ USE_AUTO_EXTRAS \in Nat
  <2>1. UsedCount(s) = IF USE_AUTO_EXTRAS <= Len(s) THEN USE_AUTO_EXTRAS ELSE Len(s)
    BY <1>3, UsedCountFacts
  <2>2. UsedCount(s) \in 0..Len(s)
    BY <1>3, UsedCountFacts
  <2> QED
    BY <1>3, <2>1, <2>2, Limits
<1> HIDE DEF c
<1>6. /\ u \in Seq(Row) /\ Len(u) = c /\ \A k \in 1..c : u[k] = s[k]
      /\ v \in Seq(Row) /\ Len(v) = n - c /\ \A k \in 1 .. n - c : v[k] = s[c + k]
  <2>0. s \in Seq(Row) /\ Len(s) = n /\ n \in Nat /\ c \in 0..n
    BY <1>3, <1>5
  <2>1. u \in Seq(Row) /\ Len(u) = c /\ \A k \in 1..c : u[k] = s[k]
    BY <2>0
  <2>2. v \in Seq(Row) /\ Len(v) = n - c /\ \A k \in 1 .. n - c : v[k] = s[c + k]
    BY <2>0
  <2> QED
    BY <2>1, <2>2
<1> HIDE DEF u, v
<1>7. used \in Seq(Row) /\ Len(used) = c /\ \A k \in 1..c : \E x \in 1..c : used[k] = s[x]
  <2>1. used \in Seq(Row) /\ Permuted(used, u)
    BY <1>2, <1>6, SortsPermutes
  <2>2. PICK p2 \in Bijection(1..c, 1..c) : \A k \in 1..c : used[k] = u[p2[k]]
    BY <1>6, <2>1 DEF Permuted
  <2>3. p2 \in [1..c -> 1..c]
    BY <2>2, BijectionFacts
  <2>4. Len(used) = c
    BY <1>6, <2>1 DEF Permuted
  <2>5. \A k \in 1..c : p2[k] \in 1..c /\ used[k] = s[p2[k]]
    BY <1>6, <2>2, <2>3
  <2> QED
    BY <2>1, <2>4, <2>5
<1>8. Len(r) = n
  BY <1>2, <1>5, <1>6, <1>7
<1>9. \A k \in 1..n : k <= c => r[k] = used[k]
  BY <1>2, <1>5, <1>6, <1>7
<1>10. ASSUME NEW k \in 1..n, ~(k <= c) PROVE r[k] = s[k]
  <2>1. r[k] = v[k - c]
    BY <1>2, <1>5, <1>6, <1>7, <1>10
  <2>2. k - c \in 1 .. n - c /\ c + (k - c) = k
    BY <1>5, <1>10
  <2> QED
    BY <1>6, <2>1, <2>2
<1>11. ASSUME NEW i \in 1..n, NEW k \in 1..n, i < k, USE_AUTO_EXTRAS < k
       PROVE  r[k].hit_cnt <= r[i].hit_cnt
  <2>1. c = USE_AUTO_EXTRAS /\ ~(k <= c)
    BY <1>3, <1>5, <1>11
  <2>2. r[k] = s[k]
    BY <1>10, <2>1
  <2>3. CASE i <= c
    <3>1. i \in 1..c
      BY <1>5, <2>3
    <3>2. PICK x \in 1..c : r[i] = s[x]
      BY <1>7, <1>9, <2>3, <3>1, ZenonT(40)
    <3>3. x \in 1..n /\ x < k
      BY <1>5, <2>1
    <3> QED
      BY <1>4, <2>2, <3>2, <3>3
  <2>4. CASE ~(i <= c)
    BY <1>4, <1>10, <1>11, <2>2, <2>4
  <2> QED
    BY <2>3, <2>4
<1> QED
  BY <1>8, <1>11 DEF Ranked

\* maybe_add_auto() leaves the table ranked.
LEMMA AddedRanks ==
  ASSUME Table(a_extras), Ranked(a_extras), NEW mem \in Seq(Byte), IsToken(mem),
         maybe_add_auto(mem)
  PROVE  Ranked(a_extras')
<1>1. CASE Rejected(mem)
  BY <1>1 DEF maybe_add_auto
<1>2. CASE ~Rejected(mem)
  <2>1. PICK T \in Updated(mem) : a_extras' \in Sorted(T)
    BY <1>2 DEF maybe_add_auto
  <2>2. Good(mem)
    BY <1>2 DEF Good, Rejected
  <2>3. T \in Seq(Row)
    BY <2>1, <2>2, UpdatedTable DEF Table
  <2> QED
    BY <2>1, <2>3, SortedRanks
<1> QED
  BY <1>1, <1>2

\* What a step does with the table: nothing, or maybe_add_auto() with some token.
LEMMA TableSteps ==
  ASSUME FInv, [Next]_vars
  PROVE  \/ a_extras' = a_extras
         \/ a_extras' = <<>> /\ stage' = "load"
         \/ \E mem \in Seq(Byte) : IsToken(mem) /\ maybe_add_auto(mem)
<1>1. CASE LoadAuto
  <2>1. CASE Len(in_files[load_i]) \in MIN_AUTO_EXTRA .. MAX_AUTO_EXTRA
    <3> DEFINE mem == in_files[load_i]
    <3>1. maybe_add_auto(mem)
      BY <1>1, <2>1 DEF LoadAuto, load_auto_File
    <3>2. /\ in_files \in Seq(Seq(Byte)) /\ Len(in_files) \in Nat
          /\ load_i \in Nat \ {0} /\ USE_AUTO_EXTRAS \in Nat
      <4>1. in_files \in Seq(Seq(Byte)) /\ Len(in_files) \in Nat
        BY DEF FInv, Tables, TokenFiles
      <4>2. load_i \in 1 .. Min({USE_AUTO_EXTRAS, Len(in_files)}) + 1
        BY <1>1 DEF FInv, Loaded, LoadAuto
      <4> QED
        BY <4>1, <4>2, Limits
    <3>3. Min({USE_AUTO_EXTRAS, Len(in_files)}) =
            IF USE_AUTO_EXTRAS <= Len(in_files) THEN USE_AUTO_EXTRAS ELSE Len(in_files)
      BY <3>2, MinOfTwo
    <3>4. load_i <= Min({USE_AUTO_EXTRAS, Len(in_files)})
      BY <1>1 DEF LoadAuto, load_auto_File
    <3>5. load_i \in 1..Len(in_files)
      BY <3>2, <3>3, <3>4
    <3>6. mem \in Seq(Byte)
      BY <3>2, <3>5
    <3>7. IsToken(mem)
      BY <2>1, <3>6 DEF IsToken
    <3> QED
      BY <3>1, <3>6, <3>7
  <2>2. CASE ~(Len(in_files[load_i]) \in MIN_AUTO_EXTRA .. MAX_AUTO_EXTRA)
    BY <1>1, <2>2 DEF LoadAuto, load_auto_File
  <2> QED
    BY <2>1, <2>2
<1>2. CASE Flip1
  <2>1. CASE sc.dumb
    <3>1. a_extras' = a_extras
      BY <1>2, <2>1 DEF Flip1
    <3> QED
      BY <3>1
  <2>2. CASE ~sc.dumb
    <3> DEFINE cksum == Entry.lsb[pos + 1]
               byte == in_buf[pos + 1]
               last == pos = len - 1
               final == last /\ cksum = prev_cksum
               changed == ~final /\ cksum # prev_cksum
               grab == Collected(a_collect, a_len, byte)
               offers == \/ final /\ Worthwhile(a_len + 1)
                         \/ changed /\ Worthwhile(a_len)
               tok == IF final THEN grab ELSE a_collect
    <3>1. TokenStep(cksum, byte, last)
      BY <1>2, <2>2 DEF Flip1
    <3>2. Offer(offers, tok)
      BY <3>1 DEF TokenStep
    <3>3. byte \in Byte /\ Holding(a_collect, a_len)
      BY <1>2, ByteAtPos DEF FInv, Collecting, Holding, Flip1
    <3> HIDE DEF cksum, byte, last
    <3>4. Holding(grab, a_len + 1)
      BY <3>3, CollectedHolds
    <3> HIDE DEF grab
    <3>5. offers => tok \in Seq(Byte) /\ IsToken(tok)
      <4>1. CASE final
        <5>1. (offers => Worthwhile(a_len + 1)) /\ tok = grab
          BY <4>1
        <5> QED
          BY <3>4, <5>1, HoldingToken
      <4>2. CASE ~final
        <5>1. (offers => Worthwhile(a_len)) /\ tok = a_collect
          BY <4>2
        <5> QED
          BY <3>3, <5>1, HoldingToken
      <4> QED
        BY <4>1, <4>2
    <3> HIDE DEF offers, tok
    <3>6. CASE offers
      <4>1. tok \in Seq(Byte) /\ IsToken(tok) /\ maybe_add_auto(tok)
        BY <3>2, <3>5, <3>6, Zenon DEF Offer
      <4> QED
        BY <4>1
    <3>7. CASE ~offers
      <4>1. UNCHANGED <<a_extras, auto_changed, offered>>
        BY <3>2, <3>7, Zenon DEF Offer
      <4>2. a_extras' = a_extras
        BY <4>1
      <4> QED
        BY <4>2
    <3> QED
      BY <3>6, <3>7
  <2> QED
    BY <2>1, <2>2
<1>3. CASE LoadExtras \/ Start \/ StatsSave \/ SaveStep \/ Stop
  <2>1. a_extras' = a_extras
    BY <1>3 DEF LoadExtras, load_extras, Start, StatsSave, SaveStep, Stop, save_auto_Begin,
                save_auto_Open, save_auto_Write
  <2> QED
    BY <2>1
<1>4. CASE Fault
  <2>1. a_extras' = a_extras
    BY <1>4 DEF Fault, dictVars
  <2> QED
    BY <2>1
<1>5. CASE Restart
  BY <1>5 DEF Restart, RestartDictionary
<1>6. CASE Skip \/ Pick \/ mark_as_det_done \/ Havoc \/ Abandon
  <2>1. a_extras' = a_extras
    BY <1>6 DEF Skip, Pick, mark_as_det_done, Havoc, Abandon, dictVars
  <2> QED
    BY <2>1
<1>7. CASE Flip24 \/ Flip8 \/ Flip1632 \/ Arith \/ Interest \/ ExtrasInsert
  <2>1. a_extras' = a_extras
    BY <1>7 DEF Flip24, Flip8, Flip1632, Arith, Interest, ExtrasInsert, Do, dictVars
  <2> QED
    BY <2>1
<1>8. CASE ExtrasOver \/ AutoExtrasOver
  <2>1. a_extras' = a_extras
    BY <1>8 DEF ExtrasOver, AutoExtrasOver, OverToken, OverRestore, dictVars
  <2> QED
    BY <2>1
<1>9. CASE UNCHANGED vars
  <2>1. a_extras' = a_extras
    BY <1>9 DEF vars, dictVars
  <2> QED
    BY <2>1
<1> QED
  BY <1>1, <1>2, <1>3, <1>4, <1>5, <1>6, <1>7, <1>8, <1>9 DEF Next, DetNext

\* Only a full table loses a token, one from its lower half, and all the
\* tokens of the upper half stay.
LEMMA EvictedFacts ==
  ASSUME Table(a_extras), NEW mem \in Seq(Byte), IsToken(mem), maybe_add_auto(mem),
         NEW k \in 1..Len(a_extras),
         \A j \in 1..Len(a_extras') : a_extras'[j].tok # a_extras[k].tok
  PROVE  /\ Len(a_extras) = MAX_AUTO_EXTRAS /\ k > MAX_AUTO_EXTRAS \div 2
         /\ \A i \in 1..Len(a_extras) : i # k =>
              \E j \in 1..Len(a_extras') : a_extras'[j].tok = a_extras[i].tok
<1> DEFINE A == a_extras
           hit == {x \in 1..Len(a_extras) : SameToken(a_extras[x].tok, mem)}
           new == [tok |-> mem, hit_cnt |-> 0]
           half == MAX_AUTO_EXTRAS \div 2
<1>0. /\ A \in Seq(Row) /\ Len(A) \in Nat /\ Len(A) <= MAX_AUTO_EXTRAS /\ MAX_AUTO_EXTRAS \in Nat \ {0}
      /\ \A x \in 1..Len(A) : A[x] \in Row
  BY Limits DEF Table
<1>1. ~Rejected(mem)
  BY DEF maybe_add_auto
<1>2. PICK T \in Updated(mem) : a_extras' \in Sorted(T)
  BY <1>1 DEF maybe_add_auto
<1>3. Table(T) /\ (Len(A) < MAX_AUTO_EXTRAS => \A i \in 1..Len(A) : \E j \in 1..Len(T) : T[j].tok = A[i].tok)
  BY <1>1, <1>2, UpdatedTable DEF Good, Rejected
<1>4. \A i \in 1..Len(T) : \E j \in 1..Len(a_extras') : a_extras'[j].tok = T[i].tok
  <2>1. a_extras' \in Seq(Row) /\ Permuted(a_extras', T)
    BY <1>2, <1>3, SortedPermutes DEF Table
  <2> QED
    BY <1>3, <2>1, PermutedTable
<1>5. \A j \in 1..Len(T) : T[j].tok # A[k].tok
  BY <1>4
<1>6. Len(A) = MAX_AUTO_EXTRAS
  BY <1>0, <1>3, <1>5
<1>7. hit = {}
  <2> SUFFICES ASSUME hit # {} PROVE FALSE
    OBVIOUS
  <2>1. T = [A EXCEPT ![Min(hit)].hit_cnt = @ + 1]
    BY <1>2 DEF Updated
  <2> DEFINE h == Min(hit)
  <2> HIDE DEF hit, A, h
  <2>2. T = [A EXCEPT ![h].hit_cnt = @ + 1]
    BY <2>1 DEF h
  <2>3. A \in [1..Len(A) -> Row]
    BY <1>0
  <2>4. Len(T) = Len(A) /\ k \in 1..Len(A)
    <3>1. DOMAIN T = 1..Len(A)
      BY <2>2, <2>3
    <3>2. T \in Seq(Row)
      BY <1>3 DEF Table
    <3> QED
      BY <1>0, <3>1, <3>2 DEF A
  <2>5. T[k].tok = A[k].tok
    <3>1. A[k] \in Row
      BY <1>0, <2>4
    <3>2. CASE k = h
      <4>1. T[k] = [A[k] EXCEPT !.hit_cnt = @ + 1]
        BY <2>2, <2>3, <2>4, <3>2
      <4> QED
        BY <3>1, <4>1 DEF Row
    <3>3. CASE k # h
      BY <2>2, <2>3, <2>4, <3>3
    <3> QED
      BY <3>2, <3>3
  <2> QED
    BY <1>5, <2>4, <2>5
<1>8. PICK x \in 0 .. (MAX_AUTO_EXTRAS + 1) \div 2 - 1 : T = [A EXCEPT ![half + 1 + x] = new]
  BY <1>0, <1>2, <1>6, <1>7 DEF Updated
<1>9. half + 1 + x \in 1..Len(A) /\ half + 1 + x > half
  BY <1>0, <1>6
<1> DEFINE y == half + 1 + x
<1>10. /\ T \in Seq(Row) /\ Len(T) = Len(A) /\ \A i \in 1..Len(A) : i # y => T[i] = A[i]
  <2>1. T \in Seq(Row)
    BY <1>3 DEF Table
  <2> HIDE DEF A, new, half, y
  <2>2. DOMAIN T = DOMAIN A /\ \A i \in 1..Len(A) : i # y => T[i] = A[i]
    BY <1>0, <1>8 DEF y
  <2> QED
    BY <1>0, <2>1, <2>2
<1>11. k = y
  BY <1>5, <1>10
<1>12. ASSUME NEW i \in 1..Len(A), i # k PROVE \E j \in 1..Len(a_extras') : a_extras'[j].tok = A[i].tok
  <2>1. i \in 1..Len(T) /\ T[i].tok = A[i].tok
    BY <1>10, <1>11, <1>12
  <2> QED
    BY <1>4, <2>1
<1> QED
  BY <1>6, <1>9, <1>11, <1>12

\* Half of the tokens stay, and they have been seen at least as often.
LEMMA EvictionStep ==
  ASSUME FInv, Ranked(a_extras), [Next]_vars, stage' # "load"
  PROVE  LET stay == {k \in 1..Len(a_extras) :
                        \E j \in 1..Len(a_extras') : a_extras'[j].tok = a_extras[k].tok}
         IN  \A k \in (1..Len(a_extras)) \ stay :
               Cardinality({j \in stay : a_extras[j].hit_cnt >= a_extras[k].hit_cnt})
                 >= MAX_AUTO_EXTRAS \div 2
<1> DEFINE stay == {k \in 1..Len(a_extras) :
                      \E j \in 1..Len(a_extras') : a_extras'[j].tok = a_extras[k].tok}
           half == MAX_AUTO_EXTRAS \div 2
<1> SUFFICES ASSUME NEW k \in (1..Len(a_extras)) \ stay
             PROVE  Cardinality({j \in stay : a_extras[j].hit_cnt >= a_extras[k].hit_cnt}) >= half
  OBVIOUS
<1>1. \A j \in 1..Len(a_extras') : a_extras'[j].tok # a_extras[k].tok
  OBVIOUS
<1>2. PICK mem \in Seq(Byte) : IsToken(mem) /\ maybe_add_auto(mem)
  BY <1>1, TableSteps
<1>3. /\ Len(a_extras) = MAX_AUTO_EXTRAS /\ k > half
      /\ \A i \in 1..Len(a_extras) : i # k => i \in stay
  BY <1>1, <1>2, EvictedFacts DEF FInv, Tables
<1> DEFINE S == {j \in stay : a_extras[j].hit_cnt >= a_extras[k].hit_cnt}
<1>4. MAX_AUTO_EXTRAS \in Nat /\ USE_AUTO_EXTRAS \in Nat /\ half \in Nat /\ USE_AUTO_EXTRAS <= half
      /\ half <= MAX_AUTO_EXTRAS
  BY Limits
<1>5. a_extras \in Seq(Row) /\ k \in 1..Len(a_extras) /\ k \in Nat
  BY DEF FInv, Tables, Table
<1> HIDE DEF half
<1>6. ASSUME NEW i \in 1..half PROVE i \in S
  <2>1. i \in 1..Len(a_extras) /\ i < k /\ USE_AUTO_EXTRAS < k
    BY <1>3, <1>4, <1>5
  <2>2. i \in stay /\ a_extras[k].hit_cnt <= a_extras[i].hit_cnt
    BY <1>3, <1>5, <2>1 DEF Ranked
  <2>3. a_extras[k].hit_cnt \in Nat /\ a_extras[i].hit_cnt \in Nat
    <3>1. a_extras[k] \in Row /\ a_extras[i] \in Row
      BY <1>5, <2>1
    <3> QED
      BY <3>1 DEF Row
  <2> QED
    BY <2>2, <2>3
<1>7. S \subseteq 1..Len(a_extras)
  OBVIOUS
<1> HIDE DEF S, stay
<1>8. IsFiniteSet(1..Len(a_extras)) /\ IsFiniteSet(1..half) /\ Cardinality(1..half) = half
  BY <1>3, <1>4, FS_Interval
<1>9. IsFiniteSet(S)
  BY <1>7, <1>8, FS_Subset
<1>10. 1..half \subseteq S
  BY <1>6
<1>11. Cardinality(1..half) <= Cardinality(S)
  BY <1>9, <1>10, FS_Subset
<1>12. Cardinality(S) \in Nat
  BY <1>9, FS_CardinalityType
<1>13. Cardinality(S) >= half
  BY <1>4, <1>8, <1>11, <1>12
<1> QED
  BY <1>13 DEF S

\* A token leaves the automatic dictionary only when the table is full, and then
\* half of the table or more stays that was seen at least as often.
THEOREM EvictionSparesTheUsed == Spec => EvictsLeastUsed
<1>1. Init => Ranked(a_extras)
  BY DEF Init, InitDictionary, Ranked
<1>2. FInv /\ Ranked(a_extras) /\ [Next]_vars => Ranked(a_extras)'
  <2> SUFFICES ASSUME FInv, Ranked(a_extras), [Next]_vars PROVE Ranked(a_extras')
    OBVIOUS
  <2>1. CASE a_extras' = a_extras
    BY <2>1
  <2>2. CASE a_extras' = <<>>
    BY <2>2 DEF Ranked
  <2>3. CASE \E mem \in Seq(Byte) : IsToken(mem) /\ maybe_add_auto(mem)
    BY <2>3, AddedRanks DEF FInv, Tables
  <2> QED
    BY <2>1, <2>2, <2>3, TableSteps
<1> DEFINE Evict ==
      stage # "load" /\ stage' # "load" =>
        LET stay == {k \in 1..Len(a_extras) :
                       \E j \in 1..Len(a_extras') : a_extras'[j].tok = a_extras[k].tok}
        IN  \A k \in (1..Len(a_extras)) \ stay :
              Cardinality({j \in stay : a_extras[j].hit_cnt >= a_extras[k].hit_cnt})
                >= MAX_AUTO_EXTRAS \div 2
<1>3. FInv /\ Ranked(a_extras) /\ [Next]_vars => [Evict]_vars
  BY EvictionStep
<1>4. Spec => [][Evict]_vars
  <2> HIDE DEF Evict
  <2> QED
    BY <1>1, <1>2, <1>3, FuzzOneInvariant, PTL DEF Spec
<1> QED
  BY <1>4, PTL DEF EvictsLeastUsed

-----------------------------------------------------------------------------
(* The tokens the walking bit finds.                                        *)

lsb == Entry.lsb

\* The runs that ended before byte p, as the byte after them showed.
EndedBefore(p) == {r \in Runs : r[2] < p}

\* After p bytes: prev_cksum is that of the last one, and a_collect has the bytes
\* of the run it is in, as many as there is room for.
Walking(p) ==
  /\ prev_cksum = IF p = 0 THEN 0 ELSE lsb[p]
  /\ prev_cksum = 0 => a_len = 0
  /\ prev_cksum # 0 =>
       /\ a_len \in 1..p
       /\ \A k \in p - a_len + 1 .. p : lsb[k] = prev_cksum
       /\ p = a_len \/ lsb[p - a_len] # prev_cksum
       /\ \A k \in 1..Len(a_collect) : a_collect[k] = in_buf[p - a_len + k]

\* The second inductive invariant.
WInv ==
  /\ offered \in Seq(Seq(Byte))
  /\ stage = "flip1" /\ ~sc.dumb => Walking(pos) /\ Lists(offered, EndedBefore(pos))
  /\ TokensExact

\* The parts of a longer sequence.
LEMMA AppendParts ==
  ASSUME NEW S, NEW s \in Seq(S), NEW e \in S
  PROVE  /\ Len(s) \in Nat /\ Len(Append(s, e)) = Len(s) + 1
         /\ Append(s, e)[Len(s) + 1] = e
         /\ \A k \in 1..Len(s) : Append(s, e)[k] = s[k]
  OBVIOUS

\* One more token, of a run further on.
LEMMA ListsAppend ==
  ASSUME NEW toks \in Seq(Seq(Byte)), NEW R, NEW S, NEW x, Lists(toks, R), S = R \cup {x},
         \A r \in R : r[2] < x[2], NEW tok \in Seq(Byte), tok = SubSeq(in_buf, x[1], x[2])
  PROVE  Lists(Append(toks, tok), S)
<1> DEFINE n == Len(toks)
           toks2 == Append(toks, tok)
<1>1. PICK at \in [1..n -> R] :
        /\ \A i, j \in 1..n : i < j => at[i][2] < at[j][2]
        /\ \A r \in R : \E k \in 1..n : at[k] = r
        /\ \A k \in 1..n : toks[k] = SubSeq(in_buf, at[k][1], at[k][2])
  BY DEF Lists
<1>2. /\ n \in Nat /\ Len(toks2) = n + 1 /\ toks2[n + 1] = tok
      /\ \A k \in 1..n : toks2[k] = toks[k]
  BY AppendParts, ZenonT(40)
<1> HIDE DEF toks2
<1> DEFINE at2 == [k \in 1 .. n + 1 |-> IF k = n + 1 THEN x ELSE at[k]]
<1>3. \A k \in 1 .. n + 1 : k # n + 1 => k \in 1..n
  BY <1>2
<1>4. n + 1 \in 1 .. n + 1 /\ \A k \in 1..n : k \in 1 .. n + 1 /\ k # n + 1
  BY <1>2
<1>5. at2[n + 1] = x /\ \A k \in 1..n : at2[k] = at[k]
  BY <1>4
<1>6. at2 \in [1 .. n + 1 -> S]
  BY <1>1, <1>3
<1> HIDE DEF at2
<1>7. ASSUME NEW i \in 1 .. n + 1, NEW j \in 1 .. n + 1, i < j PROVE at2[i][2] < at2[j][2]
  <2>1. i \in 1..n
    BY <1>2, <1>7
  <2>2. CASE j = n + 1
    <3>1. at[i] \in R /\ at2[i] = at[i] /\ at2[j] = x
      BY <1>1, <1>5, <2>1, <2>2
    <3> QED
      BY <3>1
  <2>3. CASE j # n + 1
    BY <1>1, <1>3, <1>5, <1>7, <2>1, <2>3
  <2> QED
    BY <2>2, <2>3
<1>8. ASSUME NEW r \in S PROVE \E k \in 1 .. n + 1 : at2[k] = r
  <2>1. CASE r = x
    BY <1>4, <1>5, <2>1
  <2>2. CASE r \in R
    <3>1. PICK k \in 1..n : at[k] = r
      BY <1>1, <2>2
    <3> QED
      BY <1>4, <1>5, <3>1
  <2> QED
    BY <2>1, <2>2
<1>9. ASSUME NEW k \in 1 .. n + 1 PROVE toks2[k] = SubSeq(in_buf, at2[k][1], at2[k][2])
  <2>1. CASE k = n + 1
    BY <1>2, <1>5, <2>1
  <2>2. CASE k # n + 1
    BY <1>1, <1>2, <1>3, <1>5, <2>2
  <2> QED
    BY <2>1, <2>2
<1>10. Lists(toks2, S)
  <2>1. 1..Len(toks2) = 1 .. n + 1
    BY <1>2
  <2>2. /\ \A i, j \in 1 .. n + 1 : i < j => at2[i][2] < at2[j][2]
        /\ \A r \in S : \E k \in 1 .. n + 1 : at2[k] = r
        /\ \A k \in 1 .. n + 1 : toks2[k] = SubSeq(in_buf, at2[k][1], at2[k][2])
    BY <1>7, <1>8, <1>9
  <2>3. /\ at2 \in [1..Len(toks2) -> S]
        /\ \A i, j \in 1..Len(toks2) : i < j => at2[i][2] < at2[j][2]
        /\ \A r \in S : \E k \in 1..Len(toks2) : at2[k] = r
        /\ \A k \in 1..Len(toks2) : toks2[k] = SubSeq(in_buf, at2[k][1], at2[k][2])
    BY <1>6, <2>1, <2>2, Zenon
  <2> QED
    BY <2>3, Zenon DEF Lists
<1> QED
  BY <1>10 DEF toks2

\* What is known in the middle of the walking bit.
LEMMA WalkTypes ==
  ASSUME FInv, stage = "flip1"
  PROVE  /\ len \in Nat \ {0} /\ pos \in 0 .. len - 1 /\ pos \in Nat
         /\ in_buf \in Seq(Byte) /\ Len(in_buf) = len
         /\ a_len \in Nat /\ a_collect \in Seq(Byte)
         /\ Len(a_collect) = IF a_len <= MAX_AUTO_EXTRA THEN a_len ELSE MAX_AUTO_EXTRA
<1>1. sc \in Scenarios /\ cur \in 1..Len(sc.queue) /\ pos \in 0 .. len - 1
  BY DEF FInv, Place
<1>2. in_buf \in Seq(Byte) /\ len = Len(in_buf)
  BY <1>1, FuzzOneAssumption DEF in_buf, Entry, len
<1> HIDE DEF in_buf
<1>3. len \in Nat
  BY <1>2
<1>4. len \in Nat \ {0} /\ pos \in Nat
  BY <1>1, <1>3
<1>5. a_len \in Nat /\ a_collect \in Seq(Byte) /\ Len(a_collect) = Min({a_len, MAX_AUTO_EXTRA})
  BY DEF FInv, Collecting
<1>6. Min({a_len, MAX_AUTO_EXTRA}) = IF a_len <= MAX_AUTO_EXTRA THEN a_len ELSE MAX_AUTO_EXTRA
  <2>1. a_len \in Int /\ MAX_AUTO_EXTRA \in Int
    BY <1>5, Limits
  <2> QED
    BY <2>1, MinOfTwo
<1> QED
  BY <1>1, <1>2, <1>4, <1>5, <1>6

EndingAt(p) == {r \in Runs : r[2] = p}

\* What it means to be a run.
LEMMA RunFacts ==
  ASSUME NEW r \in Runs, len \in Nat
  PROVE  /\ r = <<r[1], r[2]>> /\ r[1] \in 1..len /\ r[2] \in 1..len /\ r[1] <= r[2]
         /\ Worthwhile(r[2] - r[1] + 1)
         /\ \A k \in r[1] .. r[2] : lsb[k] = lsb[r[1]] /\ lsb[k] # 0
         /\ r[1] = 1 \/ lsb[r[1] - 1] # lsb[r[1]]
         /\ r[2] = len \/ lsb[r[2] + 1] # lsb[r[2]]
  BY DEF Runs, SameEffect, lsb

\* The run that ends at p, where the bytes from b to p are as long as they can be.
LEMMA RunEndingAt ==
  ASSUME len \in Nat, NEW p \in 1..len, NEW b \in 1..p, NEW v, v # 0,
         \A k \in b..p : lsb[k] = v, b = 1 \/ lsb[b - 1] # v, p = len \/ lsb[p + 1] # v
  PROVE  /\ Worthwhile(p - b + 1) => EndingAt(p) = {<<b, p>>}
         /\ ~Worthwhile(p - b + 1) => EndingAt(p) = {}
<1>1. p \in Nat /\ b \in Nat /\ b \in 1..len /\ b \in b..p /\ p \in b..p
  OBVIOUS
<1>2. ASSUME NEW r \in EndingAt(p) PROVE r = <<b, p>> /\ Worthwhile(p - b + 1)
  <2>1. r \in Runs /\ r[2] = p
    BY DEF EndingAt
  <2>2. /\ r = <<r[1], r[2]>> /\ r[1] \in 1..len /\ r[1] <= p
        /\ Worthwhile(p - r[1] + 1)
        /\ \A k \in r[1] .. p : lsb[k] = lsb[r[1]]
        /\ r[1] = 1 \/ lsb[r[1] - 1] # lsb[r[1]]
    BY <2>1, RunFacts
  <2> DEFINE a == r[1]
  <2> HIDE DEF a
  <2>3. a \in 1..p /\ a \in Nat /\ p \in a..p
    BY <1>1, <2>2 DEF a
  <2>4. lsb[p] = lsb[a] /\ lsb[p] = v
    BY <1>1, <2>2, <2>3 DEF a
  <2>5. ~(a < b)
    <3> SUFFICES ASSUME a < b PROVE FALSE
      OBVIOUS
    <3>1. b # 1 /\ b - 1 \in a..p
      BY <1>1, <2>3
    <3>2. lsb[b - 1] = lsb[a]
      BY <2>2, <3>1 DEF a
    <3> QED
      BY <2>4, <3>1, <3>2
  <2>6. ~(a > b)
    <3> SUFFICES ASSUME a > b PROVE FALSE
      OBVIOUS
    <3>1. a # 1 /\ a - 1 \in b..p
      BY <1>1, <2>3
    <3>2. lsb[a - 1] = v
      BY <3>1
    <3>3. lsb[a - 1] # lsb[a]
      BY <2>2, <3>1 DEF a
    <3> QED
      BY <2>4, <3>2, <3>3
  <2>7. a = b
    BY <1>1, <2>3, <2>5, <2>6
  <2> QED
    BY <2>1, <2>2, <2>7 DEF a
<1>3. ASSUME Worthwhile(p - b + 1) PROVE <<b, p>> \in EndingAt(p)
  <2>1. <<b, p>> \in (1..len) \X (1..len) /\ <<b, p>>[1] = b /\ <<b, p>>[2] = p
    BY <1>1
  <2>2. SameEffect(b, p)
    BY <1>1 DEF SameEffect, lsb
  <2>3. (b = 1 \/ Entry.lsb[b - 1] # Entry.lsb[b]) /\ (p = len \/ Entry.lsb[p + 1] # Entry.lsb[p])
    BY <1>1 DEF lsb
  <2>4. <<b, p>> \in Runs
    BY <1>1, <1>3, <2>1, <2>2, <2>3 DEF Runs
  <2> QED
    BY <2>1, <2>4 DEF EndingAt
<1> QED
  BY <1>2, <1>3

\* Where the runs end, seen from byte pos + 1.
LEMMA EndOfByte ==
  ASSUME FInv, stage = "flip1", Walking(pos)
  PROVE  /\ lsb[pos + 1] = prev_cksum => EndingAt(pos) = {}
         /\ lsb[pos + 1] # prev_cksum =>
              IF Worthwhile(a_len) THEN EndingAt(pos) = {<<pos - a_len + 1, pos>>}
                                   ELSE EndingAt(pos) = {}
         /\ pos = len - 1 /\ lsb[pos + 1] # prev_cksum => EndingAt(len) = {}
         /\ pos = len - 1 /\ lsb[pos + 1] = prev_cksum =>
              IF Worthwhile(a_len + 1) THEN EndingAt(len) = {<<pos - a_len + 1, len>>}
                                       ELSE EndingAt(len) = {}
<1>0. /\ len \in Nat \ {0} /\ pos \in 0 .. len - 1 /\ pos \in Nat /\ a_len \in Nat
      /\ MIN_AUTO_EXTRA \in Nat /\ MAX_AUTO_EXTRA \in Nat /\ 1 < MIN_AUTO_EXTRA
  BY WalkTypes, Limits
<1>1. /\ pos # 0 => prev_cksum = lsb[pos]
      /\ pos = 0 => prev_cksum = 0
      /\ prev_cksum = 0 => a_len = 0
      /\ prev_cksum # 0 => /\ a_len \in 1..pos
                           /\ \A k \in pos - a_len + 1 .. pos : lsb[k] = prev_cksum
                           /\ pos = a_len \/ lsb[pos - a_len] # prev_cksum
  BY DEF Walking
<1>2. ~Worthwhile(0) /\ ~Worthwhile(1)
  BY <1>0 DEF Worthwhile
<1>3. ASSUME NEW r \in EndingAt(pos)
      PROVE  pos # 0 /\ lsb[pos + 1] # lsb[pos] /\ lsb[pos] # 0
  <2>1. /\ r[1] \in 1..len /\ r[2] \in 1..len /\ r[1] <= r[2] /\ r[2] = pos
        /\ \A k \in r[1] .. r[2] : lsb[k] # 0
        /\ r[2] = len \/ lsb[r[2] + 1] # lsb[r[2]]
    BY <1>0, RunFacts DEF EndingAt
  <2>2. pos \in r[1] .. r[2] /\ pos # 0 /\ pos # len
    BY <1>0, <2>1
  <2> QED
    BY <2>1, <2>2
<1>4. lsb[pos + 1] = prev_cksum => EndingAt(pos) = {}
  BY <1>1, <1>3
<1>5. ASSUME lsb[pos + 1] # prev_cksum
      PROVE  IF Worthwhile(a_len) THEN EndingAt(pos) = {<<pos - a_len + 1, pos>>}
                                  ELSE EndingAt(pos) = {}
  <2>1. CASE prev_cksum = 0
    <3>1. EndingAt(pos) = {}
      BY <1>1, <1>3, <2>1
    <3> QED
      BY <1>1, <1>2, <2>1, <3>1
  <2>2. CASE prev_cksum # 0
    <3> DEFINE b == pos - a_len + 1
    <3>1. /\ pos \in 1..len /\ b \in 1..pos /\ pos - b + 1 = a_len /\ b - 1 = pos - a_len
          /\ (b = 1 <=> pos = a_len)
      BY <1>0, <1>1, <2>2
    <3>2. (\A k \in b..pos : lsb[k] = prev_cksum) /\ (b = 1 \/ lsb[b - 1] # prev_cksum)
      BY <1>1, <2>2, <3>1
    <3> HIDE DEF b
    <3>3. /\ Worthwhile(pos - b + 1) => EndingAt(pos) = {<<b, pos>>}
          /\ ~Worthwhile(pos - b + 1) => EndingAt(pos) = {}
      BY <1>0, <1>5, <2>2, <3>1, <3>2, RunEndingAt
    <3> QED
      BY <3>1, <3>3 DEF b
  <2> QED
    BY <2>1, <2>2
<1>6. ASSUME pos = len - 1, lsb[pos + 1] # prev_cksum PROVE EndingAt(len) = {}
  <2> SUFFICES ASSUME NEW r \in EndingAt(len) PROVE FALSE
    OBVIOUS
  <2>1. /\ r[1] \in 1..len /\ r[1] <= r[2] /\ r[2] = len
        /\ Worthwhile(len - r[1] + 1)
        /\ \A k \in r[1] .. r[2] : lsb[k] = lsb[r[1]]
    BY <1>0, RunFacts DEF EndingAt
  <2>2. len - r[1] + 1 > 1
    BY <1>0, <2>1 DEF Worthwhile
  <2>3. pos \in r[1] .. r[2] /\ pos + 1 \in r[1] .. r[2] /\ pos # 0
    BY <1>0, <1>6, <2>1, <2>2
  <2>4. lsb[pos] = lsb[pos + 1]
    BY <2>1, <2>3
  <2> QED
    BY <1>1, <1>6, <2>3, <2>4
<1>7. ASSUME pos = len - 1, lsb[pos + 1] = prev_cksum
      PROVE  IF Worthwhile(a_len + 1) THEN EndingAt(len) = {<<pos - a_len + 1, len>>}
                                      ELSE EndingAt(len) = {}
  <2>1. pos + 1 = len
    BY <1>0, <1>7
  <2>2. CASE prev_cksum = 0
    <3>1. EndingAt(len) = {}
      <4> SUFFICES ASSUME NEW r \in EndingAt(len) PROVE FALSE
        OBVIOUS
      <4>1. /\ r[1] \in 1..len /\ r[1] <= r[2] /\ r[2] = len
            /\ \A k \in r[1] .. r[2] : lsb[k] # 0
        BY <1>0, RunFacts DEF EndingAt
      <4>2. len \in r[1] .. r[2]
        BY <1>0, <4>1
      <4> QED
        BY <1>7, <2>1, <2>2, <4>1, <4>2
    <3>2. a_len + 1 = 1
      BY <1>1, <2>2
    <3> QED
      BY <1>2, <3>1, <3>2
  <2>3. CASE prev_cksum # 0
    <3> DEFINE b == pos - a_len + 1
    <3>1. /\ len \in 1..len /\ b \in 1..len /\ len - b + 1 = a_len + 1 /\ b - 1 = pos - a_len
          /\ (b = 1 <=> pos = a_len) /\ \A k \in b..len : k = pos + 1 \/ k \in b..pos
      BY <1>0, <1>1, <1>7, <2>3
    <3>2. \A k \in pos - a_len + 1 .. pos : lsb[k] = prev_cksum
      BY <1>1, <2>3
    <3>3. (\A k \in b..len : lsb[k] = prev_cksum) /\ (b = 1 \/ lsb[b - 1] # prev_cksum)
      BY <1>1, <1>7, <2>3, <3>1, <3>2
    <3> HIDE DEF b
    <3>4. /\ Worthwhile(len - b + 1) => EndingAt(len) = {<<b, len>>}
          /\ ~Worthwhile(len - b + 1) => EndingAt(len) = {}
      BY <1>0, <2>3, <3>1, <3>3, RunEndingAt
    <3> QED
      BY <3>1, <3>4 DEF b
  <2> QED
    BY <2>2, <2>3
<1> QED
  BY <1>4, <1>5, <1>6, <1>7

\* Equal bytes make equal strings.
LEMMA SameString ==
  ASSUME NEW s \in Seq(Byte), NEW t \in Seq(Byte), Len(s) = Len(t),
         \A k \in 1..Len(s) : s[k] = t[k]
  PROVE  s = t
  OBVIOUS

\* What has been collected is the string of the run.
LEMMA CollectedString ==
  ASSUME FInv, stage = "flip1", Walking(pos), prev_cksum # 0
  PROVE  /\ Worthwhile(a_len) => a_collect = SubSeq(in_buf, pos - a_len + 1, pos)
         /\ Worthwhile(a_len + 1) =>
              Collected(a_collect, a_len, in_buf[pos + 1]) = SubSeq(in_buf, pos - a_len + 1, pos + 1)
<1>0. /\ len \in Nat \ {0} /\ pos \in 0 .. len - 1 /\ pos \in Nat /\ a_len \in Nat
      /\ in_buf \in Seq(Byte) /\ Len(in_buf) = len /\ a_collect \in Seq(Byte)
      /\ Len(a_collect) = IF a_len <= MAX_AUTO_EXTRA THEN a_len ELSE MAX_AUTO_EXTRA
      /\ MIN_AUTO_EXTRA \in Nat /\ MAX_AUTO_EXTRA \in Nat
  BY WalkTypes, Limits
<1>1. a_len \in 1..pos /\ \A k \in 1..Len(a_collect) : a_collect[k] = in_buf[pos - a_len + k]
  BY DEF Walking
<1> DEFINE b == pos - a_len + 1
           S(e) == SubSeq(in_buf, b, e)
<1>2. b \in 1..pos /\ b \in Nat /\ pos \in 1..len /\ pos + 1 \in 1..len
  BY <1>0, <1>1
<1> HIDE DEF in_buf
<1>3. ASSUME NEW e \in {pos, pos + 1}
      PROVE  /\ S(e) \in Seq(Byte) /\ Len(S(e)) = e - b + 1
             /\ \A k \in 1 .. e - b + 1 : S(e)[k] = in_buf[b + k - 1]
  <2> HIDE DEF b
  <2>1. e \in b..len
    BY <1>0, <1>2
  <2> QED
    BY <1>0, <1>2, <2>1
<1> HIDE DEF S
<1>4. ASSUME Worthwhile(a_len) PROVE a_collect = S(pos)
  <2>1. Len(a_collect) = a_len /\ pos - b + 1 = a_len
    BY <1>0, <1>4 DEF Worthwhile
  <2>2. \A k \in 1..a_len : b + k - 1 = pos - a_len + k
    BY <1>0
  <2>3. \A k \in 1..a_len : a_collect[k] = S(pos)[k]
    BY <1>1, <1>3, <2>1, <2>2
  <2>4. S(pos) \in Seq(Byte) /\ Len(S(pos)) = a_len
    BY <1>3, <2>1
  <2> QED
    BY <1>0, <2>1, <2>3, <2>4, SameString
<1>5. ASSUME Worthwhile(a_len + 1)
      PROVE  Collected(a_collect, a_len, in_buf[pos + 1]) = S(pos + 1)
  <2>1. a_len < MAX_AUTO_EXTRA /\ Len(a_collect) = a_len /\ (pos + 1) - b + 1 = a_len + 1
    BY <1>0, <1>5 DEF Worthwhile
  <2> DEFINE g == Append(a_collect, in_buf[pos + 1])
  <2>2. Collected(a_collect, a_len, in_buf[pos + 1]) = g
    BY <2>1 DEF Collected
  <2>3. in_buf[pos + 1] \in Byte
    BY <1>0, <1>2
  <2>4. /\ g \in Seq(Byte) /\ Len(g) = a_len + 1 /\ g[a_len + 1] = in_buf[pos + 1]
        /\ \A k \in 1..a_len : g[k] = a_collect[k]
    BY <1>0, <2>1, <2>3
  <2> HIDE DEF g
  <2>5. S(pos + 1) \in Seq(Byte) /\ Len(S(pos + 1)) = a_len + 1
    BY <1>3, <2>1
  <2>6. ASSUME NEW k \in 1 .. a_len + 1 PROVE g[k] = S(pos + 1)[k]
    <3>1. S(pos + 1)[k] = in_buf[b + k - 1]
      BY <1>3, <2>1
    <3>2. b + k - 1 = pos - a_len + k
      BY <1>0
    <3>3. CASE k = a_len + 1
      <4>1. b + k - 1 = pos + 1
        BY <1>0, <3>3
      <4> QED
        BY <2>4, <3>1, <3>3, <4>1
    <3>4. CASE k # a_len + 1
      <4>1. k \in 1..a_len
        BY <1>0, <3>4
      <4> QED
        BY <1>1, <2>1, <2>4, <3>1, <3>2, <4>1
    <3> QED
      BY <3>3, <3>4
  <2>7. g = S(pos + 1)
    BY <2>4, <2>5, <2>6, SameString
  <2> QED
    BY <2>2, <2>7
<1> QED
  BY <1>4, <1>5 DEF S

\* How the set of ended runs grows.
LEMMA EndedGrows ==
  ASSUME FInv, stage = "flip1"
  PROVE  /\ EndedBefore(pos + 1) = EndedBefore(pos) \cup EndingAt(pos)
         /\ pos = len - 1 => Runs = EndedBefore(pos + 1) \cup EndingAt(len)
         /\ \A r \in EndedBefore(pos) : r[2] < pos /\ r[2] < len
         /\ EndedBefore(0) = {}
<1>0. len \in Nat \ {0} /\ pos \in 0 .. len - 1 /\ pos \in Nat
  BY WalkTypes
<1>1. \A r \in Runs : r[2] \in 1..len
  BY <1>0, RunFacts
<1>2. \A r \in Runs :
        /\ r[2] < pos + 1 <=> (r[2] < pos \/ r[2] = pos)
        /\ pos = len - 1 => r[2] < pos + 1 \/ r[2] = len
        /\ ~(r[2] < 0)
        /\ r[2] < pos => r[2] < len
  BY <1>0, <1>1
<1>3. EndedBefore(pos + 1) = EndedBefore(pos) \cup EndingAt(pos)
  <2>1. \A r \in Runs : r[2] < pos + 1 <=> (r[2] < pos \/ r[2] = pos)
    BY <1>2, Zenon
  <2> HIDE DEF Runs
  <2> QED
    BY <2>1, Zenon DEF EndedBefore, EndingAt
<1>4. pos = len - 1 => Runs = EndedBefore(pos + 1) \cup EndingAt(len)
  <2>1. pos = len - 1 => \A r \in Runs : r[2] < pos + 1 \/ r[2] = len
    BY <1>2, Zenon
  <2> QED
    BY <2>1, Zenon DEF EndedBefore, EndingAt
<1>5. \A r \in EndedBefore(pos) : r[2] < pos /\ r[2] < len
  BY <1>2, Zenon DEF EndedBefore
<1>6. EndedBefore(0) = {}
  BY <1>2, Zenon DEF EndedBefore
<1> QED
  BY <1>3, <1>4, <1>5, <1>6

\* What one byte offers to the dictionary.
LEMMA OfferedStep ==
  ASSUME FInv, WInv, Flip1, ~sc.dumb
  PROVE  /\ offered' \in Seq(Seq(Byte))
         /\ pos # len - 1 => Lists(offered', EndedBefore(pos + 1))
         /\ pos = len - 1 => Lists(offered', Runs)
<1> DEFINE c == lsb[pos + 1]
           byte == in_buf[pos + 1]
           last == pos = len - 1
           final == last /\ c = prev_cksum
           changed == ~final /\ c # prev_cksum
           grab == Collected(a_collect, a_len, byte)
           offers == \/ final /\ Worthwhile(a_len + 1)
                     \/ changed /\ Worthwhile(a_len)
           tok == IF final THEN grab ELSE a_collect
<1>0. stage = "flip1" /\ Walking(pos) /\ Lists(offered, EndedBefore(pos)) /\ offered \in Seq(Seq(Byte))
  BY DEF Flip1, WInv
<1>1. Offer(offers, tok)
  BY DEF Flip1, TokenStep, lsb
<1>2. /\ len \in Nat \ {0} /\ pos \in 0 .. len - 1 /\ pos \in Nat /\ a_len \in Nat
      /\ MIN_AUTO_EXTRA \in Nat /\ MAX_AUTO_EXTRA \in Nat /\ 1 < MIN_AUTO_EXTRA
      /\ a_collect \in Seq(Byte)
  BY <1>0, WalkTypes, Limits
<1>3. prev_cksum = 0 => ~Worthwhile(a_len) /\ ~Worthwhile(a_len + 1)
  <2>1. prev_cksum = 0 => a_len = 0
    BY <1>0 DEF Walking
  <2> QED
    BY <1>2, <2>1 DEF Worthwhile
<1>4. grab \in Seq(Byte)
  <2>1. byte \in Byte
    BY <1>0, ByteAtPos
  <2>2. Holding(a_collect, a_len)
    BY DEF FInv, Collecting, Holding
  <2> QED
    BY <2>1, <2>2, CollectedHolds DEF Holding
<1> HIDE DEF byte
<1>5. /\ EndedBefore(pos + 1) = EndedBefore(pos) \cup EndingAt(pos)
      /\ pos = len - 1 => Runs = EndedBefore(pos + 1) \cup EndingAt(len)
      /\ \A r \in EndedBefore(pos) : r[2] < pos /\ r[2] < len
  BY <1>0, EndedGrows
<1>6. CASE c # prev_cksum
  <2>1. ~final /\ changed /\ tok = a_collect /\ (offers <=> Worthwhile(a_len))
    BY <1>6
  <2>2. last => EndingAt(len) = {}
    BY <1>0, <1>6, EndOfByte
  <2>3. CASE Worthwhile(a_len)
    <3> DEFINE x == <<pos - a_len + 1, pos>>
    <3>1. offered' = Append(offered, a_collect)
      BY <1>1, <2>1, <2>3 DEF Offer
    <3>2. EndingAt(pos) = {x}
      BY <1>0, <1>6, <2>3, EndOfByte
    <3>3. a_collect = SubSeq(in_buf, x[1], x[2]) /\ x[2] = pos
      BY <1>0, <1>3, <2>3, CollectedString
    <3> HIDE DEF x
    <3>4. Lists(Append(offered, a_collect), EndedBefore(pos + 1))
      BY <1>0, <1>2, <1>5, <3>2, <3>3, ListsAppend
    <3>5. Append(offered, a_collect) \in Seq(Seq(Byte))
      BY <1>0, <1>2
    <3> QED
      BY <1>5, <2>2, <3>1, <3>4, <3>5
  <2>4. CASE ~Worthwhile(a_len)
    <3>1. offered' = offered
      BY <1>1, <2>1, <2>4 DEF Offer
    <3>2. EndingAt(pos) = {}
      BY <1>0, <1>6, <2>4, EndOfByte
    <3> QED
      BY <1>0, <1>5, <2>2, <3>1, <3>2
  <2> QED
    BY <2>3, <2>4
<1>7. CASE c = prev_cksum /\ ~last
  <2>1. ~final /\ ~changed /\ ~offers
    BY <1>7
  <2>2. offered' = offered
    BY <1>1, <2>1 DEF Offer
  <2>3. EndingAt(pos) = {}
    BY <1>0, <1>7, EndOfByte
  <2> QED
    BY <1>0, <1>5, <1>7, <2>2, <2>3
<1>8. CASE c = prev_cksum /\ last
  <2>1. final /\ ~changed /\ tok = grab /\ (offers <=> Worthwhile(a_len + 1))
    BY <1>8
  <2>2. EndingAt(pos) = {} /\ Runs = EndedBefore(pos) \cup EndingAt(len)
    BY <1>0, <1>5, <1>8, EndOfByte
  <2>3. CASE Worthwhile(a_len + 1)
    <3> DEFINE x == <<pos - a_len + 1, len>>
    <3>1. offered' = Append(offered, grab)
      BY <1>1, <2>1, <2>3 DEF Offer
    <3>2. EndingAt(len) = {x}
      BY <1>0, <1>8, <2>3, EndOfByte
    <3>3. grab = SubSeq(in_buf, x[1], x[2]) /\ x[2] = len
      <4>1. pos + 1 = len
        BY <1>2, <1>8
      <4>2. grab = SubSeq(in_buf, pos - a_len + 1, pos + 1)
        BY <1>0, <1>3, <2>3, CollectedString DEF byte
      <4> QED
        BY <4>1, <4>2
    <3> HIDE DEF x, grab
    <3>4. Lists(Append(offered, grab), Runs)
      BY <1>0, <1>4, <1>5, <2>2, <3>2, <3>3, ListsAppend
    <3>5. Append(offered, grab) \in Seq(Seq(Byte))
      BY <1>0, <1>4
    <3> QED
      BY <1>8, <3>1, <3>4, <3>5
  <2>4. CASE ~Worthwhile(a_len + 1)
    <3>1. offered' = offered
      BY <1>1, <2>1, <2>4 DEF Offer
    <3>2. EndingAt(len) = {}
      BY <1>0, <1>8, <2>4, EndOfByte
    <3> QED
      BY <1>0, <1>8, <2>2, <3>1, <3>2
  <2> QED
    BY <2>3, <2>4
<1> QED
  BY <1>6, <1>7, <1>8

\* What is collected after one byte more.
LEMMA WalkingStep ==
  ASSUME FInv, WInv, Flip1, ~sc.dumb, pos # len - 1
  PROVE  Walking(pos)'
<1> DEFINE c == lsb[pos + 1]
           byte == in_buf[pos + 1]
<1>0. stage = "flip1" /\ Walking(pos)
  BY DEF Flip1, WInv
<1>1. /\ len \in Nat \ {0} /\ pos \in 0 .. len - 1 /\ pos \in Nat /\ a_len \in Nat
      /\ a_collect \in Seq(Byte) /\ MAX_AUTO_EXTRA \in Nat \ {0}
      /\ Len(a_collect) = IF a_len <= MAX_AUTO_EXTRA THEN a_len ELSE MAX_AUTO_EXTRA
  BY <1>0, WalkTypes, Limits
<1>2. sc' = sc /\ cur' = cur /\ pos' = pos + 1
  <2>1. pos < len - 1
    BY <1>1
  <2> QED
    BY <2>1 DEF Flip1, queueVars
<1>3. lsb' = lsb /\ in_buf' = in_buf
  BY <1>2 DEF lsb, in_buf, Entry
<1>4. byte \in Byte
  BY <1>0, ByteAtPos
<1>5. /\ pos # 0 => prev_cksum = lsb[pos]
      /\ pos = 0 => prev_cksum = 0
      /\ prev_cksum = 0 => a_len = 0
      /\ prev_cksum # 0 => /\ a_len \in 1..pos
                           /\ \A k \in pos - a_len + 1 .. pos : lsb[k] = prev_cksum
                           /\ pos = a_len \/ lsb[pos - a_len] # prev_cksum
                           /\ \A k \in 1..Len(a_collect) : a_collect[k] = in_buf[pos - a_len + k]
  BY <1>0 DEF Walking
<1>6. /\ c # prev_cksum => /\ prev_cksum' = c
                           /\ c # 0 => a_collect' = Collected(<<>>, 0, byte) /\ a_len' = 1
                           /\ c = 0 => a_len' = 0
      /\ c = prev_cksum => /\ prev_cksum' = prev_cksum
                           /\ c # 0 => a_collect' = Collected(a_collect, a_len, byte) /\ a_len' = a_len + 1
                           /\ c = 0 => a_len' = a_len
  BY DEF Flip1, TokenStep, lsb
<1>7. Collected(<<>>, 0, byte) = <<byte>>
  BY <1>1 DEF Collected
<1> DEFINE L == lsb
           B == in_buf
<1>8. Walking(pos)' <=>
        /\ prev_cksum' = IF pos + 1 = 0 THEN 0 ELSE L[pos + 1]
        /\ prev_cksum' = 0 => a_len' = 0
        /\ prev_cksum' # 0 =>
             /\ a_len' \in 1 .. pos + 1
             /\ \A k \in (pos + 1) - a_len' + 1 .. pos + 1 : L[k] = prev_cksum'
             /\ pos + 1 = a_len' \/ L[(pos + 1) - a_len'] # prev_cksum'
             /\ \A k \in 1..Len(a_collect') : a_collect'[k] = B[(pos + 1) - a_len' + k]
  BY <1>2, <1>3 DEF Walking
<1> HIDE DEF byte
<1>9. CASE c # prev_cksum
  <2>1. prev_cksum' = c /\ pos + 1 # 0
    BY <1>1, <1>6, <1>9
  <2>2. CASE c = 0
    BY <1>6, <1>8, <1>9, <2>1, <2>2
  <2>3. CASE c # 0
    <3>1. a_collect' = <<byte>> /\ a_len' = 1
      BY <1>6, <1>7, <1>9, <2>3
    <3>2. a_len' \in 1 .. pos + 1 /\ \A k \in (pos + 1) - a_len' + 1 .. pos + 1 : k = pos + 1
      BY <1>1, <3>1
    <3>3. pos + 1 = a_len' \/ L[(pos + 1) - a_len'] # prev_cksum'
      <4>1. CASE pos = 0
        BY <3>1, <4>1
      <4>2. CASE pos # 0
        <5>1. (pos + 1) - a_len' = pos
          BY <1>1, <3>1
        <5> QED
          BY <1>5, <1>9, <2>1, <4>2, <5>1
      <4> QED
        BY <4>1, <4>2
    <3>4. \A k \in 1..Len(a_collect') : a_collect'[k] = B[(pos + 1) - a_len' + k]
      <4>1. Len(a_collect') = 1 /\ a_collect'[1] = byte
        BY <3>1
      <4>2. (pos + 1) - a_len' + 1 = pos + 1
        BY <1>1, <3>1
      <4>3. \A k \in 1..Len(a_collect') : k = 1
        BY <4>1
      <4> QED
        BY <4>1, <4>2, <4>3 DEF byte
    <3> QED
      BY <1>8, <2>1, <2>3, <3>2, <3>3, <3>4
  <2> QED
    BY <2>2, <2>3
<1>10. CASE c = prev_cksum
  <2>1. prev_cksum' = c /\ pos + 1 # 0
    BY <1>1, <1>6, <1>10
  <2>2. CASE c = 0
    <3>1. a_len' = 0
      BY <1>5, <1>6, <1>10, <2>2
    <3> QED
      BY <1>8, <2>1, <2>2, <3>1
  <2>3. CASE c # 0
    <3>1. a_collect' = Collected(a_collect, a_len, byte) /\ a_len' = a_len + 1
      BY <1>6, <1>10, <2>3
    <3>2. /\ a_len \in 1..pos
          /\ \A k \in pos - a_len + 1 .. pos : lsb[k] = prev_cksum
          /\ pos = a_len \/ lsb[pos - a_len] # prev_cksum
          /\ \A k \in 1..Len(a_collect) : a_collect[k] = in_buf[pos - a_len + k]
      BY <1>5, <1>10, <2>3
    <3>3. a_len' \in 1 .. pos + 1 /\ (pos + 1) - a_len' = pos - a_len
      BY <1>1, <3>1, <3>2
    <3>4. \A k \in (pos + 1) - a_len' + 1 .. pos + 1 : k = pos + 1 \/ k \in pos - a_len + 1 .. pos
      <4>1. (pos + 1) - a_len' + 1 = pos - a_len + 1
        BY <3>3
      <4>2. \A k \in pos - a_len + 1 .. pos + 1 : k = pos + 1 \/ k \in pos - a_len + 1 .. pos
        BY <1>1
      <4> QED
        BY <4>1, <4>2, Zenon
    <3>5. \A k \in (pos + 1) - a_len' + 1 .. pos + 1 : L[k] = prev_cksum'
      BY <1>10, <2>1, <3>2, <3>4
    <3>6. pos + 1 = a_len' \/ L[(pos + 1) - a_len'] # prev_cksum'
      <4>1. CASE pos = a_len
        BY <1>1, <3>1, <4>1
      <4>2. CASE lsb[pos - a_len] # prev_cksum
        BY <1>10, <2>1, <3>3, <4>2
      <4> QED
        BY <3>2, <4>1, <4>2
    <3>7. \A k \in 1..Len(a_collect') : a_collect'[k] = B[(pos + 1) - a_len' + k]
      <4>1. CASE a_len < MAX_AUTO_EXTRA
        <5>1. a_collect' = Append(a_collect, byte) /\ Len(a_collect) = a_len
          BY <1>1, <3>1, <4>1 DEF Collected
        <5>2. /\ Len(a_collect') = a_len + 1 /\ a_collect'[a_len + 1] = byte
              /\ \A k \in 1..a_len : a_collect'[k] = a_collect[k]
          BY <1>1, <1>4, <5>1
        <5>3. ASSUME NEW k \in 1..Len(a_collect') PROVE a_collect'[k] = B[(pos + 1) - a_len' + k]
          <6>1. (pos + 1) - a_len' + k = pos - a_len + k
            BY <3>3
          <6>2. CASE k = a_len + 1
            <7>1. pos - a_len + k = pos + 1
              BY <1>1, <6>2
            <7> QED
              BY <5>2, <6>1, <6>2, <7>1 DEF byte
          <6>3. CASE k # a_len + 1
            <7>1. k \in 1..a_len
              BY <1>1, <5>2, <6>3
            <7> QED
              BY <3>2, <5>1, <5>2, <6>1, <7>1
          <6> QED
            BY <6>2, <6>3
        <5> QED
          BY <5>3
      <4>2. CASE ~(a_len < MAX_AUTO_EXTRA)
        <5>1. a_collect' = a_collect
          BY <3>1, <4>2 DEF Collected
        <5> QED
          BY <3>2, <3>3, <5>1
      <4> QED
        BY <4>1, <4>2
    <3> QED
      BY <1>8, <2>1, <2>3, <3>3, <3>5, <3>6, <3>7
  <2> QED
    BY <2>2, <2>3
<1> QED
  BY <1>9, <1>10

\* Only the walking bit comes before the second stage.
LEMMA FollowsAfter ==
  ASSUME NEW s \in LaterStages \ {"det_done"}
  PROVE  Follows(s) \notin {"flip1", "flip2"}
<1>1. \E k \in 2..16 : Stages[k - 1] = s
  <2>1. \E k \in {2, 3, 4, 5, 6, 7, 8, 9, 10, 11, 12, 13, 14, 15, 16} : Stages[k - 1] = s
    BY DEF Stages, LaterStages
  <2> QED
    BY <2>1
<1> DEFINE k == CHOOSE j \in 2..16 : Stages[j - 1] = s
<1>2. k \in 2..16 /\ Stages[k - 1] = s
  BY <1>1
<1>3. Follows(s) = Stages[k]
  BY StageNames DEF Follows
<1> HIDE DEF k
<1>4. k # 2
  <2>1. Stages[1] = "flip1" /\ s # "flip1"
    BY DEF Stages, LaterStages
  <2> QED
    BY <1>2, <2>1
<1>5. k \in 3..16
  BY <1>2, <1>4
<1>6. \/ k = 3 \/ k = 4 \/ k = 5 \/ k = 6 \/ k = 7 \/ k = 8 \/ k = 9 \/ k = 10
      \/ k = 11 \/ k = 12 \/ k = 13 \/ k = 14 \/ k = 15 \/ k = 16
  BY <1>5
<1>7. Stages[k] \notin {"flip1", "flip2"}
  BY <1>6 DEF Stages
<1> QED
  BY <1>3, <1>7

\* What a step may do that is not part of the walk.
AsideAction ==
  /\ offered' = offered
  /\ \/ stage' \notin {"flip1", "flip2"}
     \/ UNCHANGED <<sc, cur, stage, pos, prev_cksum, a_len, a_collect>>

\* Which steps are no part of it.
LEMMA AsideSteps ==
  ASSUME FInv, [Next]_vars PROVE Flip1 \/ Pick \/ AsideAction
<1> USE DEF AsideAction
<1>1. CASE Fault \/ StatsSave \/ SaveStep \/ LoadAuto
  BY <1>1 DEF Fault, StatsSave, SaveStep, LoadAuto, queueVars, bufVars, histVars
<1>2. CASE LoadExtras \/ Start \/ Stop \/ Skip \/ Restart
  BY <1>2 DEF LoadExtras, Start, Stop, Skip, Restart, histVars
<1>3. CASE mark_as_det_done \/ Havoc \/ Abandon
  BY <1>3 DEF mark_as_det_done, Havoc, Abandon, histVars
<1>4. ASSUME NEW s \in LaterStages \ {"det_done"}, NEW tests, Do(s, tests) PROVE AsideAction
  BY <1>4, FollowsAfter DEF Do
<1>5. CASE Flip24 \/ Flip8 \/ Flip1632 \/ Arith \/ Interest \/ ExtrasInsert
  <2>1. \E s \in LaterStages \ {"det_done"} : \E tests : Do(s, tests)
    BY <1>5 DEF Flip24, Flip8, Flip1632, Arith, Interest, ExtrasInsert, LaterStages
  <2> QED
    BY <1>4, <2>1
<1>6. CASE ExtrasOver \/ AutoExtrasOver
  <2>1. \E s \in {"ext_UO", "ext_AO"} : offered' = offered /\ stage' \in {s, Follows(s)}
    BY <1>6 DEF ExtrasOver, AutoExtrasOver, OverToken, OverRestore, histVars
  <2>2. \A s \in {"ext_UO", "ext_AO"} : Follows(s) \notin {"flip1", "flip2"}
    BY FollowsAfter DEF LaterStages
  <2> QED
    BY <2>1, <2>2
<1>7. CASE UNCHANGED vars
  BY <1>7 DEF vars, queueVars, bufVars, histVars
<1> QED
  BY <1>1, <1>2, <1>3, <1>5, <1>6, <1>7 DEF Next, DetNext

\* While the entry stays the same, so do its runs.
LEMMA SameEntry ==
  ASSUME sc' = sc, cur' = cur
  PROVE  lsb' = lsb /\ in_buf' = in_buf /\ len' = len /\ Runs' = Runs
  BY DEF lsb, in_buf, len, Entry, Runs, SameEffect

\* No step breaks the second invariant.
LEMMA WalkStep == FInv /\ WInv /\ [Next]_vars => WInv'
<1> SUFFICES ASSUME FInv, WInv, [Next]_vars PROVE WInv'
  OBVIOUS
<1>1. CASE AsideAction
  <2>1. offered' \in Seq(Seq(Byte))
    BY <1>1 DEF AsideAction, WInv
  <2>2. CASE stage' \notin {"flip1", "flip2"}
    BY <2>1, <2>2 DEF WInv, TokensExact
  <2>3. CASE UNCHANGED <<sc, cur, stage, pos, prev_cksum, a_len, a_collect>>
    <3>1. lsb' = lsb /\ in_buf' = in_buf /\ Runs' = Runs
      BY <2>3, SameEntry
    <3>2. stage = "flip1" /\ ~sc.dumb => Walking(pos)'
      BY <2>3, <3>1 DEF WInv, Walking
    <3>3. Lists(offered, EndedBefore(pos)) => Lists(offered, EndedBefore(pos))'
      BY <1>1, <2>3, <3>1 DEF Lists, EndedBefore, AsideAction
    <3>4. Lists(offered, Runs) => Lists(offered, Runs)'
      BY <1>1, <3>1 DEF Lists, AsideAction
    <3>5. stage = "flip1" /\ ~sc.dumb => Lists(offered, EndedBefore(pos))'
      BY <3>3 DEF WInv
    <3>6. TokensExact'
      BY <2>3, <3>4 DEF WInv, TokensExact
    <3> QED
      BY <2>1, <2>3, <3>2, <3>5, <3>6 DEF WInv
  <2> QED
    BY <1>1, <2>2, <2>3 DEF AsideAction
<1>2. CASE Flip1 /\ sc.dumb
  <2>1. offered' = offered /\ sc' = sc
    BY <1>2 DEF Flip1, queueVars
  <2> QED
    BY <1>2, <2>1 DEF WInv, TokensExact
<1>3. CASE Flip1 /\ ~sc.dumb
  <2>0. stage = "flip1" /\ sc' = sc /\ cur' = cur
    BY <1>3 DEF Flip1, queueVars
  <2>1. lsb' = lsb /\ in_buf' = in_buf /\ Runs' = Runs
    BY <2>0, SameEntry
  <2>2. len \in Nat \ {0} /\ pos \in 0 .. len - 1 /\ pos \in Nat
    BY <2>0, WalkTypes
  <2>3. offered' \in Seq(Seq(Byte))
    BY <1>3, OfferedStep
  <2>4. CASE pos = len - 1
    <3>1. stage' = "flip2"
      BY <1>3, <2>2, <2>4 DEF Flip1
    <3>2. Lists(offered', Runs)
      BY <1>3, <2>4, OfferedStep
    <3>3. Lists(offered, Runs)'
      BY <2>1, <3>2 DEF Lists
    <3> QED
      BY <2>3, <3>1, <3>3 DEF WInv, TokensExact
  <2>5. CASE pos # len - 1
    <3>1. stage' = "flip1" /\ pos' = pos + 1
      <4>1. pos < len - 1
        BY <2>2, <2>5
      <4> QED
        BY <1>3, <4>1 DEF Flip1
    <3>2. Walking(pos)'
      BY <1>3, <2>5, WalkingStep
    <3>3. Lists(offered', EndedBefore(pos + 1))
      BY <1>3, <2>5, OfferedStep
    <3>4. EndedBefore(pos)' = EndedBefore(pos + 1)
      BY <2>1, <3>1 DEF EndedBefore
    <3>5. Lists(offered, EndedBefore(pos))'
      BY <2>1, <3>3, <3>4 DEF Lists
    <3> QED
      BY <2>3, <3>1, <3>2, <3>5 DEF WInv, TokensExact
  <2> QED
    BY <2>4, <2>5
<1>4. CASE Pick
  <2>1. CASE stage' = "havoc"
    <3>1. offered' = offered
      BY <1>4, <2>1 DEF Pick, histVars
    <3> QED
      BY <2>1, <3>1 DEF WInv, TokensExact
  <2>2. CASE stage' # "havoc"
    <3>1. /\ stage' = "flip1" /\ offered' = <<>> /\ pos' = 0
          /\ prev_cksum' = 0 /\ a_len' = 0
      BY <1>4, <2>2 DEF Pick
    <3>2. FInv'
      BY <1>4, QuietSteps DEF QuietNext
    <3>3. Walking(pos)'
      BY <3>1 DEF Walking
    <3>4. EndedBefore(pos)' = {}
      <4>1. cur' \in 1..Len(sc'.queue) /\ sc' \in Scenarios
        BY <3>1, <3>2 DEF FInv, Place
      <4>2. in_buf' \in Seq(Byte) /\ len' = Len(in_buf')
        BY <4>1, FuzzOneAssumption DEF in_buf, Entry, len
      <4>3. len' \in Nat
        BY <4>2
      <4>4. \A r \in Runs' : r \in (1..len') \X (1..len')
        BY DEF Runs
      <4>5. \A r \in Runs' : ~(r[2] < 0)
        BY <4>3, <4>4
      <4> QED
        BY <3>1, <4>5 DEF EndedBefore
    <3>5. Lists(offered, EndedBefore(pos))'
      <4> DEFINE at == [k \in {} |-> 0]
      <4>1. 1..Len(offered') = {}
        BY <3>1
      <4>2. at \in [1..Len(offered') -> EndedBefore(pos)']
        BY <3>4, <4>1
      <4> QED
        BY <3>4, <4>1, <4>2, Zenon DEF Lists
    <3> QED
      BY <3>1, <3>3, <3>5 DEF WInv, TokensExact
  <2> QED
    BY <2>1, <2>2
<1> QED
  BY <1>1, <1>2, <1>3, <1>4, AsideSteps

\* When the walking bit is over, the strings that have been offered to
\* maybe_add_auto() are exactly the runs of bytes with the same effect that are
\* worthwhile: none is lost at the end of the file, none is cut, joined with its
\* neighbour or offered twice, for every input and every target.
THEOREM TokensAreExact == Spec => []TokensExact
<1>1. Init => WInv
  BY DEF Init, WInv, TokensExact
<1>2. WInv => TokensExact
  BY DEF WInv
<1>3. Spec => []WInv
  BY <1>1, WalkStep, FuzzOneInvariant, PTL DEF Spec
<1> QED
  BY <1>2, <1>3, PTL

-----------------------------------------------------------------------------
(* The overwriting stages.                                                  *)

Over == {"ext_UO", "ext_AO"}

\* A list of tokens from the shortest to the longest.
ByLength(toks) ==
  /\ toks \in Seq(Seq(Byte))
  /\ \A i, j \in 1..Len(toks) : i < j => Len(toks[i]) <= Len(toks[j])

\* A token fits at a position and covers a byte that matters.
Fits(i, t) == Len(t) <= len - i /\ SpanEffective(i, Len(t), eff_map)

\* When the stage is at position p and at token n, with out in the buffer and the
\* test cases of done run: out is the input, or the input with the token last
\* written;
Written(toks, p, n, l, out, done) ==
  \/ l = 0 /\ out = in_buf
  \/ \E j \in 1 .. n - 1 :
       /\ out = Put(in_buf, p, toks[j]) /\ out \in done
       /\ l = Len(toks[j]) /\ l <= len - p

\* and all the overlays so far have been run, unless some are left out at random,
\* and nothing else has been.
Covered(toks, all, p, n, done) ==
  /\ p # 0 \/ n # 1 => done \subseteq Overlays(toks)
  /\ all => \A i \in 0 .. len - 1, k \in 1..Len(toks) :
              (i < p \/ (i = p /\ k < n)) /\ Fits(i, toks[k]) =>
                Put(in_buf, i, toks[k]) \in done \cup {in_buf}

OverlayingAt(toks, all, p, n, l, out, done) ==
  /\ p \in 0 .. len - 1 /\ n \in 1 .. Len(toks) + 1
  /\ Written(toks, p, n, l, out, done) /\ Covered(toks, all, p, n, done)
Overlaying(toks, all) == OverlayingAt(toks, all, pos, next_tok, last_len, out_buf, overlaid)

\* The third inductive invariant.
OInv ==
  /\ ByLength(extras) /\ ByLength(UsedTokens)
  /\ InFuzzOne => cur \in 1..Len(sc.queue)
  /\ InFuzzOne /\ stage \notin Over => out_buf = in_buf /\ next_tok = 1 /\ last_len = 0
  /\ InFuzzOne /\ stage \notin Over \cup {"flip1"} => pos = 0
  /\ stage = "ext_UO" => Overlaying(extras, Len(extras) <= MAX_DET_EXTRAS)
  /\ stage = "ext_AO" => Overlaying(UsedTokens, TRUE)
  /\ OverlaysExact

\* Two sequences with the same elements are the same.
LEMMA SameSeq ==
  ASSUME NEW S, NEW a \in Seq(S), NEW b \in Seq(S), Len(a) = Len(b),
         \A k \in 1..Len(a) : a[k] = b[k]
  PROVE  a = b
  OBVIOUS

\* The bytes of a word.
LEMMA WordFacts ==
  ASSUME NEW S, NEW b \in Seq(S), NEW i \in Nat, NEW n \in Nat, i + n <= Len(b)
  PROVE  /\ Word(b, i, n) \in Seq(S) /\ Len(Word(b, i, n)) = n
         /\ \A k \in 1..n : Word(b, i, n)[k] = b[i + k]
<1>1. Len(b) \in Nat
  OBVIOUS
<1>2. SubSeq(b, i + 1, i + n) \in Seq(S) /\ Len(SubSeq(b, i + 1, i + n)) = n
  BY <1>1
<1>3. \A k \in 1..n : SubSeq(b, i + 1, i + n)[k] = b[i + k]
  BY <1>1
<1> QED
  BY <1>2, <1>3 DEF Word

\* The bytes of a buffer with a word written into it.
LEMMA PutFacts ==
  ASSUME NEW S, NEW b \in Seq(S), NEW i \in Nat, NEW w \in Seq(S)
  PROVE  /\ Put(b, i, w) \in Seq(S) /\ Len(Put(b, i, w)) = Len(b)
         /\ \A k \in 1..Len(b) :
              Put(b, i, w)[k] = IF k \in i + 1 .. i + Len(w) THEN w[k - i] ELSE b[k]
<1> DEFINE p == Put(b, i, w)
<1>1. Len(b) \in Nat /\ Len(w) \in Nat
  OBVIOUS
<1>2. /\ DOMAIN p = 1..Len(b)
      /\ \A k \in 1..Len(b) : p[k] = IF k \in i + 1 .. i + Len(w) THEN w[k - i] ELSE b[k]
      /\ p = [k \in 1..Len(b) |-> p[k]]
  BY DEF Put
<1>3. ASSUME NEW k \in 1..Len(b) PROVE p[k] \in S
  <2>1. CASE k \in i + 1 .. i + Len(w)
    <3>1. k - i \in 1..Len(w)
      BY <1>1, <2>1
    <3> QED
      BY <1>2, <2>1, <3>1
  <2>2. CASE k \notin i + 1 .. i + Len(w)
    BY <1>2, <2>2
  <2> QED
    BY <2>1, <2>2
<1> HIDE DEF p
<1>4. p \in [1..Len(b) -> S]
  BY <1>2, <1>3
<1>5. p \in Seq(S) /\ Len(p) = Len(b)
  BY <1>1, <1>2, <1>4
<1> QED
  BY <1>2, <1>5 DEF p

\* A longer word covers the shorter one before it.
LEMMA PutCovers ==
  ASSUME NEW S, NEW b \in Seq(S), NEW i \in Nat, NEW v \in Seq(S), NEW w \in Seq(S),
         Len(v) <= Len(w)
  PROVE  Put(Put(b, i, v), i, w) = Put(b, i, w)
<1> DEFINE p == Put(b, i, v)  q == Put(p, i, w)  r == Put(b, i, w)
<1>1. /\ p \in Seq(S) /\ Len(p) = Len(b)
      /\ \A k \in 1..Len(b) : p[k] = IF k \in i + 1 .. i + Len(v) THEN v[k - i] ELSE b[k]
  BY PutFacts
<1> HIDE DEF p
<1>2. /\ q \in Seq(S) /\ Len(q) = Len(b)
      /\ \A k \in 1..Len(b) : q[k] = IF k \in i + 1 .. i + Len(w) THEN w[k - i] ELSE p[k]
  <2>1. /\ q \in Seq(S) /\ Len(q) = Len(p)
        /\ \A k \in 1..Len(p) : q[k] = IF k \in i + 1 .. i + Len(w) THEN w[k - i] ELSE p[k]
    BY <1>1, PutFacts
  <2> QED
    BY <1>1, <2>1
<1>3. /\ r \in Seq(S) /\ Len(r) = Len(b)
      /\ \A k \in 1..Len(b) : r[k] = IF k \in i + 1 .. i + Len(w) THEN w[k - i] ELSE b[k]
  BY PutFacts
<1> HIDE DEF q, r
<1>4. Len(v) \in Nat /\ Len(w) \in Nat
  OBVIOUS
<1>5. \A k \in i + 1 .. i + Len(v) : k \in i + 1 .. i + Len(w)
  BY <1>4
<1>6. \A k \in 1..Len(b) : q[k] = r[k]
  BY <1>1, <1>2, <1>3, <1>5
<1>7. q = r
  BY <1>2, <1>3, <1>6, SameSeq
<1> QED
  BY <1>7 DEF p, q, r

\* Writing what is there changes nothing.
LEMMA PutSame ==
  ASSUME NEW S, NEW b \in Seq(S), NEW i \in Nat, NEW w \in Seq(S), i + Len(w) <= Len(b),
         w = Word(b, i, Len(w))
  PROVE  Put(b, i, w) = b
<1> DEFINE q == Put(b, i, w)
<1>1. /\ q \in Seq(S) /\ Len(q) = Len(b)
      /\ \A k \in 1..Len(b) : q[k] = IF k \in i + 1 .. i + Len(w) THEN w[k - i] ELSE b[k]
  BY PutFacts
<1>2. Len(w) \in Nat /\ \A k \in 1..Len(w) : w[k] = b[i + k]
  <2>1. Len(w) \in Nat
    OBVIOUS
  <2>2. \A k \in 1..Len(w) : Word(b, i, Len(w))[k] = b[i + k]
    BY <2>1, WordFacts
  <2> QED
    BY <2>1, <2>2
<1> HIDE DEF q
<1>3. ASSUME NEW k \in 1..Len(b), k \in i + 1 .. i + Len(w) PROVE w[k - i] = b[k]
  <2>1. k - i \in 1..Len(w) /\ i + (k - i) = k
    BY <1>2, <1>3
  <2> QED
    BY <1>2, <2>1
<1>4. \A k \in 1..Len(b) : q[k] = b[k]
  BY <1>1, <1>3
<1>5. q = b
  BY <1>1, <1>4, SameSeq
<1> QED
  BY <1>5 DEF q

\* The bytes under a word bring the buffer back.
LEMMA PutRestores ==
  ASSUME NEW S, NEW b \in Seq(S), NEW i \in Nat, NEW w \in Seq(S), i + Len(w) <= Len(b)
  PROVE  Put(Put(b, i, w), i, Word(b, i, Len(w))) = b
<1> DEFINE v == Word(b, i, Len(w))
<1>1. Len(w) \in Nat
  OBVIOUS
<1>2. v \in Seq(S) /\ Len(v) = Len(w)
  BY <1>1, WordFacts
<1>3. Put(Put(b, i, w), i, v) = Put(b, i, v)
  <2> HIDE DEF v
  <2>1. Len(w) <= Len(v)
    BY <1>1, <1>2
  <2> QED
    BY <1>2, <2>1, PutCovers
<1>4. v = Word(b, i, Len(v))
  BY <1>2
<1>5. Put(b, i, v) = b
  <2> HIDE DEF v
  <2>1. i + Len(v) <= Len(b)
    BY <1>2
  <2> QED
    BY <1>2, <1>4, <2>1, PutSame
<1> QED
  BY <1>3, <1>5

\* qsort() by length puts the tokens in the order of their lengths.
LEMMA SortsByLength ==
  ASSUME NEW t \in Seq(Seq(Byte)), NEW r \in Sorts(t, LengthKeys(t))
  PROVE  ByLength(r)
<1> DEFINE n == Len(t)
<1>1. n \in Nat /\ \A k \in 1..n : t[k] \in Seq(Byte) /\ LengthKeys(t)[k] = Len(t[k])
  BY DEF LengthKeys
<1>2. PICK p \in Bijection(1..n, 1..n) :
        /\ \A i, j \in 1..n : i < j => LengthKeys(t)[p[i]] <= LengthKeys(t)[p[j]]
        /\ r = [k \in 1..n |-> t[p[k]]]
  BY DEF Sorts
<1>3. p \in [1..n -> 1..n]
  BY <1>2, BijectionFacts
<1> HIDE DEF n
<1>4. r \in [1..n -> Seq(Byte)]
  BY <1>1, <1>2, <1>3
<1>5. r \in Seq(Seq(Byte)) /\ Len(r) = n
  BY <1>1, <1>4
<1>6. ASSUME NEW i \in 1..n, NEW j \in 1..n, i < j PROVE Len(r[i]) <= Len(r[j])
  <2>1. r[i] = t[p[i]] /\ r[j] = t[p[j]] /\ p[i] \in 1..n /\ p[j] \in 1..n
    BY <1>2, <1>3
  <2>2. LengthKeys(t)[p[i]] <= LengthKeys(t)[p[j]]
    BY <1>2, <1>6
  <2> QED
    BY <1>1, <2>1, <2>2
<1> QED
  BY <1>5, <1>6 DEF ByLength

\* load_extras() lists the tokens of the user in this order.
LEMMA ExtrasByLength ==
  ASSUME NEW dict, IsFiniteSet(dict), \A t \in dict : t \in Seq(Byte), load_extras(dict)
  PROVE  ByLength(extras')
<1> DEFINE t == SetToSeq(dict)  n == Cardinality(dict)
<1>1. n \in Nat /\ ExistsBijection(1..n, dict)
  BY FS_CardinalityType
<1>2. \E f \in [1..n -> dict] : IsInjective(f)
  <2>1. PICK f \in Bijection(1..n, dict) : TRUE
    BY <1>1 DEF ExistsBijection
  <2>2. f \in [1..n -> dict] /\ IsInjective(f)
    BY <2>1 DEF Bijection, Injection
  <2> QED
    BY <2>2
<1>3. t \in [1..n -> dict]
  BY <1>2 DEF SetToSeq
<1> HIDE DEF t, n
<1>4. t \in [1..n -> Seq(Byte)]
  BY <1>3
<1>5. t \in Seq(Seq(Byte))
  BY <1>1, <1>4
<1>6. extras' \in Sorts(t, LengthKeys(t))
  BY DEF load_extras, t
<1> QED
  BY <1>5, <1>6, SortsByLength

\* The first part of a table after both sorts.
LEMMA SortedByLength ==
  ASSUME NEW T \in Seq(Row), NEW r \in Sorted(T)
  PROVE  ByLength(Tokens(SubSeq(r, 1, UsedCount(r))))
<1>1. PICK s \in Sorts(T, UseKeys(T)) :
        r \in {used \o SubSeq(s, UsedCount(s) + 1, Len(s)) :
                 used \in LET u == SubSeq(s, 1, UsedCount(s)) IN Sorts(u, LengthKeys(Tokens(u)))}
  BY DEF Sorted
<1> DEFINE n == Len(T)  c == UsedCount(s)  u == SubSeq(s, 1, c)  v == SubSeq(s, c + 1, Len(s))
<1>2. PICK used \in Sorts(u, LengthKeys(Tokens(u))) : r = used \o v
  BY <1>1
<1>3. s \in Seq(Row) /\ Len(s) = n /\ n \in Nat
  BY <1>1, SortsPermutes DEF Permuted
<1>4. c \in 0..n /\ c \in Nat /\ (r \in Seq(Row) /\ Len(r) = n => UsedCount(r) = c)
  <2>1. UsedCount(s) = IF USE_AUTO_EXTRAS <= Len(s) THEN USE_AUTO_EXTRAS ELSE Len(s)
    BY <1>3, UsedCountFacts
  <2>2. UsedCount(s) \in 0..Len(s)
    BY <1>3, UsedCountFacts
  <2>3. r \in Seq(Row) => UsedCount(r) = IF USE_AUTO_EXTRAS <= Len(r) THEN USE_AUTO_EXTRAS ELSE Len(r)
    BY UsedCountFacts
  <2>4. c \in 0..n /\ c \in Nat
    BY <1>3, <2>2
  <2> HIDE DEF n
  <2> QED
    BY <1>3, <2>1, <2>3, <2>4
<1>5. r \in Seq(Row) /\ Len(r) = n
  BY SortedPermutes DEF Permuted
<1> HIDE DEF c
<1>6. u \in Seq(Row) /\ Len(u) = c
  BY <1>3, <1>4
<1> HIDE DEF u
<1> DEFINE tu == Tokens(u)
<1>7. tu \in Seq(Seq(Byte)) /\ Len(tu) = c /\ \A k \in 1..c : tu[k] = u[k].tok
  <2>1. \A k \in 1..c : u[k] \in Row /\ u[k].tok \in Seq(Byte)
    <3>1. \A k \in 1..c : u[k] \in Row
      BY <1>6
    <3> QED
      BY <3>1 DEF Row
  <2>2. tu = [k \in 1..c |-> u[k].tok]
    BY <1>6 DEF Tokens
  <2>3. tu \in [1..c -> Seq(Byte)]
    BY <2>1, <2>2
  <2>4. tu \in Seq(Seq(Byte)) /\ Len(tu) = c
    BY <1>4, <2>2, <2>3
  <2> QED
    BY <2>2, <2>4
<1> HIDE DEF tu
<1>8. PICK p \in Bijection(1..c, 1..c) :
        /\ \A i, j \in 1..c : i < j => LengthKeys(tu)[p[i]] <= LengthKeys(tu)[p[j]]
        /\ used = [k \in 1..c |-> u[p[k]]]
  BY <1>2, <1>6 DEF Sorts, tu
<1>9. p \in [1..c -> 1..c]
  BY <1>8, BijectionFacts
<1> DEFINE tr == Tokens(SubSeq(r, 1, c))
<1>10. Len(used) = c
  <2>1. DOMAIN used = 1..c
    BY <1>8
  <2>2. used \in Seq(Row)
    <3>1. used \in [1..c -> Row]
      BY <1>6, <1>8, <1>9
    <3> QED
      BY <1>4, <3>1
  <2> QED
    BY <1>4, <2>1, <2>2
<1>11. used \in Seq(Row)
  <2>1. used \in [1..c -> Row]
    BY <1>6, <1>8, <1>9
  <2> QED
    BY <1>4, <2>1
<1>12. v \in Seq(Row)
  BY <1>3, <1>4
<1> HIDE DEF v
<1>13. \A k \in 1..c : r[k] = used[k]
  BY <1>2, <1>10, <1>11, <1>12
<1>14. SubSeq(r, 1, c) \in Seq(Row) /\ Len(SubSeq(r, 1, c)) = c /\ \A k \in 1..c : SubSeq(r, 1, c)[k] = r[k]
  BY <1>4, <1>5
<1>15. \A k \in 1..c : tr[k] = tu[p[k]] /\ p[k] \in 1..c
  <2>1. tr = [k \in 1..c |-> SubSeq(r, 1, c)[k].tok]
    BY <1>14 DEF Tokens
  <2>2. ASSUME NEW k \in 1..c PROVE tr[k] = tu[p[k]] /\ p[k] \in 1..c
    <3>1. p[k] \in 1..c /\ used[k] = u[p[k]]
      BY <1>8, <1>9
    <3>2. tr[k] = used[k].tok
      BY <1>13, <1>14, <2>1
    <3> QED
      BY <1>7, <3>1, <3>2
  <2> QED
    BY <2>2
<1>16. tr \in Sorts(tu, LengthKeys(tu))
  <2>1. tr = [k \in 1..c |-> tu[p[k]]]
    <3>1. tr = [k \in 1..c |-> SubSeq(r, 1, c)[k].tok]
      BY <1>14 DEF Tokens
    <3> HIDE DEF tr
    <3> QED
      BY <1>15, <3>1
  <2> HIDE DEF tr
  <2> QED
    BY <1>7, <1>8, <2>1 DEF Sorts
<1>17. ByLength(tr)
  BY <1>7, <1>16, SortsByLength
<1> QED
  BY <1>4, <1>5, <1>17

\* maybe_add_auto() leaves the used tokens in this order.
LEMMA AddedByLength ==
  ASSUME Table(a_extras), ByLength(UsedTokens), NEW mem \in Seq(Byte), IsToken(mem),
         maybe_add_auto(mem)
  PROVE  ByLength(UsedTokens')
<1>1. CASE Rejected(mem)
  <2>1. UsedTokens' = UsedTokens
    BY <1>1 DEF maybe_add_auto, UsedTokens
  <2> QED
    BY <2>1
<1>2. CASE ~Rejected(mem)
  <2>1. PICK T \in Updated(mem) : a_extras' \in Sorted(T)
    BY <1>2 DEF maybe_add_auto
  <2>2. Good(mem)
    BY <1>2 DEF Good, Rejected
  <2>3. T \in Seq(Row)
    BY <2>1, <2>2, UpdatedTable DEF Table
  <2>4. ByLength(Tokens(SubSeq(a_extras', 1, UsedCount(a_extras'))))
    BY <2>1, <2>3, SortedByLength
  <2> QED
    BY <2>4 DEF UsedTokens
<1> QED
  BY <1>1, <1>2

\* An empty table has no tokens.
LEMMA NoTokens == Tokens(SubSeq(<<>>, 1, UsedCount(<<>>))) = <<>>
<1>1. Len(<<>>) = 0 /\ <<>> \in Seq(Row)
  OBVIOUS
<1>2. UsedCount(<<>>) = 0
  <2>1. UsedCount(<<>>) \in 0..Len(<<>>)
    BY <1>1, UsedCountFacts
  <2> QED
    BY <1>1, <2>1
<1>3. SubSeq(<<>>, 1, 0) = <<>>
  OBVIOUS
<1>4. Tokens(<<>>) = <<>>
  BY <1>1 DEF Tokens
<1> QED
  BY <1>2, <1>3, <1>4

\* Every step keeps both dictionaries in the order of lengths.
LEMMA OrderSteps ==
  ASSUME FInv, [Next]_vars, ByLength(extras), ByLength(UsedTokens)
  PROVE  ByLength(extras') /\ ByLength(UsedTokens')
<1>0. ByLength(<<>>)
  <2>1. <<>> \in Seq(Seq(Byte)) /\ Len(<<>>) = 0 /\ 1..0 = {}
    OBVIOUS
  <2> QED
    BY <2>1 DEF ByLength
<1>1. ByLength(UsedTokens')
  <2>1. CASE a_extras' = a_extras
    <3>1. UsedTokens' = UsedTokens
      BY <2>1 DEF UsedTokens
    <3> QED
      BY <3>1
  <2>2. CASE a_extras' = <<>>
    <3>5. UsedTokens' = <<>>
      BY <2>2, NoTokens DEF UsedTokens
    <3> QED
      BY <1>0, <3>5
  <2>3. CASE \E mem \in Seq(Byte) : IsToken(mem) /\ maybe_add_auto(mem)
    BY <2>3, AddedByLength DEF FInv, Tables
  <2> QED
    BY <2>1, <2>2, <2>3, TableSteps
<1>2. ByLength(extras')
  <2>1. CASE LoadExtras
    <3>1. sc \in Scenarios /\ load_extras(sc.dict)
      BY <2>1 DEF LoadExtras, FInv, Place
    <3>2. IsFiniteSet(sc.dict) /\ \A t \in sc.dict : t \in Seq(Byte)
      BY <3>1, FuzzOneAssumption
    <3> QED
      BY <3>1, <3>2, ExtrasByLength
  <2>2. CASE Restart
    BY <1>0, <2>2 DEF Restart, RestartDictionary
  <2>3. CASE ~LoadExtras /\ ~Restart
    <3>1. extras' = extras
      BY <2>3 DEF Next, DetNext, LoadAuto, load_auto_File, Start, Stop, StatsSave, SaveStep,
           save_auto_Begin, save_auto_Open, save_auto_Write, Skip, Pick, mark_as_det_done, Havoc,
           Abandon, Fault, Flip1, Flip24, Flip8, Flip1632, Arith, Interest, ExtrasInsert, Do,
           ExtrasOver, AutoExtrasOver, OverToken, OverRestore, dictVars, vars
    <3> QED
      BY <3>1
  <2> QED
    BY <2>1, <2>2, <2>3
<1> QED
  BY <1>1, <1>2

\* The entry of the queue that is being fuzzed.
LEMMA EntryFacts ==
  ASSUME FInv, cur \in 1..Len(sc.queue)
  PROVE  in_buf \in Seq(Byte) /\ len = Len(in_buf) /\ len \in Nat \ {0}
<1>1. in_buf \in Seq(Byte) /\ Len(in_buf) > 0
  BY FuzzOneAssumption DEF FInv, Place, in_buf, Entry
<1> QED
  BY <1>1 DEF len

\* An element of the set of overlays.
LEMMA OverlayIn ==
  ASSUME NEW toks, NEW i \in 0 .. len - 1, NEW t \in Range(toks), Fits(i, t)
  PROVE  Put(in_buf, i, t) \in Overlays(toks)
<1> DEFINE X == {x \in (0 .. len - 1) \X Range(toks) :
                   Len(x[2]) <= len - x[1] /\ SpanEffective(x[1], Len(x[2]), eff_map)}
<1>1. <<i, t>> \in X
  BY DEF Fits
<1>2. <<i, t>>[1] = i /\ <<i, t>>[2] = t
  OBVIOUS
<1>3. Overlays(toks) = {Put(in_buf, x[1], x[2]) : x \in X}
  BY DEF Overlays
<1> HIDE DEF X
<1> QED
  BY <1>1, <1>2, <1>3

\* Each of them is a token that fits.
LEMMA OverlayOf ==
  ASSUME NEW toks \in Seq(Seq(Byte)), NEW o \in Overlays(toks)
  PROVE  \E i \in 0 .. len - 1, k \in 1..Len(toks) : Fits(i, toks[k]) /\ o = Put(in_buf, i, toks[k])
<1>1. PICK x \in (0 .. len - 1) \X Range(toks) :
        /\ Len(x[2]) <= len - x[1] /\ SpanEffective(x[1], Len(x[2]), eff_map)
        /\ o = Put(in_buf, x[1], x[2])
  BY DEF Overlays
<1>2. x[1] \in 0 .. len - 1 /\ x[2] \in Range(toks)
  BY <1>1
<1>3. PICK k \in 1..Len(toks) : x[2] = toks[k]
  BY <1>2 DEF Range
<1> QED
  BY <1>1, <1>2, <1>3 DEF Fits

\* What a whole position leaves.
LEMMA RestoredInput ==
  ASSUME FInv, cur \in 1..Len(sc.queue), NEW toks, ByLength(toks), NEW all, Overlaying(toks, all)
  PROVE  Put(out_buf, pos, Word(in_buf, pos, last_len)) = in_buf
<1>1. in_buf \in Seq(Byte) /\ len = Len(in_buf) /\ len \in Nat \ {0}
  BY EntryFacts
<1>2. pos \in Nat /\ pos < len
  BY <1>1 DEF Overlaying, OverlayingAt
<1>3. CASE last_len = 0 /\ out_buf = in_buf
  <2> DEFINE w == Word(in_buf, pos, 0)
  <2>1. w \in Seq(Byte) /\ Len(w) = 0
    BY <1>1, <1>2, WordFacts
  <2>2. w = Word(in_buf, pos, Len(w)) /\ pos + Len(w) <= Len(in_buf)
    BY <1>1, <1>2, <2>1
  <2> HIDE DEF w
  <2>3. Put(in_buf, pos, w) = in_buf
    BY <1>1, <1>2, <2>1, <2>2, PutSame
  <2> QED
    BY <1>3, <2>3 DEF w
<1>4. CASE \E j \in 1 .. next_tok - 1 :
             /\ out_buf = Put(in_buf, pos, toks[j]) /\ out_buf \in overlaid
             /\ last_len = Len(toks[j]) /\ last_len <= len - pos
  <2>1. PICK j \in 1 .. next_tok - 1 :
             /\ out_buf = Put(in_buf, pos, toks[j])
             /\ last_len = Len(toks[j]) /\ last_len <= len - pos
    BY <1>4
  <2>2. toks[j] \in Seq(Byte)
    <3>1. j \in 1..Len(toks)
      BY DEF Overlaying, OverlayingAt, ByLength
    <3> QED
      BY <3>1 DEF ByLength
  <2> DEFINE w == toks[j]
  <2>3. pos + Len(w) <= Len(in_buf) /\ w \in Seq(Byte)
    BY <1>1, <1>2, <2>1, <2>2
  <2> HIDE DEF w
  <2>4. Put(Put(in_buf, pos, w), pos, Word(in_buf, pos, Len(w))) = in_buf
    BY <1>1, <1>2, <2>3, PutRestores
  <2> QED
    BY <2>1, <2>4 DEF w
<1> QED
  BY <1>3, <1>4 DEF Overlaying, OverlayingAt, Written

\* One token at one position: it makes the overlay of the input with it, or that
\* overlay is the input or has been run.
LEMMA TokenOverlay ==
  ASSUME FInv, cur \in 1..Len(sc.queue), NEW toks, ByLength(toks), NEW all, Overlaying(toks, all),
         next_tok <= Len(toks)
  PROVE  LET t == toks[next_tok] IN
         /\ t \in Seq(Byte) /\ t \in Range(toks) /\ next_tok \in 1..Len(toks)
         /\ Put(out_buf, pos, t) = Put(in_buf, pos, t)
         /\ Len(t) <= len - pos /\ t = Word(out_buf, pos, Len(t)) =>
              Put(in_buf, pos, t) = in_buf \/ (Put(in_buf, pos, t) = out_buf /\ out_buf \in overlaid)
<1> DEFINE t == toks[next_tok]
<1>1. in_buf \in Seq(Byte) /\ len = Len(in_buf) /\ len \in Nat \ {0}
  BY EntryFacts
<1>2. pos \in Nat /\ pos < len
  BY <1>1 DEF Overlaying, OverlayingAt
<1>3. next_tok \in 1..Len(toks) /\ toks \in Seq(Seq(Byte)) /\ t \in Seq(Byte) /\ Len(t) \in Nat
  <2>1. next_tok \in 1..Len(toks) /\ toks \in Seq(Seq(Byte))
    BY DEF Overlaying, OverlayingAt, ByLength
  <2>2. t \in Seq(Byte)
    BY <2>1
  <2> HIDE DEF t
  <2>3. Len(t) \in Nat
    BY <2>2
  <2> QED
    BY <2>1, <2>2, <2>3
<1>4. t \in Range(toks)
  BY <1>3 DEF Range
<1>5. CASE last_len = 0 /\ out_buf = in_buf
  <2> HIDE DEF t
  <2>1. Len(t) <= len - pos /\ t = Word(out_buf, pos, Len(t)) => Put(in_buf, pos, t) = in_buf
    <3> SUFFICES ASSUME Len(t) <= len - pos, t = Word(in_buf, pos, Len(t))
                 PROVE  Put(in_buf, pos, t) = in_buf
      BY <1>5
    <3>1. pos + Len(t) <= Len(in_buf)
      BY <1>1, <1>2, <1>3
    <3> QED
      BY <1>1, <1>2, <1>3, <3>1, PutSame
  <2> QED
    BY <1>3, <1>4, <1>5, <2>1 DEF t
<1>6. CASE \E j \in 1 .. next_tok - 1 :
             /\ out_buf = Put(in_buf, pos, toks[j]) /\ out_buf \in overlaid
             /\ last_len = Len(toks[j]) /\ last_len <= len - pos
  <2>1. PICK j \in 1 .. next_tok - 1 : out_buf = Put(in_buf, pos, toks[j]) /\ out_buf \in overlaid
    BY <1>6
  <2>2. j \in 1..Len(toks) /\ j < next_tok
    BY <1>3
  <2> DEFINE v == toks[j]
  <2>3. v \in Seq(Byte) /\ Len(v) <= Len(t)
    BY <1>3, <2>2 DEF ByLength
  <2> HIDE DEF v, t
  <2>4. Put(Put(in_buf, pos, v), pos, t) = Put(in_buf, pos, t)
    BY <1>1, <1>2, <1>3, <2>3, PutCovers
  <2>5. Put(out_buf, pos, t) = Put(in_buf, pos, t)
    BY <2>1, <2>4 DEF v
  <2>6. out_buf \in Seq(Byte) /\ Len(out_buf) = Len(in_buf)
    BY <1>1, <1>2, <2>1, <2>3, PutFacts DEF v
  <2>7. Len(t) <= len - pos /\ t = Word(out_buf, pos, Len(t)) => Put(in_buf, pos, t) = out_buf
    <3> SUFFICES ASSUME Len(t) <= len - pos, t = Word(out_buf, pos, Len(t))
                 PROVE  Put(out_buf, pos, t) = out_buf
      BY <2>5
    <3>1. pos + Len(t) <= Len(out_buf)
      BY <1>1, <1>2, <1>3, <2>6
    <3> QED
      BY <1>2, <1>3, <2>6, <3>1, PutSame
  <2> QED
    BY <1>3, <1>4, <2>1, <2>5, <2>7 DEF t
<1> QED
  BY <1>5, <1>6 DEF Overlaying, OverlayingAt, Written

\* The next token of an overwriting stage.
LEMMA OverTokenStep ==
  ASSUME FInv, cur \in 1..Len(sc.queue), NEW toks, ByLength(toks), NEW all, Overlaying(toks, all),
         NEW s, NEW skips, OverToken(s, toks, skips), all => skips = {FALSE}
  PROVE  OverlayingAt(toks, all, pos', next_tok', last_len', out_buf', overlaid')
<1> DEFINE t == toks[next_tok]
           before == IF pos = 0 /\ next_tok = 1 THEN {} ELSE overlaid
           o == Put(in_buf, pos, t)
<1>0. /\ next_tok <= Len(toks) /\ next_tok' = next_tok + 1 /\ pos' = pos
      /\ \E skip \in skips :
           IF skip \/ Redundant(t)
           THEN overlaid' = before /\ UNCHANGED <<out_buf, last_len, tested>>
           ELSE /\ out_buf' = Put(out_buf, pos, t) /\ last_len' = Len(t)
                /\ Run({out_buf'})
                /\ overlaid' = before \cup {out_buf'}
  BY DEF OverToken
<1>1. in_buf \in Seq(Byte) /\ len = Len(in_buf) /\ len \in Nat \ {0}
  BY EntryFacts
<1>2. /\ t \in Seq(Byte) /\ t \in Range(toks) /\ next_tok \in 1..Len(toks)
      /\ Put(out_buf, pos, t) = o
      /\ Len(t) <= len - pos /\ t = Word(out_buf, pos, Len(t)) =>
           o = in_buf \/ (o = out_buf /\ out_buf \in overlaid)
  BY <1>0, TokenOverlay
<1>3. pos \in 0 .. len - 1 /\ Len(toks) \in Nat
  BY DEF Overlaying, OverlayingAt, ByLength
<1>4. Written(toks, pos, next_tok, last_len, out_buf, overlaid) /\ Covered(toks, all, pos, next_tok, overlaid)
  BY DEF Overlaying, OverlayingAt
<1>5. next_tok' \in 1 .. Len(toks) + 1
  BY <1>0, <1>2, <1>3
<1>6. before \subseteq Overlays(toks)
  BY <1>4 DEF Covered
<1>7. \A out : Written(toks, pos, next_tok, last_len, out, overlaid) =>
               Written(toks, pos, next_tok + 1, last_len, out, before)
  <2> SUFFICES ASSUME NEW out, Written(toks, pos, next_tok, last_len, out, overlaid)
               PROVE  Written(toks, pos, next_tok + 1, last_len, out, before)
    OBVIOUS
  <2>1. CASE last_len = 0 /\ out = in_buf
    BY <2>1 DEF Written
  <2>2. CASE \E j \in 1 .. next_tok - 1 :
       /\ out = Put(in_buf, pos, toks[j]) /\ out \in overlaid
       /\ last_len = Len(toks[j]) /\ last_len <= len - pos
    <3>1. PICK j \in 1 .. next_tok - 1 :
       /\ out = Put(in_buf, pos, toks[j]) /\ out \in overlaid
       /\ last_len = Len(toks[j]) /\ last_len <= len - pos
      BY <2>2
    <3>2. next_tok # 1 /\ j \in 1 .. (next_tok + 1) - 1
      BY <1>2
    <3>3. before = overlaid
      BY <3>2
    <3> QED
      BY <3>1, <3>2, <3>3 DEF Written
  <2> QED
    BY <2>1, <2>2 DEF Written
\* The overlays before this one are still there, as before is not empty then.
<1>8. ASSUME all, NEW i \in 0 .. len - 1, NEW k \in 1..Len(toks), Fits(i, toks[k]),
             i < pos \/ (i = pos /\ k < next_tok)
      PROVE  Put(in_buf, i, toks[k]) \in before \cup {in_buf}
  <2>1. Put(in_buf, i, toks[k]) \in overlaid \cup {in_buf}
    BY <1>4, <1>8 DEF Covered
  <2>2. ~(pos = 0 /\ next_tok = 1)
    BY <1>1, <1>3, <1>8
  <2> QED
    BY <2>1, <2>2
<1>9. \A i \in 0 .. len - 1, k \in 1..Len(toks) :
        (i < pos \/ (i = pos /\ k < next_tok + 1)) =>
           (i < pos \/ (i = pos /\ k < next_tok)) \/ (i = pos /\ k = next_tok)
  BY <1>2, <1>3
<1>10. CASE /\ overlaid' = before /\ out_buf' = out_buf /\ last_len' = last_len
            /\ all => Redundant(t)
  <2>1. Written(toks, pos, next_tok + 1, last_len, out_buf, before)
    BY <1>4, <1>7
  <2>2. ASSUME all, Fits(pos, t) PROVE o \in before \cup {in_buf}
    <3>1. Len(t) <= len - pos /\ t = Word(out_buf, pos, Len(t))
      <4>1. Redundant(t)
        BY <1>10, <2>2
      <4>2. Len(t) \in Nat /\ pos \in Nat /\ len \in Nat
        <5> HIDE DEF t
        <5> QED
          BY <1>1, <1>2, <1>3
      <4> HIDE DEF t
      <4>3. Len(t) <= len - pos /\ SpanEffective(pos, Len(t), eff_map)
        BY <2>2 DEF Fits
      <4>4. ~(Len(t) > len - pos)
        BY <4>2, <4>3
      <4> QED
        BY <4>1, <4>3, <4>4 DEF Redundant
    <3>2. o = in_buf \/ (o = out_buf /\ out_buf \in overlaid)
      BY <1>2, <3>1
    <3>3. CASE pos = 0 /\ next_tok = 1
      <4>1. out_buf = in_buf
        <5>1. 1 .. next_tok - 1 = {}
          BY <3>3
        <5> QED
          BY <1>4, <5>1 DEF Written
      <4> QED
        BY <3>2, <4>1
    <3> QED
      BY <3>2, <3>3
  <2>3. Covered(toks, all, pos, next_tok + 1, before)
    <3>1. ASSUME all, NEW i \in 0 .. len - 1, NEW k \in 1..Len(toks),
                 i < pos \/ (i = pos /\ k < next_tok + 1), Fits(i, toks[k])
          PROVE  Put(in_buf, i, toks[k]) \in before \cup {in_buf}
      BY <1>8, <1>9, <2>2, <3>1
    <3> HIDE DEF before
    <3> QED
      BY <1>6, <3>1 DEF Covered
  <2> QED
    BY <1>0, <1>3, <1>5, <1>10, <2>1, <2>3 DEF OverlayingAt
<1>11. CASE /\ ~Redundant(t) /\ out_buf' = Put(out_buf, pos, t) /\ last_len' = Len(t)
            /\ overlaid' = before \cup {out_buf'}
  <2>0. Len(t) <= len - pos /\ SpanEffective(pos, Len(t), eff_map)
    <3>1. Len(t) \in Nat /\ pos \in Nat /\ len \in Nat
      <4> HIDE DEF t
      <4> QED
        BY <1>1, <1>2, <1>3
    <3> HIDE DEF t
    <3> QED
      BY <1>11, <3>1 DEF Redundant
  <2>1. out_buf' = o /\ o \in Overlays(toks)
    BY <1>2, <1>3, <1>11, <2>0, OverlayIn DEF Fits
  <2>2. Written(toks, pos, next_tok + 1, last_len', out_buf', overlaid')
    <3>1. next_tok \in 1 .. (next_tok + 1) - 1
      BY <1>2
    <3> QED
      BY <1>11, <2>0, <2>1, <3>1 DEF Written
  <2>3. Covered(toks, all, pos, next_tok + 1, overlaid')
    <3>1. overlaid' \subseteq Overlays(toks)
      BY <1>6, <1>11, <2>1
    <3>2. ASSUME all, NEW i \in 0 .. len - 1, NEW k \in 1..Len(toks),
                 i < pos \/ (i = pos /\ k < next_tok + 1), Fits(i, toks[k])
          PROVE  Put(in_buf, i, toks[k]) \in overlaid' \cup {in_buf}
      <4>1. CASE i < pos \/ (i = pos /\ k < next_tok)
        BY <1>8, <1>11, <3>2, <4>1
      <4>2. CASE i = pos /\ k = next_tok
        BY <1>11, <2>1, <4>2
      <4> QED
        BY <1>9, <3>2, <4>1, <4>2
    <3> QED
      BY <3>1, <3>2 DEF Covered
  <2> QED
    BY <1>0, <1>3, <1>5, <2>2, <2>3 DEF OverlayingAt
<1> QED
  <2>1. PICK skip \in skips :
           IF skip \/ Redundant(t)
           THEN overlaid' = before /\ UNCHANGED <<out_buf, last_len, tested>>
           ELSE /\ out_buf' = Put(out_buf, pos, t) /\ last_len' = Len(t)
                /\ Run({out_buf'})
                /\ overlaid' = before \cup {out_buf'}
    BY <1>0
  <2>2. CASE skip \/ Redundant(t)
    <3>1. all => Redundant(t)
      BY <2>1, <2>2
    <3> QED
      BY <1>10, <2>1, <2>2, <3>1
  <2>3. CASE ~(skip \/ Redundant(t))
    BY <1>11, <2>1, <2>3
  <2> QED
    BY <2>2, <2>3

\* The end of a position: the input is back, and the next position begins with
\* everything run that came before, or the stage is over with all of it run.
LEMMA OverRestoreStep ==
  ASSUME FInv, cur \in 1..Len(sc.queue), NEW toks, ByLength(toks), NEW all, Overlaying(toks, all),
         NEW s, OverRestore(s, toks)
  PROVE  /\ out_buf' = in_buf /\ next_tok' = 1 /\ last_len' = 0 /\ overlaid' = overlaid
         /\ ~(toks = <<>> \/ pos = len - 1) =>
              /\ stage' = s
              /\ OverlayingAt(toks, all, pos', next_tok', last_len', out_buf', overlaid')
         /\ toks = <<>> \/ pos = len - 1 =>
              /\ stage' = Follows(s) /\ pos' = 0
              /\ toks # <<>> => overlaid \subseteq Overlays(toks)
              /\ all /\ toks # <<>> => Overlays(toks) \ {in_buf} \subseteq overlaid
<1>0. /\ next_tok > Len(toks) /\ out_buf' = Put(out_buf, pos, Word(in_buf, pos, last_len))
      /\ next_tok' = 1 /\ last_len' = 0 /\ overlaid' = overlaid
      /\ pos' = IF toks = <<>> \/ pos = len - 1 THEN 0 ELSE pos + 1
      /\ stage' = IF toks = <<>> \/ pos = len - 1 THEN Follows(s) ELSE s
  BY DEF OverRestore, histVars
<1>1. in_buf \in Seq(Byte) /\ len = Len(in_buf) /\ len \in Nat \ {0}
  BY EntryFacts
<1>2. out_buf' = in_buf
  BY <1>0, RestoredInput
<1>3. pos \in 0 .. len - 1 /\ toks \in Seq(Seq(Byte)) /\ Len(toks) \in Nat /\ next_tok = Len(toks) + 1
  <2>1. next_tok \in 1 .. Len(toks) + 1 /\ Len(toks) \in Nat
    BY DEF Overlaying, OverlayingAt, ByLength
  <2> QED
    BY <1>0, <2>1 DEF Overlaying, OverlayingAt, ByLength
<1>4. Covered(toks, all, pos, next_tok, overlaid)
  BY DEF Overlaying, OverlayingAt
<1>5. toks # <<>> => overlaid \subseteq Overlays(toks)
  <2> SUFFICES ASSUME toks # <<>> PROVE overlaid \subseteq Overlays(toks)
    OBVIOUS
  <2>1. Len(toks) > 0
    BY <1>3
  <2>2. next_tok # 1
    BY <1>3, <2>1
  <2> QED
    BY <1>4, <2>2 DEF Covered
<1>6. ASSUME all, NEW i \in 0 .. len - 1, NEW k \in 1..Len(toks), i <= pos, Fits(i, toks[k])
      PROVE  Put(in_buf, i, toks[k]) \in overlaid \cup {in_buf}
  <2>1. i < pos \/ (i = pos /\ k < next_tok)
    BY <1>1, <1>3, <1>6
  <2> QED
    BY <1>4, <1>6, <2>1 DEF Covered
<1>7. ASSUME ~(toks = <<>> \/ pos = len - 1)
      PROVE  OverlayingAt(toks, all, pos', next_tok', last_len', out_buf', overlaid')
  <2>1. pos' = pos + 1 /\ pos + 1 \in 0 .. len - 1
    BY <1>0, <1>1, <1>3, <1>7
  <2>2. 1 \in 1 .. Len(toks) + 1
    BY <1>3
  <2>3. Written(toks, pos + 1, 1, 0, in_buf, overlaid)
    BY DEF Written
  <2>4. \A i \in 0 .. len - 1, k \in 1..Len(toks) :
          (i < pos + 1 \/ (i = pos + 1 /\ k < 1)) => i <= pos
    BY <1>1, <1>3
  <2>5. Covered(toks, all, pos + 1, 1, overlaid)
    BY <1>5, <1>6, <1>7, <2>4 DEF Covered
  <2> QED
    BY <1>0, <1>2, <2>1, <2>2, <2>3, <2>5 DEF OverlayingAt
<1>8. ASSUME all, toks # <<>>, toks = <<>> \/ pos = len - 1
      PROVE  Overlays(toks) \ {in_buf} \subseteq overlaid
  <2> SUFFICES ASSUME NEW o \in Overlays(toks), o # in_buf PROVE o \in overlaid
    OBVIOUS
  <2>1. PICK i \in 0 .. len - 1, k \in 1..Len(toks) : Fits(i, toks[k]) /\ o = Put(in_buf, i, toks[k])
    BY <1>3, OverlayOf
  <2>2. i <= pos
    BY <1>1, <1>8
  <2> QED
    BY <1>6, <1>8, <2>1, <2>2
<1> QED
  BY <1>0, <1>2, <1>5, <1>7, <1>8

\* The stages follow each other in the order of the table.
LEMMA FollowsIs ==
  /\ Follows("flip2") = "flip4" /\ Follows("flip4") = "flip8" /\ Follows("flip8") = "flip16"
  /\ Follows("flip16") = "flip32" /\ Follows("flip32") = "arith8" /\ Follows("arith8") = "arith16"
  /\ Follows("arith16") = "arith32" /\ Follows("arith32") = "int8" /\ Follows("int8") = "int16"
  /\ Follows("int16") = "int32" /\ Follows("int32") = "ext_UO" /\ Follows("ext_UO") = "ext_UI"
  /\ Follows("ext_UI") = "ext_AO" /\ Follows("ext_AO") = "det_done"
<1> DEFINE Index(x) ==
      IF x = "flip1" THEN 1 ELSE IF x = "flip2" THEN 2 ELSE IF x = "flip4" THEN 3
      ELSE IF x = "flip8" THEN 4 ELSE IF x = "flip16" THEN 5 ELSE IF x = "flip32" THEN 6
      ELSE IF x = "arith8" THEN 7 ELSE IF x = "arith16" THEN 8 ELSE IF x = "arith32" THEN 9
      ELSE IF x = "int8" THEN 10 ELSE IF x = "int16" THEN 11 ELSE IF x = "int32" THEN 12
      ELSE IF x = "ext_UO" THEN 13 ELSE IF x = "ext_UI" THEN 14 ELSE IF x = "ext_AO" THEN 15
      ELSE 16
<1>1. ASSUME NEW k \in 1..16 PROVE Index(Stages[k]) = k
  <2>1. \/ k = 1 \/ k = 2 \/ k = 3 \/ k = 4 \/ k = 5 \/ k = 6 \/ k = 7 \/ k = 8 \/ k = 9
        \/ k = 10 \/ k = 11 \/ k = 12 \/ k = 13 \/ k = 14 \/ k = 15 \/ k = 16
    OBVIOUS
  <2> QED
    BY <2>1 DEF Stages
<1> HIDE DEF Index
<1>2. ASSUME NEW n \in 2..16 PROVE Follows(Stages[n - 1]) = Stages[n]
  <2>1. \A k \in 2..16 : Stages[k - 1] = Stages[n - 1] <=> k = n
    <3>1. \A k \in 2..16 : k - 1 \in 1..16
      OBVIOUS
    <3>2. \A k \in 2..16 : Index(Stages[k - 1]) = k - 1
      BY <1>1, <3>1
    <3>3. ASSUME NEW k \in 2..16, Stages[k - 1] = Stages[n - 1] PROVE k = n
      <4>1. k - 1 = n - 1
        BY <3>2, <3>3
      <4> QED
        BY <4>1
    <3> QED
      BY <3>3
  <2>2. (CHOOSE k \in 2..16 : Stages[k - 1] = Stages[n - 1]) = n
    BY <2>1
  <2> QED
    BY <2>2, StageNames DEF Follows
<1>3. /\ Follows(Stages[2]) = Stages[3] /\ Follows(Stages[3]) = Stages[4]
      /\ Follows(Stages[4]) = Stages[5] /\ Follows(Stages[5]) = Stages[6]
      /\ Follows(Stages[6]) = Stages[7] /\ Follows(Stages[7]) = Stages[8]
      /\ Follows(Stages[8]) = Stages[9] /\ Follows(Stages[9]) = Stages[10]
      /\ Follows(Stages[10]) = Stages[11] /\ Follows(Stages[11]) = Stages[12]
      /\ Follows(Stages[12]) = Stages[13] /\ Follows(Stages[13]) = Stages[14]
      /\ Follows(Stages[14]) = Stages[15] /\ Follows(Stages[15]) = Stages[16]
  <2>1. \A n \in 2..16 : Follows(Stages[n - 1]) = Stages[n]
    BY <1>2
  <2>2. ASSUME NEW m \in 1..15 PROVE Follows(Stages[m]) = Stages[m + 1]
    <3>1. m + 1 \in 2..16 /\ (m + 1) - 1 = m
      OBVIOUS
    <3> QED
      BY <2>1, <3>1
  <2>3. \A m \in 1..15 : \A n : n = m + 1 => Follows(Stages[m]) = Stages[n]
    BY <2>2
  <2> QED
    BY <2>3
<1> QED
  BY <1>3 DEF Stages

\* What a step may do to an entry: leave fuzz_one(), do nothing to the buffer, or
\* go on to another stage with it.
LeavesFuzzOne == ~InFuzzOne'
OverVars == <<sc, cur, stage, pos, out_buf, eff_map, next_tok, last_len, overlaid, extras, a_extras>>
GoesOn ==
  /\ InFuzzOne /\ stage \notin Over /\ InFuzzOne'
  /\ UNCHANGED <<sc, cur, out_buf, next_tok, last_len>>
  /\ stage' # "flip1" => pos' = 0
  /\ stage' \notin {"ext_UI", "det_done"}

\* Every step is one of these, of the overwriting stages, or begins an entry.
LEMMA OverSteps ==
  ASSUME FInv, OInv, [Next]_vars
  PROVE  LeavesFuzzOne \/ UNCHANGED OverVars \/ GoesOn \/ Pick \/ ExtrasOver \/ AutoExtrasOver
<1> USE DEF LeavesFuzzOne, OverVars
<1>now. InFuzzOne <=> stage \in LaterStages \cup {"flip1", "havoc"}
  BY StageNames DEF InFuzzOne
<1>then. InFuzzOne' <=> stage' \in LaterStages \cup {"flip1", "havoc"}
  BY StageNames DEF InFuzzOne
<1>1. CASE LoadAuto \/ LoadExtras \/ Start \/ Skip \/ Havoc \/ Abandon \/ Stop \/ Restart
  <2>1. stage' \in {"load", "start", "pick", "stop", "exit"}
    BY <1>1 DEF LoadAuto, LoadExtras, Start, Skip, Havoc, Abandon, Stop, Restart
  <2> QED
    BY <1>then, <2>1 DEF LaterStages
<1>2. CASE Fault \/ StatsSave \/ SaveStep
  BY <1>2 DEF Fault, StatsSave, SaveStep, save_auto_Begin, save_auto_Open, save_auto_Write,
       queueVars, bufVars, histVars, dictVars
<1>3. CASE UNCHANGED vars
  BY <1>3 DEF vars, queueVars, bufVars, histVars, dictVars
<1>4. CASE Flip1
  <2>1. /\ stage = "flip1" /\ UNCHANGED <<sc, cur, out_buf, next_tok, last_len>>
        /\ stage' \in {"flip1", "flip2"} /\ (stage' # "flip1" => pos' = 0)
    BY <1>4 DEF Flip1, queueVars
  <2> QED
    BY <1>now, <1>then, <2>1 DEF GoesOn, LaterStages, Over
<1>5. ASSUME NEW s \in LaterStages \ (Over \cup {"det_done"}), NEW tests, Do(s, tests) PROVE GoesOn
  <2>1. /\ stage = s /\ UNCHANGED <<sc, cur, out_buf, next_tok, last_len, pos>>
        /\ stage' = Follows(s)
    BY <1>5 DEF Do, queueVars
  <2>2. stage' \in LaterStages \ {"ext_UI", "det_done"}
    BY <2>1, FollowsIs DEF LaterStages, Over
  <2>3. pos = 0
    BY <1>now, <2>1 DEF OInv, LaterStages, Over
  <2> QED
    BY <1>now, <1>then, <2>1, <2>2, <2>3 DEF GoesOn
<1>6. CASE Flip24 \/ Flip8 \/ Flip1632 \/ Arith \/ Interest \/ ExtrasInsert
  <2>1. \E s \in LaterStages \ (Over \cup {"det_done"}) : \E tests : Do(s, tests)
    BY <1>6 DEF Flip24, Flip8, Flip1632, Arith, Interest, ExtrasInsert, LaterStages, Over
  <2> QED
    BY <1>5, <2>1
<1>7. CASE mark_as_det_done
  <2>1. /\ stage = "det_done" /\ UNCHANGED <<sc, cur, out_buf, next_tok, last_len, pos>>
        /\ stage' = "havoc"
    BY <1>7 DEF mark_as_det_done, bufVars
  <2>2. pos = 0
    BY <1>now, <2>1 DEF OInv, LaterStages, Over
  <2> QED
    BY <1>now, <1>then, <2>1, <2>2 DEF GoesOn, LaterStages, Over
<1> QED
  BY <1>1, <1>2, <1>3, <1>4, <1>6, <1>7 DEF Next, DetNext

\* No step breaks the third invariant.
LEMMA OverlayStep == FInv /\ OInv /\ [Next]_vars => OInv'
<1> SUFFICES ASSUME FInv, OInv, [Next]_vars PROVE OInv'
  OBVIOUS
<1>1. ByLength(extras') /\ ByLength(UsedTokens')
  BY OrderSteps DEF OInv
<1>2. CASE LeavesFuzzOne
  <2>1. ~InFuzzOne' /\ stage' \notin {"ext_UO", "ext_UI", "ext_AO", "det_done"}
    BY <1>2, StageNames DEF LeavesFuzzOne, InFuzzOne, LaterStages
  <2> QED
    BY <1>1, <2>1 DEF OInv, OverlaysExact
<1>3. CASE UNCHANGED OverVars
  <2>1. UNCHANGED <<sc, cur, stage, pos, out_buf, eff_map, next_tok, last_len, overlaid, extras, a_extras>>
    BY <1>3 DEF OverVars
  <2>2. in_buf' = in_buf /\ len' = len /\ UsedTokens' = UsedTokens /\ InFuzzOne' = InFuzzOne
    BY <2>1 DEF in_buf, len, Entry, UsedTokens, InFuzzOne
  <2>3. \A t : Overlays(t)' = Overlays(t)
    BY <2>1, <2>2 DEF Overlays
  <2>4. Overlays(extras)' = Overlays(extras) /\ Overlays(UsedTokens)' = Overlays(UsedTokens)
    BY <2>1, <2>2 DEF Overlays
  <2>5. OverlaysExact'
    BY <2>1, <2>2, <2>4 DEF OInv, OverlaysExact
  <2>6. stage = "ext_UO" => Overlaying(extras, Len(extras) <= MAX_DET_EXTRAS)'
    BY <2>1, <2>2, <2>4 DEF OInv, Overlaying, OverlayingAt, Written, Covered, Fits
  <2>7. stage = "ext_AO" => Overlaying(UsedTokens, TRUE)'
    BY <2>1, <2>2, <2>4 DEF OInv, Overlaying, OverlayingAt, Written, Covered, Fits
  <2> QED
    BY <1>1, <2>1, <2>2, <2>5, <2>6, <2>7 DEF OInv
<1>4. CASE GoesOn
  <2>1. /\ InFuzzOne /\ stage \notin Over /\ InFuzzOne' /\ UNCHANGED <<sc, cur, out_buf, next_tok, last_len>>
        /\ (stage' # "flip1" => pos' = 0) /\ stage' \notin {"ext_UI", "det_done"}
    BY <1>4 DEF GoesOn
  <2>2. in_buf' = in_buf /\ len' = len
    BY <2>1 DEF in_buf, len, Entry
  <2>3. cur \in 1..Len(sc.queue) /\ out_buf' = in_buf' /\ next_tok' = 1 /\ last_len' = 0
    BY <2>1, <2>2 DEF OInv
  <2>4. len' \in Nat \ {0}
    BY <2>2, <2>3, EntryFacts
  <2>5. ASSUME stage' \in Over, NEW toks, ByLength(toks), NEW all
        PROVE  OverlayingAt(toks, all, pos, next_tok, last_len, out_buf, overlaid)'
    <3>1. stage' # "flip1"
      BY <2>5 DEF Over
    <3>2. pos' = 0
      BY <2>1, <3>1
    <3>3. 0 \in 0 .. len' - 1
      <4>1. len \in Nat \ {0}
        BY <2>3, EntryFacts
      <4>2. 0 \in 0 .. len - 1
        BY <4>1
      <4> QED
        BY <2>2, <4>2
    <3>4. pos' = 0 /\ 0 \in 0 .. len' - 1
      BY <3>2, <3>3
    <3>5. Len(toks) \in Nat /\ 1 \in 1 .. Len(toks) + 1
      BY <2>5 DEF ByLength
    <3>6. \A i \in 0 .. len' - 1, k \in 1..Len(toks) : ~(i < 0 \/ (i = 0 /\ k < 1))
      BY <2>4, <3>5
    <3> QED
      BY <2>3, <3>4, <3>5, <3>6 DEF OverlayingAt, Written, Covered
  <2>6. stage' = "ext_UO" => Overlaying(extras, Len(extras) <= MAX_DET_EXTRAS)'
    BY <1>1, <2>5 DEF Over, Overlaying
  <2>7. stage' = "ext_AO" => Overlaying(UsedTokens, TRUE)'
    BY <1>1, <2>5 DEF Over, Overlaying
  <2>8. OverlaysExact'
    BY <2>1, <2>3 DEF OverlaysExact
  <2> QED
    BY <1>1, <2>1, <2>3, <2>6, <2>7, <2>8 DEF OInv, Over
<1>5. CASE Pick
  <2>1. /\ cur' = NextEntry /\ pos' = 0 /\ out_buf' = sc.queue[cur'].buf /\ sc' = sc
        /\ next_tok' = 1 /\ last_len' = 0 /\ stage' \in {"havoc", "flip1"}
    BY <1>5 DEF Pick
  <2>2. cur' \in 1..Len(sc'.queue) /\ out_buf' = in_buf'
    BY <2>1, NextEntryInQueue DEF in_buf, Entry
  <2> QED
    BY <1>1, <2>1, <2>2 DEF OInv, OverlaysExact, Over
<1>6. ASSUME NEW s \in Over, NEW toks, ByLength(toks), NEW all \in BOOLEAN, Overlaying(toks, all),
             NEW skips, all => skips = {FALSE}, stage = s,
             OverToken(s, toks, skips) \/ OverRestore(s, toks)
      PROVE  /\ stage' = s => OverlayingAt(toks, all, pos', next_tok', last_len', out_buf', overlaid')
             /\ stage' \in {s, Follows(s)}
             /\ UNCHANGED <<sc, cur, eff_map, extras, a_extras>>
             /\ stage' # s =>
                  /\ out_buf' = in_buf /\ next_tok' = 1 /\ last_len' = 0 /\ pos' = 0
                  /\ toks # <<>> => overlaid' \subseteq Overlays(toks)
                  /\ all /\ toks # <<>> => Overlays(toks) \ {in_buf} \subseteq overlaid'
             /\ next_tok' = 1 => out_buf' = in_buf
  <2>0. UNCHANGED <<sc, cur, eff_map, extras, a_extras>>
    BY <1>6 DEF OverToken, OverRestore, queueVars, dictVars
  <2>1. cur \in 1..Len(sc.queue)
    BY <1>6, StageNames DEF OInv, InFuzzOne, Over, LaterStages
  <2>2. CASE OverToken(s, toks, skips)
    <3>1. OverlayingAt(toks, all, pos', next_tok', last_len', out_buf', overlaid')
      BY <1>6, <2>1, <2>2, OverTokenStep
    <3>2. stage' = s /\ next_tok' = next_tok + 1
      BY <1>6, <2>2 DEF OverToken
    <3>3. next_tok' # 1
      <4>1. next_tok \in 1 .. Len(toks) + 1 /\ Len(toks) \in Nat
        BY <1>6 DEF Overlaying, OverlayingAt, ByLength
      <4> QED
        BY <3>2, <4>1
    <3> QED
      BY <2>0, <3>1, <3>2, <3>3
  <2>3. CASE OverRestore(s, toks)
    <3>1. /\ out_buf' = in_buf /\ next_tok' = 1 /\ last_len' = 0 /\ overlaid' = overlaid
          /\ ~(toks = <<>> \/ pos = len - 1) =>
              /\ stage' = s
              /\ OverlayingAt(toks, all, pos', next_tok', last_len', out_buf', overlaid')
          /\ toks = <<>> \/ pos = len - 1 =>
              /\ stage' = Follows(s) /\ pos' = 0
              /\ toks # <<>> => overlaid \subseteq Overlays(toks)
              /\ all /\ toks # <<>> => Overlays(toks) \ {in_buf} \subseteq overlaid
      BY <1>6, <2>1, <2>3, OverRestoreStep
    <3>2. Follows(s) # s
      BY <1>6, FollowsIs DEF Over
    <3>3. CASE toks = <<>> \/ pos = len - 1
      BY <2>0, <3>1, <3>2, <3>3
    <3>4. CASE ~(toks = <<>> \/ pos = len - 1)
      BY <2>0, <3>1, <3>4
    <3> QED
      BY <3>3, <3>4
  <2> QED
    BY <1>6, <2>2, <2>3
<1>7. CASE ExtrasOver
  <2> DEFINE all == Len(extras) <= MAX_DET_EXTRAS
             skips == IF Len(extras) > MAX_DET_EXTRAS THEN BOOLEAN ELSE {FALSE}
  <2>1. stage = "ext_UO" /\ (OverToken("ext_UO", extras, skips) \/ OverRestore("ext_UO", extras))
    BY <1>7 DEF ExtrasOver, OverToken, OverRestore
  <2>2. Overlaying(extras, all) /\ ByLength(extras)
    BY <2>1 DEF OInv
  <2>3. all => skips = {FALSE}
    <3>1. Len(extras) \in Nat /\ MAX_DET_EXTRAS \in Nat
      BY <2>2, FuzzOneAssumption DEF ByLength
    <3>2. all => ~(Len(extras) > MAX_DET_EXTRAS)
      BY <3>1
    <3> QED
      BY <3>2, Zenon
  <2>4. all \in BOOLEAN /\ "ext_UO" \in Over
    BY DEF Over
  <2> HIDE DEF all, skips
  <2>5. /\ stage' = "ext_UO" => OverlayingAt(extras, all, pos', next_tok', last_len', out_buf', overlaid')
        /\ stage' \in {"ext_UO", Follows("ext_UO")}
        /\ UNCHANGED <<sc, cur, eff_map, extras, a_extras>>
        /\ stage' # "ext_UO" =>
             /\ out_buf' = in_buf /\ next_tok' = 1 /\ last_len' = 0 /\ pos' = 0
             /\ extras # <<>> => overlaid' \subseteq Overlays(extras)
             /\ all /\ extras # <<>> => Overlays(extras) \ {in_buf} \subseteq overlaid'
        /\ next_tok' = 1 => out_buf' = in_buf
    BY <1>6, <2>1, <2>2, <2>3, <2>4
  <2>6. stage' \in {"ext_UO", "ext_UI"}
    BY <2>5, FollowsIs
  <2>7. in_buf' = in_buf /\ len' = len /\ Overlays(extras)' = Overlays(extras)
    BY <2>5 DEF in_buf, len, Entry, Overlays
  <2>8. cur' \in 1..Len(sc'.queue)
    BY <2>1, <2>5, StageNames DEF OInv, InFuzzOne, LaterStages
  <2>9. stage' = "ext_UO" => Overlaying(extras, Len(extras) <= MAX_DET_EXTRAS)'
    BY <2>5, <2>7 DEF Overlaying, OverlayingAt, Written, Covered, Fits, all
  <2>10. OverlaysExact'
    BY <2>5, <2>6, <2>7 DEF OverlaysExact, all
  <2> QED
    BY <1>1, <2>5, <2>6, <2>7, <2>8, <2>9, <2>10 DEF OInv, Over
<1>8. CASE AutoExtrasOver
  <2>1. stage = "ext_AO" /\ (OverToken("ext_AO", UsedTokens, {FALSE}) \/ OverRestore("ext_AO", UsedTokens))
    BY <1>8 DEF AutoExtrasOver, OverToken, OverRestore
  <2>2. Overlaying(UsedTokens, TRUE) /\ ByLength(UsedTokens)
    BY <2>1 DEF OInv
  <2>3. "ext_AO" \in Over
    BY DEF Over
  <2> DEFINE toks == UsedTokens
  <2>4. toks = UsedTokens
    OBVIOUS
  <2>5. /\ stage' = "ext_AO" => OverlayingAt(UsedTokens, TRUE, pos', next_tok', last_len', out_buf', overlaid')
        /\ stage' \in {"ext_AO", Follows("ext_AO")}
        /\ UNCHANGED <<sc, cur, eff_map, extras, a_extras>>
        /\ stage' # "ext_AO" =>
             /\ out_buf' = in_buf /\ next_tok' = 1 /\ last_len' = 0 /\ pos' = 0
             /\ UsedTokens # <<>> => overlaid' \subseteq Overlays(UsedTokens)
             /\ UsedTokens # <<>> => Overlays(UsedTokens) \ {in_buf} \subseteq overlaid'
        /\ next_tok' = 1 => out_buf' = in_buf
    <3> HIDE DEF toks
    <3>1. /\ stage' = "ext_AO" => OverlayingAt(toks, TRUE, pos', next_tok', last_len', out_buf', overlaid')
          /\ stage' \in {"ext_AO", Follows("ext_AO")}
          /\ UNCHANGED <<sc, cur, eff_map, extras, a_extras>>
          /\ stage' # "ext_AO" =>
               /\ out_buf' = in_buf /\ next_tok' = 1 /\ last_len' = 0 /\ pos' = 0
               /\ toks # <<>> => overlaid' \subseteq Overlays(toks)
               /\ TRUE /\ toks # <<>> => Overlays(toks) \ {in_buf} \subseteq overlaid'
          /\ next_tok' = 1 => out_buf' = in_buf
      BY <1>6, <2>1, <2>2, <2>3, <2>4
    <3> QED
      BY <2>4, <3>1
  <2> HIDE DEF toks
  <2>6. stage' \in {"ext_AO", "det_done"}
    BY <2>5, FollowsIs
  <2>7. in_buf' = in_buf /\ len' = len /\ UsedTokens' = UsedTokens
    BY <2>5 DEF in_buf, len, Entry, UsedTokens
  <2>8. Overlays(UsedTokens)' = Overlays(UsedTokens)
    BY <2>5, <2>7 DEF Overlays
  <2>9. cur' \in 1..Len(sc'.queue)
    BY <2>1, <2>5, StageNames DEF OInv, InFuzzOne, LaterStages
  <2>10. stage' = "ext_AO" => Overlaying(UsedTokens, TRUE)'
    BY <2>5, <2>7, <2>8 DEF Overlaying, OverlayingAt, Written, Covered, Fits
  <2>11. a_extras # <<>> => UsedTokens # <<>>
    <3> SUFFICES ASSUME a_extras # <<>> PROVE UsedTokens # <<>>
      OBVIOUS
    <3>1. a_extras \in Seq(Row) /\ Len(a_extras) > 0 /\ Len(a_extras) \in Nat
      BY DEF FInv, Tables, Table
    <3>2. UsedCount(a_extras) = IF USE_AUTO_EXTRAS <= Len(a_extras) THEN USE_AUTO_EXTRAS ELSE Len(a_extras)
      BY <3>1, UsedCountFacts
    <3>3. UsedCount(a_extras) \in 1..Len(a_extras)
      BY <3>1, <3>2, Limits
    <3> DEFINE c == UsedCount(a_extras)
    <3> HIDE DEF c
    <3>4. Len(SubSeq(a_extras, 1, c)) = c /\ c \in Nat \ {0}
      BY <3>1, <3>3 DEF c
    <3>5. DOMAIN UsedTokens = 1..c
      BY <3>4 DEF UsedTokens, Tokens, c
    <3>6. 1 \in DOMAIN UsedTokens
      BY <3>4, <3>5
    <3> QED
      BY <3>6
  <2>12. OverlaysExact'
    BY <2>5, <2>6, <2>7, <2>8, <2>11 DEF OverlaysExact
  <2> QED
    BY <1>1, <2>5, <2>6, <2>7, <2>9, <2>10, <2>12 DEF OInv, Over
<1> QED
  BY <1>2, <1>3, <1>4, <1>5, <1>7, <1>8, OverSteps

\* Of every behaviour.
THEOREM OverlayInvariant == Spec => []OInv
<1>1. Init => OInv
  <2> SUFFICES ASSUME Init PROVE OInv
    OBVIOUS
  <2>1. extras = <<>> /\ a_extras = <<>> /\ stage = "load"
    BY DEF Init, InitDictionary
  <2>2. ~InFuzzOne
    BY <2>1, StageNames DEF InFuzzOne, LaterStages
  <2>3. ByLength(<<>>)
    <3>1. <<>> \in Seq(Seq(Byte)) /\ Len(<<>>) = 0 /\ 1..0 = {}
      OBVIOUS
    <3> QED
      BY <3>1 DEF ByLength
  <2>4. UsedTokens = <<>>
    BY <2>1, NoTokens DEF UsedTokens
  <2> QED
    BY <2>1, <2>2, <2>3, <2>4 DEF OInv, OverlaysExact
<1> QED
  BY <1>1, OverlayStep, FuzzOneInvariant, PTL DEF Spec

\* The overwriting stages run every overlay of a token on the input that fits,
\* matters and differs from the input, and nothing else, although the buffer is
\* not restored between two tokens; and the other stages find the input there.
THEOREM OverlaysAreExact == Spec => []OverlaysExact
<1>1. OInv => OverlaysExact
  BY DEF OInv
<1> QED
  BY <1>1, OverlayInvariant, PTL

-----------------------------------------------------------------------------
(* Bits and bytes.                                                          *)

\* The masks of the bits.
LEMMA MaskIs ==
  /\ Mask(0) = 1 /\ Mask(1) = 2 /\ Mask(2) = 4 /\ Mask(3) = 8
  /\ Mask(4) = 16 /\ Mask(5) = 32 /\ Mask(6) = 64 /\ Mask(7) = 128
  BY DEF Mask

\* The eight bits one by one.
LEMMA BitNumbers ==
  ASSUME NEW j \in 0..7
  PROVE  j = 0 \/ j = 1 \/ j = 2 \/ j = 3 \/ j = 4 \/ j = 5 \/ j = 6 \/ j = 7
  OBVIOUS

\* A bit is 0 or 1.
LEMMA BitType ==
  ASSUME NEW x \in Byte, NEW j \in 0..7
  PROVE  Bit(x, j) \in {0, 1} /\ Mask(j) \in Nat \ {0}
<1>1. Mask(j) \in Nat \ {0}
  BY BitNumbers, MaskIs
<1>2. x \in Nat
  BY DEF Byte
<1> DEFINE m == Mask(j)
<1> HIDE DEF m
<1>3. m \in Nat \ {0}
  BY <1>1 DEF m
<1>4. x \div m \in Int
  BY <1>2, <1>3
<1> DEFINE y == x \div m
<1> HIDE DEF y
<1>5. y % 2 \in {0, 1}
  BY <1>4 DEF y
<1> QED
  BY <1>1, <1>5 DEF Bit, m, y

\* A byte is the sum of its bits.
LEMMA ByteSum ==
  ASSUME NEW x \in Byte
  PROVE  x = Bit(x, 0) + 2 * Bit(x, 1) + 4 * Bit(x, 2) + 8 * Bit(x, 3) + 16 * Bit(x, 4)
             + 32 * Bit(x, 5) + 64 * Bit(x, 6) + 128 * Bit(x, 7)
<1>1. x \in 0..255
  BY DEF Byte
<1>2. /\ Bit(x, 0) = (x \div 1) % 2 /\ Bit(x, 1) = (x \div 2) % 2
      /\ Bit(x, 2) = (x \div 4) % 2 /\ Bit(x, 3) = (x \div 8) % 2
      /\ Bit(x, 4) = (x \div 16) % 2 /\ Bit(x, 5) = (x \div 32) % 2
      /\ Bit(x, 6) = (x \div 64) % 2 /\ Bit(x, 7) = (x \div 128) % 2
  BY MaskIs DEF Bit
<1>3. /\ x \div 1 = x /\ x = 2 * (x \div 2) + (x % 2)
      /\ x \div 2 = 2 * (x \div 4) + ((x \div 2) % 2)
      /\ x \div 4 = 2 * (x \div 8) + ((x \div 4) % 2)
      /\ x \div 8 = 2 * (x \div 16) + ((x \div 8) % 2)
      /\ x \div 16 = 2 * (x \div 32) + ((x \div 16) % 2)
      /\ x \div 32 = 2 * (x \div 64) + ((x \div 32) % 2)
      /\ x \div 64 = 2 * (x \div 128) + ((x \div 64) % 2)
      /\ x \div 128 = (x \div 128) % 2
  <2>1. x \div 1 = x /\ x = 2 * (x \div 2) + (x % 2)
    BY <1>1
  <2>2. x \div 2 = 2 * (x \div 4) + ((x \div 2) % 2)
    BY <1>1
  <2>3. x \div 4 = 2 * (x \div 8) + ((x \div 4) % 2)
    BY <1>1
  <2>4. x \div 8 = 2 * (x \div 16) + ((x \div 8) % 2)
    BY <1>1
  <2>5. x \div 16 = 2 * (x \div 32) + ((x \div 16) % 2)
    BY <1>1
  <2>6. x \div 32 = 2 * (x \div 64) + ((x \div 32) % 2)
    BY <1>1
  <2>7. x \div 64 = 2 * (x \div 128) + ((x \div 64) % 2)
    BY <1>1
  <2>8. x \div 128 = (x \div 128) % 2
    BY <1>1
  <2> QED
    BY <2>1, <2>2, <2>3, <2>4, <2>5, <2>6, <2>7, <2>8
<1> DEFINE a0 == (x \div 1) % 2  a1 == (x \div 2) % 2  a2 == (x \div 4) % 2  a3 == (x \div 8) % 2
           a4 == (x \div 16) % 2  a5 == (x \div 32) % 2  a6 == (x \div 64) % 2  a7 == (x \div 128) % 2
<1>4. x = a0 + 2 * a1 + 4 * a2 + 8 * a3 + 16 * a4 + 32 * a5 + 64 * a6 + 128 * a7
  BY <1>1, <1>3
<1> QED
  BY <1>2, <1>4

\* Bytes with the same bits are the same, those with opposite bits are inverse.
LEMMA BitsDecide ==
  ASSUME NEW x \in Byte, NEW y \in Byte
  PROVE  /\ (\A j \in 0..7 : Bit(x, j) = Bit(y, j)) => x = y
         /\ (\A j \in 0..7 : Bit(x, j) # Bit(y, j)) => y = 255 - x
<1>1. /\ x = Bit(x, 0) + 2 * Bit(x, 1) + 4 * Bit(x, 2) + 8 * Bit(x, 3) + 16 * Bit(x, 4)
             + 32 * Bit(x, 5) + 64 * Bit(x, 6) + 128 * Bit(x, 7)
      /\ y = Bit(y, 0) + 2 * Bit(y, 1) + 4 * Bit(y, 2) + 8 * Bit(y, 3) + 16 * Bit(y, 4)
             + 32 * Bit(y, 5) + 64 * Bit(y, 6) + 128 * Bit(y, 7)
  BY ByteSum
<1>2. \A j \in 0..7 : Bit(x, j) \in {0, 1} /\ Bit(y, j) \in {0, 1}
  BY BitType
<1>3. ASSUME \A j \in 0..7 : Bit(x, j) = Bit(y, j) PROVE x = y
  <2>1. /\ Bit(x, 0) = Bit(y, 0) /\ Bit(x, 1) = Bit(y, 1) /\ Bit(x, 2) = Bit(y, 2)
        /\ Bit(x, 3) = Bit(y, 3) /\ Bit(x, 4) = Bit(y, 4) /\ Bit(x, 5) = Bit(y, 5)
        /\ Bit(x, 6) = Bit(y, 6) /\ Bit(x, 7) = Bit(y, 7)
    BY <1>3
  <2> QED
    BY <1>1, <2>1
<1>4. ASSUME \A j \in 0..7 : Bit(x, j) # Bit(y, j) PROVE y = 255 - x
  <2>1. \A j \in 0..7 : Bit(y, j) = 1 - Bit(x, j)
    BY <1>2, <1>4
  <2>2. /\ Bit(y, 0) = 1 - Bit(x, 0) /\ Bit(y, 1) = 1 - Bit(x, 1) /\ Bit(y, 2) = 1 - Bit(x, 2)
        /\ Bit(y, 3) = 1 - Bit(x, 3) /\ Bit(y, 4) = 1 - Bit(x, 4) /\ Bit(y, 5) = 1 - Bit(x, 5)
        /\ Bit(y, 6) = 1 - Bit(x, 6) /\ Bit(y, 7) = 1 - Bit(x, 7)
    BY <2>1
  <2>3. /\ Bit(x, 0) \in Int /\ Bit(x, 1) \in Int /\ Bit(x, 2) \in Int /\ Bit(x, 3) \in Int
        /\ Bit(x, 4) \in Int /\ Bit(x, 5) \in Int /\ Bit(x, 6) \in Int /\ Bit(x, 7) \in Int
    BY <1>2
  <2> QED
    BY <1>1, <2>2, <2>3
<1> QED
  BY <1>3, <1>4

\* Flipping the bits in which two bytes differ makes the one the other.
LEMMA FlipDiff ==
  ASSUME NEW x \in Byte, NEW y \in Byte, NEW S,
         \A j \in 0..7 : j \in S <=> Bit(x, j) # Bit(y, j)
  PROVE  FlipByte(x, S) = y
<1> DEFINE d(j) == IF j \notin S THEN 0 ELSE IF Bit(x, j) = 1 THEN -Mask(j) ELSE Mask(j)
<1>1. FlipByte(x, S) = x + d(0) + d(1) + d(2) + d(3) + d(4) + d(5) + d(6) + d(7)
  BY DEF FlipByte
<1>2. ASSUME NEW j \in 0..7 PROVE d(j) = Mask(j) * (Bit(y, j) - Bit(x, j))
  <2>1. Bit(x, j) \in {0, 1} /\ Bit(y, j) \in {0, 1} /\ Mask(j) \in Nat \ {0}
    BY BitType
  <2> DEFINE p == Bit(x, j)  q == Bit(y, j)  m == Mask(j)
  <2>2. p \in {0, 1} /\ q \in {0, 1} /\ m \in Nat /\ (j \in S <=> p # q)
    BY <2>1
  <2>3. d(j) = IF j \notin S THEN 0 ELSE IF p = 1 THEN -m ELSE m
    OBVIOUS
  <2> HIDE DEF p, q, m, d
  <2>4. CASE p = 0 /\ q = 0
    <3>1. d(j) = 0
      BY <2>2, <2>3, <2>4
    <3> QED
      BY <2>2, <2>4, <3>1 DEF p, q, m
  <2>5. CASE p = 1 /\ q = 1
    <3>1. d(j) = 0
      BY <2>2, <2>3, <2>5
    <3> QED
      BY <2>2, <2>5, <3>1 DEF p, q, m
  <2>6. CASE p = 0 /\ q = 1
    <3>1. d(j) = m
      BY <2>2, <2>3, <2>6
    <3> QED
      BY <2>2, <2>6, <3>1 DEF p, q, m
  <2>7. CASE p = 1 /\ q = 0
    <3>1. d(j) = -m
      BY <2>2, <2>3, <2>7
    <3> QED
      BY <2>2, <2>7, <3>1 DEF p, q, m
  <2> QED
    BY <2>2, <2>4, <2>5, <2>6, <2>7
<1> HIDE DEF d
<1>3. /\ d(0) = Bit(y, 0) - Bit(x, 0) /\ d(1) = 2 * (Bit(y, 1) - Bit(x, 1))
      /\ d(2) = 4 * (Bit(y, 2) - Bit(x, 2)) /\ d(3) = 8 * (Bit(y, 3) - Bit(x, 3))
      /\ d(4) = 16 * (Bit(y, 4) - Bit(x, 4)) /\ d(5) = 32 * (Bit(y, 5) - Bit(x, 5))
      /\ d(6) = 64 * (Bit(y, 6) - Bit(x, 6)) /\ d(7) = 128 * (Bit(y, 7) - Bit(x, 7))
  <2>1. \A j \in 0..7 : Bit(x, j) \in {0, 1} /\ Bit(y, j) \in {0, 1}
    BY BitType
  <2>2. \A j \in 0..7 : \A m : m = Mask(j) => d(j) = m * (Bit(y, j) - Bit(x, j))
    BY <1>2
  <2>3. d(0) = 1 * (Bit(y, 0) - Bit(x, 0)) /\ d(1) = 2 * (Bit(y, 1) - Bit(x, 1))
    BY <2>2, MaskIs
  <2>4. d(2) = 4 * (Bit(y, 2) - Bit(x, 2)) /\ d(3) = 8 * (Bit(y, 3) - Bit(x, 3))
    BY <2>2, MaskIs
  <2>5. d(4) = 16 * (Bit(y, 4) - Bit(x, 4)) /\ d(5) = 32 * (Bit(y, 5) - Bit(x, 5))
    BY <2>2, MaskIs
  <2>6. d(6) = 64 * (Bit(y, 6) - Bit(x, 6)) /\ d(7) = 128 * (Bit(y, 7) - Bit(x, 7))
    BY <2>2, MaskIs
  <2> QED
    BY <2>1, <2>3, <2>4, <2>5, <2>6
<1>4. /\ x = Bit(x, 0) + 2 * Bit(x, 1) + 4 * Bit(x, 2) + 8 * Bit(x, 3) + 16 * Bit(x, 4)
             + 32 * Bit(x, 5) + 64 * Bit(x, 6) + 128 * Bit(x, 7)
      /\ y = Bit(y, 0) + 2 * Bit(y, 1) + 4 * Bit(y, 2) + 8 * Bit(y, 3) + 16 * Bit(y, 4)
             + 32 * Bit(y, 5) + 64 * Bit(y, 6) + 128 * Bit(y, 7)
  BY ByteSum
<1>5. /\ Bit(x, 0) \in Int /\ Bit(x, 1) \in Int /\ Bit(x, 2) \in Int /\ Bit(x, 3) \in Int
      /\ Bit(x, 4) \in Int /\ Bit(x, 5) \in Int /\ Bit(x, 6) \in Int /\ Bit(x, 7) \in Int
      /\ Bit(y, 0) \in Int /\ Bit(y, 1) \in Int /\ Bit(y, 2) \in Int /\ Bit(y, 3) \in Int
      /\ Bit(y, 4) \in Int /\ Bit(y, 5) \in Int /\ Bit(y, 6) \in Int /\ Bit(y, 7) \in Int
  <2>1. \A j \in 0..7 : Bit(x, j) \in {0, 1} /\ Bit(y, j) \in {0, 1}
    BY BitType
  <2> QED
    BY <2>1
<1> DEFINE X(j) == Bit(x, j)  Y(j) == Bit(y, j)
<1> HIDE DEF X, Y
<1>6. /\ X(0) \in Int /\ X(1) \in Int /\ X(2) \in Int /\ X(3) \in Int
      /\ X(4) \in Int /\ X(5) \in Int /\ X(6) \in Int /\ X(7) \in Int
      /\ Y(0) \in Int /\ Y(1) \in Int /\ Y(2) \in Int /\ Y(3) \in Int
      /\ Y(4) \in Int /\ Y(5) \in Int /\ Y(6) \in Int /\ Y(7) \in Int
  BY <1>5 DEF X, Y
<1>7. x + d(0) + d(1) + d(2) + d(3) + d(4) + d(5) + d(6) + d(7) =
        X(0) + 2 * X(1) + 4 * X(2) + 8 * X(3) + 16 * X(4) + 32 * X(5) + 64 * X(6) + 128 * X(7)
        + (Y(0) - X(0)) + 2 * (Y(1) - X(1)) + 4 * (Y(2) - X(2)) + 8 * (Y(3) - X(3))
        + 16 * (Y(4) - X(4)) + 32 * (Y(5) - X(5)) + 64 * (Y(6) - X(6)) + 128 * (Y(7) - X(7))
  BY <1>3, <1>4 DEF X, Y
<1>8. y = Y(0) + 2 * Y(1) + 4 * Y(2) + 8 * Y(3) + 16 * Y(4) + 32 * Y(5) + 64 * Y(6) + 128 * Y(7)
  BY <1>4 DEF Y
<1> QED
  BY <1>1, <1>6, <1>7, <1>8

\* The differing bits of two words, each of one byte.
LEMMA DiffBitsFacts ==
  ASSUME NEW v, NEW w, Len(v) \in Nat
  PROVE  /\ \A d \in DiffBits(v, w) : \E k \in 1..Len(v), j \in 0..7 :
              d = 8 * (k - 1) + j /\ v[k] # w[k]
         /\ \A k \in 1..Len(v), j \in 0..7 :
              8 * (k - 1) + j \in DiffBits(v, w) <=> Bit(v[k], j) # Bit(w[k], j)
<1>1. \A d : d \in DiffBits(v, w) <=>
        \E k \in 1..Len(v), j \in 0..7 :
          d = 8 * (k - 1) + j /\ v[k] # w[k] /\ Bit(v[k], j) # Bit(w[k], j)
  <2> DEFINE K == {k \in 1..Len(v) : v[k] # w[k]}
             J(k) == {j \in 0..7 : Bit(v[k], j) # Bit(w[k], j)}
             D(k) == {8 * (k - 1) + j : j \in J(k)}
  <2>1. DiffBits(v, w) = UNION {D(k) : k \in K}
    BY DEF DiffBits
  <2>2. \A d : d \in DiffBits(v, w) <=> \E k \in K : d \in D(k)
    <3> HIDE DEF K, D
    <3> QED
      BY <2>1
  <2>3. \A k : \A d : d \in D(k) <=> \E j \in J(k) : d = 8 * (k - 1) + j
    <3> HIDE DEF J
    <3> QED
      OBVIOUS
  <2>4. \A k : k \in K <=> k \in 1..Len(v) /\ v[k] # w[k]
    OBVIOUS
  <2>5. \A k : \A j : j \in J(k) <=> j \in 0..7 /\ Bit(v[k], j) # Bit(w[k], j)
    OBVIOUS
  <2> HIDE DEF K, J, D
  <2>6. ASSUME NEW d, d \in DiffBits(v, w)
        PROVE  \E k \in 1..Len(v), j \in 0..7 :
                 d = 8 * (k - 1) + j /\ v[k] # w[k] /\ Bit(v[k], j) # Bit(w[k], j)
    <3>1. PICK k \in K : d \in D(k)
      BY <2>2, <2>6
    <3>2. PICK j \in J(k) : d = 8 * (k - 1) + j
      BY <2>3, <3>1
    <3> QED
      BY <2>4, <2>5, <3>1, <3>2
  <2>7. ASSUME NEW d, NEW k \in 1..Len(v), NEW j \in 0..7, d = 8 * (k - 1) + j,
               v[k] # w[k], Bit(v[k], j) # Bit(w[k], j)
        PROVE  d \in DiffBits(v, w)
    <3>1. k \in K /\ j \in J(k)
      BY <2>4, <2>5, <2>7
    <3>2. d \in D(k)
      BY <2>3, <2>7, <3>1
    <3> QED
      BY <2>2, <3>1, <3>2
  <2> QED
    BY <2>6, <2>7, Zenon
<1>2. ASSUME NEW k \in 1..Len(v), NEW j \in 0..7
      PROVE  8 * (k - 1) + j \in DiffBits(v, w) <=> Bit(v[k], j) # Bit(w[k], j)
  <2>1. ASSUME Bit(v[k], j) # Bit(w[k], j) PROVE 8 * (k - 1) + j \in DiffBits(v, w)
    <3>1. v[k] # w[k]
      BY <2>1
    <3> QED
      BY <1>1, <2>1, <3>1
  <2>2. ASSUME 8 * (k - 1) + j \in DiffBits(v, w) PROVE Bit(v[k], j) # Bit(w[k], j)
    <3>1. PICK k2 \in 1..Len(v), j2 \in 0..7 :
            8 * (k - 1) + j = 8 * (k2 - 1) + j2 /\ Bit(v[k2], j2) # Bit(w[k2], j2)
      BY <1>1, <2>2
    <3>2. k2 = k /\ j2 = j
      BY <3>1
    <3> QED
      BY <3>1, <3>2
  <2> QED
    BY <2>1, <2>2
<1> QED
  BY <1>1, <1>2

\* The place of a differing bit.
BitPlace(v, w, d) == \E k \in 1..Len(v), j \in 0..7 : d = 8 * (k - 1) + j /\ v[k] # w[k]

\* A differing bit has a place.
LEMMA DiffBitIs ==
  ASSUME NEW v, NEW w, Len(v) \in Nat, NEW d, d \in DiffBits(v, w)
  PROVE  BitPlace(v, w, d)
<1>1. \A e \in DiffBits(v, w) : BitPlace(v, w, e)
  BY DiffBitsFacts DEF BitPlace
<1> QED
  BY <1>1

\* A differing bit has a number.
LEMMA DiffBitNat ==
  ASSUME NEW v, NEW w, Len(v) \in Nat, NEW d, d \in DiffBits(v, w)
  PROVE  d \in Nat
<1>1. BitPlace(v, w, d)
  BY DiffBitIs
<1>2. PICK k \in 1..Len(v), j \in 0..7 : d = 8 * (k - 1) + j
  BY <1>1 DEF BitPlace
<1> QED
  BY <1>2

\* Whether the bit in a place differs.
LEMMA DiffBitAt ==
  ASSUME NEW v, NEW w, Len(v) \in Nat, NEW k \in 1..Len(v), NEW j \in 0..7
  PROVE  8 * (k - 1) + j \in DiffBits(v, w) <=> Bit(v[k], j) # Bit(w[k], j)
  BY DiffBitsFacts, Zenon

-----------------------------------------------------------------------------
(* What the deterministic stages run, and what their filters leave out.     *)

Widths == {1, 2, 4}
ByteFlips(b) == {Put(b, i, Invert(Word(b, i, 1))) : i \in 0 .. Len(b) - 1}

\* The test cases of all the stages up to int32.
AllTests(b, eff) ==
  WalkingBits(b, 1) \cup WalkingBits(b, 2) \cup WalkingBits(b, 4) \cup ByteFlips(b)
  \cup FlipTests(b, 2, eff) \cup FlipTests(b, 4, eff)
  \cup ArithTests(b, 1, eff) \cup ArithTests(b, 2, eff) \cup ArithTests(b, 4, eff)
  \cup InterestTests(b, 1, eff) \cup InterestTests(b, 2, eff) \cup InterestTests(b, 4, eff)

\* t has been run, or there is a reason why it has not.
Accounted(b, eff, t) ==
  t \in AllTests(b, eff) \/ OnlyIneffective(b, t, eff) \/ Straddles(b, t)

\* A position for a word of n bytes.
At(b, n, i) == n \in Widths /\ i \in Nat /\ i + n <= Len(b)

\* A word is at a position with an effective byte, or it does not matter.
LEMMA Ineffective ==
  ASSUME NEW b \in Seq(Byte), NEW n, NEW i, At(b, n, i), NEW v \in Seq(Byte), Len(v) = n, NEW eff
  PROVE  i \in Positions(b, n, eff) \/ OnlyIneffective(b, Put(b, i, v), eff)
<1> SUFFICES ASSUME i \notin Positions(b, n, eff) PROVE OnlyIneffective(b, Put(b, i, v), eff)
  OBVIOUS
<1>1. n \in Nat /\ i \in Nat /\ i + n <= Len(b) /\ Len(b) \in Nat
  BY DEF At, Widths
<1>2. i \in 0 .. Len(b) - n
  BY <1>1
<1>3. \A k \in i .. i + n - 1 : ~eff[EFF_APOS(k)]
  BY <1>2 DEF Positions
<1> DEFINE t == Put(b, i, v)
<1>4. \A k \in 1..Len(b) : t[k] = IF k \in i + 1 .. i + n THEN v[k - i] ELSE b[k]
  BY <1>1, PutFacts
<1> HIDE DEF t
<1>5. ASSUME NEW k \in 1..Len(b), b[k] # t[k] PROVE ~eff[EFF_APOS(k - 1)]
  <2>1. k \in i + 1 .. i + n
    BY <1>4, <1>5
  <2>2. k - 1 \in i .. i + n - 1
    BY <1>1, <2>1
  <2> QED
    BY <1>3, <2>2
<1> QED
  BY <1>5 DEF OnlyIneffective, t

\* t is b with the bytes of w at offset i.
IsPut(b, i, w, t) ==
  /\ t \in Seq(Byte) /\ Len(t) = Len(b)
  /\ \A k \in 1..Len(b) : t[k] = IF k \in i + 1 .. i + Len(w) THEN w[k - i] ELSE b[k]

\* Put writes a word of bytes into a buffer of bytes.
LEMMA PutBytes ==
  ASSUME NEW b \in Seq(Byte), NEW i \in Nat, NEW w \in Seq(Byte)
  PROVE  IsPut(b, i, w, Put(b, i, w))
BY PutFacts DEF IsPut

\* A word written into a word is written into the buffer.
LEMMA SubWord ==
  ASSUME NEW b \in Seq(Byte), NEW i \in Nat, NEW n \in Nat, i + n <= Len(b),
         NEW q \in Nat, NEW x \in Seq(Byte), q + Len(x) <= n
  PROVE  Put(b, i, Put(Word(b, i, n), q, x)) = Put(b, i + q, x)
<1> DEFINE w == Word(b, i, n)  v == Put(w, q, x)  t == Put(b, i, v)  u == Put(b, i + q, x)
<1>1. w \in Seq(Byte) /\ Len(w) = n /\ \A k \in 1..n : w[k] = b[i + k]
  BY WordFacts
<1> HIDE DEF w
<1>2. /\ v \in Seq(Byte) /\ Len(v) = n
      /\ \A k \in 1..n : v[k] = IF k \in q + 1 .. q + Len(x) THEN x[k - q] ELSE w[k]
  <2>0. w \in Seq(Byte)
    BY <1>1
  <2>1. IsPut(w, q, x, v)
    BY <2>0, PutBytes, Zenon
  <2> QED
    BY <1>1, <2>1 DEF IsPut
<1> HIDE DEF v
<1>3. /\ t \in Seq(Byte) /\ Len(t) = Len(b)
      /\ \A k \in 1..Len(b) : t[k] = IF k \in i + 1 .. i + n THEN v[k - i] ELSE b[k]
  <2>1. IsPut(b, i, v, t)
    BY <1>2, PutBytes, Zenon
  <2> QED
    BY <1>2, <2>1 DEF IsPut
<1>4. /\ u \in Seq(Byte) /\ Len(u) = Len(b)
      /\ \A k \in 1..Len(b) : u[k] = IF k \in (i + q) + 1 .. (i + q) + Len(x) THEN x[k - (i + q)] ELSE b[k]
  <2>1. i + q \in Nat
    OBVIOUS
  <2>2. IsPut(b, i + q, x, u)
    BY <2>1, PutBytes, Zenon
  <2> QED
    BY <2>2 DEF IsPut
<1> HIDE DEF t, u
<1>5. Len(x) \in Nat /\ Len(b) \in Nat
  OBVIOUS
<1>6. ASSUME NEW k \in 1..Len(b) PROVE t[k] = u[k]
  <2>1. CASE k \in (i + q) + 1 .. (i + q) + Len(x)
    <3>1. /\ k \in i + 1 .. i + n /\ k - i \in 1..n /\ k - i \in q + 1 .. q + Len(x)
          /\ (k - i) - q = k - (i + q)
      BY <1>5, <2>1
    <3>2. t[k] = v[k - i] /\ v[k - i] = x[(k - i) - q] /\ u[k] = x[k - (i + q)]
      BY <1>2, <1>3, <1>4, <2>1, <3>1
    <3> QED
      BY <3>1, <3>2
  <2>2. CASE k \in i + 1 .. i + n /\ k \notin (i + q) + 1 .. (i + q) + Len(x)
    <3>1. k - i \in 1..n /\ k - i \notin q + 1 .. q + Len(x) /\ i + (k - i) = k
      BY <1>5, <2>2
    <3>2. t[k] = v[k - i] /\ v[k - i] = w[k - i] /\ w[k - i] = b[i + (k - i)] /\ u[k] = b[k]
      BY <1>1, <1>2, <1>3, <1>4, <2>2, <3>1
    <3> QED
      BY <3>1, <3>2
  <2>3. CASE k \notin i + 1 .. i + n
    <3>1. k \notin (i + q) + 1 .. (i + q) + Len(x)
      BY <1>5, <2>3
    <3> QED
      BY <1>3, <1>4, <2>3, <3>1
  <2> QED
    BY <2>1, <2>2, <2>3
<1>7. t = u
  BY <1>3, <1>4, <1>6, SameSeq
<1> QED
  BY <1>7 DEF t, u, v, w

\* A word that differs only in a part of it.
LEMMA PartOfWord ==
  ASSUME NEW w \in Seq(Byte), NEW v \in Seq(Byte), Len(v) = Len(w), NEW q \in Nat, NEW m \in Nat,
         q + m <= Len(w), \A k \in 1..Len(w) : k \notin q + 1 .. q + m => v[k] = w[k]
  PROVE  v = Put(w, q, Word(v, q, m))
<1> DEFINE x == Word(v, q, m)  u == Put(w, q, x)
<1>1. x \in Seq(Byte) /\ Len(x) = m /\ \A k \in 1..m : x[k] = v[q + k]
  <2>1. q + m <= Len(v)
    OBVIOUS
  <2> QED
    BY <2>1, WordFacts
<1> HIDE DEF x
<1>2. /\ u \in Seq(Byte) /\ Len(u) = Len(w)
      /\ \A k \in 1..Len(w) : u[k] = IF k \in q + 1 .. q + Len(x) THEN x[k - q] ELSE w[k]
  <2>1. IsPut(w, q, x, u)
    BY <1>1, PutBytes, Zenon
  <2> QED
    BY <2>1 DEF IsPut
<1> HIDE DEF u
<1>3. ASSUME NEW k \in 1..Len(w) PROVE u[k] = v[k]
  <2>1. CASE k \in q + 1 .. q + m
    <3>1. k - q \in 1..m /\ q + (k - q) = k
      BY <2>1
    <3>2. u[k] = x[k - q] /\ x[k - q] = v[q + (k - q)]
      BY <1>1, <1>2, <2>1, <3>1
    <3> QED
      BY <3>1, <3>2
  <2>2. CASE k \notin q + 1 .. q + m
    BY <1>1, <1>2, <2>2
  <2> QED
    BY <2>1, <2>2
<1>4. u = v
  BY <1>2, <1>3, SameSeq
<1> QED
  BY <1>4 DEF u, x

\* The words of a word.
LEMMA WordOfWord ==
  ASSUME NEW b \in Seq(Byte), NEW i \in Nat, NEW n \in Nat, i + n <= Len(b),
         NEW q \in Nat, NEW m \in Nat, q + m <= n
  PROVE  Word(Word(b, i, n), q, m) = Word(b, i + q, m)
<1> DEFINE w == Word(b, i, n)  x == Word(w, q, m)  y == Word(b, i + q, m)
<1>1. w \in Seq(Byte) /\ Len(w) = n /\ \A k \in 1..n : w[k] = b[i + k]
  BY WordFacts
<1> HIDE DEF w
<1>2. x \in Seq(Byte) /\ Len(x) = m /\ \A k \in 1..m : x[k] = w[q + k]
  <2>1. w \in Seq(Byte) /\ q + m <= Len(w)
    BY <1>1
  <2> QED
    BY <2>1, WordFacts
<1>3. y \in Seq(Byte) /\ Len(y) = m /\ \A k \in 1..m : y[k] = b[(i + q) + k]
  <2>1. i + q \in Nat /\ (i + q) + m <= Len(b)
    <3>1. Len(b) \in Nat
      OBVIOUS
    <3> QED
      BY <3>1
  <2> QED
    BY <2>1, WordFacts
<1> HIDE DEF x, y
<1>4. ASSUME NEW k \in 1..m PROVE x[k] = y[k]
  <2>1. q + k \in 1..n /\ i + (q + k) = (i + q) + k
    OBVIOUS
  <2>2. x[k] = w[q + k] /\ w[q + k] = b[i + (q + k)] /\ y[k] = b[(i + q) + k]
    BY <1>1, <1>2, <1>3, <2>1
  <2> QED
    BY <2>1, <2>2
<1>5. x = y
  BY <1>2, <1>3, <1>4, SameSeq
<1> QED
  BY <1>5 DEF x, y, w

\* The stages that invert a word.
LEMMA InvertTried ==
  ASSUME NEW b \in Seq(Byte), NEW n, NEW i, At(b, n, i), NEW eff
  PROVE  Accounted(b, eff, Put(b, i, Invert(Word(b, i, n))))
<1>1. n \in Nat /\ i \in Nat /\ i + n <= Len(b) /\ Len(b) \in Nat
  BY DEF At, Widths
<1> DEFINE w == Word(b, i, n)  v == Invert(w)
<1>2. w \in Seq(Byte) /\ Len(w) = n
  BY <1>1, WordFacts
<1> HIDE DEF w
<1>3. v \in Seq(Byte) /\ Len(v) = n
  <2>1. v = [k \in 1..n |-> 255 - w[k]]
    BY <1>2 DEF Invert
  <2>2. \A k \in 1..n : 255 - w[k] \in Byte
    <3>1. \A k \in 1..n : w[k] \in Byte
      BY <1>2
    <3>2. \A x \in Byte : 255 - x \in Byte
      BY DEF Byte
    <3> QED
      BY <3>1, <3>2
  <2> HIDE DEF v
  <2>3. v \in [1..n -> Byte]
    BY <2>1, <2>2
  <2> QED
    BY <1>1, <2>3
<1>4. CASE n = 1
  <2>1. i \in 0 .. Len(b) - 1
    BY <1>1, <1>4
  <2>2. Put(b, i, v) \in ByteFlips(b)
    BY <1>4, <2>1 DEF ByteFlips, w
  <2> QED
    BY <2>2 DEF Accounted, AllTests, w
<1>5. CASE n \in {2, 4}
  <2> HIDE DEF v
  <2>1. CASE OnlyIneffective(b, Put(b, i, v), eff)
    BY <2>1 DEF Accounted, v, w
  <2>2. CASE i \in Positions(b, n, eff)
    <3>1. Put(b, i, v) \in FlipTests(b, n, eff)
      BY <2>2 DEF FlipTests, v, w
    <3> QED
      BY <1>5, <3>1 DEF Accounted, AllTests, v, w
  <2> QED
    BY <1>3, <2>1, <2>2, Ineffective
<1> QED
  BY <1>4, <1>5 DEF At, Widths

\* A change of neighbouring bits has been made by the walking bits, or crosses
\* the border of two bytes.
LEMMA RunIsWalked ==
  ASSUME NEW b \in Seq(Byte), NEW t \in Seq(Byte), Len(t) = Len(b), NEW m \in Widths,
         NEW sh \in DiffBits(b, t), DiffBits(b, t) = sh .. sh + m - 1
  PROVE  t \in WalkingBits(b, m) \/ Straddles(b, t)
<1>0. Len(b) \in Nat /\ m \in {1, 2, 4}
  BY DEF Widths
<1>1. PICK k0 \in 1..Len(b), j0 \in 0..7 : sh = 8 * (k0 - 1) + j0
  <2>1. BitPlace(b, t, sh)
    BY <1>0, DiffBitIs
  <2> QED
    BY <2>1 DEF BitPlace
<1>2. sh \in Nat /\ sh % 8 = j0
  BY <1>0, <1>1
<1>3. CASE j0 + m > 8
  <2>1. m \in {2, 4}
    BY <1>0, <1>3
  <2> QED
    BY <1>2, <1>3, <2>1 DEF Straddles
<1>4. CASE j0 + m <= 8
  <2> DEFINE p == 8 * (k0 - 1) + 8 - j0 - m
             S(k) == {j \in 0..7 : 8 * k - 1 - j \in p .. p + m - 1}
  <2>1. p \in 0 .. 8 * Len(b) - m
    BY <1>0, <1>4
  <2>2. ASSUME NEW k \in 1..Len(b), NEW j \in 0..7
        PROVE  8 * k - 1 - j \in p .. p + m - 1 <=> 8 * (k - 1) + j \in sh .. sh + m - 1
    <3>1. CASE k = k0
      BY <1>0, <1>1, <1>4, <3>1
    <3>2. CASE k # k0
      BY <1>0, <1>1, <1>4, <3>2
    <3> QED
      BY <3>1, <3>2
  <2>3. ASSUME NEW k \in 1..Len(b) PROVE FlipByte(b[k], S(k)) = t[k]
    <3>1. b[k] \in Byte /\ t[k] \in Byte
      OBVIOUS
    <3>2. \A j \in 0..7 : 8 * (k - 1) + j \in DiffBits(b, t) <=> Bit(b[k], j) # Bit(t[k], j)
      BY <1>0, DiffBitAt
    <3>3. \A j \in 0..7 : j \in S(k) <=> Bit(b[k], j) # Bit(t[k], j)
      <4>1. \A j \in 0..7 : j \in S(k) <=> 8 * k - 1 - j \in p .. p + m - 1
        OBVIOUS
      <4> HIDE DEF S, p
      <4> QED
        BY <2>2, <3>2, <4>1
    <3> HIDE DEF S
    <3> QED
      BY <3>1, <3>3, FlipDiff
  <2>4. FlipBits(b, p, m) = [k \in 1..Len(b) |-> FlipByte(b[k], S(k))]
    BY DEF FlipBits
  <2> HIDE DEF S, p
  <2>5. FlipBits(b, p, m) = [k \in 1..Len(b) |-> t[k]]
    BY <2>3, <2>4
  <2>6. t = [k \in 1..Len(b) |-> t[k]]
    OBVIOUS
  <2> QED
    BY <2>1, <2>5, <2>6 DEF WalkingBits
<1> QED
  BY <1>0, <1>3, <1>4

\* A change of all the bits of 1, 2 or 4 bytes inverts them.
LEMMA RunIsInverted ==
  ASSUME NEW b \in Seq(Byte), NEW t \in Seq(Byte), Len(t) = Len(b), NEW n \in Widths,
         NEW sh \in DiffBits(b, t), sh % 8 = 0, DiffBits(b, t) = sh .. sh + 8 * n - 1
  PROVE  \E q : At(b, n, q) /\ t = Put(b, q, Invert(Word(b, q, n)))
<1>0. Len(b) \in Nat /\ n \in Nat \ {0} /\ n \in {1, 2, 4}
  BY DEF Widths
<1>1. PICK k0 \in 1..Len(b), j0 \in 0..7 : sh = 8 * (k0 - 1) + j0
  <2>1. BitPlace(b, t, sh)
    BY <1>0, DiffBitIs
  <2> QED
    BY <2>1 DEF BitPlace
<1> DEFINE q == k0 - 1
<1>2. sh = 8 * q /\ q \in Nat
  BY <1>0, <1>1
<1>3. q + n <= Len(b)
  <2>1. sh + 8 * n - 1 \in DiffBits(b, t)
    BY <1>0, <1>2
  <2>2. BitPlace(b, t, sh + 8 * n - 1)
    BY <1>0, <2>1, DiffBitIs
  <2>3. PICK k \in 1..Len(b), j \in 0..7 : sh + 8 * n - 1 = 8 * (k - 1) + j
    BY <2>2 DEF BitPlace
  <2> QED
    BY <1>0, <1>2, <2>3
<1> HIDE DEF q
<1>4. \A k \in 1..Len(b), j \in 0..7 : Bit(b[k], j) # Bit(t[k], j) <=> k \in q + 1 .. q + n
  <2> SUFFICES ASSUME NEW k \in 1..Len(b), NEW j \in 0..7
               PROVE  Bit(b[k], j) # Bit(t[k], j) <=> k \in q + 1 .. q + n
    OBVIOUS
  <2>1. 8 * (k - 1) + j \in DiffBits(b, t) <=> Bit(b[k], j) # Bit(t[k], j)
    BY <1>0, DiffBitAt
  <2>2. 8 * (k - 1) + j \in sh .. sh + 8 * n - 1 <=> k \in q + 1 .. q + n
    BY <1>0, <1>2
  <2> QED
    BY <2>1, <2>2
<1> DEFINE w == Word(b, q, n)  v == Invert(w)  u == Put(b, q, v)
<1>5. w \in Seq(Byte) /\ Len(w) = n /\ \A k \in 1..n : w[k] = b[q + k]
  <2>1. q \in Nat /\ n \in Nat /\ q + n <= Len(b)
    BY <1>0, <1>2, <1>3
  <2> QED
    BY <2>1, WordFacts
<1> HIDE DEF w
<1>6. v \in Seq(Byte) /\ Len(v) = n /\ \A k \in 1..n : v[k] = 255 - w[k]
  <2>1. v = [k \in 1..n |-> 255 - w[k]]
    BY <1>5 DEF Invert
  <2>2. \A k \in 1..n : 255 - w[k] \in Byte
    <3>1. \A k \in 1..n : w[k] \in Byte
      BY <1>5
    <3>2. \A x \in Byte : 255 - x \in Byte
      BY DEF Byte
    <3> QED
      BY <3>1, <3>2
  <2> HIDE DEF v
  <2>3. v \in [1..n -> Byte]
    BY <2>1, <2>2
  <2> QED
    BY <1>0, <2>1, <2>3
<1> HIDE DEF v
<1>7. /\ u \in Seq(Byte) /\ Len(u) = Len(b)
      /\ \A k \in 1..Len(b) : u[k] = IF k \in q + 1 .. q + Len(v) THEN v[k - q] ELSE b[k]
  <2>1. v \in Seq(Byte)
    BY <1>6
  <2> QED
    BY <1>2, <2>1, PutFacts
<1> HIDE DEF u
<1>8. ASSUME NEW k \in 1..Len(b) PROVE u[k] = t[k]
  <2>0. b[k] \in Byte /\ t[k] \in Byte
    OBVIOUS
  <2>1. CASE k \in q + 1 .. q + n
    <3>1. k - q \in 1..n /\ q + (k - q) = k
      BY <1>0, <1>2, <2>1
    <3>2. u[k] = v[k - q] /\ v[k - q] = 255 - w[k - q] /\ w[k - q] = b[q + (k - q)]
      BY <1>5, <1>6, <1>7, <2>1, <3>1
    <3>3. \A j \in 0..7 : Bit(b[k], j) # Bit(t[k], j)
      BY <1>4, <2>1
    <3>4. t[k] = 255 - b[k]
      BY <2>0, <3>3, BitsDecide
    <3> QED
      BY <3>1, <3>2, <3>4
  <2>2. CASE k \notin q + 1 .. q + n
    <3>1. \A j \in 0..7 : Bit(b[k], j) = Bit(t[k], j)
      BY <1>4, <2>2
    <3>2. b[k] = t[k]
      BY <2>0, <3>1, BitsDecide
    <3> QED
      BY <1>6, <1>7, <2>2, <3>2
  <2> QED
    BY <2>1, <2>2
<1>9. u = t
  BY <1>7, <1>8, SameSeq
<1> QED
  BY <1>2, <1>3, <1>9 DEF At, u, v, w

\* The bits in which a buffer differs from the one with a word written into it.
LEMMA DiffBitsShift ==
  ASSUME NEW b \in Seq(Byte), NEW n, NEW i, At(b, n, i), NEW v \in Seq(Byte), Len(v) = n,
         NEW d \in Int
  PROVE  d \in DiffBits(Word(b, i, n), v) <=> 8 * i + d \in DiffBits(b, Put(b, i, v))
<1>1. n \in Nat /\ i \in Nat /\ i + n <= Len(b) /\ Len(b) \in Nat
  BY DEF At, Widths
<1> DEFINE w == Word(b, i, n)  t == Put(b, i, v)
<1>2. w \in Seq(Byte) /\ Len(w) = n /\ \A k \in 1..n : w[k] = b[i + k]
  BY <1>1, WordFacts
<1>3. \A k \in 1..Len(b) : t[k] = IF k \in i + 1 .. i + n THEN v[k - i] ELSE b[k]
  BY <1>1, PutFacts
<1> HIDE DEF w, t
<1>4. ASSUME d \in DiffBits(w, v) PROVE 8 * i + d \in DiffBits(b, t)
  <2>0. Len(w) \in Nat /\ 1..Len(w) = 1..n
    BY <1>1, <1>2
  <2>1. PICK k \in 1..Len(w), j \in 0..7 : d = 8 * (k - 1) + j /\ w[k] # v[k]
    <3>1. BitPlace(w, v, d)
      BY <1>4, <2>0, DiffBitIs
    <3> QED
      BY <3>1 DEF BitPlace
  <2>2. Bit(w[k], j) # Bit(v[k], j)
    <3>1. 8 * (k - 1) + j \in DiffBits(w, v) <=> Bit(w[k], j) # Bit(v[k], j)
      BY <2>0, DiffBitAt
    <3> QED
      BY <1>4, <2>1, <3>1
  <2>3. i + k \in 1..Len(b) /\ i + k \in i + 1 .. i + n /\ (i + k) - i = k
    BY <1>1, <2>0
  <2>4. b[i + k] = w[k] /\ t[i + k] = v[k]
    BY <1>2, <1>3, <2>0, <2>3
  <2>5. 8 * ((i + k) - 1) + j \in DiffBits(b, t)
    <3>1. 8 * ((i + k) - 1) + j \in DiffBits(b, t) <=> Bit(b[i + k], j) # Bit(t[i + k], j)
      BY <1>1, <2>3, DiffBitAt
    <3> QED
      BY <2>2, <2>4, <3>1
  <2>6. 8 * ((i + k) - 1) + j = 8 * i + d
    BY <1>1, <2>0, <2>1
  <2> QED
    BY <2>5, <2>6
<1>5. ASSUME 8 * i + d \in DiffBits(b, t) PROVE d \in DiffBits(w, v)
  <2>1. PICK k \in 1..Len(b), j \in 0..7 : 8 * i + d = 8 * (k - 1) + j /\ b[k] # t[k]
    <3>1. BitPlace(b, t, 8 * i + d)
      BY <1>1, <1>5, DiffBitIs
    <3> QED
      BY <3>1 DEF BitPlace
  <2>2. Bit(b[k], j) # Bit(t[k], j)
    <3>1. 8 * (k - 1) + j \in DiffBits(b, t) <=> Bit(b[k], j) # Bit(t[k], j)
      BY <1>1, DiffBitAt
    <3> QED
      BY <1>5, <2>1, <3>1
  <2>3. k \in i + 1 .. i + n
    BY <1>3, <2>1
  <2>4. k - i \in 1..n /\ i + (k - i) = k
    BY <1>1, <2>3
  <2>5. b[k] = w[k - i] /\ t[k] = v[k - i]
    <3>1. w[k - i] = b[i + (k - i)]
      BY <1>2, <2>4
    <3> QED
      BY <1>3, <2>3, <2>4, <3>1
  <2>6. 8 * ((k - i) - 1) + j \in DiffBits(w, v)
    <3>1. k - i \in 1..Len(w) /\ Len(w) \in Nat
      BY <1>1, <1>2, <2>4
    <3>2. 8 * ((k - i) - 1) + j \in DiffBits(w, v) <=> Bit(w[k - i], j) # Bit(v[k - i], j)
      BY <3>1, DiffBitAt
    <3> QED
      BY <2>2, <2>5, <3>2
  <2>7. 8 * ((k - i) - 1) + j = d
    BY <1>1, <2>1
  <2> QED
    BY <2>6, <2>7
<1> QED
  BY <1>4, <1>5 DEF w, t

\* What could_be_bitflip() leaves out has been run, or crosses the border of two
\* bytes, or does not matter.
LEMMA BitflipTried ==
  ASSUME NEW b \in Seq(Byte), NEW n, NEW i, At(b, n, i), NEW v \in Seq(Byte), Len(v) = n, NEW eff,
         could_be_bitflip(Word(b, i, n), v)
  PROVE  Accounted(b, eff, Put(b, i, v))
<1>1. n \in Nat /\ i \in Nat /\ i + n <= Len(b) /\ Len(b) \in Nat
  BY DEF At, Widths
<1> DEFINE w == Word(b, i, n)  t == Put(b, i, v)  D == DiffBits(w, v)  E == DiffBits(b, t)
<1>2. w \in Seq(Byte) /\ Len(w) = n /\ t \in Seq(Byte) /\ Len(t) = Len(b)
  <2>1. w \in Seq(Byte) /\ Len(w) = n
    BY <1>1, WordFacts
  <2>2. t \in Seq(Byte) /\ Len(t) = Len(b)
    BY <1>1, PutFacts
  <2> QED
    BY <2>1, <2>2
<1>3. \A d \in Int : d \in D <=> 8 * i + d \in E
  BY DiffBitsShift
<1> HIDE DEF w, t
<1>4. (\A d \in D : d \in Nat) /\ (\A d \in E : d \in Nat)
  <2>0. Len(w) \in Nat
    BY <1>1, <1>2
  <2> QED
    BY <1>1, <2>0, DiffBitNat
<1>5. ASSUME NEW sh \in D, NEW m \in Nat, D = sh .. sh + m - 1
      PROVE  /\ 8 * i + sh \in E /\ E = (8 * i + sh) .. (8 * i + sh) + m - 1
             /\ (8 * i + sh) % 8 = sh % 8
  <2>1. sh \in Nat
    BY <1>4
  <2>2. 8 * i + sh \in E /\ (8 * i + sh) % 8 = sh % 8
    BY <1>1, <1>3, <2>1
  <2>3. ASSUME NEW e \in E PROVE e \in (8 * i + sh) .. (8 * i + sh) + m - 1
    <3>1. e \in Int /\ e - 8 * i \in Int /\ 8 * i + (e - 8 * i) = e
      BY <1>1, <1>4
    <3>2. e - 8 * i \in D
      BY <1>3, <3>1
    <3>3. e - 8 * i \in sh .. sh + m - 1
      BY <1>5, <3>2
    <3> QED
      BY <1>1, <2>1, <3>1, <3>3
  <2>4. ASSUME NEW e \in (8 * i + sh) .. (8 * i + sh) + m - 1 PROVE e \in E
    <3>1. e \in Int /\ e - 8 * i \in Int /\ 8 * i + (e - 8 * i) = e /\ e - 8 * i \in sh .. sh + m - 1
      BY <1>1, <2>1
    <3>2. e - 8 * i \in D
      BY <1>5, <3>1
    <3> QED
      BY <1>3, <3>1, <3>2
  <2> QED
    BY <2>2, <2>3, <2>4
<1>6. CASE D = {}
  <2>1. E = {}
    <3> SUFFICES ASSUME NEW e \in E PROVE FALSE
      OBVIOUS
    <3>1. e - 8 * i \in Int /\ 8 * i + (e - 8 * i) = e
      BY <1>1, <1>4
    <3> QED
      BY <1>3, <1>6, <3>1
  <2>2. ASSUME NEW k \in 1..Len(b) PROVE b[k] = t[k]
    <3>1. b[k] \in Byte /\ t[k] \in Byte
      BY <1>2
    <3>2. ASSUME NEW j \in 0..7 PROVE Bit(b[k], j) = Bit(t[k], j)
      <4>1. 8 * (k - 1) + j \in DiffBits(b, t) <=> Bit(b[k], j) # Bit(t[k], j)
        BY <1>1, DiffBitAt
      <4> QED
        BY <2>1, <4>1
    <3> QED
      BY <3>1, <3>2, BitsDecide
  <2> QED
    BY <2>2 DEF Accounted, OnlyIneffective, t
<1>7. CASE \E sh \in D, m \in {1, 2, 4} : D = sh .. sh + m - 1
  <2>1. PICK sh \in D, m \in {1, 2, 4} : D = sh .. sh + m - 1
    BY <1>7
  <2>2. 8 * i + sh \in E /\ E = (8 * i + sh) .. (8 * i + sh) + m - 1
    BY <1>5, <2>1
  <2> DEFINE s == 8 * i + sh
  <2>3. s \in E /\ E = s .. s + m - 1 /\ m \in Widths
    BY <2>2 DEF Widths
  <2> HIDE DEF s, E
  <2>4. t \in WalkingBits(b, m) \/ Straddles(b, t)
    BY <1>2, <2>3, RunIsWalked DEF E
  <2> QED
    BY <2>1, <2>4 DEF Accounted, AllTests, t
<1>8. CASE \E sh \in D, m \in {8, 16, 32} : sh % 8 = 0 /\ D = sh .. sh + m - 1
  <2>1. PICK sh \in D, m \in {8, 16, 32} : sh % 8 = 0 /\ D = sh .. sh + m - 1
    BY <1>8
  <2>2. PICK c \in Widths : m = 8 * c
    BY DEF Widths
  <2>3. 8 * i + sh \in E /\ E = (8 * i + sh) .. (8 * i + sh) + 8 * c - 1 /\ (8 * i + sh) % 8 = 0
    <3>1. m \in Nat
      OBVIOUS
    <3> QED
      BY <1>5, <2>1, <2>2, <3>1
  <2> DEFINE s == 8 * i + sh
  <2>4. s \in E /\ E = s .. s + 8 * c - 1 /\ s % 8 = 0
    BY <2>3
  <2> HIDE DEF s, E
  <2>5. PICK q : At(b, c, q) /\ t = Put(b, q, Invert(Word(b, q, c)))
    BY <1>2, <2>4, RunIsInverted DEF E
  <2>6. Accounted(b, eff, t)
    BY <2>5, InvertTried
  <2> QED
    BY <2>6 DEF t
<1> QED
  BY <1>6, <1>7, <1>8 DEF could_be_bitflip, w

-----------------------------------------------------------------------------
(* Sums.                                                                    *)

\* The bytes of a word in the opposite order.
LEMMA ReverseFacts ==
  ASSUME NEW w \in Seq(Byte)
  PROVE  /\ Reverse(w) \in Seq(Byte) /\ Len(Reverse(w)) = Len(w)
         /\ \A k \in 1..Len(w) : Reverse(w)[k] = w[Len(w) - k + 1]
<1> DEFINE r == Reverse(w)
<1>1. r = [k \in 1..Len(w) |-> w[(Len(w) - k) + 1]]
  BY DEF Reverse
<1> HIDE DEF r
<1>2. Len(w) \in Nat
  OBVIOUS
<1>3. ASSUME NEW k \in 1..Len(w) PROVE w[(Len(w) - k) + 1] \in Byte
  <2>1. (Len(w) - k) + 1 \in 1..Len(w)
    BY <1>2
  <2> QED
    BY <2>1
<1>4. r \in [1..Len(w) -> Byte]
  BY <1>1, <1>3
<1>5. r \in Seq(Byte) /\ Len(r) = Len(w)
  BY <1>2, <1>4
<1> QED
  BY <1>1, <1>5 DEF r

\* A word turned twice is the same again.
LEMMA ReverseTwice ==
  ASSUME NEW w \in Seq(Byte)
  PROVE  Reverse(Reverse(w)) = w
<1> DEFINE r == Reverse(w)  s == Reverse(r)
<1>1. r \in Seq(Byte) /\ Len(r) = Len(w) /\ \A k \in 1..Len(w) : r[k] = w[Len(w) - k + 1]
  BY ReverseFacts
<1> HIDE DEF r
<1>2. s \in Seq(Byte) /\ Len(s) = Len(r) /\ \A k \in 1..Len(r) : s[k] = r[Len(r) - k + 1]
  BY <1>1, ReverseFacts
<1> HIDE DEF s
<1>3. Len(w) \in Nat
  OBVIOUS
<1>4. ASSUME NEW k \in 1..Len(w) PROVE s[k] = w[k]
  <2>1. Len(w) - k + 1 \in 1..Len(w) /\ Len(w) - (Len(w) - k + 1) + 1 = k
    BY <1>3
  <2> QED
    BY <1>1, <1>2, <2>1
<1>5. s = w
  BY <1>1, <1>2, <1>4, SameSeq
<1> QED
  BY <1>5 DEF s, r

\* The bytes of a sum, the carries given.
LEMMA PlusBytes ==
  ASSUME NEW w, NEW j, NEW c2, c2 = (w[1] + j) \div 256, NEW c3, c3 = (w[2] + c2) \div 256,
         NEW c4, c4 = (w[3] + c3) \div 256, Len(w) \in Widths
  PROVE  /\ DOMAIN Plus(w, j) = 1..Len(w)
         /\ Plus(w, j) = [k \in 1..Len(w) |-> Plus(w, j)[k]]
         /\ Plus(w, j)[1] = (w[1] + j) % 256
         /\ Len(w) >= 2 => Plus(w, j)[2] = (w[2] + c2) % 256
         /\ Len(w) = 4 => Plus(w, j)[3] = (w[3] + c3) % 256 /\ Plus(w, j)[4] = (w[4] + c4) % 256
<1> DEFINE carry(k) == CASE k = 1 -> j [] k = 2 -> c2 [] k = 3 -> c3 [] k = 4 -> c4
<1>1. Plus(w, j) = [k \in 1..Len(w) |-> (w[k] + carry(k)) % 256]
  BY DEF Plus
<1>2. carry(1) = j /\ carry(2) = c2 /\ carry(3) = c3 /\ carry(4) = c4
  OBVIOUS
<1> HIDE DEF carry
<1>3. Len(w) \in {1, 2, 4}
  BY DEF Widths
<1> QED
  BY <1>1, <1>2, <1>3

\* A sum is a word of the same width.
LEMMA PlusType ==
  ASSUME NEW w \in Seq(Byte), Len(w) \in Widths, NEW j \in Int
  PROVE  Plus(w, j) \in Seq(Byte) /\ Len(Plus(w, j)) = Len(w)
<1> DEFINE c2 == (w[1] + j) \div 256  c3 == (w[2] + c2) \div 256  c4 == (w[3] + c3) \div 256
<1> DEFINE p == Plus(w, j)
<1>1. /\ p = [k \in 1..Len(w) |-> p[k]] /\ p[1] = (w[1] + j) % 256
      /\ Len(w) >= 2 => p[2] = (w[2] + c2) % 256
      /\ Len(w) = 4 => p[3] = (w[3] + c3) % 256 /\ p[4] = (w[4] + c4) % 256
  BY PlusBytes
<1> HIDE DEF p
<1>2. Len(w) \in {1, 2, 4}
  BY DEF Widths
<1>3. \A k \in 1..Len(w) : w[k] \in Byte
  OBVIOUS
<1>4. \A k \in 1..Len(w) : w[k] \in Int
  <2>1. \A x \in Byte : x \in Int
    BY DEF Byte
  <2> QED
    BY <1>3, <2>1
<1>5. \A x \in Int : x % 256 \in Byte /\ x \div 256 \in Int
  BY DEF Byte
<1>6. p[1] \in Byte /\ c2 \in Int
  <2>1. w[1] + j \in Int
    BY <1>2, <1>4
  <2> QED
    BY <1>1, <1>5, <2>1
<1> HIDE DEF c2
<1>7. Len(w) >= 2 => p[2] \in Byte /\ c3 \in Int
  <2>1. Len(w) >= 2 => w[2] + c2 \in Int
    BY <1>2, <1>4, <1>6
  <2> QED
    BY <1>1, <1>5, <2>1
<1> HIDE DEF c3
<1>8. Len(w) = 4 => p[3] \in Byte /\ c4 \in Int
  <2>1. Len(w) = 4 => w[3] + c3 \in Int
    BY <1>2, <1>4, <1>7
  <2> QED
    BY <1>1, <1>5, <2>1
<1> HIDE DEF c4
<1>9. Len(w) = 4 => p[4] \in Byte
  <2>1. Len(w) = 4 => w[4] + c4 \in Int
    BY <1>2, <1>4, <1>8
  <2> QED
    BY <1>1, <1>5, <2>1
<1>10. ASSUME NEW k \in 1..Len(w) PROVE p[k] \in Byte
  <2>1. \/ k = 1
        \/ k = 2 /\ Len(w) >= 2
        \/ k = 3 /\ Len(w) = 4
        \/ k = 4 /\ Len(w) = 4
    <3> DEFINE n == Len(w)
    <3>1. n \in {1, 2, 4} /\ k \in 1..n
      BY <1>2
    <3> HIDE DEF n
    <3>2. \/ k = 1
          \/ k = 2 /\ n >= 2
          \/ k = 3 /\ n = 4
          \/ k = 4 /\ n = 4
      BY <3>1
    <3> QED
      BY <3>2 DEF n
  <2> QED
    BY <1>6, <1>7, <1>8, <1>9, <2>1
<1>11. p \in [1..Len(w) -> Byte]
  BY <1>1, <1>10
<1>12. p \in Seq(Byte) /\ Len(p) = Len(w)
  BY <1>2, <1>11
<1> QED
  BY <1>12 DEF p

\* Adding nothing changes nothing.
LEMMA PlusZero ==
  ASSUME NEW w \in Seq(Byte), Len(w) \in Widths
  PROVE  Plus(w, 0) = w
<1> DEFINE c2 == (w[1] + 0) \div 256  c3 == (w[2] + c2) \div 256  c4 == (w[3] + c3) \div 256
<1> DEFINE p == Plus(w, 0)
<1>1. /\ p = [k \in 1..Len(w) |-> p[k]] /\ p[1] = (w[1] + 0) % 256
      /\ Len(w) >= 2 => p[2] = (w[2] + c2) % 256
      /\ Len(w) = 4 => p[3] = (w[3] + c3) % 256 /\ p[4] = (w[4] + c4) % 256
  BY PlusBytes
<1>2. Len(w) \in {1, 2, 4}
  BY DEF Widths
<1>3. \A k \in 1..Len(w) : w[k] \in Byte
  OBVIOUS
<1>4. \A x \in Byte : (x + 0) % 256 = x /\ (x + 0) \div 256 = 0
  BY DEF Byte
<1>5. p[1] = w[1] /\ c2 = 0
  BY <1>1, <1>2, <1>3, <1>4
<1>6. Len(w) >= 2 => p[2] = w[2] /\ c3 = 0
  BY <1>1, <1>2, <1>3, <1>4, <1>5
<1>7. Len(w) = 4 => p[3] = w[3] /\ c4 = 0
  BY <1>1, <1>2, <1>3, <1>4, <1>6
<1>8. Len(w) = 4 => p[4] = w[4]
  BY <1>1, <1>2, <1>3, <1>4, <1>7
<1>9. p \in Seq(Byte) /\ Len(p) = Len(w)
  BY PlusType
<1> HIDE DEF p
<1>10. \A k \in 1..Len(w) : p[k] = w[k]
  BY <1>2, <1>5, <1>6, <1>7, <1>8
<1>11. p = w
  BY <1>9, <1>10, SameSeq
<1> QED
  BY <1>11 DEF p

\* A sum that stays within two bytes.
InTwoBytes(a, e, j) == 0 <= a + 256 * e + j /\ a + 256 * e + j <= 65535
CarryOfTwo(a, e, j) == (e + ((a + j) \div 256)) \div 256

\* What it means not to carry.
LEMMA NoCarry ==
  ASSUME NEW w \in Seq(Byte), NEW h \in {1, 2}, Len(w) = 2 * h, NEW j \in Int, ~Carries(w, j)
  PROVE  /\ h = 1 => 0 <= w[1] + j /\ w[1] + j <= 255
         /\ h = 2 => InTwoBytes(w[1], w[2], j)
<1>1. w[1] \in Int /\ w[2] \in Int
  <2>1. w[1] \in Byte /\ w[2] \in Byte
    OBVIOUS
  <2>2. \A x \in Byte : x \in Int
    BY DEF Byte
  <2> QED
    BY <2>1, <2>2
<1> DEFINE half == Len(w) \div 2
           low == IF half = 1 THEN w[1] ELSE w[1] + 256 * w[2]
           top == IF half = 1 THEN 255 ELSE 65535
<1>2. low + j \in 0..top
  BY DEF Carries
<1>3. half = h
  OBVIOUS
<1> HIDE DEF half
<1>4. low \in Int /\ top \in Int
  BY <1>1
<1>5. /\ h = 1 => low = w[1] /\ top = 255
      /\ h = 2 => low = w[1] + 256 * w[2] /\ top = 65535
  BY <1>3
<1> HIDE DEF low, top
<1>6. 0 <= low + j /\ low + j <= top
  BY <1>2, <1>4
<1> QED
  BY <1>1, <1>4, <1>5, <1>6 DEF InTwoBytes

\* The carry out of one byte.
LEMMA CarryOut1 ==
  ASSUME NEW a \in 0..255, NEW j \in Int, 0 <= a + j, a + j <= 255
  PROVE  (a + j) \div 256 = 0
  OBVIOUS

\* The carry out of two.
LEMMA CarryOut2 ==
  ASSUME NEW a \in 0..255, NEW e \in 0..255, NEW j \in Int, InTwoBytes(a, e, j)
  PROVE  CarryOfTwo(a, e, j) = 0
<1> DEFINE c == (a + j) \div 256
<1>1. c \in Int /\ 256 * c <= a + j /\ a + j < 256 * c + 256
  OBVIOUS
<1> HIDE DEF c
<1>2. 0 <= e + c /\ e + c <= 255 /\ e + c \in Int
  BY <1>1 DEF InTwoBytes
<1>3. (e + c) \div 256 = 0
  BY <1>2
<1> QED
  BY <1>3 DEF c, CarryOfTwo

\* The bytes of a sum, and its carries.
PlusWith(w, j, c2, c3, c4) ==
  /\ c2 = (w[1] + j) \div 256 /\ c3 = (w[2] + c2) \div 256 /\ c4 = (w[3] + c3) \div 256
  /\ Plus(w, j)[1] = (w[1] + j) % 256
  /\ Len(w) >= 2 => Plus(w, j)[2] = (w[2] + c2) % 256
  /\ Len(w) = 4 => Plus(w, j)[3] = (w[3] + c3) % 256 /\ Plus(w, j)[4] = (w[4] + c4) % 256

\* Every sum has its carries.
LEMMA PlusCarries ==
  ASSUME NEW w, NEW j, Len(w) \in Widths
  PROVE  \E c2, c3, c4 : PlusWith(w, j, c2, c3, c4)
<1> DEFINE c2 == (w[1] + j) \div 256  c3 == (w[2] + c2) \div 256  c4 == (w[3] + c3) \div 256
<1>1. /\ Plus(w, j)[1] = (w[1] + j) % 256
      /\ Len(w) >= 2 => Plus(w, j)[2] = (w[2] + c2) % 256
      /\ Len(w) = 4 => Plus(w, j)[3] = (w[3] + c3) % 256 /\ Plus(w, j)[4] = (w[4] + c4) % 256
  BY PlusBytes
<1>2. PlusWith(w, j, c2, c3, c4)
  BY <1>1 DEF PlusWith
<1> QED
  BY <1>2

\* A sum that does not carry out of the low half changes only that half.
LEMMA LowSum ==
  ASSUME NEW w \in Seq(Byte), NEW h \in {1, 2}, Len(w) = 2 * h, NEW j \in Int, ~Carries(w, j)
  PROVE  /\ Plus(w, j) \in Seq(Byte) /\ Len(Plus(w, j)) = 2 * h
         /\ Plus(Word(w, 0, h), j) \in Seq(Byte) /\ Len(Plus(Word(w, 0, h), j)) = h
         /\ \A k \in 1..h : Plus(w, j)[k] = Plus(Word(w, 0, h), j)[k]
         /\ \A k \in h + 1 .. 2 * h : Plus(w, j)[k] = w[k]
<1> DEFINE x == Word(w, 0, h)
<1>1. x \in Seq(Byte) /\ Len(x) = h /\ \A k \in 1..h : x[k] = w[0 + k]
  <2>1. h \in Nat /\ 0 + h <= Len(w)
    OBVIOUS
  <2> QED
    BY <2>1, WordFacts
<1> HIDE DEF x
<1>2. Len(w) \in Widths /\ Len(x) \in Widths
  BY <1>1 DEF Widths
<1> DEFINE p == Plus(w, j)  y == Plus(x, j)
<1>3. p \in Seq(Byte) /\ Len(p) = Len(w)
  BY <1>2, PlusType
<1>4. y \in Seq(Byte) /\ Len(y) = Len(x)
  BY <1>1, <1>2, PlusType
<1>5. PICK c2, c3, c4 : PlusWith(w, j, c2, c3, c4)
  BY <1>2, PlusCarries
<1>6. PICK d2, d3, d4 : PlusWith(x, j, d2, d3, d4)
  BY <1>2, PlusCarries
<1>7. /\ c2 = (w[1] + j) \div 256 /\ c3 = (w[2] + c2) \div 256 /\ c4 = (w[3] + c3) \div 256
      /\ p[1] = (w[1] + j) % 256
      /\ Len(w) >= 2 => p[2] = (w[2] + c2) % 256
      /\ Len(w) = 4 => p[3] = (w[3] + c3) % 256 /\ p[4] = (w[4] + c4) % 256
  BY <1>5 DEF PlusWith
<1>8. /\ d2 = (x[1] + j) \div 256
      /\ y[1] = (x[1] + j) % 256
      /\ Len(x) >= 2 => y[2] = (x[2] + d2) % 256
  BY <1>6 DEF PlusWith
<1> HIDE DEF p, y
<1>9. \A k \in 1..Len(w) : w[k] \in 0..255
  <2>1. \A k \in 1..Len(w) : w[k] \in Byte
    OBVIOUS
  <2> QED
    BY <2>1 DEF Byte
<1>10. \A e \in 0..255 : (e + 0) % 256 = e /\ (e + 0) \div 256 = 0
  OBVIOUS
<1>11. CASE h = 1
  <2>1. w[1] \in 0..255 /\ w[2] \in 0..255 /\ x[1] = w[1] /\ Len(w) >= 2
    BY <1>1, <1>9, <1>11
  <2>2. 0 <= w[1] + j /\ w[1] + j <= 255
    BY <1>11, NoCarry
  <2>3. c2 = 0
    <3>1. (w[1] + j) \div 256 = 0
      BY <2>1, <2>2, CarryOut1, ZenonT(40)
    <3> QED
      BY <1>7, <3>1
  <2>4. p[2] = (w[2] + 0) % 256
    BY <1>7, <2>1, <2>3
  <2>5. p[2] = w[2]
    <3>1. w[2] \in 0..255
      BY <2>1
    <3>2. (w[2] + 0) % 256 = w[2]
      BY <1>10, <3>1, Zenon
    <3> QED
      BY <2>4, <3>2, Zenon
  <2>6. p[1] = y[1]
    BY <1>7, <1>8, <2>1
  <2>7. \A k \in 1..h : p[k] = y[k]
    BY <1>11, <2>6
  <2>8. \A k \in h + 1 .. 2 * h : p[k] = w[k]
    BY <1>11, <2>5
  <2> QED
    BY <1>1, <1>3, <1>4, <2>7, <2>8 DEF p, y, x
<1>12. CASE h = 2
  <2>1. /\ w[1] \in 0..255 /\ w[2] \in 0..255 /\ w[3] \in 0..255 /\ w[4] \in 0..255
        /\ x[1] = w[1] /\ x[2] = w[2] /\ Len(w) = 4 /\ Len(x) = 2
    BY <1>1, <1>9, <1>12, SMTT(30)
  <2>2. InTwoBytes(w[1], w[2], j)
    BY <1>12, NoCarry, SMTT(30)
  <2>3. c3 = 0
    <3>1. CarryOfTwo(w[1], w[2], j) = 0
      BY <2>1, <2>2, CarryOut2
    <3>2. c3 = (w[2] + ((w[1] + j) \div 256)) \div 256
      BY <1>7, Zenon
    <3> QED
      BY <3>1, <3>2, ZenonT(40) DEF CarryOfTwo
  <2>4. c4 = 0 /\ p[3] = w[3]
    <3>1. c4 = (w[3] + 0) \div 256 /\ p[3] = (w[3] + 0) % 256
      BY <1>7, <2>1, <2>3
    <3>2. w[3] \in 0..255
      BY <2>1
    <3>3. (w[3] + 0) \div 256 = 0 /\ (w[3] + 0) % 256 = w[3]
      BY <1>10, <3>2, Zenon
    <3> QED
      BY <3>1, <3>3, Zenon
  <2>5. p[4] = w[4]
    <3>1. p[4] = (w[4] + 0) % 256
      BY <1>7, <2>1, <2>4
    <3>2. w[4] \in 0..255
      BY <2>1
    <3>3. (w[4] + 0) % 256 = w[4]
      BY <1>10, <3>2, Zenon
    <3> QED
      BY <3>1, <3>3, Zenon
  <2>6. d2 = c2 /\ p[1] = y[1]
    BY <1>7, <1>8, <2>1
  <2>7. p[2] = y[2]
    BY <1>7, <1>8, <2>1, <2>6
  <2>8. \A k \in 1..h : p[k] = y[k]
    BY <1>12, <2>6, <2>7
  <2>9. \A k \in h + 1 .. 2 * h : p[k] = w[k]
    BY <1>12, <2>4, <2>5
  <2> QED
    BY <1>1, <1>3, <1>4, <2>8, <2>9 DEF p, y, x
<1> QED
  BY <1>11, <1>12

ByteOrders == {"le", "be"}

\* w + j in the host's byte order or in the opposite one.
SumOf(w, j, o) == IF o = "be" THEN Reverse(Plus(Reverse(w), j)) ELSE Plus(w, j)

\* Whether it carries out of the low half, and where in memory that half begins.
SumCarry(w, j, o) == Carries(IF o = "be" THEN Reverse(w) ELSE w, j)
LowHalf(h, o) == IF o = "be" THEN h ELSE 0

\* Such a sum is a word of the same width.
LEMMA SumType ==
  ASSUME NEW w \in Seq(Byte), Len(w) \in Widths, NEW j \in Int, NEW o \in ByteOrders
  PROVE  SumOf(w, j, o) \in Seq(Byte) /\ Len(SumOf(w, j, o)) = Len(w)
<1>1. Plus(w, j) \in Seq(Byte) /\ Len(Plus(w, j)) = Len(w)
  BY PlusType
<1> DEFINE r == Reverse(w)
<1>2. r \in Seq(Byte) /\ Len(r) = Len(w)
  BY ReverseFacts
<1> HIDE DEF r
<1>3. Plus(r, j) \in Seq(Byte) /\ Len(Plus(r, j)) = Len(w)
  BY <1>2, PlusType
<1> DEFINE p == Plus(r, j)
<1>4. p \in Seq(Byte) /\ Len(p) = Len(w)
  BY <1>3
<1> HIDE DEF p
<1>5. Reverse(p) \in Seq(Byte) /\ Len(Reverse(p)) = Len(w)
  BY <1>4, ReverseFacts
<1> QED
  BY <1>1, <1>5 DEF SumOf, p, r

\* A sum that does not carry out of the low half is a sum of the half word.
LEMMA HalfSum ==
  ASSUME NEW w \in Seq(Byte), NEW h \in {1, 2}, Len(w) = 2 * h, NEW j \in Int, NEW o \in ByteOrders,
         ~SumCarry(w, j, o), NEW q, q = LowHalf(h, o)
  PROVE  SumOf(w, j, o) = Put(w, q, SumOf(Word(w, q, h), j, o))
<1>0. h \in Nat /\ Len(w) \in Nat
  OBVIOUS
<1>1. CASE o # "be"
  <2> DEFINE p == Plus(w, j)  x == Word(w, 0, h)  y == Plus(x, j)
  <2>1. /\ p \in Seq(Byte) /\ Len(p) = 2 * h /\ y \in Seq(Byte) /\ Len(y) = h
        /\ \A k \in 1..h : p[k] = y[k]
        /\ \A k \in h + 1 .. 2 * h : p[k] = w[k]
    <3>1. ~Carries(w, j)
      BY <1>1 DEF SumCarry
    <3> QED
      BY <3>1, LowSum
  <2> HIDE DEF p, y
  <2>2. p = Put(w, 0, Word(p, 0, h))
    <3>1. p \in Seq(Byte) /\ Len(p) = Len(w) /\ 0 + h <= Len(w)
      BY <1>0, <2>1
    <3>2. \A k \in 1..Len(w) : k \notin 0 + 1 .. 0 + h => p[k] = w[k]
      BY <1>0, <2>1
    <3> QED
      BY <1>0, <3>1, <3>2, PartOfWord
  <2> DEFINE z == Word(p, 0, h)
  <2>3. z \in Seq(Byte) /\ Len(z) = h /\ \A k \in 1..h : z[k] = p[0 + k]
    <3>1. p \in Seq(Byte) /\ 0 + h <= Len(p)
      BY <1>0, <2>1
    <3> QED
      BY <1>0, <3>1, WordFacts
  <2> HIDE DEF z
  <2>4. \A k \in 1..h : z[k] = y[k]
    BY <1>0, <2>1, <2>3
  <2>5. z = y
    BY <2>1, <2>3, <2>4, SameSeq
  <2>6. p = Put(w, 0, y)
    BY <2>2, <2>5 DEF z
  <2> QED
    BY <1>1, <2>6 DEF SumOf, LowHalf, p, y
<1>2. CASE o = "be"
  <2> DEFINE r == Reverse(w)
  <2>1. r \in Seq(Byte) /\ Len(r) = 2 * h /\ \A k \in 1 .. 2 * h : r[k] = w[2 * h - k + 1]
    BY ReverseFacts
  <2>2. ~Carries(r, j)
    BY <1>2 DEF SumCarry
  <2> HIDE DEF r
  <2> DEFINE p == Plus(r, j)  x == Word(r, 0, h)  y == Plus(x, j)
  <2>3. /\ p \in Seq(Byte) /\ Len(p) = 2 * h /\ y \in Seq(Byte) /\ Len(y) = h
        /\ \A k \in 1..h : p[k] = y[k]
        /\ \A k \in h + 1 .. 2 * h : p[k] = r[k]
    BY <2>1, <2>2, LowSum
  <2>4. x \in Seq(Byte) /\ Len(x) = h /\ \A k \in 1..h : x[k] = r[0 + k]
    <3>1. r \in Seq(Byte) /\ 0 + h <= Len(r)
      BY <1>0, <2>1
    <3> QED
      BY <1>0, <3>1, WordFacts
  <2> HIDE DEF p, x, y
  <2> DEFINE v == Reverse(p)  u == Reverse(y)
  <2>5. v \in Seq(Byte) /\ Len(v) = 2 * h /\ \A k \in 1 .. 2 * h : v[k] = p[2 * h - k + 1]
    <3>1. p \in Seq(Byte)
      BY <2>3
    <3>2. v \in Seq(Byte) /\ Len(v) = Len(p) /\ \A k \in 1 .. Len(p) : v[k] = p[Len(p) - k + 1]
      BY <3>1, ReverseFacts
    <3> QED
      BY <2>3, <3>2
  <2>6. u \in Seq(Byte) /\ Len(u) = h /\ \A k \in 1..h : u[k] = y[h - k + 1]
    <3>1. y \in Seq(Byte)
      BY <2>3
    <3>2. u \in Seq(Byte) /\ Len(u) = Len(y) /\ \A k \in 1 .. Len(y) : u[k] = y[Len(y) - k + 1]
      BY <3>1, ReverseFacts
    <3> QED
      BY <2>3, <3>2
  <2> HIDE DEF v, u
  <2>7. v = Put(w, h, Word(v, h, h))
    <3>1. v \in Seq(Byte) /\ Len(v) = Len(w) /\ h + h <= Len(w)
      BY <1>0, <2>5
    <3>2. ASSUME NEW k \in 1..Len(w), k \notin h + 1 .. h + h PROVE v[k] = w[k]
      <4>1. /\ k \in 1 .. 2 * h /\ 2 * h - k + 1 \in h + 1 .. 2 * h /\ 2 * h - k + 1 \in 1 .. 2 * h
            /\ 2 * h - (2 * h - k + 1) + 1 = k
        BY <1>0, <3>2
      <4>2. v[k] = p[2 * h - k + 1] /\ p[2 * h - k + 1] = r[2 * h - k + 1]
        BY <2>3, <2>5, <4>1
      <4>3. r[2 * h - k + 1] = w[2 * h - (2 * h - k + 1) + 1]
        BY <2>1, <4>1
      <4> QED
        BY <4>1, <4>2, <4>3
    <3> QED
      BY <1>0, <3>1, <3>2, PartOfWord
  <2> DEFINE z == Word(v, h, h)
  <2>8. z \in Seq(Byte) /\ Len(z) = h /\ \A k \in 1..h : z[k] = v[h + k]
    <3>1. v \in Seq(Byte) /\ h + h <= Len(v)
      BY <1>0, <2>5
    <3> QED
      BY <1>0, <3>1, WordFacts
  <2> HIDE DEF z
  <2>9. ASSUME NEW k \in 1..h PROVE z[k] = u[k]
    <3>1. h + k \in 1 .. 2 * h /\ 2 * h - (h + k) + 1 = h - k + 1 /\ h - k + 1 \in 1..h
      BY <1>0
    <3>2. z[k] = v[h + k] /\ v[h + k] = p[2 * h - (h + k) + 1] /\ u[k] = y[h - k + 1]
      BY <2>5, <2>6, <2>8, <3>1
    <3>3. p[h - k + 1] = y[h - k + 1]
      BY <2>3, <3>1
    <3> QED
      BY <3>1, <3>2, <3>3
  <2>10. z = u
    BY <2>6, <2>8, <2>9, SameSeq
  <2> DEFINE a == Word(w, h, h)  c == Reverse(a)
  <2>11. a \in Seq(Byte) /\ Len(a) = h /\ \A k \in 1..h : a[k] = w[h + k]
    <3>1. h + h <= Len(w)
      BY <1>0
    <3> QED
      BY <1>0, <3>1, WordFacts
  <2> HIDE DEF a
  <2>12. c \in Seq(Byte) /\ Len(c) = h /\ \A k \in 1..h : c[k] = a[h - k + 1]
    <3>1. a \in Seq(Byte)
      BY <2>11
    <3>2. c \in Seq(Byte) /\ Len(c) = Len(a) /\ \A k \in 1 .. Len(a) : c[k] = a[Len(a) - k + 1]
      BY <3>1, ReverseFacts
    <3> QED
      BY <2>11, <3>2
  <2> HIDE DEF c
  <2>13. ASSUME NEW k \in 1..h PROVE x[k] = c[k]
    <3>1. /\ k \in 1 .. 2 * h /\ h - k + 1 \in 1..h /\ 0 + k = k
          /\ h + (h - k + 1) = 2 * h - k + 1
      BY <1>0
    <3>2. x[k] = r[0 + k] /\ c[k] = a[h - k + 1]
      BY <2>4, <2>12
    <3>3. r[k] = w[2 * h - k + 1] /\ a[h - k + 1] = w[h + (h - k + 1)]
      BY <2>1, <2>11, <3>1
    <3> QED
      BY <3>1, <3>2, <3>3
  <2>14. x = c
    BY <2>4, <2>12, <2>13, SameSeq
  <2>15. v = Put(w, h, u)
    BY <2>7, <2>10 DEF z
  <2>16. u = SumOf(a, j, o)
    BY <1>2, <2>14 DEF SumOf, u, y, c
  <2>17. v = SumOf(w, j, o)
    BY <1>2 DEF SumOf, v, p, r
  <2> QED
    BY <1>2, <2>15, <2>16, <2>17 DEF LowHalf, a
<1> QED
  BY <1>1, <1>2

\* An addend is a number other than 0.
LEMMA AddendFacts ==
  ASSUME NEW j
  PROVE  j \in Addends <=> j \in -ARITH_MAX .. ARITH_MAX /\ j # 0
  BY DEF Addends

\* An addend is an integer.
LEMMA AddendInt ==
  ASSUME NEW j \in -ARITH_MAX .. ARITH_MAX
  PROVE  j \in Int
<1>1. ARITH_MAX \in Int
  BY StageAssumption
<1> QED
  BY <1>1

\* A sum that the stage of its width tries.
LEMMA SumCarries ==
  ASSUME NEW b \in Seq(Byte), NEW n, NEW i, At(b, n, i), NEW eff, NEW j \in Addends,
         NEW o \in ByteOrders, NEW w, w = Word(b, i, n), SumCarry(w, j, o)
  PROVE  Accounted(b, eff, Put(b, i, SumOf(w, j, o)))
<1>1. n \in Widths /\ n \in Nat /\ i \in Nat /\ i + n <= Len(b)
  BY DEF At, Widths
<1>2. w \in Seq(Byte) /\ Len(w) = n
  BY <1>1, WordFacts
<1>3. j \in Int
  BY AddendFacts, AddendInt
<1> DEFINE v == SumOf(w, j, o)
<1>4. v \in Seq(Byte) /\ Len(v) = n
  BY <1>1, <1>2, <1>3, SumType
<1> HIDE DEF v
<1>5. CASE could_be_bitflip(w, v)
  BY <1>4, <1>5, BitflipTried DEF v
<1>6. CASE ~could_be_bitflip(w, v)
  <2>1. v \in ArithValues(w)
    BY <1>6 DEF ArithValues, SumOf, SumCarry, v
  <2>2. CASE i \in Positions(b, n, eff)
    <3>1. Put(b, i, v) \in ArithTests(b, n, eff)
      BY <2>1, <2>2 DEF ArithTests
    <3>2. n = 1 \/ n = 2 \/ n = 4
      BY <1>1 DEF Widths
    <3>3. Put(b, i, v) \in AllTests(b, eff)
      BY <3>1, <3>2 DEF AllTests
    <3> QED
      BY <3>3 DEF Accounted, v
  <2>3. CASE OnlyIneffective(b, Put(b, i, v), eff)
    BY <2>3 DEF Accounted, v
  <2> QED
    BY <1>4, <2>2, <2>3, Ineffective
<1> QED
  BY <1>5, <1>6

\* The sum is that of the low half, in its place.
IsHalfSum(w, h, j, o) ==
  SumOf(w, j, o) = Put(w, LowHalf(h, o), SumOf(Word(w, LowHalf(h, o), h), j, o))

\* HalfSum, in a form to cite.
LEMMA HalfSumAt ==
  ASSUME NEW w \in Seq(Byte), NEW h \in {1, 2}, Len(w) = 2 * h, NEW j \in Int, NEW o \in ByteOrders,
         ~SumCarry(w, j, o)
  PROVE  IsHalfSum(w, h, j, o)
<1> DEFINE q == LowHalf(h, o)
<1>1. q = LowHalf(h, o)
  OBVIOUS
<1> HIDE DEF q
<1>2. SumOf(w, j, o) = Put(w, q, SumOf(Word(w, q, h), j, o))
  BY <1>1, HalfSum
<1> QED
  BY <1>1, <1>2, Zenon DEF IsHalfSum

\* A sum that the stage of half the width tries.
LEMMA SumHalves ==
  ASSUME NEW b \in Seq(Byte), NEW h \in {1, 2}, NEW i, At(b, 2 * h, i), NEW j \in Addends,
         NEW o \in ByteOrders, NEW w, w = Word(b, i, 2 * h),
         ~SumCarry(w, j, o)
  PROVE  \E q \in Nat : /\ At(b, h, q)
                        /\ Put(b, i, SumOf(w, j, o)) = Put(b, q, SumOf(Word(b, q, h), j, o))
<1>1. h \in Nat /\ 2 * h \in Nat /\ i \in Nat /\ i + 2 * h <= Len(b) /\ Len(b) \in Nat
  BY DEF At
<1>2. w \in Seq(Byte) /\ Len(w) = 2 * h
  BY <1>1, WordFacts
<1>3. j \in Int
  BY AddendFacts, AddendInt
<1> DEFINE q == LowHalf(h, o)
<1>4. q \in Nat /\ q + h <= 2 * h
  BY <1>1 DEF LowHalf
<1>5. SumOf(w, j, o) = Put(w, q, SumOf(Word(w, q, h), j, o))
  <2>1. IsHalfSum(w, h, j, o)
    BY <1>2, <1>3, HalfSumAt
  <2> QED
    BY <2>1, Zenon DEF IsHalfSum
<1> HIDE DEF q
<1>6. At(b, h, i + q)
  BY <1>1, <1>4 DEF At, Widths
<1>7. Word(w, q, h) = Word(b, i + q, h)
  BY <1>1, <1>4, WordOfWord
<1> DEFINE y == Word(b, i + q, h)  x == SumOf(y, j, o)
<1>8. y \in Seq(Byte) /\ Len(y) = h
  <2>1. i + q \in Nat /\ (i + q) + h <= Len(b)
    BY <1>1, <1>4
  <2> QED
    BY <1>1, <2>1, WordFacts
<1> HIDE DEF y
<1>9. x \in Seq(Byte) /\ Len(x) = h
  <2>1. Len(y) \in Widths
    BY <1>8 DEF Widths
  <2> QED
    BY <1>3, <1>8, <2>1, SumType
<1> HIDE DEF x
<1>10. Put(b, i, Put(Word(b, i, 2 * h), q, x)) = Put(b, i + q, x)
  <2>1. x \in Seq(Byte) /\ q + Len(x) <= 2 * h
    BY <1>4, <1>9
  <2> QED
    BY <1>1, <1>4, <2>1, SubWord
<1>11. i + q \in Nat
  BY <1>1, <1>4
<1>12. Put(b, i, SumOf(w, j, o)) = Put(b, i + q, SumOf(Word(b, i + q, h), j, o))
  BY <1>5, <1>7, <1>10 DEF x, y
<1> QED
  BY <1>6, <1>11, <1>12

\* Every sum has been tried, or is left out for a reason.
LEMMA SumTried ==
  ASSUME NEW b \in Seq(Byte), NEW n, NEW i, At(b, n, i), NEW eff, NEW j \in Addends,
         NEW o \in ByteOrders
  PROVE  Accounted(b, eff, Put(b, i, SumOf(Word(b, i, n), j, o)))
<1> DEFINE OK(m) == \A p : At(b, m, p) => Accounted(b, eff, Put(b, p, SumOf(Word(b, p, m), j, o)))
<1>1. OK(1)
  <2> SUFFICES ASSUME NEW p, At(b, 1, p)
               PROVE  Accounted(b, eff, Put(b, p, SumOf(Word(b, p, 1), j, o)))
    OBVIOUS
  <2>1. p \in Nat /\ 1 \in Nat /\ p + 1 <= Len(b)
    BY DEF At
  <2> HIDE DEF OK
  <2> DEFINE w == Word(b, p, 1)
  <2>2. w \in Seq(Byte) /\ Len(w) = 1
    BY <2>1, WordFacts
  <2> HIDE DEF w
  <2>3. Len(Reverse(w)) = 1
    BY <2>2, ReverseFacts
  <2>4. SumCarry(w, j, o)
    BY <2>2, <2>3 DEF SumCarry, Carries
  <2> QED
    BY <2>4, SumCarries DEF w
<1>2. ASSUME NEW h \in {1, 2}, OK(h) PROVE OK(2 * h)
  <2> SUFFICES ASSUME NEW p, At(b, 2 * h, p)
               PROVE  Accounted(b, eff, Put(b, p, SumOf(Word(b, p, 2 * h), j, o)))
    OBVIOUS
  <2> DEFINE w == Word(b, p, 2 * h)
  <2>1. CASE SumCarry(w, j, o)
    BY <2>1, SumCarries
  <2>2. CASE ~SumCarry(w, j, o)
    <3>1. PICK q \in Nat : /\ At(b, h, q)
                           /\ Put(b, p, SumOf(w, j, o)) = Put(b, q, SumOf(Word(b, q, h), j, o))
      BY <2>2, SumHalves
    <3> QED
      BY <1>2, <3>1
  <2> QED
    BY <2>1, <2>2
<1> HIDE DEF OK
<1>3. OK(2) /\ OK(4)
  <2>1. OK(2 * 1)
    BY <1>1, <1>2
  <2>2. OK(2)
    BY <2>1
  <2>3. OK(2 * 2)
    BY <1>2, <2>2
  <2> QED
    BY <2>2, <2>3
<1>4. OK(n)
  BY <1>1, <1>3 DEF At, Widths
<1> QED
  BY <1>4 DEF OK

-----------------------------------------------------------------------------
(* What could_be_arith() and could_be_interest() leave out.                 *)

\* What does not change the input.
LEMMA SameTried ==
  ASSUME NEW b \in Seq(Byte), NEW n, NEW i, At(b, n, i), NEW eff, NEW v, v = Word(b, i, n)
  PROVE  Accounted(b, eff, Put(b, i, v))
<1>1. n \in Nat /\ i \in Nat /\ i + n <= Len(b)
  BY DEF At, Widths
<1>2. v \in Seq(Byte) /\ Len(v) = n
  BY <1>1, WordFacts
<1>3. Put(b, i, v) = b
  BY <1>1, <1>2, PutSame
<1> QED
  BY <1>3 DEF Accounted, OnlyIneffective

\* The words of m bytes in a word of n bytes.
LEMMA Aligned ==
  ASSUME NEW m \in Widths, NEW n \in Widths, m <= n, NEW k \in 0 .. n \div m - 1
  PROVE  /\ m * k \in Nat /\ m * k + m <= n
         /\ \A p \in 1..n : p \notin m * k + 1 .. m * k + m =>
              \E c \in 0 .. n \div m - 1, e \in 1..m : c # k /\ p = m * c + e
<1>1. m \in {1, 2, 4} /\ n \in {1, 2, 4}
  BY DEF Widths
<1>2. CASE m = n
  <2>1. n \div m = 1
    BY <1>1, <1>2
  <2>2. k = 0
    BY <2>1
  <2> QED
    BY <1>1, <1>2, <2>2
<1>3. CASE m = 1 /\ n # 1
  <2>1. n \div m = n
    BY <1>1, <1>3
  <2>2. k \in 0 .. n - 1
    BY <2>1
  <2>3. ASSUME NEW p \in 1..n, p \notin k + 1 .. k + 1
        PROVE  p - 1 \in 0 .. n - 1 /\ p - 1 # k /\ p = 1 * (p - 1) + 1
    BY <1>1, <2>2, <2>3
  <2> QED
    BY <1>1, <1>3, <2>1, <2>2, <2>3
<1>4. CASE m = 2 /\ n = 4
  <2>1. n \div m = 2
    BY <1>4
  <2>2. k \in {0, 1}
    BY <2>1
  <2>3. ASSUME NEW p \in 1..4, p \notin 2 * k + 1 .. 2 * k + 2
        PROVE  \E c \in 0..1, e \in 1..2 : c # k /\ p = 2 * c + e
    <3>1. CASE k = 0
      <4>1. 1 \in 0..1 /\ p - 2 \in 1..2 /\ 1 # k /\ p = 2 * 1 + (p - 2)
        BY <2>3, <3>1
      <4> QED
        BY <4>1
    <3>2. CASE k = 1
      <4>1. 0 \in 0..1 /\ p \in 1..2 /\ 0 # k /\ p = 2 * 0 + p
        BY <2>3, <3>2
      <4> QED
        BY <4>1
    <3> QED
      BY <2>2, <3>1, <3>2
  <2> QED
    BY <1>4, <2>1, <2>2, <2>3
<1> QED
  BY <1>1, <1>2, <1>3, <1>4

\* could_be_arith() names a part of the word and a sum of it.
LEMMA ArithPart ==
  ASSUME NEW n \in Widths, NEW w \in Seq(Byte), Len(w) = n, NEW v \in Seq(Byte), Len(v) = n,
         could_be_arith(w, v, n), v # w
  PROVE  \E m \in Widths, q \in Nat, j \in Addends, o \in ByteOrders :
           q + m <= n /\ v = Put(w, q, SumOf(Word(w, q, m), j, o))
<1> DEFINE diffs(m) == {k \in 0 .. n \div m - 1 : Word(w, m * k, m) # Word(v, m * k, m)}
<1>1. PICK m \in Widths :
        /\ m <= n /\ Cardinality(diffs(m)) = 1
        /\ \E k \in diffs(m) : \/ InArithRange(Word(w, m * k, m), Word(v, m * k, m))
                               \/ InArithRange(Reverse(Word(w, m * k, m)), Reverse(Word(v, m * k, m)))
  BY DEF could_be_arith, Widths
<1>2. PICK k \in diffs(m) : \/ InArithRange(Word(w, m * k, m), Word(v, m * k, m))
                            \/ InArithRange(Reverse(Word(w, m * k, m)), Reverse(Word(v, m * k, m)))
  BY <1>1
<1>3. k \in 0 .. n \div m - 1 /\ Word(w, m * k, m) # Word(v, m * k, m)
  BY <1>2
<1>4. \A c \in 0 .. n \div m - 1 : c # k => Word(w, m * c, m) = Word(v, m * c, m)
  <2>1. n \div m \in Int
    BY DEF Widths
  <2>2. IsFiniteSet(0 .. n \div m - 1)
    BY <2>1, FS_Interval
  <2>3. IsFiniteSet(diffs(m))
    BY <2>2, FS_Subset
  <2>4. diffs(m) = {k}
    <3> HIDE DEF diffs
    <3>1. PICK x : diffs(m) = {x}
      BY <1>1, <2>3, FS_Singleton
    <3> QED
      BY <1>2, <3>1
  <2> QED
    BY <2>4
<1> HIDE DEF diffs
<1> DEFINE q == m * k
<1>5. /\ q \in Nat /\ q + m <= n /\ m \in Nat
      /\ \A p \in 1..n : p \notin q + 1 .. q + m =>
           \E c \in 0 .. n \div m - 1, e \in 1..m : c # k /\ p = m * c + e
  <2>1. m \in Nat
    BY DEF Widths
  <2> QED
    BY <1>1, <1>3, <2>1, Aligned
<1> DEFINE x == Word(w, q, m)  y == Word(v, q, m)
<1>6. x # y
  BY <1>3
<1>7. InArithRange(x, y) \/ InArithRange(Reverse(x), Reverse(y))
  BY <1>2
<1> HIDE DEF q
<1>8. ASSUME NEW p \in 1..n, p \notin q + 1 .. q + m PROVE v[p] = w[p]
  <2>1. PICK c \in 0 .. n \div m - 1, e \in 1..m : c # k /\ p = m * c + e
    BY <1>5, <1>8
  <2>2. Word(w, m * c, m) = Word(v, m * c, m)
    BY <1>4, <2>1
  <2>3. m * c \in Nat /\ m * c + m <= n
    BY <1>1, <2>1, Aligned
  <2>4. Word(w, m * c, m)[e] = w[m * c + e]
    BY <1>5, <2>1, <2>3, WordFacts
  <2>5. Word(v, m * c, m)[e] = v[m * c + e]
    BY <1>5, <2>1, <2>3, WordFacts
  <2> QED
    BY <2>1, <2>2, <2>4, <2>5
<1>9. x \in Seq(Byte) /\ Len(x) = m /\ y \in Seq(Byte) /\ Len(y) = m
  <2>1. x \in Seq(Byte) /\ Len(x) = m
    BY <1>5, WordFacts
  <2>2. y \in Seq(Byte) /\ Len(y) = m
    BY <1>5, WordFacts
  <2> QED
    BY <2>1, <2>2
<1>10. v = Put(w, q, y)
  <2>1. q + m <= Len(w) /\ Len(v) = Len(w) /\ q \in Nat /\ m \in Nat
    BY <1>5
  <2>2. \A p \in 1..Len(w) : p \notin q + 1 .. q + m => v[p] = w[p]
    BY <1>8
  <2> QED
    BY <2>1, <2>2, PartOfWord, ZenonT(40)
<1> HIDE DEF x, y
<1>11. CASE InArithRange(x, y)
  <2>1. PICK j \in -ARITH_MAX .. ARITH_MAX : Plus(x, j) = y
    BY <1>11 DEF InArithRange
  <2>2. j # 0
    BY <1>6, <1>9, <2>1, PlusZero
  <2>3. j \in Addends
    BY <2>2, AddendFacts
  <2>4. y = SumOf(x, j, "le")
    BY <2>1 DEF SumOf
  <2>5. "le" \in ByteOrders
    BY DEF ByteOrders
  <2>6. v = Put(w, q, SumOf(Word(w, q, m), j, "le"))
    BY <1>10, <2>4 DEF x
  <2> QED
    BY <1>5, <2>3, <2>5, <2>6
<1>12. CASE InArithRange(Reverse(x), Reverse(y))
  <2>1. PICK j \in -ARITH_MAX .. ARITH_MAX : Plus(Reverse(x), j) = Reverse(y)
    BY <1>12 DEF InArithRange
  <2>2. Reverse(x) \in Seq(Byte) /\ Len(Reverse(x)) = m
    BY <1>9, ReverseFacts
  <2>3. Reverse(Reverse(x)) = x /\ Reverse(Reverse(y)) = y
    BY <1>9, ReverseTwice
  <2>4. j # 0
    <3> SUFFICES ASSUME j = 0 PROVE FALSE
      OBVIOUS
    <3>1. Plus(Reverse(x), 0) = Reverse(x)
      BY <2>2, PlusZero
    <3> QED
      BY <1>6, <2>1, <2>3, <3>1
  <2>5. j \in Addends
    BY <2>4, AddendFacts
  <2>6. y = SumOf(x, j, "be")
    BY <2>1, <2>3 DEF SumOf
  <2>7. "be" \in ByteOrders
    BY DEF ByteOrders
  <2>8. v = Put(w, q, SumOf(Word(w, q, m), j, "be"))
    BY <1>10, <2>6 DEF x
  <2> QED
    BY <1>5, <2>5, <2>7, <2>8
<1> QED
  BY <1>7, <1>11, <1>12

\* What could_be_arith() leaves out is accounted for.
LEMMA ArithTried ==
  ASSUME NEW b \in Seq(Byte), NEW n, NEW i, At(b, n, i), NEW eff,
         NEW v \in Seq(Byte), Len(v) = n, could_be_arith(Word(b, i, n), v, n)
  PROVE  Accounted(b, eff, Put(b, i, v))
<1>1. n \in Widths /\ n \in Nat /\ i \in Nat /\ i + n <= Len(b) /\ Len(b) \in Nat
  BY DEF At, Widths
<1> DEFINE w == Word(b, i, n)
<1>2. w \in Seq(Byte) /\ Len(w) = n
  BY <1>1, WordFacts
<1>3. CASE v = w
  BY <1>3, SameTried
<1>4. CASE v # w
  <2>1. PICK m \in Widths, q \in Nat, j \in Addends, o \in ByteOrders :
          q + m <= n /\ v = Put(w, q, SumOf(Word(w, q, m), j, o))
    BY <1>1, <1>2, <1>4, ArithPart
  <2>2. m \in Nat
    BY DEF Widths
  <2>3. Word(w, q, m) = Word(b, i + q, m)
    BY <1>1, <2>1, <2>2, WordOfWord
  <2>4. i + q \in Nat /\ (i + q) + m <= Len(b)
    BY <1>1, <2>1, <2>2
  <2>5. At(b, m, i + q)
    BY <2>4 DEF At
  <2> DEFINE y == Word(b, i + q, m)  x == SumOf(y, j, o)
  <2>6. y \in Seq(Byte) /\ Len(y) = m
    BY <2>2, <2>4, WordFacts
  <2>7. j \in Int
    BY AddendFacts, AddendInt
  <2> HIDE DEF y
  <2>8. x \in Seq(Byte) /\ Len(x) = m
    BY <2>6, <2>7, SumType
  <2> HIDE DEF x
  <2>9. Put(b, i, Put(w, q, x)) = Put(b, i + q, x)
    <3>1. x \in Seq(Byte) /\ q + Len(x) <= n
      BY <2>1, <2>8
    <3> QED
      BY <1>1, <3>1, SubWord
  <2>10. v = Put(w, q, x)
    BY <2>1, <2>3 DEF x, y
  <2>11. Accounted(b, eff, Put(b, i + q, x))
    BY <2>5, SumTried DEF x, y
  <2> QED
    BY <2>9, <2>10, <2>11
<1> QED
  BY <1>3, <1>4

\* The interesting values are integers.
LEMMA InterestingInts ==
  INTERESTING_8 \subseteq Int /\ INTERESTING_16 \subseteq Int /\ INTERESTING_32 \subseteq Int
<1>1. INTERESTING_8 \subseteq Int
  BY DEF INTERESTING_8
<1>2. INTERESTING_16 \subseteq Int
  BY <1>1 DEF INTERESTING_16
<1>3. INTERESTING_32 \subseteq Int
  BY <1>2 DEF INTERESTING_32
<1> QED
  BY <1>1, <1>2, <1>3

\* An interesting value is a word of its width.
LEMMA InterestType ==
  ASSUME NEW n \in Widths, NEW x \in interesting[n]
  PROVE  x \in Seq(Byte) /\ Len(x) = n
<1>1. n \in {1, 2, 4}
  BY DEF Widths
<1> DEFINE I == CASE n = 1 -> INTERESTING_8 [] n = 2 -> INTERESTING_16 [] n = 4 -> INTERESTING_32
<1>2. interesting[n] = {Encode(v, n) : v \in I}
  BY <1>1 DEF interesting
<1>3. I \subseteq Int
  BY <1>1, InterestingInts
<1> HIDE DEF I
<1>4. PICK v \in I : x = Encode(v, n)
  BY <1>2
<1>5. v \in Int
  BY <1>3
<1> DEFINE T == <<1, 256, 65536, 16777216>>
<1>6. x = [k \in 1..n |-> (v \div T[k]) % 256]
  BY <1>4 DEF Encode
<1>7. ASSUME NEW k \in 1..n PROVE (v \div T[k]) % 256 \in Byte
  <2>1. k = 1 \/ k = 2 \/ k = 3 \/ k = 4
    BY <1>1
  <2>2. T[1] = 1 /\ T[2] = 256 /\ T[3] = 65536 /\ T[4] = 16777216
    OBVIOUS
  <2>3. T[k] \in Nat \ {0}
    BY <2>1, <2>2
  <2> DEFINE d == T[k]
  <2>4. d \in Nat \ {0}
    BY <2>3
  <2> HIDE DEF d
  <2>5. v \div d \in Int
    BY <1>5, <2>4
  <2> DEFINE e == v \div d
  <2>6. e \in Int
    BY <2>5
  <2> HIDE DEF e
  <2>7. e % 256 \in Byte
    BY <2>6 DEF Byte
  <2> QED
    BY <2>7 DEF d, e
<1> HIDE DEF T
<1>8. x \in [1..n -> Byte]
  BY <1>6, <1>7
<1> QED
  BY <1>1, <1>8

\* A value in the host's byte order or in the opposite one.
Ordered(x, o) == IF o = "be" THEN Reverse(x) ELSE x

\* It is a word of the same width.
LEMMA OrderedType ==
  ASSUME NEW n \in Widths, NEW x \in interesting[n], NEW o \in ByteOrders
  PROVE  Ordered(x, o) \in Seq(Byte) /\ Len(Ordered(x, o)) = n
<1>1. x \in Seq(Byte) /\ Len(x) = n
  BY InterestType
<1>2. Reverse(x) \in Seq(Byte) /\ Len(Reverse(x)) = n
  BY <1>1, ReverseFacts
<1> QED
  BY <1>1, <1>2 DEF Ordered

\* A value that no filter takes away.
LEMMA FreshTried ==
  ASSUME NEW b \in Seq(Byte), NEW n, NEW i, At(b, n, i), NEW eff, NEW x \in interesting[n],
         NEW o \in ByteOrders, o = "be" => x # Reverse(x),
         n = 1 \/ ~could_be_interest(Word(b, i, n), Ordered(x, o), n, o = "be")
  PROVE  Accounted(b, eff, Put(b, i, Ordered(x, o)))
<1>1. n \in Widths /\ n \in Nat /\ i \in Nat /\ i + n <= Len(b)
  BY DEF At, Widths
<1> DEFINE w == Word(b, i, n)  v == Ordered(x, o)
<1>2. w \in Seq(Byte) /\ Len(w) = n
  BY <1>1, WordFacts
<1>3. v \in Seq(Byte) /\ Len(v) = n
  BY <1>1, OrderedType
<1>4. CASE could_be_bitflip(w, v)
  <2> HIDE DEF v
  <2> QED
    BY <1>3, <1>4, BitflipTried DEF v
<1>5. CASE could_be_arith(w, v, n)
  <2> HIDE DEF v
  <2> QED
    BY <1>3, <1>5, ArithTried DEF v
<1>6. CASE ~could_be_bitflip(w, v) /\ ~could_be_arith(w, v, n)
  <2> HIDE DEF w
  <2>1. v \in InterestValues(w)
    <3>1. CASE o = "be"
      <4>1. v = Reverse(x) /\ x # Reverse(x)
        BY <3>1 DEF Ordered
      <4>2. n = 1 \/ ~could_be_interest(w, v, n, TRUE)
        BY <3>1 DEF w
      <4> HIDE DEF v
      <4> QED
        BY <1>2, <1>6, <4>1, <4>2 DEF InterestValues
    <3>2. CASE o = "le"
      <4>1. v = x
        BY <3>2 DEF Ordered
      <4>2. n = 1 \/ ~could_be_interest(w, v, n, FALSE)
        BY <3>2 DEF w
      <4> HIDE DEF v
      <4> QED
        BY <1>2, <1>6, <4>1, <4>2 DEF InterestValues
    <3> QED
      BY <3>1, <3>2 DEF ByteOrders
  <2> HIDE DEF v
  <2>2. CASE i \in Positions(b, n, eff)
    <3>1. Put(b, i, v) \in InterestTests(b, n, eff)
      BY <2>1, <2>2 DEF InterestTests, w
    <3>2. n = 1 \/ n = 2 \/ n = 4
      BY <1>1 DEF Widths
    <3>3. Put(b, i, v) \in AllTests(b, eff)
      BY <3>1, <3>2 DEF AllTests
    <3> QED
      BY <3>3 DEF Accounted, v
  <2>3. CASE OnlyIneffective(b, Put(b, i, v), eff)
    BY <2>3 DEF Accounted, v
  <2> QED
    BY <1>3, <2>2, <2>3, Ineffective
<1> QED
  BY <1>4, <1>5, <1>6

\* A word is accounted for when a part of it is, and the rest is as it was.
LEMMA PartTried ==
  ASSUME NEW b \in Seq(Byte), NEW n, NEW i, At(b, n, i), NEW eff, NEW m \in Widths, NEW q \in Nat,
         q + m <= n, NEW x \in Seq(Byte), Len(x) = m,
         \A p : At(b, m, p) => Accounted(b, eff, Put(b, p, x))
  PROVE  Accounted(b, eff, Put(b, i, Put(Word(b, i, n), q, x)))
<1>1. n \in Nat /\ m \in Nat /\ i \in Nat /\ i + n <= Len(b) /\ Len(b) \in Nat
  BY DEF At, Widths
<1>2. i + q \in Nat /\ (i + q) + m <= Len(b)
  BY <1>1
<1>3. At(b, m, i + q)
  BY <1>2 DEF At
<1>4. Put(b, i, Put(Word(b, i, n), q, x)) = Put(b, i + q, x)
  <2>1. q + Len(x) <= n
    OBVIOUS
  <2> QED
    BY <1>1, <2>1, SubWord
<1> QED
  BY <1>3, <1>4

\* The interesting values of n bytes are accounted for wherever they are put.
ValuesTried(b, eff, n, o) ==
  \A p : At(b, n, p) => \A x \in interesting[n] : Accounted(b, eff, Put(b, p, Ordered(x, o)))

\* What could_be_interest() leaves out is accounted for, if the values are that
\* were tried before.
LEMMA InterestLeft ==
  ASSUME NEW b \in Seq(Byte), NEW n, NEW i, At(b, n, i), NEW eff, n # 1, NEW x \in interesting[n],
         NEW o \in ByteOrders, could_be_interest(Word(b, i, n), Ordered(x, o), n, o = "be"),
         ValuesTried(b, eff, 1, "le"),
         n = 4 \/ o = "be" => ValuesTried(b, eff, 2, "le"),
         n = 4 => ValuesTried(b, eff, 2, "be"),
         n = 4 /\ o = "be" => ValuesTried(b, eff, 4, "le")
  PROVE  Accounted(b, eff, Put(b, i, Ordered(x, o)))
<1>1. n \in Widths /\ n \in {2, 4}
  BY DEF At, Widths
<1> DEFINE w == Word(b, i, n)  v == Ordered(x, o)
<1>2. 1 \in Widths /\ 2 \in Widths /\ 4 \in Widths /\ "le" \in ByteOrders /\ "be" \in ByteOrders
  BY DEF Widths, ByteOrders
<1>3. ASSUME NEW m \in Widths, NEW q \in Nat, q + m <= n, NEW y \in interesting[m],
             NEW e \in ByteOrders, ValuesTried(b, eff, m, e), v = Put(w, q, Ordered(y, e))
      PROVE  Accounted(b, eff, Put(b, i, v))
  <2> DEFINE z == Ordered(y, e)
  <2>1. z \in Seq(Byte) /\ Len(z) = m
    BY OrderedType
  <2>2. \A p : At(b, m, p) => Accounted(b, eff, Put(b, p, z))
    BY <1>3 DEF ValuesTried
  <2> HIDE DEF z
  <2>3. Accounted(b, eff, Put(b, i, Put(w, q, z)))
    BY <1>3, <2>1, <2>2, PartTried
  <2> QED
    BY <1>3, <2>3 DEF z
<1>4. CASE v = w
  BY <1>4, SameTried
<1>5. CASE \E q \in 0 .. n - 1, y \in interesting[1] : v = Put(w, q, y)
  <2>1. PICK q \in 0 .. n - 1, y \in interesting[1] : v = Put(w, q, y)
    BY <1>5
  <2>2. v = Put(w, q, Ordered(y, "le"))
    BY <2>1 DEF Ordered
  <2>3. q \in Nat /\ q + 1 <= n
    BY <1>1
  <2> HIDE DEF v, w
  <2> QED
    BY <1>2, <1>3, <2>2, <2>3 DEF v
<1>6. CASE /\ n > 2 \/ o = "be"
           /\ \E q \in 0 .. n - 2, y \in interesting[2] :
                v = Put(w, q, y) \/ (n > 2 /\ v = Put(w, q, Reverse(y)))
  <2>1. PICK q \in 0 .. n - 2, y \in interesting[2] :
          v = Put(w, q, y) \/ (n > 2 /\ v = Put(w, q, Reverse(y)))
    BY <1>6
  <2>2. q \in Nat /\ q + 2 <= n
    BY <1>1
  <2>3. n = 4 \/ o = "be"
    BY <1>1, <1>6
  <2>4. n > 2 => n = 4
    BY <1>1
  <2> HIDE DEF v, w
  <2>5. CASE v = Put(w, q, y)
    <3>1. v = Put(w, q, Ordered(y, "le"))
      BY <2>5 DEF Ordered
    <3> QED
      BY <1>2, <1>3, <2>2, <2>3, <3>1 DEF v
  <2>6. CASE n > 2 /\ v = Put(w, q, Reverse(y))
    <3>1. v = Put(w, q, Ordered(y, "be"))
      BY <2>6 DEF Ordered
    <3> QED
      BY <1>2, <1>3, <2>2, <2>4, <2>6, <3>1 DEF v
  <2> QED
    BY <2>1, <2>5, <2>6
<1>7. CASE n = 4 /\ o = "be" /\ v \in interesting[4]
  <2>1. v = Ordered(v, "le")
    BY DEF Ordered
  <2>2. ValuesTried(b, eff, 4, "le") /\ At(b, 4, i)
    BY <1>7
  <2> HIDE DEF v
  <2>3. Accounted(b, eff, Put(b, i, Ordered(v, "le")))
    BY <1>7, <2>2 DEF ValuesTried
  <2> QED
    BY <2>1, <2>3 DEF v
<1>8. \/ v = w
      \/ \E q \in 0 .. n - 1, y \in interesting[1] : v = Put(w, q, y)
      \/ /\ n > 2 \/ o = "be"
         /\ \E q \in 0 .. n - 2, y \in interesting[2] :
              v = Put(w, q, y) \/ (n > 2 /\ v = Put(w, q, Reverse(y)))
      \/ n = 4 /\ o = "be" /\ v \in interesting[4]
  <2> HIDE DEF v, w
  <2>1. could_be_interest(w, v, n, o = "be")
    BY DEF v, w
  <2> QED
    BY <2>1 DEF could_be_interest
<1> HIDE DEF v, w
<1>9. Accounted(b, eff, Put(b, i, v))
  BY <1>4, <1>5, <1>6, <1>7, <1>8 DEF v
<1> QED
  BY <1>9 DEF v

\* The interesting values of a width, when those before are accounted for.
LEMMA ValuesStep ==
  ASSUME NEW b \in Seq(Byte), NEW n \in Widths, NEW eff, NEW o \in ByteOrders,
         o = "be" => ValuesTried(b, eff, n, "le"),
         n # 1 => ValuesTried(b, eff, 1, "le"),
         n = 4 => ValuesTried(b, eff, 2, "le") /\ ValuesTried(b, eff, 2, "be")
  PROVE  ValuesTried(b, eff, n, o)
<1> SUFFICES ASSUME NEW i, At(b, n, i), NEW x \in interesting[n]
             PROVE  Accounted(b, eff, Put(b, i, Ordered(x, o)))
  BY DEF ValuesTried
<1> DEFINE w == Word(b, i, n)  v == Ordered(x, o)
<1>1. CASE o = "be" /\ x = Reverse(x)
  <2>1. Ordered(x, o) = Ordered(x, "le")
    BY <1>1 DEF Ordered
  <2>2. Accounted(b, eff, Put(b, i, Ordered(x, "le")))
    BY <1>1 DEF ValuesTried
  <2> QED
    BY <2>1, <2>2
<1>2. CASE (o = "be" => x # Reverse(x)) /\ (n = 1 \/ ~could_be_interest(w, v, n, o = "be"))
  BY <1>2, FreshTried
<1>3. CASE n # 1 /\ could_be_interest(w, v, n, o = "be")
  <2>1. n = 4 \/ o = "be" => ValuesTried(b, eff, 2, "le")
    BY <1>3 DEF Widths
  <2> QED
    BY <1>3, <2>1, InterestLeft
<1> QED
  BY <1>1, <1>2, <1>3

\* All the interesting values in both byte orders.
LEMMA InterestTried ==
  ASSUME NEW b \in Seq(Byte), NEW n \in Widths, NEW eff, NEW o \in ByteOrders
  PROVE  ValuesTried(b, eff, n, o)
<1>1. 1 \in Widths /\ 2 \in Widths /\ 4 \in Widths /\ "le" \in ByteOrders /\ "be" \in ByteOrders
  BY DEF Widths, ByteOrders
<1>2. 1 # 2 /\ 1 # 4 /\ 2 # 4 /\ "le" # "be"
  OBVIOUS
<1>3. ValuesTried(b, eff, 1, "le")
  BY <1>1, <1>2, ValuesStep
<1>4. ValuesTried(b, eff, 1, "be")
  BY <1>1, <1>2, <1>3, ValuesStep
<1>5. ValuesTried(b, eff, 2, "le")
  BY <1>1, <1>2, <1>3, ValuesStep
<1>6. ValuesTried(b, eff, 2, "be")
  BY <1>1, <1>2, <1>3, <1>5, ValuesStep
<1>7. ValuesTried(b, eff, 4, "le")
  BY <1>1, <1>2, <1>3, <1>5, <1>6, ValuesStep
<1>8. ValuesTried(b, eff, 4, "be")
  BY <1>1, <1>2, <1>3, <1>5, <1>6, <1>7, ValuesStep
<1> QED
  BY <1>3, <1>4, <1>5, <1>6, <1>7, <1>8 DEF Widths, ByteOrders

\* The filters lose nothing: what the stages would try without them is run, or
\* changes only bytes without effect, or is one of Straddles.
THEOREM FiltersLoseNothing ==
  ASSUME NEW b \in Seq(Byte), NEW eff, NEW t \in Wanted(b)
  PROVE  Accounted(b, eff, t)
<1>1. \/ \E n \in Widths : t \in WalkingBits(b, n)
      \/ \E n \in Widths : \E i \in 0 .. Len(b) - n : \E v \in AllValues(Word(b, i, n)) : t = Put(b, i, v)
  <2>1. t \in AllFlips(b) \/ t \in AllWords(b)
    BY DEF Wanted
  <2>2. \A u \in AllFlips(b) : \E n \in Widths : u \in WalkingBits(b, n)
    BY DEF AllFlips, Widths
  <2>3. \A u \in AllWords(b) :
          \E n \in Widths : \E i \in 0 .. Len(b) - n : \E v \in AllValues(Word(b, i, n)) :
            u = Put(b, i, v)
    BY DEF AllWords, Widths
  <2> QED
    BY <2>1, <2>2, <2>3
<1>2. CASE \E n \in Widths : t \in WalkingBits(b, n)
  BY <1>2 DEF Accounted, AllTests, Widths
<1>3. ASSUME NEW n \in Widths, NEW i \in 0 .. Len(b) - n, NEW v \in AllValues(Word(b, i, n)),
             t = Put(b, i, v)
      PROVE  Accounted(b, eff, t)
  <2>1. At(b, n, i) /\ n \in Nat /\ i \in Nat /\ i + n <= Len(b)
    <3>1. n \in Nat /\ Len(b) \in Nat
      BY DEF Widths
    <3> QED
      BY <3>1 DEF At
  <2> DEFINE w == Word(b, i, n)
  <2>2. Len(w) = n
    BY <2>1, WordFacts
  <2>3. \/ v = Invert(w)
        \/ \E j \in Addends : v = Plus(w, j)
        \/ \E j \in Addends : v = Reverse(Plus(Reverse(w), j))
        \/ v \in interesting[n]
        \/ \E x \in interesting[n] : v = Reverse(x)
    <3> HIDE DEF w
    <3>1. v \in AllValues(w)
      BY <1>3 DEF w
    <3> QED
      BY <2>2, <3>1 DEF AllValues, AllSums
  <2>4. "le" \in ByteOrders /\ "be" \in ByteOrders
    BY DEF ByteOrders
  <2>5. CASE v = Invert(w)
    BY <1>3, <2>1, <2>5, InvertTried
  <2>6. CASE \E j \in Addends : v = Plus(w, j)
    <3>1. PICK j \in Addends : v = SumOf(w, j, "le")
      BY <2>6 DEF SumOf
    <3>2. Accounted(b, eff, Put(b, i, SumOf(w, j, "le")))
      BY <2>1, <2>4, SumTried
    <3> QED
      BY <1>3, <3>1, <3>2
  <2>7. CASE \E j \in Addends : v = Reverse(Plus(Reverse(w), j))
    <3>1. PICK j \in Addends : v = SumOf(w, j, "be")
      BY <2>7 DEF SumOf
    <3>2. Accounted(b, eff, Put(b, i, SumOf(w, j, "be")))
      BY <2>1, <2>4, SumTried
    <3> QED
      BY <1>3, <3>1, <3>2
  <2>8. CASE v \in interesting[n]
    <3>1. v = Ordered(v, "le")
      BY DEF Ordered
    <3>2. ValuesTried(b, eff, n, "le")
      BY <2>4, InterestTried
    <3> QED
      BY <1>3, <2>1, <2>8, <3>1, <3>2 DEF ValuesTried
  <2>9. CASE \E x \in interesting[n] : v = Reverse(x)
    <3>1. PICK x \in interesting[n] : v = Ordered(x, "be")
      BY <2>9 DEF Ordered
    <3>2. ValuesTried(b, eff, n, "be")
      BY <2>4, InterestTried
    <3> QED
      BY <1>3, <2>1, <3>1, <3>2 DEF ValuesTried
  <2> QED
    BY <2>3, <2>5, <2>6, <2>7, <2>8, <2>9
<1> QED
  BY <1>1, <1>2, <1>3

-----------------------------------------------------------------------------
(* The stages an entry has passed when it is marked.                        *)

\* The stages up to int32 by number, and their test cases.
Number(s) ==
  CASE s = "flip1" -> 1 [] s = "flip2" -> 2 [] s = "flip4" -> 3 [] s = "flip8" -> 4
    [] s = "flip16" -> 5 [] s = "flip32" -> 6 [] s = "arith8" -> 7 [] s = "arith16" -> 8
    [] s = "arith32" -> 9 [] s = "int8" -> 10 [] s = "int16" -> 11 [] s = "int32" -> 12
    [] OTHER -> 13
TestsOf(k, b, eff) ==
  CASE k = 1 -> WalkingBits(b, 1) [] k = 2 -> WalkingBits(b, 2) [] k = 3 -> WalkingBits(b, 4)
    [] k = 4 -> ByteFlips(b)
    [] k = 5 -> FlipTests(b, 2, eff) [] k = 6 -> FlipTests(b, 4, eff)
    [] k = 7 -> ArithTests(b, 1, eff) [] k = 8 -> ArithTests(b, 2, eff)
    [] k = 9 -> ArithTests(b, 4, eff)
    [] k = 10 -> InterestTests(b, 1, eff) [] k = 11 -> InterestTests(b, 2, eff)
    [] k = 12 -> InterestTests(b, 4, eff)

\* The bits of the first p bytes have been flipped.
BitsFlipped(p) == \A m \in 0 .. 8 * p - 1 : FlipBits(in_buf, m, 1) \in tested

\* The test cases of the stages before number n have been run.
StagesRun(n) == \A k \in 1..12 : k < n => TestsOf(k, in_buf, eff_map) \subseteq tested

\* The fourth inductive invariant.
AInv ==
  sc.audited =>
    /\ stage = "flip1" => BitsFlipped(pos)
    /\ stage \in LaterStages => StagesRun(Number(stage))

\* The numbers of the stages.
LEMMA Numbers ==
  /\ Number("flip2") = 2 /\ Number("flip4") = 3 /\ Number("flip8") = 4
  /\ Number("flip16") = 5 /\ Number("flip32") = 6 /\ Number("arith8") = 7
  /\ Number("arith16") = 8 /\ Number("arith32") = 9 /\ Number("int8") = 10
  /\ Number("int16") = 11 /\ Number("int32") = 12 /\ Number("ext_UO") = 13
  /\ Number("ext_UI") = 13 /\ Number("ext_AO") = 13 /\ Number("det_done") = 13
  BY DEF Number

\* The test cases by number.
LEMMA TestsAre ==
  ASSUME NEW b, NEW eff
  PROVE  /\ TestsOf(1, b, eff) = WalkingBits(b, 1) /\ TestsOf(2, b, eff) = WalkingBits(b, 2)
         /\ TestsOf(3, b, eff) = WalkingBits(b, 4) /\ TestsOf(4, b, eff) = ByteFlips(b)
         /\ TestsOf(5, b, eff) = FlipTests(b, 2, eff) /\ TestsOf(6, b, eff) = FlipTests(b, 4, eff)
         /\ TestsOf(7, b, eff) = ArithTests(b, 1, eff) /\ TestsOf(8, b, eff) = ArithTests(b, 2, eff)
         /\ TestsOf(9, b, eff) = ArithTests(b, 4, eff)
         /\ TestsOf(10, b, eff) = InterestTests(b, 1, eff)
         /\ TestsOf(11, b, eff) = InterestTests(b, 2, eff)
         /\ TestsOf(12, b, eff) = InterestTests(b, 4, eff)
  BY DEF TestsOf

\* What a step may do to the test cases of an entry: leave the stages, go on
\* without a stage being completed, complete stage k, or walk a byte further.
OffStages == stage' \notin LaterStages \cup {"flip1"}
Within ==
  /\ sc' = sc /\ cur' = cur /\ eff_map' = eff_map /\ tested \subseteq tested'
  /\ \/ UNCHANGED <<stage, pos>>
     \/ stage \in LaterStages /\ stage' \in LaterStages /\ Number(stage') = Number(stage)
Completes(k) ==
  /\ sc' = sc /\ cur' = cur /\ (k # 4 => eff_map' = eff_map)
  /\ sc.audited => tested' = tested \cup TestsOf(k, in_buf, eff_map)
  /\ stage \in LaterStages /\ stage' \in LaterStages
  /\ Number(stage) = k /\ Number(stage') = k + 1

\* A whole stage completes the stage of its number.
LEMMA DoCompletes ==
  ASSUME NEW k \in 2..12, NEW s \in LaterStages, Number(s) = k, Number(Follows(s)) = k + 1,
         Follows(s) \in LaterStages, NEW tests, tests = TestsOf(k, in_buf, eff_map),
         Do(s, tests), k # 4 => eff_map' = eff_map
  PROVE  Completes(k)
<1>1. /\ sc' = sc /\ cur' = cur /\ stage = s /\ stage' = Follows(s)
      /\ tested' = IF sc.audited THEN tested \cup tests ELSE tested
  BY DEF Do, Run, queueVars
<1> QED
  BY <1>1 DEF Completes

\* Every step is one of these, or begins an entry.
LEMMA AuditSteps ==
  ASSUME FInv, [Next]_vars
  PROVE  OffStages \/ Within \/ (\E k \in 2..12 : Completes(k)) \/ Pick \/ Flip1
<1>1. CASE LoadAuto \/ LoadExtras \/ Start \/ Skip \/ Havoc \/ Abandon \/ Stop \/ Restart \/ mark_as_det_done
  <2>1. stage' \in {"load", "start", "pick", "stop", "exit", "havoc"}
    BY <1>1 DEF LoadAuto, LoadExtras, Start, Skip, Havoc, Abandon, Stop, Restart, mark_as_det_done
  <2> QED
    BY <2>1 DEF OffStages, LaterStages
<1>2. CASE Fault \/ StatsSave \/ SaveStep
  BY <1>2 DEF Fault, StatsSave, SaveStep, queueVars, bufVars, histVars, Within
<1>3. CASE UNCHANGED vars
  BY <1>3 DEF vars, queueVars, bufVars, histVars, Within
<1>4. CASE Flip24
  <2>1. CASE Do("flip2", WalkingBits(in_buf, 2)) /\ UNCHANGED eff_map
    <3>1. Completes(2)
      BY <2>1, DoCompletes, Numbers, TestsAre, FollowsIs DEF LaterStages
    <3> QED
      BY <3>1
  <2>2. CASE Do("flip4", WalkingBits(in_buf, 4)) /\ UNCHANGED eff_map
    <3>1. Completes(3)
      BY <2>2, DoCompletes, Numbers, TestsAre, FollowsIs DEF LaterStages
    <3> QED
      BY <3>1
  <2> QED
    BY <1>4, <2>1, <2>2 DEF Flip24
<1>5. CASE Flip8
  <2>1. Do("flip8", ByteFlips(in_buf))
    BY <1>5 DEF Flip8, ByteFlips, len
  <2>2. Completes(4)
    BY <2>1, DoCompletes, Numbers, TestsAre, FollowsIs DEF LaterStages
  <2> QED
    BY <2>2
<1>6. CASE Flip1632
  <2>1. CASE Do("flip16", FlipTests(in_buf, 2, eff_map)) /\ UNCHANGED eff_map
    <3>1. Completes(5)
      BY <2>1, DoCompletes, Numbers, TestsAre, FollowsIs DEF LaterStages
    <3> QED
      BY <3>1
  <2>2. CASE Do("flip32", FlipTests(in_buf, 4, eff_map)) /\ UNCHANGED eff_map
    <3>1. Completes(6)
      BY <2>2, DoCompletes, Numbers, TestsAre, FollowsIs DEF LaterStages
    <3> QED
      BY <3>1
  <2> QED
    BY <1>6, <2>1, <2>2 DEF Flip1632
<1>7. CASE Arith
  <2>1. CASE Do("arith8", ArithTests(in_buf, 1, eff_map)) /\ UNCHANGED eff_map
    <3>1. Completes(7)
      BY <2>1, DoCompletes, Numbers, TestsAre, FollowsIs DEF LaterStages
    <3> QED
      BY <3>1
  <2>2. CASE Do("arith16", ArithTests(in_buf, 2, eff_map)) /\ UNCHANGED eff_map
    <3>1. Completes(8)
      BY <2>2, DoCompletes, Numbers, TestsAre, FollowsIs DEF LaterStages
    <3> QED
      BY <3>1
  <2>3. CASE Do("arith32", ArithTests(in_buf, 4, eff_map)) /\ UNCHANGED eff_map
    <3>1. Completes(9)
      BY <2>3, DoCompletes, Numbers, TestsAre, FollowsIs DEF LaterStages
    <3> QED
      BY <3>1
  <2> QED
    BY <1>7, <2>1, <2>2, <2>3 DEF Arith
<1>8. CASE Interest
  <2>1. CASE Do("int8", InterestTests(in_buf, 1, eff_map)) /\ UNCHANGED eff_map
    <3>1. Completes(10)
      BY <2>1, DoCompletes, Numbers, TestsAre, FollowsIs DEF LaterStages
    <3> QED
      BY <3>1
  <2>2. CASE Do("int16", InterestTests(in_buf, 2, eff_map)) /\ UNCHANGED eff_map
    <3>1. Completes(11)
      BY <2>2, DoCompletes, Numbers, TestsAre, FollowsIs DEF LaterStages
    <3> QED
      BY <3>1
  <2>3. CASE Do("int32", InterestTests(in_buf, 4, eff_map)) /\ UNCHANGED eff_map
    <3>1. Completes(12)
      BY <2>3, DoCompletes, Numbers, TestsAre, FollowsIs DEF LaterStages
    <3> QED
      BY <3>1
  <2> QED
    BY <1>8, <2>1, <2>2, <2>3 DEF Interest
<1>9. CASE ExtrasInsert
  <2>1. /\ sc' = sc /\ cur' = cur /\ eff_map' = eff_map /\ stage = "ext_UI" /\ stage' = Follows("ext_UI")
        /\ tested \subseteq tested'
    BY <1>9 DEF ExtrasInsert, Do, Run, queueVars
  <2> QED
    BY <2>1, FollowsIs, Numbers DEF Within, LaterStages
<1>10. CASE ExtrasOver \/ AutoExtrasOver
  <2>1. \E s, toks, skips :
          s \in {"ext_UO", "ext_AO"} /\ (OverToken(s, toks, skips) \/ OverRestore(s, toks))
    BY <1>10 DEF ExtrasOver, AutoExtrasOver
  <2>2. PICK s, toks, skips :
          s \in {"ext_UO", "ext_AO"} /\ (OverToken(s, toks, skips) \/ OverRestore(s, toks))
    BY <2>1
  <2>3. /\ sc' = sc /\ cur' = cur /\ eff_map' = eff_map /\ stage = s /\ stage' \in {s, Follows(s)}
        /\ tested \subseteq tested'
    BY <2>2 DEF OverToken, OverRestore, Run, queueVars, histVars
  <2>4. s \in LaterStages /\ Follows(s) \in LaterStages /\ Number(Follows(s)) = 13 /\ Number(s) = 13
    BY <2>2, FollowsIs, Numbers DEF LaterStages
  <2> QED
    BY <2>3, <2>4 DEF Within
<1> QED
  BY <1>1, <1>2, <1>3, <1>4, <1>5, <1>6, <1>7, <1>8, <1>9, <1>10 DEF Next, DetNext

\* The walking bit, byte by byte.
LEMMA FlippedStep ==
  ASSUME FInv, Flip1, sc.audited, BitsFlipped(pos)
  PROVE  /\ sc' = sc /\ cur' = cur /\ in_buf' = in_buf
         /\ stage' = "flip1" => pos' = pos + 1
         /\ stage' # "flip1" => stage' = "flip2" /\ pos = len - 1
         /\ \A m \in 0 .. 8 * (pos + 1) - 1 : FlipBits(in_buf, m, 1) \in tested'
<1>1. /\ stage = "flip1" /\ sc' = sc /\ cur' = cur
      /\ tested' = tested \cup {FlipBits(in_buf, p, 1) : p \in 8 * pos .. 8 * pos + 7}
      /\ pos' = IF pos < len - 1 THEN pos + 1 ELSE 0
      /\ stage' = IF pos < len - 1 THEN "flip1" ELSE "flip2"
  BY DEF Flip1, Run, queueVars
<1>2. in_buf' = in_buf
  BY <1>1 DEF in_buf, Entry
<1>3. pos \in 0 .. len - 1 /\ len \in Nat \ {0}
  BY <1>1, EntryFacts DEF FInv, Place
<1>4. ASSUME NEW m \in 0 .. 8 * (pos + 1) - 1 PROVE FlipBits(in_buf, m, 1) \in tested'
  <2>1. CASE m \in 0 .. 8 * pos - 1
    BY <1>1, <2>1 DEF BitsFlipped
  <2>2. CASE m \in 8 * pos .. 8 * pos + 7
    BY <1>1, <2>2
  <2> QED
    BY <1>3, <2>1, <2>2
<1> QED
  BY <1>1, <1>2, <1>3, <1>4

\* The test cases before the effector map do not depend on it.
LEMMA EarlyTests ==
  ASSUME NEW k \in 1..4, NEW b, NEW eff, NEW eff2
  PROVE  TestsOf(k, b, eff) = TestsOf(k, b, eff2)
<1>1. k = 1 \/ k = 2 \/ k = 3 \/ k = 4
  OBVIOUS
<1> QED
  BY <1>1, TestsAre

\* No step breaks the fourth invariant.
LEMMA AuditStep == FInv /\ AInv /\ [Next]_vars => AInv'
<1> SUFFICES ASSUME FInv, AInv, [Next]_vars, sc'.audited
             PROVE  /\ stage' = "flip1" => BitsFlipped(pos)'
                    /\ stage' \in LaterStages => StagesRun(Number(stage))'
  BY DEF AInv
<1>1. CASE OffStages
  BY <1>1 DEF OffStages
<1>2. CASE Within
  <2>1. /\ sc' = sc /\ in_buf' = in_buf /\ eff_map' = eff_map /\ tested \subseteq tested' /\ sc.audited
    BY <1>2 DEF Within, in_buf, Entry
  <2>2. ASSUME stage' = "flip1" PROVE BitsFlipped(pos)'
    <3>1. stage = "flip1" /\ pos' = pos
      BY <1>2, <2>2 DEF Within, LaterStages
    <3>2. BitsFlipped(pos)
      BY <2>1, <3>1 DEF AInv
    <3> QED
      BY <2>1, <3>1, <3>2 DEF BitsFlipped
  <2>3. ASSUME stage' \in LaterStages PROVE StagesRun(Number(stage))'
    <3>1. stage \in LaterStages /\ Number(stage') = Number(stage)
      BY <1>2, <2>3 DEF Within
    <3>2. StagesRun(Number(stage))
      BY <2>1, <3>1 DEF AInv
    <3>3. \A k \in 1..12 : k < Number(stage') => TestsOf(k, in_buf', eff_map') \subseteq tested'
      BY <2>1, <3>1, <3>2 DEF StagesRun
    <3> QED
      BY <3>3 DEF StagesRun
  <2> QED
    BY <2>2, <2>3
<1>3. CASE \E k \in 2..12 : Completes(k)
  <2>1. PICK k \in 2..12 : Completes(k)
    BY <1>3
  <2>2. /\ sc' = sc /\ in_buf' = in_buf /\ (k # 4 => eff_map' = eff_map) /\ sc.audited
        /\ tested' = tested \cup TestsOf(k, in_buf, eff_map)
        /\ stage \in LaterStages /\ stage' \in LaterStages /\ Number(stage) = k /\ Number(stage') = k + 1
    BY <2>1 DEF Completes, in_buf, Entry
  <2>3. StagesRun(k)
    BY <2>2 DEF AInv
  <2>4. ASSUME NEW c \in 1..12, c < k + 1 PROVE TestsOf(c, in_buf, eff_map) \subseteq tested'
    <3>1. CASE c < k
      BY <2>2, <2>3, <3>1 DEF StagesRun
    <3>2. CASE c = k
      BY <2>2, <3>2
    <3> QED
      BY <2>4, <3>1, <3>2
  <2>5. ASSUME NEW c \in 1..12, c < k + 1 PROVE TestsOf(c, in_buf, eff_map') = TestsOf(c, in_buf, eff_map)
    <3>1. CASE k # 4
      BY <2>2, <3>1
    <3>2. CASE k = 4
      <4>1. c \in 1..4
        BY <2>5, <3>2
      <4> QED
        BY <4>1, EarlyTests
    <3> QED
      BY <3>1, <3>2
  <2>6. \A c \in 1..12 : c < Number(stage') => TestsOf(c, in_buf', eff_map') \subseteq tested'
    BY <2>2, <2>4, <2>5
  <2>7. StagesRun(Number(stage))'
    BY <2>6 DEF StagesRun
  <2> QED
    BY <2>2, <2>7 DEF LaterStages
<1>4. CASE Pick
  <2>1. stage' \in {"havoc", "flip1"} /\ pos' = 0
    BY <1>4 DEF Pick
  <2>2. BitsFlipped(pos)'
    BY <2>1 DEF BitsFlipped
  <2> QED
    BY <2>1, <2>2 DEF LaterStages
<1>5. CASE Flip1
  <2>1. stage = "flip1" /\ sc.audited
    BY <1>5 DEF Flip1, queueVars
  <2>2. BitsFlipped(pos)
    BY <2>1 DEF AInv
  <2>3. /\ in_buf' = in_buf
        /\ stage' = "flip1" => pos' = pos + 1
        /\ stage' # "flip1" => stage' = "flip2" /\ pos = len - 1
        /\ \A m \in 0 .. 8 * (pos + 1) - 1 : FlipBits(in_buf, m, 1) \in tested'
    BY <1>5, <2>1, <2>2, FlippedStep
  <2>4. CASE stage' = "flip1"
    <3>1. \A m \in 0 .. 8 * pos' - 1 : FlipBits(in_buf', m, 1) \in tested'
      BY <2>3, <2>4
    <3> QED
      BY <2>4, <3>1 DEF BitsFlipped, LaterStages
  <2>5. CASE stage' = "flip2"
    <3>1. pos = len - 1 /\ len \in Nat \ {0} /\ len = Len(in_buf)
      BY <2>1, <2>3, <2>5, EntryFacts DEF FInv, Place
    <3>2. 8 * (pos + 1) - 1 = 8 * Len(in_buf) - 1
      BY <3>1
    <3>3. \A m \in 0 .. 8 * Len(in_buf) - 1 : FlipBits(in_buf, m, 1) \in tested'
      BY <2>3, <3>2
    <3>4. WalkingBits(in_buf, 1) \subseteq tested'
      BY <3>3 DEF WalkingBits
    <3>5. \A k \in 1..12 : k < Number(stage') => k = 1
      BY <2>5, Numbers
    <3>6. TestsOf(1, in_buf', eff_map') = WalkingBits(in_buf, 1)
      BY <2>3, TestsAre
    <3>7. StagesRun(Number(stage))'
      BY <3>4, <3>5, <3>6 DEF StagesRun
    <3> QED
      BY <2>5, <3>7
  <2> QED
    BY <2>3, <2>4, <2>5
<1> QED
  BY <1>1, <1>2, <1>3, <1>4, <1>5, AuditSteps

\* When the stages are over, all their test cases have been run.
LEMMA AllRun ==
  ASSUME AInv, sc.audited, stage = "det_done"
  PROVE  AllTests(in_buf, eff_map) \subseteq tested
<1>1. StagesRun(13)
  BY Numbers DEF AInv, LaterStages
<1>2. \A k \in 1..12 : TestsOf(k, in_buf, eff_map) \subseteq tested
  BY <1>1 DEF StagesRun
<1> DEFINE T(k) == TestsOf(k, in_buf, eff_map)
<1>3. /\ T(1) \subseteq tested /\ T(2) \subseteq tested /\ T(3) \subseteq tested
      /\ T(4) \subseteq tested /\ T(5) \subseteq tested /\ T(6) \subseteq tested
      /\ T(7) \subseteq tested /\ T(8) \subseteq tested /\ T(9) \subseteq tested
      /\ T(10) \subseteq tested /\ T(11) \subseteq tested /\ T(12) \subseteq tested
  BY <1>2
<1>4. AllTests(in_buf, eff_map) =
        T(1) \cup T(2) \cup T(3) \cup T(4) \cup T(5) \cup T(6) \cup T(7) \cup T(8) \cup T(9)
        \cup T(10) \cup T(11) \cup T(12)
  BY TestsAre DEF AllTests
<1> HIDE DEF T
<1> QED
  BY <1>3, <1>4

\* An entry is marked only after the stages.
LEMMA MarkedAtTheEnd ==
  ASSUME [Next]_vars, passed_det' # passed_det
  PROVE  stage = "det_done"
<1>1. CASE DetNext
  <2>1. CASE mark_as_det_done
    BY <2>1 DEF mark_as_det_done
  <2>2. CASE Flip1
    BY <2>2 DEF Flip1, queueVars
  <2>3. CASE Flip24 \/ Flip8 \/ Flip1632 \/ Arith \/ Interest \/ ExtrasInsert
    BY <2>3 DEF Flip24, Flip8, Flip1632, Arith, Interest, ExtrasInsert, Do, queueVars
  <2>4. CASE ExtrasOver \/ AutoExtrasOver
    BY <2>4 DEF ExtrasOver, AutoExtrasOver, OverToken, OverRestore, queueVars
  <2> QED
    BY <1>1, <2>1, <2>2, <2>3, <2>4 DEF DetNext
<1>2. CASE LoadAuto \/ LoadExtras \/ Start \/ Skip \/ Pick
  BY <1>2 DEF LoadAuto, LoadExtras, Start, Skip, Pick, queueVars
<1>3. CASE Havoc \/ Fault \/ Abandon \/ StatsSave \/ SaveStep \/ Stop \/ Restart
  BY <1>3 DEF Havoc, Fault, Abandon, StatsSave, SaveStep, Stop, Restart, queueVars
<1>4. CASE UNCHANGED vars
  BY <1>4 DEF vars, queueVars
<1> QED
  BY <1>1, <1>2, <1>3, <1>4 DEF Next

\* An entry marked deterministic_done has seen every test case that the stages
\* would run without the filters could_be_bitflip(), could_be_arith() and
\* could_be_interest(), except those that change only bytes without effect, and
\* those of Straddles.
THEOREM MarkedIsComplete == Spec => DetDoneComplete
<1>1. Init => AInv
  <2> SUFFICES ASSUME Init PROVE stage \notin LaterStages \cup {"flip1"}
    BY DEF AInv
  <2> QED
    BY DEF Init, LaterStages
<1> DEFINE Complete ==
      sc.audited /\ passed_det' # passed_det =>
        \A t \in Wanted(in_buf) \ tested :
          OnlyIneffective(in_buf, t, eff_map) \/ Straddles(in_buf, t)
<1>2. FInv /\ OInv /\ AInv /\ [Next]_vars => [Complete]_vars
  <2> SUFFICES ASSUME FInv, OInv, AInv, [Next]_vars, sc.audited, passed_det' # passed_det,
                      NEW t \in Wanted(in_buf) \ tested
               PROVE  OnlyIneffective(in_buf, t, eff_map) \/ Straddles(in_buf, t)
    OBVIOUS
  <2>1. stage = "det_done"
    BY MarkedAtTheEnd
  <2>2. cur \in 1..Len(sc.queue)
    BY <2>1, StageNames DEF OInv, InFuzzOne, LaterStages
  <2>3. in_buf \in Seq(Byte)
    BY <2>2, EntryFacts
  <2>4. Accounted(in_buf, eff_map, t)
    BY <2>3, FiltersLoseNothing
  <2>5. t \notin AllTests(in_buf, eff_map)
    BY <2>1, AllRun
  <2> QED
    BY <2>4, <2>5 DEF Accounted
<1>3. Spec => [][Complete]_vars
  <2> HIDE DEF Complete
  <2> QED
    BY <1>1, <1>2, AuditStep, OverlayInvariant, FuzzOneInvariant, PTL DEF Spec
<1> QED
  BY <1>3, PTL DEF DetDoneComplete
=============================================================================
