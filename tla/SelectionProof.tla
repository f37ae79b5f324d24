--------------------------- MODULE SelectionProof ---------------------------
(***************************************************************************)
(* A Selection stays correct however its inputs and outputs are sorted and *)
(* shuffled, and shuffles are fair: random_range(n) is exactly uniform for *)
(* every number of words and every n up to that number, and accepts at     *)
(* least half of the words, since between the threshold and the last word  *)
(* there are whole runs of n words, and a run has each remainder once; and *)
(* the order a shuffle produces tells the indices it drew.                 *)
(***************************************************************************)
EXTENDS Selection, SelectorProof, FunctionTheorems

-----------------------------------------------------------------------------
(* Quotient and remainder *)

LEMMA DivMod ==
    ASSUME NEW a \in Nat, NEW n \in Nat \ {0}
    PROVE  /\ a % n \in 0 .. n - 1 /\ a \div n \in Nat
           /\ a = n * (a \div n) + (a % n)
  BY SMT

LEMMA Unique ==
    ASSUME NEW n \in Nat \ {0}, NEW q \in Int, NEW p \in Int,
           NEW r \in 0 .. n - 1, NEW s \in 0 .. n - 1, n * q + r = n * p + s
    PROVE  q = p /\ r = s
<1>1. CASE q > p
  <2>1. n * (q - p) >= n
    BY <1>1, SMT
  <2> QED
    BY <2>1, SMT
<1>2. CASE q < p
  <2>1. n * (p - q) >= n
    BY <1>2, SMT
  <2> QED
    BY <2>1, SMT
<1> QED
  BY <1>1, <1>2, SMT

LEMMA RemainderOf ==
    ASSUME NEW n \in Nat \ {0}, NEW q \in Nat, NEW x \in 0 .. n - 1
    PROVE  n * q + x \in Nat /\ (n * q + x) % n = x
<1> DEFINE a == n * q + x
<1>1. a \in Nat
  BY SMT
<1> HIDE DEF a
<1>2. a % n \in 0 .. n - 1 /\ a \div n \in Int /\ a = n * (a \div n) + (a % n)
  BY <1>1, DivMod
<1>3. n * (a \div n) + (a % n) = n * q + x /\ q \in Int
  BY <1>2 DEF a
<1>4. a % n = x
  BY <1>2, <1>3, Unique
<1> QED
  BY <1>1, <1>4 DEF a

-----------------------------------------------------------------------------
(* The accepted words *)

LEMMA WholeRuns ==
    ASSUME NEW n \in 1 .. WordSize
    PROVE  /\ Threshold(n) \in 0 .. n - 1
           /\ 2 * Threshold(n) <= WordSize
           /\ \E runs \in Nat : runs >= 1 /\ WordSize = Threshold(n) + n * runs
<1>1. n \in Nat \ {0} /\ WordSize \in Nat /\ WordSize - n \in Nat
  BY WordAssumption
<1> DEFINE q == (WordSize - n) \div n
<1>2. Threshold(n) \in 0 .. n - 1 /\ q \in Nat /\ WordSize - n = n * q + Threshold(n)
  BY <1>1, DivMod DEF Threshold
<1> HIDE DEF q
<1>3. n * q \in Nat /\ n * (q + 1) = n * q + n
  BY <1>1, <1>2
<1>4. Threshold(n) <= WordSize - n
  BY <1>1, <1>2, <1>3
<1>5. 2 * Threshold(n) <= WordSize
  BY <1>1, <1>2, <1>4
<1>6. q + 1 \in Nat /\ q + 1 >= 1 /\ WordSize = Threshold(n) + n * (q + 1)
  BY <1>1, <1>2, <1>3
<1> QED
  BY <1>2, <1>5, <1>6

(* Run q has the remainder x at one place. *)
Place(n, x, q) == IF x >= Threshold(n) THEN n * q + x ELSE n * (q + 1) + x

LEMMA PlaceIsWord ==
    ASSUME NEW n \in 1 .. WordSize, NEW x \in 0 .. n - 1, NEW runs \in Nat,
           WordSize = Threshold(n) + n * runs, NEW q \in 0 .. runs - 1
    PROVE  Place(n, x, q) \in WordsFor(n, x)
<1> DEFINE t == Threshold(n)
<1>1. n \in Nat \ {0} /\ t \in 0 .. n - 1 /\ q \in Nat /\ q + 1 <= runs /\ x \in Nat /\ x < n
  BY WholeRuns, WordAssumption
<1>2. WordSize = t + n * runs
  OBVIOUS
<1>3. WordsFor(n, x) = {word \in 0 .. WordSize - 1 : word >= t /\ word % n = x}
  BY DEF WordsFor, Accepted, Word
<1> HIDE DEF t
<1>4. n * (q + 1) <= n * runs
  BY <1>1
<1>5. n * (q + 1) = n * q + n /\ n * q \in Nat /\ n * runs \in Nat
  BY <1>1
<1>6. CASE x >= t
  <2>1. n * q + x >= t /\ n * q + x <= WordSize - 1
    BY <1>1, <1>2, <1>4, <1>5, <1>6
  <2>2. (n * q + x) % n = x
    BY <1>1, RemainderOf
  <2> QED
    BY <1>1, <1>2, <1>3, <1>5, <1>6, <2>1, <2>2 DEF Place, t
<1>7. CASE ~ (x >= t)
  <2>1. n * (q + 1) + x >= t /\ n * (q + 1) + x <= WordSize - 1
    BY <1>1, <1>2, <1>4, <1>5, <1>7
  <2>2. q + 1 \in Nat
    BY <1>1
  <2>3. (n * (q + 1) + x) % n = x
    BY <1>1, <2>2, RemainderOf
  <2> QED
    BY <1>1, <1>2, <1>3, <1>5, <1>7, <2>1, <2>3 DEF Place, t
<1> QED
  BY <1>6, <1>7

LEMMA WordHasPlace ==
    ASSUME NEW n \in 1 .. WordSize, NEW x \in 0 .. n - 1, NEW runs \in Nat,
           WordSize = Threshold(n) + n * runs, NEW word \in WordsFor(n, x)
    PROVE  \E q \in 0 .. runs - 1 : word = Place(n, x, q)
<1> DEFINE t == Threshold(n)
           a == word \div n
<1>1. /\ n \in Nat \ {0} /\ t \in 0 .. n - 1 /\ x \in Nat /\ x < n
      /\ word \in Nat /\ word <= WordSize - 1 /\ word >= t /\ word % n = x
  BY WholeRuns, WordAssumption DEF WordsFor, Accepted, Word
<1>2. WordSize = t + n * runs
  OBVIOUS
<1>3. a \in Nat /\ word = n * a + x
  BY <1>1, DivMod
<1> HIDE DEF a, t
<1>4. n * a \in Nat /\ n * runs \in Nat
  BY <1>1, <1>3
<1>5. CASE x >= t
  <2>1. n * a < n * runs
    BY <1>1, <1>2, <1>3, <1>4, <1>5
  <2>2. a < runs
    <3>1. CASE a >= runs
      <4>1. n * a >= n * runs
        BY <1>1, <1>3, <3>1
      <4> QED
        BY <1>4, <2>1, <4>1
    <3> QED
      BY <1>3, <3>1
  <2>3. a \in 0 .. runs - 1 /\ word = Place(n, x, a)
    BY <1>3, <1>5, <2>2 DEF Place, t
  <2> QED
    BY <2>3
<1>6. CASE ~ (x >= t)
  <2>1. a >= 1
    <3>1. CASE a = 0
      BY <1>1, <1>3, <1>6, <3>1
    <3> QED
      BY <1>3, <3>1
  <2>2. n * (runs + 1) = n * runs + n
    BY <1>1
  <2>3. n * a < n * (runs + 1)
    BY <1>1, <1>2, <1>3, <1>4, <2>2
  <2>4. a < runs + 1
    <3>1. CASE a >= runs + 1
      <4>1. n * a >= n * (runs + 1)
        BY <1>1, <1>3, <3>1
      <4> QED
        BY <1>4, <2>2, <2>3, <4>1
    <3> QED
      BY <1>3, <3>1
  <2>5. a - 1 \in 0 .. runs - 1 /\ (a - 1) + 1 = a
    BY <1>3, <2>1, <2>4
  <2>6. word = Place(n, x, a - 1)
    BY <1>3, <1>6, <2>5 DEF Place, t
  <2> QED
    BY <2>5, <2>6
<1> QED
  BY <1>5, <1>6

LEMMA PlacesDiffer ==
    ASSUME NEW n \in 1 .. WordSize, NEW x \in 0 .. n - 1, NEW q \in Nat, NEW p \in Nat,
           Place(n, x, q) = Place(n, x, p)
    PROVE  q = p
<1>1. n \in Nat \ {0} /\ x \in 0 .. n - 1 /\ q + 1 \in Int /\ p + 1 \in Int /\ q \in Int /\ p \in Int
  BY WordAssumption
<1>2. CASE x >= Threshold(n)
  <2>1. n * q + x = n * p + x
    BY <1>2 DEF Place
  <2> QED
    BY <1>1, <2>1, Unique
<1>3. CASE ~ (x >= Threshold(n))
  <2>1. n * (q + 1) + x = n * (p + 1) + x
    BY <1>3 DEF Place
  <2>2. q + 1 = p + 1
    BY <1>1, <2>1, Unique
  <2> QED
    BY <2>2
<1> QED
  BY <1>2, <1>3

(* Each result of random_range(n) is given by as many words as there are runs. *)
LEMMA OneWordPerRun ==
    ASSUME NEW n \in 1 .. WordSize, NEW x \in 0 .. n - 1, NEW runs \in Nat,
           WordSize = Threshold(n) + n * runs
    PROVE  Cardinality(WordsFor(n, x)) = runs
<1> DEFINE f == [q \in 0 .. runs - 1 |-> Place(n, x, q)]
           S == 0 .. runs - 1
<1>1. \A q \in S : f[q] \in WordsFor(n, x)
  BY PlaceIsWord
<1>2. \A q, p \in S : f[q] = f[p] => q = p
  <2> SUFFICES ASSUME NEW q \in S, NEW p \in S, f[q] = f[p] PROVE q = p
    OBVIOUS
  <2>1. q \in Nat /\ p \in Nat /\ Place(n, x, q) = Place(n, x, p)
    OBVIOUS
  <2> QED
    BY <2>1, PlacesDiffer
<1>3. \A word \in WordsFor(n, x) : \E q \in S : f[q] = word
  <2> SUFFICES ASSUME NEW word \in WordsFor(n, x) PROVE \E q \in S : f[q] = word
    OBVIOUS
  <2>1. PICK q \in S : word = Place(n, x, q)
    BY WordHasPlace
  <2> QED
    BY <2>1
<1>4. f \in Bijection(S, WordsFor(n, x))
  <2>1. f \in [S -> WordsFor(n, x)]
    BY <1>1
  <2> HIDE DEF f, S
  <2> QED
    BY <1>2, <1>3, <2>1, Fun_IsBij
<1>5. IsFiniteSet(S) /\ Cardinality(S) = runs
  <2>1. /\ IsFiniteSet(0 .. runs - 1)
        /\ Cardinality(0 .. runs - 1) = IF 0 > runs - 1 THEN 0 ELSE (runs - 1) - 0 + 1
    BY FS_Interval
  <2> QED
    BY <2>1
<1>6. ExistsBijection(S, WordsFor(n, x))
  BY <1>4 DEF ExistsBijection
<1> QED
  BY <1>5, <1>6, FS_Bijection

LEMMA HalfAccepted ==
    ASSUME NEW n \in 1 .. WordSize
    PROVE  2 * Cardinality(Accepted(n)) >= WordSize
<1>1. WordSize \in Nat /\ Threshold(n) \in Nat /\ 2 * Threshold(n) <= WordSize
  BY WholeRuns, WordAssumption
<1>2. Accepted(n) = Threshold(n) .. WordSize - 1
  BY <1>1 DEF Accepted, Word
<1>3. Cardinality(Accepted(n))
          = IF Threshold(n) > WordSize - 1 THEN 0 ELSE (WordSize - 1) - Threshold(n) + 1
  <2>1. Threshold(n) \in Int /\ WordSize - 1 \in Int
    BY <1>1
  <2> QED
    BY <1>2, <2>1, FS_Interval, Zenon
<1> QED
  BY <1>1, <1>3

-----------------------------------------------------------------------------
(* Undoing a shuffle *)

(* The slices h between from and to, when the indices drawn were used *)
IsHistory(h, from, drawn, to) ==
    /\ DOMAIN h = 1 .. Len(drawn) + 1
    /\ \A k \in DOMAIN h : DOMAIN h[k] = 1 .. Len(from) /\ IsInjective(h[k])
    /\ h[1] = from /\ h[Len(drawn) + 1] = to
    /\ \A k \in 1 .. Len(drawn) :
          /\ drawn[k] \in 1 .. Len(from) + 1 - k
          /\ h[k + 1] = Swapped(h[k], Len(from) + 1 - k, drawn[k])
          /\ to[Len(from) + 1 - k] = h[k][drawn[k]]

LEMMA HistoryGrows ==
    ASSUME NEW h, NEW from, NEW drawn \in Seq(Nat), NEW to, IsHistory(h, from, drawn, to),
           Len(from) \in Nat, NEW p \in Nat, p = Len(from) - Len(drawn), NEW index \in 1 .. p,
           IsInjective(Swapped(to, p, index))
    PROVE  \E g : IsHistory(g, from, Append(drawn, index), Swapped(to, p, index))
<1> DEFINE n == Len(from)
           made == Len(drawn)
           new == Append(drawn, index)
           next == Swapped(to, p, index)
           g == [k \in 1 .. made + 2 |-> IF k <= made + 1 THEN h[k] ELSE next]
<1>1. made \in Nat /\ DOMAIN drawn = 1 .. made
  BY LenProperties
<1>2. Len(new) = made + 1 /\ new[made + 1] = index /\ \A k \in 1 .. made : new[k] = drawn[k]
  <2>1. index \in Nat
    OBVIOUS
  <2> QED BY <2>1, AppendProperties
<1>3. /\ DOMAIN h = 1 .. made + 1
      /\ \A k \in DOMAIN h : DOMAIN h[k] = 1 .. n /\ IsInjective(h[k])
      /\ h[1] = from /\ h[made + 1] = to
      /\ \A k \in 1 .. made :
            /\ drawn[k] \in 1 .. n + 1 - k
            /\ h[k + 1] = Swapped(h[k], n + 1 - k, drawn[k])
            /\ to[n + 1 - k] = h[k][drawn[k]]
  BY DEF IsHistory
<1>4. DOMAIN to = 1 .. n /\ made + 1 \in DOMAIN h
  BY <1>1, <1>3
<1>5. n \in Nat /\ p = n - made /\ p \in 1 .. n /\ index \in 1 .. n /\ p \in Nat
  BY <1>1
<1>6. DOMAIN next = 1 .. n /\ next[p] = to[index] /\ \A k \in 1 .. n : k > p => next[k] = to[k]
  <2> HIDE DEF n
  <2> QED BY <1>4, <1>5 DEF Swapped
<1> HIDE DEF n, made, new, next
<1>7. /\ \A k \in 1 .. made + 1 : g[k] = h[k]
      /\ g[made + 2] = next
      /\ DOMAIN g = 1 .. (made + 1) + 1
  BY <1>1
<1> HIDE DEF g
<1>8. ASSUME NEW k \in DOMAIN g PROVE DOMAIN g[k] = 1 .. n /\ IsInjective(g[k])
  <2>1. CASE k \in 1 .. made + 1
    BY <1>3, <1>7, <2>1
  <2>2. CASE k = made + 2
    BY <1>6, <1>7, <2>2 DEF next
  <2> QED BY <1>1, <1>7, <2>1, <2>2
<1>9. g[1] = from /\ g[(made + 1) + 1] = next
  <2>1. 1 \in 1 .. made + 1 /\ (made + 1) + 1 = made + 2
    BY <1>1
  <2> QED BY <1>3, <1>7, <2>1
<1>10. ASSUME NEW k \in 1 .. made + 1
       PROVE  /\ new[k] \in 1 .. n + 1 - k
              /\ g[k + 1] = Swapped(g[k], n + 1 - k, new[k])
              /\ next[n + 1 - k] = g[k][new[k]]
  <2>1. CASE k \in 1 .. made
    <3>1. k + 1 \in 1 .. made + 1 /\ k \in 1 .. made + 1
      BY <1>1, <2>1
    <3>2. g[k + 1] = h[k + 1] /\ g[k] = h[k] /\ new[k] = drawn[k]
      BY <1>2, <1>7, <2>1, <3>1
    <3>3. n + 1 - k \in 1 .. n /\ n + 1 - k > p
      BY <1>1, <1>5, <2>1
    <3>4. next[n + 1 - k] = to[n + 1 - k]
      BY <1>6, <3>3
    <3> QED BY <1>3, <2>1, <3>2, <3>4
  <2>2. CASE k = made + 1
    <3>1. n + 1 - k = p /\ k + 1 = made + 2 /\ k \in 1 .. made + 1
      BY <1>1, <1>5, <2>2
    <3>2. g[k] = to /\ g[k + 1] = next /\ new[k] = index
      BY <1>2, <1>3, <1>7, <2>2, <3>1
    <3> QED BY <1>6, <3>1, <3>2 DEF next
  <2> QED BY <1>1, <2>1, <2>2
<1>11. IsHistory(g, from, new, next)
  BY <1>2, <1>7, <1>8, <1>9, <1>10 DEF IsHistory, n
<1> QED BY <1>11 DEF new, next

(* The order tells the indices. *)
LEMMA HistoryTells ==
    ASSUME NEW h, NEW from, NEW drawn \in Seq(Nat), NEW to, IsHistory(h, from, drawn, to),
           Len(from) \in Nat, Len(drawn) <= Len(from)
    PROVE  drawn = IndicesUsed(from, to, Len(drawn))
<1> DEFINE n == Len(from)
           made == Len(drawn)
           Index(s, k) == CHOOSE i \in DOMAIN s : s[i] = to[n + 1 - k]
           Eq(f) == f = [k \in 1 .. made |-> IF k = 1 THEN from
                                ELSE Swapped(f[k - 1], n + 2 - k, Index(f[k - 1], k - 1))]
           before == CHOOSE f : Eq(f)
<1>1. made \in Nat /\ DOMAIN drawn = 1 .. made /\ drawn = [k \in 1 .. made |-> drawn[k]] /\ n \in Nat
  BY LenProperties
<1>2. /\ DOMAIN h = 1 .. made + 1
      /\ \A k \in DOMAIN h : DOMAIN h[k] = 1 .. n /\ IsInjective(h[k])
      /\ h[1] = from
      /\ \A k \in 1 .. made :
            /\ drawn[k] \in 1 .. n + 1 - k
            /\ h[k + 1] = Swapped(h[k], n + 1 - k, drawn[k])
            /\ to[n + 1 - k] = h[k][drawn[k]]
  BY DEF IsHistory
<1> HIDE DEF n, made
<1>3. ASSUME NEW k \in 1 .. made PROVE Index(h[k], k) = drawn[k]
  <2>1. k \in DOMAIN h /\ drawn[k] \in 1 .. n
    BY <1>1, <1>2
  <2>2. drawn[k] \in DOMAIN h[k] /\ h[k][drawn[k]] = to[n + 1 - k] /\ IsInjective(h[k])
    BY <1>2, <2>1
  <2>3. \A i \in DOMAIN h[k] : h[k][i] = to[n + 1 - k] => i = drawn[k]
    BY <2>2 DEF IsInjective
  <2> QED BY <2>2, <2>3
<1>4. ASSUME NEW k \in 1 .. made, k # 1
      PROVE  k - 1 \in 1 .. made /\ h[k] = Swapped(h[k - 1], n + 2 - k, Index(h[k - 1], k - 1))
  <2>1. k - 1 \in 1 .. made /\ (k - 1) + 1 = k /\ n + 1 - (k - 1) = n + 2 - k
    BY <1>1, <1>4
  <2>2. h[k] = Swapped(h[k - 1], n + 2 - k, drawn[k - 1])
    BY <1>2, <2>1
  <2>3. Index(h[k - 1], k - 1) = drawn[k - 1]
    BY <1>3, <2>1
  <2> QED BY <2>1, <2>2, <2>3
<1> HIDE DEF Index
<1>5. \E f : Eq(f)
  <2> DEFINE f == [k \in 1 .. made |-> h[k]]
  <2>1. ASSUME NEW k \in 1 .. made
        PROVE  f[k] = IF k = 1 THEN from ELSE Swapped(f[k - 1], n + 2 - k, Index(f[k - 1], k - 1))
    <3>1. CASE k = 1
      BY <1>2, <3>1
    <3>2. CASE k # 1
      BY <1>4, <3>2
    <3> QED BY <3>1, <3>2
  <2>2. Eq(f)
    BY <2>1
  <2> QED BY <2>2
<1>6. Eq(before)
  BY <1>5
<1>7. \A k \in 1 .. made : before[k] = IF k = 1 THEN from
                                ELSE Swapped(before[k - 1], n + 2 - k, Index(before[k - 1], k - 1))
  BY <1>6
<1>8. IndicesUsed(from, to, made) = [k \in 1 .. made |-> Index(before[k], k)]
  BY DEF IndicesUsed, Index, n
<1> HIDE DEF before, Eq
<1>9. \A k \in 1 .. made : before[k] = h[k]
  <2> DEFINE Good == {k \in Nat : k + 1 \in 1 .. made => before[k + 1] = h[k + 1]}
  <2>1. 0 \in Good
    BY <1>2, <1>7
  <2>2. ASSUME NEW k \in Nat, k \in Good PROVE k + 1 \in Good
    <3> SUFFICES ASSUME (k + 1) + 1 \in 1 .. made PROVE before[(k + 1) + 1] = h[(k + 1) + 1]
      OBVIOUS
    <3> DEFINE l == (k + 1) + 1
    <3>1. l \in 1 .. made /\ l # 1 /\ l - 1 = k + 1 /\ k + 1 \in 1 .. made
      BY <1>1
    <3>2. before[l - 1] = h[l - 1]
      BY <2>2, <3>1
    <3> HIDE DEF l
    <3>3. before[l] = h[l]
      BY <1>4, <1>7, <3>1, <3>2
    <3> QED BY <3>3 DEF l
  <2>3. \A k \in Nat : k \in Good
    <3> HIDE DEF Good
    <3> QED BY <2>1, <2>2, Induction
  <2>4. ASSUME NEW k \in 1 .. made PROVE before[k] = h[k]
    <3>1. k - 1 \in Nat /\ (k - 1) + 1 = k
      BY <1>1
    <3>2. k - 1 \in Good
      BY <2>3, <3>1
    <3> QED BY <3>1, <3>2
  <2> QED BY <2>4
<1>10. [k \in 1 .. made |-> Index(before[k], k)] = [k \in 1 .. made |-> drawn[k]]
  BY <1>3, <1>9 DEF Index
<1> QED BY <1>1, <1>8, <1>10 DEF made

LEMMA SwapLists ==
    ASSUME NEW S, NEW s \in Seq(S), NEW i \in DOMAIN s, NEW j \in DOMAIN s
    PROVE  IsArranged(Swapped(s, i, j), s, DOMAIN s)
<1> DEFINE N == Len(s)
           idx == [k \in 1 .. N |-> IF k = i THEN j ELSE IF k = j THEN i ELSE k]
<1>1. DOMAIN s = 1 .. N /\ N \in Nat /\ s \in [1 .. N -> S]
  BY LenProperties
<1>2. Cardinality(DOMAIN s) = N
  <2> HIDE DEF N
  <2>1. 1 \in Int /\ N \in Int
    BY <1>1
  <2>2. Cardinality(1 .. N) = IF 1 > N THEN 0 ELSE N - 1 + 1
    BY <2>1, FS_Interval
  <2> QED BY <1>1, <2>2
<1>3. Lists(idx, DOMAIN s)
  <2>1. \A k \in 1 .. N : idx[k] \in 1 .. N /\ idx[idx[k]] = k
    BY <1>1
  <2> QED BY <1>1, <1>2, <2>1 DEF Lists
<1>4. Swapped(s, i, j) = [k \in 1 .. N |-> s[idx[k]]]
  BY <1>1 DEF Swapped
<1> QED BY <1>2, <1>3, <1>4 DEF IsArranged

-----------------------------------------------------------------------------
(* Sorting and shuffling *)

(* The selection with the inputs or the outputs in another order *)
LEMMA ReorderKeepsInv ==
    ASSUME IInv, stage = "selected", NEW what \in {"inputs", "outputs"},
           NEW t, IsArranged(t, selection[what], DOMAIN selection[what]),
           selection' = [selection EXCEPT ![what] = t],
           UNCHANGED <<candidates, stage, request, chosen, error>>
    PROVE  IInv' /\ selection'[what] = t
<1> DEFINE flat == FlattenSeq(Subsequence(GroupsOf(must, can), chosen))
<1>1. /\ IsSelection(selection)
      /\ Rearranges(selection.inputs, flat)
      /\ AreOutputs(selection.outputs, request.recipients, selection.change)
      /\ selection.change \in {0, Drain} /\ IsTargetMet
  BY DEF IInv, SelectingInv
<1>2. /\ must' = must /\ can' = can /\ cs' = cs /\ contains' = contains /\ policy' = policy /\ kept' = kept
      /\ stage' = stage /\ request' = request /\ chosen' = chosen /\ error' = error
  BY DEF candidates
<1>3. CandidatesInv'
  BY <1>2 DEF IInv, CandidatesInv, GroupsInv, CacheInv, PolicyInv
<1>4. IsTargetMet' = IsTargetMet /\ Drain' = Drain
  BY <1>2 DEF IsTargetMet, Drain, ChosenValue, ChosenWeight
<1>5. flat' = flat
  BY <1>2
<1> HIDE DEF flat
<1>6. selection = [inputs |-> selection.inputs, outputs |-> selection.outputs, change |-> selection.change]
  BY <1>1 DEF IsSelection
<1>7. /\ selection'[what] = t
      /\ IsSelection(selection')
      /\ Rearranges(selection'.inputs, flat)
      /\ AreOutputs(selection'.outputs, request.recipients, selection'.change)
      /\ selection'.change = selection.change
  <2>1. CASE what = "inputs"
    <3>1. selection' = [inputs |-> t, outputs |-> selection.outputs, change |-> selection.change]
      BY <1>6, <2>1
    <3>2. selection[what] = selection.inputs
      BY <2>1
    <3>3. selection.inputs \in Seq(InputId)
      BY <1>1 DEF Rearranges
    <3>4. t \in Seq(InputId) /\ ToSet(t) = ToSet(selection.inputs)
          /\ (Distinct(PrevOutpoint, selection.inputs) => Distinct(PrevOutpoint, t))
      BY <3>2, <3>3, ReorderedFacts
    <3>5. Rearranges(t, flat)
      BY <1>1, <3>4 DEF Rearranges
    <3> QED BY <1>1, <2>1, <3>1, <3>5 DEF IsSelection
  <2>2. CASE what = "outputs"
    <3>1. selection' = [inputs |-> selection.inputs, outputs |-> t, change |-> selection.change]
      BY <1>6, <2>2
    <3>2. selection[what] = selection.outputs
      BY <2>2
    <3>3. selection.outputs \in Seq(Nat)
      BY <1>1 DEF AreOutputs
    <3>4. t \in Seq(Nat) /\ ToSet(t) = ToSet(selection.outputs)
          /\ (IsInjective(selection.outputs) => IsInjective(t))
      BY <3>2, <3>3, ReorderedFacts
    <3>5. AreOutputs(t, request.recipients, selection.change)
      BY <1>1, <3>4 DEF AreOutputs
    <3> QED BY <1>1, <2>2, <3>1, <3>5 DEF IsSelection
  <2> QED BY <2>1, <2>2
<1>8. /\ IsSelection(selection)'
      /\ Rearranges(selection.inputs, FlattenSeq(Subsequence(GroupsOf(must, can), chosen)))'
      /\ AreOutputs(selection.outputs, request.recipients, selection.change)'
      /\ (selection.change \in {0, Drain})'
  BY <1>1, <1>2, <1>4, <1>5, <1>7 DEF IsSelection, Rearranges, AreOutputs, flat
<1>9. SelectingInv'
  BY <1>1, <1>2, <1>4, <1>8 DEF IInv, SelectingInv
<1> QED BY <1>3, <1>7, <1>9 DEF IInv

(* What is shuffled has no element twice, and fewer than there are words. *)
LEMMA SliceFacts ==
    ASSUME IInv, request \in Requests, stage = "selected", NEW what \in {"inputs", "outputs"}
    PROVE  LET s == selection[what]
           IN  /\ \E S : s \in Seq(S)
               /\ DOMAIN s = 1 .. Len(s) /\ Len(s) \in 0 .. WordSize
               /\ IsInjective(s)
<1>1. /\ Rearranges(selection.inputs, FlattenSeq(Subsequence(GroupsOf(must, can), chosen)))
      /\ AreOutputs(selection.outputs, request.recipients, selection.change)
      /\ request.recipients \in Nat
  BY DEF IInv, SelectingInv, SelectorParams
<1>2. ASSUME NEW T, NEW s \in Seq(T), IsInjective(s), NEW U, ToSet(s) \subseteq U,
             IsFiniteSet(U), Cardinality(U) <= WordSize
      PROVE  DOMAIN s = 1 .. Len(s) /\ Len(s) \in 0 .. WordSize
  <2>1. DOMAIN s = 1 .. Len(s) /\ Len(s) \in Nat /\ s \in [1 .. Len(s) -> T]
    BY LenProperties
  <2> DEFINE L == Len(s)
  <2>2. IsFiniteSet(1 .. L) /\ Cardinality(1 .. L) = L
    <3>1. 1 \in Int /\ L \in Int
      BY <2>1
    <3> HIDE DEF L
    <3>2. IsFiniteSet(1 .. L) /\ Cardinality(1 .. L) = IF 1 > L THEN 0 ELSE L - 1 + 1
      BY <3>1, FS_Interval
    <3> QED BY <2>1, <3>1, <3>2 DEF L
  <2>3. s \in Injection(1 .. L, U)
    <3>1. \A k \in 1 .. L : s[k] \in U
      BY <1>2, <2>1 DEF ToSet
    <3> QED BY <1>2, <2>1, <3>1 DEF Injection
  <2>4. Cardinality(1 .. L) <= Cardinality(U)
    <3> HIDE DEF L
    <3> QED BY <1>2, <2>3, FS_Injection
  <2>5. Cardinality(U) \in Nat /\ WordSize \in Nat
    BY <1>2, WordAssumption, FS_CardinalityType
  <2> QED BY <1>2, <2>1, <2>2, <2>4, <2>5
<1>3. CASE what = "inputs"
  <2> DEFINE s == selection.inputs
  <2>1. s \in Seq(InputId) /\ Distinct(PrevOutpoint, s)
    BY <1>1 DEF Rearranges
  <2>2. IsInjective(s)
    BY <2>1 DEF Distinct, IsInjective
  <2>3. ToSet(s) \subseteq InputId
    <3>1. DOMAIN s = 1 .. Len(s) /\ s \in [1 .. Len(s) -> InputId]
      BY <2>1, LenProperties
    <3> QED BY <3>1 DEF ToSet
  <2> HIDE DEF s
  <2>4. DOMAIN s = 1 .. Len(s) /\ Len(s) \in 0 .. WordSize
    BY <1>2, <2>1, <2>2, <2>3, SelectionAssumption
  <2> QED BY <1>3, <2>1, <2>2, <2>4 DEF s
<1>4. CASE what = "outputs"
  <2> DEFINE s == selection.outputs
             n == request.recipients
  <2>1. s \in Seq(Nat) /\ IsInjective(s) /\ ToSet(s) \subseteq 0 .. n
    <3>1. n \in Nat
      BY <1>1
    <3> QED BY <1>1, <3>1 DEF AreOutputs
  <2>2. n \in Nat /\ n < WordSize
    BY <1>1, SelectionAssumption
  <2> HIDE DEF s, n
  <2>3. IsFiniteSet(0 .. n) /\ Cardinality(0 .. n) = n + 1
    <3>1. IsFiniteSet(0 .. n) /\ Cardinality(0 .. n) = IF 0 > n THEN 0 ELSE n - 0 + 1
      BY <2>2, FS_Interval
    <3> QED BY <2>2, <3>1
  <2>4. n + 1 <= WordSize
    BY <2>2, WordAssumption
  <2>5. DOMAIN s = 1 .. Len(s) /\ Len(s) \in 0 .. WordSize
    BY <1>2, <2>1, <2>3, <2>4
  <2> QED BY <1>4, <2>1, <2>5 DEF s
<1> QED BY <1>3, <1>4

-----------------------------------------------------------------------------
(* The invariant of a Selection *)

Undoable == \E h : IsHistory(h, original, indices, selection[slice])

(* A shuffle in progress has a history that leads to where it is. *)
ShuffleInv ==
    /\ slice \in {"none", "inputs", "outputs"}
    /\ position \in 0 .. WordSize
    /\ slice = "none" => position = 0
    /\ slice # "none" =>
          /\ stage = "selected"
          /\ Len(original) \in Nat /\ position \in 0 .. Len(original)
          /\ indices \in Seq(Nat) /\ Len(indices) = Len(original) - position
          /\ Undoable

SelectionInv == IInv /\ ShuffleInv /\ request \in Requests

LEMMA SortInv ==
    ASSUME SelectionInv, SortInputs \/ SortOutputs
    PROVE  SelectionInv'
<1>1. stage = "selected" /\ IInv
  BY DEF SelectionInv, SortInputs, SortOutputs, SortBy
<1>2. UNCHANGED <<candidates, stage, request, chosen, error>> /\ Begin("none", <<>>)
  BY DEF SortInputs, SortOutputs, SortBy
<1>3. /\ Rearranges(selection.inputs, FlattenSeq(Subsequence(GroupsOf(must, can), chosen)))
      /\ AreOutputs(selection.outputs, request.recipients, selection.change)
      /\ request.recipients \in Nat
  BY <1>1 DEF IInv, SelectingInv, SelectorParams
<1>4. IInv'
  <2>1. CASE SortInputs
    <3> DEFINE t == SortedBy(selection.inputs, PrevOutpoint)
    <3>1. selection' = [selection EXCEPT !["inputs"] = t]
      BY <2>1 DEF SortInputs, SortBy
    <3>2. IsArranged(t, selection["inputs"], DOMAIN selection["inputs"])
      BY <1>3, SelectionAssumption, SortLists DEF Rearranges
    <3> HIDE DEF t
    <3> QED BY <1>1, <1>2, <3>1, <3>2, ReorderKeepsInv
  <2>2. CASE SortOutputs
    <3> DEFINE key == [o \in 0 .. request.recipients |-> o]
               t == SortedBy(selection.outputs, key)
    <3>1. selection' = [selection EXCEPT !["outputs"] = t]
      BY <2>2 DEF SortOutputs, SortBy
    <3>2. IsArranged(t, selection["outputs"], DOMAIN selection["outputs"])
      <4> DEFINE n == request.recipients
                 T == 0 .. n
                 s == selection.outputs
      <4>1. n \in Nat
        BY <1>3
      <4>2. s \in Seq(Nat) /\ ToSet(s) \subseteq T
        BY <1>3, <4>1 DEF AreOutputs
      <4>3. s \in Seq(T)
        <5> HIDE DEF T, s
        <5>1. DOMAIN s = 1 .. Len(s) /\ Len(s) \in Nat /\ s \in [1 .. Len(s) -> Nat]
          BY <4>2, LenProperties
        <5>2. s \in [1 .. Len(s) -> T]
          BY <4>2, <5>1 DEF ToSet
        <5> QED BY <5>1, <5>2
      <4>4. \A x \in T : key[x] \in Int
        BY <4>1
      <4> HIDE DEF T, key, s
      <4>5. IsArranged(SortedBy(s, key), s, DOMAIN s)
        BY <4>3, <4>4, SortLists
      <4> QED BY <4>5 DEF s, t
    <3> HIDE DEF t
    <3> QED BY <1>1, <1>2, <3>1, <3>2, ReorderKeepsInv
  <2> QED BY <2>1, <2>2
<1>5. ShuffleInv'
  <2>1. slice' = "none" /\ position' = 0
    BY <1>2 DEF Begin
  <2>2. 0 \in 0 .. WordSize
    BY WordAssumption
  <2> QED BY <2>1, <2>2 DEF ShuffleInv
<1> QED BY <1>2, <1>4, <1>5 DEF SelectionInv

LEMMA ShuffleBegins ==
    ASSUME SelectionInv, NEW what \in {"inputs", "outputs"}, Shuffle(what)
    PROVE  SelectionInv'
<1>1. stage = "selected" /\ IInv /\ request \in Requests /\ UNCHANGED vars
  BY DEF SelectionInv, Shuffle
<1>2. IInv'
  BY <1>1, NextInv
<1> DEFINE s == selection[what]
<1>3. DOMAIN s = 1 .. Len(s) /\ Len(s) \in 0 .. WordSize /\ IsInjective(s)
  BY <1>1, SliceFacts
<1>4. slice' = what /\ original' = s /\ indices' = <<>> /\ position' = Len(s) /\ selection' = selection /\ stage' = stage
  BY DEF Shuffle, Begin, vars, selecting
<1> HIDE DEF s
<1>5. Undoable'
  <2> DEFINE h == [k \in 1 .. 1 |-> s]
  <2>1. IsHistory(h, s, <<>>, s)
    BY <1>3 DEF IsHistory
  <2>2. selection'[slice'] = s
    BY <1>4 DEF s
  <2>3. IsHistory(h, original', indices', selection'[slice'])
    BY <1>4, <2>1, <2>2
  <2> QED BY <2>3 DEF Undoable, IsHistory
<1>6. ShuffleInv'
  <2>1. Len(s) \in Nat /\ position' \in 0 .. Len(original') /\ position' \in 0 .. WordSize
    BY <1>3, <1>4
  <2>2. indices' \in Seq(Nat) /\ Len(indices') = Len(original') - position'
    BY <1>3, <1>4
  <2> QED BY <1>1, <1>4, <1>5, <2>1, <2>2 DEF ShuffleInv
<1> QED BY <1>1, <1>2, <1>6 DEF SelectionInv, vars, selecting

LEMMA ShuffleGoesOn ==
    ASSUME SelectionInv, NEW word \in Word, ShuffleStep(word)
    PROVE  SelectionInv'
<1> DEFINE s == selection[slice]
           index == 1 + (word % position)
           next == Swapped(s, position, index)
<1>1. IInv /\ ShuffleInv /\ request \in Requests /\ position > 1
  <2>1. IInv /\ ShuffleInv /\ request \in Requests /\ ~Idle
    BY DEF SelectionInv, ShuffleStep
  <2>2. position \in Nat
    BY <2>1, WordAssumption DEF ShuffleInv
  <2> QED BY <2>1, <2>2 DEF Idle
<1>2. /\ slice \in {"inputs", "outputs"} /\ stage = "selected"
      /\ position \in 1 .. Len(original) /\ Len(original) \in Nat /\ position \in Nat /\ position <= WordSize
      /\ indices \in Seq(Nat) /\ Len(indices) = Len(original) - position /\ Undoable
  BY <1>1, WordAssumption DEF ShuffleInv
<1>3. index \in 1 .. position
  <2>1. word \in Nat
    BY WordAssumption DEF Word
  <2> QED BY <1>2, <2>1
<1>4. /\ selection' = [selection EXCEPT ![slice] = next]
      /\ indices' = Append(indices, index)
      /\ position' = position - 1
      /\ UNCHANGED <<candidates, stage, request, chosen, error, slice, original>>
  BY DEF ShuffleStep, Fix, Bound
<1>5. PICK h : IsHistory(h, original, indices, s)
  BY <1>2 DEF Undoable
<1>6. PICK S : s \in Seq(S)
  BY <1>1, <1>2, SliceFacts
<1>7. DOMAIN s = 1 .. Len(s) /\ IsInjective(s)
  BY <1>1, <1>2, SliceFacts
<1>8. Len(s) = Len(original) /\ Len(s) \in Nat
  <2>1. Len(indices) \in Nat
    BY <1>2
  <2>2. DOMAIN s = 1 .. Len(original)
    <3>1. Len(indices) + 1 \in DOMAIN h /\ h[Len(indices) + 1] = s
      BY <1>5, <2>1 DEF IsHistory
    <3> QED BY <1>5, <3>1 DEF IsHistory
  <2>3. DOMAIN s = 1 .. Len(s) /\ Len(s) \in Nat
    BY <1>6, LenProperties
  <2> HIDE DEF s
  <2> QED BY <1>2, <2>2, <2>3
<1> HIDE DEF s, index
<1>9. IsArranged(next, s, DOMAIN s)
  <2>1. position \in DOMAIN s /\ index \in DOMAIN s
    BY <1>2, <1>3, <1>7, <1>8
  <2> QED BY <1>6, <2>1, SwapLists
<1>10. IsInjective(next)
  BY <1>6, <1>7, <1>9, ReorderedFacts
<1> HIDE DEF next
<1>11. IInv' /\ selection'[slice] = next
  BY <1>1, <1>2, <1>4, <1>9, ReorderKeepsInv DEF s
<1>12. Undoable'
  <2>1. Len(original) \in Nat /\ position \in Nat /\ position = Len(original) - Len(indices)
    BY <1>2
  <2>2. IsInjective(Swapped(s, position, index))
    BY <1>10 DEF next
  <2>3. \E g : IsHistory(g, original, Append(indices, index), Swapped(s, position, index))
    BY <1>2, <1>3, <1>5, <2>1, <2>2, HistoryGrows
  <2>4. PICK g : IsHistory(g, original, Append(indices, index), next)
    BY <2>3 DEF next
  <2>5. selection'[slice'] = next
    BY <1>4, <1>11
  <2>6. IsHistory(g, original', indices', selection'[slice'])
    BY <1>4, <2>4, <2>5
  <2> QED BY <2>6 DEF Undoable, IsHistory
<1>13. ShuffleInv'
  <2>1. position' \in 0 .. WordSize /\ position' \in 0 .. Len(original')
    BY <1>2, <1>4, WordAssumption
  <2>2. indices' \in Seq(Nat) /\ Len(indices') = Len(original') - position'
    <3>1. index \in Nat
      BY <1>2, <1>3
    <3>2. Append(indices, index) \in Seq(Nat) /\ Len(Append(indices, index)) = Len(indices) + 1
      BY <1>2, <3>1, AppendProperties
    <3> QED BY <1>2, <1>4, <3>2
  <2> QED BY <1>2, <1>4, <1>12, <2>1, <2>2 DEF ShuffleInv
<1> QED BY <1>1, <1>4, <1>11, <1>13 DEF SelectionInv

LEMMA SelectionNextInv == SelectionInv /\ [SelectionNext]_selectionVars => SelectionInv'
<1> SUFFICES ASSUME SelectionInv, [SelectionNext]_selectionVars PROVE SelectionInv'
  OBVIOUS
<1>1. ASSUME [Next]_vars, UNCHANGED shuffling, slice # "none" => UNCHANGED selecting PROVE SelectionInv'
  <2>1. IInv'
    BY <1>1, NextInv DEF SelectionInv
  <2>2. ShuffleInv'
    BY <1>1 DEF SelectionInv, ShuffleInv, shuffling, selecting, Undoable, IsHistory
  <2>3. request' = request
    BY <1>1 DEF Next, NewSelector, Select, TryFinalize, vars, selecting
  <2> QED BY <2>1, <2>2, <2>3 DEF SelectionInv
<1>2. CASE Next /\ UNCHANGED shuffling
  <2>1. slice # "none" => stage = "selected"
    BY DEF SelectionInv, ShuffleInv
  <2>2. stage # "selected"
    BY <1>2 DEF Next, NewSelector, Select, TryFinalize
  <2> QED BY <1>1, <1>2, <2>1, <2>2
<1>3. CASE UNCHANGED selectionVars
  BY <1>1, <1>3 DEF selectionVars, vars
<1>4. CASE SortInputs \/ SortOutputs
  BY <1>4, SortInv
<1>5. CASE \E what \in {"inputs", "outputs"} : Shuffle(what)
  BY <1>5, ShuffleBegins
<1>6. CASE \E word \in Word : ShuffleStep(word)
  BY <1>6, ShuffleGoesOn
<1> QED BY <1>2, <1>3, <1>4, <1>5, <1>6 DEF SelectionNext

(* What the selector made stays right, and a shuffle has the draws its     *)
(* order tells, whatever the caller sorts and shuffles in whatever order.  *)
THEOREM SelectionInvariance == SelectionSpec => []SelectionInv
<1>1. SelectionInit => SelectionInv
  <2> SUFFICES ASSUME SelectionInit PROVE SelectionInv
    OBVIOUS
  <2>1. IInv
    BY InitInv DEF SelectionInit
  <2>2. slice = "none" /\ position = 0 /\ 0 \in 0 .. WordSize
    BY WordAssumption DEF SelectionInit
  <2>3. request \in Requests
    BY DEF SelectionInit, Init
  <2> QED BY <2>1, <2>2, <2>3 DEF SelectionInv, ShuffleInv
<1> QED BY <1>1, SelectionNextInv, PTL DEF SelectionSpec

(* Sorting and shuffling keep what try_finalize established: whatever a    *)
(* caller does to a Selection, it respects the groups, pays its fee and    *)
(* has the recipients and the change once each (Selection).                *)
THEOREM ReorderingKeepsSelections ==
    SelectionSpec => [](SelectionRespectsGroups /\ SelectionPaysItsFee /\ CachesAgree /\ TypeOK)
<1>1. SelectionInv => SelectionRespectsGroups /\ SelectionPaysItsFee /\ CachesAgree /\ TypeOK
  BY InvRespectsGroups, InvPaysFee, InvCachesAgree, InvTypeOK DEF SelectionInv
<1> QED BY <1>1, SelectionInvariance, PTL

(* No input is lost by regrouping, before and after the selection is       *)
(* reordered (InputCandidates::regroup, filter).                           *)
THEOREM ReorderingLosesNothing == SelectionSpec => NothingLostByRegroup
<1>1. SelectionInv /\ SelectionInv' /\ [SelectionNext]_selectionVars => [KeepsInputs]_candidates
  <2> SUFFICES ASSUME SelectionInv, SelectionInv', [SelectionNext]_selectionVars
               PROVE  [KeepsInputs]_candidates
    OBVIOUS
  <2>1. IInv /\ IInv'
    BY DEF SelectionInv
  <2>2. CASE [Next]_vars
    BY <2>1, <2>2, StepKeepsInputs
  <2>3. CASE UNCHANGED candidates
    BY <2>3
  <2>4. [Next]_vars \/ UNCHANGED candidates
    BY DEF SelectionNext, selectionVars, SortInputs, SortOutputs, SortBy, Shuffle, ShuffleStep, vars
  <2> QED BY <2>2, <2>3, <2>4
<1> QED BY <1>1, NothingLostMeans, SelectionInvariance, PTL DEF SelectionSpec

(* The order a shuffle produces tells the indices that were drawn, so no   *)
(* two ways through the shuffle give one order (fisher_yates_shuffle).     *)
THEOREM OrderAlwaysTellsDraws == SelectionSpec => []OrderTellsDraws
<1>1. ASSUME SelectionInv PROVE OrderTellsDraws
  <2> SUFFICES ASSUME slice # "none"
               PROVE  indices = IndicesUsed(original, selection[slice], Len(indices))
    BY DEF OrderTellsDraws
  <2>1. /\ Len(original) \in Nat /\ position \in 0 .. Len(original)
        /\ indices \in Seq(Nat) /\ Len(indices) = Len(original) - position /\ Undoable
    BY <1>1 DEF SelectionInv, ShuffleInv
  <2>2. PICK h : IsHistory(h, original, indices, selection[slice])
    BY <2>1 DEF Undoable
  <2>3. Len(indices) <= Len(original)
    BY <2>1
  <2> QED BY <2>1, <2>2, <2>3, HistoryTells
<1> QED BY <1>1, SelectionInvariance, PTL

(* Every draw of a shuffle is exactly uniform and the loop of random_range *)
(* ends, for words of any width (random_range, fisher_yates_shuffle).      *)
THEOREM ShufflesAreUniform == SelectionSpec => []DrawsAreUniform
<1>1. ASSUME SelectionInv PROVE DrawsAreUniform
  <2> SUFFICES ASSUME position > 1
               PROVE  LET chances == {Cardinality(WordsFor(position, x)) : x \in 0 .. position - 1}
                      IN  Cardinality(chances) = 1 /\ 2 * Cardinality(Accepted(position)) >= WordSize
    BY DEF DrawsAreUniform
  <2> DEFINE chances == {Cardinality(WordsFor(position, x)) : x \in 0 .. position - 1}
  <2>1. position \in 1 .. WordSize
    <3>1. position \in 0 .. WordSize /\ WordSize \in Nat
      BY <1>1, WordAssumption DEF SelectionInv, ShuffleInv
    <3> QED BY <3>1
  <2>2. PICK runs \in Nat : WordSize = Threshold(position) + position * runs
    BY <2>1, WholeRuns
  <2>3. \A x \in 0 .. position - 1 : Cardinality(WordsFor(position, x)) = runs
    BY <2>1, <2>2, OneWordPerRun
  <2>4. 0 \in 0 .. position - 1
    BY <2>1, WordAssumption
  <2>5. chances = {runs}
    BY <2>3, <2>4
  <2>6. Cardinality(chances) = 1
    BY <2>5, FS_Singleton, Zenon
  <2> QED BY <2>1, <2>6, HalfAccepted
<1> QED BY <1>1, SelectionInvariance, PTL
=============================================================================
