------------------------------ MODULE DataFacts ------------------------------
(***************************************************************************)
(* What the folds of the community modules compute, for every sequence and *)
(* every finite set. A fold is a CHOOSE of a recursive function: here such *)
(* functions are shown to exist, by induction over sets of naturals. Steps *)
(* are functions, which lemmas can be applied to, in place of operators.   *)
(***************************************************************************)
EXTENDS Arrangement, SequencesExt, FiniteSetTheorems, SequenceTheorems, WellFoundedInduction, TLAPS

-----------------------------------------------------------------------------
(* Induction and recursion over the naturals *)

Less == {p \in Nat \X Nat : p[1] < p[2]}

LEMMA LessIsWellFounded == IsWellFoundedOn(Less, Nat)
<1>1. OpToRel(<, Nat) = Less
  BY Zenon DEF OpToRel, Less
<1> QED
  BY <1>1, NatLessThanWellFounded, Zenon

LEMMA LeastNatural ==
    ASSUME NEW T, T \subseteq Nat, T # {}
    PROVE  \E x \in T : \A y \in T : x <= y
<1>1. PICK x \in T : \A y \in T : ~ (<<y, x>> \in Less)
  BY LessIsWellFounded, WFMin
<1>2. \A y \in T : ~ (y < x)
  BY <1>1 DEF Less
<1> QED
  BY <1>2

(* Induction, with a set in place of a predicate. *)
LEMMA Induction ==
    ASSUME NEW T, 0 \in T, \A n \in Nat : n \in T => n + 1 \in T
    PROVE  \A n \in Nat : n \in T
<1> SUFFICES ASSUME NEW k \in Nat, k \notin T
             PROVE  FALSE
  OBVIOUS
<1>1. PICK n \in Nat \ T : \A m \in Nat \ T : n <= m
  BY LeastNatural
<1>2. n # 0 /\ n - 1 \in Nat /\ n - 1 \in T
  BY <1>1
<1> QED
  BY <1>1, <1>2

IsRun(run, A, base, step) ==
    /\ run \in [Nat -> A]
    /\ run[0] = base
    /\ \A n \in Nat : run[n + 1] = step[n][run[n]]

(* A sequence of values exists in which each is made from the one before. *)
LEMMA Recursion ==
    ASSUME NEW A, NEW base \in A, NEW step \in [Nat -> [A -> A]]
    PROVE  \E run : IsRun(run, A, base, step)
<1> DEFINE Run(n) == {r \in [0 .. n -> A] : r[0] = base /\ \A k \in 0 .. n - 1 : r[k + 1] = step[k][r[k]]}
           Good == {n \in Nat : Run(n) # {}}
<1>1. 0 \in Good
  <2>1. [k \in 0 .. 0 |-> base] \in Run(0)
    OBVIOUS
  <2> QED BY <2>1
<1>2. ASSUME NEW n \in Nat, n \in Good PROVE n + 1 \in Good
  <2>1. PICK r \in Run(n) : TRUE
    BY <1>2
  <2> DEFINE q == [k \in 0 .. n + 1 |-> IF k = n + 1 THEN step[n][r[n]] ELSE r[k]]
  <2>2. r \in [0 .. n -> A] /\ r[0] = base /\ \A k \in 0 .. n - 1 : r[k + 1] = step[k][r[k]]
    OBVIOUS
  <2>a. n \in 0 .. n /\ \A k \in 0 .. n : r[k] \in A
    BY <2>2
  <2>b. step[n][r[n]] \in A
    BY <2>a
  <2>3. q \in [0 .. n + 1 -> A]
    <3>1. \A k \in 0 .. n + 1 : k # n + 1 => k \in 0 .. n
      OBVIOUS
    <3>2. \A k \in 0 .. n + 1 : (IF k = n + 1 THEN step[n][r[n]] ELSE r[k]) \in A
      BY <3>1, <2>a, <2>b
    <3> QED BY <3>2
  <2>4. q[0] = base
    BY <2>1
  <2>5. \A k \in 0 .. n : q[k + 1] = step[k][q[k]]
    BY <2>1
  <2>6. q \in Run(n + 1)
    BY <2>3, <2>4, <2>5
  <2> QED
    <3> HIDE DEF Run
    <3> QED BY <2>6
<1>3. \A n \in Nat : Run(n) # {}
  <2> HIDE DEF Run
  <2>1. \A n \in Nat : n \in Good
    BY <1>1, <1>2, Induction
  <2> QED BY <2>1
<1>4. ASSUME NEW n \in Nat, NEW m \in Nat, n <= m, NEW r \in Run(n), NEW q \in Run(m)
      PROVE  \A k \in Nat : k <= n => r[k] = q[k]
  <2> DEFINE Same == {k \in Nat : k <= n => r[k] = q[k]}
  <2>1. 0 \in Same
    BY <1>4
  <2>2. ASSUME NEW k \in Nat, k \in Same PROVE k + 1 \in Same
    <3> SUFFICES ASSUME k + 1 <= n PROVE r[k + 1] = q[k + 1]
      OBVIOUS
    <3>1. r[k] = q[k] /\ k \in 0 .. n - 1 /\ k \in 0 .. m - 1
      BY <2>2, <1>4
    <3> QED BY <3>1
  <2>3. \A k \in Nat : k \in Same
    <3> HIDE DEF Same
    <3> QED BY <2>1, <2>2, Induction
  <2> QED BY <2>3
<1> DEFINE The(n) == CHOOSE r : r \in Run(n)
           run == [n \in Nat |-> The(n)[n]]
<1>5. \A n \in Nat : The(n) \in Run(n)
  <2> HIDE DEF Run
  <2> SUFFICES ASSUME NEW n \in Nat PROVE \E r : r \in Run(n)
    BY Zenon
  <2> QED BY <1>3
<1> HIDE DEF The
<1>6. run \in [Nat -> A]
  <2>1. ASSUME NEW n \in Nat PROVE The(n)[n] \in A
    <3>1. The(n) \in [0 .. n -> A]
      BY <1>5
    <3> QED BY <3>1
  <2> QED BY <2>1
<1>7. run[0] = base
  BY <1>5
<1>8. ASSUME NEW n \in Nat PROVE run[n + 1] = step[n][run[n]]
  <2>1. The(n) \in Run(n) /\ The(n + 1) \in Run(n + 1)
    BY <1>5
  <2>2. The(n)[n] = The(n + 1)[n]
    <3> HIDE DEF Run
    <3> QED BY <1>4, <2>1
  <2>3. The(n + 1)[n + 1] = step[n][The(n + 1)[n]]
    BY <2>1, n \in 0 .. (n + 1) - 1
  <2> QED BY <2>2, <2>3
<1> HIDE DEF run
<1> QED BY <1>6, <1>7, <1>8 DEF IsRun

-----------------------------------------------------------------------------
(* Induction and recursion over finite sets *)

LEMMA FiniteInduction ==
    ASSUME NEW S, IsFiniteSet(S), NEW Good, {} \in Good,
           \A T \in SUBSET S : \A x \in S \ T : T \in Good => T \cup {x} \in Good
    PROVE  S \in Good
<1> DEFINE Reached == {n \in Nat : \A T \in SUBSET S : Cardinality(T) = n => T \in Good}
<1>1. \A T \in SUBSET S : IsFiniteSet(T) /\ Cardinality(T) \in Nat
  BY FS_Subset, FS_CardinalityType
<1>2. 0 \in Reached
  BY <1>1, FS_EmptySet
<1>3. ASSUME NEW n \in Nat, n \in Reached PROVE n + 1 \in Reached
  <2> SUFFICES ASSUME NEW T \in SUBSET S, Cardinality(T) = n + 1 PROVE T \in Good
    OBVIOUS
  <2>1. PICK x \in T : TRUE
    BY FS_EmptySet
  <2>2. Cardinality(T \ {x}) = n
    <3>1. IsFiniteSet(T)
      BY <1>1
    <3>2. Cardinality(T \ {x}) = Cardinality(T) - 1
      BY <2>1, <3>1, FS_RemoveElement
    <3> QED BY <3>2
  <2>3. T \ {x} \in Good /\ (T \ {x}) \cup {x} = T
    BY <1>3, <2>1, <2>2
  <2> QED BY <2>1, <2>3
<1>4. \A n \in Nat : n \in Reached
  <2> HIDE DEF Reached
  <2> QED BY <1>2, <1>3, Induction
<1> QED
  BY <1>1, <1>4

IsFold(iter, S, A, base, step, pick) ==
    /\ iter \in [SUBSET S -> A]
    /\ iter = [T \in SUBSET S |-> IF T = {} THEN base ELSE step[pick[T]][iter[T \ {pick[T]}]]]

(* The function behind a fold exists: pick says which element comes first. *)
LEMMA FoldExists ==
    ASSUME NEW S, IsFiniteSet(S), NEW A, NEW base \in A, NEW step \in [S -> [A -> A]],
           NEW pick, \A T \in SUBSET S : T # {} => pick[T] \in T
    PROVE  \E iter : IsFold(iter, S, A, base, step, pick)
<1> DEFINE F == [SUBSET S -> A]
           Next(h) == [T \in SUBSET S |-> IF T = {} THEN base ELSE step[pick[T]][h[T \ {pick[T]}]]]
           next == [k \in Nat |-> [h \in F |-> Next(h)]]
           first == [T \in SUBSET S |-> base]
<1>1. \A h \in F : Next(h) \in F
  <2> SUFFICES ASSUME NEW h \in F, NEW T \in SUBSET S, T # {}
               PROVE  step[pick[T]][h[T \ {pick[T]}]] \in A
    OBVIOUS
  <2>1. pick[T] \in S /\ T \ {pick[T]} \in SUBSET S
    OBVIOUS
  <2> QED BY <2>1
<1>2. first \in F /\ next \in [Nat -> [F -> F]]
  BY <1>1
<1>b. PICK run : IsRun(run, F, first, next)
  <2> HIDE DEF next, F, first
  <2> QED BY <1>2, Recursion
<1>3. run \in [Nat -> F] /\ run[0] = first /\ \A n \in Nat : run[n + 1] = next[n][run[n]]
  <2> HIDE DEF next, F, first
  <2> QED BY <1>b DEF IsRun
<1>4. \A n \in Nat : run[n + 1] = Next(run[n])
  <2>1. ASSUME NEW n \in Nat PROVE next[n][run[n]] = Next(run[n])
    <3>1. run[n] \in F
      BY <1>3
    <3> HIDE DEF Next, F
    <3> QED BY <3>1
  <2> QED BY <1>3, <2>1
<1>a. \A h, T : T \in SUBSET S => Next(h)[T] = IF T = {} THEN base ELSE step[pick[T]][h[T \ {pick[T]}]]
  OBVIOUS
<1> HIDE DEF Next
<1> DEFINE Settled == {n \in Nat : \A T \in SUBSET S : Cardinality(T) <= n => run[n + 1][T] = run[n][T]}
<1>5. \A T \in SUBSET S : IsFiniteSet(T) /\ Cardinality(T) \in Nat
  BY FS_Subset, FS_CardinalityType
<1>6. 0 \in Settled
  <2>1. run[1][{}] = base
    <3>1. run[1] = Next(run[0])
      BY <1>4, 0 + 1 = 1
    <3> QED BY <1>a, <3>1
  <2>2. run[0][{}] = base
    BY <1>3
  <2>3. \A T \in SUBSET S : Cardinality(T) <= 0 => T = {}
    BY <1>5, FS_EmptySet
  <2>4. run[0 + 1] = run[1]
    OBVIOUS
  <2> QED BY <2>1, <2>2, <2>3, <2>4
<1>7. ASSUME NEW n \in Nat, n \in Settled PROVE n + 1 \in Settled
  <2> SUFFICES ASSUME NEW T \in SUBSET S, Cardinality(T) <= n + 1
               PROVE  run[(n + 1) + 1][T] = run[n + 1][T]
    OBVIOUS
  <2>1. run[(n + 1) + 1][T] = Next(run[n + 1])[T] /\ run[n + 1][T] = Next(run[n])[T]
    <3>1. n + 1 \in Nat
      OBVIOUS
    <3> QED BY <1>4, <3>1
  <2>2. CASE T = {}
    BY <1>a, <2>1, <2>2
  <2>3. CASE T # {}
    <3>1. pick[T] \in T /\ T \ {pick[T]} \in SUBSET S
      BY <2>3
    <3>a. IsFiniteSet(T) /\ Cardinality(T) \in Nat
      BY <1>5
    <3>b. Cardinality(T \ {pick[T]}) = Cardinality(T) - 1
      BY <3>1, <3>a, FS_RemoveElement
    <3>2. Cardinality(T \ {pick[T]}) <= n
      BY <3>a, <3>b
    <3>3. run[n + 1][T \ {pick[T]}] = run[n][T \ {pick[T]}]
      BY <1>7, <3>1, <3>2
    <3>4. run[(n + 1) + 1][T] = step[pick[T]][run[n + 1][T \ {pick[T]}]]
      BY <1>a, <2>1, <2>3
    <3>5. run[n + 1][T] = step[pick[T]][run[n][T \ {pick[T]}]]
      BY <1>a, <2>1, <2>3
    <3> QED BY <3>3, <3>4, <3>5
  <2> QED BY <2>2, <2>3
<1>8. \A n \in Nat : n \in Settled
  <2> HIDE DEF Settled
  <2> QED BY <1>6, <1>7, Induction
<1> DEFINE iter == run[Cardinality(S)]
<1>9. iter \in F /\ iter \in [SUBSET S -> A]
  BY <1>3, <1>5
<1>10. Next(iter) = iter
  <2>1. Cardinality(S) \in Nat /\ run[Cardinality(S) + 1] = Next(iter)
    BY <1>4, <1>5
  <2>2. \A T \in SUBSET S : run[Cardinality(S) + 1][T] = iter[T]
    BY <1>5, <1>8, FS_Subset
  <2>3. \A T \in SUBSET S : Next(iter)[T] = iter[T]
    BY <2>1, <2>2
  <2>4. Next(iter) \in F
    BY <1>1, <1>9
  <2> HIDE DEF iter
  <2> QED BY <1>9, <2>3, <2>4
<1> HIDE DEF iter
<1> QED BY <1>9, <1>10 DEF Next, IsFold
(* Induction over the subsets of a finite set, from all smaller ones *)
LEMMA SubsetInduction ==
    ASSUME NEW S, IsFiniteSet(S), NEW Good,
           \A T \in SUBSET S : (\A U \in SUBSET T : U # T => U \in Good) => T \in Good
    PROVE  \A T \in SUBSET S : T \in Good
<1> DEFINE Reached == {n \in Nat : \A T \in SUBSET S : Cardinality(T) <= n => T \in Good}
<1>1. \A T \in SUBSET S : IsFiniteSet(T) /\ Cardinality(T) \in Nat
  BY FS_Subset, FS_CardinalityType
<1>2. ASSUME NEW T \in SUBSET S, NEW U \in SUBSET T, U # T PROVE U \in SUBSET S /\ Cardinality(U) < Cardinality(T)
  BY <1>1, <1>2, FS_Subset
<1>3. 0 \in Reached
  <2> SUFFICES ASSUME NEW T \in SUBSET S, Cardinality(T) <= 0 PROVE T \in Good
    OBVIOUS
  <2>1. \A U \in SUBSET T : U # T => FALSE
    BY <1>1, <1>2
  <2> QED BY <2>1
<1>4. ASSUME NEW n \in Nat, n \in Reached PROVE n + 1 \in Reached
  <2> SUFFICES ASSUME NEW T \in SUBSET S, Cardinality(T) <= n + 1 PROVE T \in Good
    OBVIOUS
  <2>1. \A U \in SUBSET T : U # T => U \in Good
    BY <1>1, <1>2, <1>4
  <2> QED BY <2>1
<1>5. \A n \in Nat : n \in Reached
  <2> HIDE DEF Reached
  <2> QED BY <1>3, <1>4, Induction
<1> QED
  BY <1>1, <1>5

-----------------------------------------------------------------------------
(* Sums *)

(* The function behind a sum, on the subsets of S *)
IsSum(sum, f, S) ==
    /\ sum \in [SUBSET S -> Nat]
    /\ sum = [T \in SUBSET S |-> IF T = {} THEN 0
                                 ELSE f[CHOOSE x \in T : TRUE] + sum[T \ {CHOOSE x \in T : TRUE}]]

LEMMA SumExists ==
    ASSUME NEW S, IsFiniteSet(S), NEW f, \A x \in S : f[x] \in Nat
    PROVE  \E sum : IsSum(sum, f, S) /\ SumFunctionOnSet(f, S) = sum[S]
<1> DEFINE step == [x \in S |-> [acc \in Nat |-> f[x] + acc]]
           pick == [T \in SUBSET S |-> CHOOSE x \in T : TRUE]
           Eq(iter) == iter = [T \in SUBSET S |-> IF T = {} THEN 0
                                     ELSE f[CHOOSE x \in T : TRUE] + iter[T \ {CHOOSE x \in T : TRUE}]]
<1>1. step \in [S -> [Nat -> Nat]] /\ 0 \in Nat
  OBVIOUS
<1>2. \A T \in SUBSET S : T # {} => pick[T] \in T
  OBVIOUS
<1>3. \E iter : IsFold(iter, S, Nat, 0, step, pick)
  <2> HIDE DEF step, pick
  <2> QED BY <1>1, <1>2, FoldExists
<1>4. PICK iter : IsFold(iter, S, Nat, 0, step, pick)
  BY <1>3
<1>5. ASSUME NEW T \in SUBSET S, T # {}
      PROVE  step[pick[T]][iter[T \ {pick[T]}]] = f[CHOOSE x \in T : TRUE] + iter[T \ {CHOOSE x \in T : TRUE}]
  <2>1. pick[T] \in S /\ iter[T \ {pick[T]}] \in Nat
    BY <1>2, <1>4, <1>5 DEF IsFold
  <2> QED BY <2>1
<1>6. Eq(iter)
  <2> HIDE DEF step, pick
  <2> QED BY <1>4, <1>5 DEF IsFold
<1>7. \E it : Eq(it)
  BY <1>6
<1> DEFINE sum == CHOOSE it : Eq(it)
<1>8. Eq(sum)
  <2> HIDE DEF Eq
  <2> QED BY <1>7
<1>9. SumFunctionOnSet(f, S) = sum[S]
  BY DEF SumFunctionOnSet, FoldFunctionOnSet, MapThenFoldSet
<1>10. iter \in [SUBSET S -> Nat]
  BY <1>4 DEF IsFold
<1> HIDE DEF sum
<1> DEFINE Same == {T \in SUBSET S : sum[T] = iter[T]}
<1>11. ASSUME NEW T \in SUBSET S, \A U \in SUBSET T : U # T => U \in Same
       PROVE  sum[T] = iter[T]
  <2>1. CASE T = {}
    BY <1>6, <1>8, <2>1
  <2>2. CASE T # {}
    <3> DEFINE x == CHOOSE x \in T : TRUE
    <3>1. x \in T
      BY <2>2
    <3> HIDE DEF x
    <3>2. T \ {x} \in Same
      BY <1>11, <3>1
    <3>3. sum[T] = f[x] + sum[T \ {x}] /\ iter[T] = f[x] + iter[T \ {x}]
      BY <1>6, <1>8, <2>2 DEF x
    <3> QED BY <3>2, <3>3
  <2> QED BY <2>1, <2>2
<1>12. \A T \in SUBSET S : T \in Same
  <2>1. \A T \in SUBSET S : (\A U \in SUBSET T : U # T => U \in Same) => T \in Same
    BY <1>11
  <2> HIDE DEF Same
  <2> QED BY <2>1, SubsetInduction
<1>13. sum = iter
  BY <1>8, <1>6, <1>12
<1> QED BY <1>4, <1>8, <1>9, <1>10, <1>13 DEF IsSum

LEMMA SumRecursion ==
    ASSUME NEW S, IsFiniteSet(S), NEW f, \A x \in S : f[x] \in Nat
    PROVE  /\ SumFunctionOnSet(f, S) \in Nat
           /\ S = {} => SumFunctionOnSet(f, S) = 0
           /\ S # {} => SumFunctionOnSet(f, S) = f[CHOOSE x \in S : TRUE]
                                               + SumFunctionOnSet(f, S \ {CHOOSE x \in S : TRUE})
<1>1. PICK sum : IsSum(sum, f, S) /\ SumFunctionOnSet(f, S) = sum[S]
  BY SumExists
<1>2. SumFunctionOnSet(f, S) \in Nat /\ (S = {} => SumFunctionOnSet(f, S) = 0)
  BY <1>1 DEF IsSum
<1> SUFFICES ASSUME S # {}
             PROVE  SumFunctionOnSet(f, S) = f[CHOOSE x \in S : TRUE]
                                               + SumFunctionOnSet(f, S \ {CHOOSE x \in S : TRUE})
  BY <1>2
<1> DEFINE c == CHOOSE x \in S : TRUE
           R == S \ {c}
<1>3. c \in S
  OBVIOUS
<1>4. sum[S] = f[c] + sum[R]
  BY <1>1 DEF IsSum
<1> HIDE DEF c
<1>5. PICK rest : IsSum(rest, f, R) /\ SumFunctionOnSet(f, R) = rest[R]
  BY FS_Subset, SumExists
<1> DEFINE Same == {T \in SUBSET R : sum[T] = rest[T]}
<1>6. ASSUME NEW T \in SUBSET R, \A U \in SUBSET T : U # T => U \in Same
      PROVE  sum[T] = rest[T]
  <2>1. CASE T = {}
    BY <1>1, <1>5, <2>1 DEF IsSum
  <2>2. CASE T # {}
    <3> DEFINE x == CHOOSE x \in T : TRUE
    <3>1. x \in T
      BY <2>2
    <3> HIDE DEF x
    <3>2. T \ {x} \in Same
      BY <1>6, <3>1
    <3>3. sum[T] = f[x] + sum[T \ {x}] /\ rest[T] = f[x] + rest[T \ {x}]
      BY <1>1, <1>5, <2>2 DEF x, IsSum
    <3> QED BY <3>2, <3>3
  <2> QED BY <2>1, <2>2
<1>7. \A T \in SUBSET R : T \in Same
  <2>1. \A T \in SUBSET R : (\A U \in SUBSET T : U # T => U \in Same) => T \in Same
    BY <1>6
  <2>2. IsFiniteSet(R)
    BY FS_Subset
  <2> HIDE DEF Same, R
  <2> QED BY <2>1, <2>2, SubsetInduction
<1> QED BY <1>1, <1>4, <1>5, <1>7 DEF c

(* Any element can be taken out of a sum first. *)
LEMMA SumRemove ==
    ASSUME NEW S, IsFiniteSet(S), NEW f, \A x \in S : f[x] \in Nat, NEW x \in S
    PROVE  SumFunctionOnSet(f, S) = f[x] + SumFunctionOnSet(f, S \ {x})
<1> DEFINE Good == {T \in SUBSET S : \A y \in T : SumFunctionOnSet(f, T) = f[y] + SumFunctionOnSet(f, T \ {y})}
<1>1. ASSUME NEW T \in SUBSET S, \A U \in SUBSET T : U # T => U \in Good
      PROVE  T \in Good
  <2> SUFFICES ASSUME NEW y \in T
               PROVE  SumFunctionOnSet(f, T) = f[y] + SumFunctionOnSet(f, T \ {y})
    OBVIOUS
  <2> DEFINE c == CHOOSE z \in T : TRUE
  <2>1. c \in T
    OBVIOUS
  <2>2. \A U \in SUBSET T : IsFiniteSet(U)
    BY FS_Subset
  <2>3. SumFunctionOnSet(f, T) = f[c] + SumFunctionOnSet(f, T \ {c})
    BY <2>2, SumRecursion
  <2> HIDE DEF c
  <2>4. CASE y = c
    BY <2>3, <2>4
  <2>5. CASE y # c
    <3>1. T \ {c} \in Good /\ T \ {y} \in Good /\ y \in T \ {c} /\ c \in T \ {y}
      BY <1>1, <2>1, <2>5
    <3>2. (T \ {c}) \ {y} = (T \ {y}) \ {c}
      OBVIOUS
    <3>3. SumFunctionOnSet(f, T \ {c}) = f[y] + SumFunctionOnSet(f, (T \ {c}) \ {y})
      BY <3>1
    <3>4. SumFunctionOnSet(f, T \ {y}) = f[c] + SumFunctionOnSet(f, (T \ {c}) \ {y})
      BY <3>1, <3>2
    <3>5. SumFunctionOnSet(f, (T \ {c}) \ {y}) \in Nat /\ f[y] \in Nat /\ f[c] \in Nat
      BY <2>1, <2>2, SumRecursion
    <3> QED BY <2>3, <3>3, <3>4, <3>5
  <2> QED BY <2>4, <2>5
<1>2. \A T \in SUBSET S : T \in Good
  <2> HIDE DEF Good
  <2> QED BY <1>1, SubsetInduction
<1> QED BY <1>2

(* Sums over disjoint sets *)
LEMMA SumUnion ==
    ASSUME NEW S, IsFiniteSet(S), NEW T, IsFiniteSet(T), S \cap T = {},
           NEW f, \A x \in S \cup T : f[x] \in Nat
    PROVE  SumFunctionOnSet(f, S \cup T) = SumFunctionOnSet(f, S) + SumFunctionOnSet(f, T)
<1> DEFINE Good == {U \in SUBSET S : SumFunctionOnSet(f, U \cup T) = SumFunctionOnSet(f, U) + SumFunctionOnSet(f, T)}
<1>1. {} \in Good
  <2>1. SumFunctionOnSet(f, {}) = 0 /\ SumFunctionOnSet(f, T) \in Nat /\ {} \cup T = T
    BY FS_EmptySet, SumRecursion
  <2> QED BY <2>1
<1>2. ASSUME NEW U \in SUBSET S, NEW x \in S \ U, U \in Good PROVE U \cup {x} \in Good
  <2>1. IsFiniteSet(U) /\ IsFiniteSet(U \cup {x}) /\ IsFiniteSet((U \cup {x}) \cup T)
    BY FS_Subset, FS_Union
  <2>2. (U \cup {x}) \ {x} = U /\ ((U \cup {x}) \cup T) \ {x} = U \cup T
    OBVIOUS
  <2>3. SumFunctionOnSet(f, U \cup {x}) = f[x] + SumFunctionOnSet(f, U)
    BY <2>1, <2>2, SumRemove
  <2>4. SumFunctionOnSet(f, (U \cup {x}) \cup T) = f[x] + SumFunctionOnSet(f, U \cup T)
    BY <2>1, <2>2, SumRemove
  <2>5. SumFunctionOnSet(f, U) \in Nat /\ SumFunctionOnSet(f, T) \in Nat /\ f[x] \in Nat
    BY <2>1, SumRecursion
  <2> QED BY <1>2, <2>3, <2>4, <2>5
<1>3. S \in Good
  <2> HIDE DEF Good
  <2> QED BY <1>1, <1>2, FiniteInduction
<1> QED BY <1>3

(* A sum grows with each of its terms. *)
LEMMA SumMonotone ==
    ASSUME NEW S, IsFiniteSet(S), NEW f, NEW g,
           \A x \in S : f[x] \in Nat /\ g[x] \in Nat /\ f[x] <= g[x]
    PROVE  SumFunctionOnSet(f, S) <= SumFunctionOnSet(g, S)
<1> DEFINE Good == {U \in SUBSET S : SumFunctionOnSet(f, U) <= SumFunctionOnSet(g, U)}
<1>1. {} \in Good
  <2>1. SumFunctionOnSet(f, {}) = 0 /\ SumFunctionOnSet(g, {}) = 0
    BY FS_EmptySet, SumRecursion
  <2> QED BY <2>1
<1>2. ASSUME NEW U \in SUBSET S, NEW x \in S \ U, U \in Good PROVE U \cup {x} \in Good
  <2>1. IsFiniteSet(U) /\ IsFiniteSet(U \cup {x}) /\ (U \cup {x}) \ {x} = U
    BY FS_Subset
  <2>2. SumFunctionOnSet(f, U \cup {x}) = f[x] + SumFunctionOnSet(f, U)
    BY <2>1, SumRemove
  <2>3. SumFunctionOnSet(g, U \cup {x}) = g[x] + SumFunctionOnSet(g, U)
    BY <2>1, SumRemove
  <2>4. SumFunctionOnSet(f, U) \in Nat /\ SumFunctionOnSet(g, U) \in Nat
    BY <2>1, SumRecursion
  <2> QED BY <1>2, <2>2, <2>3, <2>4
<1>3. S \in Good
  <2> HIDE DEF Good
  <2> QED BY <1>1, <1>2, FiniteInduction
<1> QED BY <1>3

(* A sum depends only on its terms, in whatever way they are indexed. *)
LEMMA SumReindex ==
    ASSUME NEW S, IsFiniteSet(S), NEW f, NEW g, NEW h,
           \A x \in S : f[x] \in Nat /\ g[h[x]] = f[x],
           \A x, y \in S : h[x] = h[y] => x = y
    PROVE  SumFunctionOnSet(g, {h[x] : x \in S}) = SumFunctionOnSet(f, S)
<1> DEFINE Im(U) == {h[x] : x \in U}
           Good == {U \in SUBSET S : IsFiniteSet(Im(U)) /\ SumFunctionOnSet(g, Im(U)) = SumFunctionOnSet(f, U)}
<1>1. {} \in Good
  <2>1. Im({}) = {}
    OBVIOUS
  <2>2. SumFunctionOnSet(f, {}) = 0 /\ SumFunctionOnSet(g, {}) = 0 /\ IsFiniteSet({})
    BY FS_EmptySet, SumRecursion
  <2> QED BY <2>1, <2>2
<1>2. ASSUME NEW U \in SUBSET S, NEW x \in S \ U, U \in Good PROVE U \cup {x} \in Good
  <2>1. IsFiniteSet(U) /\ IsFiniteSet(U \cup {x}) /\ (U \cup {x}) \ {x} = U
    BY FS_Subset
  <2>2. Im(U \cup {x}) = Im(U) \cup {h[x]} /\ h[x] \notin Im(U)
    OBVIOUS
  <2>3. IsFiniteSet(Im(U \cup {x}))
    <3>1. IsFiniteSet(Im(U))
      BY <1>2
    <3>2. IsFiniteSet(Im(U) \cup {h[x]})
      <4> HIDE DEF Im
      <4> QED BY <3>1, FS_AddElement
    <3> QED BY <2>2, <3>2
  <2>4. SumFunctionOnSet(f, U \cup {x}) = f[x] + SumFunctionOnSet(f, U)
    BY <2>1, SumRemove
  <2>5. SumFunctionOnSet(g, Im(U \cup {x})) = g[h[x]] + SumFunctionOnSet(g, Im(U))
    <3>1. \A y \in Im(U \cup {x}) : g[y] \in Nat
      OBVIOUS
    <3>2. h[x] \in Im(U \cup {x}) /\ Im(U \cup {x}) \ {h[x]} = Im(U)
      BY <2>2
    <3> DEFINE V == Im(U \cup {x})
    <3>3. IsFiniteSet(V) /\ (\A y \in V : g[y] \in Nat) /\ h[x] \in V /\ V \ {h[x]} = Im(U)
      BY <2>3, <3>1, <3>2
    <3> HIDE DEF V, Im
    <3>4. SumFunctionOnSet(g, V) = g[h[x]] + SumFunctionOnSet(g, V \ {h[x]})
      BY <3>3, SumRemove
    <3> QED BY <3>3, <3>4 DEF V
  <2> QED BY <1>2, <2>3, <2>4, <2>5
<1>3. S \in Good
  <2> HIDE DEF Good
  <2> QED BY <1>1, <1>2, FiniteInduction
<1> QED BY <1>3

LEMMA SumEqual ==
    ASSUME NEW S, IsFiniteSet(S), NEW f, NEW g, \A x \in S : f[x] \in Nat /\ g[x] = f[x]
    PROVE  SumFunctionOnSet(g, S) = SumFunctionOnSet(f, S)
<1> DEFINE h == [x \in S |-> x]
<1>1. {h[x] : x \in S} = S
  OBVIOUS
<1>2. \A x \in S : f[x] \in Nat /\ g[h[x]] = f[x]
  OBVIOUS
<1>3. \A x, y \in S : h[x] = h[y] => x = y
  OBVIOUS
<1>4. SumFunctionOnSet(g, {h[x] : x \in S}) = SumFunctionOnSet(f, S)
  <2> HIDE DEF h
  <2> QED BY <1>2, <1>3, SumReindex
<1> QED BY <1>1, <1>4

(* A sum of sums, term by term *)
LEMMA SumAdd ==
    ASSUME NEW S, IsFiniteSet(S), NEW f, NEW g, NEW h,
           \A x \in S : f[x] \in Nat /\ g[x] \in Nat /\ h[x] = f[x] + g[x]
    PROVE  SumFunctionOnSet(h, S) = SumFunctionOnSet(f, S) + SumFunctionOnSet(g, S)
<1> DEFINE Good == {U \in SUBSET S : SumFunctionOnSet(h, U) = SumFunctionOnSet(f, U) + SumFunctionOnSet(g, U)}
<1>1. {} \in Good
  <2>1. SumFunctionOnSet(f, {}) = 0 /\ SumFunctionOnSet(g, {}) = 0 /\ SumFunctionOnSet(h, {}) = 0
    BY FS_EmptySet, SumRecursion
  <2> QED BY <2>1
<1>2. ASSUME NEW U \in SUBSET S, NEW x \in S \ U, U \in Good PROVE U \cup {x} \in Good
  <2>1. IsFiniteSet(U) /\ IsFiniteSet(U \cup {x}) /\ (U \cup {x}) \ {x} = U
    BY FS_Subset
  <2>2. \A y \in U \cup {x} : f[y] \in Nat /\ g[y] \in Nat /\ h[y] \in Nat
    OBVIOUS
  <2>3. SumFunctionOnSet(f, U \cup {x}) = f[x] + SumFunctionOnSet(f, U)
    BY <2>1, <2>2, SumRemove
  <2>4. SumFunctionOnSet(g, U \cup {x}) = g[x] + SumFunctionOnSet(g, U)
    BY <2>1, <2>2, SumRemove
  <2>5. SumFunctionOnSet(h, U \cup {x}) = h[x] + SumFunctionOnSet(h, U)
    BY <2>1, <2>2, SumRemove
  <2>6. SumFunctionOnSet(f, U) \in Nat /\ SumFunctionOnSet(g, U) \in Nat
    BY <2>1, SumRecursion
  <2> QED BY <1>2, <2>3, <2>4, <2>5, <2>6
<1>3. S \in Good
  <2> HIDE DEF Good
  <2> QED BY <1>1, <1>2, FiniteInduction
<1> QED BY <1>3

(* The union of disjoint sets, summed set by set *)
LEMMA SumOfUnion ==
    ASSUME NEW S, IsFiniteSet(S), NEW A, NEW f, NEW g,
           \A t \in S : /\ IsFiniteSet(A[t])
                        /\ \A x \in A[t] : f[x] \in Nat
                        /\ g[t] = SumFunctionOnSet(f, A[t]),
           \A t, u \in S : t # u => A[t] \cap A[u] = {}
    PROVE  /\ IsFiniteSet(UNION {A[t] : t \in S})
           /\ SumFunctionOnSet(f, UNION {A[t] : t \in S}) = SumFunctionOnSet(g, S)
<1> DEFINE All(U) == UNION {A[t] : t \in U}
           Good == {U \in SUBSET S : /\ IsFiniteSet(All(U))
                                    /\ SumFunctionOnSet(f, All(U)) = SumFunctionOnSet(g, U)}
<1>1. {} \in Good
  <2>1. All({}) = {}
    OBVIOUS
  <2>2. SumFunctionOnSet(f, {}) = 0 /\ SumFunctionOnSet(g, {}) = 0 /\ IsFiniteSet({})
    BY FS_EmptySet, SumRecursion
  <2> QED BY <2>1, <2>2
<1>2. ASSUME NEW U \in SUBSET S, NEW x \in S \ U, U \in Good PROVE U \cup {x} \in Good
  <2>1. IsFiniteSet(U) /\ IsFiniteSet(U \cup {x}) /\ (U \cup {x}) \ {x} = U
    BY FS_Subset
  <2>2. All(U \cup {x}) = All(U) \cup A[x] /\ All(U) \cap A[x] = {}
    <3>1. \A t \in U : A[t] \cap A[x] = {}
      OBVIOUS
    <3>2. \A e : e \in All(U) <=> \E t \in U : e \in A[t]
      OBVIOUS
    <3>3. \A e : e \in All(U \cup {x}) <=> (\E t \in U : e \in A[t]) \/ e \in A[x]
      OBVIOUS
    <3> HIDE DEF All
    <3> QED BY <3>1, <3>2, <3>3
  <2>3. IsFiniteSet(All(U)) /\ IsFiniteSet(A[x]) /\ SumFunctionOnSet(f, All(U)) = SumFunctionOnSet(g, U)
    BY <1>2
  <2>4. \A e \in All(U) \cup A[x] : f[e] \in Nat
    OBVIOUS
  <2>5. \A t \in U \cup {x} : g[t] \in Nat
    <3> TAKE t \in U \cup {x}
    <3> DEFINE D == A[t]
    <3>1. IsFiniteSet(D) /\ (\A e \in D : f[e] \in Nat) /\ g[t] = SumFunctionOnSet(f, D)
      OBVIOUS
    <3> HIDE DEF D
    <3>2. SumFunctionOnSet(f, D) \in Nat
      BY <3>1, SumRecursion
    <3> QED BY <3>1, <3>2
  <2>10. g[x] = SumFunctionOnSet(f, A[x]) /\ U \cup {x} \in SUBSET S
    OBVIOUS
  <2> HIDE DEF All
  <2>6. IsFiniteSet(All(U) \cup A[x])
    BY <2>3, FS_Union
  <2>7. SumFunctionOnSet(f, All(U) \cup A[x]) = SumFunctionOnSet(f, All(U)) + SumFunctionOnSet(f, A[x])
    BY <2>2, <2>3, <2>4, SumUnion
  <2>8. SumFunctionOnSet(g, U \cup {x}) = g[x] + SumFunctionOnSet(g, U)
    BY <2>1, <2>5, SumRemove
  <2>9. SumFunctionOnSet(g, U) \in Nat /\ g[x] \in Nat
    BY <2>1, <2>5, SumRecursion
  <2>11. SumFunctionOnSet(f, All(U \cup {x})) = SumFunctionOnSet(g, U \cup {x})
    <3>1. SumFunctionOnSet(f, All(U \cup {x})) = SumFunctionOnSet(f, All(U) \cup A[x])
      BY <2>2, Zenon
    <3>2. SumFunctionOnSet(f, All(U) \cup A[x]) = SumFunctionOnSet(g, U) + g[x]
      BY <2>3, <2>7, <2>10, Zenon
    <3>3. SumFunctionOnSet(g, U) + g[x] = g[x] + SumFunctionOnSet(g, U)
      BY <2>9
    <3> QED BY <2>8, <3>1, <3>2, <3>3, Zenon
  <2>12. IsFiniteSet(All(U \cup {x}))
    BY <2>2, <2>6
  <2> QED BY <2>10, <2>11, <2>12
<1>3. S \in Good
  <2> HIDE DEF Good
  <2> QED BY <1>1, <1>2, FiniteInduction
<1> QED BY <1>3

-----------------------------------------------------------------------------
(* Sequences *)

(* Induction over sequences, with a set in place of a predicate *)
LEMMA SeqInduction ==
    ASSUME NEW S, NEW Good, <<>> \in Good,
           \A s \in Seq(S), e \in S : s \in Good => Append(s, e) \in Good
    PROVE  \A s \in Seq(S) : s \in Good
<1> DEFINE Reached == {n \in Nat : \A s \in Seq(S) : Len(s) = n => s \in Good}
<1>1. 0 \in Reached
  BY EmptySeq
<1>2. ASSUME NEW n \in Nat, n \in Reached PROVE n + 1 \in Reached
  <2> SUFFICES ASSUME NEW s \in Seq(S), Len(s) = n + 1 PROVE s \in Good
    OBVIOUS
  <2>1. PICK t \in Seq(S), e \in S : s = Append(t, e)
    BY EmptySeq, SequenceEmptyOrAppend
  <2>2. Len(t) = n
    BY <2>1, LenProperties, AppendProperties
  <2> QED BY <1>2, <2>1, <2>2
<1>3. \A n \in Nat : n \in Reached
  <2> HIDE DEF Reached
  <2> QED BY <1>1, <1>2, Induction
<1> QED BY <1>3, LenProperties

(* The function behind FlattenSeq *)
IsFlattening(run, ss, S) ==
    /\ run \in [Nat -> Seq(S)]
    /\ run[0] = <<>>
    /\ \A n \in 0 .. Len(ss) - 1 : run[n + 1] = run[n] \o ss[n + 1]

LEMMA FlattenExists ==
    ASSUME NEW S, NEW ss \in Seq(Seq(S))
    PROVE  \E run : IsFlattening(run, ss, S) /\ FlattenSeq(ss) = run[Len(ss)]
<1> DEFINE step == [n \in Nat |-> [acc \in Seq(S) |-> IF n < Len(ss) THEN acc \o ss[n + 1] ELSE acc]]
           Eq(fl) == fl = [i \in 1 .. Len(ss) |-> IF i = 1 THEN ss[i] ELSE fl[i - 1] \o ss[i]]
<1>1. Len(ss) \in Nat /\ \A n \in 1 .. Len(ss) : ss[n] \in Seq(S)
  BY LenProperties, ElementOfSeq
<1>2. step \in [Nat -> [Seq(S) -> Seq(S)]] /\ <<>> \in Seq(S)
  <2>1. ASSUME NEW n \in Nat, NEW acc \in Seq(S), n < Len(ss) PROVE acc \o ss[n + 1] \in Seq(S)
    <3>1. ss[n + 1] \in Seq(S)
      BY <1>1, <2>1
    <3> QED BY <3>1, ConcatProperties
  <2> QED BY <2>1, EmptySeq
<1> HIDE DEF step
<1>3. PICK run : IsRun(run, Seq(S), <<>>, step)
  BY <1>2, Recursion
<1>4. run \in [Nat -> Seq(S)] /\ run[0] = <<>>
  BY <1>3 DEF IsRun
<1>5. ASSUME NEW n \in 0 .. Len(ss) - 1 PROVE run[n + 1] = run[n] \o ss[n + 1]
  <2>a. Len(ss) \in Nat
    BY <1>1
  <2>b. n \in Nat /\ n < Len(ss)
    BY <2>a
  <2>1. n \in Nat /\ n < Len(ss) /\ run[n] \in Seq(S)
    BY <1>4, <2>b
  <2>2. run[n + 1] = step[n][run[n]]
    BY <1>3, <2>1 DEF IsRun
  <2> QED BY <2>1, <2>2 DEF step
<1>6. IsFlattening(run, ss, S)
  BY <1>4, <1>5 DEF IsFlattening
<1>7. CASE Len(ss) = 0
  <2>1. ss = <<>>
    BY <1>7, EmptySeq
  <2> QED BY <1>4, <1>6, <1>7, <2>1 DEF FlattenSeq
<1>8. CASE Len(ss) # 0
  <2> DEFINE by == [i \in 1 .. Len(ss) |-> run[i]]
  <2>1. Eq(by)
    <3>1. ASSUME NEW i \in 1 .. Len(ss) PROVE by[i] = IF i = 1 THEN ss[i] ELSE by[i - 1] \o ss[i]
      <4>1. i - 1 \in 0 .. Len(ss) - 1 /\ (i - 1) + 1 = i
        BY <1>1
      <4>2. run[i] = run[i - 1] \o ss[i]
        BY <1>5, <4>1
      <4>3. CASE i = 1
        <5>1. ss[1] \in Seq(S)
          BY <1>1, <4>3
        <5>2. run[0] \o ss[1] = ss[1]
          BY <1>4, <5>1, ConcatEmptySeq
        <5>3. by[i] = run[1] /\ run[1] = run[0] \o ss[1]
          BY <4>2, <4>3, 1 - 1 = 0
        <5> QED BY <4>3, <5>2, <5>3
      <4>4. CASE i # 1
        <5>1. i - 1 \in 1 .. Len(ss)
          BY <1>1, <4>4
        <5>2. by[i] = run[i] /\ by[i - 1] = run[i - 1]
          BY <5>1
        <5> QED BY <4>2, <4>4, <5>2
      <4> QED BY <4>3, <4>4
    <3> QED BY <3>1
  <2> DEFINE fl == CHOOSE f : Eq(f)
  <2>2. Eq(fl)
    <3> HIDE DEF Eq
    <3> QED BY <2>1
  <2>3. FlattenSeq(ss) = fl[Len(ss)]
    BY <1>8 DEF FlattenSeq
  <2> HIDE DEF fl
  <2> DEFINE Same == {n \in Nat : n + 1 <= Len(ss) => fl[n + 1] = run[n + 1]}
  <2>4. 0 \in Same
    <3> SUFFICES ASSUME 1 <= Len(ss) PROVE fl[1] = run[1]
      OBVIOUS
    <3>1. 1 \in 1 .. Len(ss)
      BY <1>1
    <3>2. fl[1] = ss[1] /\ by[1] = run[1]
      BY <2>2, <3>1
    <3>3. by[1] = ss[1]
      <4> HIDE DEF by
      <4> QED BY <2>1, <3>1
    <3> QED BY <3>2, <3>3
  <2>5. ASSUME NEW n \in Nat, n \in Same PROVE n + 1 \in Same
    <3> SUFFICES ASSUME n + 2 <= Len(ss) PROVE fl[n + 2] = run[n + 2]
      OBVIOUS
    <3>1. n + 2 \in 1 .. Len(ss) /\ n + 2 # 1 /\ (n + 2) - 1 = n + 1 /\ n + 1 \in 1 .. Len(ss)
      BY <1>1
    <3> DEFINE m == n + 2
               l == n + 1
    <3>2. m \in 1 .. Len(ss) /\ m # 1 /\ m - 1 = l
      BY <3>1
    <3> HIDE DEF m
    <3>3. fl[m] = fl[l] \o ss[m] /\ by[m] = by[l] \o ss[m]
      BY <2>1, <2>2, <3>2
    <3>4. by[m] = run[m] /\ by[l] = run[l] /\ fl[l] = run[l]
      BY <2>5, <3>1, <3>2
    <3> QED BY <3>3, <3>4 DEF m
  <2>6. \A n \in Nat : n \in Same
    <3> HIDE DEF Same
    <3> QED BY <2>4, <2>5, Induction
  <2>7. fl[Len(ss)] = run[Len(ss)]
    <3> DEFINE k == Len(ss) - 1
    <3>1. k \in Nat /\ k + 1 = Len(ss)
      BY <1>1, <1>8
    <3>2. k \in Same
      <4> HIDE DEF Same, k
      <4> QED BY <2>6, <3>1
    <3> HIDE DEF k
    <3> QED BY <1>1, <3>1, <3>2
  <2> QED BY <1>6, <2>3, <2>7
<1> QED BY <1>7, <1>8

LEMMA FlattenEmpty == FlattenSeq(<<>>) = <<>>
BY EmptySeq DEF FlattenSeq

LEMMA FlattenAppend ==
    ASSUME NEW S, NEW ss \in Seq(Seq(S)), NEW s \in Seq(S)
    PROVE  /\ FlattenSeq(ss) \in Seq(S)
           /\ FlattenSeq(Append(ss, s)) = FlattenSeq(ss) \o s
<1> DEFINE tt == Append(ss, s)
<1>1. tt \in Seq(Seq(S)) /\ Len(tt) = Len(ss) + 1 /\ Len(ss) \in Nat /\ tt[Len(ss) + 1] = s
      /\ \A i \in 1 .. Len(ss) : tt[i] = ss[i]
  BY LenProperties, AppendProperties
<1> HIDE DEF tt
<1>2. PICK run : IsFlattening(run, ss, S) /\ FlattenSeq(ss) = run[Len(ss)]
  BY FlattenExists
<1>3. PICK all : IsFlattening(all, tt, S) /\ FlattenSeq(tt) = all[Len(tt)]
  BY <1>1, FlattenExists
<1> DEFINE Same == {n \in Nat : n <= Len(ss) => all[n] = run[n]}
<1>4. 0 \in Same
  BY <1>2, <1>3 DEF IsFlattening
<1>5. ASSUME NEW n \in Nat, n \in Same PROVE n + 1 \in Same
  <2> SUFFICES ASSUME n + 1 <= Len(ss) PROVE all[n + 1] = run[n + 1]
    OBVIOUS
  <2>1. n \in 0 .. Len(ss) - 1 /\ n \in 0 .. Len(tt) - 1 /\ n + 1 \in 1 .. Len(ss)
    BY <1>1
  <2>2. all[n + 1] = all[n] \o tt[n + 1] /\ run[n + 1] = run[n] \o ss[n + 1]
    BY <1>2, <1>3, <2>1 DEF IsFlattening
  <2>3. all[n] = run[n] /\ tt[n + 1] = ss[n + 1]
    BY <1>1, <1>5, <2>1
  <2> QED BY <2>2, <2>3
<1>6. \A n \in Nat : n \in Same
  <2> HIDE DEF Same
  <2> QED BY <1>4, <1>5, Induction
<1>7. all[Len(ss)] = run[Len(ss)] /\ all[Len(ss)] \in Seq(S)
  BY <1>1, <1>3, <1>6 DEF IsFlattening
<1>8. all[Len(ss) + 1] = all[Len(ss)] \o s
  <2>1. Len(ss) \in 0 .. Len(tt) - 1
    BY <1>1
  <2> QED BY <1>1, <1>3, <2>1 DEF IsFlattening
<1> QED BY <1>1, <1>2, <1>3, <1>7, <1>8 DEF tt

-----------------------------------------------------------------------------
(* Arrangements *)

IsRanking(rank, at) ==
    /\ rank \in [at -> 1 .. Cardinality(at)]
    /\ \A k, l \in at : rank[k] = rank[l] => k = l
    /\ \A n \in 1 .. Cardinality(at) : \E k \in at : rank[k] = n

RankBy(R, at) == [k \in at |-> Cardinality({j \in at : <<j, k>> \in R})]

(* In a total order of a finite set, the ranks are 1, 2, ..., each once. *)
LEMMA RanksAreAll ==
    ASSUME NEW at, IsFiniteSet(at), NEW R,
           \A j \in at : <<j, j>> \in R,
           \A j, k \in at : j # k => (<<j, k>> \in R <=> ~ (<<k, j>> \in R)),
           \A j, k, l \in at : <<j, k>> \in R /\ <<k, l>> \in R => <<j, l>> \in R
    PROVE  IsRanking(RankBy(R, at), at)
<1> DEFINE Upto(k) == {j \in at : <<j, k>> \in R}
           rank == [k \in at |-> Cardinality(Upto(k))]
           N == Cardinality(at)
<1>1. ASSUME NEW k \in at PROVE IsFiniteSet(Upto(k)) /\ Cardinality(Upto(k)) \in 1 .. N /\ N \in Nat
  <2>1. Upto(k) \in SUBSET at /\ k \in Upto(k)
    OBVIOUS
  <2>2. IsFiniteSet(Upto(k)) /\ Cardinality(Upto(k)) <= N /\ N \in Nat
    BY <2>1, FS_Subset, FS_CardinalityType
  <2>3. Cardinality(Upto(k)) \in Nat /\ Cardinality(Upto(k)) # 0
    <3> HIDE DEF Upto
    <3> QED BY <2>1, <2>2, FS_CardinalityType, FS_EmptySet
  <2> QED BY <2>2, <2>3
<1>2. ASSUME NEW k \in at, NEW l \in at, k # l, <<k, l>> \in R PROVE Cardinality(Upto(k)) # Cardinality(Upto(l))
  <2>1. Upto(k) \in SUBSET Upto(l) /\ l \in Upto(l) /\ l \notin Upto(k)
    BY <1>2
  <2>2. IsFiniteSet(Upto(l))
    BY <1>1
  <2>3. Upto(k) # Upto(l)
    BY <2>1
  <2> HIDE DEF Upto
  <2> QED BY <2>1, <2>2, <2>3, FS_Subset
<1>3. ASSUME NEW k \in at, NEW l \in at, rank[k] = rank[l] PROVE k = l
  <2>1. Cardinality(Upto(k)) = Cardinality(Upto(l))
    BY <1>3
  <2> HIDE DEF Upto
  <2>2. k # l => <<k, l>> \in R \/ <<l, k>> \in R
    OBVIOUS
  <2> QED BY <1>2, <2>1, <2>2
<1>4. rank \in [at -> 1 .. N]
  BY <1>1
<1> HIDE DEF rank
<1>5. rank \in Injection(at, 1 .. N)
  BY <1>3, <1>4 DEF Injection, IsInjective
<1>6. IsFiniteSet(1 .. N) /\ Cardinality(1 .. N) = N
  BY FS_CardinalityType, FS_Interval
<1>7. rank \in Surjection(at, 1 .. N)
  BY <1>5, <1>6, FS_Injection
<1>8. RankBy(R, at) = rank
  BY DEF rank, RankBy
<1> QED BY <1>3, <1>4, <1>7, <1>8 DEF IsRanking, Surjection

(* idx lists the indices in at, each once. *)
Lists(idx, at) ==
    /\ idx \in [1 .. Cardinality(at) -> at]
    /\ \A m, n \in 1 .. Cardinality(at) : idx[m] = idx[n] => m = n
    /\ \A k \in at : \E n \in 1 .. Cardinality(at) : idx[n] = k

IsArranged(t, s, at) == \E idx : Lists(idx, at) /\ t = [n \in 1 .. Cardinality(at) |-> s[idx[n]]]

LEMMA ArrangeLists ==
    ASSUME NEW s, NEW at, NEW rank, IsRanking(rank, at)
    PROVE  IsArranged(Arrange(s, rank), s, at)
<1> DEFINE N == Cardinality(at)
           idx == [n \in 1 .. N |-> CHOOSE k \in at : rank[k] = n]
<1>1. rank \in [at -> 1 .. N] /\ (\A k, l \in at : rank[k] = rank[l] => k = l)
      /\ \A n \in 1 .. N : \E k \in at : rank[k] = n
  BY DEF IsRanking
<1>2. \A n \in 1 .. N : idx[n] \in at /\ rank[idx[n]] = n
  BY <1>1
<1>3. DOMAIN rank = at
  BY <1>1
<1>4. Arrange(s, rank) = [n \in 1 .. N |-> s[idx[n]]]
  BY <1>3 DEF Arrange
<1>a. idx \in [1 .. N -> at]
  BY <1>2
<1> HIDE DEF idx
<1>5. \A k \in at : idx[rank[k]] = k /\ rank[k] \in 1 .. N
  BY <1>1, <1>2
<1>6. Lists(idx, at)
  BY <1>a, <1>2, <1>5 DEF Lists
<1> QED BY <1>4, <1>6 DEF idx, IsArranged

LEMMA SubsequenceLists ==
    ASSUME NEW s, NEW N \in Nat, NEW at \in SUBSET (1 .. N)
    PROVE  /\ IsFiniteSet(at) /\ Cardinality(at) \in 0 .. N
           /\ IsArranged(Subsequence(s, at), s, at)
<1> DEFINE R == {p \in (1 .. N) \X (1 .. N) : p[1] <= p[2]}
<1>1. IsFiniteSet(at) /\ Cardinality(at) \in 0 .. N
  <2>1. IsFiniteSet(1 .. N) /\ Cardinality(1 .. N) = N
    BY FS_Interval
  <2>2. IsFiniteSet(at) /\ Cardinality(at) <= N
    BY <2>1, FS_Subset
  <2> QED BY <2>2, FS_CardinalityType
<1>2. \A j, k \in at : <<j, k>> \in R <=> j <= k
  OBVIOUS
<1>a. \A j \in at : j \in Int
  OBVIOUS
<1> HIDE DEF R
<1>3. IsRanking(RankBy(R, at), at)
  <2>1. \A j \in at : <<j, j>> \in R
    BY <1>2, <1>a
  <2>2. \A j, k \in at : j # k => (<<j, k>> \in R <=> ~ (<<k, j>> \in R))
    BY <1>2, <1>a
  <2>3. \A j, k, l \in at : <<j, k>> \in R /\ <<k, l>> \in R => <<j, l>> \in R
    BY <1>2, <1>a
  <2> QED BY <1>1, <2>1, <2>2, <2>3, RanksAreAll
<1>4. RankBy(R, at) = [k \in at |-> Cardinality({j \in at : j <= k})]
  <2>1. \A k \in at : {j \in at : <<j, k>> \in R} = {j \in at : j <= k}
    BY <1>2
  <2> QED BY <2>1 DEF RankBy
<1>5. IsArranged(Arrange(s, RankBy(R, at)), s, at)
  BY <1>3, ArrangeLists
<1> QED BY <1>1, <1>4, <1>5 DEF Subsequence

-----------------------------------------------------------------------------
(* Sequences without repetition *)

Keys(key, s) == {key[x] : x \in ToSet(s)}

(* No two places of s have one key. *)
Distinct(key, s) == \A i, j \in DOMAIN s : key[s[i]] = key[s[j]] => i = j

(* No two places of the sequences in ss have one key. *)
Separate(key, ss) ==
    \A k, l \in DOMAIN ss : \A i \in DOMAIN ss[k], j \in DOMAIN ss[l] :
        key[ss[k][i]] = key[ss[l][j]] => k = l /\ i = j

LEMMA SubsequenceType ==
    ASSUME NEW S, NEW s \in Seq(S), NEW at \in SUBSET DOMAIN s
    PROVE  /\ Subsequence(s, at) \in Seq(S)
           /\ Len(Subsequence(s, at)) = Cardinality(at)
           /\ DOMAIN Subsequence(s, at) = 1 .. Cardinality(at)
           /\ IsFiniteSet(at) /\ Cardinality(at) \in 0 .. Len(s)
           /\ IsArranged(Subsequence(s, at), s, at)
<1>1. DOMAIN s = 1 .. Len(s) /\ Len(s) \in Nat /\ s \in [1 .. Len(s) -> S]
  BY LenProperties
<1>2. IsFiniteSet(at) /\ Cardinality(at) \in 0 .. Len(s) /\ IsArranged(Subsequence(s, at), s, at)
  BY <1>1, SubsequenceLists
<1>3. PICK idx : Lists(idx, at) /\ Subsequence(s, at) = [n \in 1 .. Cardinality(at) |-> s[idx[n]]]
  BY <1>2 DEF IsArranged
<1>4. \A n \in 1 .. Cardinality(at) : s[idx[n]] \in S
  BY <1>1, <1>3 DEF Lists
<1>5. Subsequence(s, at) \in [1 .. Cardinality(at) -> S] /\ Cardinality(at) \in Nat
  BY <1>2, <1>3, <1>4
<1>6. Subsequence(s, at) \in Seq(S)
  BY <1>5, SeqDef
<1>7. Len(Subsequence(s, at)) = Cardinality(at)
  BY <1>5, <1>6, LenProperties
<1> QED BY <1>2, <1>5, <1>6, <1>7

LEMMA SubsequenceRange ==
    ASSUME NEW S, NEW s \in Seq(S), NEW at \in SUBSET DOMAIN s
    PROVE  ToSet(Subsequence(s, at)) = {s[k] : k \in at}
<1>1. PICK idx : Lists(idx, at) /\ Subsequence(s, at) = [n \in 1 .. Cardinality(at) |-> s[idx[n]]]
  BY SubsequenceType DEF IsArranged
<1>2. DOMAIN Subsequence(s, at) = 1 .. Cardinality(at)
  BY <1>1
<1>3. ToSet(Subsequence(s, at)) = {s[idx[n]] : n \in 1 .. Cardinality(at)}
  BY <1>1, <1>2 DEF ToSet
<1> QED BY <1>1, <1>3 DEF Lists

LEMMA SubsequenceDistinct ==
    ASSUME NEW S, NEW s \in Seq(S), NEW at \in SUBSET DOMAIN s, NEW key,
           \A i, j \in at : key[s[i]] = key[s[j]] => i = j
    PROVE  Distinct(key, Subsequence(s, at))
<1>1. PICK idx : Lists(idx, at) /\ Subsequence(s, at) = [n \in 1 .. Cardinality(at) |-> s[idx[n]]]
  BY SubsequenceType DEF IsArranged
<1>2. DOMAIN Subsequence(s, at) = 1 .. Cardinality(at)
  BY <1>1
<1> QED BY <1>1, <1>2 DEF Lists, Distinct

LEMMA FirstByFacts ==
    ASSUME NEW S, NEW s \in Seq(S), NEW key, NEW taken
    PROVE  /\ FirstBy(key, s, taken) \in Seq(S)
           /\ ToSet(FirstBy(key, s, taken)) \subseteq ToSet(s)
           /\ Distinct(key, FirstBy(key, s, taken))
           /\ Keys(key, FirstBy(key, s, taken)) = Keys(key, s) \ taken
<1> DEFINE at == {k \in DOMAIN s : key[s[k]] \notin taken /\ \A j \in 1 .. k - 1 : key[s[j]] # key[s[k]]}
<1>1. FirstBy(key, s, taken) = Subsequence(s, at)
  BY DEF FirstBy
<1>2. at \in SUBSET DOMAIN s
  OBVIOUS
<1>3. DOMAIN s = 1 .. Len(s) /\ Len(s) \in Nat
  BY LenProperties
<1>4. \A i, j \in at : key[s[i]] = key[s[j]] => i = j
  <2> SUFFICES ASSUME NEW i \in at, NEW j \in at, key[s[i]] = key[s[j]], i # j PROVE FALSE
    OBVIOUS
  <2>1. i \in Nat /\ j \in Nat /\ i >= 1 /\ j >= 1
    BY <1>3
  <2>2. CASE i < j
    BY <2>1, <2>2, i \in 1 .. j - 1
  <2>3. CASE j < i
    BY <2>1, <2>3, j \in 1 .. i - 1
  <2> QED BY <2>1, <2>2, <2>3
<1>5. ASSUME NEW k \in DOMAIN s, key[s[k]] \notin taken PROVE \E j \in at : key[s[j]] = key[s[k]]
  <2> DEFINE T == {j \in DOMAIN s : key[s[j]] = key[s[k]]}
  <2>1. T \subseteq Nat /\ T # {}
    BY <1>3
  <2>2. PICK j \in T : \A m \in T : j <= m
    <3> HIDE DEF T
    <3> QED BY <2>1, LeastNatural
  <2>3. \A m \in 1 .. j - 1 : m \notin T /\ m \in DOMAIN s
    BY <1>3, <2>2
  <2> QED BY <1>5, <2>2, <2>3
<1> HIDE DEF at
<1>6. ToSet(Subsequence(s, at)) = {s[k] : k \in at} /\ Subsequence(s, at) \in Seq(S) /\ Distinct(key, Subsequence(s, at))
  BY <1>2, <1>4, SubsequenceType, SubsequenceRange, SubsequenceDistinct
<1>7. Keys(key, Subsequence(s, at)) = {key[s[k]] : k \in at}
  BY <1>6 DEF Keys
<1>8. Keys(key, s) = {key[s[k]] : k \in DOMAIN s}
  BY DEF Keys, ToSet
<1>9. \A k \in at : key[s[k]] \notin taken
  BY DEF at
<1>10. {key[s[k]] : k \in at} = {key[s[k]] : k \in DOMAIN s} \ taken
  BY <1>2, <1>5, <1>9
<1>11. {s[k] : k \in at} \subseteq ToSet(s)
  BY <1>2 DEF ToSet
<1> QED BY <1>1, <1>6, <1>7, <1>8, <1>10, <1>11

(* Distinct keys are as many as places. *)
LEMMA DistinctCount ==
    ASSUME NEW S, NEW s \in Seq(S), NEW key, Distinct(key, s)
    PROVE  Cardinality(Keys(key, s)) = Len(s) /\ IsFiniteSet(Keys(key, s))
<1> DEFINE f == [k \in 1 .. Len(s) |-> key[s[k]]]
<1>1. DOMAIN s = 1 .. Len(s) /\ Len(s) \in Nat
  BY LenProperties
<1>2. Keys(key, s) = {key[s[k]] : k \in 1 .. Len(s)}
  BY <1>1 DEF Keys, ToSet
<1>3. f \in Bijection(1 .. Len(s), Keys(key, s))
  BY <1>1, <1>2 DEF Bijection, Injection, IsInjective, Surjection, Distinct
<1>4. IsFiniteSet(1 .. Len(s)) /\ Cardinality(1 .. Len(s)) = Len(s)
  BY <1>1, FS_Interval
<1>5. ExistsBijection(1 .. Len(s), Keys(key, s))
  BY <1>3, Zenon DEF ExistsBijection
<1> QED BY <1>4, <1>5, FS_Bijection

LEMMA ToSetAppend ==
    ASSUME NEW S, NEW s \in Seq(S), NEW e \in S
    PROVE  /\ ToSet(<<>>) = {}
           /\ DOMAIN Append(s, e) = DOMAIN s \cup {Len(s) + 1}
           /\ Len(s) + 1 \notin DOMAIN s
           /\ Append(s, e)[Len(s) + 1] = e
           /\ \A k \in DOMAIN s : Append(s, e)[k] = s[k]
           /\ ToSet(Append(s, e)) = ToSet(s) \cup {e}
<1>1. Len(s) \in Nat /\ DOMAIN s = 1 .. Len(s)
  BY LenProperties
<1>2. Append(s, e) \in Seq(S) /\ Len(Append(s, e)) = Len(s) + 1
      /\ (\A i \in 1 .. Len(s) : Append(s, e)[i] = s[i]) /\ Append(s, e)[Len(s) + 1] = e
  BY AppendProperties
<1>3. DOMAIN Append(s, e) = 1 .. Len(s) + 1
  BY <1>2, LenProperties
<1>4. 1 .. Len(s) + 1 = (1 .. Len(s)) \cup {Len(s) + 1} /\ Len(s) + 1 \notin 1 .. Len(s)
  BY <1>1
<1>5. ToSet(<<>>) = {}
  BY DEF ToSet
<1>6. ToSet(Append(s, e)) = ToSet(s) \cup {e}
  BY <1>1, <1>2, <1>3, <1>4 DEF ToSet
<1> QED BY <1>1, <1>2, <1>3, <1>4, <1>5, <1>6

LEMMA ToSetConcat ==
    ASSUME NEW S, NEW s \in Seq(S), NEW t \in Seq(S)
    PROVE  ToSet(s \o t) = ToSet(s) \cup ToSet(t)
<1>1. \A u : Range(u) = ToSet(u)
  BY DEF Range, ToSet
<1>2. Range(s \o t) = Range(s) \cup Range(t)
  BY RangeConcatenation
<1> QED BY <1>1, <1>2

LEMMA FlattenRange ==
    ASSUME NEW S, NEW ss \in Seq(Seq(S))
    PROVE  ToSet(FlattenSeq(ss)) = UNION {ToSet(ss[k]) : k \in DOMAIN ss}
<1> DEFINE Good == {u \in Seq(Seq(S)) : ToSet(FlattenSeq(u)) = UNION {ToSet(u[k]) : k \in DOMAIN u}}
<1>1. <<>> \in Good
  BY FlattenEmpty, EmptySeq DEF ToSet
<1>2. ASSUME NEW u \in Seq(Seq(S)), NEW s \in Seq(S), u \in Good PROVE Append(u, s) \in Good
  <2>1. Append(u, s) \in Seq(Seq(S))
    BY AppendProperties
  <2>2. FlattenSeq(u) \in Seq(S) /\ FlattenSeq(Append(u, s)) = FlattenSeq(u) \o s
    BY FlattenAppend
  <2>3. ToSet(FlattenSeq(Append(u, s))) = (UNION {ToSet(u[k]) : k \in DOMAIN u}) \cup ToSet(s)
    BY <1>2, <2>2, ToSetConcat
  <2> DEFINE v == Append(u, s)
             n == Len(u) + 1
  <2>4. DOMAIN v = DOMAIN u \cup {n} /\ n \notin DOMAIN u /\ v[n] = s /\ \A k \in DOMAIN u : v[k] = u[k]
    BY ToSetAppend
  <2> HIDE DEF v, n
  <2>5. UNION {ToSet(v[k]) : k \in DOMAIN v} = (UNION {ToSet(u[k]) : k \in DOMAIN u}) \cup ToSet(s)
    BY <2>4
  <2> QED BY <2>1, <2>3, <2>5 DEF v
<1>3. \A u \in Seq(Seq(S)) : u \in Good
  <2> HIDE DEF Good
  <2> QED BY <1>1, <1>2, SeqInduction
<1> QED BY <1>3

LEMMA ConcatDistinct ==
    ASSUME NEW S, NEW s \in Seq(S), NEW t \in Seq(S), NEW key,
           Distinct(key, s), Distinct(key, t), Keys(key, s) \cap Keys(key, t) = {}
    PROVE  Distinct(key, s \o t)
<1>1. Len(s) \in Nat /\ Len(t) \in Nat /\ DOMAIN s = 1 .. Len(s) /\ DOMAIN t = 1 .. Len(t)
  BY LenProperties
<1>2. s \o t \in Seq(S) /\ Len(s \o t) = Len(s) + Len(t)
      /\ \A i \in 1 .. Len(s) + Len(t) : (s \o t)[i] = IF i <= Len(s) THEN s[i] ELSE t[i - Len(s)]
  BY ConcatProperties
<1> DEFINE u == s \o t
<1>3. DOMAIN u = 1 .. Len(s) + Len(t)
  BY <1>2, LenProperties
<1> SUFFICES ASSUME NEW i \in 1 .. Len(s) + Len(t), NEW j \in 1 .. Len(s) + Len(t), key[u[i]] = key[u[j]]
             PROVE  i = j
  BY <1>3 DEF Distinct
<1>4. ASSUME NEW a \in DOMAIN s, NEW b \in DOMAIN t PROVE key[s[a]] # key[t[b]]
  BY DEF Keys, ToSet
<1>5. u[i] = (IF i <= Len(s) THEN s[i] ELSE t[i - Len(s)]) /\ u[j] = IF j <= Len(s) THEN s[j] ELSE t[j - Len(s)]
  BY <1>2
<1> HIDE DEF u
<1>6. CASE i <= Len(s) /\ j <= Len(s)
  BY <1>1, <1>5, <1>6 DEF Distinct
<1>7. CASE ~(i <= Len(s)) /\ ~(j <= Len(s))
  <2>1. i - Len(s) \in DOMAIN t /\ j - Len(s) \in DOMAIN t
    BY <1>1, <1>7
  <2>2. i - Len(s) = j - Len(s)
    BY <1>5, <1>7, <2>1 DEF Distinct
  <2> QED BY <1>1, <2>2
<1>8. CASE i <= Len(s) /\ ~(j <= Len(s))
  <2>1. i \in DOMAIN s /\ j - Len(s) \in DOMAIN t
    BY <1>1, <1>8
  <2> QED BY <1>4, <1>5, <1>8, <2>1
<1>9. CASE ~(i <= Len(s)) /\ j <= Len(s)
  <2>1. j \in DOMAIN s /\ i - Len(s) \in DOMAIN t
    BY <1>1, <1>9
  <2> QED BY <1>4, <1>5, <1>9, <2>1
<1> QED BY <1>6, <1>7, <1>8, <1>9

LEMMA FlattenDistinct ==
    ASSUME NEW S, NEW ss \in Seq(Seq(S)), NEW key, Separate(key, ss)
    PROVE  Distinct(key, FlattenSeq(ss))
<1> DEFINE Good == {u \in Seq(Seq(S)) : Separate(key, u) => Distinct(key, FlattenSeq(u))}
<1>1. <<>> \in Good
  BY FlattenEmpty, EmptySeq DEF Distinct
<1>2. ASSUME NEW u \in Seq(Seq(S)), NEW s \in Seq(S), u \in Good PROVE Append(u, s) \in Good
  <2> DEFINE v == Append(u, s)
             n == Len(u) + 1
  <2>1. v \in Seq(Seq(S))
    BY AppendProperties
  <2>2. FlattenSeq(u) \in Seq(S) /\ FlattenSeq(v) = FlattenSeq(u) \o s
    BY FlattenAppend
  <2>3. DOMAIN v = DOMAIN u \cup {n} /\ n \notin DOMAIN u /\ v[n] = s /\ \A k \in DOMAIN u : v[k] = u[k]
    BY ToSetAppend
  <2> HIDE DEF v, n
  <2> SUFFICES ASSUME Separate(key, v) PROVE Distinct(key, FlattenSeq(v))
    BY <2>1 DEF v
  <2>4. Separate(key, u)
    BY <2>3 DEF Separate
  <2>5. Distinct(key, FlattenSeq(u))
    BY <1>2, <2>4
  <2>6. Distinct(key, s)
    BY <2>3 DEF Separate, Distinct
  <2>7. Keys(key, FlattenSeq(u)) \cap Keys(key, s) = {}
    <3>1. ToSet(FlattenSeq(u)) = UNION {ToSet(u[k]) : k \in DOMAIN u}
      BY FlattenRange
    <3> SUFFICES ASSUME NEW x \in ToSet(FlattenSeq(u)), NEW y \in ToSet(s), key[x] = key[y] PROVE FALSE
      BY DEF Keys
    <3>2. PICK k \in DOMAIN u : x \in ToSet(u[k])
      BY <3>1
    <3>3. PICK i \in DOMAIN u[k] : x = u[k][i]
      BY <3>2 DEF ToSet
    <3>4. PICK j \in DOMAIN s : y = s[j]
      BY DEF ToSet
    <3> QED BY <2>3, <3>3, <3>4 DEF Separate
  <2> QED BY <2>2, <2>5, <2>6, <2>7, ConcatDistinct
<1>3. \A u \in Seq(Seq(S)) : u \in Good
  <2> HIDE DEF Good
  <2> QED BY <1>1, <1>2, SeqInduction
<1> QED BY <1>3

-----------------------------------------------------------------------------
(* Sums over sequences *)

SeqSum(f, s) == SumFunction([n \in DOMAIN s |-> f[s[n]]])

LEMMA SeqSumType ==
    ASSUME NEW S, NEW s \in Seq(S), NEW f, \A x \in S : f[x] \in Nat
    PROVE  /\ SeqSum(f, s) \in Nat
           /\ SeqSum(f, s) = SumFunctionOnSet([n \in DOMAIN s |-> f[s[n]]], DOMAIN s)
           /\ IsFiniteSet(DOMAIN s)
           /\ \A n \in DOMAIN s : f[s[n]] \in Nat
<1> DEFINE g == [n \in DOMAIN s |-> f[s[n]]]
<1>1. DOMAIN s = 1 .. Len(s) /\ Len(s) \in Nat /\ \A n \in DOMAIN s : s[n] \in S
  BY LenProperties, ElementOfSeq
<1>2. IsFiniteSet(DOMAIN s)
  BY <1>1, FS_Interval
<1>3. (\A n \in DOMAIN s : g[n] \in Nat) /\ DOMAIN g = DOMAIN s
  BY <1>1
<1>4. SeqSum(f, s) = SumFunctionOnSet(g, DOMAIN g)
  BY DEF SeqSum, SumFunction
<1> HIDE DEF g
<1>5. SumFunctionOnSet(g, DOMAIN s) \in Nat
  BY <1>2, <1>3, SumRecursion
<1> QED BY <1>1, <1>2, <1>3, <1>4, <1>5 DEF g

LEMMA SeqSumEmpty == ASSUME NEW f PROVE SeqSum(f, <<>>) = 0
<1> DEFINE g == [n \in {} |-> f[<<>>[n]]]
<1>1. SeqSum(f, <<>>) = SumFunction([n \in DOMAIN <<>> |-> f[<<>>[n]]])
  BY DEF SeqSum
<1>2. DOMAIN <<>> = {}
  OBVIOUS
<1>3. SeqSum(f, <<>>) = SumFunction(g) /\ DOMAIN g = {}
  BY <1>1, <1>2
<1> HIDE DEF g
<1>4. SumFunctionOnSet(g, {}) = 0
  BY FS_EmptySet, SumRecursion
<1> QED BY <1>3, <1>4 DEF SumFunction

LEMMA SeqSumAppend ==
    ASSUME NEW S, NEW s \in Seq(S), NEW e \in S, NEW f, \A x \in S : f[x] \in Nat
    PROVE  /\ SeqSum(f, <<>>) = 0
           /\ SeqSum(f, Append(s, e)) = SeqSum(f, s) + f[e]
<1> DEFINE t == Append(s, e)
           m == Len(s) + 1
           g == [n \in DOMAIN s |-> f[s[n]]]
           h == [n \in DOMAIN t |-> f[t[n]]]
<1>1. SeqSum(f, <<>>) = 0
  BY SeqSumEmpty
<1>2. t \in Seq(S) /\ DOMAIN t = DOMAIN s \cup {m} /\ m \notin DOMAIN s /\ t[m] = e /\ \A k \in DOMAIN s : t[k] = s[k]
  BY AppendProperties, ToSetAppend
<1> HIDE DEF t, m
<1>3. SeqSum(f, s) = SumFunctionOnSet(g, DOMAIN s) /\ IsFiniteSet(DOMAIN s) /\ \A n \in DOMAIN s : f[s[n]] \in Nat
  BY SeqSumType
<1>4. SeqSum(f, t) = SumFunctionOnSet(h, DOMAIN t) /\ IsFiniteSet(DOMAIN t) /\ \A n \in DOMAIN t : f[t[n]] \in Nat
  BY <1>2, SeqSumType
<1>5. SumFunctionOnSet(h, DOMAIN t) = h[m] + SumFunctionOnSet(h, DOMAIN t \ {m})
  <2>1. (\A n \in DOMAIN t : h[n] \in Nat) /\ m \in DOMAIN t
    BY <1>2, <1>4
  <2> HIDE DEF h
  <2> QED BY <1>4, <2>1, SumRemove
<1>6. DOMAIN t \ {m} = DOMAIN s /\ h[m] = f[e]
  BY <1>2
<1>7. SumFunctionOnSet(h, DOMAIN s) = SumFunctionOnSet(g, DOMAIN s)
  <2>1. \A n \in DOMAIN s : g[n] \in Nat /\ h[n] = g[n]
    BY <1>2, <1>3
  <2> HIDE DEF g, h
  <2> QED BY <1>3, <2>1, SumEqual
<1>8. SeqSum(f, s) \in Nat /\ f[e] \in Nat
  BY SeqSumType
<1> HIDE DEF g, h
<1> QED BY <1>1, <1>3, <1>4, <1>5, <1>6, <1>7, <1>8 DEF t

LEMMA SeqSumConcat ==
    ASSUME NEW S, NEW s \in Seq(S), NEW t \in Seq(S), NEW f, \A x \in S : f[x] \in Nat
    PROVE  SeqSum(f, s \o t) = SeqSum(f, s) + SeqSum(f, t)
<1> DEFINE Good == {u \in Seq(S) : SeqSum(f, s \o u) = SeqSum(f, s) + SeqSum(f, u)}
<1>1. <<>> \in Good
  <2>1. <<>> \in Seq(S) /\ s \o <<>> = s /\ SeqSum(f, s) \in Nat
    BY EmptySeq, ConcatEmptySeq, SeqSumType
  <2>2. SeqSum(f, <<>>) = 0
    BY SeqSumEmpty
  <2> QED BY <2>1, <2>2
<1>2. ASSUME NEW u \in Seq(S), NEW e \in S, u \in Good PROVE Append(u, e) \in Good
  <2>1. Append(u, e) \in Seq(S) /\ s \o u \in Seq(S) /\ <<e>> \in Seq(S)
    BY AppendProperties, ConcatProperties
  <2>2. s \o Append(u, e) = Append(s \o u, e)
    <3>1. Append(u, e) = u \o <<e>> /\ Append(s \o u, e) = (s \o u) \o <<e>>
      BY <2>1, AppendIsConcat
    <3> QED BY <2>1, <3>1, ConcatAssociative
  <2>3. SeqSum(f, Append(s \o u, e)) = SeqSum(f, s \o u) + f[e]
    BY <2>1, SeqSumAppend
  <2>4. SeqSum(f, Append(u, e)) = SeqSum(f, u) + f[e]
    BY SeqSumAppend
  <2>5. SeqSum(f, s) \in Nat /\ SeqSum(f, u) \in Nat /\ f[e] \in Nat
    BY SeqSumType
  <2>6. SeqSum(f, s \o u) = SeqSum(f, s) + SeqSum(f, u)
    BY <1>2
  <2>7. SeqSum(f, s \o Append(u, e)) = SeqSum(f, s) + SeqSum(f, Append(u, e))
    BY <2>2, <2>3, <2>4, <2>5, <2>6
  <2> QED BY <2>1, <2>7
<1>3. \A u \in Seq(S) : u \in Good
  <2> HIDE DEF Good
  <2> QED BY <1>1, <1>2, SeqInduction
<1> QED BY <1>3

(* What adds up under concatenation adds up under flattening. *)
LEMMA FlattenSum ==
    ASSUME NEW S, NEW ss \in Seq(Seq(S)), NEW m, \A s \in Seq(S) : m[s] \in Nat,
           m[<<>>] = 0, \A s, t \in Seq(S) : m[s \o t] = m[s] + m[t]
    PROVE  m[FlattenSeq(ss)] = SeqSum(m, ss)
<1> DEFINE Good == {u \in Seq(Seq(S)) : m[FlattenSeq(u)] = SeqSum(m, u)}
<1>1. <<>> \in Good
  <2>1. <<>> \in Seq(S) /\ <<>> \in Seq(Seq(S))
    BY EmptySeq
  <2>2. SeqSum(m, <<>>) = 0
    BY <2>1, SeqSumAppend
  <2> QED BY <2>1, <2>2, FlattenEmpty
<1>2. ASSUME NEW u \in Seq(Seq(S)), NEW s \in Seq(S), u \in Good PROVE Append(u, s) \in Good
  <2>1. Append(u, s) \in Seq(Seq(S)) /\ FlattenSeq(u) \in Seq(S) /\ FlattenSeq(Append(u, s)) = FlattenSeq(u) \o s
    BY AppendProperties, FlattenAppend
  <2>2. SeqSum(m, Append(u, s)) = SeqSum(m, u) + m[s]
    BY SeqSumAppend
  <2> QED BY <1>2, <2>1, <2>2
<1>3. \A u \in Seq(Seq(S)) : u \in Good
  <2> HIDE DEF Good
  <2> QED BY <1>1, <1>2, SeqInduction
<1> QED BY <1>3

LEMMA SubsequenceSum ==
    ASSUME NEW S, NEW s \in Seq(S), NEW at \in SUBSET DOMAIN s, NEW f, \A x \in S : f[x] \in Nat
    PROVE  SeqSum(f, Subsequence(s, at)) = SumFunctionOnSet([k \in DOMAIN s |-> f[s[k]]], at)
<1> DEFINE g == [k \in DOMAIN s |-> f[s[k]]]
           sub == Subsequence(s, at)
           N == Cardinality(at)
<1>1. PICK idx : Lists(idx, at) /\ sub = [n \in 1 .. N |-> s[idx[n]]]
  BY SubsequenceType DEF IsArranged
<1>2. sub \in Seq(S) /\ DOMAIN sub = 1 .. N /\ N \in Nat
  BY SubsequenceType
<1>3. \A k \in DOMAIN s : f[s[k]] \in Nat
  BY SeqSumType
<1> DEFINE t == [n \in 1 .. N |-> f[sub[n]]]
<1> HIDE DEF N
<1>4. {idx[n] : n \in 1 .. N} = at
  BY <1>1 DEF Lists, N
<1>5. \A n \in 1 .. N : t[n] \in Nat /\ g[idx[n]] = t[n]
  BY <1>1, <1>3 DEF Lists, N
<1>6. \A m, n \in 1 .. N : idx[m] = idx[n] => m = n
  BY <1>1 DEF Lists, N
<1>7. SeqSum(f, sub) = SumFunctionOnSet(t, 1 .. N)
  <2> HIDE DEF sub
  <2>1. SeqSum(f, sub) = SumFunctionOnSet([n \in DOMAIN sub |-> f[sub[n]]], DOMAIN sub)
    BY <1>2, SeqSumType
  <2> QED BY <1>2, <2>1
<1>8. IsFiniteSet(1 .. N)
  BY <1>2, FS_Interval
<1>9. SumFunctionOnSet(g, {idx[n] : n \in 1 .. N}) = SumFunctionOnSet(t, 1 .. N)
  <2> DEFINE D == 1 .. N
  <2>1. IsFiniteSet(D) /\ (\A n \in D : t[n] \in Nat /\ g[idx[n]] = t[n]) /\ \A m, n \in D : idx[m] = idx[n] => m = n
    BY <1>5, <1>6, <1>8
  <2> HIDE DEF g, t, D
  <2>2. SumFunctionOnSet(g, {idx[n] : n \in D}) = SumFunctionOnSet(t, D)
    BY <2>1, SumReindex
  <2> QED BY <2>2 DEF D
<1> QED BY <1>4, <1>7, <1>9

-----------------------------------------------------------------------------
(* Maxima *)

LEMMA MaxFacts ==
    ASSUME NEW T, IsFiniteSet(T), T \subseteq Int, T # {}
    PROVE  Max(T) \in T /\ \A y \in T : y <= Max(T)
<1> DEFINE Good == {U \in SUBSET T : U # {} => \E x \in U : \A y \in U : y <= x}
<1>1. {} \in Good
  OBVIOUS
<1>2. ASSUME NEW U \in SUBSET T, NEW e \in T \ U, U \in Good PROVE U \cup {e} \in Good
  <2>1. CASE U = {}
    <3>1. \A y \in U \cup {e} : y <= e
      BY <2>1
    <3> QED BY <3>1
  <2>2. CASE U # {}
    <3>1. PICK x \in U : \A y \in U : y <= x
      BY <1>2, <2>2
    <3>2. x \in Int /\ e \in Int /\ \A y \in U : y \in Int
      OBVIOUS
    <3>3. CASE e <= x
      <4>1. \A y \in U \cup {e} : y <= x
        BY <3>1, <3>3
      <4> QED BY <4>1
    <3>4. CASE x <= e
      <4>1. \A y \in U \cup {e} : y <= e
        BY <3>1, <3>2, <3>4
      <4> QED BY <4>1
    <3> QED BY <3>2, <3>3, <3>4
  <2> QED BY <2>1, <2>2
<1>3. T \in Good
  <2> HIDE DEF Good
  <2> QED BY <1>1, <1>2, FiniteInduction
<1>4. \E x \in T : \A y \in T : x >= y
  <2>1. PICK x \in T : \A y \in T : y <= x
    BY <1>3
  <2>2. \A y \in T : x >= y
    BY <2>1
  <2> QED BY <2>2
<1>5. Max(T) \in T /\ \A y \in T : Max(T) >= y
  BY <1>4, Zenon DEF Max
<1> QED BY <1>5

LEMMA SubsequenceSeparate ==
    ASSUME NEW S, NEW ss \in Seq(Seq(S)), NEW at \in SUBSET DOMAIN ss, NEW key, Separate(key, ss)
    PROVE  Separate(key, Subsequence(ss, at))
<1> DEFINE sub == Subsequence(ss, at)
<1>1. PICK idx : Lists(idx, at) /\ sub = [n \in 1 .. Cardinality(at) |-> ss[idx[n]]]
  BY SubsequenceType DEF IsArranged
<1>2. DOMAIN sub = 1 .. Cardinality(at)
  BY <1>1
<1> HIDE DEF sub
<1> SUFFICES ASSUME NEW k \in DOMAIN sub, NEW l \in DOMAIN sub, NEW i \in DOMAIN sub[k], NEW j \in DOMAIN sub[l],
                    key[sub[k][i]] = key[sub[l][j]]
             PROVE  k = l /\ i = j
  BY DEF Separate, sub
<1>3. sub[k] = ss[idx[k]] /\ sub[l] = ss[idx[l]] /\ idx[k] \in at /\ idx[l] \in at
  BY <1>1, <1>2 DEF Lists
<1>4. idx[k] = idx[l] /\ i = j
  BY <1>3 DEF Separate
<1> QED BY <1>1, <1>2, <1>4 DEF Lists

(* In a sequence without repetition a key tells its element. *)
LEMMA DistinctElements ==
    ASSUME NEW s, NEW key, Distinct(key, s), NEW x \in ToSet(s), NEW y \in ToSet(s), key[x] = key[y]
    PROVE  x = y
BY DEF Distinct, ToSet

-----------------------------------------------------------------------------
(* Reordered sequences *)

(* A stable sort lists every element once. *)
LEMMA SortLists ==
    ASSUME NEW S, NEW s \in Seq(S), NEW key, \A x \in S : key[x] \in Int
    PROVE  IsArranged(SortedBy(s, key), s, DOMAIN s)
<1> DEFINE N == Len(s)
           at == DOMAIN s
           Before(j, k) == \/ key[s[j]] < key[s[k]]
                           \/ key[s[j]] = key[s[k]] /\ j <= k
           R == {p \in at \X at : Before(p[1], p[2])}
<1>1. at = 1 .. N /\ N \in Nat /\ \A k \in at : key[s[k]] \in Int
  <2>1. at = 1 .. N /\ N \in Nat
    BY LenProperties
  <2>2. \A k \in 1 .. N : s[k] \in S
    BY ElementOfSeq
  <2> QED BY <2>1, <2>2
<1>2. IsFiniteSet(at)
  <2>1. at \in SUBSET (1 .. N)
    BY <1>1
  <2> HIDE DEF N, at
  <2> QED BY <1>1, <2>1, SubsequenceLists
<1>3. \A j, k \in at : <<j, k>> \in R <=> Before(j, k)
  OBVIOUS
<1> HIDE DEF R
<1>4. IsRanking(RankBy(R, at), at)
  <2> SUFFICES /\ \A j \in at : <<j, j>> \in R
               /\ \A j, k \in at : j # k => (<<j, k>> \in R <=> ~ (<<k, j>> \in R))
               /\ \A j, k, l \in at : <<j, k>> \in R /\ <<k, l>> \in R => <<j, l>> \in R
    <3> HIDE DEF at
    <3> QED BY <1>2, RanksAreAll
  <2>1. \A j \in at : <<j, j>> \in R
    BY <1>1, <1>3
  <2>2. ASSUME NEW j \in at, NEW k \in at, j # k PROVE <<j, k>> \in R <=> ~ (<<k, j>> \in R)
    <3>1. key[s[j]] \in Int /\ key[s[k]] \in Int /\ j \in Int /\ k \in Int
      BY <1>1
    <3>2. Before(j, k) <=> ~Before(k, j)
      BY <2>2, <3>1
    <3> QED BY <1>3, <3>2
  <2>3. ASSUME NEW j \in at, NEW k \in at, NEW l \in at, <<j, k>> \in R, <<k, l>> \in R PROVE <<j, l>> \in R
    <3>1. /\ key[s[j]] \in Int /\ key[s[k]] \in Int /\ key[s[l]] \in Int
          /\ j \in Int /\ k \in Int /\ l \in Int
      BY <1>1
    <3>2. Before(j, k) /\ Before(k, l)
      BY <1>3, <2>3
    <3>3. Before(j, l)
      BY <3>1, <3>2
    <3> QED BY <1>3, <3>3
  <2> QED BY <2>1, <2>2, <2>3
<1>5. RankBy(R, at) = [k \in at |-> Cardinality({j \in at : Before(j, k)})]
  <2>1. \A k \in at : {j \in at : <<j, k>> \in R} = {j \in at : Before(j, k)}
    BY <1>3
  <2> QED BY <2>1 DEF RankBy
<1>6. IsArranged(Arrange(s, RankBy(R, at)), s, at)
  BY <1>4, ArrangeLists
<1> QED BY <1>5, <1>6 DEF SortedBy

(* Reordering keeps the elements and their number. *)
LEMMA ReorderedFacts ==
    ASSUME NEW S, NEW s \in Seq(S), NEW t, IsArranged(t, s, DOMAIN s)
    PROVE  /\ t \in Seq(S) /\ Len(t) = Len(s) /\ DOMAIN t = DOMAIN s
           /\ ToSet(t) = ToSet(s)
           /\ \A key : Distinct(key, s) => Distinct(key, t)
           /\ IsInjective(s) => IsInjective(t)
<1> DEFINE N == Len(s)
<1>1. DOMAIN s = 1 .. N /\ N \in Nat /\ s \in [1 .. N -> S]
  BY LenProperties
<1>2. Cardinality(DOMAIN s) = N
  <2> HIDE DEF N
  <2>1. 1 \in Int /\ N \in Int
    BY <1>1
  <2>2. Cardinality(1 .. N) = IF 1 > N THEN 0 ELSE N - 1 + 1
    BY <2>1, FS_Interval
  <2> QED BY <1>1, <2>2
<1>3. PICK idx : Lists(idx, DOMAIN s) /\ t = [n \in 1 .. N |-> s[idx[n]]]
  BY <1>2 DEF IsArranged
<1>4. /\ \A n \in 1 .. N : idx[n] \in 1 .. N
      /\ \A m, n \in 1 .. N : idx[m] = idx[n] => m = n
      /\ \A k \in 1 .. N : \E n \in 1 .. N : idx[n] = k
  BY <1>1, <1>2, <1>3 DEF Lists
<1>5. t \in [1 .. N -> S]
  BY <1>1, <1>3, <1>4
<1>6. t \in Seq(S) /\ DOMAIN t = 1 .. N
  BY <1>1, <1>5
<1>7. Len(t) = N
  BY <1>1, <1>6, LenProperties
<1>8. ToSet(t) = ToSet(s)
  BY <1>1, <1>3, <1>4, <1>6 DEF ToSet
<1> HIDE DEF N
<1>a. ASSUME NEW n \in 1 .. N PROVE t[n] = s[idx[n]] /\ idx[n] \in DOMAIN s
  BY <1>1, <1>3, <1>4
<1>9. ASSUME NEW key, Distinct(key, s) PROVE Distinct(key, t)
  <2> SUFFICES ASSUME NEW m \in 1 .. N, NEW n \in 1 .. N, key[t[m]] = key[t[n]] PROVE m = n
    BY <1>6 DEF Distinct
  <2>1. idx[m] = idx[n]
    BY <1>a, <1>9 DEF Distinct
  <2> QED BY <1>4, <2>1
<1>10. ASSUME IsInjective(s) PROVE IsInjective(t)
  <2> SUFFICES ASSUME NEW m \in 1 .. N, NEW n \in 1 .. N, t[m] = t[n] PROVE m = n
    BY <1>6 DEF IsInjective
  <2>1. idx[m] = idx[n]
    BY <1>a, <1>10 DEF IsInjective
  <2> QED BY <1>4, <2>1
<1> QED BY <1>1, <1>6, <1>7, <1>8, <1>9, <1>10 DEF N

(* The elements of a finite set, each once *)
LEMMA SetToSeqFacts ==
    ASSUME NEW S, IsFiniteSet(S)
    PROVE  /\ SetToSeq(S) \in Seq(S) /\ ToSet(SetToSeq(S)) = S /\ IsInjective(SetToSeq(S))
           /\ DOMAIN SetToSeq(S) = 1 .. Cardinality(S) /\ Cardinality(S) \in Nat
           /\ IsFiniteSet(1 .. Cardinality(S))
<1> DEFINE N == Cardinality(S)
           s == SetToSeq(S)
<1>1. N \in Nat /\ ExistsBijection(1 .. N, S)
  BY FS_CardinalityType
<1>2. IsFiniteSet(1 .. N) /\ Cardinality(1 .. N) = N
  <2>1. 1 \in Int /\ N \in Int
    BY <1>1
  <2> HIDE DEF N
  <2>2. IsFiniteSet(1 .. N) /\ Cardinality(1 .. N) = IF 1 > N THEN 0 ELSE N - 1 + 1
    BY <2>1, FS_Interval
  <2> QED BY <1>1, <2>2 DEF N
<1>3. \E f \in [1 .. N -> S] : IsInjective(f)
  BY <1>1 DEF ExistsBijection, Bijection, Injection
<1>4. s \in [1 .. N -> S] /\ IsInjective(s)
  BY <1>3 DEF SetToSeq
<1> HIDE DEF s
<1>5. s \in Injection(1 .. N, S)
  BY <1>4 DEF Injection
<1>6. s \in Surjection(1 .. N, S)
  <2> DEFINE I == 1 .. N
  <2>1. s \in Injection(I, S) /\ Cardinality(I) = Cardinality(S)
    BY <1>2, <1>5
  <2> HIDE DEF I
  <2>2. s \in Surjection(I, S)
    BY <2>1, FS_Injection
  <2> QED BY <2>2 DEF I
<1>7. ToSet(s) = S
  BY <1>4, <1>6 DEF ToSet, Surjection
<1>8. s \in Seq(S)
  BY <1>1, <1>4
<1> QED BY <1>1, <1>2, <1>4, <1>7, <1>8 DEF s
=============================================================================
