--------------------------- MODULE EnvelopeProofs ---------------------------
(***************************************************************************)
(* For every file, damage, reader, list of KASes and concurrency limit:      *)
(* unwrapKey is the and-or of KeyRecovery and asks no KAS needlessly; fewer  *)
(* shares than all hide the key; a stream opens only on the file as it was   *)
(* written, and a refusal has a cause.                                       *)
(*                                                                         *)
(* The shares rest on one fact about folds of exclusive or: a string is in   *)
(* the result iff it is in an odd number of what was folded.  Sequences are  *)
(* as long as the plan, so it is proved by the least prefix for which it     *)
(* would fail, and a fold from the equation of its recursive function.       *)
(***************************************************************************)
EXTENDS Envelope, FiniteSetTheorems, WellFoundedInduction, TLAPS

-----------------------------------------------------------------------------
(* Numbers and sets of them.  A set of numbers has a least one: what every   *)
(* induction below rests on, as an argument by the least counterexample.     *)
LEMMA LeastNumber ==
  ASSUME NEW T, T \subseteq Nat, T # {}
  PROVE  \E n \in T : \A m \in T : n <= m
<1>1. \A m, n \in Nat : m < n => <<m, n>> \in OpToRel(<, Nat)
  BY Zenon DEF OpToRel
<1>2. PICK n \in T : \A m \in T : ~(<<m, n>> \in OpToRel(<, Nat))
  BY NatLessThanWellFounded, WFMin, Zenon
<1>3. \A m \in T : ~(m < n)
  BY <1>1, <1>2, Zenon
<1> QED
  BY <1>3

Below(jobs, i) == {j \in jobs : j < i}

(* The lower set of a lower number is smaller.                               *)
LEMMA BelowIsMonotone ==
  ASSUME NEW jobs, \A i \in jobs : i \in Nat, IsFiniteSet(jobs)
  PROVE  /\ \A i \in jobs : /\ IsFiniteSet(Below(jobs, i))
                            /\ Cardinality(Below(jobs, i)) \in Nat
                            /\ Cardinality(Below(jobs, i)) < Cardinality(jobs)
         /\ \A i, j \in jobs :
              j < i => Cardinality(Below(jobs, j)) < Cardinality(Below(jobs, i))
<1>1. ASSUME NEW i \in jobs
      PROVE  /\ IsFiniteSet(Below(jobs, i))
             /\ Cardinality(Below(jobs, i)) \in Nat
             /\ Cardinality(Below(jobs, i)) < Cardinality(jobs)
  <2>1. Below(jobs, i) \in SUBSET jobs /\ i \in jobs \ Below(jobs, i)
    BY DEF Below
  <2>2. Cardinality(Below(jobs, i)) # Cardinality(jobs)
    BY <2>1, FS_Subset
  <2> QED
    BY <2>1, <2>2, FS_Subset, FS_CardinalityType
<1>2. ASSUME NEW i \in jobs, NEW j \in jobs, j < i
      PROVE  Cardinality(Below(jobs, j)) < Cardinality(Below(jobs, i))
  <2>1. \A k \in Below(jobs, j) : k \in Below(jobs, i)
    BY <1>2 DEF Below
  <2>2. j \in Below(jobs, i) /\ j \notin Below(jobs, j)
    BY <1>2 DEF Below
  <2>3. /\ Cardinality(Below(jobs, j)) <= Cardinality(Below(jobs, i))
        /\ Cardinality(Below(jobs, j)) # Cardinality(Below(jobs, i))
    BY <2>1, <2>2, <1>1, FS_Subset
  <2> QED
    BY <2>3, <1>1
<1> QED
  BY <1>1, <1>2

(* A finite set of numbers is numbered by how many are below.                *)
LEMMA BelowNumbers ==
  ASSUME NEW jobs, \A i \in jobs : i \in Nat, IsFiniteSet(jobs),
         NEW k \in 1 .. Cardinality(jobs)
  PROVE  \E i \in jobs : Cardinality(Below(jobs, i)) = k - 1
<1> DEFINE n == Cardinality(jobs)
           rank == [i \in jobs |-> Cardinality(Below(jobs, i))]
<1>0. n \in Nat
  BY FS_CardinalityType
<1>1. rank \in [jobs -> 0 .. n - 1]
  BY <1>0, BelowIsMonotone
<1>2. \A i, j \in jobs : rank[i] = rank[j] => i = j
  BY BelowIsMonotone
<1>3. rank \in Injection(jobs, 0 .. n - 1)
  BY <1>1, <1>2 DEF Injection, IsInjective
<1>4. IsFiniteSet(0 .. n - 1) /\ Cardinality(0 .. n - 1) = n
  <2>1. ASSUME NEW m \in Nat PROVE IsFiniteSet(0 .. m - 1) /\ Cardinality(0 .. m - 1) = m
    <3>1. m - 1 \in Int /\ 0 \in Int
      OBVIOUS
    <3> QED
      BY <3>1, FS_Interval
  <2> QED
    BY <1>0, <2>1
<1>5. rank \in Surjection(jobs, 0 .. n - 1)
  BY <1>3, <1>4, FS_Injection
<1>6. k - 1 \in 0 .. n - 1
  BY <1>0
<1> QED
  BY <1>5, <1>6 DEF Surjection


(* Two finite sets with nothing in common.                                   *)
LEMMA DisjointUnion ==
  ASSUME NEW S, NEW T, IsFiniteSet(S), IsFiniteSet(T), S \cap T = {}
  PROVE  /\ IsFiniteSet(S \cup T)
         /\ Cardinality(S \cup T) = Cardinality(S) + Cardinality(T)
<1>1. Cardinality(S) \in Nat /\ Cardinality(T) \in Nat
  BY FS_CardinalityType
<1>2. /\ IsFiniteSet(S \cup T)
      /\ Cardinality(S \cup T) = Cardinality(S) + Cardinality(T) - Cardinality(S \cap T)
  BY FS_Union
<1>3. Cardinality(S \cap T) = 0
  BY FS_EmptySet
<1> QED
  BY <1>1, <1>2, <1>3
-----------------------------------------------------------------------------
(* Exclusive or.  A number is in the exclusive or of a list of sets if an    *)
(* odd number of them hold it.                                               *)
Places(seq, s, j) == {p \in s : j \in seq[p]}
(* What a bit becomes when it is counted: parity and its exclusive or.       *)
Odd(n) == n % 2 = 1
Differ(a, b) == (a /\ ~b) \/ (b /\ ~a)

(* The highest number of a set, which folds take away first or last.         *)
Highest(s) == CHOOSE x \in s : \A y \in s : x >= y

(* A finite set of numbers that is not empty has a highest one.              *)
LEMMA HighestIs ==
  ASSUME NEW n \in Nat, NEW s, s \subseteq 1 .. n, s # {}
  PROVE  Highest(s) \in s
<1> DEFINE T == {n - x : x \in s}
<1>1. \A t \in T : t \in Nat
  OBVIOUS
<1>2. PICK t \in T : \A m \in T : t <= m
  <2>1. T \subseteq Nat /\ T # {}
    BY <1>1
  <2> QED
    BY <2>1, LeastNumber
<1>3. PICK x \in s : t = n - x
  BY <1>2
<1>4. ASSUME NEW y \in s PROVE x >= y
  <2>1. n - y \in T /\ x \in 1 .. n /\ y \in 1 .. n
    BY <1>3
  <2>2. n - x <= n - y
    BY <2>1, <1>2, <1>3
  <2> QED
    BY <2>1, <2>2
<1> QED
  BY <1>3, <1>4 DEF Highest

(* One more makes an odd number even and an even number odd.                 *)
LEMMA OddFlips == \A n \in Nat : Odd(n + 1) <=> ~Odd(n)
  BY DEF Odd

(* The parities of the empty set and of sets of one and of two.              *)
LEMMA Parities ==
  /\ ~Odd(Cardinality({}))
  /\ \A x : Odd(Cardinality({x}))
  /\ \A x, y : x # y => ~Odd(Cardinality({x, y}))
<1>1. Odd(1) /\ ~Odd(0) /\ ~Odd(2)
  BY DEF Odd
<1>2. \A x : IsFiniteSet({x}) /\ Cardinality({x}) = 1
  BY FS_Singleton
<1>3. ASSUME NEW x, NEW y, x # y PROVE Cardinality({x, y}) = 2
  <2>1. Cardinality({x} \cup {y}) = 1 + 1
    <3>1. IsFiniteSet({x}) /\ Cardinality({x}) = 1 /\ y \notin {x}
      BY <1>2, <1>3
    <3> QED
      BY <3>1, FS_AddElement
  <2>2. {x} \cup {y} = {x, y}
    OBVIOUS
  <2> QED
    BY <2>1, <2>2
<1>4. Cardinality({}) = 0
  BY FS_EmptySet
<1> QED
  BY <1>1, <1>2, <1>3, <1>4

(* The equation of the recursive function behind FoldLeft, over a prefix.    *)
FoldStep(g, base, seq, s) ==
  IF s = {} THEN base ELSE bxor(g[s \ {Highest(s)}], seq[Highest(s)])

(* The closed form satisfies the equation of the fold.                       *)
LEMMA ParityStep ==
  ASSUME NEW base, NEW n \in Nat, NEW seq, NEW s, s \subseteq 1 .. n, s # {}, NEW j
  PROVE  Odd(Cardinality(Places(seq, s, j))) <=>
           Differ(Odd(Cardinality(Places(seq, s \ {Highest(s)}, j))), j \in seq[Highest(s)])
<1> DEFINE m == Highest(s)
           before == Places(seq, s \ {m}, j)
<1>1. m \in s
  BY HighestIs
<1>2. IsFiniteSet(1 .. n)
  BY FS_Interval
<1>3. before \subseteq 1 .. n /\ m \notin before
  BY DEF Places
<1>4. IsFiniteSet(before) /\ Cardinality(before) \in Nat
  BY <1>2, <1>3, FS_Subset, FS_CardinalityType
<1>5. CASE j \in seq[m]
  <2>1. Places(seq, s, j) = before \cup {m}
    BY <1>1, <1>5 DEF Places
  <2>2. Cardinality(Places(seq, s, j)) = Cardinality(before) + 1
    BY <2>1, <1>3, <1>4, FS_AddElement
  <2> QED
    BY <2>2, <1>4, <1>5, OddFlips DEF Differ
<1>6. CASE j \notin seq[m]
  <2>1. Places(seq, s, j) = before
    BY <1>1, <1>6 DEF Places
  <2> QED
    BY <2>1, <1>6 DEF Differ
<1> QED
  BY <1>5, <1>6

(* A fold of bxor over nonces: a string is in it iff it is in an odd number  *)
(* of what was folded. By the least prefix for which it would not be.        *)
LEMMA FoldIsParity ==
  ASSUME NEW n \in Nat, NEW base, NEW seq, DOMAIN seq = 1 .. n, NEW j
  PROVE  j \in FoldLeft(bxor, base, seq) <=>
           Differ(j \in base, Odd(Cardinality(Places(seq, 1 .. n, j))))
<1> DEFINE D == SUBSET (1 .. n)
           all == base \cup UNION {seq[p] : p \in 1 .. n}
           g == [s \in D |-> {k \in all :
                   Differ(k \in base, Odd(Cardinality(Places(seq, s, k))))}]
<1>1. ASSUME NEW s \in D, NEW k, k \notin all
      PROVE  k \notin base /\ ~Odd(Cardinality(Places(seq, s, k)))
  <2>1. Places(seq, s, k) = {}
    BY <1>1 DEF Places
  <2> QED
    BY <2>1, <1>1, FS_EmptySet DEF Odd
<1>2. ASSUME NEW s \in D, NEW k
      PROVE  k \in g[s] <=> Differ(k \in base, Odd(Cardinality(Places(seq, s, k))))
  BY <1>1 DEF Differ
<1>3. ASSUME NEW s \in D PROVE g[s] = FoldStep(g, base, seq, s)
  <2>1. CASE s = {}
    <3>1. \A k : Places(seq, {}, k) = {}
      BY DEF Places
    <3>2. ~Odd(Cardinality({}))
      BY FS_EmptySet DEF Odd
    <3>3. \A k : k \in g[s] <=> k \in base
      BY <2>1, <1>2, <3>1, <3>2 DEF Differ
    <3> HIDE DEF g
    <3>4. g[s] = base
      BY <3>3
    <3> QED
      BY <2>1, <3>4 DEF FoldStep
  <2>2. CASE s # {}
    <3> DEFINE m == Highest(s)
    <3>1. s \ {m} \in D
      OBVIOUS
    <3>2. ASSUME NEW k PROVE k \in g[s] <=> k \in bxor(g[s \ {m}], seq[m])
      <4>1. Odd(Cardinality(Places(seq, s, k))) <=>
              Differ(Odd(Cardinality(Places(seq, s \ {m}, k))), k \in seq[m])
        BY <2>2, ParityStep
      <4>2. k \in g[s \ {m}] <=>
              Differ(k \in base, Odd(Cardinality(Places(seq, s \ {m}, k))))
        BY <3>1, <1>2
      <4>3. k \in g[s] <=> Differ(k \in base, Odd(Cardinality(Places(seq, s, k))))
        BY <1>2
      <4>4. k \in bxor(g[s \ {m}], seq[m]) <=> Differ(k \in g[s \ {m}], k \in seq[m])
        BY DEF bxor, Differ
      <4> HIDE DEF g, m
      <4> QED
        BY <4>1, <4>2, <4>3, <4>4 DEF Differ
    <3> HIDE DEF g, m
    <3>3. g[s] = bxor(g[s \ {m}], seq[m])
      BY <3>2
    <3> QED
      BY <2>2, <3>3 DEF FoldStep, m
  <2> QED
    BY <2>1, <2>2
<1> HIDE DEF g
<1>4. g = [s \in D |-> FoldStep(g, base, seq, s)]
  BY <1>3 DEF g
<1> DEFINE IsIter(iter) == iter = [s \in D |-> FoldStep(iter, base, seq, s)]
           fold == CHOOSE iter : IsIter(iter)
<1>5. IsIter(fold)
  BY <1>4
<1>6. FoldLeft(bxor, base, seq) = fold[1 .. n]
  BY DEF FoldLeft, MapThenFoldSet, Max, FoldStep, Highest
<1> HIDE DEF fold
<1>7. fold[1 .. n] = g[1 .. n]
  <2> DEFINE T == {Cardinality(s) : s \in {t \in D : fold[t] # g[t]}}
  <2>1. \A t \in D : IsFiniteSet(t) /\ Cardinality(t) \in Nat
    <3>1. IsFiniteSet(1 .. n)
      BY FS_Interval
    <3> QED
      BY <3>1, FS_Subset, FS_CardinalityType
  <2>2. ASSUME T # {} PROVE FALSE
    <3>1. T \subseteq Nat
      BY <2>1
    <3>2. PICK k \in T : \A l \in T : k <= l
      BY <2>2, <3>1, LeastNumber
    <3>3. PICK s \in D : fold[s] # g[s] /\ Cardinality(s) = k
      BY <3>2
    <3>4. fold[s] = FoldStep(fold, base, seq, s) /\ g[s] = FoldStep(g, base, seq, s)
      BY <1>4, <1>5
    <3>5. s # {}
      BY <3>3, <3>4 DEF FoldStep
    <3>6. Highest(s) \in s
      BY <3>5, HighestIs
    <3>7. s \ {Highest(s)} \in D /\ Cardinality(s \ {Highest(s)}) = k - 1
      BY <2>1, <3>3, <3>6, FS_RemoveElement
    <3>8. fold[s \ {Highest(s)}] = g[s \ {Highest(s)}]
      <4>1. ASSUME fold[s \ {Highest(s)}] # g[s \ {Highest(s)}] PROVE k - 1 \in T
        BY <4>1, <3>7
      <4> HIDE DEF T
      <4>2. k - 1 \notin T
        BY <3>1, <3>2
      <4> QED
        BY <4>1, <4>2
    <3> QED
      BY <3>3, <3>4, <3>5, <3>8 DEF FoldStep
  <2> QED
    BY <2>2
<1> QED
  BY <1>2, <1>6, <1>7

-----------------------------------------------------------------------------
(* SetToSeq is an enumeration.                                               *)
LEMMA SetToSeqEnumerates ==
  ASSUME NEW S, IsFiniteSet(S)
  PROVE  /\ Cardinality(S) \in Nat
         /\ SetToSeq(S) \in [1 .. Cardinality(S) -> S]
         /\ SetToSeq(S) \in Seq(S)
         /\ Len(SetToSeq(S)) = Cardinality(S)
         /\ DOMAIN SetToSeq(S) = 1 .. Cardinality(S)
         /\ \A k, l \in 1 .. Cardinality(S) : SetToSeq(S)[k] = SetToSeq(S)[l] => k = l
         /\ \A x \in S : \E k \in 1 .. Cardinality(S) : SetToSeq(S)[k] = x
<1> DEFINE n == Cardinality(S)
<1>1. n \in Nat /\ ExistsBijection(1 .. n, S)
  BY FS_CardinalityType
<1>2. PICK f : f \in [1 .. n -> S] /\ IsInjective(f)
  BY <1>1 DEF ExistsBijection, Bijection, Injection
<1>3. SetToSeq(S) \in [1 .. n -> S] /\ IsInjective(SetToSeq(S))
  BY <1>2 DEF SetToSeq
<1>4. SetToSeq(S) \in Injection(1 .. n, S)
  BY <1>3 DEF Injection
<1>5. IsFiniteSet(1 .. n) /\ Cardinality(1 .. n) = n
  BY <1>1, FS_Interval
<1>6. SetToSeq(S) \in Surjection(1 .. n, S)
  BY <1>4, <1>5, FS_Injection
<1> QED
  BY <1>1, <1>3, <1>6 DEF Surjection, IsInjective

-----------------------------------------------------------------------------
(* keyMerge.                                                                 *)
LEMMA MergeIsParity ==
  ASSUME NEW S, NEW splits \in Seq(S), splits # <<>>, NEW j
  PROVE  j \in keyMerge(splits) <=> Odd(Cardinality(Places(splits, 1 .. Len(splits), j)))
<1> DEFINE n == Len(splits)
           tail == Tail(splits)
           rest == Places(splits, 2 .. n, j)
           moved == Places(tail, 1 .. n - 1, j)
<1>1. n \in Nat /\ n >= 1
  OBVIOUS
<1>2. /\ tail \in Seq(S) /\ DOMAIN tail = 1 .. n - 1 /\ Head(splits) = splits[1]
      /\ \A p \in 1 .. n - 1 : tail[p] = splits[p + 1]
  OBVIOUS
<1> HIDE DEF tail, n
<1>3. j \in keyMerge(splits) <=> Differ(j \in splits[1], Odd(Cardinality(moved)))
  <2>1. n - 1 \in Nat
    BY <1>1
  <2>2. j \in FoldLeft(bxor, splits[1], tail) <=> Differ(j \in splits[1], Odd(Cardinality(moved)))
    BY <2>1, <1>2, FoldIsParity
  <2>3. keyMerge(splits) = FoldLeft(bxor, splits[1], tail)
    BY <1>2 DEF keyMerge, tail
  <2> QED
    BY <2>2, <2>3
<1>4. Cardinality(moved) = Cardinality(rest) /\ IsFiniteSet(rest)
      /\ Cardinality(rest) \in Nat
  <2> DEFINE f == [p \in moved |-> p + 1]
  <2>1. \A p \in moved : p \in 1 .. n - 1 /\ p + 1 \in rest
    BY <1>1, <1>2 DEF Places
  <2>2. ASSUME NEW p \in rest PROVE p - 1 \in moved /\ f[p - 1] = p
    <3>1. p \in 2 .. n /\ j \in splits[p]
      BY DEF Places
    <3>2. p - 1 \in 1 .. n - 1 /\ (p - 1) + 1 = p
      BY <1>1, <3>1
    <3>3. tail[p - 1] = splits[p]
      BY <1>2, <3>2
    <3>4. p - 1 \in moved
      BY <3>1, <3>2, <3>3 DEF Places
    <3> QED
      BY <3>2, <3>4
  <2>3. f \in Bijection(moved, rest)
    <3>1. f \in [moved -> rest]
      BY <2>1
    <3>2. \A p, q \in moved : f[p] = f[q] => p = q
      BY <2>1
    <3>3. \A p \in rest : \E q \in moved : f[q] = p
      BY <2>2
    <3> HIDE DEF f, moved, rest
    <3> QED
      BY <3>1, <3>2, <3>3 DEF Bijection, Injection, Surjection, IsInjective
  <2>4. IsFiniteSet(moved)
    <3>1. IsFiniteSet(1 .. n - 1)
      BY <1>1, FS_Interval
    <3> QED
      BY <3>1, FS_Subset DEF Places
  <2> HIDE DEF f, moved, rest
  <2>5. ExistsBijection(moved, rest)
    BY <2>3 DEF ExistsBijection
  <2> QED
    BY <2>4, <2>5, FS_Bijection, FS_CardinalityType
<1>5. CASE j \in splits[1]
  <2>1. Places(splits, 1 .. n, j) = rest \cup {1} /\ 1 \notin rest
    BY <1>1, <1>5 DEF Places
  <2>2. Cardinality(Places(splits, 1 .. n, j)) = Cardinality(rest) + 1
    BY <2>1, <1>4, FS_AddElement
  <2> QED
    BY <2>2, <1>3, <1>4, <1>5, OddFlips DEF Differ, n
<1>6. CASE j \notin splits[1]
  <2>1. Places(splits, 1 .. n, j) = rest
    BY <1>1, <1>6 DEF Places
  <2> QED
    BY <2>1, <1>3, <1>4, <1>6 DEF Differ, n
<1> QED
  BY <1>5, <1>6

(* keySplit: the nonces, and their exclusive or with the key.                *)
LEMMA SharesAre ==
  ASSUME NEW n \in Nat, n >= 1
  PROVE  /\ keySplit(Key, n) \in Seq(SUBSET Nat)
         /\ Len(keySplit(Key, n)) = n
         /\ \A k \in 1 .. n - 1 : keySplit(Key, n)[k] = {k}
         /\ keySplit(Key, n)[n] = 0 .. n - 1
<1> DEFINE nonces == [i \in 1 .. n - 1 |-> {i}]
           sum == FoldLeft(bxor, {0}, nonces)
<1>1. keySplit(Key, n) = Append(nonces, sum)
  BY DEF keySplit, randomBytes, Key
<1>2. n - 1 \in Nat /\ DOMAIN nonces = 1 .. n - 1
  OBVIOUS
<1>3. nonces \in Seq(SUBSET Nat) /\ Len(nonces) = n - 1
  <2>1. \A i \in 1 .. n - 1 : {i} \in SUBSET Nat
    OBVIOUS
  <2> QED
    BY <1>2, <2>1
<1>4. ASSUME NEW j PROVE j \in sum <=> j \in 0 .. n - 1
  <2>1. j \in sum <=> Differ(j \in {0}, Odd(Cardinality(Places(nonces, 1 .. n - 1, j))))
    <3> HIDE DEF nonces
    <3> QED
      BY <1>2, FoldIsParity
  <2>2. CASE j \in 1 .. n - 1
    <3>1. Places(nonces, 1 .. n - 1, j) = {j}
      BY <2>2 DEF Places
    <3>2. j # 0 /\ j \in 0 .. n - 1
      BY <2>2
    <3> HIDE DEF nonces, sum
    <3>3. Odd(Cardinality({j}))
      BY Parities
    <3> QED
      BY <2>1, <3>1, <3>2, <3>3 DEF Differ
  <2>3. CASE j \notin 1 .. n - 1
    <3>1. Places(nonces, 1 .. n - 1, j) = {}
      BY <2>3 DEF Places
    <3>2. ~Odd(Cardinality(Places(nonces, 1 .. n - 1, j)))
      BY <3>1, FS_EmptySet DEF Odd
    <3>3. j \in 0 .. n - 1 <=> j = 0
      BY <2>3
    <3> QED
      BY <2>1, <3>2, <3>3 DEF Differ
  <2> QED
    BY <2>2, <2>3
<1> HIDE DEF sum
<1>5. sum = 0 .. n - 1 /\ sum \in SUBSET Nat
  <2>1. sum = 0 .. n - 1
    BY <1>4, Zenon
  <2>2. \A j \in 0 .. n - 1 : j \in Nat
    OBVIOUS
  <2> QED
    BY <2>1, <2>2
<1>6. \A k \in 1 .. n - 1 : nonces[k] = {k}
  OBVIOUS
<1> HIDE DEF nonces
<1> QED
  BY <1>1, <1>2, <1>3, <1>5, <1>6

-----------------------------------------------------------------------------
(* The shares of a plan.  The splits are numbered in the order in which      *)
(* their sids came from the set; Number is that of a step of the plan.       *)
Sids(plan) == {SidOf(plan[i]) : i \in DOMAIN plan}
(* The number that splitIds gives to the split of an object.                 *)
Number(plan, i) == CHOOSE k \in DOMAIN splitIds(plan) : splitIds(plan)[k] = SidOf(plan[i])

(* Splits are numbered from 1, each by one number.                           *)
LEMMA NumbersAre ==
  ASSUME NEW S, NEW plan \in Seq(S), plan # <<>>
  PROVE  /\ IsFiniteSet(Sids(plan)) /\ Len(splitIds(plan)) = Cardinality(Sids(plan))
         /\ Len(splitIds(plan)) \in 1 .. Len(plan)
         /\ \A i \in DOMAIN plan : Number(plan, i) \in 1 .. Len(splitIds(plan))
         /\ \A i, j \in DOMAIN plan :
              Number(plan, i) = Number(plan, j) <=> SidOf(plan[i]) = SidOf(plan[j])
         /\ \A k \in 1 .. Len(splitIds(plan)) : \E i \in DOMAIN plan : Number(plan, i) = k
         /\ \A i \in DOMAIN plan : Number(plan, i) # Len(splitIds(plan)) =>
              ShareOf(plan, i) = {Number(plan, i)}
         /\ \A i \in DOMAIN plan : Number(plan, i) = Len(splitIds(plan)) =>
              ShareOf(plan, i) = 0 .. Len(splitIds(plan)) - 1
<1> DEFINE sids == splitIds(plan)
           n == Len(sids)
<1>1. DOMAIN plan = 1 .. Len(plan) /\ Len(plan) \in Nat /\ Len(plan) >= 1
  OBVIOUS
<1>2. IsFiniteSet(Sids(plan)) /\ Cardinality(Sids(plan)) <= Len(plan)
  <2>1. IsFiniteSet(1 .. Len(plan)) /\ Cardinality(1 .. Len(plan)) = Len(plan)
    BY <1>1, FS_Interval
  <2> DEFINE f == [i \in 1 .. Len(plan) |-> SidOf(plan[i])]
  <2>2. f \in Surjection(1 .. Len(plan), Sids(plan))
    BY <1>1 DEF Surjection, Sids
  <2> HIDE DEF f
  <2> QED
    BY <2>1, <2>2, FS_Surjection
<1>3. sids = SetToSeq(Sids(plan))
  BY DEF splitIds, Sids
<1>4. /\ n = Cardinality(Sids(plan)) /\ n \in Nat /\ DOMAIN sids = 1 .. n
      /\ sids \in [1 .. n -> Sids(plan)]
      /\ \A k, l \in 1 .. n : sids[k] = sids[l] => k = l
      /\ \A x \in Sids(plan) : \E k \in 1 .. n : sids[k] = x
  BY <1>2, <1>3, SetToSeqEnumerates
<1>5. n >= 1
  <2>1. SidOf(plan[1]) \in Sids(plan)
    BY <1>1 DEF Sids
  <2> QED
    BY <2>1, <1>4
<1> HIDE DEF sids
<1>6. ASSUME NEW i \in DOMAIN plan
      PROVE  Number(plan, i) \in 1 .. n /\ sids[Number(plan, i)] = SidOf(plan[i])
  <2>1. SidOf(plan[i]) \in Sids(plan)
    BY DEF Sids
  <2> QED
    BY <2>1, <1>4 DEF Number, sids
<1>7. ASSUME NEW k \in 1 .. n PROVE \E i \in DOMAIN plan : Number(plan, i) = k
  <2>1. PICK i \in DOMAIN plan : sids[k] = SidOf(plan[i])
    BY <1>4 DEF Sids
  <2> QED
    BY <2>1, <1>4, <1>6
<1>8. ASSUME NEW i \in DOMAIN plan
      PROVE  /\ Number(plan, i) # n => ShareOf(plan, i) = {Number(plan, i)}
             /\ Number(plan, i) = n => ShareOf(plan, i) = 0 .. n - 1
  <2>1. ShareOf(plan, i) = keySplit(Key, n)[Number(plan, i)]
    BY DEF ShareOf, Number, sids
  <2>2. /\ \A k \in 1 .. n - 1 : keySplit(Key, n)[k] = {k}
        /\ keySplit(Key, n)[n] = 0 .. n - 1
    BY <1>4, <1>5, SharesAre
  <2>3. Number(plan, i) # n => Number(plan, i) \in 1 .. n - 1
    BY <1>4, <1>6
  <2> HIDE DEF n
  <2> QED
    BY <2>1, <2>2, <2>3
<1> QED
  BY <1>2, <1>4, <1>5, <1>6, <1>7, <1>8 DEF sids

-----------------------------------------------------------------------------
(* What a list of shares of a plan merges to.                                *)
Merges(plan, list, f) ==
  /\ list \in Seq(SUBSET Nat) /\ list # <<>>
  /\ \A p \in 1 .. Len(list) : f[p] \in DOMAIN plan /\ list[p] = ShareOf(plan, f[p])

(* Without the share of one split it is not the key.                         *)
LEMMA TooFewHide ==
  ASSUME NEW S, NEW plan \in Seq(S), plan # <<>>, NEW list, NEW f, Merges(plan, list, f),
         NEW q \in DOMAIN plan,
         \A p \in 1 .. Len(list) : SidOf(plan[f[p]]) # SidOf(plan[q])
  PROVE  keyMerge(list) # Key
<1> DEFINE n == Len(splitIds(plan))
           m == Number(plan, q)
<1>1. n \in Nat /\ n >= 1 /\ m \in 1 .. n
  BY NumbersAre
<1>2. \A p \in 1 .. Len(list) :
        /\ Number(plan, f[p]) \in 1 .. n /\ Number(plan, f[p]) # m
        /\ Number(plan, f[p]) # n => list[p] = {Number(plan, f[p])}
        /\ Number(plan, f[p]) = n => list[p] = 0 .. n - 1
  BY NumbersAre DEF Merges
<1> HIDE DEF n, m
<1>3. CASE m = n
  <2>1. ASSUME NEW p \in 1 .. Len(list) PROVE 0 \notin list[p]
    <3>1. Number(plan, f[p]) # n /\ list[p] = {Number(plan, f[p])}
      BY <1>2, <1>3
    <3>2. Number(plan, f[p]) # 0
      BY <1>1, <1>2
    <3> QED
      BY <3>1, <3>2
  <2>2. Places(list, 1 .. Len(list), 0) = {}
    BY <2>1 DEF Places
  <2> QED
    BY <2>2, MergeIsParity, Parities DEF Merges, Key
<1>4. CASE m # n
  <2>1. ASSUME NEW p \in 1 .. Len(list) PROVE m \in list[p] <=> 0 \in list[p]
    <3>1. Number(plan, f[p]) \in 1 .. n /\ Number(plan, f[p]) # m
      BY <1>2
    <3>2. CASE Number(plan, f[p]) # n
      BY <3>1, <3>2, <1>1, <1>2
    <3>3. CASE Number(plan, f[p]) = n
      <4>1. m \in 0 .. n - 1 /\ 0 \in 0 .. n - 1
        BY <1>1, <1>4
      <4> QED
        BY <3>3, <4>1, <1>2
    <3> QED
      BY <3>2, <3>3
  <2>2. Places(list, 1 .. Len(list), m) = Places(list, 1 .. Len(list), 0)
    BY <2>1 DEF Places
  <2>3. m \in keyMerge(list) <=> 0 \in keyMerge(list)
    BY <2>2, MergeIsParity DEF Merges
  <2> QED
    BY <2>3, <1>1 DEF Key
<1> QED
  BY <1>3, <1>4

(* With one share of every split it is the key.                              *)
LEMMA OneOfEachIsKey ==
  ASSUME NEW S, NEW plan \in Seq(S), plan # <<>>, NEW list, NEW f, Merges(plan, list, f),
         Len(list) = Cardinality(Sids(plan)),
         \A i \in DOMAIN plan : \E p \in 1 .. Len(list) : SidOf(plan[f[p]]) = SidOf(plan[i])
  PROVE  keyMerge(list) = Key
<1> DEFINE n == Len(splitIds(plan))
           g == [p \in 1 .. n |-> Number(plan, f[p])]
<1>1. n \in Nat /\ n >= 1 /\ n = Len(list)
  BY NumbersAre
<1>2. \A p \in 1 .. n :
        /\ g[p] \in 1 .. n
        /\ g[p] # n => list[p] = {g[p]}
        /\ g[p] = n => list[p] = 0 .. n - 1
  BY <1>1, NumbersAre DEF Merges
<1>3. \A k \in 1 .. n : \E p \in 1 .. n : g[p] = k
  <2>1. ASSUME NEW k \in 1 .. n PROVE \E p \in 1 .. n : g[p] = k
    <3>1. PICK i \in DOMAIN plan : Number(plan, i) = k
      BY NumbersAre
    <3>2. PICK p \in 1 .. n : SidOf(plan[f[p]]) = SidOf(plan[i])
      BY <1>1
    <3>3. f[p] \in DOMAIN plan
      BY <1>1 DEF Merges
    <3>4. Number(plan, f[p]) = Number(plan, i)
      BY <3>2, <3>3, NumbersAre
    <3> QED
      BY <3>1, <3>4
  <2> QED
    BY <2>1
<1>4. DOMAIN g = 1 .. n /\ g = [p \in 1 .. n |-> g[p]]
  OBVIOUS
<1> HIDE DEF n, g
<1>5. g \in Surjection(1 .. n, 1 .. n)
  BY <1>2, <1>3, <1>4 DEF Surjection
<1>6. \A p, q \in 1 .. n : g[p] = g[q] => p = q
  <2>1. IsFiniteSet(1 .. n)
    BY <1>1, FS_Interval
  <2>2. g \in Injection(1 .. n, 1 .. n)
    BY <2>1, <1>5, FS_SurjSameCardinalityImpliesInj
  <2> QED
    BY <2>2, <1>4 DEF Injection, IsInjective
<1>7. PICK l \in 1 .. n : g[l] = n
  BY <1>1, <1>3
<1>8. ASSUME NEW j PROVE j \in keyMerge(list) <=> j = 0
  <2>1. j \in keyMerge(list) <=> Odd(Cardinality(Places(list, 1 .. n, j)))
    BY <1>1, MergeIsParity DEF Merges
  <2>2. CASE j = 0
    <3>1. Places(list, 1 .. n, 0) = {l}
      BY <1>1, <1>2, <1>6, <1>7 DEF Places
    <3> QED
      BY <2>1, <2>2, <3>1, Parities
  <2>3. CASE j \in 1 .. n - 1
    <3>1. PICK k \in 1 .. n : g[k] = j
      <4>1. j \in 1 .. n
        BY <2>3, <1>1
      <4> QED
        BY <4>1, <1>3
    <3>2. k # l /\ Places(list, 1 .. n, j) = {k, l}
      <4>1. k # l
        BY <2>3, <3>1, <1>1, <1>7
      <4>2. j \in list[k] /\ j \in list[l]
        <5>1. j # n /\ j \in 0 .. n - 1
          BY <2>3, <1>1
        <5>2. list[k] = {j} /\ list[l] = 0 .. n - 1
          BY <3>1, <5>1, <1>2, <1>7
        <5> QED
          BY <5>1, <5>2
      <4>3. ASSUME NEW p \in 1 .. n, j \in list[p] PROVE p = k \/ p = l
        <5>1. CASE g[p] # n
          BY <4>3, <5>1, <3>1, <1>2, <1>6
        <5>2. CASE g[p] = n
          BY <5>2, <1>6, <1>7
        <5> QED
          BY <5>1, <5>2
      <4> QED
        BY <4>1, <4>2, <4>3 DEF Places
    <3>3. j # 0
      BY <2>3
    <3> QED
      BY <2>1, <3>2, <3>3, Parities
  <2>4. CASE j \notin 0 .. n - 1
    <3>1. Places(list, 1 .. n, j) = {}
      <4>1. \A p \in 1 .. n : j \notin list[p]
        BY <2>4, <1>1, <1>2
      <4> QED
        BY <4>1 DEF Places
    <3>2. j # 0
      BY <2>4, <1>1
    <3> QED
      BY <2>1, <3>1, <3>2, Parities
  <2> QED
    BY <2>2, <2>3, <2>4, <1>1
<1> QED
  BY <1>8 DEF Key

(* The shares of a key access object are bits of the strings drawn.          *)
LEMMA SharesAreSets ==
  ASSUME NEW S, NEW plan \in Seq(S), plan # <<>>, NEW i \in DOMAIN plan
  PROVE  ShareOf(plan, i) \in SUBSET Nat
<1> DEFINE n == Len(splitIds(plan))
<1>1. n \in Nat /\ Number(plan, i) \in 1 .. n
  BY NumbersAre
<1>2. ShareOf(plan, i) = {Number(plan, i)} \/ ShareOf(plan, i) = 0 .. n - 1
  BY NumbersAre
<1>3. \A j \in 0 .. n - 1 : j \in Nat
  BY <1>1
<1> QED
  BY <1>1, <1>2, <1>3
(* InOrder is an enumeration.                                                *)
LEMMA InOrderEnumerates ==
  ASSUME NEW S, \A i \in S : i \in Nat, IsFiniteSet(S)
  PROVE  /\ InOrder(S) \in Seq(S)
         /\ Len(InOrder(S)) = Cardinality(S)
         /\ \A i \in S : \E k \in DOMAIN InOrder(S) : InOrder(S)[k] = i
<1>0. Cardinality(S) \in Nat
  BY FS_CardinalityType
<1>1. \A i \in S : Below(S, i) = {j \in S : j < i}
  BY DEF Below
<1>2. InOrder(S) =
        [k \in 1 .. Cardinality(S) |-> CHOOSE i \in S : Cardinality(Below(S, i)) = k - 1]
  BY DEF InOrder, Below
<1>3. ASSUME NEW k \in 1 .. Cardinality(S)
      PROVE  InOrder(S)[k] \in S /\ Cardinality(Below(S, InOrder(S)[k])) = k - 1
  BY <1>2, BelowNumbers
<1>4. InOrder(S) \in Seq(S) /\ Len(InOrder(S)) = Cardinality(S)
  BY <1>0, <1>2, <1>3
<1>5. ASSUME NEW i \in S
      PROVE  \E k \in DOMAIN InOrder(S) : InOrder(S)[k] = i
  <2> DEFINE k == Cardinality(Below(S, i)) + 1
  <2>1. k \in 1 .. Cardinality(S)
    BY <1>0, BelowIsMonotone
  <2>2. /\ InOrder(S)[k] \in S
        /\ Cardinality(Below(S, InOrder(S)[k])) = Cardinality(Below(S, i))
    BY <2>1, <1>3, BelowIsMonotone
  <2>3. InOrder(S)[k] = i
    BY <2>2, BelowIsMonotone
  <2> QED
    BY <2>1, <2>3, <1>2
<1> QED
  BY <1>4, <1>5
(* The jobs that fill the room of a pool are its first ones: no more of them *)
(* than there is room, and all that there are if room is left.               *)
LEMMA NextJobsAre ==
  ASSUME NEW jobs, \A i \in jobs : i \in Nat, IsFiniteSet(jobs), NEW n \in Nat
  PROVE  /\ NextJobs(jobs, n) \subseteq jobs
         /\ IsFiniteSet(NextJobs(jobs, n))
         /\ \A i \in NextJobs(jobs, n), j \in jobs : j < i => j \in NextJobs(jobs, n)
         /\ Cardinality(NextJobs(jobs, n)) \in Nat
         /\ Cardinality(NextJobs(jobs, n)) <= n
         /\ Cardinality(NextJobs(jobs, n)) < n => NextJobs(jobs, n) = jobs
         /\ n = 1 => \A i \in NextJobs(jobs, n), j \in jobs : ~(j < i)
<1> DEFINE next == NextJobs(jobs, n)
<1>1. next = {i \in jobs : Cardinality(Below(jobs, i)) < n}
  BY DEF NextJobs, Below
<1>2. /\ \A i \in jobs : /\ IsFiniteSet(Below(jobs, i))
                         /\ Cardinality(Below(jobs, i)) \in Nat
      /\ \A i, j \in jobs :
           j < i => Cardinality(Below(jobs, j)) < Cardinality(Below(jobs, i))
  BY BelowIsMonotone
<1>3. next \subseteq jobs /\ IsFiniteSet(next) /\ Cardinality(next) \in Nat
  BY <1>1, FS_Subset, FS_CardinalityType
<1>4. ASSUME NEW i \in next, NEW j \in jobs, j < i PROVE j \in next
  BY <1>1, <1>2, <1>4
<1>5. Cardinality(next) <= n
  <2>1. ASSUME n < Cardinality(next) PROVE FALSE
    <3>1. n + 1 \in 1 .. Cardinality(next)
      BY <2>1, <1>3
    <3>2. PICK i \in next : Cardinality(Below(next, i)) = (n + 1) - 1
      BY <3>1, <1>3, BelowNumbers
    <3>3. \A k \in Below(next, i) : k \in Below(jobs, i)
      BY <1>3 DEF Below
    <3>4. Cardinality(Below(next, i)) <= Cardinality(Below(jobs, i))
      BY <3>3, <1>2, <1>3, FS_Subset
    <3> QED
      BY <3>2, <3>4, <1>1, <1>2
  <2> QED
    BY <2>1, <1>3
<1>6. ASSUME next # jobs PROVE ~(Cardinality(next) < n)
  <2>1. PICK i \in jobs \ next : \A j \in jobs \ next : i <= j
    BY <1>3, <1>6, LeastNumber
  <2>2. \A k \in Below(jobs, i) : k \in next
    BY <2>1 DEF Below
  <2>3. Cardinality(Below(jobs, i)) <= Cardinality(next)
    BY <2>2, <1>3, FS_Subset
  <2> QED
    BY <2>1, <2>3, <1>1, <1>2, <1>3
<1>7. ASSUME n = 1, NEW i \in next, NEW j \in jobs, j < i PROVE FALSE
  BY <1>1, <1>2, <1>3, <1>7
<1> QED
  BY <1>3, <1>4, <1>5, <1>6, <1>7
-----------------------------------------------------------------------------
(* unwrapKey.  The state of the pools, with its types.                       *)
UnwrapTypes ==
  /\ call \in Calls
  /\ kas \in [Kaos -> {"idle", "asked", "granted", "refused"}]
  /\ sharePool \in [Splits -> SUBSET Kaos]
  /\ shareState \in [Splits -> {"idle", "race", "rest", "opened", "lost"}]
  /\ splitPool \in SUBSET Splits
  /\ splitState \in {"race", "rest"}
  /\ shares \in Seq(Kaos)
  /\ outcome \in {"new", "rejected", "pending", "error", "key"}

(* What is under way for a split, and the KASes not asked yet.               *)
Searched(s) == shareState[s] \in {"race", "rest"}
Idle(i) == kas[i] = "idle"

(* anyPool: whoever is not in its pool has refused or was never asked, and   *)
(* if it waits for the rest, everybody was asked.                            *)
ShareInv(s) ==
  /\ shareState[s] = "idle" => \A i \in Potentials(s) : Idle(i)
  /\ Searched(s) =>
       /\ sharePool[s] \subseteq Potentials(s)
       /\ Cardinality(sharePool[s]) <= poolSize
       /\ \A i \in sharePool[s] : ~Idle(i)
       /\ \A i \in Potentials(s) \ sharePool[s] : kas[i] \in {"idle", "refused"}
  /\ shareState[s] = "rest" => \A i \in Potentials(s) : ~Idle(i)
  /\ shareState[s] = "opened" =>
       \E i \in Potentials(s) : kas[i] = "granted" /\ sharePool[s] = {i}
  /\ shareState[s] = "lost" => \A i \in Potentials(s) : kas[i] = "refused"

(* Nobody but an allowed KAS is asked.                                       *)
OnlyAllowedAsked == \A i \in Kaos : ~Idle(i) => IsAllowed(i)

(* allPool: the splits are started in order; one that left the pool was      *)
(* opened, and its share was kept.                                           *)
Kept == {s \in Splits : shareState[s] # "idle" /\ s \notin splitPool}
(* Splits that left the pool were opened; they start in order; the pool      *)
(* holds at most poolSize.                                                   *)
KeptOpened == \A s \in Kept : shareState[s] = "opened"
StartedInOrder ==
  \A s, r \in Splits : s < r /\ shareState[r] # "idle" => shareState[s] # "idle"
PoolOfSplits ==
  /\ \A s \in splitPool : shareState[s] # "idle"
  /\ Cardinality(splitPool) <= poolSize
(* Before the start nothing is under way; what shares holds are granted      *)
(* shares of the splits that left the pool, one of each.                     *)
NothingYet ==
  outcome \in {"new", "rejected"} =>
    /\ \A s \in Splits : shareState[s] = "idle"
    /\ \A i \in Kaos : Idle(i)
    /\ shares = <<>>
SharesKept ==
  outcome = "pending" =>
    /\ Len(shares) = Cardinality(Kept)
    /\ \A s \in Kept : \E k \in DOMAIN shares :
         shares[k] \in Potentials(s) /\ kas[shares[k]] = "granted"
(* allPool waits for all the rest only when no split is left to start.       *)
RestIsAll ==
  outcome = "pending" /\ splitState = "rest" =>
    \A s \in Splits : shareState[s] # "idle"

SplitInv == /\ KeptOpened /\ StartedInOrder /\ PoolOfSplits
            /\ NothingYet /\ SharesKept /\ RestIsAll

(* The invariant of unwrapKey.                                               *)
UnwrapInv ==
  /\ UnwrapTypes
  /\ \A s \in Splits : ShareInv(s)
  /\ OnlyAllowedAsked
  /\ SplitInv

(* One split, one number.                                                    *)
LEMMA SplitsDiffer ==
  ASSUME call \in Calls, NEW s \in Splits, NEW r \in Splits, SplitOf(s) = SplitOf(r)
  PROVE  s = r
<1>1. s \in Nat /\ r \in Nat /\ s >= 1 /\ r >= 1
  BY UnwrapAssumption DEF Splits, Kaos, keyAccess
<1>2. ~(s < r) /\ ~(r < s)
  BY <1>1 DEF Splits
<1> QED
  BY <1>1, <1>2

(* The arguments of a call.                                                  *)
LEMMA CallFacts ==
  ASSUME call \in Calls
  PROVE  /\ poolSize \in Nat \ {0}
         /\ IsFiniteSet(Kaos)
         /\ \A i \in Kaos : i \in Nat
         /\ Splits \subseteq Kaos
         /\ IsFiniteSet(Splits)
         /\ \A s : Potentials(s) \subseteq Kaos /\ IsFiniteSet(Potentials(s))
         /\ \A s, r \in Splits : \A i : i \in Potentials(s) /\ i \in Potentials(r) => s = r
         /\ \A s, i : i \in Potentials(s) => SplitOf(i) = SplitOf(s)
         /\ Room({}) = poolSize
<1>1. poolSize \in Nat \ {0}
  BY UnwrapAssumption DEF poolSize
<1>2. PICK n \in Nat : Kaos = 1 .. n
  BY UnwrapAssumption DEF Kaos, keyAccess
<1>3. IsFiniteSet(Kaos)
  BY <1>2, FS_Interval
<1>4. Splits \subseteq Kaos /\ IsFiniteSet(Splits)
  BY <1>3, FS_Subset DEF Splits
<1>5. \A s : Potentials(s) \subseteq Kaos /\ IsFiniteSet(Potentials(s))
  BY <1>3, FS_Subset DEF Potentials
<1>6. \A s, i : i \in Potentials(s) => SplitOf(i) = SplitOf(s)
  BY DEF Potentials
<1>7. ASSUME NEW s \in Splits, NEW r \in Splits, SplitOf(s) = SplitOf(r)
      PROVE  s = r
  BY <1>7, SplitsDiffer
<1>8. Room({}) = poolSize
  BY <1>1, FS_EmptySet DEF Room
<1> QED
  BY <1>1, <1>2, <1>3, <1>4, <1>5, <1>6, <1>7, <1>8

(* The arguments of a call do not change, nor what is made of them.          *)
LEMMA CallIsFixed ==
  ASSUME UNCHANGED call
  PROVE  /\ Kaos' = Kaos /\ Splits' = Splits /\ poolSize' = poolSize
         /\ \A s : Potentials(s)' = Potentials(s)
         /\ \A i : IsAllowed(i)' = IsAllowed(i)
  BY DEF Kaos, Splits, SplitOf, poolSize, keyAccess, Potentials, IsAllowed

(* The invariant holds before the call.                                      *)
LEMMA InitUnwraps == Init => UnwrapInv
<1> SUFFICES ASSUME Init PROVE UnwrapInv
  OBVIOUS
<1>1. UnwrapTypes
  BY DEF Init, UnwrapTypes
<1>2. \A s \in Splits : ShareInv(s)
  BY DEF Init, ShareInv, Searched, Idle, Potentials
<1>3. Kept = {}
  BY DEF Init, Kept
<1>4. Cardinality({}) = 0 /\ poolSize \in Nat
  BY <1>1, CallFacts, FS_EmptySet DEF UnwrapTypes
<1>5. OnlyAllowedAsked /\ SplitInv
  BY <1>3, <1>4 DEF Init, OnlyAllowedAsked, Idle, SplitInv, KeptOpened,
      StartedInOrder, PoolOfSplits, NothingYet, SharesKept, RestIsAll
<1> QED
  BY <1>1, <1>2, <1>5 DEF UnwrapInv
(* What allPool's loop does between two awaits: the first idle splits are    *)
(* started, as many as there is room, and all of them if it then waits for   *)
(* the rest; each asks its first KASes.                                      *)
LEMMA RunSplitsStarts ==
  ASSUME UnwrapInv, UNCHANGED call, NEW pool, pool \subseteq splitPool, RunSplits(pool)
  PROVE  /\ kas' \in [Kaos -> {"idle", "asked", "granted", "refused"}]
         /\ sharePool' \in [Splits -> SUBSET Kaos]
         /\ shareState' \in [Splits -> {"idle", "race", "rest", "opened", "lost"}]
         /\ splitPool' \in SUBSET Splits
         /\ splitState' \in {"race", "rest"}
         /\ pool \subseteq splitPool'
         /\ Cardinality(splitPool') <= poolSize
         /\ \A s \in splitPool' \ pool : shareState[s] = "idle" /\ Searched(s)'
         /\ \A s \in Splits : shareState[s] # "idle" => shareState'[s] = shareState[s]
         /\ \A s \in Splits :
              shareState'[s] = "idle" <=> (shareState[s] = "idle" /\ s \notin splitPool')
         /\ StartedInOrder'
         /\ splitState' = "rest" => \A s \in Splits : shareState'[s] # "idle"
         /\ \A i \in Kaos : ~Idle(i) => kas'[i] = kas[i]
         /\ \A i \in Kaos : Idle(i) => kas'[i] \in {"idle", "asked"}
         /\ OnlyAllowedAsked'
         /\ \A s \in Splits : ShareInv(s)'
         /\ \A s \in splitPool' \ pool : poolSize = 1 =>
              \A r \in Splits : r < s => shareState[r] # "idle"
         /\ \A s \in splitPool' \ pool : \A i \in Potentials(s) :
              poolSize = 1 /\ kas'[i] = "asked" => \A j \in Potentials(s) : ~(j < i)
         /\ \A i \in Kaos : kas'[i] # kas[i] =>
              \E s \in splitPool' \ pool : i \in Potentials(s)
<1> DEFINE waiting == {s \in Splits : shareState[s] = "idle"}
           started == NextJobs(waiting, Room(pool))
           First(s) == NextJobs(Potentials(s), poolSize)
           asked == UNION {First(s) : s \in started}
<1>1. UnwrapTypes /\ (\A s \in Splits : ShareInv(s)) /\ OnlyAllowedAsked /\ SplitInv
  BY DEF UnwrapInv
<1>2. /\ poolSize \in Nat \ {0}
      /\ \A i \in Kaos : i \in Nat
      /\ Splits \subseteq Kaos /\ IsFiniteSet(Splits)
      /\ \A s : Potentials(s) \subseteq Kaos /\ IsFiniteSet(Potentials(s))
      /\ \A s, r \in Splits : \A i : i \in Potentials(s) /\ i \in Potentials(r) => s = r
      /\ Room({}) = poolSize
  BY <1>1, CallFacts DEF UnwrapTypes
<1>3. /\ splitPool' = pool \cup started
      /\ splitState' = WaitingFor(splitPool')
      /\ sharePool' = [s \in Splits |->
                         IF s \in started THEN First(s) ELSE sharePool[s]]
      /\ shareState' = [s \in Splits |->
                          IF s \in started THEN WaitingFor(First(s)) ELSE shareState[s]]
      /\ kas' = [i \in Kaos |-> IF i \in asked THEN "asked" ELSE kas[i]]
  BY <1>2 DEF RunSplits
<1>4. /\ IsFiniteSet(pool) /\ Cardinality(pool) \in Nat /\ Cardinality(pool) <= poolSize
      /\ pool \subseteq Splits
  <2>1. /\ splitPool \subseteq Splits /\ IsFiniteSet(splitPool)
        /\ Cardinality(splitPool) \in Nat /\ Cardinality(splitPool) <= poolSize
    BY <1>1, <1>2, FS_Subset, FS_CardinalityType DEF UnwrapTypes, SplitInv, PoolOfSplits
  <2> QED
    BY <2>1, <1>2, FS_Subset, FS_CardinalityType
<1>5. Room(pool) \in Nat /\ Room(pool) = poolSize - Cardinality(pool)
  BY <1>2, <1>4 DEF Room
<1>6. /\ waiting \subseteq Splits /\ IsFiniteSet(waiting)
      /\ \A s \in waiting : s \in Nat
  BY <1>2, FS_Subset
<1>7. /\ started \subseteq waiting /\ IsFiniteSet(started)
      /\ \A s \in started, r \in waiting : r < s => r \in started
      /\ Cardinality(started) \in Nat /\ Cardinality(started) <= Room(pool)
      /\ Cardinality(started) < Room(pool) => started = waiting
      /\ Room(pool) = 1 => \A s \in started, r \in waiting : ~(r < s)
  BY <1>5, <1>6, NextJobsAre
<1>8. ASSUME NEW s \in Splits
      PROVE  /\ First(s) \subseteq Potentials(s) /\ IsFiniteSet(First(s))
             /\ Cardinality(First(s)) \in Nat /\ Cardinality(First(s)) <= poolSize
             /\ Cardinality(First(s)) < poolSize => First(s) = Potentials(s)
             /\ poolSize = 1 => \A i \in First(s), j \in Potentials(s) : ~(j < i)
  <2>1. \A i \in Potentials(s) : i \in Nat
    BY <1>2
  <2> QED
    BY <1>2, <2>1, NextJobsAre
<1>9. pool \cap started = {}
  BY <1>1, <1>7 DEF SplitInv, PoolOfSplits
<1>10. Cardinality(splitPool') = Cardinality(pool) + Cardinality(started)
  BY <1>3, <1>4, <1>7, <1>9, DisjointUnion
<1>11. ASSUME NEW s \in Splits, NEW i \in Potentials(s)
       PROVE  /\ i \in asked <=> (s \in started /\ i \in First(s))
              /\ kas'[i] = IF s \in started /\ i \in First(s) THEN "asked" ELSE kas[i]
  <2>1. i \in asked <=> (s \in started /\ i \in First(s))
    <3>1. ASSUME i \in asked PROVE s \in started /\ i \in First(s)
      <4>1. PICK r \in started : i \in First(r)
        BY <3>1
      <4>2. r \in Splits /\ i \in Potentials(r)
        BY <4>1, <1>6, <1>7, <1>8
      <4> QED
        BY <4>1, <4>2, <1>2
    <3> QED
      BY <3>1
  <2> QED
    BY <2>1, <1>2, <1>3
<1>12. \A i \in asked : i \in Kaos /\ Idle(i) /\ IsAllowed(i)
  <2>1. \A s \in started : \A i \in First(s) : i \in Kaos /\ Idle(i) /\ IsAllowed(i)
    BY <1>1, <1>2, <1>6, <1>7, <1>8 DEF ShareInv, Potentials
  <2> QED
    BY <2>1
<1>13. \A p : WaitingFor(p) \in {"race", "rest"}
  BY DEF WaitingFor
<1>14. /\ Kaos' = Kaos /\ Splits' = Splits /\ poolSize' = poolSize
       /\ \A s : Potentials(s)' = Potentials(s)
       /\ \A i : IsAllowed(i)' = IsAllowed(i)
  BY CallIsFixed
<1>15. /\ kas' \in [Kaos -> {"idle", "asked", "granted", "refused"}]
       /\ \A i \in Kaos : ~Idle(i) => kas'[i] = kas[i]
       /\ \A i \in Kaos : Idle(i) => kas'[i] \in {"idle", "asked"}
       /\ OnlyAllowedAsked'
  BY <1>1, <1>3, <1>12, <1>14 DEF UnwrapTypes, Idle, OnlyAllowedAsked
<1>16. /\ sharePool' \in [Splits -> SUBSET Kaos]
       /\ shareState' \in [Splits -> {"idle", "race", "rest", "opened", "lost"}]
       /\ splitPool' \in SUBSET Splits
       /\ splitState' \in {"race", "rest"}
  BY <1>1, <1>2, <1>3, <1>4, <1>6, <1>7, <1>8, <1>13 DEF UnwrapTypes
<1>17. Cardinality(splitPool') <= poolSize
  BY <1>2, <1>4, <1>5, <1>7, <1>10
<1>18. /\ \A s \in splitPool' \ pool : s \in started
       /\ \A s \in started : s \in splitPool' \ pool
  BY <1>3, <1>9
<1>19. /\ \A s \in started : shareState[s] = "idle" /\ shareState'[s] \in {"race", "rest"}
       /\ \A s \in Splits \ started : shareState'[s] = shareState[s]
  BY <1>3, <1>6, <1>7, <1>13
<1>20. \A s \in Splits : shareState'[s] = "idle" <=> (shareState[s] = "idle" /\ s \notin splitPool')
  BY <1>1, <1>3, <1>19 DEF SplitInv, PoolOfSplits
<1>21. StartedInOrder'
  <2>1. ASSUME NEW s \in Splits, NEW r \in Splits, s < r, shareState'[r] # "idle"
        PROVE  shareState'[s] # "idle"
    BY <1>1, <1>7, <1>19, <2>1 DEF SplitInv, StartedInOrder
  <2> QED
    BY <2>1, <1>14 DEF StartedInOrder
<1>22. splitState' = "rest" => \A s \in Splits : shareState'[s] # "idle"
  <2>1. ASSUME splitState' = "rest" PROVE started = waiting
    <3>1. Cardinality(splitPool') < poolSize
      BY <2>1, <1>3 DEF WaitingFor
    <3> QED
      BY <3>1, <1>2, <1>4, <1>5, <1>7, <1>10
  <2> QED
    BY <2>1, <1>19
<1>23. ASSUME NEW s \in Splits PROVE ShareInv(s)'
  <2>1. CASE s \in started
    <3>1. shareState'[s] = WaitingFor(First(s)) /\ sharePool'[s] = First(s)
      BY <2>1, <1>3
    <3>2. \A i \in Potentials(s) : Idle(i)
      BY <2>1, <1>1, <1>19 DEF ShareInv
    <3>3. \A i \in Potentials(s) : kas'[i] = IF i \in First(s) THEN "asked" ELSE "idle"
      BY <2>1, <3>2, <1>11 DEF Idle
    <3>4. shareState'[s] = "rest" => First(s) = Potentials(s)
      BY <3>1, <1>8 DEF WaitingFor
    <3> QED
      BY <3>1, <3>3, <3>4, <1>8, <1>13, <1>14 DEF ShareInv, Searched, Idle
  <2>2. CASE s \notin started
    <3>1. shareState'[s] = shareState[s] /\ sharePool'[s] = sharePool[s]
      BY <2>2, <1>3
    <3>2. \A i \in Potentials(s) : kas'[i] = kas[i]
      BY <2>2, <1>11
    <3> QED
      BY <3>1, <3>2, <1>1, <1>14 DEF ShareInv, Searched, Idle
  <2> QED
    BY <2>1, <2>2
<1>24. ASSUME NEW s \in started, poolSize = 1, NEW r \in Splits, r < s
       PROVE  shareState[r] # "idle"
  <2>1. Room(pool) = 1
    BY <1>2, <1>4, <1>5, <1>7, <1>24, FS_EmptySet
  <2> QED
    BY <2>1, <1>7, <1>24
<1>25. ASSUME NEW s \in started, NEW i \in Potentials(s), poolSize = 1, kas'[i] = "asked",
              NEW j \in Potentials(s)
       PROVE  ~(j < i)
  <2>1. s \in Splits /\ Idle(i)
    BY <1>1, <1>6, <1>7, <1>19 DEF ShareInv
  <2>2. i \in First(s)
    BY <2>1, <1>11, <1>25 DEF Idle
  <2> QED
    BY <2>1, <2>2, <1>8, <1>25
<1>26. pool \subseteq splitPool'
  BY <1>3
<1>27. \A i \in Kaos : kas'[i] # kas[i] => \E s \in started : i \in Potentials(s)
  <2>1. \A i \in asked : \E s \in started : i \in Potentials(s)
    BY <1>6, <1>7, <1>8
  <2> QED
    BY <2>1, <1>3
<1>28. \A s \in Splits : shareState[s] # "idle" => shareState'[s] = shareState[s]
  BY <1>6, <1>7, <1>19
<1>29. splitPool' \ pool = started
  BY <1>18
<1> HIDE DEF started
<1> QED
  BY <1>15, <1>16, <1>17, <1>19, <1>20, <1>21, <1>22, <1>23, <1>24, <1>25,
     <1>26, <1>27, <1>28, <1>29 DEF Searched

-----------------------------------------------------------------------------
(* A step inside the pools of the shares: a search goes on or ends, a split  *)
(* that was opened stays opened, and nothing happens before the call.        *)
LEMMA SharesMove ==
  ASSUME UnwrapInv, UNCHANGED <<call, splitPool, splitState, shares, outcome>>,
         outcome \notin {"new", "rejected"},
         \A s \in Splits : (shareState'[s] = "idle") <=> (shareState[s] = "idle"),
         \A s \in Splits : shareState[s] = "opened" => shareState'[s] = "opened",
         \A i \in Kaos : kas[i] = "granted" => kas'[i] = "granted"
  PROVE  SplitInv'
<1>1. UnwrapTypes /\ SplitInv
  BY DEF UnwrapInv
<1>2. Kept' = Kept /\ Splits' = Splits /\ Kaos' = Kaos /\ poolSize' = poolSize
  BY CallIsFixed DEF Kept
<1>3. \A s : Potentials(s)' = Potentials(s)
  BY CallIsFixed
<1>4. \A s : Potentials(s) \subseteq Kaos
  BY DEF Potentials
<1>5. KeptOpened' /\ StartedInOrder' /\ PoolOfSplits'
  BY <1>1, <1>2 DEF SplitInv, KeptOpened, StartedInOrder, PoolOfSplits, Kept, UnwrapTypes
<1>6. NothingYet' /\ RestIsAll'
  BY <1>1, <1>2 DEF SplitInv, NothingYet, RestIsAll
<1>7. SharesKept'
  BY <1>1, <1>2, <1>3, <1>4 DEF SplitInv, SharesKept
<1> QED
  BY <1>5, <1>6, <1>7 DEF SplitInv

(* What the loop of anyPool does on a refusal.                               *)
NextAsked(s, i) ==
  NextJobs({j \in Potentials(s) : kas[j] = "idle"}, Room(sharePool[s] \ {i}))

(* After a refusal the next KAS of the share is asked, if one is left.       *)
LEMMA ShareRefusedAsks ==
  ASSUME UnwrapInv, NEW s \in Splits, shareState[s] = "race",
         NEW i \in sharePool[s], kas[i] = "refused"
  PROVE  /\ \A j \in NextAsked(s, i) : j \in Potentials(s) /\ kas[j] = "idle"
         /\ (sharePool[s] \ {i}) \cup NextAsked(s, i) \subseteq Potentials(s)
         /\ Cardinality((sharePool[s] \ {i}) \cup NextAsked(s, i)) <= poolSize
         /\ Cardinality((sharePool[s] \ {i}) \cup NextAsked(s, i)) < poolSize =>
              \A j \in Potentials(s) : kas[j] = "idle" => j \in NextAsked(s, i)
         /\ poolSize = 1 =>
              /\ sharePool[s] = {i}
              /\ \A j \in NextAsked(s, i), k \in Potentials(s) : kas[k] = "idle" => ~(k < j)
<1> DEFINE pool == sharePool[s] \ {i}
           idle == {j \in Potentials(s) : kas[j] = "idle"}
           next == NextAsked(s, i)
<1>1. UnwrapTypes /\ ShareInv(s)
  BY DEF UnwrapInv
<1>2. /\ poolSize \in Nat \ {0} /\ Potentials(s) \subseteq Kaos /\ IsFiniteSet(Potentials(s))
      /\ \A j \in Kaos : j \in Nat
  BY <1>1, CallFacts DEF UnwrapTypes
<1>3. /\ sharePool[s] \subseteq Potentials(s)
      /\ Cardinality(sharePool[s]) <= poolSize
      /\ \A j \in sharePool[s] : kas[j] # "idle"
  BY <1>1 DEF ShareInv, Searched, Idle
<1>4. /\ IsFiniteSet(sharePool[s]) /\ Cardinality(sharePool[s]) \in Nat
      /\ IsFiniteSet(pool) /\ Cardinality(pool) = Cardinality(sharePool[s]) - 1
      /\ Cardinality(pool) \in Nat
  BY <1>2, <1>3, FS_Subset, FS_CardinalityType, FS_RemoveElement
<1>5. Room(pool) \in Nat /\ Room(pool) = poolSize - Cardinality(pool)
  BY <1>2, <1>3, <1>4 DEF Room
<1>6. IsFiniteSet(idle) /\ \A j \in idle : j \in Nat
  BY <1>2, FS_Subset
<1>7. /\ next \subseteq idle /\ IsFiniteSet(next)
      /\ Cardinality(next) \in Nat /\ Cardinality(next) <= Room(pool)
      /\ Cardinality(next) < Room(pool) => next = idle
      /\ Room(pool) = 1 => \A j \in next, k \in idle : ~(k < j)
  BY <1>5, <1>6, NextJobsAre DEF NextAsked
<1> HIDE DEF pool, next
<1>8. pool \cap next = {}
  BY <1>3, <1>7 DEF pool
<1>9. /\ IsFiniteSet(pool \cup next)
      /\ Cardinality(pool \cup next) = Cardinality(pool) + Cardinality(next)
  BY <1>4, <1>7, <1>8, DisjointUnion
<1>10. /\ Cardinality(pool \cup next) \in Nat
       /\ Cardinality(pool \cup next) <= poolSize
       /\ Cardinality(pool \cup next) < poolSize => next = idle
  BY <1>2, <1>4, <1>5, <1>7, <1>9
<1>11. ASSUME poolSize = 1
       PROVE  pool = {} /\ \A j \in next, k \in idle : ~(k < j)
  <2>1. Cardinality(pool) = 0
    BY <1>3, <1>4, <1>11
  <2>2. pool = {}
    BY <2>1, <1>4, FS_EmptySet
  <2>3. Room(pool) = 1
    BY <2>1, <1>5, <1>11
  <2> QED
    BY <2>2, <2>3, <1>7
<1>12. pool \cup next \subseteq Potentials(s)
  BY <1>3, <1>7 DEF pool
<1>13. poolSize = 1 => sharePool[s] = {i}
  BY <1>11 DEF pool
<1> QED
  BY <1>7, <1>10, <1>11, <1>12, <1>13 DEF pool, next

(* An answer of a KAS keeps the invariant.                                   *)
LEMMA AnswerUnwraps ==
  ASSUME UnwrapInv, NEW i \in Kaos, Answer(i)
  PROVE  UnwrapInv'
<1>1. UnwrapTypes /\ (\A s \in Splits : ShareInv(s)) /\ OnlyAllowedAsked /\ SplitInv
  BY DEF UnwrapInv
<1>2. /\ kas' \in [Kaos -> {"idle", "asked", "granted", "refused"}]
      /\ kas[i] = "asked" /\ kas'[i] \in {"granted", "refused"}
      /\ \A j \in Kaos \ {i} : kas'[j] = kas[j]
  BY <1>1 DEF Answer, UnwrapTypes
<1>3. /\ Kaos' = Kaos /\ Splits' = Splits /\ poolSize' = poolSize
      /\ \A s : Potentials(s)' = Potentials(s) /\ Potentials(s) \subseteq Kaos
      /\ \A j : IsAllowed(j)' = IsAllowed(j)
  BY CallIsFixed DEF Answer, Potentials
<1>4. /\ sharePool' = sharePool /\ shareState' = shareState /\ splitPool' = splitPool
      /\ splitState' = splitState /\ shares' = shares /\ outcome' = outcome /\ call' = call
  BY DEF Answer
<1>5. UnwrapTypes'
  BY <1>1, <1>2, <1>3, <1>4 DEF UnwrapTypes
<1>6. ASSUME NEW s \in Splits PROVE ShareInv(s)'
  BY <1>1, <1>2, <1>3, <1>4 DEF ShareInv, Searched, Idle
<1>7. OnlyAllowedAsked'
  BY <1>1, <1>2, <1>3 DEF OnlyAllowedAsked, Idle
<1>8. SplitInv'
  <2>1. outcome \notin {"new", "rejected"}
    BY <1>1, <1>2 DEF SplitInv, NothingYet, Idle
  <2> QED
    BY <2>1, <1>2, <1>4, SharesMove
<1> QED
  BY <1>3, <1>5, <1>6, <1>7, <1>8 DEF UnwrapInv

(* The steps of anyPool keep the invariant.                                  *)
LEMMA ShareUnwraps ==
  ASSUME UnwrapInv, NEW s \in Splits, ShareOpened(s) \/ ShareRefused(s) \/ ShareLost(s)
  PROVE  /\ UnwrapInv'
         /\ outcome \notin {"new", "rejected"}
         /\ \A i \in Kaos : \/ kas'[i] = kas[i]
                            \/ kas[i] = "idle" /\ kas'[i] = "asked"
<1>1. UnwrapTypes /\ (\A r \in Splits : ShareInv(r)) /\ OnlyAllowedAsked /\ SplitInv
  BY DEF UnwrapInv
<1>2. /\ sharePool \in [Splits -> SUBSET Kaos]
      /\ shareState \in [Splits -> {"idle", "race", "rest", "opened", "lost"}]
      /\ kas \in [Kaos -> {"idle", "asked", "granted", "refused"}]
  BY <1>1 DEF UnwrapTypes
<1>3. /\ Kaos' = Kaos /\ Splits' = Splits /\ poolSize' = poolSize
      /\ \A r : Potentials(r)' = Potentials(r) /\ Potentials(r) \subseteq Kaos
      /\ \A j : IsAllowed(j)' = IsAllowed(j)
  BY CallIsFixed DEF ShareOpened, ShareRefused, ShareLost, Potentials
<1>4. /\ splitPool' = splitPool /\ splitState' = splitState /\ shares' = shares
      /\ outcome' = outcome /\ call' = call
  BY DEF ShareOpened, ShareRefused, ShareLost
<1>5. Searched(s) /\ outcome \notin {"new", "rejected"}
  BY <1>1 DEF ShareOpened, ShareRefused, ShareLost, Searched, SplitInv, NothingYet
<1>6. \A r \in Splits : \A i : i \in Potentials(s) /\ i \in Potentials(r) => s = r
  BY <1>1, CallFacts DEF UnwrapTypes
<1> DEFINE Moved ==
      /\ sharePool' \in [Splits -> SUBSET Kaos]
      /\ shareState' \in [Splits -> {"idle", "race", "rest", "opened", "lost"}]
      /\ kas' \in [Kaos -> {"idle", "asked", "granted", "refused"}]
      /\ ShareInv(s)'
      /\ shareState'[s] # "idle"
      /\ \A r \in Splits \ {s} : shareState'[r] = shareState[r] /\ sharePool'[r] = sharePool[r]
      /\ \A i \in Kaos : \/ kas'[i] = kas[i]
                         \/ kas[i] = "idle" /\ kas'[i] = "asked" /\ i \in Potentials(s)
<1>7. ASSUME ShareOpened(s) PROVE Moved
  <2>1. PICK i \in sharePool[s] :
          kas[i] = "granted" /\ sharePool' = [sharePool EXCEPT ![s] = {i}]
    BY <1>7 DEF ShareOpened
  <2>2. shareState' = [shareState EXCEPT ![s] = "opened"] /\ kas' = kas
    BY <1>7 DEF ShareOpened
  <2>3. i \in Potentials(s) /\ i \in Kaos
    BY <2>1, <1>1, <1>3, <1>5 DEF ShareInv
  <2>4. ShareInv(s)'
    BY <2>1, <2>2, <2>3, <1>2, <1>3 DEF ShareInv, Searched
  <2> QED
    BY <2>1, <2>2, <2>3, <2>4, <1>2
<1>8. ASSUME ShareRefused(s) PROVE Moved
  <2>1. PICK i \in sharePool[s] :
          /\ kas[i] = "refused"
          /\ sharePool' = [sharePool EXCEPT ![s] = (sharePool[s] \ {i}) \cup NextAsked(s, i)]
          /\ shareState' = [shareState EXCEPT
                              ![s] = WaitingFor((sharePool[s] \ {i}) \cup NextAsked(s, i))]
          /\ kas' = [j \in Kaos |-> IF j \in NextAsked(s, i) THEN "asked" ELSE kas[j]]
    BY <1>8 DEF ShareRefused, NextAsked
  <2> DEFINE pool == sharePool[s] \ {i}
             next == NextAsked(s, i)
  <2>2. shareState[s] = "race"
    BY <1>8 DEF ShareRefused
  <2>3. /\ \A j \in next : j \in Potentials(s) /\ kas[j] = "idle"
        /\ pool \cup next \subseteq Potentials(s)
        /\ Cardinality(pool \cup next) <= poolSize
        /\ Cardinality(pool \cup next) < poolSize =>
             \A j \in Potentials(s) : kas[j] = "idle" => j \in next
    BY <2>1, <2>2, ShareRefusedAsks
  <2>4. /\ sharePool'[s] = pool \cup next /\ shareState'[s] = WaitingFor(pool \cup next)
        /\ \A j \in Kaos : kas'[j] = IF j \in next THEN "asked" ELSE kas[j]
    BY <2>1, <1>2
  <2>5. WaitingFor(pool \cup next) \in {"race", "rest"}
    BY DEF WaitingFor
  <2>6. shareState'[s] = "rest" =>
          \A j \in Potentials(s) : kas[j] = "idle" => j \in next
    BY <2>3, <2>4 DEF WaitingFor
  <2>7. ShareInv(s)'
    <3>1. \A j \in pool : kas[j] # "idle" /\ kas'[j] # "idle"
      BY <2>2, <2>4, <1>1, <1>3 DEF ShareInv, Searched, Idle
    <3>2. \A j \in next : kas'[j] = "asked"
      BY <2>3, <2>4, <1>3
    <3>3. \A j \in Potentials(s) \ (pool \cup next) : kas'[j] \in {"idle", "refused"}
      BY <2>1, <2>2, <2>4, <1>1, <1>3 DEF ShareInv, Searched
    <3>4. shareState'[s] = "rest" => \A j \in Potentials(s) : kas'[j] # "idle"
      BY <2>4, <2>6, <1>3
    <3> QED
      BY <3>1, <3>2, <3>3, <3>4, <2>3, <2>4, <2>5, <1>3 DEF ShareInv, Searched, Idle
  <2>8. /\ sharePool' \in [Splits -> SUBSET Kaos]
        /\ shareState' \in [Splits -> {"idle", "race", "rest", "opened", "lost"}]
        /\ kas' \in [Kaos -> {"idle", "asked", "granted", "refused"}]
        /\ \A r \in Splits \ {s} : shareState'[r] = shareState[r] /\ sharePool'[r] = sharePool[r]
    BY <2>1, <2>3, <2>5, <1>2, <1>3 DEF next
  <2> QED
    BY <2>3, <2>4, <2>5, <2>7, <2>8
<1>9. ASSUME ShareLost(s) PROVE Moved
  <2>1. /\ shareState' = [shareState EXCEPT ![s] = "lost"] /\ kas' = kas
        /\ sharePool' = sharePool /\ \A i \in sharePool[s] : kas[i] = "refused"
        /\ shareState[s] = "rest"
    BY <1>9 DEF ShareLost
  <2>2. \A i \in Potentials(s) : kas[i] = "refused"
    BY <2>1, <1>1, <1>3 DEF ShareInv, Searched, Idle
  <2>3. ShareInv(s)'
    BY <2>1, <2>2, <1>2, <1>3 DEF ShareInv, Searched
  <2> QED
    BY <2>1, <2>3, <1>2
<1>10. Moved
  BY <1>7, <1>8, <1>9
<1>11. UnwrapTypes'
  BY <1>1, <1>3, <1>4, <1>10 DEF UnwrapTypes
<1>12. ASSUME NEW r \in Splits PROVE ShareInv(r)'
  <2>1. CASE r = s
    BY <2>1, <1>10
  <2>2. CASE r # s
    <3>1. \A i \in Potentials(r) : kas'[i] = kas[i]
      BY <2>2, <1>3, <1>6, <1>10
    <3> QED
      BY <2>2, <3>1, <1>1, <1>3, <1>10 DEF ShareInv, Searched, Idle
  <2> QED
    BY <2>1, <2>2
<1>13. OnlyAllowedAsked'
  BY <1>1, <1>3, <1>10 DEF OnlyAllowedAsked, Idle, Potentials
<1>14. SplitInv'
  <2>1. \A r \in Splits : (shareState'[r] = "idle") <=> (shareState[r] = "idle")
    BY <1>5, <1>10 DEF Searched
  <2>2. \A r \in Splits : shareState[r] = "opened" => shareState'[r] = "opened"
    BY <1>5, <1>10 DEF Searched
  <2>3. \A i \in Kaos : kas[i] = "granted" => kas'[i] = "granted"
    BY <1>10
  <2> QED
    BY <2>1, <2>2, <2>3, <1>4, <1>5, SharesMove
<1> QED
  BY <1>3, <1>5, <1>10, <1>11, <1>12, <1>13, <1>14 DEF UnwrapInv

(* The start of unwrapKey keeps the invariant.                               *)
LEMMA StartUnwraps ==
  ASSUME UnwrapInv, Start
  PROVE  UnwrapInv'
<1>1. /\ UnwrapTypes /\ (\A s \in Splits : ShareInv(s)) /\ OnlyAllowedAsked /\ SplitInv
      /\ outcome = "new" /\ shares' = shares /\ call' = call
  BY DEF UnwrapInv, Start
<1>2. /\ \A s \in Splits : shareState[s] = "idle"
      /\ \A i \in Kaos : Idle(i)
      /\ shares = <<>> /\ Kept = {}
  BY <1>1 DEF SplitInv, NothingYet, KeptOpened, Kept
<1>3. /\ Kaos' = Kaos /\ Splits' = Splits /\ poolSize' = poolSize
      /\ \A s : Potentials(s)' = Potentials(s)
      /\ \A j : IsAllowed(j)' = IsAllowed(j)
  BY <1>1, CallIsFixed
<1>4. CASE outcome' = "rejected" /\ UNCHANGED <<kas, sharePool, shareState, splitPool, splitState>>
  <2>1. UnwrapTypes' /\ (\A s \in Splits : ShareInv(s)') /\ OnlyAllowedAsked'
    BY <1>1, <1>3, <1>4 DEF UnwrapTypes, ShareInv, Searched, Idle, OnlyAllowedAsked
  <2>2. KeptOpened' /\ StartedInOrder' /\ PoolOfSplits'
    BY <1>1, <1>3, <1>4 DEF SplitInv, KeptOpened, Kept, StartedInOrder, PoolOfSplits
  <2>3. NothingYet' /\ SharesKept' /\ RestIsAll'
    BY <1>1, <1>2, <1>3, <1>4 DEF NothingYet, SharesKept, RestIsAll, Idle
  <2> QED
    BY <2>1, <2>2, <2>3, <1>3 DEF UnwrapInv, SplitInv
<1>5. CASE outcome' = "pending" /\ RunSplits({})
  <2>1. /\ kas' \in [Kaos -> {"idle", "asked", "granted", "refused"}]
        /\ sharePool' \in [Splits -> SUBSET Kaos]
        /\ shareState' \in [Splits -> {"idle", "race", "rest", "opened", "lost"}]
        /\ splitPool' \in SUBSET Splits
        /\ splitState' \in {"race", "rest"}
        /\ Cardinality(splitPool') <= poolSize
        /\ \A s \in Splits :
             shareState'[s] = "idle" <=> (shareState[s] = "idle" /\ s \notin splitPool')
        /\ StartedInOrder'
        /\ splitState' = "rest" => \A s \in Splits : shareState'[s] # "idle"
        /\ OnlyAllowedAsked'
        /\ \A s \in Splits : ShareInv(s)'
    BY <1>1, <1>5, RunSplitsStarts
  <2>2. UnwrapTypes'
    BY <2>1, <1>1, <1>3, <1>5 DEF UnwrapTypes
  <2>3. Kept' = {}
    BY <2>1, <1>2, <1>3 DEF Kept
  <2>4. Cardinality(Kept') = 0
    BY <2>3, FS_EmptySet
  <2>5. KeptOpened' /\ PoolOfSplits' /\ RestIsAll' /\ NothingYet' /\ SharesKept'
    BY <2>1, <2>3, <2>4, <1>1, <1>2, <1>3, <1>5
       DEF KeptOpened, PoolOfSplits, RestIsAll, NothingYet, SharesKept
  <2> QED
    BY <2>1, <2>2, <2>5, <1>3 DEF UnwrapInv, SplitInv
<1> QED
  BY <1>4, <1>5 DEF Start

(* allPool's race keeps the invariant.                                       *)
LEMMA SplitOpenedUnwraps ==
  ASSUME UnwrapInv, SplitOpened
  PROVE  UnwrapInv'
<1>1. /\ UnwrapTypes /\ (\A s \in Splits : ShareInv(s)) /\ OnlyAllowedAsked /\ SplitInv
      /\ outcome = "pending" /\ outcome' = outcome /\ call' = call
  BY DEF UnwrapInv, SplitOpened
<1>2. PICK s \in splitPool :
        /\ shareState[s] = "opened"
        /\ \E i \in sharePool[s] : shares' = Pushed(<<i>>)
        /\ RunSplits(splitPool \ {s})
  BY DEF SplitOpened
<1>3. /\ Kaos' = Kaos /\ Splits' = Splits /\ poolSize' = poolSize
      /\ \A r : Potentials(r)' = Potentials(r) /\ Potentials(r) \subseteq Kaos
  BY <1>1, CallIsFixed DEF Potentials
<1>4. s \in Splits /\ splitPool \subseteq Splits
  BY <1>1 DEF UnwrapTypes
<1>5. PICK i \in Potentials(s) : kas[i] = "granted" /\ shares' = Append(shares, i)
  BY <1>1, <1>2, <1>4 DEF ShareInv, Pushed, UnwrapTypes
<1>6. /\ kas' \in [Kaos -> {"idle", "asked", "granted", "refused"}]
      /\ sharePool' \in [Splits -> SUBSET Kaos]
      /\ shareState' \in [Splits -> {"idle", "race", "rest", "opened", "lost"}]
      /\ splitPool' \in SUBSET Splits
      /\ splitState' \in {"race", "rest"}
      /\ splitPool \ {s} \subseteq splitPool'
      /\ Cardinality(splitPool') <= poolSize
      /\ \A r \in splitPool' \ (splitPool \ {s}) : shareState[r] = "idle" /\ Searched(r)'
      /\ \A r \in Splits : shareState[r] # "idle" => shareState'[r] = shareState[r]
      /\ \A r \in Splits :
           shareState'[r] = "idle" <=> (shareState[r] = "idle" /\ r \notin splitPool')
      /\ StartedInOrder'
      /\ splitState' = "rest" => \A r \in Splits : shareState'[r] # "idle"
      /\ \A j \in Kaos : ~Idle(j) => kas'[j] = kas[j]
      /\ OnlyAllowedAsked'
      /\ \A r \in Splits : ShareInv(r)'
  BY <1>1, <1>2, RunSplitsStarts
<1>7. UnwrapTypes'
  BY <1>1, <1>3, <1>5, <1>6 DEF UnwrapTypes
<1>8. Kept' = Kept \cup {s} /\ s \notin Kept /\ IsFiniteSet(Kept)
  <2>1. \A r \in Splits : r \in Kept' <=> (r \in Kept \/ r = s)
    BY <1>2, <1>3, <1>4, <1>6 DEF Kept
  <2>2. Kept \subseteq Splits /\ Kept' \subseteq Splits
    BY <1>3 DEF Kept
  <2>3. IsFiniteSet(Splits)
    BY <1>1, CallFacts DEF UnwrapTypes
  <2> QED
    BY <2>1, <2>2, <2>3, <1>2, <1>4, FS_Subset DEF Kept
<1>9. Cardinality(Kept') = Cardinality(Kept) + 1 /\ Cardinality(Kept) \in Nat
  BY <1>8, FS_AddElement, FS_CardinalityType
<1>10. SharesKept'
  <2>1. Len(shares') = Cardinality(Kept')
    BY <1>1, <1>5, <1>9, <1>3 DEF SplitInv, SharesKept, UnwrapTypes
  <2>2. ASSUME NEW r \in Kept'
        PROVE  \E k \in DOMAIN shares' :
                 shares'[k] \in Potentials(r) /\ kas'[shares'[k]] = "granted"
    <3>1. CASE r = s
      <4>1. Len(shares) + 1 \in DOMAIN shares' /\ shares'[Len(shares) + 1] = i
        BY <1>1, <1>3, <1>5 DEF UnwrapTypes
      <4>2. kas'[i] = "granted"
        BY <1>3, <1>5, <1>6 DEF Idle
      <4> QED
        BY <4>1, <4>2, <1>5, <3>1
    <3>2. CASE r \in Kept
      <4>1. PICK k \in DOMAIN shares : shares[k] \in Potentials(r) /\ kas[shares[k]] = "granted"
        BY <3>2, <1>1 DEF SplitInv, SharesKept
      <4>2. k \in DOMAIN shares' /\ shares'[k] = shares[k]
        BY <4>1, <1>1, <1>3, <1>5 DEF UnwrapTypes
      <4>3. kas'[shares[k]] = "granted"
        BY <4>1, <1>3, <1>6 DEF Idle
      <4> QED
        BY <4>1, <4>2, <4>3
    <3> QED
      BY <3>1, <3>2, <1>8
  <2> QED
    BY <2>1, <2>2, <1>3 DEF SharesKept
<1>11. KeptOpened'
  BY <1>1, <1>2, <1>3, <1>6, <1>8 DEF SplitInv, KeptOpened, Kept
<1>12. PoolOfSplits'
  BY <1>3, <1>6 DEF PoolOfSplits
<1>13. RestIsAll' /\ NothingYet'
  BY <1>1, <1>3, <1>6 DEF RestIsAll, NothingYet
<1> QED
  BY <1>3, <1>6, <1>7, <1>10, <1>11, <1>12, <1>13 DEF UnwrapInv, SplitInv

(* What Promise.all yields: one share of every split of the pool.            *)
LEMMA RestIsShares ==
  ASSUME UnwrapInv, \A s \in splitPool : shareState[s] = "opened"
  PROVE  /\ Rest \in Seq(Kaos)
         /\ Len(Rest) = Cardinality(splitPool)
         /\ \A s \in splitPool : \E k \in DOMAIN Rest :
              Rest[k] \in Potentials(s) /\ kas[Rest[k]] = "granted"
<1> DEFINE all == UNION {sharePool[s] : s \in splitPool}
           share == [s \in splitPool |-> CHOOSE i \in Potentials(s) :
                       kas[i] = "granted" /\ sharePool[s] = {i}]
<1>1. UnwrapTypes /\ (\A s \in Splits : ShareInv(s)) /\ splitPool \subseteq Splits
  BY DEF UnwrapInv, UnwrapTypes
<1>2. \A s \in splitPool : /\ share[s] \in Potentials(s)
                           /\ kas[share[s]] = "granted" /\ sharePool[s] = {share[s]}
  BY <1>1 DEF ShareInv
<1> HIDE DEF share
<1>3. /\ \A s \in splitPool : share[s] \in all
      /\ \A i \in all : \E s \in splitPool : share[s] = i
  BY <1>2
<1>4. \A s, r \in splitPool : share[s] = share[r] => s = r
  BY <1>1, <1>2, CallFacts DEF UnwrapTypes
<1>5. IsFiniteSet(splitPool) /\ (\A i \in Kaos : i \in Nat)
      /\ \A s : Potentials(s) \subseteq Kaos
  BY <1>1, CallFacts, FS_Subset DEF UnwrapTypes
<1>6. \A i \in all : i \in Kaos /\ i \in Nat
  BY <1>2, <1>3, <1>5
<1> HIDE DEF all
<1>7. share = [s \in splitPool |-> share[s]]
  BY DEF share
<1>8. share \in Bijection(splitPool, all)
  <2>1. share \in [splitPool -> all]
    BY <1>3, <1>7
  <2> QED
    BY <2>1, <1>3, <1>4 DEF Bijection, Injection, Surjection, IsInjective
<1>9. IsFiniteSet(all) /\ Cardinality(all) = Cardinality(splitPool)
  <2>1. ExistsBijection(splitPool, all)
    BY <1>8 DEF ExistsBijection
  <2> QED
    BY <2>1, <1>5, FS_Bijection
<1>10. /\ Rest \in Seq(all)
       /\ Len(Rest) = Cardinality(all)
       /\ \A i \in all : \E k \in DOMAIN Rest : Rest[k] = i
  BY <1>6, <1>9, InOrderEnumerates DEF Rest, all
<1>11. Rest \in Seq(Kaos)
  BY <1>6, <1>10
<1> QED
  BY <1>2, <1>3, <1>9, <1>10, <1>11

(* The shares that AllOpened merges: one of every split.                     *)
LEMMA AllOpenedMerges ==
  ASSUME UnwrapInv, AllOpened
  PROVE  /\ shares' \in Seq(Kaos)
         /\ Len(shares') = Cardinality(Splits)
         /\ \A s \in Splits : \E k \in DOMAIN shares' :
              shares'[k] \in Potentials(s) /\ kas[shares'[k]] = "granted"
<1>1. /\ UnwrapTypes /\ SplitInv /\ outcome = "pending" /\ splitState = "rest"
      /\ \A s \in splitPool : shareState[s] = "opened"
      /\ shares' = shares \o Rest
  BY DEF UnwrapInv, AllOpened, Pushed
<1>2. /\ shares \in Seq(Kaos) /\ splitPool \subseteq Splits
      /\ Len(shares) = Cardinality(Kept)
      /\ \A s \in Kept : \E k \in DOMAIN shares :
           shares[k] \in Potentials(s) /\ kas[shares[k]] = "granted"
  BY <1>1 DEF UnwrapTypes, SplitInv, SharesKept
<1>3. Kept \cup splitPool = Splits /\ Kept \cap splitPool = {}
  BY <1>1, <1>2 DEF SplitInv, RestIsAll, Kept
<1>4. IsFiniteSet(Kept) /\ IsFiniteSet(splitPool)
  BY <1>1, <1>2, <1>3, CallFacts, FS_Subset DEF UnwrapTypes
<1>5. Cardinality(Splits) = Cardinality(Kept) + Cardinality(splitPool)
  BY <1>3, <1>4, DisjointUnion
<1>6. /\ Rest \in Seq(Kaos)
      /\ Len(Rest) = Cardinality(splitPool)
      /\ \A s \in splitPool : \E k \in DOMAIN Rest :
           Rest[k] \in Potentials(s) /\ kas[Rest[k]] = "granted"
  BY <1>1, RestIsShares
<1>7. shares' \in Seq(Kaos) /\ Len(shares') = Cardinality(Splits)
  <2>1. shares \in Seq(Kaos) /\ Rest \in Seq(Kaos)
    BY <1>2, <1>6
  <2>2. shares \o Rest \in Seq(Kaos) /\ Len(shares \o Rest) = Len(shares) + Len(Rest)
    BY <2>1
  <2> QED
    BY <2>2, <1>1, <1>2, <1>5, <1>6
<1>8. ASSUME NEW s \in Splits
      PROVE  \E k \in DOMAIN shares' :
               shares'[k] \in Potentials(s) /\ kas[shares'[k]] = "granted"
  <2>1. CASE s \in Kept
    <3>1. PICK k \in DOMAIN shares : shares[k] \in Potentials(s) /\ kas[shares[k]] = "granted"
      BY <2>1, <1>2
    <3>2. k \in DOMAIN shares' /\ shares'[k] = shares[k]
      BY <3>1, <1>1, <1>2, <1>6
    <3> QED
      BY <3>1, <3>2
  <2>2. CASE s \in splitPool
    <3>1. PICK k \in DOMAIN Rest : Rest[k] \in Potentials(s) /\ kas[Rest[k]] = "granted"
      BY <2>2, <1>6
    <3>2. Len(shares) + k \in DOMAIN shares' /\ shares'[Len(shares) + k] = Rest[k]
      BY <3>1, <1>1, <1>2, <1>6
    <3> QED
      BY <3>1, <3>2
  <2> QED
    BY <2>1, <2>2, <1>3
<1> QED
  BY <1>7, <1>8

(* The end of a call leaves the pools alone.                                 *)
LEMMA EndUnwraps ==
  ASSUME UnwrapInv, SplitLost \/ AllOpened
  PROVE  UnwrapInv'
<1>1. /\ UnwrapTypes /\ (\A s \in Splits : ShareInv(s)) /\ OnlyAllowedAsked /\ SplitInv
      /\ outcome' \in {"error", "key"}
      /\ UNCHANGED <<call, kas, sharePool, shareState, splitPool, splitState>>
  BY DEF UnwrapInv, SplitLost, AllOpened
<1>2. /\ Kaos' = Kaos /\ Splits' = Splits /\ poolSize' = poolSize /\ Kept' = Kept
      /\ \A s : Potentials(s)' = Potentials(s)
      /\ \A j : IsAllowed(j)' = IsAllowed(j)
  BY <1>1, CallIsFixed DEF Kept
<1>3. shares' \in Seq(Kaos)
  BY <1>1, AllOpenedMerges DEF SplitLost, UnwrapTypes
<1>4. UnwrapTypes' /\ (\A s \in Splits : ShareInv(s)') /\ OnlyAllowedAsked'
  BY <1>1, <1>2, <1>3 DEF UnwrapTypes, ShareInv, Searched, Idle, OnlyAllowedAsked
<1>5. KeptOpened' /\ StartedInOrder' /\ PoolOfSplits'
  BY <1>1, <1>2 DEF SplitInv, KeptOpened, StartedInOrder, PoolOfSplits
<1>6. NothingYet' /\ SharesKept' /\ RestIsAll'
  BY <1>1 DEF NothingYet, SharesKept, RestIsAll
<1> QED
  BY <1>2, <1>4, <1>5, <1>6 DEF UnwrapInv, SplitInv

(* Every step keeps the invariant.                                           *)
LEMMA NextUnwraps == UnwrapInv /\ [Next]_vars => UnwrapInv'
<1> SUFFICES ASSUME UnwrapInv, [Next]_vars PROVE UnwrapInv'
  OBVIOUS
<1>1. CASE Start
  BY <1>1, StartUnwraps
<1>2. ASSUME NEW i \in Kaos, Answer(i) PROVE UnwrapInv'
  BY <1>2, AnswerUnwraps
<1>3. ASSUME NEW s \in Splits, ShareOpened(s) \/ ShareRefused(s) \/ ShareLost(s)
      PROVE  UnwrapInv'
  BY <1>3, ShareUnwraps
<1>4. CASE SplitOpened
  BY <1>4, SplitOpenedUnwraps
<1>5. CASE SplitLost \/ AllOpened
  BY <1>5, EndUnwraps
<1>6. CASE UNCHANGED vars
  <2>1. /\ Kaos' = Kaos /\ Splits' = Splits /\ poolSize' = poolSize
        /\ \A s : Potentials(s)' = Potentials(s)
        /\ \A j : IsAllowed(j)' = IsAllowed(j)
    BY <1>6, CallIsFixed DEF vars
  <2> QED
    BY <1>6, <2>1 DEF vars, UnwrapInv, UnwrapTypes, ShareInv, Searched, Idle,
       OnlyAllowedAsked, SplitInv, KeptOpened, Kept, StartedInOrder, PoolOfSplits,
       NothingYet, SharesKept, RestIsAll
<1> QED
  BY <1>1, <1>2, <1>3, <1>4, <1>5, <1>6 DEF Next, PoolStep

(* unwrapKey, for every manifest, list of KASes and concurrency limit: the   *)
(* pools hold at most poolSize, start jobs in the order of the manifest, and *)
(* keep one granted share of each split that was opened.                     *)
THEOREM UnwrapInvariant == Spec => []UnwrapInv
  BY InitUnwraps, NextUnwraps, PTL DEF Spec

-----------------------------------------------------------------------------
(* unwrapKey implements the and-or of KeyRecovery.                           *)
merged == IF outcome = "key" THEN shares ELSE <<>>
(* What KeyRecovery calls the potentials.                                    *)
potentials == [s \in Splits |-> Potentials(s)]

(* KeyRecovery's copy of Cardinality is the same operator.                   *)
LEMMA SameCardinality == \A S : Recovery!Cardinality(S) = Cardinality(S)
  BY DEF Recovery!Cardinality, Cardinality

(* Before the call nothing is recovered.                                     *)
LEMMA InitRecovers == Init => Recovery!RecoveryInit
  BY DEF Init, Recovery!RecoveryInit

(* Each step of the pools is a step of KeyRecovery, or none.                 *)
LEMMA NextRecovers ==
  ASSUME UnwrapInv, [Next]_vars
  PROVE  [Recovery!RecoveryNext]_Recovery!recoveryVars
<1>1. UnwrapTypes /\ SplitInv /\ DOMAIN kas = Kaos
  BY DEF UnwrapInv, UnwrapTypes
<1>2. UNCHANGED call => potentials' = potentials
  BY CallIsFixed DEF potentials
<1>3. /\ DOMAIN potentials = Splits
      /\ \A s \in Splits : potentials[s] = Potentials(s)
  BY DEF potentials
<1>4. ASSUME UNCHANGED <<call, shares, outcome>>,
             outcome \notin {"new", "rejected"},
             kas' \in [Kaos -> {"idle", "asked", "granted", "refused"}],
             \A i \in Kaos : \/ kas'[i] = kas[i]
                             \/ kas[i] = "idle" /\ kas'[i] = "asked"
                             \/ kas[i] = "asked" /\ kas'[i] \in {"granted", "refused"}
      PROVE  Recovery!AskAndAnswer
  BY <1>1, <1>2, <1>4 DEF Recovery!AskAndAnswer, Recovery!Answered, potentials
<1>5. CASE Start
  <2>1. outcome = "new" /\ shares' = shares /\ call' = call /\ shares = <<>>
        /\ \A i \in Kaos : kas[i] = "idle"
    BY <1>1, <1>5 DEF Start, SplitInv, NothingYet, Idle
  <2>2. CASE outcome' = "rejected" /\ kas' = kas
    BY <2>1, <2>2, <1>2 DEF Recovery!RecoveryNext, Recovery!Reject, potentials
  <2>3. CASE outcome' = "pending" /\ RunSplits({}) /\ ~Unopenable
    <3>1. /\ kas' \in [Kaos -> {"idle", "asked", "granted", "refused"}]
          /\ \A i \in Kaos : Idle(i) => kas'[i] \in {"idle", "asked"}
      BY <2>1, <2>3, RunSplitsStarts
    <3>2. kas' \in [DOMAIN kas -> {"idle", "asked"}]
      BY <3>1, <2>1, <1>1 DEF Idle
    <3>3. \A s \in Splits : Potentials(s) # {}
      BY <2>3 DEF Unopenable
    <3> QED
      BY <2>1, <2>3, <3>2, <3>3, <1>2
         DEF Recovery!RecoveryNext, Recovery!GoAhead, Recovery!Splits, potentials
  <2> QED
    BY <2>2, <2>3, <1>5 DEF Start
<1>6. ASSUME NEW i \in Kaos, Answer(i) PROVE Recovery!AskAndAnswer
  <2>1. outcome \notin {"new", "rejected"}
    BY <1>1, <1>6 DEF Answer, SplitInv, NothingYet, Idle
  <2>2. /\ kas' \in [Kaos -> {"idle", "asked", "granted", "refused"}]
        /\ \A j \in Kaos : \/ kas'[j] = kas[j]
                           \/ kas[j] = "asked" /\ kas'[j] \in {"granted", "refused"}
    BY <1>1, <1>6 DEF Answer, UnwrapTypes
  <2> QED
    BY <2>1, <2>2, <1>4, <1>6 DEF Answer
<1>7. ASSUME NEW s \in Splits, ShareOpened(s) \/ ShareRefused(s) \/ ShareLost(s)
      PROVE  Recovery!AskAndAnswer
  <2>1. /\ UnwrapInv'
        /\ outcome \notin {"new", "rejected"}
        /\ \A i \in Kaos : \/ kas'[i] = kas[i]
                           \/ kas[i] = "idle" /\ kas'[i] = "asked"
    BY <1>7, ShareUnwraps
  <2>2. UNCHANGED <<call, shares, outcome>>
    BY <1>7 DEF ShareOpened, ShareRefused, ShareLost
  <2>3. kas' \in [Kaos -> {"idle", "asked", "granted", "refused"}]
    BY <2>1, <2>2, CallIsFixed DEF UnwrapInv, UnwrapTypes
  <2> QED
    BY <2>1, <2>2, <2>3, <1>4
<1>8. CASE SplitOpened
  <2>1. /\ outcome = "pending" /\ outcome' = "pending" /\ call' = call
    BY <1>8 DEF SplitOpened
  <2>2. PICK s \in splitPool : RunSplits(splitPool \ {s})
    BY <1>8 DEF SplitOpened
  <2>3. /\ kas' \in [Kaos -> {"idle", "asked", "granted", "refused"}]
        /\ \A i \in Kaos : ~Idle(i) => kas'[i] = kas[i]
        /\ \A i \in Kaos : Idle(i) => kas'[i] \in {"idle", "asked"}
    BY <2>1, <2>2, RunSplitsStarts
  <2>4. Recovery!AskAndAnswer
    BY <2>1, <2>3, <1>1, <1>2
       DEF Recovery!AskAndAnswer, Recovery!Answered, potentials, Idle
  <2> QED
    BY <2>4 DEF Recovery!RecoveryNext
<1>9. CASE SplitLost
  <2>1. PICK s \in splitPool : shareState[s] = "lost"
    BY <1>9 DEF SplitLost
  <2>2. s \in Splits /\ \A i \in Potentials(s) : kas[i] = "refused"
    BY <2>1, <1>1 DEF UnwrapTypes, UnwrapInv, ShareInv
  <2> QED
    BY <2>2, <1>2, <1>9 DEF SplitLost, Recovery!RecoveryNext, Recovery!GiveUp,
       Recovery!Splits, Recovery!Lost, potentials
<1>10. CASE AllOpened
  <2>1. /\ Len(shares') = Cardinality(Splits)
        /\ \A s \in Splits : \E k \in DOMAIN shares' :
             shares'[k] \in Potentials(s) /\ kas[shares'[k]] = "granted"
    BY <1>10, AllOpenedMerges
  <2> QED
    BY <2>1, <1>2, <1>10, SameCardinality DEF AllOpened, Recovery!RecoveryNext, Recovery!Recover,
       Recovery!Splits, potentials
<1>11. CASE UNCHANGED vars
  BY <1>2, <1>11 DEF vars, Recovery!recoveryVars, potentials
<1> QED
  BY <1>5, <1>6, <1>7, <1>8, <1>9, <1>10, <1>11
     DEF Next, PoolStep, Recovery!RecoveryNext

(* unwrapKey, with its pools, behaves as the and-or of KeyRecovery whatever  *)
(* the manifest, the allow list and the concurrency limit: a call is refused *)
(* before a KAS is asked or can ask somebody for every split; an answer is   *)
(* final; the key is merged from one granted share of every split; and it    *)
(* fails only when a split is lost.                                          *)
THEOREM UnwrapRecoversTheKey == Spec => RecoversKey
  BY UnwrapInvariant, InitRecovers, NextRecovers, PTL
     DEF Spec, RecoversKey, Recovery!RecoverySpec

(* How the pools bound what is under way, and in which order they ask: read  *)
(* off the invariant, for a KAS of a split whose search goes on.             *)
PoolsBounded ==
  \A s \in Splits : Searched(s) => \A i \in Potentials(s) :
    /\ Cardinality({j \in Kaos : SplitOf(j) = SplitOf(i) /\ kas[j] = "asked"}) <= poolSize
    /\ Cardinality({r \in Splits : Searched(r)}) <= poolSize

(* The invariant bounds what is under way.                                   *)
LEMMA PoolsBound == UnwrapInv => PoolsBounded
<1> SUFFICES ASSUME UnwrapInv, NEW s \in Splits, Searched(s), NEW i \in Potentials(s)
    PROVE  /\ Cardinality({j \in Kaos : SplitOf(j) = SplitOf(i) /\ kas[j] = "asked"}) <= poolSize
           /\ Cardinality({r \in Splits : Searched(r)}) <= poolSize
  BY DEF PoolsBounded
<1>1. /\ UnwrapTypes /\ ShareInv(s) /\ OnlyAllowedAsked /\ SplitInv
  BY DEF UnwrapInv
<1>2. /\ poolSize \in Nat \ {0} /\ IsFiniteSet(Splits) /\ IsFiniteSet(Potentials(s))
      /\ SplitOf(i) = SplitOf(s)
  BY <1>1, CallFacts DEF UnwrapTypes
<1>3. \A j \in {k \in Kaos : SplitOf(k) = SplitOf(i) /\ kas[k] = "asked"} : j \in sharePool[s]
  BY <1>1, <1>2 DEF ShareInv, OnlyAllowedAsked, Idle, Potentials
<1>4. /\ IsFiniteSet(sharePool[s]) /\ Cardinality(sharePool[s]) \in Nat
      /\ Cardinality(sharePool[s]) <= poolSize
  BY <1>1, <1>2, FS_Subset, FS_CardinalityType DEF ShareInv
<1>5. /\ Cardinality({j \in Kaos : SplitOf(j) = SplitOf(i) /\ kas[j] = "asked"})
           <= Cardinality(sharePool[s])
      /\ Cardinality({j \in Kaos : SplitOf(j) = SplitOf(i) /\ kas[j] = "asked"}) \in Nat
  <2> DEFINE A == {j \in Kaos : SplitOf(j) = SplitOf(i) /\ kas[j] = "asked"}
  <2>1. A \subseteq sharePool[s]
    BY <1>3
  <2> HIDE DEF A
  <2>2. Cardinality(A) <= Cardinality(sharePool[s]) /\ Cardinality(A) \in Nat
    BY <2>1, <1>4, FS_Subset, FS_CardinalityType
  <2> QED
    BY <2>2 DEF A
<1>6. /\ IsFiniteSet(splitPool) /\ Cardinality(splitPool) \in Nat
      /\ Cardinality(splitPool) <= poolSize
  BY <1>1, <1>2, FS_Subset, FS_CardinalityType DEF UnwrapTypes, SplitInv, PoolOfSplits
<1>7. /\ Cardinality({r \in Splits : Searched(r)}) <= Cardinality(splitPool)
      /\ Cardinality({r \in Splits : Searched(r)}) \in Nat
  <2> DEFINE A == {r \in Splits : Searched(r)}
  <2>1. \A r \in A : r \in splitPool
    BY <1>1 DEF SplitInv, KeptOpened, Kept, Searched
  <2> HIDE DEF A
  <2>2. Cardinality(A) <= Cardinality(splitPool) /\ Cardinality(A) \in Nat
    BY <2>1, <1>6, FS_Subset, FS_CardinalityType
  <2> QED
    BY <2>2 DEF A
<1> QED
  BY <1>2, <1>4, <1>5, <1>6, <1>7

(* A pool of one: while one split is in it, those started before are opened. *)
OpenedBefore ==
  poolSize = 1 => \A r \in splitPool, s \in Splits : s < r =>
    shareState[s] = "opened" /\ \E j \in Potentials(s) : kas[j] = "granted"

(* With a pool of one, every split before one that is searched was opened.   *)
LEMMA OneAtATime == UnwrapInv => OpenedBefore
<1> SUFFICES ASSUME UnwrapInv, poolSize = 1, NEW r \in splitPool, NEW s \in Splits, s < r
    PROVE  shareState[s] = "opened" /\ \E j \in Potentials(s) : kas[j] = "granted"
  BY DEF OpenedBefore
<1>1. UnwrapTypes /\ ShareInv(s) /\ SplitInv /\ r \in Splits
  BY DEF UnwrapInv, UnwrapTypes
<1>2. IsFiniteSet(splitPool) /\ s \in Nat /\ r \in Nat
  BY <1>1, CallFacts, FS_Subset DEF UnwrapTypes
<1>3. s \notin splitPool
  <2>1. ASSUME s \in splitPool PROVE FALSE
    <3>1. {s, r} \subseteq splitPool /\ s # r
      BY <2>1, <1>1, <1>2
    <3>2. IsFiniteSet({r}) /\ Cardinality({r}) = 1 /\ s \notin {r}
      BY <3>1, FS_Singleton
    <3>3. Cardinality({r} \cup {s}) = 2 /\ {r} \cup {s} \subseteq splitPool
      BY <3>1, <3>2, FS_AddElement
    <3>4. 2 <= Cardinality(splitPool) /\ Cardinality(splitPool) \in Nat
      BY <3>3, <1>2, FS_Subset, FS_CardinalityType
    <3> QED
      BY <3>4, <1>1 DEF SplitInv, PoolOfSplits
  <2> QED
    BY <2>1
<1>4. shareState[s] # "idle"
  BY <1>1 DEF SplitInv, StartedInOrder, PoolOfSplits
<1>5. shareState[s] = "opened"
  BY <1>1, <1>3, <1>4 DEF SplitInv, KeptOpened, Kept
<1> QED
  BY <1>1, <1>5 DEF ShareInv

(* What NoNeedlessRewrap asks of a step that asks i.                         *)
NeedlessOf(i) ==
  /\ Cardinality({j \in Kaos : SplitOf(j) = SplitOf(i) /\ kas'[j] = "asked"}) <= poolSize
  /\ Cardinality({s \in Splits : shareState'[s] \in {"race", "rest"}}) <= poolSize
  /\ poolSize = 1 =>
       /\ \A j \in 1 .. i - 1 :
            SplitOf(j) = SplitOf(i) /\ IsAllowed(j) => kas[j] = "refused"
       /\ \A s \in Splits :
            (\E r \in Splits : s < r /\ SplitOf(r) = SplitOf(i)) =>
               \E j \in Potentials(s) : kas[j] = "granted"

(* One KAS more is asked: by a search that goes on, or by one that starts.   *)
LEMMA AskIsNeeded ==
  ASSUME UnwrapInv, UnwrapInv', UNCHANGED call,
         NEW r \in Splits, Searched(r)', NEW i \in Potentials(r),
         poolSize = 1 => \A j \in Potentials(r) : j < i => kas[j] = "refused",
         poolSize = 1 => \A s \in Splits : s < r => \E j \in Potentials(s) : kas[j] = "granted"
  PROVE  NeedlessOf(i)
<1>1. UnwrapTypes
  BY DEF UnwrapInv
<1>2. /\ Kaos' = Kaos /\ Splits' = Splits /\ poolSize' = poolSize
      /\ \A s : Potentials(s)' = Potentials(s) /\ Potentials(s) \subseteq Kaos
      /\ \A j : SplitOf(j)' = SplitOf(j)
  BY CallIsFixed DEF Potentials, SplitOf, keyAccess
<1>3. PoolsBounded'
  BY PoolsBound, PTL
<1>4. /\ Cardinality({j \in Kaos : SplitOf(j) = SplitOf(i) /\ kas'[j] = "asked"}) <= poolSize
      /\ Cardinality({s \in Splits : shareState'[s] \in {"race", "rest"}}) <= poolSize
  BY <1>2, <1>3 DEF PoolsBounded, Searched
<1>5. /\ SplitOf(i) = SplitOf(r) /\ IsFiniteSet(Kaos) /\ \A j \in Kaos : j \in Nat
      /\ Splits \subseteq Kaos
  BY <1>1, CallFacts DEF UnwrapTypes
<1>6. \A s \in Splits : SplitOf(s) = SplitOf(i) => s = r
  <2>1. ASSUME NEW s \in Splits, SplitOf(s) = SplitOf(r) PROVE s = r
    BY <1>1, <2>1, SplitsDiffer DEF UnwrapTypes
  <2> QED
    BY <2>1, <1>5
<1>7. ASSUME poolSize = 1, NEW j \in 1 .. i - 1, SplitOf(j) = SplitOf(i), IsAllowed(j)
      PROVE  kas[j] = "refused"
  <2>1. PICK n \in Nat : Kaos = 1 .. n
    BY <1>1, UnwrapAssumption DEF UnwrapTypes, Kaos, keyAccess
  <2>2. i \in Kaos
    BY <1>2
  <2>3. j \in Kaos /\ j < i
    BY <2>1, <2>2
  <2> QED
    BY <2>3, <1>5, <1>7 DEF Potentials
<1>8. ASSUME poolSize = 1, NEW s \in Splits, NEW q \in Splits, s < q, SplitOf(q) = SplitOf(i)
      PROVE  \E j \in Potentials(s) : kas[j] = "granted"
  BY <1>6, <1>8
<1> QED
  BY <1>4, <1>7, <1>8 DEF NeedlessOf

(* Every step that asks a KAS has room for it, and cause.                    *)
LEMMA StepIsNeeded ==
  ASSUME UnwrapInv, UnwrapInv', [Next]_vars, NEW i \in Kaos, kas[i] = "idle", kas'[i] = "asked"
  PROVE  NeedlessOf(i)
<1>1. UnwrapTypes /\ (\A s \in Splits : ShareInv(s)) /\ SplitInv
  BY DEF UnwrapInv
<1>2. call' = call
  BY DEF Next, PoolStep, vars, Start, Answer, ShareOpened, ShareRefused, ShareLost,
         SplitOpened, SplitLost, AllOpened
<1>3. /\ Kaos' = Kaos /\ Splits' = Splits /\ poolSize' = poolSize
      /\ \A s : Potentials(s)' = Potentials(s) /\ Potentials(s) \subseteq Kaos
  BY <1>2, CallIsFixed DEF Potentials
<1>4. ASSUME NEW pool, pool \subseteq splitPool, RunSplits(pool)
      PROVE  NeedlessOf(i)
  <2>1. /\ \A s \in splitPool' \ pool : shareState[s] = "idle" /\ Searched(s)'
        /\ \A s \in Splits : shareState[s] # "idle" => shareState'[s] = shareState[s]
        /\ \A s \in splitPool' \ pool : poolSize = 1 =>
             \A r \in Splits : r < s => shareState[r] # "idle"
        /\ \A s \in splitPool' \ pool : \A j \in Potentials(s) :
             poolSize = 1 /\ kas'[j] = "asked" => \A k \in Potentials(s) : ~(k < j)
        /\ \A j \in Kaos : kas'[j] # kas[j] =>
             \E s \in splitPool' \ pool : j \in Potentials(s)
        /\ splitPool' \in SUBSET Splits
    BY <1>2, <1>4, RunSplitsStarts
  <2>2. PICK r \in splitPool' \ pool : i \in Potentials(r)
    BY <2>1
  <2>3. ASSUME poolSize = 1, NEW s \in Splits, s < r
        PROVE  \E j \in Potentials(s) : kas[j] = "granted"
    <3>1. \A q \in splitPool' : \A t \in Splits : t < q /\ poolSize = 1 => shareState'[t] = "opened"
      <4>1. OpenedBefore'
        BY OneAtATime, PTL
      <4> QED
        BY <4>1, <1>3 DEF OpenedBefore
    <3>2. shareState'[s] = "opened" /\ shareState[s] # "idle"
      BY <2>1, <2>2, <2>3, <3>1
    <3>3. shareState[s] = "opened"
      BY <2>1, <3>2
    <3> QED
      BY <3>3, <1>1 DEF ShareInv
  <2> QED
    BY <2>1, <2>2, <2>3, <1>2, AskIsNeeded
<1>5. CASE Start
  BY <1>4, <1>5 DEF Start
<1>6. CASE SplitOpened
  BY <1>4, <1>6 DEF SplitOpened
<1>7. ASSUME NEW s \in Splits, ShareRefused(s) PROVE NeedlessOf(i)
  <2>1. PICK k \in sharePool[s] :
          /\ kas[k] = "refused"
          /\ kas' = [j \in Kaos |-> IF j \in NextAsked(s, k) THEN "asked" ELSE kas[j]]
          /\ shareState' = [shareState EXCEPT
                              ![s] = WaitingFor((sharePool[s] \ {k}) \cup NextAsked(s, k))]
    BY <1>7 DEF ShareRefused, NextAsked
  <2>2. shareState[s] = "race"
    BY <1>7 DEF ShareRefused
  <2>3. /\ \A j \in NextAsked(s, k) : j \in Potentials(s) /\ kas[j] = "idle"
        /\ poolSize = 1 =>
             /\ sharePool[s] = {k}
             /\ \A j \in NextAsked(s, k), l \in Potentials(s) : kas[l] = "idle" => ~(l < j)
    BY <2>1, <2>2, ShareRefusedAsks
  <2>4. i \in NextAsked(s, k) /\ i \in Potentials(s)
    BY <2>1, <2>3
  <2>5. Searched(s)'
    BY <2>1, <1>1 DEF Searched, WaitingFor, UnwrapTypes
  <2>6. ASSUME poolSize = 1, NEW j \in Potentials(s), j < i PROVE kas[j] = "refused"
    BY <2>1, <2>2, <2>3, <2>4, <2>6, <1>1 DEF ShareInv, Searched
  <2>7. s \in splitPool
    BY <2>2, <1>1 DEF SplitInv, KeptOpened, Kept
  <2>8. ASSUME poolSize = 1, NEW r \in Splits, r < s
        PROVE  \E j \in Potentials(r) : kas[j] = "granted"
    BY <2>7, <2>8, OneAtATime DEF OpenedBefore
  <2> QED
    BY <2>4, <2>5, <2>6, <2>8, <1>2, AskIsNeeded
<1>8. CASE \/ SplitLost \/ AllOpened \/ UNCHANGED vars
           \/ \E s \in Splits : ShareOpened(s) \/ ShareLost(s)
  BY <1>8 DEF SplitLost, AllOpened, ShareOpened, ShareLost, vars
<1>9. ASSUME NEW j \in Kaos, Answer(j) PROVE FALSE
  BY <1>1, <1>9 DEF Answer, UnwrapTypes
<1> QED
  BY <1>5, <1>6, <1>7, <1>8, <1>9 DEF Next, PoolStep

(* No KAS is asked without need: what the pools promise of rewraps under way *)
(* and, one at a time, of their order, for every call.                       *)
THEOREM NoRewrapIsNeedless == Spec => NoNeedlessRewrap
<1>1. UnwrapInv /\ UnwrapInv' /\ [Next]_vars =>
        \A i \in Kaos : kas[i] = "idle" /\ kas'[i] = "asked" => NeedlessOf(i)
  BY StepIsNeeded
<1>2. UnwrapInv /\ UnwrapInv' /\ [Next]_vars =>
        [\A i \in Kaos : kas[i] = "idle" /\ kas'[i] = "asked" =>
           /\ Cardinality({j \in Kaos : SplitOf(j) = SplitOf(i) /\ kas'[j] = "asked"}) <= poolSize
           /\ Cardinality({s \in Splits : shareState'[s] \in {"race", "rest"}}) <= poolSize
           /\ poolSize = 1 =>
                /\ \A j \in 1 .. i - 1 :
                     SplitOf(j) = SplitOf(i) /\ IsAllowed(j) => kas[j] = "refused"
                /\ \A s \in Splits :
                     (\E r \in Splits : s < r /\ SplitOf(r) = SplitOf(i)) =>
                        \E j \in Potentials(s) : kas[j] = "granted"]_vars
  BY <1>1 DEF NeedlessOf
<1> QED
  BY <1>2, UnwrapInvariant, PTL DEF Spec, NoNeedlessRewrap

-----------------------------------------------------------------------------
(* The plan of a file and the key access objects made from it.               *)
FileTypes == case \in Cases /\ call = OpeningOf(case)

(* The plan of a file and the call that opens it.                            *)
LEMMA PlanFacts ==
  ASSUME FileTypes
  PROVE  /\ call \in Calls
         /\ file.plan \in Seq(Range(file.plan)) /\ file.plan # <<>>
         /\ file.segments \in Nat
         /\ Kaos = DOMAIN file.plan
         /\ \A i \in Kaos : keyAccess[i].wrappedKey = ShareOf(file.plan, i)
         /\ \A i \in Kaos : SplitOf(i) = SidOf(file.plan[i])
<1>1. /\ call \in Calls /\ keyAccess = getKeyAccessObjects(file.plan)
      /\ file.plan \in Seq(Range(file.plan)) /\ file.plan # <<>> /\ file.segments \in Nat
  BY EnvelopeAssumption DEF FileTypes, OpeningOf, keyAccess, file
<1>2. Kaos = DOMAIN file.plan
  BY <1>1 DEF Kaos, getKeyAccessObjects
<1>3. ASSUME NEW i \in Kaos
      PROVE  /\ keyAccess[i].wrappedKey = ShareOf(file.plan, i)
             /\ keyAccess[i].sid =
                  IF SidOf(file.plan[i]) = EmptySid THEN NoSid ELSE SidOf(file.plan[i])
  BY <1>1, <1>2 DEF getKeyAccessObjects
<1>4. ASSUME NEW i \in Kaos PROVE SplitOf(i) = SidOf(file.plan[i])
  BY <1>3 DEF SplitOf, SidOf
<1> QED
  BY <1>1, <1>2, <1>3, <1>4

(* The reader finds the splits that the writer made.                         *)
LEMMA SplitsOfPlan ==
  ASSUME FileTypes
  PROVE  /\ \A i \in Kaos : \E s \in Splits : SplitOf(s) = SplitOf(i)
         /\ Cardinality(Splits) = Cardinality(Sids(file.plan))
<1>1. /\ call \in Calls /\ Kaos = DOMAIN file.plan
      /\ file.plan \in Seq(Range(file.plan)) /\ file.plan # <<>>
      /\ \A i \in Kaos : SplitOf(i) = SidOf(file.plan[i])
  BY PlanFacts
<1>2. PICK n \in Nat : Kaos = 1 .. n
  BY <1>1
<1>3. ASSUME NEW i \in Kaos PROVE \E s \in Splits : SplitOf(s) = SplitOf(i)
  <2> DEFINE T == {j \in Kaos : SplitOf(j) = SplitOf(i)}
  <2>1. T \subseteq Nat /\ T # {}
    BY <1>2
  <2>2. PICK s \in T : \A j \in T : s <= j
    BY <2>1, LeastNumber
  <2>3. \A j \in 1 .. s - 1 : j \in Kaos /\ j < s
    BY <1>2, <2>2
  <2>4. \A j \in 1 .. s - 1 : SplitOf(j) # SplitOf(s)
    BY <1>2, <2>2, <2>3
  <2> QED
    BY <2>2, <2>4 DEF Splits
<1>4. IsFiniteSet(Splits) /\ Splits \subseteq Kaos
  BY <1>1, CallFacts
<1> DEFINE f == [s \in Splits |-> SplitOf(s)]
<1>5. \A s \in Splits : SplitOf(s) \in Sids(file.plan)
  BY <1>1, <1>4 DEF Sids
<1>6. \A x \in Sids(file.plan) : \E s \in Splits : SplitOf(s) = x
  BY <1>1, <1>3 DEF Sids
<1>7. \A s, r \in Splits : SplitOf(s) = SplitOf(r) => s = r
  BY <1>1, SplitsDiffer
<1>8. f \in Bijection(Splits, Sids(file.plan))
  <2>1. f \in [Splits -> Sids(file.plan)] /\ \A s \in Splits : f[s] = SplitOf(s)
    BY <1>5
  <2> HIDE DEF f
  <2> QED
    BY <2>1, <1>6, <1>7 DEF Bijection, Injection, Surjection, IsInjective
<1>9. ExistsBijection(Splits, Sids(file.plan))
  BY <1>8 DEF ExistsBijection
<1>10. Cardinality(Sids(file.plan)) = Cardinality(Splits)
  BY <1>4, <1>9, FS_Bijection
<1> QED
  BY <1>3, <1>10

(* keySplit: "any n-1 subset of the keys contains no information".           *)
LEMMA SharesHide == FileTypes => SharesHideTheKey
<1> SUFFICES ASSUME FileTypes, NEW some \in SUBSET Kaos, some # {},
                    {SplitOf(i) : i \in some} # {SplitOf(i) : i \in Kaos}
    PROVE  keyMerge([k \in 1 .. Cardinality(some) |->
                       keyAccess[SetToSeq(some)[k]].wrappedKey]) # Key
  BY DEF SharesHideTheKey
<1> DEFINE f == SetToSeq(some)
           n == Cardinality(some)
           list == [k \in 1 .. n |-> keyAccess[f[k]].wrappedKey]
<1>1. /\ Kaos = DOMAIN file.plan
      /\ file.plan \in Seq(Range(file.plan)) /\ file.plan # <<>>
      /\ \A i \in Kaos : keyAccess[i].wrappedKey = ShareOf(file.plan, i)
      /\ \A i \in Kaos : SplitOf(i) = SidOf(file.plan[i])
  BY PlanFacts
<1>2. IsFiniteSet(some)
  BY PlanFacts, CallFacts, FS_Subset
<1>3. n \in Nat /\ n # 0 /\ \A k \in 1 .. n : f[k] \in some
  BY <1>2, SetToSeqEnumerates, FS_EmptySet
<1>4. PICK q \in Kaos : \A i \in some : SplitOf(i) # SplitOf(q)
  <2>1. PICK x \in {SplitOf(i) : i \in Kaos} : x \notin {SplitOf(i) : i \in some}
    OBVIOUS
  <2> QED
    BY <2>1
<1> HIDE DEF f, n
<1>5. \A k \in 1 .. n : f[k] \in DOMAIN file.plan /\ list[k] = ShareOf(file.plan, f[k])
  BY <1>1, <1>3
<1>6. \A i \in Kaos : ShareOf(file.plan, i) \in SUBSET Nat
  BY <1>1, SharesAreSets
<1>7. list \in Seq(SUBSET Nat) /\ Len(list) = n /\ list # <<>>
  <2>1. \A k \in 1 .. n : list[k] \in SUBSET Nat
    BY <1>1, <1>5, <1>6
  <2> QED
    BY <1>3, <2>1
<1>8. Merges(file.plan, list, f)
  BY <1>5, <1>7 DEF Merges
<1>9. \A p \in 1 .. Len(list) : SidOf(file.plan[f[p]]) # SidOf(file.plan[q])
  BY <1>1, <1>3, <1>4, <1>7
<1> HIDE DEF list
<1>10. keyMerge(list) # Key
  BY <1>1, <1>4, <1>8, <1>9, TooFewHide
<1> QED
  BY <1>10 DEF list, f, n

(* One granted share of every split merges to the key of the writer.         *)
KeyShares ==
  outcome = "key" =>
    /\ shares \in Seq(Kaos)
    /\ Len(shares) = Cardinality(Splits)
    /\ \A s \in Splits : \E k \in DOMAIN shares : shares[k] \in Potentials(s)

(* One granted share of each split makes the key, damage apart.              *)
LEMMA KeyIsMerged ==
  ASSUME FileTypes, KeyShares, outcome = "key",
         \A k \in DOMAIN shares : ~Damaged("share", shares[k])
  PROVE  reconstructedKey = Key
<1> DEFINE list == [k \in DOMAIN shares |-> ShareReceived(shares[k])]
<1>1. /\ Kaos = DOMAIN file.plan
      /\ file.plan \in Seq(Range(file.plan)) /\ file.plan # <<>>
      /\ \A i \in Kaos : keyAccess[i].wrappedKey = ShareOf(file.plan, i)
      /\ \A i \in Kaos : SplitOf(i) = SidOf(file.plan[i])
  BY PlanFacts
<1>2. /\ shares \in Seq(Kaos) /\ Len(shares) = Cardinality(Sids(file.plan))
      /\ \A s \in Splits : \E k \in DOMAIN shares : shares[k] \in Potentials(s)
  BY SplitsOfPlan DEF KeyShares
<1>3. \A k \in DOMAIN shares : list[k] = ShareOf(file.plan, shares[k])
  BY <1>1, <1>2 DEF ShareReceived
<1>4. \A i \in Kaos : ShareOf(file.plan, i) \in SUBSET Nat
  BY <1>1, SharesAreSets
<1>5. Len(shares) \in Nat /\ Len(shares) # 0
  <2>1. Len(splitIds(file.plan)) = Len(shares) /\ Len(splitIds(file.plan)) >= 1
    BY <1>1, <1>2, NumbersAre
  <2> QED
    BY <2>1, <1>2
<1>6. list \in Seq(SUBSET Nat) /\ Len(list) = Len(shares) /\ list # <<>>
  <2>1. DOMAIN shares = 1 .. Len(shares)
    BY <1>2
  <2>2. \A k \in DOMAIN shares : list[k] \in SUBSET Nat
    BY <1>2, <1>3, <1>4
  <2>3. list = [k \in 1 .. Len(shares) |-> list[k]]
    BY <2>1
  <2> HIDE DEF list
  <2> QED
    BY <2>1, <2>2, <2>3, <1>5
<1>7. Merges(file.plan, list, shares)
  BY <1>1, <1>2, <1>3, <1>6 DEF Merges
<1>8. ASSUME NEW i \in DOMAIN file.plan
      PROVE  \E p \in 1 .. Len(list) : SidOf(file.plan[shares[p]]) = SidOf(file.plan[i])
  <2>1. PICK s \in Splits : SplitOf(s) = SplitOf(i)
    BY <1>1, SplitsOfPlan
  <2>2. PICK p \in DOMAIN shares : shares[p] \in Potentials(s)
    BY <1>2
  <2>3. SplitOf(shares[p]) = SplitOf(i)
    BY <2>1, <2>2 DEF Potentials
  <2> QED
    BY <1>1, <1>2, <1>6, <2>2, <2>3
<1> HIDE DEF list
<1>9. keyMerge(list) = Key
  <2>1. Len(list) = Cardinality(Sids(file.plan))
    BY <1>2, <1>6
  <2>2. \A i \in DOMAIN file.plan :
          \E p \in 1 .. Len(list) : SidOf(file.plan[shares[p]]) = SidOf(file.plan[i])
    BY <1>8
  <2> QED
    BY <2>1, <2>2, <1>1, <1>7, OneOfEachIsKey
<1> QED
  BY <1>9 DEF reconstructedKey, list

-----------------------------------------------------------------------------
(* Writer and reader.  The steps of the envelope leave unwrapKey alone or    *)
(* are steps of it.                                                          *)
Signed ==
  {CreateAssertion(config) :
     config \in {file.assertionConfigs[k] : k \in DOMAIN file.assertionConfigs}
                  \cup {systemMetadata}}

(* Where writer and reader may be.                                           *)
Opening == {"verifying", "open", "read", "refused"}
Stages == {"sealing", "failed", "sealed", "misconfigured", "listing", "unlisted",
            "unwrapping", "denied"} \cup Opening

(* The types that the proofs need.                                           *)
EnvelopeTypes ==
  /\ FileTypes
  /\ assertions \in Seq(Signed)
  /\ verified \in 0 .. Len(assertions)
  /\ delivered \in 0 .. file.segments
  /\ at \in Stages

(* What was passed on the way holds still.                                   *)
SealedComplete == at \notin {"sealing", "failed"} => AllSigned
(* What was passed on the way: the key, the assertions, the root, each       *)
(* segment.                                                                  *)
NothingOpened == at \notin Opening => verified = 0 /\ delivered = 0
OpenedWithKey == at \in Opening => outcome = "key"
VerifiedHold == \A k \in 1 .. verified : verify(StoredAssertion(k))
RootHolds == at \in {"open", "read"} => RootMatches /\ ~AssertionsLeft
DeliveredHold == \A s \in 1 .. delivered : decryptChunk(s)

(* Whatever the reader passed holds of the file.                             *)
PassedInv ==
  /\ SealedComplete /\ NothingOpened /\ OpenedWithKey
  /\ VerifiedHold /\ RootHolds /\ DeliveredHold

(* The invariant of writer and reader together.                              *)
EnvelopeInv ==
  /\ EnvelopeTypes
  /\ UnwrapInv
  /\ KeyShares
  /\ PassedInv
  /\ RefusalIsExplained

(* Unwrapping goes on as KeyUnwrap says, or stands still.                    *)
LEMMA StepsOfUnwrap == EnvelopeNext => [Next]_vars
  BY DEF EnvelopeNext, Seal, SignSystemMetadata, SignAssertion, WriteManifest, Decrypt,
         ListArrives, UnwrapKey, Open, VerifyAssertion, VerifyRoot, DecryptSegment, Close

(* The file and its reader stay what they are, and so does what was made of  *)
(* the shares and the assertions, as long as these do.                       *)
LEMMA FileIsFixed ==
  ASSUME UNCHANGED case
  PROVE  /\ file' = file /\ damage' = damage /\ reader' = reader
         /\ Signed' = Signed
         /\ storedHashes' = storedHashes /\ isLegacyTDF' = isLegacyTDF
         /\ storedRoot' = storedRoot /\ storedSegments' = storedSegments
         /\ segmentHashes' = segmentHashes
<1>1. file' = file /\ damage' = damage /\ reader' = reader
  BY DEF file, damage, reader
<1>2. keyForEncryption' = keyForEncryption /\ schemaVersion' = schemaVersion
  BY <1>1 DEF keyForEncryption, Middleware, schemaVersion
<1>3. /\ \A s : Encrypted(s)' = Encrypted(s)
      /\ \A what, place : Damaged(what, place)' = Damaged(what, place)
      /\ Noise' = Noise
  BY <1>1, <1>2 DEF Encrypted, Damaged, Noise
<1>4. segmentHashes' = segmentHashes
  BY <1>1, <1>3 DEF segmentHashes
<1>5. rootSignature' = rootSignature
  BY <1>1, <1>2, <1>4 DEF rootSignature
<1>6. \A config : CreateAssertion(config)' = CreateAssertion(config)
  BY <1>1, <1>2, <1>4 DEF CreateAssertion, Bound, SigningKey
<1>7. Signed' = Signed
  BY <1>1, <1>6 DEF Signed
<1>8. \A list : InDisorder(list)' = InDisorder(list)
  BY <1>1 DEF InDisorder
<1>9. storedHashes' = storedHashes
  BY <1>3, <1>4, <1>8 DEF storedHashes
<1>10. isLegacyTDF' = isLegacyTDF
  BY <1>1, <1>2 DEF isLegacyTDF, storedVersion
<1>11. storedRoot' = storedRoot
  BY <1>1, <1>3, <1>5 DEF storedRoot
<1>12. storedSegments' = storedSegments
  <2>1. \A s : StoredSegment(s)' = StoredSegment(s)
    BY <1>3 DEF StoredSegment
  <2> QED
    BY <2>1, <1>1, <1>8 DEF storedSegments
<1> QED
  BY <1>1, <1>4, <1>7, <1>9, <1>10, <1>11, <1>12

(* Nor does the key, once it is recovered.                                   *)
LEMMA KeyIsFixed ==
  ASSUME UNCHANGED <<vars, case>>
  PROVE  /\ keyForDecryption' = keyForDecryption
         /\ RootMatches' <=> RootMatches
         /\ \A s : decryptChunk(s)' <=> decryptChunk(s)
         /\ \A assertion : verify(assertion)' <=> verify(assertion)
<1>1. /\ file' = file /\ damage' = damage /\ reader' = reader
      /\ storedHashes' = storedHashes /\ isLegacyTDF' = isLegacyTDF
      /\ storedRoot' = storedRoot /\ storedSegments' = storedSegments
  BY FileIsFixed
<1>2. \A i : ShareReceived(i)' = ShareReceived(i)
  BY <1>1 DEF ShareReceived, Damaged, Noise, keyAccess, vars
<1>3. reconstructedKey' = reconstructedKey
  BY <1>2 DEF reconstructedKey, vars
<1>4. keyForDecryption' = keyForDecryption
  BY <1>1, <1>3 DEF keyForDecryption, Middleware
<1>5. RootMatches' <=> RootMatches
  BY <1>1, <1>4 DEF RootMatches
<1>6. \A s : decryptChunk(s)' <=> decryptChunk(s)
  BY <1>1, <1>4 DEF decryptChunk
<1>7. \A assertion : verify(assertion)' <=> verify(assertion)
  BY <1>1, <1>4 DEF verify, verifyJwt, AssertionKey
<1> QED
  BY <1>4, <1>5, <1>6, <1>7

(* A file nothing of which was damaged that the reader looks at.             *)
LEMMA UndamagedIsStored ==
  /\ damage.what \notin {"order", "hash"} => storedHashes = segmentHashes
  /\ damage.what # "root" => storedRoot = rootSignature
  /\ damage.what \notin {"order", "segment", "tag"} =>
       storedSegments = [s \in 1 .. file.segments |-> Encrypted(s)]
  /\ damage.what # "version" => isLegacyTDF = isTargetSpecLegacyTDF(file.version)
  /\ damage.what \notin {"statement", "binding", "rebound"} =>
       \A k : StoredAssertion(k) = assertions[k]
<1>1. \A what, place : Damaged(what, place) => damage.what = what
  BY DEF Damaged
<1>2. ASSUME damage.what \notin {"order", "hash"} PROVE storedHashes = segmentHashes
  <2>1. segmentHashes = [s \in DOMAIN segmentHashes |-> segmentHashes[s]]
    BY DEF segmentHashes
  <2>2. \A s : ~Damaged("hash", s)
    BY <1>1, <1>2
  <2> QED
    BY <2>1, <2>2, <1>2 DEF storedHashes, InDisorder
<1>3. ASSUME damage.what \notin {"order", "segment", "tag"}
      PROVE  storedSegments = [s \in 1 .. file.segments |-> Encrypted(s)]
  <2>1. \A s : ~Damaged("segment", s) /\ ~Damaged("tag", s)
    BY <1>1, <1>3
  <2> QED
    BY <2>1, <1>3 DEF storedSegments, StoredSegment, InDisorder
<1>4. ASSUME damage.what # "version"
      PROVE  isLegacyTDF = isTargetSpecLegacyTDF(file.version)
  BY <1>4 DEF isLegacyTDF, storedVersion, isTargetSpecLegacyTDF, specVersion, schemaVersion
<1>5. ASSUME damage.what \notin {"statement", "binding", "rebound"}, NEW k
      PROVE  StoredAssertion(k) = assertions[k]
  <2>1. ~Damaged("statement", k) /\ ~Damaged("binding", k) /\ ~Damaged("rebound", k)
    BY <1>1, <1>5
  <2> QED
    BY <2>1 DEF StoredAssertion
<1> QED
  BY <1>2, <1>3, <1>4, <1>5 DEF storedRoot

(* No step of the pools changes the call.                                    *)
LEMMA CallStays == [Next]_vars => call' = call
  BY DEF Next, PoolStep, vars, Start, Answer, ShareOpened, ShareRefused, ShareLost,
         SplitOpened, SplitLost, AllOpened

(* What unwrapKey merged stays as it was.                                    *)
LEMMA KeySharesKept ==
  ASSUME UnwrapInv, KeyShares, [Next]_vars
  PROVE  KeyShares'
<1>1. call' = call
  BY CallStays
<1>2. /\ Kaos' = Kaos /\ Splits' = Splits /\ \A s : Potentials(s)' = Potentials(s)
  BY <1>1, CallIsFixed
<1>3. CASE AllOpened
  BY <1>2, <1>3, AllOpenedMerges DEF KeyShares
<1>4. ASSUME ~AllOpened, outcome' = "key" PROVE outcome = "key" /\ shares' = shares
  BY <1>4 DEF Next, PoolStep, vars, Start, Answer, ShareOpened, ShareRefused, ShareLost,
         SplitOpened, SplitLost
<1> QED
  BY <1>2, <1>3, <1>4 DEF KeyShares

(* The invariant holds before anything is written.                           *)
LEMMA InitEnvelope == EnvelopeInit => EnvelopeInv
<1> SUFFICES ASSUME EnvelopeInit PROVE EnvelopeInv
  OBVIOUS
<1>1. UnwrapInv
  BY InitUnwraps DEF EnvelopeInit
<1>2. FileTypes
  BY DEF EnvelopeInit, FileTypes
<1>3. EnvelopeTypes
  BY <1>2, PlanFacts DEF EnvelopeInit, EnvelopeTypes, Stages
<1>4. KeyShares /\ PassedInv /\ RefusalIsExplained
  BY DEF EnvelopeInit, Init, KeyShares, PassedInv, SealedComplete, NothingOpened,
         OpenedWithKey, VerifiedHold, RootHolds, DeliveredHold, RefusalIsExplained, Opening
<1> QED
  BY <1>1, <1>3, <1>4 DEF EnvelopeInv

(* The writer signs.                                                         *)
LEMMA SignEnvelope ==
  ASSUME EnvelopeInv, SignSystemMetadata \/ \E k \in DOMAIN file.assertionConfigs : SignAssertion(k)
  PROVE  EnvelopeTypes' /\ PassedInv' /\ RefusalIsExplained'
<1>1. EnvelopeTypes /\ PassedInv
  BY DEF EnvelopeInv
<1>2. /\ at = "sealing" /\ UNCHANGED <<vars, case, verified, delivered>>
      /\ at' \in {"sealing", "failed"}
      /\ \/ assertions' = assertions
         \/ \E config \in {file.assertionConfigs[k] : k \in DOMAIN file.assertionConfigs}
                            \cup {systemMetadata} :
              assertions' = Append(assertions, CreateAssertion(config))
  BY DEF SignSystemMetadata, SignAssertion, Signs, openVars
<1>3. verified = 0 /\ delivered = 0
  BY <1>1, <1>2 DEF PassedInv, NothingOpened, Opening
<1>4. Signed' = Signed /\ file' = file
  BY <1>2, FileIsFixed
<1>5. assertions' \in Seq(Signed)
  BY <1>1, <1>2 DEF EnvelopeTypes, Signed
<1>6. FileTypes'
  BY <1>1, <1>2 DEF EnvelopeTypes, FileTypes, OpeningOf, vars
<1>7. file.segments \in Nat /\ Len(assertions') \in Nat
  BY <1>1, <1>5, PlanFacts DEF EnvelopeTypes
<1>8. EnvelopeTypes'
  BY <1>2, <1>3, <1>4, <1>5, <1>6, <1>7 DEF EnvelopeTypes, Stages
<1>9. PassedInv'
  BY <1>2, <1>3 DEF PassedInv, SealedComplete, NothingOpened, OpenedWithKey, Opening,
     VerifiedHold, RootHolds, DeliveredHold
<1>10. RefusalIsExplained'
  BY <1>2 DEF RefusalIsExplained
<1> QED
  BY <1>8, <1>9, <1>10

(* What stands as long as the file, the assertions and the call do.          *)
LEMMA EnvelopeStands ==
  ASSUME EnvelopeInv, UNCHANGED <<case, assertions, call>>, at' \in Stages
  PROVE  /\ FileTypes' /\ Signed' = Signed /\ file' = file
         /\ file.segments \in Nat /\ Len(assertions) \in Nat
         /\ verified' \in 0 .. Len(assertions) /\ delivered' \in 0 .. file.segments =>
              EnvelopeTypes'
         /\ AllSigned' <=> AllSigned
         /\ \A k : StoredAssertion(k)' = StoredAssertion(k)
<1>1. EnvelopeTypes
  BY DEF EnvelopeInv
<1>2. /\ file' = file /\ damage' = damage /\ Signed' = Signed
      /\ segmentHashes' = segmentHashes
  BY FileIsFixed
<1>3. FileTypes'
  BY <1>1 DEF EnvelopeTypes, FileTypes, OpeningOf
<1>4. file.segments \in Nat /\ Len(assertions) \in Nat
  BY <1>1, PlanFacts DEF EnvelopeTypes
<1>5. verified' \in 0 .. Len(assertions) /\ delivered' \in 0 .. file.segments => EnvelopeTypes'
  BY <1>1, <1>2, <1>3 DEF EnvelopeTypes
<1>6. AllSigned' <=> AllSigned
  BY <1>2 DEF AllSigned, MetadataUnsigned, Unsigned, Statements
<1>7. ASSUME NEW k PROVE StoredAssertion(k)' = StoredAssertion(k)
  BY <1>2 DEF StoredAssertion, Damaged, Bound
<1> QED
  BY <1>2, <1>3, <1>4, <1>5, <1>6, <1>7

(* The manifest is written, the list of KASes chosen and fetched, the key    *)
(* unwrapped: nothing is opened yet.                                         *)
LEMMA ApproachEnvelope ==
  ASSUME EnvelopeInv, WriteManifest \/ Decrypt \/ ListArrives \/ UnwrapKey
  PROVE  EnvelopeTypes' /\ PassedInv' /\ RefusalIsExplained'
<1>1. EnvelopeTypes /\ PassedInv
  BY DEF EnvelopeInv
<1>2. /\ UNCHANGED <<case, assertions, verified, delivered>>
      /\ at \in Stages \ ({"failed"} \cup Opening)
      /\ at' \in Stages \ {"sealing", "failed", "open", "read", "refused"}
      /\ at' = "verifying" => outcome' = "key"
      /\ at = "sealing" => AllSigned
  BY <1>1 DEF EnvelopeTypes, WriteManifest, Decrypt, ListArrives, UnwrapKey, sealVars, openVars,
     Stages, Opening
<1>3. call' = call
  BY CallStays DEF WriteManifest, Decrypt, ListArrives, UnwrapKey, vars
<1>4. verified = 0 /\ delivered = 0
  BY <1>1, <1>2 DEF PassedInv, NothingOpened
<1>5. EnvelopeTypes' /\ (AllSigned' <=> AllSigned)
  BY <1>2, <1>3, <1>4, EnvelopeStands DEF Stages
<1>6. PassedInv'
  BY <1>1, <1>2, <1>4, <1>5 DEF PassedInv, SealedComplete, NothingOpened, OpenedWithKey,
     Opening, Stages, VerifiedHold, RootHolds, DeliveredHold
<1>7. RefusalIsExplained'
  BY <1>2 DEF RefusalIsExplained
<1> QED
  BY <1>5, <1>6, <1>7

-----------------------------------------------------------------------------
(* The reader.  What a refusal may be blamed on.                             *)
Explained ==
  \/ file.keyMiddleware # reader.keyMiddleware
  \/ \E k \in DOMAIN shares : Damaged("share", shares[k])
  \/ damage.what \in {"version", "order", "hash", "segment", "tag", "root"}
  \/ /\ ~reader.noVerifyAssertions
     /\ \/ damage.what \in {"statement", "binding", "rebound"}
        \/ \E k \in DOMAIN assertions :
             AssertionKey(assertions[k]) # CounterpartOf(assertions[k])

(* A cause for refusal is one of the file and its reader, and stays.         *)
LEMMA ExplainedIsFixed ==
  ASSUME UNCHANGED <<vars, case, assertions>>
  PROVE  Explained' <=> Explained
<1>1. /\ file' = file /\ damage' = damage /\ reader' = reader
      /\ keyForDecryption' = keyForDecryption /\ shares' = shares
  BY FileIsFixed, KeyIsFixed DEF vars
<1>2. \A assertion : AssertionKey(assertion)' = AssertionKey(assertion)
  BY <1>1 DEF AssertionKey
<1>3. \A i : Damaged("share", i)' <=> Damaged("share", i)
  BY <1>1 DEF Damaged
<1> QED
  BY <1>1, <1>2, <1>3 DEF Explained

(* Without a cause the reader has the key of the writer, and what it reads   *)
(* was written.                                                              *)
LEMMA NoCause ==
  ASSUME FileTypes, KeyShares, outcome = "key", ~Explained
  PROVE  /\ keyForDecryption = keyForEncryption
         /\ isLegacyTDF = isTargetSpecLegacyTDF(file.version)
         /\ storedHashes = segmentHashes /\ storedRoot = rootSignature
         /\ storedSegments = [s \in 1 .. file.segments |-> Encrypted(s)]
         /\ ~reader.noVerifyAssertions => \A k : StoredAssertion(k) = assertions[k]
<1>1. reconstructedKey = Key
  BY KeyIsMerged DEF Explained
<1>2. keyForDecryption = keyForEncryption
  BY <1>1 DEF keyForDecryption, keyForEncryption, Explained
<1> QED
  BY <1>2, UndamagedIsStored DEF Explained

(* Without a cause every assertion that was signed verifies.                 *)
LEMMA SignedVerify ==
  ASSUME EnvelopeTypes, KeyShares, outcome = "key", ~Explained,
         ~reader.noVerifyAssertions, NEW k \in DOMAIN assertions
  PROVE  verify(StoredAssertion(k))
<1>1. /\ isLegacyTDF = isTargetSpecLegacyTDF(file.version)
      /\ storedHashes = segmentHashes
      /\ StoredAssertion(k) = assertions[k]
  BY NoCause DEF EnvelopeTypes
<1>2. PICK config : assertions[k] = CreateAssertion(config)
  BY DEF EnvelopeTypes, Signed
<1>3. /\ hash(assertions[k]) = hash(config) /\ assertions[k].assertionHash = hash(config)
      /\ assertions[k].embedded = NoKey
      /\ assertions[k].assertionSig = AssertionSig(segmentHashes, hash(config),
                                                   isTargetSpecLegacyTDF(file.version))
  BY <1>2 DEF CreateAssertion, Bound, hash
<1>4. AssertionKey(assertions[k]) = CounterpartOf(assertions[k])
  BY DEF Explained
<1>5. CounterpartOf(assertions[k]).part # "private"
  BY DEF CounterpartOf, Verifying
<1>6. verifyJwt(assertions[k], CounterpartOf(assertions[k]), CounterpartOf(assertions[k]).alg)
  BY DEF CounterpartOf, verifyJwt
<1> QED
  BY <1>1, <1>3, <1>4, <1>5, <1>6 DEF verify

(* Verifying an assertion keeps the invariant.                               *)
LEMMA VerifyEnvelope ==
  ASSUME EnvelopeInv, VerifyAssertion
  PROVE  EnvelopeTypes' /\ PassedInv' /\ RefusalIsExplained'
<1>1. EnvelopeTypes /\ PassedInv /\ KeyShares
  BY DEF EnvelopeInv
<1>2. /\ UNCHANGED <<vars, case, assertions, delivered>> /\ at = "verifying"
      /\ AssertionsLeft
      /\ \/ /\ verify(StoredAssertion(verified + 1))
            /\ verified' = verified + 1 /\ at' = "verifying"
         \/ /\ ~verify(StoredAssertion(verified + 1))
            /\ verified' = verified /\ at' = "refused"
  BY DEF VerifyAssertion, sealVars
<1>3. outcome = "key" /\ AllSigned
  BY <1>1, <1>2 DEF PassedInv, OpenedWithKey, SealedComplete, Opening
<1>4. ~reader.noVerifyAssertions /\ verified + 1 \in 1 .. Len(assertions)
  BY <1>1, <1>2 DEF AssertionsLeft, EnvelopeTypes
<1>5. /\ verified \in Nat /\ verified' \in 0 .. Len(assertions)
      /\ assertions \in Seq(Signed) /\ delivered \in 0 .. file.segments
  BY <1>1, <1>2, <1>4 DEF EnvelopeTypes
<1>6. /\ EnvelopeTypes' /\ (AllSigned' <=> AllSigned)
      /\ \A k : StoredAssertion(k)' = StoredAssertion(k)
  BY <1>2, <1>5, EnvelopeStands DEF Stages, Opening, vars
<1>7. VerifiedHold'
  <2>1. \A k \in 1 .. verified' : verify(StoredAssertion(k))
    BY <1>1, <1>2, <1>5 DEF PassedInv, VerifiedHold
  <2>2. \A assertion : verify(assertion)' <=> verify(assertion)
    BY <1>2, KeyIsFixed
  <2>3. \A k \in 1 .. verified' : verify(StoredAssertion(k))'
    BY <2>1, <2>2, <1>6 DEF VerifiedHold
  <2> QED
    BY <2>3 DEF VerifiedHold
<1>8. DeliveredHold'
  BY <1>1, <1>2, KeyIsFixed DEF PassedInv, DeliveredHold
<1>9. PassedInv'
  BY <1>1, <1>2, <1>3, <1>6, <1>7, <1>8 DEF PassedInv, SealedComplete, NothingOpened,
     OpenedWithKey, RootHolds, Opening, vars
<1>10. RefusalIsExplained'
  <2>1. at' = "refused" => Explained
    BY <1>1, <1>2, <1>3, <1>4, <1>5, SignedVerify
  <2> QED
    BY <2>1, <1>2, ExplainedIsFixed DEF RefusalIsExplained, Explained
<1> QED
  BY <1>6, <1>9, <1>10

(* Verifying the root signature keeps the invariant.                         *)
LEMMA RootEnvelope ==
  ASSUME EnvelopeInv, VerifyRoot
  PROVE  EnvelopeTypes' /\ PassedInv' /\ RefusalIsExplained'
<1>1. EnvelopeTypes /\ PassedInv /\ KeyShares
  BY DEF EnvelopeInv
<1>2. /\ UNCHANGED <<vars, case, assertions, verified, delivered>> /\ at = "verifying"
      /\ ~AssertionsLeft
      /\ \/ RootMatches /\ at' = "open"
         \/ ~RootMatches /\ at' = "refused"
  BY DEF VerifyRoot, sealVars, openVars
<1>3. outcome = "key" /\ AllSigned
  BY <1>1, <1>2 DEF PassedInv, OpenedWithKey, SealedComplete, Opening
<1>4. /\ verified \in 0 .. Len(assertions) /\ delivered \in 0 .. file.segments
  BY <1>1 DEF EnvelopeTypes
<1>5. /\ EnvelopeTypes' /\ (AllSigned' <=> AllSigned)
      /\ \A k : StoredAssertion(k)' = StoredAssertion(k)
  BY <1>2, <1>4, EnvelopeStands DEF Stages, Opening, vars
<1>6. /\ RootMatches' <=> RootMatches
      /\ \A s : decryptChunk(s)' <=> decryptChunk(s)
      /\ \A assertion : verify(assertion)' <=> verify(assertion)
      /\ AssertionsLeft' <=> AssertionsLeft
  BY <1>2, KeyIsFixed, FileIsFixed DEF AssertionsLeft
<1>7. VerifiedHold' /\ DeliveredHold'
  BY <1>1, <1>2, <1>5, <1>6 DEF PassedInv, VerifiedHold, DeliveredHold
<1>8. PassedInv'
  BY <1>1, <1>2, <1>3, <1>5, <1>6, <1>7 DEF PassedInv, SealedComplete, NothingOpened,
     OpenedWithKey, RootHolds, Opening, vars
<1>9. RefusalIsExplained'
  <2>1. ~Explained => RootMatches
    BY <1>1, <1>3, NoCause DEF RootMatches, rootSignature, EnvelopeTypes
  <2> QED
    BY <2>1, <1>2, ExplainedIsFixed DEF RefusalIsExplained, Explained
<1> QED
  BY <1>5, <1>8, <1>9

(* Decrypting a segment keeps the invariant.                                 *)
LEMMA SegmentEnvelope ==
  ASSUME EnvelopeInv, DecryptSegment \/ Close
  PROVE  EnvelopeTypes' /\ PassedInv' /\ RefusalIsExplained'
<1>1. EnvelopeTypes /\ PassedInv /\ KeyShares
  BY DEF EnvelopeInv
<1>2. /\ UNCHANGED <<vars, case, assertions, verified>> /\ at = "open"
      /\ \/ /\ delivered < file.segments /\ decryptChunk(delivered + 1)
            /\ delivered' = delivered + 1 /\ at' = "open"
         \/ /\ delivered < file.segments /\ ~decryptChunk(delivered + 1)
            /\ delivered' = delivered /\ at' = "refused"
         \/ delivered' = delivered /\ at' = "read"
  BY DEF DecryptSegment, Close, sealVars, openVars
<1>3. /\ outcome = "key" /\ AllSigned /\ RootMatches /\ ~AssertionsLeft
  BY <1>1, <1>2 DEF PassedInv, OpenedWithKey, SealedComplete, RootHolds, Opening
<1>4. /\ verified \in 0 .. Len(assertions) /\ delivered \in 0 .. file.segments
      /\ file.segments \in Nat
  BY <1>1, PlanFacts DEF EnvelopeTypes
<1>5. delivered' \in 0 .. file.segments
  BY <1>2, <1>4
<1>6. /\ EnvelopeTypes' /\ (AllSigned' <=> AllSigned)
      /\ \A k : StoredAssertion(k)' = StoredAssertion(k)
  BY <1>2, <1>4, <1>5, EnvelopeStands DEF Stages, Opening, vars
<1>7. /\ RootMatches' <=> RootMatches
      /\ \A s : decryptChunk(s)' <=> decryptChunk(s)
      /\ \A assertion : verify(assertion)' <=> verify(assertion)
      /\ AssertionsLeft' <=> AssertionsLeft
  BY <1>2, KeyIsFixed, FileIsFixed DEF AssertionsLeft
<1>8. VerifiedHold'
  BY <1>1, <1>2, <1>6, <1>7 DEF PassedInv, VerifiedHold
<1>9. DeliveredHold'
  <2>1. \A s \in 1 .. delivered' : decryptChunk(s)
    BY <1>1, <1>2, <1>4 DEF PassedInv, DeliveredHold
  <2> QED
    BY <2>1, <1>7 DEF DeliveredHold
<1>10. PassedInv'
  BY <1>1, <1>2, <1>3, <1>6, <1>7, <1>8, <1>9 DEF PassedInv, SealedComplete, NothingOpened,
     OpenedWithKey, RootHolds, Opening, vars
<1>11. RefusalIsExplained'
  <2>1. ASSUME ~Explained, delivered < file.segments PROVE decryptChunk(delivered + 1)
    <3>1. /\ keyForDecryption = keyForEncryption
          /\ isLegacyTDF = isTargetSpecLegacyTDF(file.version)
          /\ storedHashes = segmentHashes
          /\ storedSegments = [s \in 1 .. file.segments |-> Encrypted(s)]
      BY <2>1, <1>1, <1>3, NoCause DEF EnvelopeTypes
    <3>2. delivered + 1 \in 1 .. file.segments
      BY <2>1, <1>4
    <3> QED
      BY <3>1, <3>2 DEF decryptChunk, segmentHashes, Encrypted, Tag
  <2> QED
    BY <2>1, <1>2, ExplainedIsFixed DEF RefusalIsExplained, Explained
<1> QED
  BY <1>6, <1>10, <1>11

(* Every step of writer and reader keeps the invariant.                      *)
LEMMA NextEnvelope == EnvelopeInv /\ [EnvelopeNext]_envelopeVars => EnvelopeInv'
<1> SUFFICES ASSUME EnvelopeInv, [EnvelopeNext]_envelopeVars PROVE EnvelopeInv'
  OBVIOUS
<1>1. UnwrapInv /\ KeyShares /\ [Next]_vars
  BY StepsOfUnwrap DEF EnvelopeInv, envelopeVars
<1>2. UnwrapInv' /\ KeyShares'
  BY <1>1, NextUnwraps, KeySharesKept
<1>3. CASE EnvelopeNext
  <2>1. EnvelopeTypes' /\ PassedInv' /\ RefusalIsExplained'
    BY <1>3, SignEnvelope, ApproachEnvelope, VerifyEnvelope, RootEnvelope, SegmentEnvelope
       DEF EnvelopeNext, Seal, Open
  <2> QED
    BY <2>1, <1>2 DEF EnvelopeInv
<1>4. CASE UNCHANGED envelopeVars
  <2>1. /\ UNCHANGED <<vars, case, assertions, verified, delivered, at>>
        /\ EnvelopeTypes /\ PassedInv /\ RefusalIsExplained
    BY <1>4 DEF envelopeVars, sealVars, openVars, EnvelopeInv
  <2>2. /\ EnvelopeTypes' /\ (AllSigned' <=> AllSigned)
        /\ \A k : StoredAssertion(k)' = StoredAssertion(k)
    BY <2>1, EnvelopeStands DEF EnvelopeTypes, vars
  <2>3. /\ RootMatches' <=> RootMatches
        /\ \A s : decryptChunk(s)' <=> decryptChunk(s)
        /\ \A assertion : verify(assertion)' <=> verify(assertion)
        /\ AssertionsLeft' <=> AssertionsLeft
    BY <2>1, KeyIsFixed, FileIsFixed DEF AssertionsLeft
  <2>4. PassedInv'
    BY <2>1, <2>2, <2>3 DEF PassedInv, SealedComplete, NothingOpened, OpenedWithKey,
       VerifiedHold, RootHolds, DeliveredHold, vars
  <2>5. RefusalIsExplained'
    BY <2>1, ExplainedIsFixed DEF RefusalIsExplained, Explained
  <2> QED
    BY <2>2, <2>4, <2>5, <1>2 DEF EnvelopeInv
<1> QED
  BY <1>3, <1>4

(* Writer and reader, whatever file, damage and reader: what was passed on   *)
(* the way holds of the file, and a refusal has its cause.                   *)
THEOREM EnvelopeInvariant == EnvelopeSpec => []EnvelopeInv
  BY InitEnvelope, NextEnvelope, PTL DEF EnvelopeSpec

-----------------------------------------------------------------------------
(* What the root signature says of the key and of the hashes.                *)
LEMMA RootSaysAll ==
  ASSUME FileTypes, KeyShares, outcome = "key", RootMatches
  PROVE  /\ keyForDecryption = keyForEncryption
         /\ isLegacyTDF = isTargetSpecLegacyTDF(file.version)
         /\ storedHashes = segmentHashes
<1>1. damage.what # "root"
  <2> SUFFICES ASSUME damage.what = "root" PROVE FALSE
    OBVIOUS
  <2>1. reconstructedKey = Key
    <3>1. \A k \in DOMAIN shares : ~Damaged("share", shares[k])
      BY DEF Damaged
    <3> QED
      BY <3>1, KeyIsMerged
  <2>2. Len(file.plan) \in Nat
    BY PlanFacts
  <2>3. 0 \in keyForDecryption
    BY <2>1, <2>2 DEF keyForDecryption, Middleware, Key, bxor
  <2>4. 0 \notin Noise
    BY <2>2 DEF Noise
  <2>5. storedRoot.key = Noise
    BY DEF storedRoot, rootSignature, RootSignature
  <2>6. storedRoot.key = keyForDecryption
    BY DEF RootMatches, RootSignature
  <2> QED
    BY <2>3, <2>4, <2>5, <2>6
<1>2. storedRoot = rootSignature
  BY <1>1, UndamagedIsStored
<1>3. /\ rootSignature.key = keyForEncryption
      /\ rootSignature.hashes = segmentHashes
      /\ rootSignature.hex = isTargetSpecLegacyTDF(file.version)
  BY DEF rootSignature, RootSignature
<1>4. /\ storedRoot.key = keyForDecryption
      /\ storedRoot.hashes = storedHashes
      /\ storedRoot.hex = isLegacyTDF
  BY DEF RootMatches, RootSignature
<1> QED
  BY <1>2, <1>3, <1>4

(* An assertion that is verified, under the hashes of the writer, is the one *)
(* that was signed, or bound again with the algorithm of the caller's key.   *)
LEMMA VerifiedIsSigned ==
  ASSUME storedHashes = segmentHashes, NEW k, assertions[k] \in Signed,
         verify(StoredAssertion(k))
  PROVE  \/ StoredAssertion(k) = assertions[k]
         \/ Damaged("rebound", k) /\ AssertionKey(assertions[k]).alg = ForeignKey.alg
<1>1. PICK config : assertions[k] = CreateAssertion(config)
  BY DEF Signed
<1>2. CASE Damaged("statement", k)
  <2>1. StoredAssertion(k) = [assertions[k] EXCEPT !.statement = 0]
    <3>1. ~Damaged("binding", k) /\ ~Damaged("rebound", k)
      BY <1>2 DEF Damaged
    <3> QED
      BY <1>2, <3>1 DEF StoredAssertion
  <2>2. /\ StoredAssertion(k).statement = 0
        /\ StoredAssertion(k).assertionHash = hash(config)
    BY <2>1, <1>1 DEF CreateAssertion, Bound
  <2>3. hash(StoredAssertion(k)) = hash(config)
    BY <2>2 DEF verify
  <2>4. hash(StoredAssertion(k)).statement = 0 /\ hash(config).statement = config.statement
    BY <2>2 DEF hash
  <2>5. config.statement = 0
    BY <2>3, <2>4
  <2> QED
    BY <2>1, <2>5, <1>1 DEF CreateAssertion, Bound
<1>3. CASE Damaged("binding", k)
  <2>1. StoredAssertion(k) = [assertions[k] EXCEPT !.assertionSig.hashes = <<>>]
    <3>1. ~Damaged("statement", k) /\ ~Damaged("rebound", k)
      BY <1>3 DEF Damaged
    <3> QED
      BY <1>3, <3>1 DEF StoredAssertion
  <2>2. StoredAssertion(k).assertionSig.hashes = <<>>
    BY <2>1, <1>1 DEF CreateAssertion, Bound, AssertionSig
  <2>3. StoredAssertion(k).assertionSig.hashes = storedHashes
    BY DEF verify, AssertionSig
  <2>4. segmentHashes = <<>>
    BY <2>2, <2>3
  <2> QED
    BY <2>1, <2>4, <1>1 DEF CreateAssertion, Bound, AssertionSig
<1>4. CASE Damaged("rebound", k)
  <2>1. StoredAssertion(k) =
          Bound([assertions[k] EXCEPT !.statement = 0], ForeignKey, ForeignKey)
    <3>1. ~Damaged("statement", k) /\ ~Damaged("binding", k)
      BY <1>4 DEF Damaged
    <3> QED
      BY <1>4, <3>1 DEF StoredAssertion
  <2>2. StoredAssertion(k).alg = ForeignKey.alg /\ StoredAssertion(k).id = assertions[k].id
    BY <2>1, <1>1 DEF CreateAssertion, Bound
  <2>3. StoredAssertion(k).alg = AssertionKey(StoredAssertion(k)).alg
    BY DEF verify, verifyJwt
  <2>4. AssertionKey(StoredAssertion(k)) = AssertionKey(assertions[k])
    BY <2>2 DEF AssertionKey
  <2> QED
    BY <1>4, <2>2, <2>3, <2>4
<1> QED
  BY <1>2, <1>3, <1>4 DEF StoredAssertion

(* A chunk that passes its tag and its hash, under the key and the hashes of *)
(* the writer, is the segment of its place.                                  *)
LEMMA DeliveredIsEncrypted ==
  ASSUME FileTypes, storedHashes = segmentHashes,
         keyForDecryption = keyForEncryption,
         isLegacyTDF = isTargetSpecLegacyTDF(file.version),
         NEW s \in 1 .. file.segments, decryptChunk(s)
  PROVE  storedSegments[s] = Encrypted(s)
<1> DEFINE chunk == storedSegments[s]
<1>1. file.segments \in Nat
  BY PlanFacts
<1>2. PICK j : chunk = StoredSegment(j)
  <2> DEFINE list == [i \in 1 .. file.segments |-> StoredSegment(i)]
  <2>1. Len(list) = file.segments
    BY <1>1
  <2>2. file.segments - s + 1 \in 1 .. file.segments
    BY <1>1
  <2>3. Reverse(list)[s] = list[file.segments - s + 1]
    BY <2>1, <2>2 DEF Reverse
  <2>4. Reverse(list)[s] = StoredSegment(file.segments - s + 1)
    BY <2>2, <2>3
  <2>5. list[s] = StoredSegment(s)
    OBVIOUS
  <2>6. chunk = list[s] \/ chunk = Reverse(list)[s]
    BY DEF storedSegments, InDisorder
  <2> HIDE DEF list, chunk
  <2> QED
    BY <2>4, <2>5, <2>6
<1>3. chunk = [segment |-> chunk.segment, tag |-> chunk.tag]
  BY <1>2 DEF StoredSegment, Encrypted, Tag
<1>4. SegmentHash(chunk.tag, isLegacyTDF) = storedHashes[s]
      /\ chunk.tag = Tag(keyForDecryption, chunk.segment)
  BY DEF decryptChunk
<1>5. storedHashes[s] = SegmentHash(Tag(keyForEncryption, s), isLegacyTDF)
  BY DEF segmentHashes, Encrypted
<1> HIDE DEF chunk
<1>6. chunk.tag = Tag(keyForEncryption, s)
  BY <1>4, <1>5 DEF SegmentHash
<1>7. chunk.segment = s
  BY <1>4, <1>6 DEF Tag
<1>8. chunk = Encrypted(s)
  BY <1>3, <1>6, <1>7 DEF Encrypted
<1> QED
  BY <1>8 DEF chunk

(* An open stream is on the file as it was written.                          *)
LEMMA OpenIsWritten == EnvelopeInv => OnlyTheWrittenIsRead
<1> SUFFICES ASSUME EnvelopeInv, at \in {"open", "read"}
    PROVE  /\ MetadataUnsigned = FALSE /\ Unsigned = {}
           /\ keyForDecryption = keyForEncryption
           /\ isLegacyTDF = isTargetSpecLegacyTDF(file.version)
           /\ storedHashes = segmentHashes
           /\ ~reader.noVerifyAssertions =>
                \A k \in DOMAIN assertions :
                  \/ StoredAssertion(k) = assertions[k]
                  \/ /\ Damaged("rebound", k)
                     /\ AssertionKey(assertions[k]).alg = ForeignKey.alg
           /\ \A s \in 1 .. delivered : storedSegments[s] = Encrypted(s)
  BY DEF OnlyTheWrittenIsRead
<1>1. /\ FileTypes /\ KeyShares /\ outcome = "key" /\ RootMatches /\ ~AssertionsLeft
      /\ AllSigned
  BY DEF EnvelopeInv, EnvelopeTypes, PassedInv, SealedComplete, OpenedWithKey, RootHolds,
         Opening
<1>2. MetadataUnsigned = FALSE /\ Unsigned = {}
  BY <1>1 DEF AllSigned, MetadataUnsigned
<1>3. /\ keyForDecryption = keyForEncryption
      /\ isLegacyTDF = isTargetSpecLegacyTDF(file.version)
      /\ storedHashes = segmentHashes
  BY <1>1, RootSaysAll
<1>4. ASSUME ~reader.noVerifyAssertions, NEW k \in DOMAIN assertions
      PROVE  \/ StoredAssertion(k) = assertions[k]
             \/ Damaged("rebound", k) /\ AssertionKey(assertions[k]).alg = ForeignKey.alg
  <2>1. /\ assertions \in Seq(Signed) /\ verified \in 0 .. Len(assertions)
        /\ ~(verified < Len(assertions))
    BY <1>1, <1>4 DEF EnvelopeInv, EnvelopeTypes, AssertionsLeft
  <2>2. k \in 1 .. verified /\ assertions[k] \in Signed
    BY <2>1
  <2>3. verify(StoredAssertion(k))
    BY <2>2 DEF EnvelopeInv, PassedInv, VerifiedHold
  <2> QED
    BY <1>3, <2>2, <2>3, VerifiedIsSigned
<1>5. ASSUME NEW s \in 1 .. delivered PROVE storedSegments[s] = Encrypted(s)
  <2>1. s \in 1 .. file.segments
    BY <1>1, PlanFacts DEF EnvelopeInv, EnvelopeTypes
  <2>2. decryptChunk(s)
    BY DEF EnvelopeInv, PassedInv, DeliveredHold
  <2> QED
    BY <1>1, <1>3, <2>1, <2>2, DeliveredIsEncrypted
<1> QED
  BY <1>2, <1>3, <1>4, <1>5

(* A stream opens only on a file as it was written, an assertion bound again *)
(* with a key in its header apart, where the caller's key is of the same     *)
(* algorithm; and it delivers the segments as they were encrypted, in order  *)
(* (decryptStreamFrom, readStream).                                          *)
THEOREM OnlyTheWrittenOpens == EnvelopeSpec => []OnlyTheWrittenIsRead
  BY EnvelopeInvariant, OpenIsWritten, PTL

(* No file is refused without a cause: one that nothing happened to is read, *)
(* whatever its version, its plan and the order of its assertions.           *)
THEOREM RefusalsHaveCauses == EnvelopeSpec => []RefusalIsExplained
<1>1. EnvelopeInv => RefusalIsExplained
  BY DEF EnvelopeInv
<1> QED
  BY <1>1, EnvelopeInvariant, PTL

(* keySplit hides the key: shares that are not of every split never merge to *)
(* it.                                                                       *)
THEOREM FewerSharesHideTheKey == EnvelopeSpec => []SharesHideTheKey
<1>1. EnvelopeInv => SharesHideTheKey
  BY SharesHide DEF EnvelopeInv, EnvelopeTypes
<1> QED
  BY <1>1, EnvelopeInvariant, PTL

(* The reader of a file runs unwrapKey: its steps are steps of it or leave   *)
(* it alone.                                                                 *)
LEMMA EnvelopeUnwraps == EnvelopeSpec => Spec
<1>1. EnvelopeInit => Init
  BY DEF EnvelopeInit
<1>2. [EnvelopeNext]_envelopeVars => [Next]_vars
  BY StepsOfUnwrap DEF envelopeVars
<1> QED
  BY <1>1, <1>2, PTL DEF EnvelopeSpec, Spec

(* The unwrapKey of a reader recovers keys as KeyRecovery says, and rewraps  *)
(* only what it still lacks.                                                 *)
THEOREM EnvelopeRecovers == EnvelopeSpec => RecoversKey /\ NoNeedlessRewrap
  BY EnvelopeUnwraps, UnwrapRecoversTheKey, NoRewrapIsNeedless
=============================================================================
