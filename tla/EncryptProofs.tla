--------------------------- MODULE EncryptProofs ---------------------------
(***************************************************************************)
(* What encrypt promises of the keys it wraps, for all policies, scopes and  *)
(* split plans, however many calls share the client and however they         *)
(* interleave:                                                               *)
(*                                                                         *)
(*  - the splits of a file are those that its policy asks for                *)
(*    (PlansImplementPolicies).  A clause of the plan is met by the KASes    *)
(*    that satisfy a rule, and leaving out clauses of the same name or       *)
(*    repeating a step for each key of a granter changes nothing in that;    *)
(*  - a KAS is asked for a key once (KeysAreFetchedOnce).  An entry goes     *)
(*    into the cache only after a lookup that found none, and there is no    *)
(*    await between the two;                                                 *)
(*  - a call that fails with a mismatch can be told why                      *)
(*    (MismatchesAreExplained).  A call that is alone on its scope finds     *)
(*    the scope as it was when it comes back to it;                          *)
(*  - the file has a key access object for each KAS of its plan, and no      *)
(*    other (FilesAreWrappedAsPlanned).  The cache only grows, its entries   *)
(*    are what they are looked up by, and what a policy publishes is in it   *)
(*    before the plan is made;                                               *)
(*  - a split that names one KAS twice is explained by its policy, or by a   *)
(*    KAS that hands out the key of another (RepetitionsAreExplained).  A    *)
(*    call carries out the plan it made, and two steps of one split come     *)
(*    from two places of one clause.                                         *)
(*                                                                         *)
(* The first sections are about sequences, FlattenSeq and the boolean        *)
(* reduction of GrantPlan; the handlers of Encrypt follow.                   *)
(***************************************************************************)
EXTENDS Encrypt, FiniteSetTheorems, FunctionTheorems, WellFoundedInduction, TLAPS

(* The numbers of a set have a least one.                                    *)
LEMMA LeastNumber ==
  ASSUME NEW T, T \subseteq Nat, T # {}
  PROVE  \E n \in T : \A m \in T : n <= m
<1>1. \A m, n \in Nat : m < n => <<m, n>> \in OpToRel(<, Nat)
  BY Zenon DEF OpToRel
<1>2. PICK n \in T : \A m \in T : ~(<<m, n>> \in OpToRel(<, Nat))
  BY NatLessThanWellFounded, WFMin, Zenon
<1>3. \A m \in T : ~(m < n)
  BY <1>1, <1>2, Zenon
<1> QED
  BY <1>3, SMT

(* The recursion of FlattenSeq.                                              *)
Flattens(f, ss, n) ==
  f = [i \in 1 .. n |-> IF i = 1 THEN ss[i] ELSE f[i - 1] \o ss[i]]

(* Such a function exists for every length: the least without one has        *)
(* none.                                                                     *)
LEMMA FlattensExists ==
  ASSUME NEW ss, NEW n \in Nat
  PROVE  \E f : Flattens(f, ss, n)
<1> SUFFICES ASSUME ~(\E f : Flattens(f, ss, n)) PROVE FALSE
  OBVIOUS
<1> DEFINE none == {m \in Nat : ~(\E f : Flattens(f, ss, m))}
<1>1. PICK m \in none : \A k \in none : m <= k
  BY LeastNumber
<1>2. m # 0
  <2>1. Flattens([i \in 1 .. 0 |-> ss], ss, 0)
    BY DEF Flattens
  <2> QED
    BY <2>1
<1>3. m - 1 \in Nat /\ m - 1 \notin none
  BY <1>1, <1>2
<1>4. PICK f : Flattens(f, ss, m - 1)
  BY <1>3
<1> DEFINE g == [i \in 1 .. m |-> IF i < m THEN f[i]
                                  ELSE IF m = 1 THEN ss[m] ELSE f[m - 1] \o ss[m]]
<1>5. ASSUME NEW i \in 1 .. m
      PROVE  g[i] = IF i = 1 THEN ss[i] ELSE g[i - 1] \o ss[i]
  <2>1. CASE i < m
    <3>1. i \in 1 .. m - 1 /\ g[i] = f[i]
      BY <2>1, <1>3
    <3>2. f[i] = IF i = 1 THEN ss[i] ELSE f[i - 1] \o ss[i]
      BY <1>4, <3>1 DEF Flattens
    <3>3. i # 1 => g[i - 1] = f[i - 1]
      BY <2>1
    <3> QED
      BY <3>1, <3>2, <3>3
  <2>2. CASE i = m
    BY <2>2, <1>3
  <2> QED
    BY <2>1, <2>2
<1>6. Flattens(g, ss, m)
  <2>1. g = [i \in 1 .. m |-> g[i]]
    OBVIOUS
  <2> HIDE DEF g
  <2> QED
    BY <2>1, <1>5 DEF Flattens
<1> QED
  BY <1>1, <1>6

(* FlattenSeq is the last of the joined prefixes.                            *)
LEMMA FlattenRecurs ==
  ASSUME NEW ss, IsSequence(ss), ss # <<>>
  PROVE  \E f : /\ DOMAIN f = 1 .. Len(ss)
                /\ FlattenSeq(ss) = f[Len(ss)]
                /\ f[1] = ss[1]
                /\ \A i \in 2 .. Len(ss) : f[i] = f[i - 1] \o ss[i]
<1> DEFINE f == CHOOSE g : Flattens(g, ss, Len(ss))
<1>1. Len(ss) \in Nat /\ Len(ss) # 0
  BY DEF IsSequence
<1>2. FlattenSeq(ss) = f[Len(ss)]
  BY <1>1 DEF FlattenSeq, Flattens
<1>3. Flattens(f, ss, Len(ss))
  BY <1>1, FlattensExists
<1> HIDE DEF f
<1>4. DOMAIN f = 1 .. Len(ss)
  BY <1>3 DEF Flattens
<1>5. \A i \in 1 .. Len(ss) : f[i] = IF i = 1 THEN ss[i] ELSE f[i - 1] \o ss[i]
  BY <1>3 DEF Flattens
<1>6. f[1] = ss[1]
  BY <1>1, <1>5
<1>7. ASSUME NEW i \in 2 .. Len(ss) PROVE f[i] = f[i - 1] \o ss[i]
  <2>1. i \in 1 .. Len(ss) /\ i # 1
    BY <1>1
  <2> QED
    BY <1>5, <2>1
<1> QED
  BY <1>2, <1>4, <1>6, <1>7

(* Sequences over their own elements.                                        *)
LEMMA OwnElements ==
  ASSUME NEW S, NEW s \in Seq(S)
  PROVE  IsSequence(s) /\ ToSet(s) \subseteq S /\ DOMAIN s = 1 .. Len(s) /\ Len(s) \in Nat
<1>1. DOMAIN s = 1 .. Len(s) /\ Len(s) \in Nat /\ \A i \in 1 .. Len(s) : s[i] \in S
  OBVIOUS
<1>2. s = [i \in 1 .. Len(s) |-> s[i]]
  BY <1>1
<1> QED
  BY <1>1, <1>2 DEF IsSequence, ToSet

(* A sequence over a set is one over a wider set.                            *)
LEMMA WiderElements ==
  \A A, B : A \subseteq B => \A s \in Seq(A) : s \in Seq(B)
<1>1. SUFFICES ASSUME NEW A, NEW B, A \subseteq B, NEW s, s \in Seq(A)
      PROVE  s \in Seq(B)
  OBVIOUS
<1>2. IsSequence(s) /\ ToSet(s) \subseteq B /\ Len(s) \in Nat /\ DOMAIN s = 1 .. Len(s)
  BY <1>1, OwnElements
<1>3. s = [i \in 1 .. Len(s) |-> s[i]] /\ \A i \in 1 .. Len(s) : s[i] \in B
  BY <1>1, <1>2 DEF ToSet
<1> QED
  BY <1>2, <1>3

(* Two sequences joined, place by place.                                     *)
LEMMA ConcatFacts ==
  ASSUME NEW S, NEW s \in Seq(S), NEW t \in Seq(S)
  PROVE  /\ s \o t \in Seq(S)
         /\ Len(s) \in Nat /\ Len(t) \in Nat /\ Len(s \o t) \in Nat
         /\ Len(s \o t) = Len(s) + Len(t)
         /\ \A p \in 1 .. Len(s) : (s \o t)[p] = s[p]
         /\ \A k \in 1 .. Len(t) : (s \o t)[Len(s) + k] = t[k]
         /\ \A p \in 1 .. Len(s \o t) :
              p \in 1 .. Len(s) \/ \E k \in 1 .. Len(t) : p = Len(s) + k
<1>1. /\ s \o t \in Seq(S)
      /\ Len(s) \in Nat /\ Len(t) \in Nat /\ Len(s \o t) \in Nat
      /\ Len(s \o t) = Len(s) + Len(t)
  OBVIOUS
<1>2. \A p \in 1 .. Len(s) : (s \o t)[p] = s[p]
  OBVIOUS
<1>3. \A k \in 1 .. Len(t) : (s \o t)[Len(s) + k] = t[k]
  OBVIOUS
<1>4. ASSUME NEW p \in 1 .. Len(s \o t), p \notin 1 .. Len(s)
      PROVE  \E k \in 1 .. Len(t) : p = Len(s) + k
  <2>1. p - Len(s) \in 1 .. Len(t) /\ p = Len(s) + (p - Len(s))
    BY <1>1, <1>4
  <2> QED
    BY <2>1
<1> QED
  BY <1>1, <1>2, <1>3, <1>4

(* Where each of the sequences is in the flattened one.                      *)
IsLayout(start, ss) ==
  /\ start \in [1 .. Len(ss) + 1 -> Nat]
  /\ start[1] = 0 /\ start[Len(ss) + 1] = Len(FlattenSeq(ss))
  /\ \A i \in 1 .. Len(ss) :
       /\ start[i + 1] = start[i] + Len(ss[i])
       /\ start[i + 1] <= Len(FlattenSeq(ss))
       /\ \A k \in 1 .. Len(ss[i]) : FlattenSeq(ss)[start[i] + k] = ss[i][k]
  /\ \A p \in 1 .. Len(FlattenSeq(ss)) :
       \E i \in 1 .. Len(ss) : \E k \in 1 .. Len(ss[i]) : p = start[i] + k

(* Flattened, each sequence has a start, and every place is in one of        *)
(* them.                                                                     *)
LEMMA FlattenPlaces ==
  \A S : \A ss \in Seq(Seq(S)) :
    FlattenSeq(ss) \in Seq(S) /\ \E start : IsLayout(start, ss)
<1>0. SUFFICES ASSUME NEW S, NEW ss, ss \in Seq(Seq(S))
               PROVE  FlattenSeq(ss) \in Seq(S) /\ \E start : IsLayout(start, ss)
  OBVIOUS
<1>1. CASE ss = <<>>
  <2>1. FlattenSeq(ss) = <<>>
    BY <1>1 DEF FlattenSeq
  <2>2. Len(ss) = 0 /\ Len(FlattenSeq(ss)) = 0
    BY <1>1, <2>1
  <2>3. FlattenSeq(ss) \in Seq(S)
    BY <2>1
  <2> DEFINE start == [i \in 1 .. 1 |-> 0]
  <2>4. start \in [1 .. Len(ss) + 1 -> Nat] /\ start[1] = 0
    BY <2>2
  <2> HIDE DEF start
  <2> QED
    BY <2>2, <2>3, <2>4 DEF IsLayout
<1>2. ASSUME ss # <<>>
      PROVE  FlattenSeq(ss) \in Seq(S) /\ \E start : IsLayout(start, ss)
  <2> DEFINE n == Len(ss)
  <2>1. /\ IsSequence(ss) /\ n \in Nat /\ n >= 1
        /\ \A i \in 1 .. n : ss[i] \in Seq(S) /\ Len(ss[i]) \in Nat
    BY <1>0, <1>2, OwnElements
  <2>2. PICK f : /\ DOMAIN f = 1 .. n
                 /\ FlattenSeq(ss) = f[n]
                 /\ f[1] = ss[1]
                 /\ \A i \in 2 .. n : f[i] = f[i - 1] \o ss[i]
    BY <1>2, <2>1, FlattenRecurs
  <2> HIDE DEF n
  <2> DEFINE start == [i \in 1 .. n + 1 |-> IF i = 1 THEN 0 ELSE Len(f[i - 1])]
             Holds(m) ==
               /\ f[m] \in Seq(S)
               /\ \A i \in 1 .. m :
                    /\ Len(f[i]) \in Nat /\ Len(f[i]) <= Len(f[m])
                    /\ start[i + 1] = start[i] + Len(ss[i])
                    /\ \A k \in 1 .. Len(ss[i]) : f[m][start[i] + k] = ss[i][k]
               /\ \A p \in 1 .. Len(f[m]) :
                    \E i \in 1 .. m : \E k \in 1 .. Len(ss[i]) : p = start[i] + k
             fails == {m \in Nat : m \in 1 .. n /\ ~Holds(m)}
  <2>3. start[1] = 0 /\ \A i \in 1 .. n : start[i + 1] = Len(f[i])
    BY <2>1
  <2> HIDE DEF start
  <2>4. Holds(1)
    BY <2>1, <2>2, <2>3
  <2>5. ASSUME NEW m \in 2 .. n, Holds(m - 1) PROVE Holds(m)
    <3>0. m - 1 \in 1 .. n /\ m \in 1 .. n /\ (m - 1) + 1 = m /\ m \in Nat
      BY <2>1
    <3>1. /\ f[m - 1] \in Seq(S) /\ ss[m] \in Seq(S)
          /\ f[m] = f[m - 1] \o ss[m]
          /\ start[m] = Len(f[m - 1]) /\ start[m + 1] = Len(f[m])
      <4>1. start[(m - 1) + 1] = Len(f[m - 1])
        BY <3>0, <2>3
      <4> QED
        BY <4>1, <3>0, <2>1, <2>2, <2>3, <2>5
    <3>f. PICK s, q, u : s = f[m - 1] /\ q = ss[m] /\ u = f[m]
      OBVIOUS
    <3>a. s \in Seq(S) /\ q \in Seq(S) /\ u = s \o q
      BY <3>1, <3>f
    <3>b. u \in Seq(S)
      BY <3>a, ConcatFacts
    <3>2. /\ Len(s) \in Nat /\ Len(q) \in Nat /\ Len(u) \in Nat
          /\ Len(u) = Len(s) + Len(q)
      BY <3>a, ConcatFacts
    <3>c. \A p \in 1 .. Len(s) : u[p] = s[p]
      BY <3>a, ConcatFacts
    <3>d. \A k \in 1 .. Len(q) : u[Len(s) + k] = q[k]
      BY <3>a, ConcatFacts
    <3>e. \A p \in 1 .. Len(u) :
            p \in 1 .. Len(s) \/ \E k \in 1 .. Len(q) : p = Len(s) + k
      BY <3>a, ConcatFacts
    <3>3. ASSUME NEW i \in 1 .. m
          PROVE  /\ Len(f[i]) \in Nat /\ Len(f[i]) <= Len(u)
                 /\ start[i + 1] = start[i] + Len(ss[i])
                 /\ \A k \in 1 .. Len(ss[i]) : u[start[i] + k] = ss[i][k]
      <4>1. CASE i = m
        <5>1. f[i] = u /\ ss[i] = q /\ start[i] = Len(s) /\ start[i + 1] = Len(u)
          BY <3>1, <3>f, <4>1
        <5> QED
          BY <3>2, <3>d, <5>1
      <4>2. CASE i # m
        <5>1. i \in 1 .. m - 1 /\ i \in 1 .. n
          BY <4>2, <3>0, <2>1
        <5>2. /\ Len(f[i]) \in Nat /\ Len(f[i]) <= Len(s)
              /\ start[i + 1] = start[i] + Len(ss[i])
              /\ \A k \in 1 .. Len(ss[i]) : s[start[i] + k] = ss[i][k]
          BY <5>1, <3>f, <2>5
        <5>3. start[i] \in Nat
          <6>1. CASE i = 1
            BY <6>1, <2>3
          <6>2. CASE i # 1
            <7>1. i - 1 \in 1 .. m - 1 /\ i - 1 \in 1 .. n /\ (i - 1) + 1 = i
              BY <6>2, <5>1, <3>0, <2>1
            <7> QED
              BY <7>1, <2>3, <2>5
          <6> QED
            BY <6>1, <6>2
        <5>g. PICK a, b, e : a = start[i] /\ b = Len(ss[i]) /\ e = Len(f[i])
          OBVIOUS
        <5>4. /\ e = a + b /\ a \in Nat /\ b \in Nat /\ e <= Len(s)
              /\ \A k \in 1 .. b : s[a + k] = ss[i][k]
          BY <5>1, <5>2, <5>3, <5>g, <2>1, <2>3
        <5>5. \A k \in 1 .. b : a + k \in 1 .. Len(s)
          BY <5>4, <3>2
        <5>6. \A k \in 1 .. b : u[a + k] = ss[i][k]
          BY <5>4, <5>5, <3>c
        <5>7. e \in Nat /\ e <= Len(u) /\ start[i + 1] = a + b
          BY <5>2, <5>4, <5>g, <3>2
        <5> QED
          BY <5>6, <5>7, <5>g
      <4> QED
        BY <4>1, <4>2
    <3>4. ASSUME NEW p \in 1 .. Len(u)
          PROVE  \E i \in 1 .. m : \E k \in 1 .. Len(ss[i]) : p = start[i] + k
      <4>1. CASE p \in 1 .. Len(s)
        <5>1. PICK i \in 1 .. m - 1 : \E k \in 1 .. Len(ss[i]) : p = start[i] + k
          BY <4>1, <3>f, <2>5
        <5>2. i \in 1 .. m
          BY <3>0
        <5> QED
          BY <5>1, <5>2
      <4>2. CASE p \notin 1 .. Len(s)
        <5>1. m \in 1 .. m
          BY <3>0
        <5>2. PICK k \in 1 .. Len(q) : p = Len(s) + k
          BY <4>2, <3>e
        <5>3. \E h \in 1 .. Len(ss[m]) : p = start[m] + h
          BY <5>2, <3>1, <3>f
        <5> QED
          BY <5>1, <5>3
      <4> QED
        BY <4>1, <4>2
    <3> QED
      BY <3>b, <3>3, <3>4, <3>f
  <2>6. Holds(n)
    <3> HIDE DEF Holds
    <3> SUFFICES ASSUME fails # {} PROVE FALSE
      BY <2>1
    <3>1. PICK m \in fails : \A k \in fails : m <= k
      BY LeastNumber
    <3>2. m \in 2 .. n
      BY <3>1, <2>4
    <3>3. m - 1 \in Nat /\ m - 1 \in 1 .. n /\ m - 1 \notin fails
      BY <3>1, <3>2, <2>1
    <3> QED
      BY <3>1, <3>2, <3>3, <2>5
  <2>7. start \in [1 .. n + 1 -> Nat]
    <3>1. \A i \in 2 .. n + 1 : start[i] = Len(f[i - 1]) /\ i - 1 \in 1 .. n
      BY <2>1, <2>3
    <3>2. \A i \in 1 .. n : Len(f[i]) \in Nat
      BY <2>6
    <3>3. \A i \in 1 .. n + 1 : start[i] \in Nat
      BY <3>1, <3>2, <2>1, <2>3
    <3> QED
      BY <3>3 DEF start
  <2>8. n \in 1 .. n /\ Len(f[n]) \in Nat
    BY <2>1, <2>6
  <2>9. /\ start[1] = 0 /\ start[n + 1] = Len(FlattenSeq(ss))
        /\ \A i \in 1 .. n :
             /\ start[i + 1] = start[i] + Len(ss[i])
             /\ start[i + 1] <= Len(FlattenSeq(ss))
             /\ \A k \in 1 .. Len(ss[i]) : FlattenSeq(ss)[start[i] + k] = ss[i][k]
        /\ \A p \in 1 .. Len(FlattenSeq(ss)) :
             \E i \in 1 .. n : \E k \in 1 .. Len(ss[i]) : p = start[i] + k
    BY <2>2, <2>3, <2>6, <2>8
  <2>10. IsLayout(start, ss)
    BY <2>7, <2>9 DEF n, IsLayout
  <2>11. f[n] \in Seq(S)
    BY <2>6
  <2> QED
    BY <2>2, <2>10, <2>11
<1> QED
  BY <1>1, <1>2

(* A sequence of sequences, flattened: what is in it.                        *)
LEMMA FlattenedElements ==
  \A S, n, ss : n \in Nat /\ ss \in [1 .. n -> Seq(S)] =>
    /\ FlattenSeq(ss) \in Seq(S)
    /\ \A y : (y \in ToSet(FlattenSeq(ss)))
                <=> \E i \in 1 .. n : y \in ToSet(ss[i])
<1>1. SUFFICES ASSUME NEW S, NEW n, NEW ss, n \in Nat, ss \in [1 .. n -> Seq(S)]
               PROVE  /\ FlattenSeq(ss) \in Seq(S)
                      /\ \A y : (y \in ToSet(FlattenSeq(ss)))
                                  <=> \E i \in 1 .. n : y \in ToSet(ss[i])
  OBVIOUS
<1>2. ss \in Seq(Seq(S)) /\ Len(ss) = n
  BY <1>1
<1>3. FlattenSeq(ss) \in Seq(S) /\ \E start : IsLayout(start, ss)
  BY <1>2, FlattenPlaces
<1>4. PICK start : IsLayout(start, ss)
  BY <1>3
<1>d. DOMAIN FlattenSeq(ss) = 1 .. Len(FlattenSeq(ss)) /\ Len(FlattenSeq(ss)) \in Nat
  BY <1>3
<1>e. \A i \in 1 .. n : DOMAIN ss[i] = 1 .. Len(ss[i]) /\ Len(ss[i]) \in Nat
  BY <1>1
<1>5. ASSUME NEW y, y \in ToSet(FlattenSeq(ss))
      PROVE  \E i \in 1 .. n : y \in ToSet(ss[i])
  <2>1. PICK p \in 1 .. Len(FlattenSeq(ss)) : y = FlattenSeq(ss)[p]
    BY <1>5, <1>d DEF ToSet
  <2>2. PICK i \in 1 .. n : \E k \in 1 .. Len(ss[i]) : p = start[i] + k
    BY <2>1, <1>2, <1>4 DEF IsLayout
  <2>3. PICK k \in 1 .. Len(ss[i]) : p = start[i] + k
    BY <2>2
  <2>4. FlattenSeq(ss)[start[i] + k] = ss[i][k]
    BY <2>2, <2>3, <1>2, <1>4 DEF IsLayout
  <2> QED
    BY <2>1, <2>2, <2>3, <2>4, <1>e DEF ToSet
<1>6. ASSUME NEW y, NEW i \in 1 .. n, y \in ToSet(ss[i])
      PROVE  y \in ToSet(FlattenSeq(ss))
  <2>1. PICK k \in 1 .. Len(ss[i]) : y = ss[i][k]
    BY <1>6, <1>e DEF ToSet
  <2>2. FlattenSeq(ss)[start[i] + k] = ss[i][k]
    BY <2>1, <1>2, <1>4 DEF IsLayout
  <2>3. /\ start[i] \in Nat /\ start[i + 1] = start[i] + Len(ss[i])
        /\ start[i + 1] <= Len(FlattenSeq(ss))
    BY <1>1, <1>2, <1>4 DEF IsLayout
  <2>4. start[i] + k \in 1 .. Len(FlattenSeq(ss))
    BY <2>1, <2>3, <1>d, <1>e
  <2> QED
    BY <2>1, <2>2, <2>4, <1>d DEF ToSet
<1>7. \A y : (y \in ToSet(FlattenSeq(ss))) <=> \E i \in 1 .. n : y \in ToSet(ss[i])
  BY <1>5, <1>6, Zenon
<1> QED
  BY <1>1, <1>3, <1>7

(* The first of some numbers.                                                *)
LEMMA MinIsLeast ==
  ASSUME NEW T, T \subseteq Nat, T # {}
  PROVE  Min(T) \in T /\ Min(T) \in Nat /\ \A m \in T : Min(T) <= m
<1>1. \E n \in T : \A m \in T : n <= m
  BY LeastNumber
<1>2. Min(T) \in T /\ \A m \in T : Min(T) <= m
  BY <1>1, Zenon DEF Min
<1> QED
  BY <1>2

(* A sequence is a function over its places.                                 *)
LEMMA PlacesOf ==
  \A s : IsSequence(s) =>
    /\ Len(s) \in Nat /\ DOMAIN s = 1 .. Len(s)
    /\ \A i \in DOMAIN s : i \in Nat /\ s[i] \in ToSet(s)
    /\ s # <<>> => 1 \in DOMAIN s
<1>1. SUFFICES ASSUME NEW s, IsSequence(s)
      PROVE  /\ Len(s) \in Nat /\ DOMAIN s = 1 .. Len(s)
             /\ \A i \in DOMAIN s : i \in Nat /\ s[i] \in ToSet(s)
             /\ s # <<>> => 1 \in DOMAIN s
  OBVIOUS
<1>2. Len(s) \in Nat /\ DOMAIN s = 1 .. Len(s) /\ (s # <<>> => Len(s) # 0)
  BY <1>1 DEF IsSequence
<1>3. \A i \in DOMAIN s : i \in Nat /\ s[i] \in ToSet(s)
  BY <1>2 DEF ToSet
<1> QED
  BY <1>2, <1>3

-----------------------------------------------------------------------------
(* The granters of a value.                                                  *)
HeldAs(list, kinds) ==
  IsSequence(list) /\ \A k \in DOMAIN list : IsHolder(list[k], kinds)

(* The most specific list holds what lists hold.                             *)
LEMMA MostSpecificHolds ==
  \A lists, kinds : HoldsOnly(lists, kinds) => HeldAs(MostSpecific(lists), kinds)
<1>1. SUFFICES ASSUME NEW lists, NEW kinds, HoldsOnly(lists, kinds)
      PROVE  HeldAs(MostSpecific(lists), kinds)
  OBVIOUS
<1> DEFINE full == {i \in DOMAIN lists : lists[i] # <<>>}
<1>2. CASE full = {}
  <2>1. MostSpecific(lists) = <<>>
    BY <1>2 DEF MostSpecific
  <2> QED
    BY <2>1 DEF HeldAs, IsSequence
<1>3. CASE full # {}
  <2>1. full \subseteq Nat
    BY <1>1, PlacesOf DEF HoldsOnly
  <2>2. Min(full) \in full
    BY <1>3, <2>1, MinIsLeast
  <2>3. MostSpecific(lists) = lists[Min(full)]
    BY <1>3 DEF MostSpecific
  <2> QED
    BY <1>1, <2>2, <2>3 DEF HoldsOnly, HeldAs
<1> QED
  BY <1>2, <1>3

(* What is published of a list are its key mappings.                         *)
LEMMA PublishedAre ==
  \A keys, kinds : HeldAs(keys, kinds) =>
    /\ HeldAs(Published(keys), kinds)
    /\ \A y : y \in ToSet(Published(keys)) <=> y \in ToSet(keys) /\ y.kind = "mapped"
<1>1. SUFFICES ASSUME NEW keys, NEW kinds, HeldAs(keys, kinds)
      PROVE  /\ HeldAs(Published(keys), kinds)
             /\ \A y : y \in ToSet(Published(keys)) <=> y \in ToSet(keys) /\ y.kind = "mapped"
  OBVIOUS
<1> DEFINE S == ToSet(keys)
           n == Len(keys)
           each == [i \in DOMAIN keys |-> When(keys[i].kind = "mapped", <<keys[i]>>)]
<1>2. n \in Nat /\ DOMAIN keys = 1 .. n /\ \A i \in 1 .. n : keys[i] \in S
  BY <1>1, PlacesOf DEF HeldAs
<1>3. each \in [1 .. n -> Seq(S)]
  BY <1>2 DEF When
<1>4. /\ Published(keys) \in Seq(S)
      /\ \A y : y \in ToSet(Published(keys)) <=> \E i \in 1 .. n : y \in ToSet(each[i])
  <2>1. Published(keys) = FlattenSeq(each)
    BY DEF Published
  <2> HIDE DEF each
  <2> QED
    BY <1>2, <1>3, <2>1, FlattenedElements, Zenon
<1>5. \A i \in 1 .. n : \A y : y \in ToSet(each[i]) <=> y = keys[i] /\ y.kind = "mapped"
  <2>1. ASSUME NEW i \in 1 .. n, keys[i].kind = "mapped"
        PROVE  ToSet(each[i]) = {keys[i]}
    BY <1>2, <2>1 DEF When, ToSet
  <2>2. ASSUME NEW i \in 1 .. n, keys[i].kind # "mapped"
        PROVE  ToSet(each[i]) = {}
    BY <1>2, <2>2 DEF When, ToSet
  <2> QED
    BY <2>1, <2>2
<1>6. \A y : y \in ToSet(Published(keys)) <=> y \in S /\ y.kind = "mapped"
  <2>1. \A y : y \in S <=> \E i \in 1 .. n : y = keys[i]
    BY <1>2 DEF ToSet
  <2> HIDE DEF S, n, each
  <2> QED
    BY <1>4, <1>5, <2>1
<1>7. \A y \in S : IsHolder(y, kinds)
  BY <1>1 DEF HeldAs, ToSet
<1>8. IsSequence(Published(keys))
  BY <1>4, OwnElements
<1> QED
  BY <1>4, <1>6, <1>7, <1>8, PlacesOf DEF HeldAs

PlannedKind == {"mapped"} \cup GrantKind

(* Whoever is planned for is a mapping, or a grant of one of four kinds.     *)
LEMMA GrantersHeld ==
  \A policy : IsPolicy(policy) => \A value \in policy : HeldAs(Granters(value), PlannedKind)
<1>1. SUFFICES ASSUME NEW policy, IsPolicy(policy), NEW value \in policy
      PROVE  HeldAs(Granters(value), PlannedKind)
  OBVIOUS
<1>2. /\ HoldsOnly(value.kasKeys, {"mapped", "unpublished"})
      /\ HoldsOnly(value.grants, GrantKind)
  BY <1>1 DEF IsPolicy
<1> DEFINE mapped == Published(effectiveKasKeys(value))
           grants == MostSpecific(value.grants)
<1>3. /\ HeldAs(mapped, {"mapped", "unpublished"})
      /\ \A y : y \in ToSet(mapped) => y.kind = "mapped"
  BY <1>2, MostSpecificHolds, PublishedAre DEF effectiveKasKeys
<1>4. HeldAs(mapped, PlannedKind)
  BY <1>3, PlacesOf DEF HeldAs, IsHolder, PlannedKind
<1>5. HeldAs(grants, PlannedKind)
  <2>1. HeldAs(grants, GrantKind)
    BY <1>2, MostSpecificHolds
  <2> HIDE DEF grants
  <2> QED
    BY <2>1 DEF HeldAs, IsHolder, PlannedKind, GrantKind
<1>6. Granters(value) = IF mapped # <<>> THEN mapped ELSE grants
  BY DEF Granters, Mappings
<1> HIDE DEF mapped, grants
<1> QED
  BY <1>4, <1>5, <1>6

-----------------------------------------------------------------------------
(* The clauses of a policy.                                                  *)
HoldersOf(values) == UNION {ToSet(Granters(values[i])) : i \in DOMAIN values}
HasGranters(value) == Granters(value) # <<>>

(* The granters of a value, as a sequence over those of all values.          *)
LEMMA ValuesHeld ==
  \A policy, values : IsPolicy(policy) /\ values \in Seq(policy) =>
    /\ Len(values) \in Nat /\ DOMAIN values = 1 .. Len(values)
    /\ \A i \in 1 .. Len(values) :
         /\ i \in Nat /\ values[i] \in policy
         /\ Granters(values[i]) \in Seq(HoldersOf(values))
         /\ HasGranters(values[i]) <=> ToSet(Granters(values[i])) # {}
<1>1. SUFFICES ASSUME NEW policy, NEW values, IsPolicy(policy), values \in Seq(policy)
      PROVE  /\ Len(values) \in Nat /\ DOMAIN values = 1 .. Len(values)
             /\ \A i \in 1 .. Len(values) :
                  /\ i \in Nat /\ values[i] \in policy
                  /\ Granters(values[i]) \in Seq(HoldersOf(values))
                  /\ HasGranters(values[i]) <=> ToSet(Granters(values[i])) # {}
  OBVIOUS
<1>2. Len(values) \in Nat /\ DOMAIN values = 1 .. Len(values)
  BY <1>1
<1>3. ASSUME NEW i \in 1 .. Len(values)
      PROVE  /\ i \in Nat /\ values[i] \in policy
             /\ Granters(values[i]) \in Seq(HoldersOf(values))
             /\ HasGranters(values[i]) <=> ToSet(Granters(values[i])) # {}
  <2>1. i \in Nat /\ values[i] \in policy
    BY <1>1, <1>2
  <2>2. PICK g : g = Granters(values[i])
    OBVIOUS
  <2>3. IsSequence(g)
    BY <1>1, <2>1, <2>2, GrantersHeld DEF HeldAs
  <2>4. ToSet(g) \subseteq HoldersOf(values)
    BY <1>2, <2>2 DEF HoldersOf
  <2>5. g \in Seq(HoldersOf(values))
    BY <2>3, <2>4 DEF IsSequence
  <2>6. g # <<>> <=> ToSet(g) # {}
    <3>1. CASE g = <<>>
      BY <3>1 DEF ToSet
    <3>2. CASE g # <<>>
      BY <2>3, <3>2, PlacesOf
    <3> QED
      BY <3>1, <3>2
  <2> QED
    BY <2>1, <2>2, <2>5, <2>6 DEF HasGranters
<1> QED
  BY <1>2, <1>3

(* The granters of an fqn are those of its values.                           *)
LEMMA GrantersForAre ==
  \A policy, values, fqn : IsPolicy(policy) /\ values \in Seq(policy) =>
    /\ GrantersFor(values, fqn) \in Seq(HoldersOf(values))
    /\ \A y : y \in ToSet(GrantersFor(values, fqn))
                <=> \E i \in 1 .. Len(values) : /\ values[i].fqn = fqn
                                                /\ y \in ToSet(Granters(values[i]))
<1>1. SUFFICES ASSUME NEW policy, NEW values, NEW fqn, IsPolicy(policy), values \in Seq(policy)
      PROVE  /\ GrantersFor(values, fqn) \in Seq(HoldersOf(values))
             /\ \A y : y \in ToSet(GrantersFor(values, fqn))
                         <=> \E i \in 1 .. Len(values) :
                               values[i].fqn = fqn /\ y \in ToSet(Granters(values[i]))
  OBVIOUS
<1> DEFINE H == HoldersOf(values)
           n == Len(values)
           same == {i \in DOMAIN values : values[i].fqn = fqn}
           Adds(i) == i \in same /\ (i = Min(same) \/ Mappings(values[i]) # <<>>)
           each == [i \in DOMAIN values |-> When(Adds(i), Granters(values[i]))]
<1>2. n \in Nat /\ DOMAIN values = 1 .. n /\ \A i \in 1 .. n : Granters(values[i]) \in Seq(H)
  BY <1>1, ValuesHeld
<1>3. each \in [1 .. n -> Seq(H)]
  <2> HIDE DEF Adds, H, n
  <2> QED
    BY <1>2 DEF When
<1>4. \A i \in 1 .. n : \A y :
        y \in ToSet(each[i]) <=> Adds(i) /\ y \in ToSet(Granters(values[i]))
  <2> HIDE DEF Adds, H, n
  <2> QED
    BY <1>2 DEF When, ToSet
<1>5. GrantersFor(values, fqn) = FlattenSeq(each)
  BY DEF GrantersFor
<1>6. /\ same \subseteq 1 .. n /\ same \subseteq Nat
      /\ \A i \in 1 .. n : i \in same <=> values[i].fqn = fqn
  BY <1>2
<1>7. same # {} => Min(same) \in same
  <2> HIDE DEF same, Adds, each, H, n
  <2> QED
    BY <1>6, MinIsLeast
<1>8. \A i, j \in same : values[i] = values[j]
  <2>1. \A i \in 1 .. n : values[i] \in policy
    BY <1>1, ValuesHeld
  <2>2. \A v, w \in policy : v.fqn = w.fqn => v = w
    BY <1>1 DEF IsPolicy
  <2> HIDE DEF same, Adds, each, H, n
  <2> QED
    BY <1>6, <2>1, <2>2
<1>9. \A y : (\E i \in 1 .. n : Adds(i) /\ y \in ToSet(Granters(values[i])))
              <=> \E i \in 1 .. n : i \in same /\ y \in ToSet(Granters(values[i]))
  <2>1. ASSUME NEW y, NEW i \in same, y \in ToSet(Granters(values[i]))
        PROVE  \E j \in 1 .. n : Adds(j) /\ y \in ToSet(Granters(values[j]))
    <3>1. PICK first : first = Min(same)
      OBVIOUS
    <3>2. first \in same /\ Adds(first)
      BY <1>7, <3>1
    <3>3. first \in 1 .. n /\ values[first] = values[i]
      BY <1>6, <1>8, <3>2
    <3> QED
      BY <2>1, <3>2, <3>3
  <2>2. \A i : Adds(i) => i \in same
    OBVIOUS
  <2> HIDE DEF Adds, same, n
  <2> QED
    BY <2>1, <2>2
<1> HIDE DEF Adds, same, each, H, n
<1>10. /\ FlattenSeq(each) \in Seq(H)
       /\ \A y : y \in ToSet(FlattenSeq(each)) <=> \E i \in 1 .. n : y \in ToSet(each[i])
  BY <1>2, <1>3, FlattenedElements
<1>11. \A y : y \in ToSet(FlattenSeq(each))
                <=> \E i \in 1 .. n : values[i].fqn = fqn /\ y \in ToSet(Granters(values[i]))
  BY <1>4, <1>6, <1>9, <1>10, Zenon
<1> QED
  BY <1>5, <1>10, <1>11 DEF H, n

(* All values of one fqn are the same, and so are their granters.            *)
LEMMA GrantersOfOne ==
  \A policy, values : IsPolicy(policy) /\ values \in Seq(policy) =>
    \A i \in 1 .. Len(values) :
      ToSet(GrantersFor(values, values[i].fqn)) = ToSet(Granters(values[i]))
<1>1. SUFFICES ASSUME NEW policy, NEW values, IsPolicy(policy), values \in Seq(policy),
                      NEW i \in 1 .. Len(values)
      PROVE  ToSet(GrantersFor(values, values[i].fqn)) = ToSet(Granters(values[i]))
  OBVIOUS
<1>2. \A j \in 1 .. Len(values) : values[j].fqn = values[i].fqn => values[j] = values[i]
  BY <1>1, ValuesHeld DEF IsPolicy
<1>3. \A y : y \in ToSet(GrantersFor(values, values[i].fqn))
               <=> \E j \in 1 .. Len(values) : /\ values[j].fqn = values[i].fqn
                                               /\ y \in ToSet(Granters(values[j]))
  BY <1>1, GrantersForAre
<1>4. \A y : y \in ToSet(GrantersFor(values, values[i].fqn)) <=> y \in ToSet(Granters(values[i]))
  BY <1>2, <1>3
<1> QED
  BY <1>4

(* An attribute has a clause for each of its values with granters.           *)
LEMMA GrantedClausesAre ==
  \A policy, values, attribute : IsPolicy(policy) /\ values \in Seq(policy) =>
    /\ GrantedClauses(values, attribute) \in Seq(Seq(HoldersOf(values)))
    /\ \A clause : clause \in ToSet(GrantedClauses(values, attribute))
                     <=> \E i \in 1 .. Len(values) :
                           /\ values[i].attribute = attribute /\ HasGranters(values[i])
                           /\ clause = GrantersFor(values, values[i].fqn)
<1>1. SUFFICES ASSUME NEW policy, NEW values, NEW attribute,
                      IsPolicy(policy), values \in Seq(policy)
      PROVE  /\ GrantedClauses(values, attribute) \in Seq(Seq(HoldersOf(values)))
             /\ \A clause : clause \in ToSet(GrantedClauses(values, attribute))
                              <=> \E i \in 1 .. Len(values) :
                                    /\ values[i].attribute = attribute /\ HasGranters(values[i])
                                    /\ clause = GrantersFor(values, values[i].fqn)
  OBVIOUS
<1> DEFINE C == Seq(HoldersOf(values))
           n == Len(values)
           Counts(i) == values[i].attribute = attribute /\ Granters(values[i]) # <<>>
           each == [i \in DOMAIN values |-> When(Counts(i), <<GrantersFor(values, values[i].fqn)>>)]
<1>2. n \in Nat /\ DOMAIN values = 1 .. n
  BY <1>1, ValuesHeld
<1>3. \A i \in 1 .. n : GrantersFor(values, values[i].fqn) \in C
  BY <1>1, GrantersForAre
<1>4. GrantedClauses(values, attribute) = FlattenSeq(each)
  BY DEF GrantedClauses
<1>5. each \in [1 .. n -> Seq(C)]
  <2> HIDE DEF C, n, Counts
  <2> QED
    BY <1>2, <1>3 DEF When
<1>6. \A i \in 1 .. n : \A y :
        y \in ToSet(each[i]) <=> Counts(i) /\ y = GrantersFor(values, values[i].fqn)
  <2> HIDE DEF C, n, Counts
  <2>1. ASSUME NEW i \in 1 .. n, Counts(i)
        PROVE  ToSet(each[i]) = {GrantersFor(values, values[i].fqn)}
    BY <1>2, <2>1 DEF When, ToSet
  <2>2. ASSUME NEW i \in 1 .. n, ~Counts(i)
        PROVE  ToSet(each[i]) = {}
    BY <1>2, <2>2 DEF When, ToSet
  <2> QED
    BY <2>1, <2>2
<1> HIDE DEF each, C, n
<1>7. /\ FlattenSeq(each) \in Seq(C)
      /\ \A y : y \in ToSet(FlattenSeq(each)) <=> \E i \in 1 .. n : y \in ToSet(each[i])
  BY <1>2, <1>5, FlattenedElements
<1> QED
  BY <1>4, <1>6, <1>7 DEF C, n, HasGranters

(* The first value of an attribute has the rule of all its values.           *)
LEMMA FirstOfIs ==
  \A policy, values : IsPolicy(policy) /\ values \in Seq(policy) =>
    \A i \in 1 .. Len(values) :
      LET first == FirstOf(values, values[i].attribute)
      IN /\ first \in 1 .. Len(values)
         /\ values[first].attribute = values[i].attribute
         /\ values[first].rule = values[i].rule
<1>1. SUFFICES ASSUME NEW policy, NEW values, IsPolicy(policy), values \in Seq(policy),
                      NEW i \in 1 .. Len(values)
      PROVE  LET first == FirstOf(values, values[i].attribute)
             IN /\ first \in 1 .. Len(values)
                /\ values[first].attribute = values[i].attribute
                /\ values[first].rule = values[i].rule
  OBVIOUS
<1> DEFINE T == {j \in DOMAIN values : values[j].attribute = values[i].attribute}
<1>2. /\ DOMAIN values = 1 .. Len(values) /\ Len(values) \in Nat
      /\ \A j \in 1 .. Len(values) : j \in Nat /\ values[j] \in policy
  BY <1>1, ValuesHeld
<1>3. T \subseteq Nat /\ i \in T
  BY <1>1, <1>2
<1>4. Min(T) \in T
  BY <1>3, MinIsLeast
<1>5. FirstOf(values, values[i].attribute) = Min(T)
  BY DEF FirstOf
<1>6. \A v, w \in policy : v.attribute = w.attribute => v.rule = w.rule
  BY <1>1 DEF IsPolicy
<1> QED
  BY <1>1, <1>2, <1>4, <1>5, <1>6

(* An attribute has one clause for each of its values that somebody grants,  *)
(* or one for all of them.                                                   *)
IsGranted(values, attribute, i) ==
  values[i].attribute = attribute /\ HasGranters(values[i])

(* The clauses of an anyOf attribute: one, or none.                          *)
LEMMA AnyOfClausesAre ==
  \A policy, values, attribute :
    IsPolicy(policy) /\ values \in Seq(policy)
      /\ values[FirstOf(values, attribute)].rule = "anyOf" =>
    /\ ClausesOf(values, attribute) \in Seq(Seq(HoldersOf(values)))
    /\ (\E i \in 1 .. Len(values) : IsGranted(values, attribute, i)) =>
         \E clause :
           /\ \A c : c \in ToSet(ClausesOf(values, attribute)) <=> c = clause
           /\ \A y : y \in ToSet(clause) <=>
                \E i \in 1 .. Len(values) : /\ IsGranted(values, attribute, i)
                                            /\ y \in ToSet(Granters(values[i]))
    /\ ~(\E i \in 1 .. Len(values) : IsGranted(values, attribute, i)) =>
         ToSet(ClausesOf(values, attribute)) = {}
<1>1. SUFFICES ASSUME NEW policy, NEW values, NEW attribute,
                      IsPolicy(policy), values \in Seq(policy),
                      values[FirstOf(values, attribute)].rule = "anyOf"
      PROVE
    /\ ClausesOf(values, attribute) \in Seq(Seq(HoldersOf(values)))
    /\ (\E i \in 1 .. Len(values) : IsGranted(values, attribute, i)) =>
         \E clause :
           /\ \A c : c \in ToSet(ClausesOf(values, attribute)) <=> c = clause
           /\ \A y : y \in ToSet(clause) <=>
                \E i \in 1 .. Len(values) : /\ IsGranted(values, attribute, i)
                                            /\ y \in ToSet(Granters(values[i]))
    /\ ~(\E i \in 1 .. Len(values) : IsGranted(values, attribute, i)) =>
         ToSet(ClausesOf(values, attribute)) = {}
  BY Zenon
<1>2. PICK each : each = GrantedClauses(values, attribute)
  OBVIOUS
<1>3. PICK H : H = HoldersOf(values)
  OBVIOUS
<1>4. /\ each \in Seq(Seq(H))
      /\ \A c : c \in ToSet(each) <=> \E i \in 1 .. Len(values) :
                                        /\ IsGranted(values, attribute, i)
                                        /\ c = GrantersFor(values, values[i].fqn)
  BY <1>1, <1>2, <1>3, GrantedClausesAre DEF IsGranted
<1>5. ClausesOf(values, attribute) = When(each # <<>>, <<FlattenSeq(each)>>)
  BY <1>1, <1>2 DEF ClausesOf, booleanOperatorFor
<1>6. each \in [1 .. Len(each) -> Seq(H)] /\ Len(each) \in Nat /\ (each # <<>> <=> Len(each) # 0)
  BY <1>4
<1>7. /\ FlattenSeq(each) \in Seq(H)
      /\ \A y : y \in ToSet(FlattenSeq(each)) <=> \E i \in 1 .. Len(each) : y \in ToSet(each[i])
  BY <1>6, FlattenedElements
<1>8. PICK flat : flat = FlattenSeq(each)
  OBVIOUS
<1>9. PICK clauses : clauses = ClausesOf(values, attribute)
  OBVIOUS
<1>10. clauses \in Seq(Seq(H))
  <2>1. CASE each = <<>>
    BY <2>1, <1>5, <1>9 DEF When
  <2>2. CASE each # <<>>
    <3>1. flat \in Seq(H) /\ clauses = <<flat>>
      BY <2>2, <1>5, <1>7, <1>8, <1>9 DEF When
    <3> QED
      BY <3>1
  <2> QED
    BY <2>1, <2>2
<1>11. each # <<>> <=> \E i \in 1 .. Len(values) : IsGranted(values, attribute, i)
  <2>1. each # <<>> <=> ToSet(each) # {}
    <3>1. CASE each = <<>>
      BY <3>1 DEF ToSet
    <3>2. CASE each # <<>>
      BY <3>2, <1>6 DEF ToSet
    <3> QED
      BY <3>1, <3>2
  <2>2. ToSet(each) # {} <=> \E c : c \in ToSet(each)
    OBVIOUS
  <2> QED
    BY <2>1, <2>2, <1>4, Zenon
<1>12. ASSUME each # <<>>
       PROVE  /\ \A c : c \in ToSet(clauses) <=> c = flat
              /\ \A y : y \in ToSet(flat) <=>
                   \E i \in 1 .. Len(values) : /\ IsGranted(values, attribute, i)
                                               /\ y \in ToSet(Granters(values[i]))
  <2>1. clauses = <<flat>>
    BY <1>12, <1>5, <1>8, <1>9 DEF When
  <2>2. ToSet(clauses) = {flat}
    BY <2>1 DEF ToSet
  <2>3. \A i \in 1 .. Len(values) :
          ToSet(GrantersFor(values, values[i].fqn)) = ToSet(Granters(values[i]))
    BY <1>1, GrantersOfOne
  <2>4. \A c : c \in ToSet(each) <=> \E i \in 1 .. Len(each) : c = each[i]
    BY <1>6 DEF ToSet
  <2>5. \A y : y \in ToSet(flat) <=> \E c \in ToSet(each) : y \in ToSet(c)
    BY <2>4, <1>7, <1>8, Zenon
  <2>6. \A y : y \in ToSet(flat) <=>
          \E i \in 1 .. Len(values) : /\ IsGranted(values, attribute, i)
                                      /\ y \in ToSet(GrantersFor(values, values[i].fqn))
    BY <2>5, <1>4, Zenon
  <2>7. \A y : y \in ToSet(flat) <=>
          \E i \in 1 .. Len(values) : /\ IsGranted(values, attribute, i)
                                      /\ y \in ToSet(Granters(values[i]))
    BY <2>3, <2>6, Zenon
  <2> QED
    BY <2>2, <2>7
<1>13. ASSUME each = <<>> PROVE ToSet(clauses) = {}
  BY <1>13, <1>5, <1>9 DEF When, ToSet
<1> QED
  BY <1>3, <1>9, <1>10, <1>11, <1>12, <1>13, Zenon

(* The clauses of another attribute: one for each value with granters.       *)
LEMMA AllOfClausesAre ==
  \A policy, values, attribute :
    IsPolicy(policy) /\ values \in Seq(policy)
      /\ values[FirstOf(values, attribute)].rule # "anyOf" =>
    ClausesOf(values, attribute) = GrantedClauses(values, attribute)
BY DEF ClausesOf, booleanOperatorFor

(* A set of KASes meets a clause when it has one of its granters.            *)
Meets(kases, clause) == \E g \in ToSet(clause) : g.url \in kases

(* KASes help a value when they meet its clause.                             *)
LEMMA HelpsMeets ==
  \A policy, values, kases : IsPolicy(policy) /\ values \in Seq(policy) =>
    \A i \in 1 .. Len(values) : Helps(values[i], kases) <=> Meets(kases, Granters(values[i]))
BY DEF Helps, Meets, ToSet

(* The clauses of an attribute are what the policy asks for it.              *)
Asks(kases, values, attribute) ==
  LET granted == Granted(values, attribute)
      anyOf == \E i \in granted : values[i].rule = "anyOf"
  IN IF anyOf THEN \E i \in granted : Helps(values[i], kases)
              ELSE \A i \in granted : Helps(values[i], kases)

(* The clauses of an attribute ask what its rule asks.                       *)
LEMMA ClausesOfAsk ==
  \A policy, values : IsPolicy(policy) /\ values \in Seq(policy) =>
    \A at \in 1 .. Len(values) :
      LET attribute == values[at].attribute
      IN /\ ClausesOf(values, attribute) \in Seq(Seq(HoldersOf(values)))
         /\ \A clause \in ToSet(ClausesOf(values, attribute)) : ToSet(clause) # {}
         /\ \A kases : Asks(kases, values, attribute) <=>
              \A clause \in ToSet(ClausesOf(values, attribute)) : Meets(kases, clause)
<1>1. SUFFICES ASSUME NEW policy, NEW values, IsPolicy(policy), values \in Seq(policy),
                      NEW at \in 1 .. Len(values)
      PROVE
        /\ ClausesOf(values, values[at].attribute) \in Seq(Seq(HoldersOf(values)))
        /\ \A clause \in ToSet(ClausesOf(values, values[at].attribute)) : ToSet(clause) # {}
        /\ \A kases : Asks(kases, values, values[at].attribute) <=>
             \A clause \in ToSet(ClausesOf(values, values[at].attribute)) : Meets(kases, clause)
  BY Zenon
<1> DEFINE attribute == values[at].attribute
           n == Len(values)
           granted == Granted(values, attribute)
           rule == values[FirstOf(values, attribute)].rule
<1>2. /\ DOMAIN values = 1 .. n
      /\ \A i \in 1 .. n : /\ values[i] \in policy
                           /\ HasGranters(values[i]) <=> ToSet(Granters(values[i])) # {}
  BY <1>1, ValuesHeld
<1>3. \A i : i \in granted <=> i \in 1 .. n /\ IsGranted(values, attribute, i)
  BY <1>2 DEF Granted, IsGranted, HasGranters
<1>4. \A i \in granted : values[i].rule = rule
  <2>1. \A v, w \in policy : v.attribute = w.attribute => v.rule = w.rule
    BY <1>1 DEF IsPolicy
  <2>2. /\ FirstOf(values, attribute) \in 1 .. n
        /\ values[FirstOf(values, attribute)].attribute = attribute
    BY <1>1, FirstOfIs
  <2> QED
    BY <2>1, <2>2, <1>2, <1>3 DEF IsGranted
<1>5. \A i \in 1 .. n : \A kases :
        Helps(values[i], kases) <=> \E g \in ToSet(Granters(values[i])) : g.url \in kases
  BY <1>1, HelpsMeets DEF Meets
<1>6. CASE rule = "anyOf"
  <2>1. /\ ClausesOf(values, attribute) \in Seq(Seq(HoldersOf(values)))
        /\ (\E i \in 1 .. n : IsGranted(values, attribute, i)) =>
             \E clause :
               /\ \A c : c \in ToSet(ClausesOf(values, attribute)) <=> c = clause
               /\ \A y : y \in ToSet(clause) <=>
                    \E i \in 1 .. n : /\ IsGranted(values, attribute, i)
                                      /\ y \in ToSet(Granters(values[i]))
        /\ ~(\E i \in 1 .. n : IsGranted(values, attribute, i)) =>
             ToSet(ClausesOf(values, attribute)) = {}
    BY <1>1, <1>6, AnyOfClausesAre, Zenon
  <2> HIDE DEF attribute, n, rule
  <2>2. CASE \E i \in 1 .. n : IsGranted(values, attribute, i)
    <3>1. PICK clause :
            /\ \A c : c \in ToSet(ClausesOf(values, attribute)) <=> c = clause
            /\ \A y : y \in ToSet(clause) <=>
                 \E i \in 1 .. n : /\ IsGranted(values, attribute, i)
                                   /\ y \in ToSet(Granters(values[i]))
      BY <2>1, <2>2
    <3>2. \A i \in 1 .. n : IsGranted(values, attribute, i) => ToSet(Granters(values[i])) # {}
      BY <1>2 DEF IsGranted
    <3>3. ToSet(clause) # {}
      BY <2>2, <3>1, <3>2
    <3>4. \E i \in granted : values[i].rule = "anyOf"
      BY <2>2, <1>3, <1>4, <1>6
    <3>5. \A kases : Asks(kases, values, attribute) <=> \E i \in granted : Helps(values[i], kases)
      BY <3>4 DEF Asks
    <3>6. \A kases : Asks(kases, values, attribute) <=> Meets(kases, clause)
      <4> HIDE DEF granted
      <4> QED
        BY <3>1, <3>5, <1>3, <1>5 DEF Meets
    <3>7. \A clause_1 \in ToSet(ClausesOf(values, attribute)) : ToSet(clause_1) # {}
      BY <3>1, <3>3
    <3>8. \A kases : Asks(kases, values, attribute) <=>
             \A clause_1 \in ToSet(ClausesOf(values, attribute)) : Meets(kases, clause_1)
      BY <3>1, <3>6, Zenon
    <3> QED
      BY <2>1, <3>7, <3>8, Zenon DEF attribute
  <2>3. CASE ~(\E i \in 1 .. n : IsGranted(values, attribute, i))
    <3>1. granted = {}
      BY <2>3, <1>3
    <3>2. \A kases : Asks(kases, values, attribute)
      BY <3>1 DEF Asks
    <3> QED
      BY <2>1, <2>3, <3>2 DEF attribute
  <2> QED
    BY <2>2, <2>3
<1>7. CASE rule # "anyOf"
  <2>1. ClausesOf(values, attribute) = GrantedClauses(values, attribute)
    BY <1>1, <1>7, AllOfClausesAre
  <2>2. /\ GrantedClauses(values, attribute) \in Seq(Seq(HoldersOf(values)))
        /\ \A clause : clause \in ToSet(GrantedClauses(values, attribute))
                         <=> \E i \in 1 .. n : /\ IsGranted(values, attribute, i)
                                               /\ clause = GrantersFor(values, values[i].fqn)
    BY <1>1, GrantedClausesAre DEF IsGranted
  <2>3. \A i \in 1 .. n : ToSet(GrantersFor(values, values[i].fqn)) = ToSet(Granters(values[i]))
    BY <1>1, GrantersOfOne
  <2>4. \A kases : Asks(kases, values, attribute) <=> \A i \in granted : Helps(values[i], kases)
    <3> HIDE DEF rule
    <3> QED
      BY <1>4, <1>7 DEF Asks
  <2> HIDE DEF attribute, n, rule, granted
  <2>5. \A clause \in ToSet(GrantedClauses(values, attribute)) : ToSet(clause) # {}
    BY <2>2, <2>3, <1>2 DEF IsGranted
  <2>6. \A kases : Asks(kases, values, attribute) <=>
          \A clause \in ToSet(GrantedClauses(values, attribute)) : Meets(kases, clause)
    BY <2>2, <2>3, <2>4, <1>3, <1>5 DEF Meets
  <2> QED
    BY <2>1, <2>2, <2>5, <2>6, Zenon DEF attribute
<1> QED
  BY <1>6, <1>7

(* AttributesOf lists the attributes of the values.                          *)
LEMMA AttributesAre ==
  \A policy, values : IsPolicy(policy) /\ values \in Seq(policy) =>
    /\ IsSequence(AttributesOf(values))
    /\ \A a : a \in ToSet(AttributesOf(values)) <=>
                \E i \in 1 .. Len(values) : a = values[i].attribute
<1>1. SUFFICES ASSUME NEW policy, NEW values, IsPolicy(policy), values \in Seq(policy)
      PROVE  /\ IsSequence(AttributesOf(values))
             /\ \A a : a \in ToSet(AttributesOf(values)) <=>
                         \E i \in 1 .. Len(values) : a = values[i].attribute
  OBVIOUS
<1> DEFINE n == Len(values)
           A == {values[i].attribute : i \in 1 .. n}
           First(i) == FirstOf(values, values[i].attribute) = i
           each == [i \in DOMAIN values |-> When(First(i), <<values[i].attribute>>)]
<1>2. n \in Nat /\ DOMAIN values = 1 .. n
  BY <1>1, ValuesHeld
<1>3. \A i \in 1 .. n : \E j \in 1 .. n : First(j) /\ values[j].attribute = values[i].attribute
  <2> SUFFICES ASSUME NEW i \in 1 .. n
      PROVE  \E j \in 1 .. n : First(j) /\ values[j].attribute = values[i].attribute
    OBVIOUS
  <2>1. /\ FirstOf(values, values[i].attribute) \in 1 .. n
        /\ values[FirstOf(values, values[i].attribute)].attribute = values[i].attribute
    BY <1>1, FirstOfIs
  <2> QED
    BY <2>1
<1> HIDE DEF First, n
<1>a. \A i \in 1 .. n : values[i].attribute \in A
  OBVIOUS
<1> HIDE DEF A
<1>4. each \in [1 .. n -> Seq(A)]
  BY <1>2, <1>a DEF When
<1>5. \A i \in 1 .. n : \A y : y \in ToSet(each[i]) <=> First(i) /\ y = values[i].attribute
  <2>1. ASSUME NEW i \in 1 .. n, First(i) PROVE ToSet(each[i]) = {values[i].attribute}
    BY <1>2, <2>1 DEF When, ToSet
  <2>2. ASSUME NEW i \in 1 .. n, ~First(i) PROVE ToSet(each[i]) = {}
    BY <1>2, <2>2 DEF When, ToSet
  <2> QED
    BY <2>1, <2>2
<1>6. AttributesOf(values) = FlattenSeq(each)
  BY DEF AttributesOf, First
<1> HIDE DEF each
<1>7. /\ FlattenSeq(each) \in Seq(A)
      /\ \A y : y \in ToSet(FlattenSeq(each)) <=> \E i \in 1 .. n : y \in ToSet(each[i])
  BY <1>2, <1>4, FlattenedElements
<1>8. IsSequence(AttributesOf(values))
  BY <1>6, <1>7, OwnElements
<1>9. \A a : a \in ToSet(AttributesOf(values)) <=> \E i \in 1 .. n : a = values[i].attribute
  <2>1. \A a : a \in ToSet(AttributesOf(values)) <=>
          \E i \in 1 .. n : First(i) /\ a = values[i].attribute
    BY <1>5, <1>6, <1>7, Zenon
  <2> QED
    BY <2>1, <1>3
<1> QED
  BY <1>8, <1>9 DEF n

(* The clauses of a policy ask what the policy asks.                         *)
LEMMA ClausesAsk ==
  \A policy, values : IsPolicy(policy) /\ values \in Seq(policy) =>
    /\ Clauses(values) \in Seq(Seq(HoldersOf(values)))
    /\ \A clause \in ToSet(Clauses(values)) : ToSet(clause) # {}
    /\ \A kases : Satisfies(kases, values) <=>
         \A clause \in ToSet(Clauses(values)) : Meets(kases, clause)
<1>1. SUFFICES ASSUME NEW policy, NEW values, IsPolicy(policy), values \in Seq(policy)
      PROVE
        /\ Clauses(values) \in Seq(Seq(HoldersOf(values)))
        /\ \A clause \in ToSet(Clauses(values)) : ToSet(clause) # {}
        /\ \A kases : Satisfies(kases, values) <=>
             \A clause \in ToSet(Clauses(values)) : Meets(kases, clause)
  BY Zenon
<1> DEFINE n == Len(values)
           attributes == AttributesOf(values)
           each == [i \in DOMAIN attributes |-> ClausesOf(values, attributes[i])]
<1>2. PICK C : C = Seq(HoldersOf(values))
  OBVIOUS
<1>3. DOMAIN values = 1 .. n
  BY <1>1, ValuesHeld
<1>4. /\ IsSequence(attributes)
      /\ \A a : a \in ToSet(attributes) <=> \E i \in 1 .. n : a = values[i].attribute
  BY <1>1, AttributesAre
<1>5. ASSUME NEW a \in ToSet(attributes)
      PROVE  /\ ClausesOf(values, a) \in Seq(C)
             /\ \A clause \in ToSet(ClausesOf(values, a)) : ToSet(clause) # {}
             /\ \A kases : Asks(kases, values, a) <=>
                  \A clause \in ToSet(ClausesOf(values, a)) : Meets(kases, clause)
  <2>1. PICK i \in 1 .. n : a = values[i].attribute
    BY <1>4, Zenon
  <2> QED
    BY <1>1, <1>2, <2>1, ClausesOfAsk, Zenon
<1>6. Clauses(values) = FlattenSeq(each)
  BY DEF Clauses
<1> HIDE DEF n, attributes
<1>7. Len(attributes) \in Nat /\ DOMAIN attributes = 1 .. Len(attributes)
  BY <1>4, PlacesOf
<1>8. \A i \in 1 .. Len(attributes) : /\ attributes[i] \in ToSet(attributes)
                                      /\ each[i] = ClausesOf(values, attributes[i])
  BY <1>4, <1>7, PlacesOf
<1>9. each \in [1 .. Len(attributes) -> Seq(C)]
  BY <1>5, <1>7, <1>8
<1> HIDE DEF each
<1>10. /\ FlattenSeq(each) \in Seq(C)
       /\ \A y : y \in ToSet(FlattenSeq(each)) <=>
            \E i \in 1 .. Len(attributes) : y \in ToSet(each[i])
  BY <1>7, <1>9, FlattenedElements
<1>11. \A y : y \in ToSet(Clauses(values)) <=>
         \E a \in ToSet(attributes) : y \in ToSet(ClausesOf(values, a))
  <2>1. \A a : a \in ToSet(attributes) <=> \E i \in 1 .. Len(attributes) : a = attributes[i]
    BY <1>7 DEF ToSet
  <2> QED
    BY <2>1, <1>6, <1>8, <1>10, Zenon
<1>12. \A clause \in ToSet(Clauses(values)) : ToSet(clause) # {}
  BY <1>5, <1>11, Zenon
<1>13. ASSUME NEW kases
       PROVE  Satisfies(kases, values) <=>
                \A clause \in ToSet(Clauses(values)) : Meets(kases, clause)
  <2>1. Satisfies(kases, values) <=>
          \A a \in {values[i].attribute : i \in 1 .. n} : Asks(kases, values, a)
    BY <1>3, Zenon DEF Satisfies, Asks
  <2>2. Satisfies(kases, values) <=> \A a \in ToSet(attributes) : Asks(kases, values, a)
    BY <2>1, <1>4
  <2>3. (\A a \in ToSet(attributes) : Asks(kases, values, a)) <=>
          \A a \in ToSet(attributes) :
            \A clause \in ToSet(ClausesOf(values, a)) : Meets(kases, clause)
    BY <1>5, Zenon
  <2> QED
    BY <2>2, <2>3, <1>11, Zenon
<1> QED
  BY <1>2, <1>6, <1>10, <1>12, <1>13, Zenon

-----------------------------------------------------------------------------
(* The steps of a plan.                                                      *)
IsStep(step, sid, granters) == \E g \in ToSet(granters) : step = [sid |-> sid, kas |-> g]

(* A clause has a step for each of its granters.                             *)
LEMMA StepsOfAre ==
  \A sid, granters, kinds : HeldAs(granters, kinds) =>
    LET S == [sid : {sid}, kas : ToSet(granters)]
    IN /\ StepsOf(sid, granters) \in Seq(S)
       /\ \A step : step \in ToSet(StepsOf(sid, granters)) <=> IsStep(step, sid, granters)
<1>1. SUFFICES ASSUME NEW sid, NEW granters, NEW kinds, HeldAs(granters, kinds)
      PROVE  LET S == [sid : {sid}, kas : ToSet(granters)]
             IN /\ StepsOf(sid, granters) \in Seq(S)
                /\ \A step : step \in ToSet(StepsOf(sid, granters)) <=> IsStep(step, sid, granters)
  OBVIOUS
<1> DEFINE S == [sid : {sid}, kas : ToSet(granters)]
           n == Len(granters)
           Step(i) == [sid |-> sid, kas |-> granters[i]]
           each == [i \in DOMAIN granters |->
                      IF granters[i].kind = "cached"
                        THEN [k \in DOMAIN granters[i].keys |-> Step(i)]
                        ELSE <<Step(i)>>]
<1>2. /\ n \in Nat /\ DOMAIN granters = 1 .. n
      /\ \A i \in 1 .. n : granters[i] \in ToSet(granters) /\ IsHolder(granters[i], kinds)
  BY <1>1, PlacesOf DEF HeldAs
<1>3. \A i \in 1 .. n : Step(i) \in S
  BY <1>2
<1>4. StepsOf(sid, granters) = FlattenSeq(each)
  BY DEF StepsOf
<1> HIDE DEF S, n
<1>5. ASSUME NEW i \in 1 .. n
      PROVE  each[i] \in Seq(S) /\ \A y : y \in ToSet(each[i]) <=> y = Step(i)
  <2>1. PICK s : s = Step(i)
    OBVIOUS
  <2>2. s \in S
    BY <2>1, <1>3
  <2>3. CASE granters[i].kind = "cached"
    <3>1. PICK keys : keys = granters[i].keys
      OBVIOUS
    <3>2. IsSequence(keys) /\ keys # <<>>
      BY <2>3, <3>1, <1>2 DEF IsHolder
    <3>3. DOMAIN keys = 1 .. Len(keys) /\ Len(keys) \in Nat /\ 1 \in DOMAIN keys
      BY <3>2, PlacesOf
    <3>4. each[i] = [k \in 1 .. Len(keys) |-> s]
      BY <2>1, <2>3, <3>1, <3>3, <1>2
    <3>5. DOMAIN each[i] = 1 .. Len(keys) /\ \A k \in 1 .. Len(keys) : each[i][k] = s
      BY <3>4
    <3> HIDE DEF each
    <3>6. each[i] \in Seq(S)
      BY <2>2, <3>3, <3>4
    <3> QED
      BY <2>1, <3>3, <3>5, <3>6 DEF ToSet
  <2>4. CASE granters[i].kind # "cached"
    <3>1. each[i] = <<s>>
      BY <2>1, <2>4, <1>2
    <3> HIDE DEF each, Step
    <3> QED
      BY <2>1, <2>2, <3>1 DEF ToSet
  <2> QED
    BY <2>3, <2>4
<1>6. each = [i \in 1 .. n |-> each[i]]
  BY <1>2
<1> HIDE DEF each
<1>7. each \in [1 .. n -> Seq(S)]
  BY <1>5, <1>6
<1>8. /\ FlattenSeq(each) \in Seq(S)
      /\ \A y : y \in ToSet(FlattenSeq(each)) <=> \E i \in 1 .. n : y \in ToSet(each[i])
  BY <1>2, <1>7, FlattenedElements
<1>9. \A y : y \in ToSet(StepsOf(sid, granters)) <=> \E i \in 1 .. n : y = Step(i)
  BY <1>4, <1>5, <1>8, Zenon
<1>10. \A y : y \in ToSet(StepsOf(sid, granters)) <=> IsStep(y, sid, granters)
  BY <1>2, <1>9 DEF IsStep, ToSet
<1> QED
  BY <1>4, <1>8, <1>10 DEF S

(* The last of some numbers up to n.                                         *)
LEMMA GreatestNumber ==
  ASSUME NEW n \in Nat, NEW T, T \subseteq 1 .. n, T # {}
  PROVE  \E m \in T : \A k \in T : k <= m
<1> DEFINE mirror == {n - m : m \in T}
<1>1. mirror \subseteq Nat /\ mirror # {}
  <2>1. \A m \in T : n - m \in Nat
    OBVIOUS
  <2> QED
    BY <2>1
<1>2. PICK d \in mirror : \A e \in mirror : d <= e
  BY <1>1, LeastNumber
<1>3. PICK m \in T : d = n - m
  BY <1>2
<1>4. \A k \in T : n - m <= n - k
  BY <1>2, <1>3
<1> QED
  BY <1>4

(* Granters with one name are at one place.                                  *)
LEMMA NamesHaveUrls ==
  \A g, h : NameOf(g) = NameOf(h) => g.url = h.url
<1>1. \A g : NameOf(g)[1] = g.url
  BY DEF NameOf
<1> QED
  BY <1>1

(* Clauses of one name are met by the same KASes.                            *)
LEMMA SameKeySameUrls ==
  \A c, d, kases : keyFor(c) = keyFor(d) /\ Meets(kases, c) => Meets(kases, d)
<1>1. SUFFICES ASSUME NEW c, NEW d, NEW kases, keyFor(c) = keyFor(d), Meets(kases, c)
      PROVE  Meets(kases, d)
  OBVIOUS
<1>2. DOMAIN keyFor(c) = {NameOf(c[i]) : i \in DOMAIN c}
  BY DEF keyFor
<1>3. DOMAIN keyFor(d) = {NameOf(d[i]) : i \in DOMAIN d}
  BY DEF keyFor
<1>4. PICK i \in DOMAIN c : c[i].url \in kases
  BY <1>1 DEF Meets, ToSet
<1>5. PICK j \in DOMAIN d : NameOf(c[i]) = NameOf(d[j])
  BY <1>1, <1>2, <1>3, <1>4
<1>6. d[j].url = c[i].url
  BY <1>5, NamesHaveUrls
<1> QED
  BY <1>4, <1>5, <1>6 DEF Meets, ToSet

IsKept(clauses, i) == \A j \in i + 1 .. Len(clauses) : keyFor(clauses[j]) # keyFor(clauses[i])

(* Of clauses with one name, one is kept.                                    *)
LEMMA KeptForAll ==
  \A S : \A clauses \in Seq(S) : \A i \in 1 .. Len(clauses) :
    \E k \in 1 .. Len(clauses) : IsKept(clauses, k) /\ keyFor(clauses[k]) = keyFor(clauses[i])
<1>1. SUFFICES ASSUME NEW S, NEW clauses, clauses \in Seq(S), NEW i \in 1 .. Len(clauses)
      PROVE  \E k \in 1 .. Len(clauses) :
               IsKept(clauses, k) /\ keyFor(clauses[k]) = keyFor(clauses[i])
  OBVIOUS
<1> DEFINE n == Len(clauses)
           T == {k \in 1 .. n : keyFor(clauses[k]) = keyFor(clauses[i])}
<1>2. n \in Nat
  BY <1>1
<1>3. PICK k \in T : \A j \in T : j <= k
  BY <1>2, GreatestNumber
<1>4. IsKept(clauses, k)
  BY <1>2, <1>3 DEF IsKept
<1> QED
  BY <1>3, <1>4

AreClauses(clauses, holders) ==
  /\ clauses \in Seq(Seq(holders))
  /\ \A holder \in holders : IsHolder(holder, PlannedKind)
  /\ \A clause \in ToSet(clauses) : ToSet(clause) # {}

(* The steps of a plan are those of the clauses it keeps.                    *)
LEMMA SimplifiedSteps ==
  \A clauses, holders : AreClauses(clauses, holders) =>
    LET n == Len(clauses)
    IN /\ n \in Nat /\ simplify(clauses) \in Seq([sid : 1 .. n, kas : holders])
       /\ \A step : step \in ToSet(simplify(clauses)) <=>
            \E i \in 1 .. n : IsKept(clauses, i) /\ IsStep(step, i, clauses[i])
<1>1. SUFFICES ASSUME NEW clauses, NEW holders, AreClauses(clauses, holders)
      PROVE
        /\ Len(clauses) \in Nat
        /\ simplify(clauses) \in Seq([sid : 1 .. Len(clauses), kas : holders])
        /\ \A step : step \in ToSet(simplify(clauses)) <=>
             \E i \in 1 .. Len(clauses) : IsKept(clauses, i) /\ IsStep(step, i, clauses[i])
  BY Zenon
<1>2. PICK n : n = Len(clauses)
  OBVIOUS
<1>3. PICK S : S = [sid : 1 .. n, kas : holders]
  OBVIOUS
<1> DEFINE each == [i \in DOMAIN clauses |->
                      IF IsKept(clauses, i) THEN StepsOf(SplitName(i), clauses[i]) ELSE <<>>]
<1>4. n \in Nat /\ DOMAIN clauses = 1 .. n /\ \A i \in 1 .. n : clauses[i] \in Seq(holders)
  BY <1>1, <1>2 DEF AreClauses
<1>5. simplify(clauses) = FlattenSeq(each)
  BY DEF simplify, IsKept
<1>6. ASSUME NEW i \in 1 .. n
      PROVE  /\ StepsOf(i, clauses[i]) \in Seq(S)
             /\ \A step : step \in ToSet(StepsOf(i, clauses[i])) <=> IsStep(step, i, clauses[i])
  <2>1. PICK clause : clause = clauses[i]
    OBVIOUS
  <2>2. clause \in Seq(holders)
    BY <2>1, <1>4
  <2>3. IsSequence(clause) /\ ToSet(clause) \subseteq holders
    BY <2>2, OwnElements
  <2>4. HeldAs(clause, PlannedKind)
    BY <2>3, <1>1, PlacesOf DEF HeldAs, AreClauses
  <2>5. /\ StepsOf(i, clause) \in Seq([sid : {i}, kas : ToSet(clause)])
        /\ \A step : step \in ToSet(StepsOf(i, clause)) <=> IsStep(step, i, clause)
    BY <2>4, StepsOfAre
  <2>6. [sid : {i}, kas : ToSet(clause)] \subseteq S
    BY <2>3, <1>3
  <2>7. StepsOf(i, clause) \in Seq(S)
    BY <2>5, <2>6, WiderElements
  <2> QED
    BY <2>1, <2>5, <2>7
<1>7. \A i \in 1 .. n :
        each[i] = IF IsKept(clauses, i) THEN StepsOf(i, clauses[i]) ELSE <<>>
  BY <1>4 DEF SplitName
<1>8. each = [i \in 1 .. n |-> each[i]]
  BY <1>4
<1> HIDE DEF each
<1>9. ASSUME NEW i \in 1 .. n
      PROVE  /\ each[i] \in Seq(S)
             /\ \A y : y \in ToSet(each[i]) <=>
                         IsKept(clauses, i) /\ IsStep(y, i, clauses[i])
  <2>1. CASE IsKept(clauses, i)
    BY <2>1, <1>6, <1>7
  <2>2. CASE ~IsKept(clauses, i)
    <3>1. each[i] = <<>>
      BY <2>2, <1>7
    <3> QED
      BY <2>2, <3>1 DEF ToSet
  <2> QED
    BY <2>1, <2>2
<1>10. each \in [1 .. n -> Seq(S)]
  BY <1>8, <1>9
<1>11. /\ FlattenSeq(each) \in Seq(S)
       /\ \A y : y \in ToSet(FlattenSeq(each)) <=> \E i \in 1 .. n : y \in ToSet(each[i])
  BY <1>4, <1>10, FlattenedElements
<1>12. \A y : y \in ToSet(simplify(clauses)) <=>
         \E i \in 1 .. n : IsKept(clauses, i) /\ IsStep(y, i, clauses[i])
  BY <1>5, <1>9, <1>11, Zenon
<1> QED
  BY <1>2, <1>3, <1>4, <1>5, <1>11, <1>12, Zenon

(* A plan opens for the KASes that meet every clause.                        *)
LEMMA SimplifiedOpens ==
  \A clauses, holders : AreClauses(clauses, holders) =>
    \A kases : Opens(kases, simplify(clauses)) <=>
                 \A clause \in ToSet(clauses) : Meets(kases, clause)
<1>1. SUFFICES ASSUME NEW clauses, NEW holders, AreClauses(clauses, holders), NEW kases
      PROVE  Opens(kases, simplify(clauses)) <=>
               \A clause \in ToSet(clauses) : Meets(kases, clause)
  OBVIOUS
<1>2. PICK n, steps : n = Len(clauses) /\ steps = simplify(clauses)
  OBVIOUS
<1>3. /\ n \in Nat
      /\ \A step : step \in ToSet(steps) <=>
           \E i \in 1 .. n : IsKept(clauses, i) /\ IsStep(step, i, clauses[i])
  BY <1>1, <1>2, SimplifiedSteps, Zenon
<1>4. Opens(kases, steps) <=>
        \A s \in ToSet(steps) : \E t \in ToSet(steps) : t.sid = s.sid /\ t.kas.url \in kases
  BY DEF Opens, ToSet
<1>5. DOMAIN clauses = 1 .. n
  BY <1>1, <1>2 DEF AreClauses
<1>6. ToSet(clauses) = {clauses[i] : i \in 1 .. n}
  BY <1>5 DEF ToSet
<1>7. \A i \in 1 .. n : ToSet(clauses[i]) # {}
  BY <1>1, <1>6 DEF AreClauses
<1>8. ASSUME Opens(kases, steps), NEW j \in 1 .. n PROVE Meets(kases, clauses[j])
  <2>1. clauses \in Seq(Seq(holders))
    BY <1>1 DEF AreClauses
  <2>2. PICK i \in 1 .. n : IsKept(clauses, i) /\ keyFor(clauses[i]) = keyFor(clauses[j])
    BY <1>2, <2>1, KeptForAll, Zenon
  <2>3. PICK g \in ToSet(clauses[i]) : TRUE
    BY <1>7
  <2>4. [sid |-> i, kas |-> g] \in ToSet(steps)
    BY <1>3, <2>2, <2>3 DEF IsStep
  <2>5. PICK t \in ToSet(steps) : t.sid = i /\ t.kas.url \in kases
    BY <1>4, <1>8, <2>4
  <2>6. PICK k \in 1 .. n : IsKept(clauses, k) /\ IsStep(t, k, clauses[k])
    BY <1>3, <2>5
  <2>7. Meets(kases, clauses[i])
    BY <2>5, <2>6 DEF IsStep, Meets
  <2> QED
    BY <2>2, <2>7, SameKeySameUrls
<1>9. ASSUME \A i \in 1 .. n : Meets(kases, clauses[i]), NEW s \in ToSet(steps)
      PROVE  \E t \in ToSet(steps) : t.sid = s.sid /\ t.kas.url \in kases
  <2>1. PICK i \in 1 .. n : IsKept(clauses, i) /\ IsStep(s, i, clauses[i])
    BY <1>3
  <2>2. PICK g \in ToSet(clauses[i]) : g.url \in kases
    BY <1>9 DEF Meets
  <2>3. [sid |-> i, kas |-> g] \in ToSet(steps)
    BY <1>3, <2>1, <2>2 DEF IsStep
  <2> QED
    BY <2>1, <2>2, <2>3 DEF IsStep
<1> QED
  BY <1>2, <1>4, <1>6, <1>8, <1>9

(* A policy's clauses can be planned for.                                    *)
LEMMA PolicyClauses ==
  \A policy, values : IsPolicy(policy) /\ values \in Seq(policy) =>
    AreClauses(Clauses(values), HoldersOf(values))
<1>1. SUFFICES ASSUME NEW policy, NEW values, IsPolicy(policy), values \in Seq(policy)
      PROVE  AreClauses(Clauses(values), HoldersOf(values))
  OBVIOUS
<1>2. PICK clauses : clauses = Clauses(values)
  OBVIOUS
<1>3. /\ clauses \in Seq(Seq(HoldersOf(values)))
      /\ \A clause \in ToSet(clauses) : ToSet(clause) # {}
  BY <1>1, <1>2, ClausesAsk, Zenon
<1>4. \A holder \in HoldersOf(values) : IsHolder(holder, PlannedKind)
  <2>1. \A i \in DOMAIN values : HeldAs(Granters(values[i]), PlannedKind)
    BY <1>1, GrantersHeld, ValuesHeld
  <2> QED
    BY <2>1 DEF HoldersOf, HeldAs, ToSet
<1> QED
  BY <1>2, <1>3, <1>4, Zenon DEF AreClauses

(* A plan opens for the KASes that satisfy the policy.                       *)
LEMMA PlanOpens ==
  \A policy, values : IsPolicy(policy) /\ values \in Seq(policy) =>
    \A kases : Satisfies(kases, values) <=> Opens(kases, plan(values))
<1>1. SUFFICES ASSUME NEW policy, NEW values, IsPolicy(policy), values \in Seq(policy), NEW kases
      PROVE  Satisfies(kases, values) <=> Opens(kases, plan(values))
  OBVIOUS
<1>2. PICK clauses : clauses = Clauses(values)
  OBVIOUS
<1>3. Satisfies(kases, values) <=> \A clause \in ToSet(clauses) : Meets(kases, clause)
  BY <1>1, <1>2, ClausesAsk, Zenon
<1>4. AreClauses(clauses, HoldersOf(values))
  BY <1>1, <1>2, PolicyClauses, Zenon
<1>5. Opens(kases, simplify(clauses)) <=> \A clause \in ToSet(clauses) : Meets(kases, clause)
  BY <1>4, SimplifiedOpens, Zenon
<1> QED
  BY <1>2, <1>3, <1>5 DEF plan

-----------------------------------------------------------------------------
(* The elements of a sequence are finitely many, and as many as it is long   *)
(* if none is there twice.                                                   *)
LEMMA Counted ==
  \A s : IsSequence(s) =>
    /\ IsFiniteSet(ToSet(s))
    /\ IsInjective(s) => Cardinality(ToSet(s)) = Len(s)
<1>1. SUFFICES ASSUME NEW s, IsSequence(s)
      PROVE  /\ IsFiniteSet(ToSet(s))
             /\ IsInjective(s) => Cardinality(ToSet(s)) = Len(s)
  OBVIOUS
<1>2. Len(s) \in Nat /\ DOMAIN s = 1 .. Len(s) /\ \A i \in 1 .. Len(s) : s[i] \in ToSet(s)
  BY <1>1, PlacesOf
<1>3. s = [i \in 1 .. Len(s) |-> s[i]]
  BY <1>1 DEF IsSequence
<1>4. s \in Surjection(1 .. Len(s), ToSet(s))
  BY <1>2, <1>3, Zenon DEF Surjection, ToSet
<1>5. IsFiniteSet(1 .. Len(s)) /\ Cardinality(1 .. Len(s)) = Len(s)
  BY <1>2, FS_Interval
<1>6. /\ IsFiniteSet(ToSet(s))
      /\ Cardinality(ToSet(s)) = Cardinality(1 .. Len(s)) <=> s \in Injection(1 .. Len(s), ToSet(s))
  BY <1>4, <1>5, FS_Surjection
<1>7. IsInjective(s) => s \in Injection(1 .. Len(s), ToSet(s))
  BY <1>2, <1>4 DEF IsInjective, Injection, Surjection
<1> QED
  BY <1>5, <1>6, <1>7

(* A finite set as a sequence without repetitions.                           *)
LEMMA EnumeratedOnce ==
  \A S : IsFiniteSet(S) =>
    SetToSeq(S) \in Seq(S) /\ IsInjective(SetToSeq(S)) /\ ToSet(SetToSeq(S)) = S
<1>1. SUFFICES ASSUME NEW S, IsFiniteSet(S)
      PROVE  SetToSeq(S) \in Seq(S) /\ IsInjective(SetToSeq(S)) /\ ToSet(SetToSeq(S)) = S
  OBVIOUS
<1>2. PICK n : n = Cardinality(S)
  OBVIOUS
<1>3. n \in Nat /\ ExistsBijection(1 .. n, S)
  BY <1>1, <1>2, FS_CardinalityType
<1>4. \E f \in [1 .. n -> S] : IsInjective(f)
  BY <1>3 DEF ExistsBijection, Bijection, Injection, IsInjective
<1>5. PICK f : f = SetToSeq(S)
  OBVIOUS
<1>6. f \in [1 .. n -> S] /\ IsInjective(f)
  BY <1>2, <1>4, <1>5, Zenon DEF SetToSeq
<1>7. f \in Injection(1 .. n, S)
  BY <1>6 DEF Injection, IsInjective
<1>8. Cardinality(1 .. n) = n
  BY <1>3, FS_Interval
<1>9. f \in Surjection(1 .. n, S)
  BY <1>1, <1>2, <1>7, <1>8, FS_Injection
<1>10. ToSet(f) = S
  BY <1>6, <1>9 DEF Surjection, ToSet
<1> QED
  BY <1>3, <1>5, <1>6, <1>10

(* Sequences without common elements, joined.                                *)
LEMMA Disjoined ==
  \A S : \A s, t \in Seq(S) :
    /\ ToSet(s \o t) = ToSet(s) \cup ToSet(t)
    /\ IsInjective(s) /\ IsInjective(t) /\ ToSet(s) \cap ToSet(t) = {} => IsInjective(s \o t)
<1>1. SUFFICES ASSUME NEW S, NEW s, NEW t, s \in Seq(S), t \in Seq(S)
      PROVE
        /\ ToSet(s \o t) = ToSet(s) \cup ToSet(t)
        /\ IsInjective(s) /\ IsInjective(t) /\ ToSet(s) \cap ToSet(t) = {} => IsInjective(s \o t)
  OBVIOUS
<1>2. PICK u : u = s \o t
  OBVIOUS
<1>3. /\ Len(s) \in Nat /\ Len(t) \in Nat /\ Len(u) = Len(s) + Len(t)
      /\ DOMAIN s = 1 .. Len(s) /\ DOMAIN t = 1 .. Len(t) /\ DOMAIN u = 1 .. Len(u)
  BY <1>1, <1>2, OwnElements, ConcatFacts
<1>4. \A p \in 1 .. Len(s) : u[p] = s[p] /\ p \in 1 .. Len(u)
  BY <1>1, <1>2, <1>3, ConcatFacts
<1>5. \A k \in 1 .. Len(t) : u[Len(s) + k] = t[k] /\ Len(s) + k \in 1 .. Len(u)
  BY <1>1, <1>2, <1>3, ConcatFacts
<1>6. \A p \in 1 .. Len(u) : p \in 1 .. Len(s) \/ \E k \in 1 .. Len(t) : p = Len(s) + k
  BY <1>1, <1>2, ConcatFacts
<1>7. ToSet(u) = ToSet(s) \cup ToSet(t)
  <2>1. ToSet(u) \subseteq ToSet(s) \cup ToSet(t)
    <3>1. ASSUME NEW p \in 1 .. Len(u) PROVE u[p] \in ToSet(s) \cup ToSet(t)
      <4>1. CASE p \in 1 .. Len(s)
        BY <4>1, <1>3, <1>4 DEF ToSet
      <4>2. CASE p \notin 1 .. Len(s)
        <5>1. PICK k \in 1 .. Len(t) : p = Len(s) + k
          BY <4>2, <1>6
        <5> QED
          BY <5>1, <1>3, <1>5 DEF ToSet
      <4> QED
        BY <4>1, <4>2
    <3> QED
      BY <3>1, <1>3 DEF ToSet
  <2>2. ToSet(s) \subseteq ToSet(u)
    BY <1>3, <1>4 DEF ToSet
  <2>3. ToSet(t) \subseteq ToSet(u)
    BY <1>3, <1>5 DEF ToSet
  <2> QED
    BY <2>1, <2>2, <2>3
<1>8. ASSUME IsInjective(s), IsInjective(t), ToSet(s) \cap ToSet(t) = {}
      PROVE  IsInjective(u)
  <2> SUFFICES ASSUME NEW p \in 1 .. Len(u), NEW q \in 1 .. Len(u), u[p] = u[q]
      PROVE  p = q
    BY <1>3 DEF IsInjective
  <2>1. \A a \in 1 .. Len(s), b \in 1 .. Len(t) : s[a] # t[b]
    BY <1>3, <1>8 DEF ToSet
  <2>2. CASE p \in 1 .. Len(s) /\ q \in 1 .. Len(s)
    BY <2>2, <1>3, <1>4, <1>8 DEF IsInjective
  <2>3. CASE p \in 1 .. Len(s) /\ q \notin 1 .. Len(s)
    BY <2>1, <2>3, <1>4, <1>5, <1>6
  <2>4. CASE p \notin 1 .. Len(s) /\ q \in 1 .. Len(s)
    BY <2>1, <2>4, <1>4, <1>5, <1>6
  <2>5. CASE p \notin 1 .. Len(s) /\ q \notin 1 .. Len(s)
    <3>1. PICK a \in 1 .. Len(t) : p = Len(s) + a
      BY <2>5, <1>6
    <3>2. PICK b \in 1 .. Len(t) : q = Len(s) + b
      BY <2>5, <1>6
    <3>3. t[a] = t[b]
      BY <3>1, <3>2, <1>5
    <3> QED
      BY <3>1, <3>2, <3>3, <1>3, <1>8 DEF IsInjective
  <2> QED
    BY <2>2, <2>3, <2>4, <2>5
<1> QED
  BY <1>2, <1>7, <1>8

(* Two lists of the same attributes, each without repetition, are as long.   *)
LEMMA SameLength ==
  \A s, t : IsSequence(s) /\ IsSequence(t) /\ IsInjective(s) /\ IsInjective(t)
              /\ ToSet(s) = ToSet(t) => Len(s) = Len(t)
BY Counted

(* Values that are completed by those that were missing.                     *)
LEMMA CompletedLength ==
  \A S : \A fqns, given \in Seq(S) :
    IsInjective(fqns) /\ IsInjective(given) /\ ToSet(given) \subseteq ToSet(fqns) =>
      LET missing == ToSet(fqns) \ ToSet(given)
      IN /\ Len(given \o SetToSeq(missing)) = Len(fqns)
         /\ ToSet(given \o SetToSeq(missing)) = ToSet(fqns)
<1>1. SUFFICES ASSUME NEW S, NEW fqns, NEW given, fqns \in Seq(S), given \in Seq(S),
                      IsInjective(fqns), IsInjective(given), ToSet(given) \subseteq ToSet(fqns)
      PROVE  LET missing == ToSet(fqns) \ ToSet(given)
             IN /\ Len(given \o SetToSeq(missing)) = Len(fqns)
                /\ ToSet(given \o SetToSeq(missing)) = ToSet(fqns)
  OBVIOUS
<1>2. PICK missing : missing = ToSet(fqns) \ ToSet(given)
  OBVIOUS
<1>3. IsSequence(fqns) /\ IsFiniteSet(ToSet(fqns)) /\ ToSet(fqns) \subseteq S
  BY <1>1, OwnElements, Counted
<1>4. IsFiniteSet(missing) /\ missing \subseteq S
  BY <1>2, <1>3, FS_Subset
<1>5. PICK got : got = SetToSeq(missing)
  OBVIOUS
<1>6. got \in Seq(missing) /\ IsInjective(got) /\ ToSet(got) = missing
  BY <1>4, <1>5, EnumeratedOnce
<1>7. got \in Seq(S)
  BY <1>4, <1>6, WiderElements
<1>8. ToSet(given \o got) = ToSet(fqns) /\ IsInjective(given \o got)
  <2>1. ToSet(given) \cap ToSet(got) = {} /\ ToSet(given) \cup ToSet(got) = ToSet(fqns)
    BY <1>1, <1>2, <1>6
  <2> QED
    BY <2>1, <1>1, <1>6, <1>7, Disjoined, Zenon
<1>9. IsSequence(given \o got)
  BY <1>1, <1>7, ConcatFacts, OwnElements
<1> QED
  BY <1>1, <1>2, <1>3, <1>5, <1>8, <1>9, SameLength

-----------------------------------------------------------------------------
(* The cache.  A function over 1 .. n is a sequence of what is in it.        *)
LEMMA Listed ==
  \A n \in Nat : \A s : s = [i \in 1 .. n |-> s[i]] => IsSequence(s)
<1>1. SUFFICES ASSUME NEW n \in Nat, NEW s, s = [i \in 1 .. n |-> s[i]]
      PROVE  IsSequence(s)
  OBVIOUS
<1>2. \A i \in 1 .. n : s[i] \in ToSet(s)
  BY <1>1 DEF ToSet
<1> QED
  BY <1>1, <1>2 DEF IsSequence

(* A sequence with one more element.                                         *)
LEMMA AppendOwn ==
  ASSUME NEW s, IsSequence(s), NEW x
  PROVE  /\ IsSequence(Append(s, x))
         /\ DOMAIN Append(s, x) = 1 .. Len(s) + 1
         /\ DOMAIN s = 1 .. Len(s)
         /\ Len(s) \in Nat
         /\ \A e \in 1 .. Len(s) : Append(s, x)[e] = s[e]
         /\ Append(s, x)[Len(s) + 1] = x
<1> DEFINE S == ToSet(s) \cup {x}
           t == Append(s, x)
<1>1. s \in Seq(S)
  BY WiderElements DEF IsSequence
<1>2. t \in Seq(S) /\ Len(t) = Len(s) + 1 /\ Len(s) \in Nat
  BY <1>1
<1>3. DOMAIN t = 1 .. Len(s) + 1 /\ DOMAIN s = 1 .. Len(s)
  BY <1>1, <1>2
<1>4. (\A e \in 1 .. Len(s) : t[e] = s[e]) /\ t[Len(s) + 1] = x
  BY <1>1, <1>2
<1>5. IsSequence(t)
  <2> HIDE DEF t, S
  <2> QED
    BY <1>2, OwnElements
<1> QED
  BY <1>2, <1>3, <1>4, <1>5

IsEntry(x) ==
  \E kas, alg, kid, state, key :
    x = [kas |-> kas, alg |-> alg, kid |-> kid, state |-> state, key |-> key]

CacheInv ==
  /\ IsSequence(cache)
  /\ \A e \in DOMAIN cache : IsEntry(cache[e])
  /\ KeysFetchedOnce

(* What a call may do to the cache.                                          *)
LookedForFirst ==
  \/ cache' = cache
  \/ \E ask, promise :
       Found(ask) = {} /\ cache' = Append(cache, NewEntry(ask, promise))

(* The handlers, innermost first.                                            *)
LEMMA AwaitEntryLooks ==
  ASSUME NEW c, NEW r, NEW ask, NEW promise, AwaitEntry(c, r, ask, promise)
  PROVE  LookedForFirst
BY DEF AwaitEntry, LookedForFirst

LEMMA GoesLooks ==
  ASSUME NEW c, NEW r, Goes(c, r)
  PROVE  LookedForFirst
BY DEF Goes, LookedForFirst

LEMMA FailsLooks ==
  ASSUME NEW c, NEW r, NEW error, Fails(c, r, error)
  PROVE  LookedForFirst
BY GoesLooks DEF Fails

LEMMA FetchLooks ==
  ASSUME NEW c, NEW r, NEW ask, Fetch(c, r, ask)
  PROVE  LookedForFirst
BY AwaitEntryLooks DEF Fetch

LEMMA PutLooks ==
  ASSUME NEW c, NEW r, NEW holder, Put(c, r, holder)
  PROVE  LookedForFirst
BY AwaitEntryLooks DEF Put

LEMMA RunItemsLooks ==
  ASSUME NEW c, NEW r, NEW items, NEW at, RunItems(c, r, items, at)
  PROVE  LookedForFirst
BY GoesLooks, FailsLooks, FetchLooks DEF RunItems

LEMMA StartItemsLooks ==
  ASSUME NEW c, NEW r, NEW steps, StartItems(c, r, steps)
  PROVE  LookedForFirst
BY RunItemsLooks DEF StartItems

LEMMA RunEffectiveKeysLooks ==
  ASSUME NEW c, NEW r, NEW fqns, RunEffectiveKeys(c, r, fqns)
  PROVE  LookedForFirst
BY PutLooks, FailsLooks, StartItemsLooks DEF RunEffectiveKeys

LEMMA CheckValuesLooks ==
  ASSUME NEW c, NEW r, NEW fqns, CheckValues(c, r, fqns)
  PROVE  LookedForFirst
BY RunEffectiveKeysLooks, FailsLooks DEF CheckValues

LEMMA AutoconfigureLooks ==
  ASSUME NEW c, NEW r, Autoconfigure(c, r)
  PROVE  LookedForFirst
BY CheckValuesLooks, FailsLooks, GoesLooks DEF Autoconfigure

LEMMA PrepareLooks ==
  ASSUME NEW c, NEW r, Prepare(c, r)
  PROVE  LookedForFirst
BY StartItemsLooks, AutoconfigureLooks DEF Prepare

LEMMA RunOwnKeysLooks ==
  ASSUME NEW c, NEW r, RunOwnKeys(c, r)
  PROVE  LookedForFirst
BY PutLooks, PrepareLooks DEF RunOwnKeys

LEMMA CallStepLooks ==
  ASSUME NEW c, CallStep(c)
  PROVE  LookedForFirst
<1>1. CASE Start(c)
  BY <1>1, RunOwnKeysLooks DEF Start
<1>2. CASE Hydrated(c)
  BY <1>2, CheckValuesLooks DEF Hydrated
<1>3. CASE HydrationFails(c)
  BY <1>3, FailsLooks DEF HydrationFails
<1>4. CASE KeyArrives(c)
  <2>1. CASE call[c].stage = "own"
    BY <1>4, <2>1, RunOwnKeysLooks DEF KeyArrives
  <2>2. CASE call[c].stage = "effective"
    BY <1>4, <2>2, RunEffectiveKeysLooks DEF KeyArrives
  <2>3. CASE call[c].stage = "items"
    BY <1>4, <2>3, RunItemsLooks DEF KeyArrives
  <2> QED BY <1>4, <2>1, <2>2, <2>3 DEF KeyArrives, WaitsForKey
<1>5. CASE KeyRefused(c)
  BY <1>5, FailsLooks DEF KeyRefused
<1> QED BY <1>1, <1>2, <1>3, <1>4, <1>5 DEF CallStep

(* An entry that was not found goes to the end: none before it matches.      *)
LEMMA AppendKeepsInv ==
  ASSUME CacheInv, NEW ask, NEW promise, Found(ask) = {},
         cache' = Append(cache, NewEntry(ask, promise))
  PROVE  CacheInv'
<1> DEFINE x == NewEntry(ask, promise)
<1>1. /\ IsSequence(cache')
      /\ DOMAIN cache' = 1 .. Len(cache) + 1
      /\ DOMAIN cache = 1 .. Len(cache)
      /\ Len(cache) \in Nat
      /\ \A e \in 1 .. Len(cache) : cache'[e] = cache[e]
      /\ cache'[Len(cache) + 1] = x
  BY AppendOwn DEF CacheInv
<1>2. IsEntry(x)
  BY DEF IsEntry, NewEntry
<1>3. \A e \in DOMAIN cache' : IsEntry(cache'[e])
  <2> HIDE DEF x
  <2> QED BY <1>1, <1>2, SMT DEF CacheInv
<1>4. \A e \in DOMAIN cache : ~Matches(cache[e], x)
  BY DEF Found, Matches, NewEntry
<1>5. KeysFetchedOnce'
  <2> HIDE DEF x
  <2> SUFFICES ASSUME NEW e \in DOMAIN cache', NEW f \in DOMAIN cache', e < f
               PROVE  ~Matches(cache'[e], cache'[f])
    BY DEF KeysFetchedOnce, Matches
  <2>1. CASE f = Len(cache) + 1
    <3>1. e \in DOMAIN cache /\ cache'[e] = cache[e] /\ cache'[f] = x
      BY <1>1, <2>1, SMT
    <3> QED BY <1>4, <3>1
  <2>2. CASE f # Len(cache) + 1
    <3>1. e \in DOMAIN cache /\ f \in DOMAIN cache
      BY <1>1, <2>2, SMT
    <3>2. cache'[e] = cache[e] /\ cache'[f] = cache[f]
      BY <1>1, <3>1
    <3> QED BY <3>1, <3>2 DEF CacheInv, KeysFetchedOnce
  <2> QED BY <2>1, <2>2
<1> QED BY <1>1, <1>3, <1>5 DEF CacheInv

(* A promise settles: what its entry is looked up by stays.                  *)
LEMMA SettleKeepsInv ==
  ASSUME CacheInv, NEW e \in DOMAIN cache, NEW state, NEW key,
         cache' = [cache EXCEPT ![e] = [kas |-> cache[e].kas, alg |-> cache[e].alg,
                                        kid |-> cache[e].kid, state |-> state, key |-> key]]
  PROVE  CacheInv'
<1> DEFINE x == [kas |-> cache[e].kas, alg |-> cache[e].alg,
                 kid |-> cache[e].kid, state |-> state, key |-> key]
<1>1. IsSequence(cache) /\ DOMAIN cache = 1 .. Len(cache) /\ Len(cache) \in Nat
  BY PlacesOf DEF CacheInv
<1>2. /\ DOMAIN cache' = DOMAIN cache
      /\ cache'[e] = x
      /\ \A f \in DOMAIN cache \ {e} : cache'[f] = cache[f]
  <2> HIDE DEF x
  <2> QED BY <1>1, Zenon DEF x
<1>3. IsEntry(x)
  BY DEF IsEntry
<1>4. /\ x.kas = cache[e].kas
      /\ x.alg = cache[e].alg
      /\ x.kid = cache[e].kid
  OBVIOUS
<1>5. \A f \in DOMAIN cache : /\ IsEntry(cache'[f])
                              /\ cache'[f].kas = cache[f].kas
                              /\ cache'[f].alg = cache[f].alg
                              /\ cache'[f].kid = cache[f].kid
  <2> HIDE DEF x
  <2> QED BY <1>2, <1>3, <1>4 DEF CacheInv
<1>6. IsSequence(cache')
  <2> HIDE DEF x
  <2>1. cache' = [i \in 1 .. Len(cache) |-> cache'[i]]
    BY <1>1, Zenon
  <2> QED BY <1>1, <2>1, Listed
<1>7. KeysFetchedOnce'
  BY <1>2, <1>5 DEF CacheInv, KeysFetchedOnce, Matches
<1> QED BY <1>2, <1>5, <1>6, <1>7 DEF CacheInv

(* A settled entry is the old one with another state and key.                *)
LEMMA FetchedSettles ==
  ASSUME CacheInv, NEW e \in DOMAIN cache, Fetched(e) \/ FetchFails(e)
  PROVE  CacheInv'
<1>1. PICK kas, alg, kid, s, k :
        cache[e] = [kas |-> kas, alg |-> alg, kid |-> kid, state |-> s, key |-> k]
  BY Zenon DEF CacheInv, IsEntry
<1>2. CASE Fetched(e)
  <2>1. PICK key : cache' = [cache EXCEPT ![e].state = "resolved", ![e].key = key]
    BY <1>2 DEF Fetched
  <2>2. [[cache[e] EXCEPT !.state = "resolved"] EXCEPT !.key = key]
          = [kas |-> cache[e].kas, alg |-> cache[e].alg, kid |-> cache[e].kid,
             state |-> "resolved", key |-> key]
    <3> DEFINE settled == [cache[e] EXCEPT !.state = "resolved"]
    <3>1. settled = [kas |-> kas, alg |-> alg, kid |-> kid, state |-> "resolved", key |-> k]
      BY <1>1, SMT
    <3> HIDE DEF settled
    <3>2. [settled EXCEPT !.key = key]
            = [kas |-> kas, alg |-> alg, kid |-> kid, state |-> "resolved", key |-> key]
      BY <3>1, SMT
    <3>3. cache[e].kas = kas /\ cache[e].alg = alg /\ cache[e].kid = kid
      BY <1>1
    <3> QED BY <3>2, <3>3, Zenon DEF settled
  <2>3. cache' = [cache EXCEPT ![e] = [[cache[e] EXCEPT !.state = "resolved"] EXCEPT !.key = key]]
    BY <2>1, Zenon
  <2> QED BY <2>2, <2>3, SettleKeepsInv
<1>3. CASE FetchFails(e)
  <2>1. [cache[e] EXCEPT !.state = "rejected"]
          = [kas |-> cache[e].kas, alg |-> cache[e].alg, kid |-> cache[e].kid,
             state |-> "rejected", key |-> cache[e].key]
    BY <1>1, SMT
  <2>2. cache' = [cache EXCEPT ![e] = [cache[e] EXCEPT !.state = "rejected"]]
    BY <1>3 DEF FetchFails
  <2> QED BY <2>1, <2>2, SettleKeepsInv
<1> QED BY <1>2, <1>3

(* The cache is empty at first.                                              *)
LEMMA InitCache == Init => CacheInv
BY SMT DEF Init, CacheInv, IsSequence, KeysFetchedOnce

LEMMA StepCache == CacheInv /\ [Next]_vars => CacheInv'
<1> SUFFICES ASSUME CacheInv, [Next]_vars PROVE CacheInv'
  OBVIOUS
<1>1. ASSUME cache' = cache PROVE CacheInv'
  BY <1>1 DEF CacheInv, IsSequence, KeysFetchedOnce, Matches
<1>2. CASE \E c \in Calls : CallStep(c)
  <2>1. LookedForFirst
    BY <1>2, CallStepLooks
  <2> QED BY <2>1, <1>1, AppendKeepsInv DEF LookedForFirst
<1>3. CASE Network
  BY <1>3, FetchedSettles DEF Network
<1>4. CASE UNCHANGED vars
  BY <1>4, <1>1 DEF vars
<1> QED BY <1>2, <1>3, <1>4 DEF Next

(* However many calls need a key of a KAS, the client asks for it once:      *)
(* every lookup that follows finds the promise of the first, whether it has  *)
(* settled or not.                                                           *)
THEOREM KeysAreFetchedOnce == Spec => []KeysFetchedOnce
<1>1. Spec => []CacheInv
  BY InitCache, StepCache, PTL DEF Spec
<1>2. CacheInv => KeysFetchedOnce
  BY DEF CacheInv
<1> QED BY <1>1, <1>2, PTL

-----------------------------------------------------------------------------
(* What a handler makes of a call, innermost first.                          *)
Fields == {"stage", "at", "entry", "policy", "fqns", "missing", "fetched", "planned",
           "items", "keyAccess", "error"}
IsCall(r) == DOMAIN r = Fields

Turns(c, q) == IsCall(q) /\ call' = [call EXCEPT ![c] = q]
KeepsLists(q, r) == q.fqns = r.fqns /\ q.missing = r.missing /\ q.fetched = r.fetched
GoesOn(q, r) ==
  \/ q.stage \in {"effective", "items", "done"} /\ q.error = r.error
  \/ q.stage = "failed" /\ q.error \in {"attribute", "keyType"}
Mismatches(q, r, fqns) ==
  q.stage = "failed" /\ q.error = "mismatch" /\ ~Complete(r, fqns)

LEMMA AwaitEntryTurns ==
  ASSUME NEW c, NEW r, IsCall(r), NEW ask, NEW promise, AwaitEntry(c, r, ask, promise)
  PROVE  \E q : /\ Turns(c, q) /\ KeepsLists(q, r)
                /\ q.stage = r.stage /\ q.error = r.error /\ q.planned = r.planned
<1>1. PICK q : q = [r EXCEPT !.entry = Place(ask)]
  OBVIOUS
<1>2. Turns(c, q)
  BY <1>1 DEF AwaitEntry, IsCall, Turns
<1>3. /\ KeepsLists(q, r)
      /\ q.stage = r.stage /\ q.error = r.error /\ q.planned = r.planned
  BY <1>1 DEF IsCall, Fields, KeepsLists
<1> QED
  BY <1>2, <1>3

LEMMA FailsTurns ==
  ASSUME NEW c, NEW r, IsCall(r), NEW error, Fails(c, r, error)
  PROVE  \E q : /\ Turns(c, q) /\ KeepsLists(q, r)
                /\ q.stage = "failed" /\ q.error = error /\ q.planned = r.planned
<1>1. PICK q : q = [r EXCEPT !.stage = "failed", !.error = error]
  OBVIOUS
<1>2. Turns(c, q)
  BY <1>1 DEF Fails, Goes, IsCall, Turns
<1>3. /\ KeepsLists(q, r)
      /\ q.stage = "failed" /\ q.error = error /\ q.planned = r.planned
  BY <1>1 DEF IsCall, Fields, KeepsLists
<1> QED
  BY <1>2, <1>3

LEMMA PutTurns ==
  ASSUME NEW c, NEW r, IsCall(r), NEW holder, Put(c, r, holder)
  PROVE  \E q : /\ Turns(c, q) /\ KeepsLists(q, r)
                /\ q.stage = r.stage /\ q.error = r.error /\ q.planned = r.planned
BY AwaitEntryTurns DEF Put

LEMMA RunItemsTurns ==
  ASSUME NEW c, NEW r, IsCall(r), NEW items, NEW at, RunItems(c, r, items, at)
  PROVE  \E q : Turns(c, q) /\ KeepsLists(q, r) /\ GoesOn(q, r) /\ q.planned = r.planned
<1>1. PICK lookup : lookup = NextLookup(items, at)
  OBVIOUS
<1>2. CASE lookup = 0
  <2>1. PICK objects : objects = r.keyAccess \o Enclosed(items, at, Len(items) + 1)
    OBVIOUS
  <2>2. PICK q : q = [r EXCEPT !.stage = "done", !.items = items, !.keyAccess = objects]
    OBVIOUS
  <2>3. Goes(c, q)
    BY <1>1, <1>2, <2>1, <2>2 DEF RunItems
  <2>4. /\ IsCall(q) /\ KeepsLists(q, r) /\ q.stage = "done"
        /\ q.error = r.error /\ q.planned = r.planned
    BY <2>2 DEF IsCall, Fields, KeepsLists
  <2> QED
    BY <2>3, <2>4 DEF Goes, Turns, GoesOn
<1>3. CASE lookup # 0 /\ IsUnknown(items[lookup])
  <2>1. Fails(c, r, "keyType")
    BY <1>1, <1>3 DEF RunItems
  <2> QED
    BY <2>1, FailsTurns DEF GoesOn
<1>4. CASE lookup # 0 /\ ~IsUnknown(items[lookup])
  <2>1. PICK objects : objects = r.keyAccess \o Enclosed(items, at, lookup)
    OBVIOUS
  <2>2. PICK s : s = [r EXCEPT !.stage = "items", !.items = items, !.at = lookup,
                               !.keyAccess = objects]
    OBVIOUS
  <2>3. Fetch(c, s, items[lookup].ask)
    BY <1>1, <1>4, <2>1, <2>2 DEF RunItems
  <2>4. /\ IsCall(s) /\ KeepsLists(s, r) /\ s.stage = "items"
        /\ s.error = r.error /\ s.planned = r.planned
    BY <2>2 DEF IsCall, Fields, KeepsLists
  <2> QED
    BY <2>3, <2>4, AwaitEntryTurns DEF Fetch, KeepsLists, GoesOn
<1> QED
  BY <1>2, <1>3, <1>4

LEMMA StartItemsTurns ==
  ASSUME NEW c, NEW r, IsCall(r), NEW steps, StartItems(c, r, steps)
  PROVE  \E q : Turns(c, q) /\ KeepsLists(q, r) /\ GoesOn(q, r) /\ q.planned = r.planned
BY RunItemsTurns DEF StartItems

LEMMA RunEffectiveKeysTurns ==
  ASSUME NEW c, NEW r, IsCall(r), NEW fqns, RunEffectiveKeys(c, r, fqns)
  PROVE  \E q : /\ Turns(c, q) /\ KeepsLists(q, r) /\ GoesOn(q, r)
                /\ q.planned \in {r.planned, fqns}
<1>1. PICK values, keys : values = ValuesOf(fqns) /\ keys = EffectiveKeys(values)
  OBVIOUS
<1>2. CASE r.at <= Len(keys)
  <2>1. PICK s : s = [r EXCEPT !.stage = "effective"]
    OBVIOUS
  <2>2. Put(c, s, keys[r.at])
    BY <1>1, <1>2, <2>1 DEF RunEffectiveKeys
  <2>3. /\ IsCall(s) /\ KeepsLists(s, r) /\ s.stage = "effective"
        /\ s.error = r.error /\ s.planned = r.planned
    BY <2>1 DEF IsCall, Fields, KeepsLists
  <2> QED
    BY <2>2, <2>3, PutTurns DEF KeepsLists, GoesOn
<1>3. CASE ~(r.at <= Len(keys)) /\ \E value \in ToSet(values) : HasNoAttribute(value)
  <2>1. Fails(c, r, "attribute")
    BY <1>1, <1>3, Zenon DEF RunEffectiveKeys
  <2> QED
    BY <2>1, FailsTurns DEF GoesOn
<1>4. CASE ~(r.at <= Len(keys)) /\ ~\E value \in ToSet(values) : HasNoAttribute(value)
  <2>1. PICK s : s = [r EXCEPT !.planned = fqns]
    OBVIOUS
  <2>2. PICK steps : StartItems(c, s, steps)
    BY <1>1, <1>4, <2>1, Zenon DEF RunEffectiveKeys
  <2>3. /\ IsCall(s) /\ KeepsLists(s, r) /\ s.error = r.error /\ s.planned = fqns
    BY <2>1 DEF IsCall, Fields, KeepsLists
  <2> QED
    BY <2>2, <2>3, StartItemsTurns DEF KeepsLists, GoesOn
<1> QED
  BY <1>2, <1>3, <1>4

LEMMA CheckValuesTurns ==
  ASSUME NEW c, NEW r, IsCall(r), NEW fqns, CheckValues(c, r, fqns)
  PROVE  \E q : /\ Turns(c, q) /\ KeepsLists(q, r)
                /\ GoesOn(q, r) \/ Mismatches(q, r, fqns)
                /\ q.planned \in {r.planned, fqns}
<1>1. CASE Complete(r, fqns)
  <2>1. PICK s : s = [r EXCEPT !.at = 1]
    OBVIOUS
  <2>2. RunEffectiveKeys(c, s, fqns)
    BY <1>1, <2>1 DEF CheckValues
  <2>3. IsCall(s) /\ KeepsLists(s, r) /\ s.error = r.error /\ s.planned = r.planned
    BY <2>1 DEF IsCall, Fields, KeepsLists
  <2> QED
    BY <2>2, <2>3, RunEffectiveKeysTurns DEF KeepsLists, GoesOn
<1>2. CASE ~Complete(r, fqns)
  BY <1>2, FailsTurns DEF CheckValues, Mismatches
<1> QED
  BY <1>1, <1>2

(* The attributes an application asks for, and what it has not got of them.  *)
AskedFqns(s) == IF s.attributes = Absent THEN Given(s.attributeValues) ELSE s.attributes

LEMMA AutoconfigureTurns ==
  ASSUME NEW c, NEW r, IsCall(r), Autoconfigure(c, r)
  PROVE  LET given == Given(ScopeOf(c).attributeValues)
             fqns == AskedFqns(ScopeOf(c))
         IN /\ scope' = [scope EXCEPT ![Request(c).scope].attributes = fqns]
            /\ \E q :
                 /\ Turns(c, q)
                 /\ q.fqns = fqns /\ q.missing = ToSet(fqns) \ ToSet(given)
                 /\ q.fetched = r.fetched /\ q.planned \in {r.planned, given}
                 /\ \/ GoesOn(q, r)
                    \/ Mismatches(q, q, given) /\ q.missing = {}
                    \/ q.stage = "failed" /\ q.error = "platformUrl"
                    \/ q.stage = "hydrating" /\ q.error = r.error
<1>1. PICK given : given = Given(ScopeOf(c).attributeValues)
  OBVIOUS
<1>2. PICK fqns : fqns = AskedFqns(ScopeOf(c))
  OBVIOUS
<1>3. PICK missing : missing = ToSet(fqns) \ ToSet(given)
  OBVIOUS
<1>4. PICK there : there = [r EXCEPT !.fqns = fqns, !.missing = missing]
  OBVIOUS
<1>5. /\ IsCall(there) /\ there.fqns = fqns /\ there.missing = missing
      /\ there.fetched = r.fetched /\ there.planned = r.planned /\ there.error = r.error
  BY <1>4 DEF IsCall, Fields
<1>6. /\ scope' = [scope EXCEPT ![Request(c).scope].attributes = fqns]
      /\ IF missing = {} THEN CheckValues(c, there, given)
         ELSE IF ~Request(c).hasPlatform THEN Fails(c, there, "platformUrl")
         ELSE Goes(c, [there EXCEPT !.stage = "hydrating"])
  BY <1>1, <1>2, <1>3, <1>4, Zenon DEF Autoconfigure, AskedFqns, FqnsWithoutValues
<1>7. CASE missing = {}
  <2>1. PICK q : /\ Turns(c, q) /\ KeepsLists(q, there)
                 /\ GoesOn(q, there) \/ Mismatches(q, there, given)
                 /\ q.planned \in {there.planned, given}
    BY <1>5, <1>6, <1>7, CheckValuesTurns
  <2>2. GoesOn(q, r) \/ Mismatches(q, q, given)
    BY <1>5, <2>1 DEF GoesOn, Mismatches, Complete, KeepsLists
  <2> QED
    BY <1>1, <1>2, <1>3, <1>5, <1>6, <1>7, <2>1, <2>2 DEF KeepsLists
<1>8. CASE missing # {} /\ ~Request(c).hasPlatform
  <2>1. PICK q : /\ Turns(c, q) /\ KeepsLists(q, there) /\ q.stage = "failed"
                 /\ q.error = "platformUrl" /\ q.planned = there.planned
    BY <1>5, <1>6, <1>8, FailsTurns
  <2> QED
    BY <1>1, <1>2, <1>3, <1>5, <1>6, <2>1 DEF KeepsLists
<1>9. CASE missing # {} /\ Request(c).hasPlatform
  <2>1. PICK q : q = [there EXCEPT !.stage = "hydrating"]
    OBVIOUS
  <2>2. /\ Turns(c, q) /\ KeepsLists(q, there) /\ q.stage = "hydrating"
        /\ q.error = there.error /\ q.planned = there.planned
    BY <1>5, <1>6, <1>9, <2>1 DEF Goes, IsCall, Fields, Turns, KeepsLists
  <2> QED
    BY <1>1, <1>2, <1>3, <1>5, <1>6, <2>2 DEF KeepsLists
<1> QED
  BY <1>7, <1>8, <1>9

(* A call has got on with the scope as it was: to its split plan, or to a    *)
(* key of the scope.                                                         *)
PutsOwn(q, r) == q.stage = "own" /\ q.error = r.error
Unscoped(c, q, r) ==
  scope' = scope /\ Turns(c, q) /\ KeepsLists(q, r) /\ q.planned = r.planned

LEMMA PrepareTurns ==
  ASSUME NEW c, NEW r, IsCall(r), Prepare(c, r)
  PROVE  \/ \E q : Unscoped(c, q, r) /\ GoesOn(q, r)
         \/ \E there : /\ IsCall(there) /\ there.fetched = r.fetched
                       /\ there.planned = r.planned /\ there.error = r.error
                       /\ Autoconfigure(c, there)
<1>1. PICK there : there = [r EXCEPT !.policy = asPolicy(ScopeOf(c))]
  OBVIOUS
<1>2. /\ IsCall(there) /\ KeepsLists(there, r)
      /\ there.planned = r.planned /\ there.error = r.error
  BY <1>1 DEF IsCall, Fields, KeepsLists
<1>3. CASE Request(c).splitPlan = Absent /\ Request(c).autoconfigure
  <2>1. Autoconfigure(c, there)
    BY <1>1, <1>3 DEF Prepare
  <2> QED
    BY <1>2, <2>1 DEF KeepsLists
<1>4. CASE ~(Request(c).splitPlan = Absent /\ Request(c).autoconfigure)
  <2>1. UNCHANGED scope /\ \E steps : StartItems(c, there, steps)
    BY <1>1, <1>4 DEF Prepare
  <2> QED
    BY <1>2, <2>1, StartItemsTurns DEF KeepsLists, Unscoped, GoesOn
<1> QED
  BY <1>3, <1>4

LEMMA RunOwnKeysTurns ==
  ASSUME NEW c, NEW r, IsCall(r), RunOwnKeys(c, r)
  PROVE  \/ \E q : Unscoped(c, q, r) /\ (PutsOwn(q, r) \/ GoesOn(q, r))
         \/ \E there : /\ IsCall(there) /\ there.fetched = r.fetched
                       /\ there.planned = r.planned /\ there.error = r.error
                       /\ Autoconfigure(c, there)
<1>1. CASE \E holder : Put(c, [r EXCEPT !.stage = "own"], holder) /\ UNCHANGED scope
  <2>1. PICK s : s = [r EXCEPT !.stage = "own"]
    OBVIOUS
  <2>2. /\ IsCall(s) /\ KeepsLists(s, r) /\ s.stage = "own"
        /\ s.error = r.error /\ s.planned = r.planned
    BY <2>1 DEF IsCall, Fields, KeepsLists
  <2>3. PICK holder : Put(c, s, holder) /\ UNCHANGED scope
    BY <1>1, <2>1
  <2>4. PICK q : /\ Turns(c, q) /\ KeepsLists(q, s)
                 /\ q.stage = s.stage /\ q.error = s.error /\ q.planned = s.planned
    BY <2>2, <2>3, PutTurns
  <2>5. Unscoped(c, q, r) /\ PutsOwn(q, r)
    BY <2>2, <2>3, <2>4 DEF KeepsLists, Unscoped, PutsOwn
  <2> QED
    BY <2>5
<1>2. CASE Prepare(c, r)
  BY <1>2, PrepareTurns
<1> QED
  BY <1>1, <1>2 DEF RunOwnKeys

-----------------------------------------------------------------------------
(* Scopes and plans list values that exist.                                  *)
Fqns == DOMAIN scenario.directory

IsScope(s) ==
  /\ DOMAIN s = {"attributes", "attributeValues"}
  /\ s.attributes = Absent \/ IsSequence(s.attributes)
  /\ s.attributeValues = Absent \/ s.attributeValues \in Seq(Fqns)

IsPlanned(r) ==
  IsCall(r) /\ r.fetched \in Seq(Fqns) /\ r.planned \in Seq(Fqns) /\ IsFiniteSet(r.missing)

PlanInv ==
  /\ scenario \in Scenarios
  /\ DOMAIN scope = DOMAIN scenario.scopes /\ \A i \in DOMAIN scope : IsScope(scope[i])
  /\ DOMAIN call = Calls /\ \A c \in Calls : IsPlanned(call[c])

(* The scope of a call, and the lists in it.                                 *)
LEMMA ScopesAre ==
  ASSUME PlanInv, NEW c \in Calls
  PROVE  /\ Request(c).scope \in DOMAIN scope
         /\ IsScope(ScopeOf(c))
         /\ Given(ScopeOf(c).attributeValues) \in Seq(Fqns)
         /\ IsSequence(AskedFqns(ScopeOf(c))) /\ IsFiniteSet(ToSet(AskedFqns(ScopeOf(c))))
<1>1. IsScenario(scenario)
  BY ScenarioAssumption DEF PlanInv
<1>2. Request(c).scope \in DOMAIN scope
  BY <1>1 DEF IsScenario, Calls, Request, PlanInv
<1>3. PICK s : s = ScopeOf(c)
  OBVIOUS
<1>4. IsScope(s)
  BY <1>2, <1>3 DEF PlanInv, ScopeOf
<1>5. PICK given : given = Given(s.attributeValues)
  OBVIOUS
<1>6. given \in Seq(Fqns)
  <2>1. CASE s.attributeValues = Absent
    BY <2>1, <1>5 DEF Given
  <2>2. CASE s.attributeValues # Absent
    BY <2>2, <1>4, <1>5 DEF Given, IsScope
  <2> QED
    BY <2>1, <2>2
<1>7. IsSequence(AskedFqns(s))
  BY <1>4, <1>5, <1>6, OwnElements DEF AskedFqns, IsScope
<1>8. IsFiniteSet(ToSet(AskedFqns(s)))
  BY <1>7, Counted
<1> QED
  BY <1>2, <1>3, <1>4, <1>5, <1>6, <1>7, <1>8

(* A call takes a turn and may write to its scope.                           *)
LEMMA TurnKeepsPlans ==
  ASSUME PlanInv, NEW c \in Calls, UNCHANGED scenario, NEW q, Turns(c, q), IsPlanned(q),
         NEW s, IsScope(s), scope' = scope \/ scope' = [scope EXCEPT ![Request(c).scope] = s]
  PROVE  PlanInv'
<1>1. \A i \in DOMAIN scope' : IsScope(scope'[i])
  BY DEF PlanInv
<1>2. DOMAIN scope' = DOMAIN scope /\ DOMAIN call' = DOMAIN call
  BY DEF Turns
<1>3. \A d \in Calls : IsPlanned(call'[d])
  BY DEF PlanInv, Turns
<1> QED
  BY <1>1, <1>2, <1>3 DEF PlanInv, IsScope, IsPlanned, Fqns, Calls

LEMMA UnscopedKeepsPlans ==
  ASSUME PlanInv, NEW c \in Calls, UNCHANGED scenario, NEW r, IsPlanned(r),
         NEW q, Unscoped(c, q, r)
  PROVE  PlanInv'
<1>1. IsScope(ScopeOf(c))
  BY ScopesAre
<1>2. IsPlanned(q) /\ Turns(c, q) /\ scope' = scope
  BY DEF IsPlanned, Unscoped, Turns, KeepsLists
<1> QED
  BY <1>1, <1>2, TurnKeepsPlans

LEMMA AutoconfigureKeepsPlans ==
  ASSUME PlanInv, NEW c \in Calls, UNCHANGED scenario, NEW r, IsCall(r),
         r.fetched \in Seq(Fqns), r.planned \in Seq(Fqns), Autoconfigure(c, r)
  PROVE  PlanInv'
<1>1. PICK s : s = ScopeOf(c)
  OBVIOUS
<1>2. PICK given : given = Given(s.attributeValues)
  OBVIOUS
<1>3. PICK fqns : fqns = AskedFqns(s)
  OBVIOUS
<1>4. /\ Request(c).scope \in DOMAIN scope /\ IsScope(s)
      /\ given \in Seq(Fqns) /\ IsSequence(fqns) /\ IsFiniteSet(ToSet(fqns))
  BY <1>1, <1>2, <1>3, ScopesAre
<1>5. /\ scope' = [scope EXCEPT ![Request(c).scope].attributes = fqns]
      /\ \E q : /\ Turns(c, q) /\ q.missing = ToSet(fqns) \ ToSet(given)
                /\ q.fetched = r.fetched /\ q.planned \in {r.planned, given}
  BY <1>1, <1>2, <1>3, AutoconfigureTurns
<1>6. PICK q : /\ Turns(c, q) /\ q.missing = ToSet(fqns) \ ToSet(given)
               /\ q.fetched = r.fetched /\ q.planned \in {r.planned, given}
  BY <1>5
<1>7. IsFiniteSet(q.missing)
  BY <1>4, <1>6, FS_Subset
<1>8. IsPlanned(q)
  BY <1>4, <1>6, <1>7 DEF IsPlanned, Turns
<1>9. PICK t : t = [s EXCEPT !.attributes = fqns]
  OBVIOUS
<1>10. IsScope(t)
  BY <1>4, <1>9 DEF IsScope
<1>11. scope' = [scope EXCEPT ![Request(c).scope] = t]
  BY <1>1, <1>5, <1>9, Zenon DEF ScopeOf
<1> QED
  BY <1>6, <1>8, <1>10, <1>11, TurnKeepsPlans

LEMMA OwnKeysKeepPlans ==
  ASSUME PlanInv, NEW c \in Calls, UNCHANGED scenario, NEW r, IsPlanned(r), RunOwnKeys(c, r)
  PROVE  PlanInv'
<1>1. CASE \E q : Unscoped(c, q, r)
  BY <1>1, UnscopedKeepsPlans
<1>2. CASE \E there : /\ IsCall(there) /\ there.fetched = r.fetched
                      /\ there.planned = r.planned /\ Autoconfigure(c, there)
  BY <1>2, AutoconfigureKeepsPlans DEF IsPlanned
<1> QED
  BY <1>1, <1>2, RunOwnKeysTurns DEF IsPlanned

(* The values that are there after hydration.                                *)
LEMMA GotValues ==
  ASSUME PlanInv, NEW c \in Calls
  PROVE  SetToSeq(call[c].missing \cap scenario.known) \in Seq(Fqns)
<1>1. IsFiniteSet(call[c].missing) /\ scenario.known \subseteq Fqns
  BY ScenarioAssumption DEF PlanInv, IsPlanned, IsScenario, Fqns
<1>2. PICK T : T = call[c].missing \cap scenario.known
  OBVIOUS
<1>3. IsFiniteSet(T) /\ T \subseteq Fqns
  BY <1>1, <1>2, FS_Subset
<1> QED
  BY <1>2, <1>3, EnumeratedOnce, WiderElements

LEMMA HydratedKeepsPlans ==
  ASSUME PlanInv, NEW c \in Calls, Hydrated(c)
  PROVE  PlanInv'
<1>1. PICK s : s = ScopeOf(c)
  OBVIOUS
<1>2. PICK got : got = SetToSeq(call[c].missing \cap scenario.known)
  OBVIOUS
<1>3. PICK given : given = Given(s.attributeValues)
  OBVIOUS
<1>4. PICK fqns : fqns = given \o got
  OBVIOUS
<1>5. IsScope(s) /\ given \in Seq(Fqns) /\ got \in Seq(Fqns) /\ Request(c).scope \in DOMAIN scope
  BY <1>1, <1>2, <1>3, ScopesAre, GotValues
<1>6. fqns \in Seq(Fqns)
  BY <1>4, <1>5, ConcatFacts
<1>7. /\ scope' = IF s.attributeValues = Absent THEN scope
                  ELSE [scope EXCEPT ![Request(c).scope].attributeValues = fqns]
      /\ CheckValues(c, [call[c] EXCEPT !.fetched = got], fqns)
      /\ UNCHANGED scenario
  BY <1>1, <1>2, <1>3, <1>4, Zenon DEF Hydrated
<1>8. PICK r : r = [call[c] EXCEPT !.fetched = got]
  OBVIOUS
<1>9. IsPlanned(r)
  <2>1. IsPlanned(call[c])
    BY DEF PlanInv
  <2> QED
    BY <2>1, <1>5, <1>8 DEF IsPlanned, IsCall, Fields
<1>10. PICK q : Turns(c, q) /\ KeepsLists(q, r) /\ q.planned \in {r.planned, fqns}
  BY <1>7, <1>8, <1>9, CheckValuesTurns DEF IsPlanned
<1>11. IsPlanned(q)
  BY <1>6, <1>9, <1>10 DEF IsPlanned, Turns, KeepsLists
<1>12. PICK t : t = [s EXCEPT !.attributeValues = fqns]
  OBVIOUS
<1>13. IsScope(t)
  BY <1>5, <1>6, <1>12 DEF IsScope
<1>14. scope' = scope \/ scope' = [scope EXCEPT ![Request(c).scope] = t]
  BY <1>1, <1>7, <1>12, Zenon DEF ScopeOf
<1> QED
  BY <1>7, <1>10, <1>11, <1>13, <1>14, TurnKeepsPlans

LEMMA KeyArrivesKeepsPlans ==
  ASSUME PlanInv, NEW c \in Calls, KeyArrives(c)
  PROVE  PlanInv'
<1>1. PICK r : r = [call[c] EXCEPT !.at = @ + 1]
  OBVIOUS
<1>2. IsPlanned(call[c]) /\ UNCHANGED scenario
  BY DEF PlanInv, KeyArrives
<1>3. IsPlanned(r)
  BY <1>1, <1>2 DEF IsPlanned, IsCall, Fields
<1>4. CASE call[c].stage = "own"
  <2>1. RunOwnKeys(c, r)
    BY <1>1, <1>4 DEF KeyArrives
  <2> QED
    BY <1>2, <1>3, <2>1, OwnKeysKeepPlans
<1>5. CASE call[c].stage = "effective"
  <2>1. PICK fqns : fqns = ValuesNow(c)
    OBVIOUS
  <2>2. RunEffectiveKeys(c, r, fqns) /\ scope' = scope
    BY <1>1, <1>5, <2>1 DEF KeyArrives
  <2>3. fqns \in Seq(Fqns)
    BY <1>2, <2>1, ScopesAre DEF ValuesNow, IsScope, IsPlanned
  <2>4. PICK q : Turns(c, q) /\ KeepsLists(q, r) /\ q.planned \in {r.planned, fqns}
    BY <1>3, <2>2, RunEffectiveKeysTurns DEF IsPlanned
  <2>5. IsPlanned(q) /\ IsScope(ScopeOf(c))
    BY <1>3, <2>3, <2>4, ScopesAre DEF IsPlanned, Turns, KeepsLists
  <2> QED
    BY <1>2, <2>2, <2>4, <2>5, TurnKeepsPlans
<1>6. CASE call[c].stage = "items"
  <2>1. PICK object : RunItems(c, [r EXCEPT !.keyAccess = Append(@, object)], r.items, r.at)
                      /\ scope' = scope
    BY <1>1, <1>6 DEF KeyArrives
  <2>2. PICK s : s = [r EXCEPT !.keyAccess = Append(@, object)]
    OBVIOUS
  <2>3. IsPlanned(s)
    BY <1>3, <2>2 DEF IsPlanned, IsCall, Fields
  <2>4. PICK q : Turns(c, q) /\ KeepsLists(q, s) /\ q.planned = s.planned
    BY <2>1, <2>2, <2>3, RunItemsTurns DEF IsPlanned
  <2>5. Unscoped(c, q, s)
    BY <2>1, <2>4 DEF Unscoped
  <2> QED
    BY <1>2, <2>3, <2>5, UnscopedKeepsPlans
<1> QED
  BY <1>4, <1>5, <1>6 DEF KeyArrives, WaitsForKey

LEMMA FailsKeepsPlans ==
  ASSUME PlanInv, NEW c \in Calls, UNCHANGED <<scenario, scope>>,
         NEW error, Fails(c, call[c], error)
  PROVE  PlanInv'
<1>1. IsPlanned(call[c])
  BY DEF PlanInv
<1>2. PICK q : Turns(c, q) /\ KeepsLists(q, call[c]) /\ q.planned = call[c].planned
  BY <1>1, FailsTurns DEF IsPlanned
<1>3. IsPlanned(q) /\ IsScope(ScopeOf(c))
  BY <1>1, <1>2, ScopesAre DEF IsPlanned, KeepsLists, Turns
<1> QED
  BY <1>2, <1>3, TurnKeepsPlans

LEMMA InitPlans == Init => PlanInv
<1> SUFFICES ASSUME Init PROVE PlanInv
  OBVIOUS
<1>1. scenario \in Scenarios /\ IsScenario(scenario) /\ scope = scenario.scopes
  BY ScenarioAssumption DEF Init
<1>2. \A i \in DOMAIN scope : IsScope(scope[i])
  BY <1>1 DEF IsScenario, IsScope, Fqns
<1>3. /\ DOMAIN call = Calls
      /\ \A c \in Calls : /\ IsCall(call[c]) /\ call[c].fetched = <<>>
                          /\ call[c].planned = <<>> /\ call[c].missing = {}
  BY DEF Init, IsCall, Fields
<1>4. <<>> \in Seq(Fqns) /\ IsFiniteSet({})
  BY FS_EmptySet
<1> QED
  BY <1>1, <1>2, <1>3, <1>4 DEF PlanInv, IsPlanned

LEMMA StepPlans == PlanInv /\ [Next]_vars => PlanInv'
<1> SUFFICES ASSUME PlanInv, [Next]_vars PROVE PlanInv'
  OBVIOUS
<1>1. ASSUME UNCHANGED <<scenario, scope, call>> PROVE PlanInv'
  BY <1>1 DEF PlanInv, IsScope, IsPlanned, Fqns, Calls
<1>2. ASSUME NEW c \in Calls, Start(c) PROVE PlanInv'
  <2>1. PICK r : r = [call[c] EXCEPT !.at = 1]
    OBVIOUS
  <2>2. IsPlanned(call[c])
    BY DEF PlanInv
  <2>3. IsPlanned(r)
    BY <2>1, <2>2 DEF IsPlanned, IsCall, Fields
  <2>4. RunOwnKeys(c, r) /\ UNCHANGED scenario
    BY <1>2, <2>1 DEF Start
  <2> QED
    BY <2>3, <2>4, OwnKeysKeepPlans
<1>3. ASSUME NEW c \in Calls, HydrationFails(c) \/ KeyRefused(c) PROVE PlanInv'
  BY <1>3, FailsKeepsPlans DEF HydrationFails, KeyRefused
<1>4. CASE \E c \in Calls : CallStep(c)
  BY <1>2, <1>3, <1>4, HydratedKeepsPlans, KeyArrivesKeepsPlans DEF CallStep
<1>5. CASE Network
  BY <1>1, <1>5 DEF Network, Fetched, FetchFails
<1>6. CASE UNCHANGED vars
  BY <1>1, <1>6 DEF vars
<1> QED
  BY <1>4, <1>5, <1>6 DEF Next

(* The key splits of an autoconfigured file say what its attributes ask for: *)
(* whatever the attributes and their granters are, and whatever has happened *)
(* to the scope while the keys were fetched, the KASes that can open every   *)
(* split are those that satisfy the rule of every attribute.                 *)
THEOREM PlansImplementPolicies == Spec => []PlanImplementsPolicy
<1>1. Spec => []PlanInv
  BY InitPlans, StepPlans, PTL DEF Spec
<1>2. PlanInv => PlanImplementsPolicy
  <2> SUFFICES ASSUME PlanInv, NEW c \in Calls, NEW kases
      PROVE  LET values == ValuesOf(call[c].planned)
             IN Satisfies(kases, values) <=> Opens(kases, plan(values))
    BY DEF PlanImplementsPolicy
  <2>1. PICK policy : policy = {scenario.directory[fqn] : fqn \in Fqns}
    OBVIOUS
  <2>2. PICK fqns : fqns = call[c].planned
    OBVIOUS
  <2>3. IsPolicy(policy)
    BY <2>1, ScenarioAssumption DEF PlanInv, IsScenario, Fqns
  <2>4. fqns \in Seq(Fqns)
    BY <2>2 DEF PlanInv, IsPlanned
  <2>5. ValuesOf(fqns) \in Seq(policy)
    BY <2>1, <2>4 DEF ValuesOf, Value
  <2> QED
    BY <2>2, <2>3, <2>5, PlanOpens
<1> QED
  BY <1>1, <1>2, PTL

-----------------------------------------------------------------------------
(* A call that is alone on its scope finds it as it was asked for.           *)
Asked(c) == scenario.scopes[Request(c).scope]
Alone(c) == ~(\E d \in Calls \ {c} : Request(d).scope = Request(c).scope)

Explains(c, r) ==
  \/ ~ r.missing \subseteq scenario.known
  \/ ~ ToSet(Given(Asked(c).attributeValues)) \subseteq ToSet(r.fqns)
  \/ ~ IsInjective(r.fqns)
  \/ ~ IsInjective(Given(Asked(c).attributeValues))
  \/ ~ Alone(c)

IsFaithful(c, r, s) ==
  /\ r.error = "mismatch" => r.stage = "failed" /\ Explains(c, r)
  /\ Alone(c) /\ r.stage \in {"new", "own"} => s = Asked(c)
  /\ Alone(c) /\ r.stage = "hydrating" =>
       /\ s.attributeValues = Asked(c).attributeValues
       /\ r.fqns = AskedFqns(Asked(c))
       /\ r.missing = ToSet(r.fqns) \ ToSet(Given(Asked(c).attributeValues))

MismatchInv == PlanInv /\ \A c \in Calls : IsFaithful(c, call[c], ScopeOf(c))

(* What the application has asked for is well-formed as well.                *)
LEMMA AskedAre ==
  ASSUME PlanInv, NEW c \in Calls
  PROVE  /\ Given(Asked(c).attributeValues) \in Seq(Fqns)
         /\ IsSequence(AskedFqns(Asked(c)))
<1>1. IsScenario(scenario)
  BY ScenarioAssumption DEF PlanInv
<1>2. PICK s : s = Asked(c)
  OBVIOUS
<1>3. IsScope(s)
  BY <1>1, <1>2 DEF IsScenario, IsScope, Calls, Request, Asked, Fqns
<1>4. PICK given : given = Given(s.attributeValues)
  OBVIOUS
<1>5. given \in Seq(Fqns)
  <2>1. CASE s.attributeValues = Absent
    BY <2>1, <1>4 DEF Given
  <2>2. CASE s.attributeValues # Absent
    BY <2>2, <1>3, <1>4 DEF Given, IsScope
  <2> QED
    BY <2>1, <2>2
<1>6. IsSequence(AskedFqns(s))
  BY <1>3, <1>4, <1>5, OwnElements DEF AskedFqns, IsScope
<1> QED
  BY <1>2, <1>4, <1>5, <1>6

(* Nothing is missing, and yet the lists differ.                             *)
LEMMA AtOnceExplained ==
  ASSUME PlanInv, NEW c \in Calls, NEW q, NEW given, q.missing = {},
         ~Complete(q, given),
         Alone(c) => /\ given = Given(Asked(c).attributeValues)
                     /\ q.fqns = AskedFqns(Asked(c))
                     /\ q.missing = ToSet(q.fqns) \ ToSet(given)
  PROVE  Explains(c, q)
<1> SUFFICES ASSUME ~Explains(c, q) PROVE FALSE
  OBVIOUS
<1>1. /\ given = Given(Asked(c).attributeValues) /\ q.fqns = AskedFqns(Asked(c))
      /\ q.missing = ToSet(q.fqns) \ ToSet(given)
      /\ ToSet(given) \subseteq ToSet(q.fqns) /\ IsInjective(q.fqns) /\ IsInjective(given)
  BY DEF Explains
<1>2. given \in Seq(Fqns) /\ IsSequence(q.fqns)
  BY <1>1, AskedAre
<1>3. IsSequence(given)
  BY <1>2, OwnElements
<1>4. ToSet(q.fqns) = ToSet(given)
  BY <1>1
<1>5. Len(q.fqns) = Len(given)
  BY <1>1, <1>2, <1>3, <1>4, SameLength
<1> QED
  BY <1>4, <1>5 DEF Complete

(* The platform knows all that was missing.                                  *)
LEMMA HydrationExplained ==
  ASSUME PlanInv, NEW c \in Calls, NEW r, NEW given,
         Alone(c) => /\ given = Given(Asked(c).attributeValues)
                     /\ r.fqns = AskedFqns(Asked(c))
                     /\ r.missing = ToSet(r.fqns) \ ToSet(given),
         ~Complete(r, given \o SetToSeq(r.missing \cap scenario.known))
  PROVE  Explains(c, r)
<1> SUFFICES ASSUME ~Explains(c, r) PROVE FALSE
  OBVIOUS
<1>1. PICK fqns : fqns = r.fqns
  OBVIOUS
<1>2. /\ given = Given(Asked(c).attributeValues) /\ fqns = AskedFqns(Asked(c))
      /\ r.missing = ToSet(fqns) \ ToSet(given) /\ r.missing \subseteq scenario.known
      /\ ToSet(given) \subseteq ToSet(fqns) /\ IsInjective(fqns) /\ IsInjective(given)
  BY <1>1 DEF Explains
<1>3. given \in Seq(Fqns) /\ IsSequence(fqns)
  BY <1>2, AskedAre
<1>4. PICK S : S = ToSet(fqns) \cup Fqns
  OBVIOUS
<1>5. given \in Seq(S) /\ fqns \in Seq(S)
  BY <1>3, <1>4, WiderElements DEF IsSequence
<1>6. r.missing \cap scenario.known = ToSet(fqns) \ ToSet(given)
  BY <1>2
<1>7. /\ Len(given \o SetToSeq(ToSet(fqns) \ ToSet(given))) = Len(fqns)
      /\ ToSet(given \o SetToSeq(ToSet(fqns) \ ToSet(given))) = ToSet(fqns)
  BY <1>2, <1>5, CompletedLength
<1> QED
  BY <1>1, <1>6, <1>7 DEF Complete

(* The other calls on other scopes see none of it.                           *)
LEMMA TurnKeepsFaith ==
  ASSUME MismatchInv, PlanInv', NEW c \in Calls, UNCHANGED scenario, NEW q, Turns(c, q),
         NEW s, scope' = scope \/ scope' = [scope EXCEPT ![Request(c).scope] = s],
         IsFaithful(c, q, scope'[Request(c).scope])
  PROVE  MismatchInv'
<1>1. \A d \in Calls : call'[d] = IF d = c THEN q ELSE call[d]
  BY DEF MismatchInv, PlanInv, Turns
<1>2. ASSUME NEW d \in Calls \ {c}, Alone(d)
      PROVE  scope'[Request(d).scope] = ScopeOf(d)
  <2>1. Request(c).scope # Request(d).scope
    BY <1>2 DEF Alone
  <2>2. Request(d).scope \in DOMAIN scope
    BY ScopesAre DEF MismatchInv
  <2> QED
    BY <2>1, <2>2 DEF ScopeOf
<1>3. ASSUME NEW d \in Calls PROVE IsFaithful(d, call'[d], scope'[Request(d).scope])
  <2>1. CASE d = c
    BY <2>1, <1>1
  <2>2. CASE d # c
    <3>1. IsFaithful(d, call[d], ScopeOf(d)) /\ call'[d] = call[d]
      BY <2>2, <1>1 DEF MismatchInv
    <3> QED
      BY <2>2, <3>1, <1>2 DEF IsFaithful
  <2> QED
    BY <2>1, <2>2
<1>4. /\ Calls' = Calls
      /\ \A d \in Calls : /\ (ScopeOf(d))' = scope'[Request(d).scope]
                          /\ \A r, t : IsFaithful(d, r, t)' <=> IsFaithful(d, r, t)
  BY DEF Calls, ScopeOf, Request, IsFaithful, Alone, Asked, Explains
<1> QED
  BY <1>3, <1>4 DEF MismatchInv, IsFaithful

LEMMA UnscopedKeepsFaith ==
  ASSUME MismatchInv, PlanInv', NEW c \in Calls, UNCHANGED scenario, NEW r, NEW q,
         Unscoped(c, q, r), r.error # "mismatch", PutsOwn(q, r) \/ GoesOn(q, r),
         PutsOwn(q, r) => (Alone(c) => ScopeOf(c) = Asked(c))
  PROVE  MismatchInv'
<1>1. Turns(c, q) /\ scope' = scope
  BY DEF Unscoped
<1>2. IsFaithful(c, q, scope'[Request(c).scope])
  BY <1>1 DEF IsFaithful, ScopeOf, PutsOwn, GoesOn
<1> QED
  BY <1>1, <1>2, TurnKeepsFaith

LEMMA AutoconfigureKeepsFaith ==
  ASSUME MismatchInv, PlanInv', NEW c \in Calls, UNCHANGED scenario, NEW r, IsCall(r),
         r.error # "mismatch", Alone(c) => ScopeOf(c) = Asked(c), Autoconfigure(c, r)
  PROVE  MismatchInv'
<1>1. PICK s : s = ScopeOf(c)
  OBVIOUS
<1>2. PICK given : given = Given(s.attributeValues)
  OBVIOUS
<1>3. PICK fqns : fqns = AskedFqns(s)
  OBVIOUS
<1>4. Request(c).scope \in DOMAIN scope /\ IsScope(s)
  BY <1>1, ScopesAre DEF MismatchInv
<1>5. /\ scope' = [scope EXCEPT ![Request(c).scope].attributes = fqns]
      /\ \E q :
           /\ Turns(c, q)
           /\ q.fqns = fqns /\ q.missing = ToSet(fqns) \ ToSet(given)
           /\ \/ GoesOn(q, r)
              \/ Mismatches(q, q, given) /\ q.missing = {}
              \/ q.stage = "failed" /\ q.error = "platformUrl"
              \/ q.stage = "hydrating" /\ q.error = r.error
  BY <1>1, <1>2, <1>3, AutoconfigureTurns
<1>6. PICK q : /\ Turns(c, q)
               /\ q.fqns = fqns /\ q.missing = ToSet(fqns) \ ToSet(given)
               /\ \/ GoesOn(q, r)
                  \/ Mismatches(q, q, given) /\ q.missing = {}
                  \/ q.stage = "failed" /\ q.error = "platformUrl"
                  \/ q.stage = "hydrating" /\ q.error = r.error
  BY <1>5
<1>7. PICK t : t = [s EXCEPT !.attributes = fqns]
  OBVIOUS
<1>8. t.attributeValues = s.attributeValues
  BY <1>4, <1>7 DEF IsScope
<1>9. scope' = [scope EXCEPT ![Request(c).scope] = t] /\ scope'[Request(c).scope] = t
  BY <1>1, <1>4, <1>5, <1>7, Zenon DEF ScopeOf
<1>10. Alone(c) => s = Asked(c)
  BY <1>1
<1>11. Alone(c) => /\ given = Given(Asked(c).attributeValues)
                   /\ q.fqns = AskedFqns(Asked(c))
                   /\ q.missing = ToSet(q.fqns) \ ToSet(given)
  BY <1>2, <1>3, <1>6, <1>10
<1>12. CASE GoesOn(q, r)
  <2>1. IsFaithful(c, q, t)
    BY <1>12 DEF GoesOn, IsFaithful
  <2> QED
    BY <2>1, <1>6, <1>9, TurnKeepsFaith
<1>13. CASE Mismatches(q, q, given) /\ q.missing = {}
  <2>1. Explains(c, q)
    BY <1>11, <1>13, AtOnceExplained DEF MismatchInv, Mismatches
  <2>2. IsFaithful(c, q, t)
    BY <2>1, <1>13 DEF Mismatches, IsFaithful
  <2> QED
    BY <2>2, <1>6, <1>9, TurnKeepsFaith
<1>14. CASE q.stage = "failed" /\ q.error = "platformUrl"
  <2>1. IsFaithful(c, q, t)
    BY <1>14 DEF IsFaithful
  <2> QED
    BY <2>1, <1>6, <1>9, TurnKeepsFaith
<1>15. CASE q.stage = "hydrating" /\ q.error = r.error
  <2>1. IsFaithful(c, q, t)
    BY <1>8, <1>10, <1>11, <1>15 DEF IsFaithful
  <2> QED
    BY <2>1, <1>6, <1>9, TurnKeepsFaith
<1> QED
  BY <1>6, <1>12, <1>13, <1>14, <1>15

LEMMA OwnKeysKeepFaith ==
  ASSUME MismatchInv, PlanInv', NEW c \in Calls, UNCHANGED scenario, NEW r, IsCall(r),
         r.error # "mismatch", Alone(c) => ScopeOf(c) = Asked(c), RunOwnKeys(c, r)
  PROVE  MismatchInv'
<1>1. CASE \E q : Unscoped(c, q, r) /\ (PutsOwn(q, r) \/ GoesOn(q, r))
  BY <1>1, UnscopedKeepsFaith
<1>2. CASE \E there : IsCall(there) /\ there.error = r.error /\ Autoconfigure(c, there)
  BY <1>2, AutoconfigureKeepsFaith
<1> QED
  BY <1>1, <1>2, RunOwnKeysTurns

LEMMA HydratedKeepsFaith ==
  ASSUME MismatchInv, PlanInv', NEW c \in Calls, Hydrated(c)
  PROVE  MismatchInv'
<1>1. PICK s : s = ScopeOf(c)
  OBVIOUS
<1>2. PICK got : got = SetToSeq(call[c].missing \cap scenario.known)
  OBVIOUS
<1>3. PICK given : given = Given(s.attributeValues)
  OBVIOUS
<1>4. PICK fqns : fqns = given \o got
  OBVIOUS
<1>5. /\ call[c].stage = "hydrating"
      /\ scope' = IF s.attributeValues = Absent THEN scope
                  ELSE [scope EXCEPT ![Request(c).scope].attributeValues = fqns]
      /\ CheckValues(c, [call[c] EXCEPT !.fetched = got], fqns)
      /\ UNCHANGED scenario
  BY <1>1, <1>2, <1>3, <1>4, Zenon DEF Hydrated
<1>6. PICK r : r = [call[c] EXCEPT !.fetched = got]
  OBVIOUS
<1>7. IsCall(call[c]) /\ IsFaithful(c, call[c], s)
  BY <1>1 DEF MismatchInv, PlanInv, IsPlanned
<1>8. /\ IsCall(r) /\ r.fqns = call[c].fqns /\ r.missing = call[c].missing
      /\ r.error = call[c].error
  BY <1>6, <1>7 DEF IsCall, Fields
<1>9. PICK q : Turns(c, q) /\ KeepsLists(q, r) /\ (GoesOn(q, r) \/ Mismatches(q, r, fqns))
  BY <1>5, <1>6, <1>8, CheckValuesTurns
<1>10. PICK t : t = [s EXCEPT !.attributeValues = fqns]
  OBVIOUS
<1>11. scope' = scope \/ scope' = [scope EXCEPT ![Request(c).scope] = t]
  BY <1>1, <1>5, <1>10, Zenon DEF ScopeOf
<1>12. CASE GoesOn(q, r)
  <2>1. q.error # "mismatch" /\ q.stage \notin {"new", "own", "hydrating"}
    BY <1>5, <1>7, <1>8, <1>12 DEF GoesOn, IsFaithful
  <2>2. IsFaithful(c, q, scope'[Request(c).scope])
    BY <2>1 DEF IsFaithful
  <2> QED
    BY <2>2, <1>5, <1>9, <1>11, TurnKeepsFaith
<1>13. CASE Mismatches(q, r, fqns)
  <2>1. Alone(c) => /\ given = Given(Asked(c).attributeValues)
                    /\ r.fqns = AskedFqns(Asked(c))
                    /\ r.missing = ToSet(r.fqns) \ ToSet(given)
    BY <1>3, <1>5, <1>7, <1>8 DEF IsFaithful
  <2>2. ~Complete(r, given \o SetToSeq(r.missing \cap scenario.known))
    BY <1>2, <1>4, <1>8, <1>13 DEF Mismatches
  <2>3. Explains(c, r)
    BY <2>1, <2>2, HydrationExplained DEF MismatchInv
  <2>4. Explains(c, q)
    BY <2>3, <1>9 DEF Explains, KeepsLists
  <2>5. IsFaithful(c, q, scope'[Request(c).scope])
    BY <2>4, <1>13 DEF Mismatches, IsFaithful
  <2> QED
    BY <2>5, <1>5, <1>9, <1>11, TurnKeepsFaith
<1> QED
  BY <1>9, <1>12, <1>13

LEMMA KeyArrivesKeepsFaith ==
  ASSUME MismatchInv, PlanInv', NEW c \in Calls, KeyArrives(c)
  PROVE  MismatchInv'
<1>1. PICK r : r = [call[c] EXCEPT !.at = @ + 1]
  OBVIOUS
<1>2. /\ IsCall(call[c]) /\ IsFaithful(c, call[c], ScopeOf(c)) /\ UNCHANGED scenario
      /\ call[c].stage \in {"own", "effective", "items"}
  BY DEF MismatchInv, PlanInv, IsPlanned, KeyArrives, WaitsForKey
<1>3. IsCall(r) /\ r.error = call[c].error /\ r.error # "mismatch"
  BY <1>1, <1>2 DEF IsCall, Fields, IsFaithful
<1>4. CASE call[c].stage = "own"
  <2>1. RunOwnKeys(c, r) /\ (Alone(c) => ScopeOf(c) = Asked(c))
    BY <1>1, <1>2, <1>4 DEF KeyArrives, IsFaithful
  <2> QED
    BY <1>2, <1>3, <2>1, OwnKeysKeepFaith
<1>5. CASE call[c].stage = "effective"
  <2>1. RunEffectiveKeys(c, r, ValuesNow(c)) /\ scope' = scope
    BY <1>1, <1>5 DEF KeyArrives
  <2>2. PICK q : Turns(c, q) /\ GoesOn(q, r)
    BY <1>3, <2>1, RunEffectiveKeysTurns
  <2>3. IsFaithful(c, q, scope'[Request(c).scope])
    BY <1>3, <2>2 DEF GoesOn, IsFaithful
  <2> QED
    BY <1>2, <2>1, <2>2, <2>3, TurnKeepsFaith
<1>6. CASE call[c].stage = "items"
  <2>1. PICK object : RunItems(c, [r EXCEPT !.keyAccess = Append(@, object)], r.items, r.at)
                      /\ scope' = scope
    BY <1>1, <1>6 DEF KeyArrives
  <2>2. PICK s : s = [r EXCEPT !.keyAccess = Append(@, object)]
    OBVIOUS
  <2>3. IsCall(s) /\ s.error # "mismatch"
    BY <1>3, <2>2 DEF IsCall, Fields
  <2>4. PICK q : Turns(c, q) /\ KeepsLists(q, s) /\ GoesOn(q, s) /\ q.planned = s.planned
    BY <2>1, <2>2, <2>3, RunItemsTurns
  <2>5. Unscoped(c, q, s)
    BY <2>1, <2>4 DEF Unscoped
  <2> QED
    BY <1>2, <2>3, <2>4, <2>5, UnscopedKeepsFaith DEF PutsOwn, GoesOn
<1> QED
  BY <1>2, <1>4, <1>5, <1>6

LEMMA FailsKeepsFaith ==
  ASSUME MismatchInv, PlanInv', NEW c \in Calls, UNCHANGED <<scenario, scope>>,
         NEW error, error # "mismatch", Fails(c, call[c], error)
  PROVE  MismatchInv'
<1>1. IsCall(call[c])
  BY DEF MismatchInv, PlanInv, IsPlanned
<1>2. PICK q : Turns(c, q) /\ q.stage = "failed" /\ q.error = error
  BY <1>1, FailsTurns
<1>3. IsFaithful(c, q, scope'[Request(c).scope])
  BY <1>2 DEF IsFaithful
<1> QED
  BY <1>2, <1>3, TurnKeepsFaith

LEMMA InitFaith == Init => MismatchInv
<1> SUFFICES ASSUME Init PROVE MismatchInv
  OBVIOUS
<1>1. PlanInv
  BY InitPlans
<1>2. \A c \in Calls : /\ call[c].error = "none" /\ call[c].stage = "new"
                       /\ ScopeOf(c) = Asked(c)
  BY DEF Init, ScopeOf, Asked
<1> QED
  BY <1>1, <1>2 DEF MismatchInv, IsFaithful

LEMMA StepFaith == MismatchInv /\ [Next]_vars => MismatchInv'
<1> SUFFICES ASSUME MismatchInv, [Next]_vars PROVE MismatchInv'
  OBVIOUS
<1>0. PlanInv'
  BY StepPlans DEF MismatchInv
<1>1. ASSUME UNCHANGED <<scenario, scope, call>> PROVE MismatchInv'
  BY <1>0, <1>1 DEF MismatchInv, IsFaithful, Explains, Alone, Asked, AskedFqns, Calls,
                    Request, ScopeOf
<1>2. ASSUME NEW c \in Calls, Start(c) PROVE MismatchInv'
  <2>1. PICK r : r = [call[c] EXCEPT !.at = 1]
    OBVIOUS
  <2>2. IsCall(call[c]) /\ IsFaithful(c, call[c], ScopeOf(c)) /\ call[c].stage = "new"
    BY <1>2 DEF MismatchInv, PlanInv, IsPlanned, Start
  <2>3. IsCall(r) /\ r.error # "mismatch" /\ (Alone(c) => ScopeOf(c) = Asked(c))
    BY <2>1, <2>2 DEF IsCall, Fields, IsFaithful
  <2>4. RunOwnKeys(c, r) /\ UNCHANGED scenario
    BY <1>2, <2>1 DEF Start
  <2> QED
    BY <1>0, <2>3, <2>4, OwnKeysKeepFaith
<1>3. ASSUME NEW c \in Calls, HydrationFails(c) \/ KeyRefused(c) PROVE MismatchInv'
  BY <1>0, <1>3, FailsKeepsFaith DEF HydrationFails, KeyRefused
<1>4. CASE \E c \in Calls : CallStep(c)
  BY <1>0, <1>2, <1>3, <1>4, HydratedKeepsFaith, KeyArrivesKeepsFaith DEF CallStep
<1>5. CASE Network
  BY <1>1, <1>5 DEF Network, Fetched, FetchFails
<1>6. CASE UNCHANGED vars
  BY <1>1, <1>6 DEF vars
<1> QED
  BY <1>4, <1>5, <1>6 DEF Next

(* "Attribute mismatch" is the fault of what the application asks for, of    *)
(* the platform, or of another call on the same scope: a call that has its   *)
(* scope to itself and asks for each of some known attributes once never     *)
(* fails in that way.                                                        *)
THEOREM MismatchesAreExplained == Spec => []MismatchIsExplained
<1>1. Spec => []MismatchInv
  BY InitFaith, StepFaith, PTL DEF Spec
<1>2. MismatchInv => MismatchIsExplained
  BY DEF MismatchInv, IsFaithful, MismatchIsExplained, Explains, Alone, Asked
<1> QED
  BY <1>1, <1>2, PTL

-----------------------------------------------------------------------------
(* More sequences at the end leave what is there of the flattened ones.      *)
LEMMA FlattenPrefix ==
  \A S : \A ss, tt \in Seq(Seq(S)) :
    Len(ss) <= Len(tt) /\ (\A i \in 1 .. Len(ss) : tt[i] = ss[i]) =>
      /\ Len(FlattenSeq(ss)) <= Len(FlattenSeq(tt))
      /\ \A p \in 1 .. Len(FlattenSeq(ss)) : FlattenSeq(tt)[p] = FlattenSeq(ss)[p]
<1>1. SUFFICES ASSUME NEW S, NEW ss, NEW tt, ss \in Seq(Seq(S)), tt \in Seq(Seq(S)),
                      Len(ss) <= Len(tt), \A i \in 1 .. Len(ss) : tt[i] = ss[i]
      PROVE  /\ Len(FlattenSeq(ss)) <= Len(FlattenSeq(tt))
             /\ \A p \in 1 .. Len(FlattenSeq(ss)) : FlattenSeq(tt)[p] = FlattenSeq(ss)[p]
  OBVIOUS
<1>2. PICK n, m : n = Len(ss) /\ m = Len(tt)
  OBVIOUS
<1>3. /\ n \in Nat /\ m \in Nat /\ n <= m
      /\ \A i \in 1 .. n : tt[i] = ss[i] /\ Len(ss[i]) \in Nat
  <2>1. n \in Nat /\ m \in Nat /\ n <= m
    BY <1>1, <1>2
  <2>2. ASSUME NEW i \in 1 .. n PROVE tt[i] = ss[i]
    BY <1>1, <1>2
  <2>3. ASSUME NEW i \in 1 .. n PROVE Len(ss[i]) \in Nat
    <3>1. ss[i] \in Seq(S)
      BY <1>1, <1>2
    <3> QED
      BY <3>1
  <2> QED
    BY <2>1, <2>2, <2>3
<1>4. PICK u, v : u = FlattenSeq(ss) /\ v = FlattenSeq(tt)
  OBVIOUS
<1>5. Len(u) \in Nat /\ Len(v) \in Nat
  <2>1. u \in Seq(S) /\ v \in Seq(S)
    BY <1>1, <1>4, FlattenPlaces
  <2> QED
    BY <2>1
<1>6. PICK a : IsLayout(a, ss)
  BY <1>1, FlattenPlaces
<1>7. PICK b : IsLayout(b, tt)
  BY <1>1, FlattenPlaces
<1>8. /\ a \in [1 .. n + 1 -> Nat] /\ a[1] = 0 /\ a[n + 1] = Len(u)
      /\ \A i \in 1 .. n : /\ a[i + 1] = a[i] + Len(ss[i])
                           /\ \A k \in 1 .. Len(ss[i]) : u[a[i] + k] = ss[i][k]
      /\ \A p \in 1 .. Len(u) : \E i \in 1 .. n : \E k \in 1 .. Len(ss[i]) : p = a[i] + k
  BY <1>2, <1>4, <1>6 DEF IsLayout
<1>9. /\ b \in [1 .. m + 1 -> Nat] /\ b[1] = 0
      /\ \A i \in 1 .. m : /\ b[i + 1] = b[i] + Len(tt[i]) /\ b[i + 1] <= Len(v)
                           /\ \A k \in 1 .. Len(tt[i]) : v[b[i] + k] = tt[i][k]
  BY <1>2, <1>4, <1>7 DEF IsLayout
<1>10. \A i \in 1 .. n + 1 : b[i] = a[i]
  <2> DEFINE differ == {i \in Nat : i \in 1 .. n + 1 /\ b[i] # a[i]}
  <2> SUFFICES ASSUME differ # {} PROVE FALSE
    BY <1>3
  <2>1. PICK i \in differ : \A j \in differ : i <= j
    BY LeastNumber
  <2>2. i # 1
    BY <2>1, <1>8, <1>9
  <2>3. i - 1 \in 1 .. n /\ i - 1 \in 1 .. m /\ i - 1 \in Nat /\ (i - 1) + 1 = i
    BY <2>1, <2>2, <1>3
  <2>4. b[i - 1] = a[i - 1]
    BY <2>1, <2>3, <1>3
  <2>5. a[(i - 1) + 1] = a[i - 1] + Len(ss[i - 1]) /\ b[(i - 1) + 1] = b[i - 1] + Len(tt[i - 1])
    BY <2>3, <1>8, <1>9
  <2> QED
    BY <2>1, <2>3, <2>4, <2>5, <1>3
<1>11. Len(u) <= Len(v)
  <2>1. CASE n = 0
    BY <2>1, <1>5, <1>8
  <2>2. CASE n # 0
    <3>1. n \in 1 .. n /\ n \in 1 .. m /\ n + 1 \in 1 .. n + 1
      BY <2>2, <1>3
    <3> QED
      BY <3>1, <1>8, <1>9, <1>10
  <2> QED
    BY <2>1, <2>2
<1>12. ASSUME NEW p \in 1 .. Len(u) PROVE v[p] = u[p]
  <2>1. PICK i \in 1 .. n : \E k \in 1 .. Len(ss[i]) : p = a[i] + k
    BY <1>8
  <2>2. PICK k \in 1 .. Len(ss[i]) : p = a[i] + k
    BY <2>1
  <2>3. i \in 1 .. m /\ i \in 1 .. n + 1
    BY <1>3
  <2>4. b[i] = a[i] /\ tt[i] = ss[i]
    BY <2>3, <1>3, <1>10
  <2>5. u[a[i] + k] = ss[i][k] /\ v[b[i] + k] = tt[i][k]
    BY <2>3, <2>4, <1>8, <1>9
  <2> QED
    BY <2>2, <2>4, <2>5
<1> QED
  BY <1>4, <1>11, <1>12

-----------------------------------------------------------------------------
(* The keys that a policy maps.                                              *)
Directory == {scenario.directory[fqn] : fqn \in Fqns}
Mapped == {g \in MappedBy(scenario.directory) : g.kind = "mapped"}

(* What the scenario says of the attributes.                                 *)
LEMMA DirectoryIs ==
  ASSUME PlanInv
  PROVE  /\ IsPolicy(Directory)
         /\ \A fqns \in Seq(Fqns) : ValuesOf(fqns) \in Seq(Directory)
         /\ \A g \in Mapped : g.keys[1].kid # Absent
         /\ \A g, h \in Mapped : g.url = h.url /\ g.keys[1].kid = h.keys[1].kid
                                   => g.keys[1] = h.keys[1]
<1>1. IsScenario(scenario)
  BY ScenarioAssumption DEF PlanInv
<1>2. IsPolicy(Directory)
  BY <1>1 DEF IsScenario, Directory, Fqns
<1>3. \A fqns \in Seq(Fqns) : ValuesOf(fqns) \in Seq(Directory)
  BY DEF ValuesOf, Value, Directory
<1> QED
  BY <1>1, <1>2, <1>3 DEF IsScenario, Mapped

(* The keys that a value publishes are mapped, and its mapped granters are   *)
(* among them.                                                               *)
LEMMA EffectiveAre ==
  \A value \in Directory : IsPolicy(Directory) =>
    LET keys == Published(effectiveKasKeys(value))
    IN /\ keys \in Seq(Mapped)
       /\ \A g \in ToSet(Granters(value)) : g.kind = "mapped" => g \in ToSet(keys)
<1>1. SUFFICES ASSUME NEW value \in Directory, IsPolicy(Directory)
      PROVE  LET keys == Published(effectiveKasKeys(value))
             IN /\ keys \in Seq(Mapped)
                /\ \A g \in ToSet(Granters(value)) : g.kind = "mapped" => g \in ToSet(keys)
  OBVIOUS
<1>2. /\ HoldsOnly(value.kasKeys, {"mapped", "unpublished"})
      /\ HoldsOnly(value.grants, GrantKind)
  BY <1>1 DEF IsPolicy
<1>3. PICK effective : effective = effectiveKasKeys(value)
  OBVIOUS
<1>4. PICK keys : keys = Published(effective)
  OBVIOUS
<1>5. /\ HeldAs(keys, {"mapped", "unpublished"})
      /\ \A y : y \in ToSet(keys) <=> y \in ToSet(effective) /\ y.kind = "mapped"
  BY <1>2, <1>3, <1>4, MostSpecificHolds, PublishedAre DEF effectiveKasKeys
<1>6. \A g \in ToSet(effective) : g \in MappedBy(scenario.directory)
  <2>1. PICK fqn \in Fqns : value = scenario.directory[fqn]
    BY DEF Directory
  <2>2. effective = <<>> \/ \E i \in DOMAIN value.kasKeys : effective = value.kasKeys[i]
    <3> DEFINE full == {i \in DOMAIN value.kasKeys : value.kasKeys[i] # <<>>}
    <3>1. effective = IF full = {} THEN <<>> ELSE value.kasKeys[Min(full)]
      BY <1>3 DEF effectiveKasKeys, MostSpecific
    <3>2. full \subseteq Nat
      BY <1>2, PlacesOf DEF HoldsOnly
    <3>3. full # {} => Min(full) \in full
      BY <3>2, MinIsLeast
    <3> QED
      BY <3>1, <3>3
  <2>3. ToSet(<<>>) = {}
    BY DEF ToSet
  <2> QED
    BY <2>1, <2>2, <2>3 DEF MappedBy, Fqns
<1>7. ToSet(keys) \subseteq Mapped
  BY <1>5, <1>6 DEF Mapped
<1>8. keys \in Seq(Mapped)
  BY <1>5, <1>7, WiderElements DEF HeldAs, IsSequence
<1>9. ASSUME NEW g \in ToSet(Granters(value)), g.kind = "mapped" PROVE g \in ToSet(keys)
  <2>1. Granters(value) = IF keys # <<>> THEN keys ELSE MostSpecific(value.grants)
    BY <1>3, <1>4 DEF Granters, Mappings
  <2>2. HeldAs(MostSpecific(value.grants), GrantKind)
    BY <1>2, MostSpecificHolds
  <2>3. \A h \in ToSet(MostSpecific(value.grants)) : h.kind # "mapped"
    BY <2>2 DEF HeldAs, IsHolder, ToSet, GrantKind
  <2> QED
    BY <2>1, <2>3, <1>9
<1> QED
  BY <1>3, <1>4, <1>8, <1>9

(* So for all values together.                                               *)
LEMMA EffectiveKeysAre ==
  ASSUME PlanInv
  PROVE  \A fqns \in Seq(Fqns) :
           LET keys == EffectiveKeys(ValuesOf(fqns))
           IN /\ keys \in Seq(Mapped)
              /\ \A g \in HoldersOf(ValuesOf(fqns)) : g.kind = "mapped" => g \in ToSet(keys)
<1>1. SUFFICES ASSUME NEW fqns, fqns \in Seq(Fqns)
      PROVE  LET keys == EffectiveKeys(ValuesOf(fqns))
             IN /\ keys \in Seq(Mapped)
                /\ \A g \in HoldersOf(ValuesOf(fqns)) : g.kind = "mapped" => g \in ToSet(keys)
  OBVIOUS
<1>2. PICK values : values = ValuesOf(fqns)
  OBVIOUS
<1>3. PICK n : n = Len(values)
  OBVIOUS
<1>4. IsPolicy(Directory) /\ values \in Seq(Directory)
  BY <1>1, <1>2, DirectoryIs
<1>5. n \in Nat /\ DOMAIN values = 1 .. n /\ \A i \in 1 .. n : values[i] \in Directory
  BY <1>3, <1>4
<1> DEFINE each == [i \in DOMAIN values |-> Published(effectiveKasKeys(values[i]))]
<1>6. \A i \in 1 .. n :
        /\ each[i] \in Seq(Mapped)
        /\ \A g \in ToSet(Granters(values[i])) : g.kind = "mapped" => g \in ToSet(each[i])
  BY <1>4, <1>5, EffectiveAre
<1>7. EffectiveKeys(values) = FlattenSeq(each)
  BY DEF EffectiveKeys, Mappings
<1>8. each = [i \in 1 .. n |-> each[i]]
  BY <1>5
<1> HIDE DEF each
<1>9. each \in [1 .. n -> Seq(Mapped)]
  BY <1>6, <1>8
<1>10. /\ FlattenSeq(each) \in Seq(Mapped)
       /\ \A y : y \in ToSet(FlattenSeq(each)) <=> \E i \in 1 .. n : y \in ToSet(each[i])
  BY <1>5, <1>9, FlattenedElements
<1>11. \A g \in HoldersOf(values) : \E i \in 1 .. n : g \in ToSet(Granters(values[i]))
  BY <1>5 DEF HoldersOf
<1> QED
  BY <1>2, <1>6, <1>7, <1>10, <1>11

(* The keys of more values begin with those of the first.                    *)
LEMMA EffectiveKeysStay ==
  ASSUME PlanInv
  PROVE  \A fqns, got \in Seq(Fqns) :
           LET keys == EffectiveKeys(ValuesOf(fqns))
               more == EffectiveKeys(ValuesOf(fqns \o got))
           IN Len(keys) <= Len(more) /\ \A i \in 1 .. Len(keys) : more[i] = keys[i]
<1>1. SUFFICES ASSUME NEW fqns, NEW got, fqns \in Seq(Fqns), got \in Seq(Fqns)
      PROVE  LET keys == EffectiveKeys(ValuesOf(fqns))
                 more == EffectiveKeys(ValuesOf(fqns \o got))
             IN Len(keys) <= Len(more) /\ \A i \in 1 .. Len(keys) : more[i] = keys[i]
  OBVIOUS
<1>2. PICK all : all = fqns \o got
  OBVIOUS
<1>3. /\ all \in Seq(Fqns) /\ Len(fqns) \in Nat /\ Len(all) \in Nat /\ Len(fqns) <= Len(all)
      /\ \A i \in 1 .. Len(fqns) : all[i] = fqns[i] /\ i \in 1 .. Len(all)
  <2>1. /\ all \in Seq(Fqns) /\ Len(fqns) \in Nat /\ Len(got) \in Nat
        /\ Len(all) = Len(fqns) + Len(got)
        /\ \A i \in 1 .. Len(fqns) : all[i] = fqns[i]
    BY <1>1, <1>2, ConcatFacts
  <2> QED
    BY <2>1
<1> DEFINE Each(list) == [i \in DOMAIN ValuesOf(list) |->
                            Published(effectiveKasKeys(ValuesOf(list)[i]))]
<1>4. \A list : EffectiveKeys(ValuesOf(list)) = FlattenSeq(Each(list))
  BY DEF EffectiveKeys, Mappings
<1>5. ASSUME NEW list, list \in Seq(Fqns)
      PROVE  /\ Each(list) = [i \in 1 .. Len(list) |-> Published(effectiveKasKeys(Value(list[i])))]
             /\ \A i \in 1 .. Len(list) : Published(effectiveKasKeys(Value(list[i]))) \in Seq(Mapped)
  <2>1. DOMAIN list = 1 .. Len(list) /\ \A i \in 1 .. Len(list) : Value(list[i]) \in Directory
    BY <1>5 DEF Value, Directory
  <2>2. ValuesOf(list) = [i \in 1 .. Len(list) |-> Value(list[i])]
    BY <2>1 DEF ValuesOf
  <2> QED
    BY <2>1, <2>2, DirectoryIs, EffectiveAre
<1> HIDE DEF Each
<1>6. PICK ss, tt : ss = Each(fqns) /\ tt = Each(all)
  OBVIOUS
<1>a. ASSUME NEW list, list \in Seq(Fqns), NEW s, s = Each(list)
      PROVE  s \in Seq(Seq(Mapped)) /\ Len(s) = Len(list)
  <2>1. PICK n : n = Len(list)
    OBVIOUS
  <2>2. n \in Nat
    BY <1>a, <2>1
  <2>3. s = [i \in 1 .. n |-> s[i]] /\ \A i \in 1 .. n : s[i] \in Seq(Mapped)
    BY <1>5, <1>a, <2>1
  <2> QED
    BY <2>1, <2>2, <2>3
<1>7. ss \in Seq(Seq(Mapped)) /\ Len(ss) = Len(fqns)
  BY <1>1, <1>6, <1>a
<1>8. tt \in Seq(Seq(Mapped)) /\ Len(tt) = Len(all)
  BY <1>3, <1>6, <1>a
<1>9. \A i \in 1 .. Len(ss) : tt[i] = ss[i]
  BY <1>1, <1>3, <1>5, <1>6, <1>7
<1>10. Len(ss) <= Len(tt)
  BY <1>3, <1>7, <1>8
<1> QED
  BY <1>2, <1>4, <1>6, <1>7, <1>8, <1>9, <1>10, FlattenPrefix

-----------------------------------------------------------------------------
(* What is in the cache stays there, under what it is looked up by.          *)
Grows ==
  /\ UNCHANGED scenario
  /\ \A e \in DOMAIN cache : /\ e \in DOMAIN cache'
                             /\ cache'[e].kas = cache[e].kas
                             /\ cache'[e].alg = cache[e].alg
                             /\ cache'[e].kid = cache[e].kid

(* The KASes whose key a KAS may hand out.                                   *)
UrlsOf(kas) == {kas} \cup {key.url : key \in {scenario.baseKey[kas]} \ {Absent}}

(* A key that the policy does not declare the algorithm of.                  *)
Undeclared(ask) ==
  \E g \in Mapped : /\ g.url = ask.kas /\ g.keys[1].kid = ask.kid
                    /\ g.keys[1].declared # g.keys[1].alg

(* An entry has a key of its KAS, and the very key it names unless someone   *)
(* asked the KAS for that: a KAS does not say which keys it has.             *)
IsSound(entry) ==
  /\ entry.state = "resolved" => entry.key.url \in UrlsOf(entry.kas)
  /\ \/ entry.kid = Absent
     \/ entry.state = "resolved" /\ entry.key.kid = entry.kid
     \/ AskedByHand(entry)
     \/ Undeclared(entry)

CacheSound == CacheInv /\ \A e \in DOMAIN cache : IsSound(cache[e])

(* What is found in the cache is found in it later.                          *)
LEMMA GrowsKeepsFound ==
  ASSUME Grows, NEW ask
  PROVE  \A e \in Found(ask) : e \in Found(ask)'
BY DEF Grows, Found, Matches

(* What is sound or asked for by hand depends on the scenario alone.         *)
LEMMA SameScenario ==
  ASSUME UNCHANGED scenario
  PROVE  \A x : /\ IsSound(x)' <=> IsSound(x)
                /\ AskedByHand(x)' <=> AskedByHand(x)
                /\ Undeclared(x)' <=> Undeclared(x)
BY DEF IsSound, UrlsOf, AskedByHand, Undeclared, Calls, Request, Mapped

(* Who awaits an entry finds one, old or new.                                *)
LEMMA AwaitEntryFinds ==
  ASSUME CacheSound, UNCHANGED scenario, NEW c, NEW r, NEW ask, NEW promise,
         Found(ask) = {} => IsSound(NewEntry(ask, promise)),
         AwaitEntry(c, r, ask, promise)
  PROVE  /\ CacheSound' /\ Grows /\ Place(ask) \in Found(ask)'
         /\ call' = [call EXCEPT ![c] = [r EXCEPT !.entry = Place(ask)]]
<1>1. call' = [call EXCEPT ![c] = [r EXCEPT !.entry = Place(ask)]]
  BY DEF AwaitEntry
<1>2. CASE Found(ask) # {}
  <2>1. cache' = cache
    BY <1>2 DEF AwaitEntry
  <2>2. Grows
    BY <2>1 DEF Grows
  <2>3. Found(ask) \subseteq Nat
    BY PlacesOf DEF Found, CacheSound, CacheInv
  <2>4. Place(ask) \in Found(ask)
    BY <1>2, <2>3, MinIsLeast DEF Place
  <2>5. CacheInv'
    BY <2>1 DEF CacheSound, CacheInv, IsSequence, KeysFetchedOnce, Matches
  <2>6. CacheSound'
    BY <2>1, <2>5, SameScenario DEF CacheSound
  <2> QED
    BY <1>1, <2>2, <2>4, <2>6, GrowsKeepsFound
<1>3. CASE Found(ask) = {}
  <2>1. PICK x : x = NewEntry(ask, promise)
    OBVIOUS
  <2>2. cache' = Append(cache, x)
    BY <1>3, <2>1 DEF AwaitEntry
  <2>3. /\ DOMAIN cache' = 1 .. Len(cache) + 1 /\ DOMAIN cache = 1 .. Len(cache)
        /\ Len(cache) \in Nat /\ cache'[Len(cache) + 1] = x
        /\ \A e \in 1 .. Len(cache) : cache'[e] = cache[e]
    BY <2>2, AppendOwn DEF CacheSound, CacheInv
  <2>4. Grows
    BY <2>3 DEF Grows
  <2>5. CacheInv'
    BY <1>3, <2>1, <2>2, AppendKeepsInv DEF CacheSound
  <2>6. \A e \in DOMAIN cache' : IsSound(cache'[e])
    <3>1. IsSound(x)
      BY <1>3, <2>1
    <3> QED
      BY <2>3, <3>1 DEF CacheSound
  <2>7. CacheSound'
    BY <2>5, <2>6, SameScenario DEF CacheSound
  <2>8. Matches(x, ask)
    BY <2>1 DEF NewEntry, Matches
  <2>9. Place(ask) \in Found(ask)'
    BY <1>3, <2>3, <2>8 DEF Place, Found, Matches
  <2> QED
    BY <1>1, <2>4, <2>7, <2>9
<1> QED
  BY <1>2, <1>3

(* A step that leaves the cache alone.                                       *)
LEMMA GoesGrows ==
  ASSUME CacheSound, UNCHANGED <<scenario, cache>>
  PROVE  CacheSound' /\ Grows
<1>1. Grows
  BY DEF Grows
<1>2. CacheInv'
  BY DEF CacheSound, CacheInv, IsSequence, KeysFetchedOnce, Matches
<1>3. CacheSound'
  BY <1>2, SameScenario DEF CacheSound
<1> QED
  BY <1>1, <1>3

(* A promise settles.                                                        *)
LEMMA NetworkGrows ==
  ASSUME CacheSound, Network
  PROVE  CacheSound' /\ Grows /\ UNCHANGED <<scope, call>>
<1>1. PICK e \in DOMAIN cache : Fetched(e) \/ FetchFails(e)
  BY DEF Network
<1>2. CacheInv' /\ UNCHANGED <<scenario, scope, call>> /\ cache[e].state = "pending"
  BY <1>1, FetchedSettles DEF CacheSound, Fetched, FetchFails
<1>3. PICK kas, alg, kid, s, k :
        cache[e] = [kas |-> kas, alg |-> alg, kid |-> kid, state |-> s, key |-> k]
  BY Zenon DEF CacheSound, CacheInv, IsEntry
<1>4. PICK entry : entry = cache'[e]
  OBVIOUS
<1>5. /\ DOMAIN cache' = DOMAIN cache /\ \A f \in DOMAIN cache \ {e} : cache'[f] = cache[f]
      /\ entry.kas = kas /\ entry.alg = alg /\ entry.kid = kid
      /\ entry.state = "resolved" => entry.key \in {scenario.baseKey[cache[e].kas], OwnKey(cache[e])} \ {Absent}
  <2>1. CASE Fetched(e)
    <3>1. PICK key \in {scenario.baseKey[cache[e].kas], OwnKey(cache[e])} \ {Absent} :
            cache' = [cache EXCEPT ![e].state = "resolved", ![e].key = key]
      BY <2>1, Zenon DEF Fetched
    <3>2. PICK settled : settled = [cache[e] EXCEPT !.state = "resolved"]
      OBVIOUS
    <3>3. settled = [kas |-> kas, alg |-> alg, kid |-> kid, state |-> "resolved", key |-> k]
      BY <1>3, <3>2
    <3>4. PICK done : done = [settled EXCEPT !.key = key]
      OBVIOUS
    <3>5. done = [kas |-> kas, alg |-> alg, kid |-> kid, state |-> "resolved", key |-> key]
      BY <3>3, <3>4
    <3>6. cache' = [cache EXCEPT ![e] = done]
      BY <3>1, <3>2, <3>4, Zenon
    <3>7. /\ DOMAIN cache' = DOMAIN cache /\ \A f \in DOMAIN cache \ {e} : cache'[f] = cache[f]
          /\ entry = done
      BY <3>6, <1>4
    <3> QED
      BY <3>5, <3>7
  <2>2. CASE FetchFails(e)
    <3>1. PICK done : done = [cache[e] EXCEPT !.state = "rejected"]
      OBVIOUS
    <3>2. done = [kas |-> kas, alg |-> alg, kid |-> kid, state |-> "rejected", key |-> k]
      BY <1>3, <3>1
    <3>3. cache' = [cache EXCEPT ![e] = done]
      BY <2>2, <3>1 DEF FetchFails
    <3>4. /\ DOMAIN cache' = DOMAIN cache /\ \A f \in DOMAIN cache \ {e} : cache'[f] = cache[f]
          /\ entry = done
      BY <3>3, <1>4
    <3> QED
      BY <3>2, <3>4
  <2> QED
    BY <1>1, <2>1, <2>2
<1>6. cache[e].kas = kas /\ cache[e].alg = alg /\ cache[e].kid = kid
  BY <1>3
<1>7. Grows
  BY <1>2, <1>4, <1>5, <1>6 DEF Grows
<1>8. entry.kid = Absent \/ AskedByHand(entry) \/ Undeclared(entry)
  <2>1. cache[e].kid = Absent \/ AskedByHand(cache[e]) \/ Undeclared(cache[e])
    BY <1>2 DEF CacheSound, IsSound
  <2> QED
    BY <2>1, <1>5, <1>6 DEF AskedByHand, Undeclared
<1>9. entry.state = "resolved" => entry.key.url \in UrlsOf(entry.kas)
  BY <1>5, <1>6 DEF OwnKey, UrlsOf
<1>10. IsSound(entry)
  BY <1>8, <1>9 DEF IsSound
<1>11. \A f \in DOMAIN cache' : IsSound(cache'[f])
  BY <1>4, <1>5, <1>10 DEF CacheSound
<1>12. CacheSound'
  BY <1>2, <1>11, SameScenario DEF CacheSound
<1> QED
  BY <1>2, <1>7, <1>12

-----------------------------------------------------------------------------
(* The objects for the items before a place.                                 *)
IsItem(item) ==
  /\ IsSequence(item.keys)
  /\ IsLookup(item) => \/ item.ask.kid = Absent
                       \/ Found(item.ask) # {}
                       \/ AskedByHand(item.ask)
                       \/ Undeclared(item.ask)
  /\ item.kas.kind = "mapped" => /\ IsLookup(item)
                                 /\ item.kas \in Mapped
                                 /\ item.ask.kas = item.kas.url
                                 /\ item.ask.kid = item.kas.keys[1].kid

AreItems(items) == IsSequence(items) /\ \A i \in DOMAIN items : IsItem(items[i])

(* Which item each object is for: another one for each, unless it encloses   *)
(* several keys.                                                             *)
IsSource(source, objects, items, places) ==
  /\ source \in [DOMAIN objects -> places]
  /\ \A k \in DOMAIN objects : IsFor(objects[k], items[source[k]])
  /\ \A k, l \in DOMAIN objects :
       k # l /\ source[k] = source[l] => Len(items[source[k]].keys) > 1

Covers(objects, items, n) ==
  /\ IsSequence(objects)
  /\ \A i \in 1 .. n : \E object \in ToSet(objects) : IsFor(object, items[i])
  /\ \E source : IsSource(source, objects, items, 1 .. n)

(* The keys enclosed in grants, item by item.                                *)
LEMMA EnclosedAre ==
  \A items, from, to :
    /\ AreItems(items) /\ from \in 1 .. Len(items) + 1 /\ to \in from .. Len(items) + 1
    /\ \A i \in from .. to - 1 : ~IsLookup(items[i])
    => /\ IsSequence(Enclosed(items, from, to))
       /\ \A i \in from .. to - 1 :
            \E object \in ToSet(Enclosed(items, from, to)) : IsFor(object, items[i])
       /\ \E source : IsSource(source, Enclosed(items, from, to), items, from .. to - 1)
<1>1. SUFFICES ASSUME NEW items, NEW from, NEW to, AreItems(items),
                      from \in 1 .. Len(items) + 1, to \in from .. Len(items) + 1,
                      \A i \in from .. to - 1 : ~IsLookup(items[i])
      PROVE
        /\ IsSequence(Enclosed(items, from, to))
        /\ \A i \in from .. to - 1 :
             \E object \in ToSet(Enclosed(items, from, to)) : IsFor(object, items[i])
        /\ \E source : IsSource(source, Enclosed(items, from, to), items, from .. to - 1)
  OBVIOUS
<1>2. Len(items) \in Nat /\ DOMAIN items = 1 .. Len(items)
  BY <1>1, PlacesOf DEF AreItems
<1>3. PICK n : n = to - from
  OBVIOUS
<1>4. /\ from \in Nat /\ to \in Nat /\ n \in Nat
      /\ \A k \in 1 .. n : from + k - 1 \in from .. to - 1 /\ from + k - 1 \in DOMAIN items
      /\ \A i \in from .. to - 1 : i - from + 1 \in 1 .. n /\ from + (i - from + 1) - 1 = i
  BY <1>1, <1>2, <1>3
<1>5. ASSUME NEW i \in DOMAIN items, ~IsLookup(items[i])
      PROVE  /\ IsSequence(Wrapped(items[i])) /\ ToSet(Wrapped(items[i])) # {}
             /\ Len(Wrapped(items[i])) = Len(items[i].keys)
             /\ \A object \in ToSet(Wrapped(items[i])) : IsFor(object, items[i])
  <2>1. PICK item : item = items[i]
    OBVIOUS
  <2>2. IsItem(item) /\ item.keys # <<>>
    BY <1>1, <1>5, <2>1 DEF AreItems, IsLookup
  <2>3. /\ Len(item.keys) \in Nat /\ DOMAIN item.keys = 1 .. Len(item.keys)
        /\ 1 \in DOMAIN item.keys
    BY <2>2, PlacesOf DEF IsItem
  <2>4. PICK w : w = Wrapped(item)
    OBVIOUS
  <2>5. /\ w = [k \in 1 .. Len(item.keys) |-> w[k]]
        /\ \A k \in 1 .. Len(item.keys) :
             w[k] = [url |-> item.kas.url, kid |-> item.keys[k].kid, sid |-> item.sid]
    BY <2>3, <2>4 DEF Wrapped
  <2>6. IsSequence(w)
    BY <2>3, <2>5, Listed
  <2>7. DOMAIN w = 1 .. Len(item.keys)
    BY <2>5
  <2>8. ToSet(w) # {}
    BY <2>3, <2>7 DEF ToSet
  <2>9. \A k \in DOMAIN w : IsFor(w[k], item)
    <3>1. item.kas.kind # "mapped"
      BY <1>5, <2>1, <2>2 DEF IsItem
    <3>2. HoldersFor(item) = {item.kas.url}
      BY <1>5, <2>1 DEF HoldersFor
    <3> SUFFICES ASSUME NEW k \in DOMAIN w PROVE IsFor(w[k], item)
      OBVIOUS
    <3>4. w[k] = [url |-> item.kas.url, kid |-> item.keys[k].kid, sid |-> item.sid]
      BY <2>5, <2>7, Zenon
    <3>3. w[k].url = item.kas.url /\ w[k].sid = item.sid
      BY <3>4
    <3> QED
      BY <3>1, <3>2, <3>3 DEF IsFor
  <2>10. Len(w) = Len(item.keys)
    BY <2>3, <2>5
  <2> QED
    BY <2>1, <2>4, <2>6, <2>8, <2>9, <2>10 DEF ToSet
<1> DEFINE each == [k \in 1 .. n |-> Wrapped(items[from + k - 1])]
           S == UNION {ToSet(each[k]) : k \in 1 .. n}
<1>6. Enclosed(items, from, to) = FlattenSeq(each)
  BY <1>3 DEF Enclosed
<1>7. \A k \in 1 .. n : each[k] = Wrapped(items[from + k - 1]) /\ IsSequence(each[k])
  BY <1>1, <1>4, <1>5
<1>8. each = [k \in 1 .. n |-> each[k]]
  OBVIOUS
<1> HIDE DEF each
<1>9. \A k \in 1 .. n : each[k] \in Seq(S)
  <2> SUFFICES ASSUME NEW k \in 1 .. n PROVE each[k] \in Seq(S)
    OBVIOUS
  <2>1. ToSet(each[k]) \subseteq S
    OBVIOUS
  <2> HIDE DEF S
  <2> QED
    BY <2>1, <1>7, WiderElements DEF IsSequence
<1> HIDE DEF S
<1>10. each \in [1 .. n -> Seq(S)]
  BY <1>8, <1>9
<1>11. /\ FlattenSeq(each) \in Seq(S)
       /\ \A y : y \in ToSet(FlattenSeq(each)) <=> \E k \in 1 .. n : y \in ToSet(each[k])
  BY <1>4, <1>10, FlattenedElements
<1>12. IsSequence(Enclosed(items, from, to))
  BY <1>6, <1>11, OwnElements
<1>13. \A y : y \in ToSet(Enclosed(items, from, to)) <=>
         \E i \in from .. to - 1 : y \in ToSet(Wrapped(items[i]))
  <2>1. \A y : y \in ToSet(Enclosed(items, from, to)) <=>
          \E k \in 1 .. n : y \in ToSet(Wrapped(items[from + k - 1]))
    BY <1>6, <1>7, <1>11, Zenon
  <2> QED
    BY <2>1, <1>4
<1>14. \A i \in from .. to - 1 : i \in DOMAIN items /\ ~IsLookup(items[i])
  BY <1>1, <1>2, <1>4
<1>15. PICK objects : objects = Enclosed(items, from, to)
  OBVIOUS
<1>16. objects \in Seq(S) /\ objects = FlattenSeq(each)
  BY <1>6, <1>11, <1>15
<1>17. Len(objects) \in Nat /\ DOMAIN objects = 1 .. Len(objects)
  BY <1>16
<1>18. each \in Seq(Seq(S)) /\ Len(each) = n
  BY <1>4, <1>10
<1>19. PICK start : IsLayout(start, each)
  BY <1>18, FlattenPlaces
<1>20. ASSUME NEW p \in DOMAIN objects
       PROVE  \E i \in 1 .. n : \E k \in 1 .. Len(each[i]) :
                p = start[i] + k /\ objects[p] = each[i][k]
  <2>1. PICK i \in 1 .. n : \E k \in 1 .. Len(each[i]) : p = start[i] + k
    BY <1>16, <1>17, <1>18, <1>19 DEF IsLayout
  <2>2. PICK k \in 1 .. Len(each[i]) : p = start[i] + k
    BY <2>1
  <2>3. objects[p] = each[i][k]
    BY <2>1, <2>2, <1>16, <1>18, <1>19 DEF IsLayout
  <2> QED
    BY <2>2, <2>3
<1> DEFINE Of(p) == CHOOSE i \in 1 .. n : \E k \in 1 .. Len(each[i]) :
                      p = start[i] + k /\ objects[p] = each[i][k]
<1>21. ASSUME NEW p \in DOMAIN objects
       PROVE  Of(p) \in 1 .. n /\ \E k \in 1 .. Len(each[Of(p)]) :
                p = start[Of(p)] + k /\ objects[p] = each[Of(p)][k]
  BY <1>20, Zenon
<1> HIDE DEF Of
<1> DEFINE source == [p \in DOMAIN objects |-> from + Of(p) - 1]
<1>22. IsSource(source, objects, items, from .. to - 1)
  <2>1. ASSUME NEW p \in DOMAIN objects
        PROVE  /\ source[p] = from + Of(p) - 1 /\ source[p] \in from .. to - 1
               /\ each[Of(p)] = Wrapped(items[source[p]])
    BY <1>4, <1>7, <1>21
  <2>2. source \in [DOMAIN objects -> from .. to - 1]
    BY <2>1
  <2> HIDE DEF source
  <2>3. ASSUME NEW p \in DOMAIN objects PROVE IsFor(objects[p], items[source[p]])
    <3>1. PICK w : w = Wrapped(items[source[p]])
      OBVIOUS
    <3>2. IsSequence(w) /\ \A object \in ToSet(w) : IsFor(object, items[source[p]])
      BY <3>1, <2>1, <1>5, <1>14
    <3>3. PICK k \in 1 .. Len(w) : objects[p] = w[k]
      BY <3>1, <2>1, <1>21
    <3>4. objects[p] \in ToSet(w)
      BY <3>2, <3>3, PlacesOf
    <3> QED
      BY <3>2, <3>4
  <2>4. ASSUME NEW p \in DOMAIN objects, NEW q \in DOMAIN objects, p # q, source[p] = source[q]
        PROVE  Len(items[source[p]].keys) > 1
    <3>1. Of(p) = Of(q) /\ Of(p) \in 1 .. n
      BY <1>4, <1>21, <2>1, <2>4
    <3>2. PICK i : i = Of(p)
      OBVIOUS
    <3>3. PICK k \in 1 .. Len(each[i]) : p = start[i] + k
      BY <3>2, <1>21
    <3>4. PICK l \in 1 .. Len(each[i]) : q = start[i] + l
      BY <3>1, <3>2, <1>21
    <3>5. k # l
      BY <3>3, <3>4, <2>4
    <3>6. Len(each[i]) = Len(items[source[p]].keys) /\ Len(each[i]) \in Nat
      <4>1. IsSequence(each[i])
        BY <3>1, <3>2, <1>7
      <4>2. Len(each[i]) \in Nat
        BY <4>1, PlacesOf
      <4> QED
        BY <4>2, <3>2, <2>1, <1>5, <1>14
    <3> QED
      BY <3>3, <3>4, <3>5, <3>6
  <2> QED
    BY <2>2, <2>3, <2>4 DEF IsSource
<1> HIDE DEF source
<1> QED
  BY <1>5, <1>12, <1>13, <1>14, <1>15, <1>22

(* The objects go on with those of enclosed keys.                            *)
LEMMA EnclosedCovers ==
  \A objects, items, from, to :
    /\ AreItems(items) /\ from \in 1 .. Len(items) + 1 /\ to \in from .. Len(items) + 1
    /\ \A i \in from .. to - 1 : ~IsLookup(items[i])
    /\ Covers(objects, items, from - 1)
    => Covers(objects \o Enclosed(items, from, to), items, to - 1)
<1>1. SUFFICES ASSUME NEW objects, NEW items, NEW from, NEW to, AreItems(items),
                      from \in 1 .. Len(items) + 1, to \in from .. Len(items) + 1,
                      \A i \in from .. to - 1 : ~IsLookup(items[i]),
                      Covers(objects, items, from - 1)
      PROVE  Covers(objects \o Enclosed(items, from, to), items, to - 1)
  OBVIOUS
<1>2. PICK more : more = Enclosed(items, from, to)
  OBVIOUS
<1>3. /\ IsSequence(more)
      /\ \A i \in from .. to - 1 : \E object \in ToSet(more) : IsFor(object, items[i])
      /\ \E source : IsSource(source, more, items, from .. to - 1)
  BY <1>1, <1>2, EnclosedAre
<1>4. PICK S : S = ToSet(objects) \cup ToSet(more)
  OBVIOUS
<1>5. objects \in Seq(S) /\ more \in Seq(S)
  BY <1>1, <1>3, <1>4, WiderElements DEF Covers, IsSequence
<1>6. objects \o more \in Seq(S) /\ ToSet(objects \o more) = ToSet(objects) \cup ToSet(more)
  BY <1>5, ConcatFacts, Disjoined
<1>7. IsSequence(objects \o more)
  BY <1>6, OwnElements
<1>8. Len(items) \in Nat
  BY <1>1, PlacesOf DEF AreItems
<1>9. \A i \in 1 .. to - 1 : i \in 1 .. from - 1 \/ i \in from .. to - 1
  BY <1>1, <1>8
<1>10. /\ \A i \in from .. to - 1 : i \in 1 .. to - 1
       /\ \A i \in 1 .. from - 1 : i \in 1 .. to - 1
  BY <1>1, <1>8
<1>11. \A i \in 1 .. to - 1 : \E object \in ToSet(objects \o more) : IsFor(object, items[i])
  <2> SUFFICES ASSUME NEW i \in 1 .. to - 1
      PROVE  \E object \in ToSet(objects) \cup ToSet(more) : IsFor(object, items[i])
    BY <1>6
  <2>1. CASE i \in 1 .. from - 1
    BY <2>1, <1>1 DEF Covers
  <2>2. CASE i \in from .. to - 1
    BY <2>2, <1>3
  <2> QED
    BY <2>1, <2>2, <1>9
<1>12. PICK one : IsSource(one, objects, items, 1 .. from - 1)
  BY <1>1 DEF Covers
<1>13. PICK other : IsSource(other, more, items, from .. to - 1)
  BY <1>3
<1>14. PICK n, m : n = Len(objects) /\ m = Len(more)
  OBVIOUS
<1>15. PICK both : both = objects \o more
  OBVIOUS
<1>16. /\ n \in Nat /\ m \in Nat
       /\ DOMAIN objects = 1 .. n /\ DOMAIN more = 1 .. m /\ DOMAIN both = 1 .. n + m
       /\ \A k \in 1 .. n : both[k] = objects[k]
       /\ \A k \in 1 .. m : both[n + k] = more[k]
  BY <1>5, <1>14, <1>15
<1> DEFINE source == [k \in 1 .. n + m |-> IF k \in 1 .. n THEN one[k] ELSE other[k - n]]
<1>17. ASSUME NEW k \in 1 .. n + m
       PROVE  \/ /\ k \in 1 .. n /\ source[k] = one[k] /\ both[k] = objects[k]
                 /\ source[k] \in 1 .. from - 1
              \/ /\ k - n \in 1 .. m /\ source[k] = other[k - n] /\ both[k] = more[k - n]
                 /\ source[k] \in from .. to - 1
  <2>1. CASE k \in 1 .. n
    <3>1. source[k] = one[k]
      BY <2>1
    <3> HIDE DEF source
    <3> QED
      BY <3>1, <2>1, <1>12, <1>16 DEF IsSource
  <2>2. CASE k \notin 1 .. n
    <3>1. source[k] = other[k - n]
      BY <2>2
    <3>2. k - n \in 1 .. m /\ n + (k - n) = k
      BY <2>2, <1>16
    <3> HIDE DEF source
    <3> QED
      BY <3>1, <3>2, <1>13, <1>16 DEF IsSource
  <2> QED
    BY <2>1, <2>2
<1>18. IsSource(source, both, items, 1 .. to - 1)
  <2>1. source \in [DOMAIN both -> 1 .. to - 1]
    <3>1. DOMAIN both = 1 .. n + m /\ \A k \in 1 .. n + m : source[k] \in 1 .. to - 1
      BY <1>10, <1>16, <1>17
    <3> QED
      BY <3>1
  <2> HIDE DEF source
  <2>2. ASSUME NEW k \in 1 .. n + m PROVE IsFor(both[k], items[source[k]])
    BY <1>12, <1>13, <1>16, <1>17 DEF IsSource
  <2>3. ASSUME NEW k \in 1 .. n + m, NEW l \in 1 .. n + m, k # l, source[k] = source[l]
        PROVE  Len(items[source[k]].keys) > 1
    <3>1. ~(source[k] \in 1 .. from - 1 /\ source[k] \in from .. to - 1)
      BY <1>1, <1>8
    <3>2. CASE k \in 1 .. n /\ source[k] = one[k] /\ source[k] \in 1 .. from - 1
      <4>1. l \in 1 .. n /\ source[l] = one[l]
        BY <3>1, <3>2, <2>3, <1>17
      <4> QED
        BY <3>2, <4>1, <2>3, <1>12, <1>16, Zenon DEF IsSource
    <3>3. CASE k - n \in 1 .. m /\ source[k] = other[k - n] /\ source[k] \in from .. to - 1
      <4>1. l - n \in 1 .. m /\ source[l] = other[l - n]
        BY <3>1, <3>3, <2>3, <1>17
      <4>2. k - n # l - n
        BY <2>3, <1>16
      <4> QED
        BY <3>3, <4>1, <4>2, <2>3, <1>13, <1>16, Zenon DEF IsSource
    <3> QED
      BY <3>2, <3>3, <1>17
  <2> QED
    BY <2>1, <2>2, <2>3, <1>16 DEF IsSource
<1> HIDE DEF source
<1> QED
  BY <1>2, <1>7, <1>11, <1>15, <1>18 DEF Covers

(* One more object, for the item that was looked up.                         *)
LEMMA ObjectCovers ==
  \A objects, items, at, object :
    at \in Nat \ {0} /\ Covers(objects, items, at - 1) /\ IsFor(object, items[at])
    => Covers(Append(objects, object), items, at)
<1>1. SUFFICES ASSUME NEW objects, NEW items, NEW at \in Nat \ {0}, NEW object,
                      Covers(objects, items, at - 1), IsFor(object, items[at])
      PROVE  Covers(Append(objects, object), items, at)
  OBVIOUS
<1>2. PICK more : more = Append(objects, object)
  OBVIOUS
<1>3. /\ IsSequence(more) /\ Len(objects) \in Nat
      /\ DOMAIN more = 1 .. Len(objects) + 1 /\ DOMAIN objects = 1 .. Len(objects)
      /\ \A e \in 1 .. Len(objects) : more[e] = objects[e]
      /\ more[Len(objects) + 1] = object
  BY <1>1, <1>2, AppendOwn DEF Covers
<1>4. ToSet(more) = ToSet(objects) \cup {object}
  <2>1. \A e \in 1 .. Len(objects) + 1 : more[e] \in ToSet(objects) \cup {object}
    <3> SUFFICES ASSUME NEW e \in 1 .. Len(objects) + 1
        PROVE  more[e] \in ToSet(objects) \cup {object}
      OBVIOUS
    <3>1. CASE e = Len(objects) + 1
      BY <3>1, <1>3
    <3>2. CASE e # Len(objects) + 1
      <4>1. e \in 1 .. Len(objects)
        BY <3>2, <1>3
      <4> QED
        BY <4>1, <1>3 DEF ToSet
    <3> QED
      BY <3>1, <3>2
  <2>2. ToSet(objects) \subseteq ToSet(more)
    BY <1>3 DEF ToSet
  <2>3. object \in ToSet(more)
    BY <1>3 DEF ToSet
  <2>4. ToSet(more) \subseteq ToSet(objects) \cup {object}
    BY <1>3, <2>1 DEF ToSet
  <2> QED
    BY <2>2, <2>3, <2>4
<1>5. \A i \in 1 .. at : i = at \/ i \in 1 .. at - 1
  OBVIOUS
<1>6. at \in 1 .. at /\ \A i \in 1 .. at - 1 : i \in 1 .. at
  OBVIOUS
<1>7. PICK n : n = Len(objects)
  OBVIOUS
<1>8. PICK one : IsSource(one, objects, items, 1 .. at - 1)
  BY <1>1 DEF Covers
<1> DEFINE source == [k \in 1 .. n + 1 |-> IF k = n + 1 THEN at ELSE one[k]]
<1>9. ASSUME NEW k \in 1 .. n + 1
      PROVE  \/ k = n + 1 /\ source[k] = at /\ more[k] = object
             \/ /\ k \in 1 .. n /\ source[k] = one[k] /\ more[k] = objects[k]
                /\ source[k] \in 1 .. at - 1
  <2>1. CASE k = n + 1
    BY <2>1, <1>3, <1>7
  <2>2. CASE k # n + 1
    <3>1. source[k] = one[k] /\ k \in 1 .. n
      BY <2>2, <1>3, <1>7
    <3> HIDE DEF source
    <3> QED
      BY <3>1, <1>3, <1>7, <1>8 DEF IsSource
  <2> QED
    BY <2>1, <2>2
<1>10. IsSource(source, more, items, 1 .. at)
  <2>1. source \in [DOMAIN more -> 1 .. at]
    <3>1. DOMAIN more = 1 .. n + 1 /\ \A k \in 1 .. n + 1 : source[k] \in 1 .. at
      BY <1>3, <1>6, <1>7, <1>9
    <3> QED
      BY <3>1
  <2> HIDE DEF source
  <2>2. ASSUME NEW k \in 1 .. n + 1 PROVE IsFor(more[k], items[source[k]])
    BY <1>1, <1>3, <1>7, <1>8, <1>9 DEF IsSource
  <2>3. ASSUME NEW k \in 1 .. n + 1, NEW l \in 1 .. n + 1, k # l, source[k] = source[l]
        PROVE  Len(items[source[k]].keys) > 1
    <3>1. at \notin 1 .. at - 1
      OBVIOUS
    <3>2. /\ k \in 1 .. n /\ source[k] = one[k] /\ l \in 1 .. n /\ source[l] = one[l]
      BY <3>1, <2>3, <1>9
    <3> QED
      BY <3>2, <2>3, <1>3, <1>7, <1>8, Zenon DEF IsSource
  <2> QED
    BY <2>1, <2>2, <2>3, <1>3, <1>7 DEF IsSource
<1> HIDE DEF source
<1> QED
  BY <1>1, <1>2, <1>3, <1>4, <1>5, <1>6, <1>10 DEF Covers

-----------------------------------------------------------------------------
(* What a call has done for its plan, and what of it is in the cache.        *)
PutAsk(holder) ==
  [kas |-> holder.url, alg |-> holder.keys[1].declared, kid |-> holder.keys[1].kid]
HasPut(keys, n) == \A i \in 1 .. n : Found(PutAsk(keys[i])) # {}

PutsKeys(r, keys) == r.at \in 1 .. Len(keys) /\ HasPut(keys, r.at)

OnItems(r) ==
  /\ AreItems(r.items)
  /\ r.at \in DOMAIN r.items /\ IsLookup(r.items[r.at])
  /\ r.entry \in Found(r.items[r.at].ask)
  /\ Covers(r.keyAccess, r.items, r.at - 1)

WrapsFor(r, fqns) ==
  /\ r.stage \in {"new", "own", "hydrating"} => r.fetched = <<>>
  /\ r.stage \in {"new", "own", "hydrating", "effective"} => r.keyAccess = <<>>
  /\ r.stage = "effective" => PutsKeys(r, EffectiveKeys(ValuesOf(fqns)))
  /\ r.stage = "items" => OnItems(r)
  /\ r.stage = "done" => AreItems(r.items) /\ Covers(r.keyAccess, r.items, Len(r.items))

ValuesOfCall(r, s) == IF s.attributeValues = Absent THEN r.fetched ELSE s.attributeValues

WrapInv ==
  /\ PlanInv /\ CacheSound
  /\ \A c \in Calls : WrapsFor(call[c], ValuesOfCall(call[c], ScopeOf(c)))

(* What is done stays done while the cache grows.                            *)
LEMMA GrowsKeepsItems ==
  ASSUME Grows
  PROVE  \A item : /\ IsItem(item) => IsItem(item)'
                   /\ \A object : IsFor(object, item)' <=> IsFor(object, item)
<1>1. UNCHANGED scenario
  BY DEF Grows
<1>2. Mapped' = Mapped
  BY <1>1 DEF Mapped
<1>3. ASSUME NEW item, IsItem(item) PROVE IsItem(item)'
  <2>1. Found(item.ask) # {} => Found(item.ask)' # {}
    BY GrowsKeepsFound
  <2>2. /\ AskedByHand(item.ask)' <=> AskedByHand(item.ask)
        /\ Undeclared(item.ask)' <=> Undeclared(item.ask)
    BY <1>1, SameScenario
  <2> QED
    BY <1>2, <1>3, <2>1, <2>2 DEF IsItem
<1>4. ASSUME NEW item, NEW object PROVE IsFor(object, item)' <=> IsFor(object, item)
  <2>1. AskedByHand(item.ask)' <=> AskedByHand(item.ask)
    BY <1>1, SameScenario
  <2>2. HoldersFor(item)' = HoldersFor(item)
    BY <1>1 DEF HoldersFor
  <2> QED
    BY <2>1, <2>2 DEF IsFor
<1> QED
  BY <1>3, <1>4

(* The same of items, objects and keys put.                                  *)
LEMMA GrowsKeepsWork ==
  ASSUME Grows
  PROVE  /\ \A items : AreItems(items) => AreItems(items)'
         /\ \A objects, items, n : Covers(objects, items, n) => Covers(objects, items, n)'
         /\ \A keys, n : HasPut(keys, n) => HasPut(keys, n)'
         /\ \A fqns : ValuesOf(fqns)' = ValuesOf(fqns)
<1>1. \A items : AreItems(items) => AreItems(items)'
  BY GrowsKeepsItems DEF AreItems
<1>2. ASSUME NEW objects, NEW items, NEW n, Covers(objects, items, n)
      PROVE  Covers(objects, items, n)'
  <2>1. \A object, item : IsFor(object, item)' <=> IsFor(object, item)
    BY GrowsKeepsItems
  <2>2. \A source : IsSource(source, objects, items, 1 .. n) =>
                     IsSource(source, objects, items, 1 .. n)'
    BY <2>1, Zenon DEF IsSource
  <2> QED
    BY <1>2, <2>1, <2>2, Zenon DEF Covers
<1>3. ASSUME NEW keys, NEW n, HasPut(keys, n) PROVE HasPut(keys, n)'
  <2> SUFFICES ASSUME NEW i \in 1 .. n PROVE Found(PutAsk(keys[i]))' # {}
    BY DEF HasPut
  <2>1. PICK ask : ask = PutAsk(keys[i])
    OBVIOUS
  <2>2. PICK e : e \in Found(ask)
    BY <1>3, <2>1 DEF HasPut
  <2>3. e \in Found(ask)'
    BY <2>2, GrowsKeepsFound
  <2> QED
    BY <2>1, <2>3 DEF Found
<1>4. \A fqns : ValuesOf(fqns)' = ValuesOf(fqns)
  BY DEF Grows, ValuesOf, Value
<1> QED
  BY <1>1, <1>2, <1>3, <1>4

(* The same of all a call has done.                                          *)
LEMMA GrowsKeepsWraps ==
  ASSUME Grows, NEW r, NEW fqns, WrapsFor(r, fqns)
  PROVE  WrapsFor(r, fqns)'
<1>1. PICK keys : keys = EffectiveKeys(ValuesOf(fqns))
  OBVIOUS
<1>2. EffectiveKeys(ValuesOf(fqns))' = keys
  <2>1. ValuesOf(fqns)' = ValuesOf(fqns)
    BY GrowsKeepsWork
  <2> QED
    BY <1>1, <2>1 DEF EffectiveKeys
<1>3. PutsKeys(r, keys) => PutsKeys(r, keys)'
  BY GrowsKeepsWork DEF PutsKeys
<1>4. OnItems(r) => OnItems(r)'
  <2> SUFFICES ASSUME OnItems(r) PROVE OnItems(r)'
    OBVIOUS
  <2>1. AreItems(r.items)' /\ Covers(r.keyAccess, r.items, r.at - 1)'
    BY GrowsKeepsWork DEF OnItems
  <2>2. PICK ask : ask = r.items[r.at].ask
    OBVIOUS
  <2>3. r.entry \in Found(ask)'
    BY <2>2, GrowsKeepsFound DEF OnItems
  <2> QED
    BY <2>1, <2>2, <2>3 DEF OnItems
<1>5. /\ AreItems(r.items) => AreItems(r.items)'
      /\ Covers(r.keyAccess, r.items, Len(r.items)) => Covers(r.keyAccess, r.items, Len(r.items))'
  BY GrowsKeepsWork
<1>6. r.stage = "effective" => PutsKeys(r, EffectiveKeys(ValuesOf(fqns)))'
  BY <1>1, <1>2, <1>3 DEF WrapsFor, PutsKeys, HasPut
<1> QED
  BY <1>4, <1>5, <1>6 DEF WrapsFor

(* Keys of more values come after those that are there.                      *)
LEMMA MoreKeepsWraps ==
  ASSUME PlanInv, NEW r, NEW fqns \in Seq(Fqns), NEW got \in Seq(Fqns), WrapsFor(r, fqns)
  PROVE  WrapsFor(r, fqns \o got)
<1>1. PICK keys, more : /\ keys = EffectiveKeys(ValuesOf(fqns))
                        /\ more = EffectiveKeys(ValuesOf(fqns \o got))
  OBVIOUS
<1>2. /\ Len(keys) <= Len(more) /\ \A i \in 1 .. Len(keys) : more[i] = keys[i]
  BY <1>1, EffectiveKeysStay
<1>3. keys \in Seq(Mapped) /\ more \in Seq(Mapped)
  <2>1. fqns \o got \in Seq(Fqns)
    BY ConcatFacts
  <2> QED
    BY <1>1, <2>1, EffectiveKeysAre
<1>4. Len(keys) \in Nat /\ Len(more) \in Nat
  BY <1>3
<1>5. PutsKeys(r, keys) => PutsKeys(r, more)
  BY <1>2, <1>4 DEF PutsKeys, HasPut
<1> QED
  BY <1>1, <1>5 DEF WrapsFor

(* A key that a policy publishes is put into the cache.                      *)
LEMMA PutWraps ==
  ASSUME CacheSound, UNCHANGED scenario, NEW c, NEW r, IsCall(r), NEW holder,
         Put(c, r, holder)
  PROVE  /\ CacheSound' /\ Grows /\ Found(PutAsk(holder))' # {}
         /\ \E q : /\ Turns(c, q) /\ KeepsLists(q, r) /\ q.stage = r.stage
                   /\ q.at = r.at /\ q.keyAccess = r.keyAccess
<1>1. PICK ask : ask = PutAsk(holder)
  OBVIOUS
<1>2. PICK key : key = [url |-> holder.url, kid |-> holder.keys[1].kid]
  OBVIOUS
<1>3. AwaitEntry(c, r, ask, Resolved(key))
  BY <1>1, <1>2 DEF Put, PutAsk
<1>4. IsSound(NewEntry(ask, Resolved(key)))
  <2>1. PICK entry : entry = NewEntry(ask, Resolved(key))
    OBVIOUS
  <2>2. /\ entry.kas = holder.url /\ entry.kid = holder.keys[1].kid
        /\ entry.state = "resolved" /\ entry.key = key
    BY <1>1, <2>1 DEF NewEntry, Resolved, PutAsk
  <2>3. key.url = holder.url /\ key.kid = holder.keys[1].kid
    BY <1>2
  <2> QED
    BY <2>1, <2>2, <2>3 DEF IsSound, UrlsOf
<1>5. /\ CacheSound' /\ Grows /\ Place(ask) \in Found(ask)'
      /\ call' = [call EXCEPT ![c] = [r EXCEPT !.entry = Place(ask)]]
  BY <1>3, <1>4, AwaitEntryFinds
<1>6. PICK q : q = [r EXCEPT !.entry = Place(ask)]
  OBVIOUS
<1>7. /\ Turns(c, q) /\ KeepsLists(q, r) /\ q.stage = r.stage
      /\ q.at = r.at /\ q.keyAccess = r.keyAccess
  BY <1>5, <1>6 DEF Turns, IsCall, Fields, KeepsLists
<1>8. Found(PutAsk(holder))' # {}
  BY <1>1, <1>5 DEF Found
<1> QED
  BY <1>5, <1>7, <1>8

(* A call that fails has nothing left to wrap.                               *)
LEMMA FailsWraps ==
  ASSUME CacheSound, UNCHANGED scenario, NEW c, NEW r, IsCall(r), NEW error, Fails(c, r, error)
  PROVE  /\ CacheSound' /\ Grows
         /\ \E q : Turns(c, q) /\ KeepsLists(q, r) /\ \A fqns : WrapsFor(q, fqns)'
<1>1. PICK q : Turns(c, q) /\ KeepsLists(q, r) /\ q.stage = "failed"
  BY FailsTurns
<1>2. CacheSound' /\ Grows
  BY GoesGrows DEF Fails, Goes
<1>3. \A fqns : WrapsFor(q, fqns)'
  BY <1>1 DEF WrapsFor
<1> QED
  BY <1>1, <1>2, <1>3

-----------------------------------------------------------------------------
(* The loop over the items.                                                  *)
LEMMA NextLookupIs ==
  \A items, from : from \in Nat \ {0} /\ Len(items) \in Nat =>
    LET lookup == NextLookup(items, from)
    IN \/ /\ lookup = 0
          /\ \A i \in from .. Len(items) : ~IsLookup(items[i])
       \/ /\ lookup \in from .. Len(items) /\ lookup # 0 /\ IsLookup(items[lookup])
          /\ \A i \in from .. lookup - 1 : ~IsLookup(items[i])
<1>1. SUFFICES ASSUME NEW items, NEW from, from \in Nat \ {0}, Len(items) \in Nat
      PROVE
        LET lookup == NextLookup(items, from)
        IN \/ /\ lookup = 0
              /\ \A i \in from .. Len(items) : ~IsLookup(items[i])
           \/ /\ lookup \in from .. Len(items) /\ lookup # 0 /\ IsLookup(items[lookup])
              /\ \A i \in from .. lookup - 1 : ~IsLookup(items[i])
  OBVIOUS
<1> DEFINE I == {i \in from .. Len(items) : IsLookup(items[i])}
<1>2. NextLookup(items, from) = IF I # {} THEN Min(I) ELSE 0
  BY DEF NextLookup, SelectInSubSeq
<1>3. CASE I = {}
  <2>1. \A i \in from .. Len(items) : ~IsLookup(items[i])
    BY <1>3
  <2>2. NextLookup(items, from) = 0
    BY <1>2, <1>3
  <2> QED
    BY <2>1, <2>2
<1>4. CASE I # {}
  <2>1. I \subseteq Nat
    BY <1>1
  <2>2. Min(I) \in I /\ Min(I) \in Nat /\ \A m \in I : Min(I) <= m
    BY <1>4, <2>1, MinIsLeast
  <2>3. PICK m : m = Min(I)
    OBVIOUS
  <2>4. m \in from .. Len(items) /\ m \in Nat /\ IsLookup(items[m])
    BY <2>2, <2>3
  <2>5. ASSUME NEW i \in from .. m - 1 PROVE ~IsLookup(items[i])
    <3>1. i \in from .. Len(items) /\ ~(m <= i)
      BY <1>1, <2>4
    <3> QED
      BY <2>2, <2>3, <3>1
  <2>6. NextLookup(items, from) = m
    BY <1>2, <1>4, <2>3
  <2> QED
    BY <1>1, <2>4, <2>5, <2>6
<1> QED
  BY <1>3, <1>4

(* A promise made for an item: its key is there, or not named, or            *)
(* anybody's.                                                                *)
LEMMA PendingIsSound ==
  ASSUME NEW item, IsItem(item), IsLookup(item), Found(item.ask) = {}
  PROVE  IsSound(NewEntry(item.ask, Pending))
<1>1. PICK ask : ask = item.ask
  OBVIOUS
<1>2. PICK entry : entry = NewEntry(ask, Pending)
  OBVIOUS
<1>3. entry.kas = ask.kas /\ entry.kid = ask.kid /\ entry.state = "pending"
  BY <1>2 DEF NewEntry, Pending
<1>4. ask.kid = Absent \/ AskedByHand(ask) \/ Undeclared(ask)
  BY <1>1 DEF IsItem
<1>5. entry.kid = Absent \/ AskedByHand(entry) \/ Undeclared(entry)
  BY <1>3, <1>4 DEF AskedByHand, Undeclared
<1> QED
  BY <1>1, <1>2, <1>3, <1>5 DEF IsSound

(* The objects of a call cover its items up to the next lookup.              *)
LEMMA RunItemsWraps ==
  ASSUME CacheSound, UNCHANGED scenario, NEW c, NEW r, IsCall(r),
         NEW items, AreItems(items), NEW at \in 1 .. Len(items) + 1,
         Covers(r.keyAccess, items, at - 1), RunItems(c, r, items, at)
  PROVE  /\ CacheSound' /\ Grows
         /\ \E q : Turns(c, q) /\ KeepsLists(q, r) /\ \A fqns : WrapsFor(q, fqns)'
<1>1. PICK lookup : lookup = NextLookup(items, at)
  OBVIOUS
<1>2. Len(items) \in Nat /\ DOMAIN items = 1 .. Len(items) /\ at \in Nat \ {0}
  BY PlacesOf DEF AreItems
<1>3. CASE lookup = 0
  <2>1. PICK objects : objects = r.keyAccess \o Enclosed(items, at, Len(items) + 1)
    OBVIOUS
  <2>2. PICK q : q = [r EXCEPT !.stage = "done", !.items = items, !.keyAccess = objects]
    OBVIOUS
  <2>3. Goes(c, q)
    BY <1>1, <1>3, <2>1, <2>2 DEF RunItems
  <2>4. /\ IsCall(q) /\ KeepsLists(q, r) /\ q.stage = "done"
        /\ q.items = items /\ q.keyAccess = objects
    BY <2>2 DEF IsCall, Fields, KeepsLists
  <2>5. CacheSound' /\ Grows
    BY <2>3, GoesGrows DEF Goes
  <2>6. \A i \in at .. Len(items) : ~IsLookup(items[i])
    BY <1>1, <1>2, <1>3, NextLookupIs
  <2>7. Covers(objects, items, Len(items))
    <3>1. PICK to : to = Len(items) + 1
      OBVIOUS
    <3>2. to \in at .. Len(items) + 1 /\ to - 1 = Len(items)
      BY <1>2, <3>1
    <3>3. Covers(r.keyAccess \o Enclosed(items, at, to), items, to - 1)
      BY <2>6, <3>2, EnclosedCovers
    <3> QED
      BY <2>1, <3>1, <3>2, <3>3
  <2>8. \A fqns : WrapsFor(q, fqns)
    BY <2>4, <2>7 DEF WrapsFor
  <2>9. \A fqns : WrapsFor(q, fqns)'
    BY <2>5, <2>8, GrowsKeepsWraps
  <2>10. Turns(c, q)
    BY <2>3, <2>4 DEF Goes, Turns
  <2> QED
    BY <2>4, <2>5, <2>9, <2>10
<1>4. CASE lookup # 0 /\ IsUnknown(items[lookup])
  <2>1. Fails(c, r, "keyType")
    BY <1>1, <1>4 DEF RunItems
  <2> QED
    BY <2>1, FailsWraps
<1>5. CASE lookup # 0 /\ ~IsUnknown(items[lookup])
  <2>1. PICK objects : objects = r.keyAccess \o Enclosed(items, at, lookup)
    OBVIOUS
  <2>2. PICK s : s = [r EXCEPT !.stage = "items", !.items = items, !.at = lookup,
                               !.keyAccess = objects]
    OBVIOUS
  <2>3. PICK ask : ask = items[lookup].ask
    OBVIOUS
  <2>4. AwaitEntry(c, s, ask, Pending)
    BY <1>1, <1>5, <2>1, <2>2, <2>3 DEF RunItems, Fetch
  <2>5. /\ lookup \in at .. Len(items) /\ IsLookup(items[lookup])
        /\ \A i \in at .. lookup - 1 : ~IsLookup(items[i])
    BY <1>1, <1>2, <1>5, NextLookupIs
  <2>6. lookup \in DOMAIN items /\ lookup \in at .. Len(items) + 1
    BY <1>2, <2>5
  <2>7. Found(ask) = {} => IsSound(NewEntry(ask, Pending))
    BY <2>3, <2>5, <2>6, PendingIsSound DEF AreItems
  <2>8. /\ CacheSound' /\ Grows /\ Place(ask) \in Found(ask)'
        /\ call' = [call EXCEPT ![c] = [s EXCEPT !.entry = Place(ask)]]
    BY <2>4, <2>7, AwaitEntryFinds
  <2>9. PICK q : q = [s EXCEPT !.entry = Place(ask)]
    OBVIOUS
  <2>10. /\ IsCall(s) /\ KeepsLists(s, r) /\ s.stage = "items"
         /\ s.items = items /\ s.at = lookup /\ s.keyAccess = objects
    BY <2>2 DEF IsCall, Fields, KeepsLists
  <2>11. /\ IsCall(q) /\ KeepsLists(q, r) /\ q.stage = "items"
         /\ q.items = items /\ q.at = lookup /\ q.keyAccess = objects /\ q.entry = Place(ask)
    BY <2>9, <2>10 DEF IsCall, Fields, KeepsLists
  <2>12. Covers(objects, items, lookup - 1)
    BY <2>1, <2>5, <2>6, EnclosedCovers
  <2>13. AreItems(items)' /\ Covers(objects, items, lookup - 1)'
    BY <2>8, <2>12, GrowsKeepsWork
  <2>14. OnItems(q)'
    BY <2>3, <2>5, <2>6, <2>8, <2>11, <2>13 DEF OnItems
  <2>15. \A fqns : WrapsFor(q, fqns)'
    BY <2>11, <2>14 DEF WrapsFor
  <2>16. Turns(c, q)
    BY <2>8, <2>9, <2>11 DEF Turns
  <2> QED
    BY <2>8, <2>11, <2>15, <2>16
<1> QED
  BY <1>3, <1>4, <1>5

(* A plan that has no steps goes to the default KAS.                         *)
LEMMA StartItemsWraps ==
  ASSUME CacheSound, UNCHANGED scenario, NEW c, NEW r, IsCall(r), r.keyAccess = <<>>,
         NEW steps, AreItems(steps), StartItems(c, r, steps)
  PROVE  /\ CacheSound' /\ Grows
         /\ \E q : Turns(c, q) /\ KeepsLists(q, r) /\ \A fqns : WrapsFor(q, fqns)'
<1>1. PICK items : items = Items(c, steps)
  OBVIOUS
<1>2. RunItems(c, r, items, 1)
  BY <1>1 DEF StartItems
<1>3. AreItems(items)
  <2>1. CASE steps = <<>>
    <3>1. PICK item : item = DefaultItem(c)
      OBVIOUS
    <3>2. items = <<item>>
      BY <1>1, <2>1, <3>1 DEF Items
    <3>3. item.keys = <<>> /\ item.ask.kid = Absent /\ item.kas.kind = "bare"
      BY <3>1 DEF DefaultItem, Lookup, Bare
    <3>4. IsSequence(<<>>)
      BY DEF IsSequence
    <3>5. IsItem(item)
      BY <3>3, <3>4 DEF IsItem
    <3>6. IsSequence(items) /\ \A i \in DOMAIN items : items[i] = item
      BY <3>2 DEF IsSequence, ToSet
    <3> QED
      BY <3>5, <3>6 DEF AreItems
  <2>2. CASE steps # <<>>
    BY <2>2, <1>1 DEF Items
  <2> QED
    BY <2>1, <2>2
<1>4. 1 \in 1 .. Len(items) + 1
  BY <1>3, PlacesOf DEF AreItems
<1>5. Covers(r.keyAccess, items, 1 - 1)
  <2>1. IsSequence(<<>>) /\ ToSet(<<>>) = {}
    BY DEF IsSequence, ToSet
  <2>2. \A i \in 1 .. 1 - 1 : FALSE
    OBVIOUS
  <2>3. PICK objects : objects = <<>>
    OBVIOUS
  <2>4. DOMAIN objects = {}
    BY <2>3
  <2>5. PICK source : source = [k \in {} |-> 1]
    OBVIOUS
  <2>6. source \in [DOMAIN objects -> 1 .. 1 - 1]
    BY <2>4, <2>5
  <2>7. IsSource(source, objects, items, 1 .. 1 - 1)
    BY <2>4, <2>6, Zenon DEF IsSource
  <2> QED
    BY <2>1, <2>2, <2>3, <2>7 DEF Covers
<1> QED
  BY <1>2, <1>3, <1>4, <1>5, RunItemsWraps

-----------------------------------------------------------------------------
(* The items of a split plan.                                                *)
LEMMA GivenItemsAre ==
  ASSUME PlanInv, NEW c \in Calls, Request(c).splitPlan # Absent
  PROVE  AreItems(GivenItems(c))
<1>1. PICK steps : steps = Request(c).splitPlan
  OBVIOUS
<1>2. PICK items : items = GivenItems(c)
  OBVIOUS
<1>3. IsSequence(steps)
  BY <1>1, ScenarioAssumption DEF PlanInv, IsScenario, Calls, Request
<1>4. PICK n : n = Len(steps)
  OBVIOUS
<1>5. n \in Nat /\ DOMAIN steps = 1 .. n
  BY <1>3, <1>4, PlacesOf
<1>6. /\ items = [i \in 1 .. n |-> items[i]]
      /\ \A i \in 1 .. n :
           items[i] = Lookup(Bare(steps[i].kas), steps[i].sid,
                             [kas |-> steps[i].kas, alg |-> Request(c).alg,
                              kid |-> steps[i].kid])
  BY <1>1, <1>2, <1>5 DEF GivenItems
<1>7. IsSequence(items)
  BY <1>5, <1>6, Listed
<1>8. ASSUME NEW i \in 1 .. n PROVE IsItem(items[i])
  <2>1. PICK item : item = items[i]
    OBVIOUS
  <2>2. /\ item.keys = <<>> /\ item.kas.kind = "bare"
        /\ item.ask.kas = steps[i].kas /\ item.ask.kid = steps[i].kid
    BY <1>6, <2>1 DEF Lookup, Bare
  <2>3. AskedByHand(item.ask)
    <3>1. Given(Request(c).splitPlan) = steps
      BY <1>1 DEF Given
    <3>2. i \in DOMAIN steps
      BY <1>5
    <3> QED
      BY <2>2, <3>1, <3>2 DEF AskedByHand
  <2>4. IsSequence(<<>>)
    BY DEF IsSequence
  <2> QED
    BY <2>1, <2>2, <2>3, <2>4 DEF IsItem
<1>9. DOMAIN items = 1 .. n
  BY <1>6
<1> QED
  BY <1>2, <1>7, <1>8, <1>9 DEF AreItems

(* A step of a plan whose keys have been put becomes an item.                *)
LEMMA ItemOfIs ==
  ASSUME NEW step, NEW alg, IsHolder(step.kas, PlannedKind),
         step.kas.kind = "mapped" => step.kas \in Mapped /\ Found(PutAsk(step.kas)) # {}
  PROVE  IsItem(ItemOf(step, alg))
<1>1. PICK kas : kas = step.kas
  OBVIOUS
<1>2. PICK item : item = ItemOf(step, alg)
  OBVIOUS
<1>3. IsSequence(<<>>)
  BY DEF IsSequence
<1>4. CASE kas.kind = "mapped"
  <2>1. item = Lookup(kas, step.sid, [kas |-> kas.url, alg |-> kas.keys[1].alg,
                                      kid |-> kas.keys[1].kid])
    BY <1>1, <1>2, <1>4 DEF ItemOf, KeyPlace
  <2>2. /\ item.keys = <<>> /\ item.kas = kas
        /\ item.ask = [kas |-> kas.url, alg |-> kas.keys[1].alg, kid |-> kas.keys[1].kid]
    BY <2>1 DEF Lookup
  <2>3. item.ask.kas = kas.url /\ item.ask.kid = kas.keys[1].kid
    BY <2>2
  <2>4. Found(item.ask) # {} \/ Undeclared(item.ask)
    <3>1. CASE kas.keys[1].declared = kas.keys[1].alg
      <4>1. item.ask = PutAsk(kas)
        BY <2>2, <3>1 DEF PutAsk
      <4> QED
        BY <1>1, <1>4, <4>1
    <3>2. CASE kas.keys[1].declared # kas.keys[1].alg
      BY <1>1, <1>4, <2>3, <3>2 DEF Undeclared
    <3> QED
      BY <3>1, <3>2
  <2> QED
    BY <1>1, <1>2, <1>3, <1>4, <2>2, <2>3, <2>4 DEF IsItem, IsLookup
<1>5. CASE kas.kind \in {"bare", "remote", "unknown"}
  <2>1. item = Lookup(kas, step.sid, [kas |-> KeyPlace(kas), alg |-> alg, kid |-> Absent])
    BY <1>1, <1>2, <1>5, Zenon DEF ItemOf
  <2>2. item.keys = <<>> /\ item.kas = kas /\ item.ask.kid = Absent
    BY <2>1 DEF Lookup
  <2> QED
    BY <1>2, <1>3, <1>5, <2>2 DEF IsItem
<1>6. CASE kas.kind = "cached"
  <2>1. item = [kas |-> kas, sid |-> step.sid, ask |-> Absent, keys |-> kas.keys]
    BY <1>1, <1>2, <1>6 DEF ItemOf
  <2>2. item.keys = kas.keys /\ item.kas = kas
    BY <2>1
  <2>3. IsSequence(kas.keys) /\ kas.keys # <<>>
    BY <1>1, <1>6 DEF IsHolder
  <2> QED
    BY <1>2, <1>6, <2>2, <2>3 DEF IsItem, IsLookup
<1> QED
  BY <1>1, <1>4, <1>5, <1>6 DEF IsHolder, PlannedKind, GrantKind

(* By then the keys of all values have been put.                             *)
LEMMA PlannedItemsAre ==
  ASSUME PlanInv, NEW c, NEW fqns \in Seq(Fqns),
         HasPut(EffectiveKeys(ValuesOf(fqns)), Len(EffectiveKeys(ValuesOf(fqns))))
  PROVE  AreItems(PlannedItems(c, simplify(Clauses(ValuesOf(fqns)))))
<1>1. PICK values : values = ValuesOf(fqns)
  OBVIOUS
<1>2. PICK clauses : clauses = Clauses(values)
  OBVIOUS
<1>3. PICK steps : steps = simplify(clauses)
  OBVIOUS
<1>4. PICK keys : keys = EffectiveKeys(values)
  OBVIOUS
<1>5. IsPolicy(Directory) /\ values \in Seq(Directory)
  BY <1>1, DirectoryIs
<1>6. AreClauses(clauses, HoldersOf(values))
  BY <1>2, <1>5, PolicyClauses, Zenon
<1>7. PICK m : m = Len(clauses)
  OBVIOUS
<1>8. steps \in Seq([sid : 1 .. m, kas : HoldersOf(values)])
  BY <1>3, <1>6, <1>7, SimplifiedSteps, Zenon
<1>9. /\ keys \in Seq(Mapped)
      /\ \A g \in HoldersOf(values) : g.kind = "mapped" => g \in ToSet(keys)
  BY <1>1, <1>4, EffectiveKeysAre
<1>10. \A g \in ToSet(keys) : g \in Mapped /\ Found(PutAsk(g)) # {}
  BY <1>1, <1>4, <1>9 DEF HasPut, ToSet
<1>11. PICK n : n = Len(steps)
  OBVIOUS
<1>12. /\ n \in Nat /\ DOMAIN steps = 1 .. n
       /\ \A i \in 1 .. n : steps[i].kas \in HoldersOf(values)
  <2>1. PICK S : S = [sid : 1 .. m, kas : HoldersOf(values)]
    OBVIOUS
  <2>2. steps \in Seq(S)
    BY <1>8, <2>1
  <2>3. /\ n \in Nat /\ DOMAIN steps = 1 .. n
        /\ \A i \in 1 .. n : steps[i] \in S
    BY <1>11, <2>2
  <2>4. \A step \in S : step.kas \in HoldersOf(values)
    BY <2>1
  <2> QED
    BY <2>3, <2>4
<1>13. ASSUME NEW i \in 1 .. n PROVE IsItem(ItemOf(steps[i], Request(c).alg))
  <2>1. PICK step : step = steps[i]
    OBVIOUS
  <2>2. step.kas \in HoldersOf(values)
    BY <1>12, <2>1
  <2>3. IsHolder(step.kas, PlannedKind)
    BY <1>6, <2>2 DEF AreClauses
  <2>4. step.kas.kind = "mapped" => step.kas \in Mapped /\ Found(PutAsk(step.kas)) # {}
    BY <1>9, <1>10, <2>2
  <2> QED
    BY <2>1, <2>3, <2>4, ItemOfIs
<1>14. PICK items : items = PlannedItems(c, steps)
  OBVIOUS
<1>15. items = [i \in 1 .. n |-> items[i]] /\ \A i \in 1 .. n : IsItem(items[i])
  BY <1>12, <1>13, <1>14 DEF PlannedItems
<1>16. IsSequence(items) /\ DOMAIN items = 1 .. n
  BY <1>12, <1>15, Listed
<1> QED
  BY <1>1, <1>2, <1>3, <1>14, <1>15, <1>16 DEF AreItems

-----------------------------------------------------------------------------
(* What the handlers make of a call and its keys.                            *)
LEMMA RunEffectiveKeysWraps ==
  ASSUME PlanInv, CacheSound, UNCHANGED scenario, NEW c, NEW r, IsCall(r), r.keyAccess = <<>>,
         NEW fqns \in Seq(Fqns), r.at \in 1 .. Len(EffectiveKeys(ValuesOf(fqns))) + 1,
         HasPut(EffectiveKeys(ValuesOf(fqns)), r.at - 1),
         RunEffectiveKeys(c, r, fqns)
  PROVE  /\ CacheSound' /\ Grows
         /\ \E q : Turns(c, q) /\ KeepsLists(q, r) /\ WrapsFor(q, fqns)'
<1>1. PICK keys : keys = EffectiveKeys(ValuesOf(fqns))
  OBVIOUS
<1>2. PICK at : at = r.at
  OBVIOUS
<1>3. Len(keys) \in Nat /\ at \in Nat /\ at \in 1 .. Len(keys) + 1 /\ HasPut(keys, at - 1)
  <2>1. keys \in Seq(Mapped)
    BY <1>1, EffectiveKeysAre
  <2>2. Len(keys) \in Nat
    BY <2>1
  <2> QED
    BY <1>1, <1>2, <2>2
<1>4. CASE at <= Len(keys)
  <2>1. PICK s : s = [r EXCEPT !.stage = "effective"]
    OBVIOUS
  <2>2. PICK holder : holder = keys[at]
    OBVIOUS
  <2>3. Put(c, s, holder)
    BY <1>1, <1>2, <1>4, <2>1, <2>2 DEF RunEffectiveKeys
  <2>4. /\ IsCall(s) /\ KeepsLists(s, r) /\ s.stage = "effective"
        /\ s.at = at /\ s.keyAccess = <<>>
    BY <1>2, <2>1 DEF IsCall, Fields, KeepsLists
  <2>5. /\ CacheSound' /\ Grows /\ Found(PutAsk(holder))' # {}
        /\ \E q : /\ Turns(c, q) /\ KeepsLists(q, s) /\ q.stage = s.stage
                  /\ q.at = s.at /\ q.keyAccess = s.keyAccess
    BY <2>3, <2>4, PutWraps
  <2>6. PICK q : /\ Turns(c, q) /\ KeepsLists(q, s) /\ q.stage = s.stage
                 /\ q.at = s.at /\ q.keyAccess = s.keyAccess
    BY <2>5
  <2>7. HasPut(keys, at - 1)'
    BY <1>3, <2>5, GrowsKeepsWork
  <2>8. \A i \in 1 .. at : i = at \/ i \in 1 .. at - 1
    BY <1>3
  <2>9. HasPut(keys, at)'
    <3> SUFFICES ASSUME NEW i \in 1 .. at PROVE Found(PutAsk(keys[i]))' # {}
      BY DEF HasPut, Found
    <3>1. CASE i = at
      BY <3>1, <2>2, <2>5
    <3>2. CASE i \in 1 .. at - 1
      BY <3>2, <2>7 DEF HasPut
    <3> QED
      BY <3>1, <3>2, <2>8
  <2>10. at \in 1 .. Len(keys)
    BY <1>3, <1>4
  <2>11. PutsKeys(q, keys)'
    BY <2>4, <2>6, <2>9, <2>10 DEF PutsKeys
  <2>12. EffectiveKeys(ValuesOf(fqns))' = keys
    <3>1. ValuesOf(fqns)' = ValuesOf(fqns)
      BY <2>5, GrowsKeepsWork
    <3> QED
      BY <1>1, <3>1 DEF EffectiveKeys
  <2>13. PutsKeys(q, EffectiveKeys(ValuesOf(fqns)))'
    BY <2>11, <2>12 DEF PutsKeys, HasPut
  <2>14. q.stage = "effective" /\ q.keyAccess = <<>> /\ KeepsLists(q, r)
    BY <2>4, <2>6 DEF KeepsLists
  <2>15. WrapsFor(q, fqns)'
    BY <2>13, <2>14 DEF WrapsFor
  <2> QED
    BY <2>5, <2>6, <2>14, <2>15
<1>5. CASE ~(at <= Len(keys)) /\ \E value \in ToSet(ValuesOf(fqns)) : HasNoAttribute(value)
  <2>1. Fails(c, r, "attribute")
    BY <1>1, <1>2, <1>5, Zenon DEF RunEffectiveKeys
  <2> QED
    BY <2>1, FailsWraps
<1>6. CASE ~(at <= Len(keys)) /\ ~\E value \in ToSet(ValuesOf(fqns)) : HasNoAttribute(value)
  <2>1. PICK s : s = [r EXCEPT !.planned = fqns]
    OBVIOUS
  <2>2. PICK steps : steps = PlannedItems(c, simplify(Clauses(ValuesOf(fqns))))
    OBVIOUS
  <2>3. StartItems(c, s, steps)
    BY <1>1, <1>2, <1>6, <2>1, <2>2, Zenon DEF RunEffectiveKeys
  <2>4. IsCall(s) /\ KeepsLists(s, r) /\ s.keyAccess = <<>>
    BY <2>1 DEF IsCall, Fields, KeepsLists
  <2>5. at - 1 = Len(keys)
    BY <1>3, <1>6
  <2>6. AreItems(steps)
    BY <1>1, <1>3, <2>2, <2>5, PlannedItemsAre
  <2>7. /\ CacheSound' /\ Grows
        /\ \E q : Turns(c, q) /\ KeepsLists(q, s) /\ \A list : WrapsFor(q, list)'
    BY <2>3, <2>4, <2>6, StartItemsWraps
  <2> QED
    BY <2>4, <2>7 DEF KeepsLists
<1> QED
  BY <1>4, <1>5, <1>6

LEMMA CheckValuesWraps ==
  ASSUME PlanInv, CacheSound, UNCHANGED scenario, NEW c, NEW r, IsCall(r), r.keyAccess = <<>>,
         NEW fqns \in Seq(Fqns), CheckValues(c, r, fqns)
  PROVE  /\ CacheSound' /\ Grows
         /\ \E q : Turns(c, q) /\ KeepsLists(q, r) /\ WrapsFor(q, fqns)'
<1>1. CASE Complete(r, fqns)
  <2>1. PICK s : s = [r EXCEPT !.at = 1]
    OBVIOUS
  <2>2. RunEffectiveKeys(c, s, fqns)
    BY <1>1, <2>1 DEF CheckValues
  <2>3. IsCall(s) /\ KeepsLists(s, r) /\ s.keyAccess = <<>> /\ s.at = 1
    BY <2>1 DEF IsCall, Fields, KeepsLists
  <2>4. PICK keys : keys = EffectiveKeys(ValuesOf(fqns))
    OBVIOUS
  <2>5. Len(keys) \in Nat
    <3>1. keys \in Seq(Mapped)
      BY <2>4, EffectiveKeysAre
    <3> QED
      BY <3>1
  <2>6. 1 \in 1 .. Len(keys) + 1 /\ HasPut(keys, 1 - 1)
    BY <2>5 DEF HasPut
  <2>7. /\ CacheSound' /\ Grows
        /\ \E q : Turns(c, q) /\ KeepsLists(q, s) /\ WrapsFor(q, fqns)'
    BY <2>2, <2>3, <2>4, <2>6, RunEffectiveKeysWraps
  <2> QED
    BY <2>3, <2>7 DEF KeepsLists
<1>2. CASE ~Complete(r, fqns)
  BY <1>2, FailsWraps DEF CheckValues
<1> QED
  BY <1>1, <1>2

(* A call that has not got to its keys.                                      *)
IsFresh(r) == IsCall(r) /\ r.keyAccess = <<>> /\ r.fetched = <<>>

(* A handler has turned a call on, and the values of its scope are as they   *)
(* were.                                                                     *)
Wraps(c) ==
  /\ CacheSound' /\ Grows
  /\ \E q : /\ Turns(c, q)
            /\ WrapsFor(q, ValuesOfCall(q, ScopeOf(c)))'
            /\ \/ scope' = scope
               \/ \E fqns : scope' = [scope EXCEPT ![Request(c).scope].attributes = fqns]

LEMMA AutoconfigureWraps ==
  ASSUME PlanInv, CacheSound, UNCHANGED scenario, NEW c \in Calls, NEW r, IsFresh(r),
         Autoconfigure(c, r)
  PROVE  Wraps(c)
<1>1. PICK s : s = ScopeOf(c)
  OBVIOUS
<1>2. PICK given : given = Given(s.attributeValues)
  OBVIOUS
<1>3. PICK fqns : fqns = AskedFqns(s)
  OBVIOUS
<1>4. PICK missing : missing = ToSet(fqns) \ ToSet(given)
  OBVIOUS
<1>5. PICK there : there = [r EXCEPT !.fqns = fqns, !.missing = missing]
  OBVIOUS
<1>6. IsCall(there) /\ there.keyAccess = <<>> /\ there.fetched = <<>>
  BY <1>5 DEF IsFresh, IsCall, Fields
<1>7. /\ scope' = [scope EXCEPT ![Request(c).scope].attributes = fqns]
      /\ IF missing = {} THEN CheckValues(c, there, given)
         ELSE IF ~Request(c).hasPlatform THEN Fails(c, there, "platformUrl")
         ELSE Goes(c, [there EXCEPT !.stage = "hydrating"])
  BY <1>1, <1>2, <1>3, <1>4, <1>5, Zenon DEF Autoconfigure, AskedFqns, FqnsWithoutValues
<1>8. Request(c).scope \in DOMAIN scope /\ IsScope(s) /\ given \in Seq(Fqns)
  BY <1>1, <1>2, ScopesAre
<1>9. (ScopeOf(c))'.attributeValues = s.attributeValues
  <2>1. PICK t : t = [s EXCEPT !.attributes = fqns]
    OBVIOUS
  <2>2. scope'[Request(c).scope] = t
    BY <1>1, <1>7, <1>8, <2>1 DEF ScopeOf
  <2>3. t.attributeValues = s.attributeValues
    BY <1>8, <2>1 DEF IsScope
  <2> QED
    BY <2>2, <2>3 DEF ScopeOf, Request
<1>10. ASSUME NEW q, q.fetched = <<>> PROVE ValuesOfCall(q, ScopeOf(c))' = given
  BY <1>2, <1>9, <1>10 DEF ValuesOfCall, Given
<1>11. ASSUME CacheSound', Grows, NEW q, Turns(c, q), q.fetched = <<>>, WrapsFor(q, given)'
       PROVE  Wraps(c)
  <2>1. PICK list : list = ValuesOfCall(q, ScopeOf(c))'
    OBVIOUS
  <2>2. list = given
    BY <1>10, <1>11, <2>1
  <2>3. WrapsFor(q, ValuesOfCall(q, ScopeOf(c)))'
    BY <1>11, <2>1, <2>2 DEF WrapsFor
  <2> QED
    BY <1>7, <1>11, <2>3 DEF Wraps
<1>12. CASE missing = {}
  <2>1. /\ CacheSound' /\ Grows
        /\ \E q : Turns(c, q) /\ KeepsLists(q, there) /\ WrapsFor(q, given)'
    BY <1>6, <1>7, <1>8, <1>12, CheckValuesWraps
  <2> QED
    BY <1>6, <1>11, <2>1 DEF KeepsLists
<1>13. CASE missing # {} /\ ~Request(c).hasPlatform
  <2>1. /\ CacheSound' /\ Grows
        /\ \E q : Turns(c, q) /\ KeepsLists(q, there) /\ \A list : WrapsFor(q, list)'
    BY <1>6, <1>7, <1>13, FailsWraps
  <2> QED
    BY <1>6, <1>11, <2>1 DEF KeepsLists
<1>14. CASE missing # {} /\ Request(c).hasPlatform
  <2>1. PICK q : q = [there EXCEPT !.stage = "hydrating"]
    OBVIOUS
  <2>2. Goes(c, q)
    BY <1>7, <1>14, <2>1
  <2>3. IsCall(q) /\ q.stage = "hydrating" /\ q.keyAccess = <<>> /\ q.fetched = <<>>
    BY <1>6, <2>1 DEF IsCall, Fields
  <2>4. CacheSound' /\ Grows
    BY <2>2, GoesGrows DEF Goes
  <2>5. Turns(c, q) /\ WrapsFor(q, given)'
    BY <2>2, <2>3 DEF Goes, Turns, WrapsFor
  <2> QED
    BY <1>11, <2>3, <2>4, <2>5
<1> QED
  BY <1>12, <1>13, <1>14

(* A call that is past its values.                                           *)
LEMMA AnyWraps ==
  ASSUME CacheSound', Grows, UNCHANGED scope, NEW c, NEW q, Turns(c, q),
         \A fqns : WrapsFor(q, fqns)'
  PROVE  Wraps(c)
<1>1. PICK list : list = ValuesOfCall(q, ScopeOf(c))'
  OBVIOUS
<1>2. WrapsFor(q, list)'
  OBVIOUS
<1>3. WrapsFor(q, ValuesOfCall(q, ScopeOf(c)))'
  BY <1>1, <1>2 DEF WrapsFor
<1> QED
  BY <1>3 DEF Wraps

LEMMA PrepareWraps ==
  ASSUME PlanInv, CacheSound, UNCHANGED scenario, NEW c \in Calls, NEW r, IsFresh(r),
         Prepare(c, r)
  PROVE  Wraps(c)
<1>1. PICK there : there = [r EXCEPT !.policy = asPolicy(ScopeOf(c))]
  OBVIOUS
<1>2. IsFresh(there)
  BY <1>1 DEF IsFresh, IsCall, Fields
<1>3. ASSUME NEW steps, AreItems(steps), StartItems(c, there, steps), UNCHANGED scope
      PROVE  Wraps(c)
  <2>1. /\ CacheSound' /\ Grows
        /\ \E q : Turns(c, q) /\ \A fqns : WrapsFor(q, fqns)'
    BY <1>2, <1>3, StartItemsWraps DEF IsFresh
  <2> QED
    BY <1>3, <2>1, AnyWraps
<1>4. CASE Request(c).splitPlan # Absent
  BY <1>1, <1>3, <1>4, GivenItemsAre DEF Prepare
<1>5. CASE Request(c).splitPlan = Absent /\ Request(c).autoconfigure
  BY <1>1, <1>2, <1>5, AutoconfigureWraps DEF Prepare
<1>6. CASE Request(c).splitPlan = Absent /\ ~Request(c).autoconfigure
  <2>1. AreItems(<<>>)
    BY DEF AreItems, IsSequence
  <2>2. StartItems(c, there, <<>>) /\ UNCHANGED scope
    BY <1>1, <1>6 DEF Prepare
  <2> QED
    BY <1>3, <2>1, <2>2
<1> QED
  BY <1>4, <1>5, <1>6

LEMMA RunOwnKeysWraps ==
  ASSUME PlanInv, CacheSound, UNCHANGED scenario, NEW c \in Calls, NEW r, IsFresh(r),
         RunOwnKeys(c, r)
  PROVE  Wraps(c)
<1>1. CASE \E holder : Put(c, [r EXCEPT !.stage = "own"], holder) /\ UNCHANGED scope
  <2>1. PICK s : s = [r EXCEPT !.stage = "own"]
    OBVIOUS
  <2>2. IsFresh(s) /\ s.stage = "own"
    BY <2>1 DEF IsFresh, IsCall, Fields
  <2>3. PICK holder : Put(c, s, holder) /\ UNCHANGED scope
    BY <1>1, <2>1
  <2>4. /\ CacheSound' /\ Grows
        /\ \E q : /\ Turns(c, q) /\ KeepsLists(q, s) /\ q.stage = s.stage
                  /\ q.at = s.at /\ q.keyAccess = s.keyAccess
    BY <2>2, <2>3, PutWraps DEF IsFresh
  <2>5. PICK q : /\ Turns(c, q) /\ KeepsLists(q, s) /\ q.stage = s.stage
                 /\ q.keyAccess = s.keyAccess
    BY <2>4
  <2>6. \A fqns : WrapsFor(q, fqns)'
    BY <2>2, <2>5 DEF WrapsFor, KeepsLists, IsFresh
  <2> QED
    BY <2>3, <2>4, <2>5, <2>6, AnyWraps
<1>2. CASE Prepare(c, r)
  BY <1>2, PrepareWraps
<1> QED
  BY <1>1, <1>2 DEF RunOwnKeys

-----------------------------------------------------------------------------
(* The other calls see the cache grow and their scope completed.             *)
Completed(s, t) ==
  \/ t.attributeValues = s.attributeValues
  \/ /\ s.attributeValues # Absent /\ t.attributeValues # Absent
     /\ \E got \in Seq(Fqns) : t.attributeValues = s.attributeValues \o got

(* Any turn of a call, as the others see it.                                 *)
LEMMA TurnKeepsWraps ==
  ASSUME WrapInv, PlanInv', CacheSound', Grows, NEW c \in Calls, NEW q, Turns(c, q),
         WrapsFor(q, ValuesOfCall(q, ScopeOf(c)))',
         \A i \in DOMAIN scope : Completed(scope[i], scope'[i])
  PROVE  WrapInv'
<1>1. \A d \in Calls : call'[d] = IF d = c THEN q ELSE call[d]
  BY DEF WrapInv, PlanInv, Turns
<1>2. Calls' = Calls
  BY DEF Grows, Calls
<1>3. ASSUME NEW d \in Calls
      PROVE  WrapsFor(call[d], ValuesOfCall(call[d], ScopeOf(d)))' \/ d = c
  <2> SUFFICES ASSUME d # c
      PROVE  WrapsFor(call[d], ValuesOfCall(call[d], ScopeOf(d)))'
    OBVIOUS
  <2>1. PICK r : r = call[d]
    OBVIOUS
  <2>2. call'[d] = r
    BY <1>1, <2>1
  <2>3. PICK s, t : s = ScopeOf(d) /\ t = scope'[Request(d).scope]
    OBVIOUS
  <2>4. (ScopeOf(d))' = t
    BY <2>3 DEF Grows, ScopeOf, Request
  <2>5. IsScope(s) /\ Completed(s, t)
    BY <2>3, ScopesAre DEF WrapInv, ScopeOf
  <2>6. WrapsFor(r, ValuesOfCall(r, s)) /\ IsPlanned(r)
    BY <2>1, <2>3 DEF WrapInv, PlanInv
  <2>7. WrapsFor(r, ValuesOfCall(r, t))
    <3>1. CASE t.attributeValues = s.attributeValues
      BY <2>6, <3>1 DEF ValuesOfCall
    <3>2. CASE /\ s.attributeValues # Absent /\ t.attributeValues # Absent
               /\ \E got \in Seq(Fqns) : t.attributeValues = s.attributeValues \o got
      <4>1. PICK got : got \in Seq(Fqns) /\ t.attributeValues = s.attributeValues \o got
        BY <3>2
      <4>2. PICK fqns : fqns = s.attributeValues
        OBVIOUS
      <4>3. fqns \in Seq(Fqns) /\ WrapsFor(r, fqns)
        BY <2>5, <2>6, <3>2, <4>2 DEF IsScope, ValuesOfCall
      <4>4. WrapsFor(r, fqns \o got)
        BY <4>1, <4>3, MoreKeepsWraps DEF WrapInv
      <4> QED
        BY <3>2, <4>1, <4>2, <4>4 DEF ValuesOfCall
    <3> QED
      BY <2>5, <3>1, <3>2 DEF Completed
  <2>8. PICK list : list = ValuesOfCall(r, t)
    OBVIOUS
  <2>9. WrapsFor(r, list)'
    BY <2>7, <2>8, GrowsKeepsWraps
  <2>10. ValuesOfCall(call[d], ScopeOf(d))' = list
    BY <2>2, <2>4, <2>8 DEF ValuesOfCall
  <2> QED
    BY <2>2, <2>9, <2>10 DEF WrapsFor
<1>4. \A d \in Calls : WrapsFor(call[d], ValuesOfCall(call[d], ScopeOf(d)))'
  <2>1. call'[c] = q
    BY <1>1
  <2>2. PICK list : list = ValuesOfCall(q, ScopeOf(c))'
    OBVIOUS
  <2>3. ValuesOfCall(call[c], ScopeOf(c))' = list
    BY <2>1, <2>2 DEF ValuesOfCall
  <2>4. WrapsFor(q, list)'
    BY <2>2 DEF WrapsFor
  <2>5. WrapsFor(call[c], ValuesOfCall(call[c], ScopeOf(c)))'
    BY <2>1, <2>3, <2>4 DEF WrapsFor
  <2> QED
    BY <1>3, <2>5
<1> QED
  BY <1>2, <1>4 DEF WrapInv

LEMMA WrapsKeepWraps ==
  ASSUME WrapInv, PlanInv', NEW c \in Calls, Wraps(c)
  PROVE  WrapInv'
<1>1. CacheSound' /\ Grows
  BY DEF Wraps
<1>2. PICK q : /\ Turns(c, q)
               /\ WrapsFor(q, ValuesOfCall(q, ScopeOf(c)))'
               /\ \/ scope' = scope
                  \/ \E fqns : scope' = [scope EXCEPT ![Request(c).scope].attributes = fqns]
  BY DEF Wraps
<1>3. ASSUME NEW i \in DOMAIN scope PROVE Completed(scope[i], scope'[i])
  <2>1. CASE scope'[i] = scope[i]
    BY <2>1 DEF Completed
  <2>2. CASE \E fqns : scope'[i] = [scope[i] EXCEPT !.attributes = fqns]
    <3>1. PICK fqns : scope'[i] = [scope[i] EXCEPT !.attributes = fqns]
      BY <2>2
    <3>2. PICK s, t : s = scope[i] /\ t = [s EXCEPT !.attributes = fqns]
      OBVIOUS
    <3>3. IsScope(s)
      BY <3>2 DEF WrapInv, PlanInv
    <3>4. t.attributeValues = s.attributeValues
      BY <3>2, <3>3 DEF IsScope
    <3> QED
      BY <3>1, <3>2, <3>4 DEF Completed
  <2> QED
    BY <1>2, <2>1, <2>2
<1> QED
  BY <1>1, <1>2, <1>3, TurnKeepsWraps

LEMMA HydratedKeepsWraps ==
  ASSUME WrapInv, PlanInv', NEW c \in Calls, Hydrated(c)
  PROVE  WrapInv'
<1>1. PICK s : s = ScopeOf(c)
  OBVIOUS
<1>2. PICK got : got = SetToSeq(call[c].missing \cap scenario.known)
  OBVIOUS
<1>3. PICK given : given = Given(s.attributeValues)
  OBVIOUS
<1>4. PICK fqns : fqns = given \o got
  OBVIOUS
<1>5. PICK place : place = Request(c).scope
  OBVIOUS
<1>6. /\ PlanInv /\ IsScope(s) /\ given \in Seq(Fqns) /\ got \in Seq(Fqns)
      /\ place \in DOMAIN scope /\ scope[place] = s
  BY <1>1, <1>2, <1>3, <1>5, ScopesAre, GotValues DEF WrapInv, ScopeOf
<1>7. /\ call[c].stage = "hydrating"
      /\ scope' = IF s.attributeValues = Absent THEN scope
                  ELSE [scope EXCEPT ![place].attributeValues = fqns]
      /\ CheckValues(c, [call[c] EXCEPT !.fetched = got], fqns)
      /\ UNCHANGED scenario
  BY <1>1, <1>2, <1>3, <1>4, <1>5, Zenon DEF Hydrated
<1>8. PICK r : r = [call[c] EXCEPT !.fetched = got]
  OBVIOUS
<1>9. IsCall(call[c]) /\ call[c].keyAccess = <<>>
  BY <1>7 DEF WrapInv, PlanInv, IsPlanned, WrapsFor
<1>10. IsCall(r) /\ r.keyAccess = <<>> /\ r.fetched = got
  BY <1>8, <1>9 DEF IsCall, Fields
<1>11. fqns \in Seq(Fqns) /\ fqns # Absent
  <2>1. fqns \in Seq(Fqns)
    BY <1>4, <1>6, ConcatFacts
  <2>2. Absent \notin Seq(Fqns)
    BY <1>6, ScenarioAssumption DEF PlanInv, IsScenario, Fqns
  <2> QED
    BY <2>1, <2>2
<1>12. /\ CacheSound' /\ Grows
       /\ \E q : Turns(c, q) /\ KeepsLists(q, r) /\ WrapsFor(q, fqns)'
  BY <1>6, <1>7, <1>8, <1>10, <1>11, CheckValuesWraps DEF WrapInv
<1>13. PICK q : Turns(c, q) /\ q.fetched = got /\ WrapsFor(q, fqns)'
  BY <1>10, <1>12 DEF KeepsLists
<1>14. PICK t : t = [s EXCEPT !.attributeValues = fqns]
  OBVIOUS
<1>15. t.attributeValues = fqns
  BY <1>6, <1>14 DEF IsScope
<1>16. scope' = IF s.attributeValues = Absent THEN scope ELSE [scope EXCEPT ![place] = t]
  BY <1>6, <1>7, <1>14, Zenon
<1>17. \A i \in DOMAIN scope : Completed(scope[i], scope'[i])
  <2>1. CASE s.attributeValues = Absent
    BY <2>1, <1>16 DEF Completed
  <2>2. CASE s.attributeValues # Absent
    <3>1. fqns = s.attributeValues \o got
      BY <2>2, <1>3, <1>4 DEF Given
    <3>2. Completed(s, t)
      BY <2>2, <3>1, <1>6, <1>11, <1>15 DEF Completed
    <3>3. ASSUME NEW i \in DOMAIN scope PROVE Completed(scope[i], scope'[i])
      <4>1. CASE i = place
        BY <2>2, <3>2, <4>1, <1>6, <1>16
      <4>2. CASE i # place
        BY <2>2, <4>2, <1>16 DEF Completed
      <4> QED
        BY <4>1, <4>2
    <3> QED
      BY <3>3
  <2> QED
    BY <2>1, <2>2
<1>18. ValuesOfCall(q, ScopeOf(c))' = fqns
  <2>1. (ScopeOf(c))' = scope'[place]
    BY <1>5, <1>7 DEF ScopeOf, Request
  <2>2. CASE s.attributeValues = Absent
    <3>1. given = <<>>
      BY <2>2, <1>3 DEF Given
    <3>2. fqns = got
      BY <3>1, <1>4, <1>6, SMT
    <3> QED
      BY <2>1, <2>2, <3>2, <1>6, <1>13, <1>16 DEF ValuesOfCall
  <2>3. CASE s.attributeValues # Absent
    BY <2>1, <2>3, <1>6, <1>11, <1>15, <1>16 DEF ValuesOfCall
  <2> QED
    BY <2>2, <2>3
<1>19. WrapsFor(q, ValuesOfCall(q, ScopeOf(c)))'
  <2>1. PICK list : list = ValuesOfCall(q, ScopeOf(c))'
    OBVIOUS
  <2>2. WrapsFor(q, list)'
    BY <2>1, <1>13, <1>18 DEF WrapsFor
  <2> QED
    BY <2>1, <2>2 DEF WrapsFor
<1> QED
  BY <1>12, <1>13, <1>17, <1>19, TurnKeepsWraps

(* The key for an item is there.                                             *)
LEMMA KeyIsForItem ==
  ASSUME PlanInv, NEW item, IsItem(item), IsLookup(item), NEW entry, IsSound(entry),
         Matches(entry, item.ask), entry.state = "resolved",
         NEW object, object.url = entry.key.url, object.kid = entry.key.kid,
         object.sid = item.sid
  PROVE  IsFor(object, item)
<1>1. PICK ask : ask = item.ask
  OBVIOUS
<1>2. /\ entry.kas = ask.kas
      /\ ask.kid # Absent => entry.kid = ask.kid
      /\ entry.key.url \in UrlsOf(ask.kas)
  BY <1>1 DEF Matches, IsSound
<1>3. object.url \in HoldersFor(item)
  BY <1>1, <1>2 DEF HoldersFor, UrlsOf
<1>4. ASSUME item.kas.kind = "mapped", item.kas.keys[1].declared = item.kas.keys[1].alg,
             ~AskedByHand(ask)
      PROVE  object.kid = item.kas.keys[1].kid
  <2>1. PICK g : g = item.kas
    OBVIOUS
  <2>2. g \in Mapped /\ ask.kas = g.url /\ ask.kid = g.keys[1].kid
    BY <1>1, <1>4, <2>1 DEF IsItem
  <2>3. ask.kid # Absent
    BY <2>2, DirectoryIs
  <2>4. entry.kid = ask.kid
    BY <1>2, <2>3
  <2>5. ~AskedByHand(entry)
    BY <1>2, <1>4, <2>4 DEF AskedByHand
  <2>6. ~Undeclared(entry)
    <3> SUFFICES ASSUME NEW h \in Mapped, h.url = entry.kas, h.keys[1].kid = entry.kid
        PROVE  h.keys[1].declared = h.keys[1].alg
      BY DEF Undeclared
    <3>1. h.keys[1] = g.keys[1]
      BY <1>2, <2>2, <2>4, DirectoryIs
    <3> QED
      BY <1>4, <2>1, <3>1
  <2>7. entry.key.kid = entry.kid
    BY <2>3, <2>4, <2>5, <2>6 DEF IsSound
  <2> QED
    BY <2>1, <2>2, <2>4, <2>7
<1> QED
  BY <1>1, <1>3, <1>4 DEF IsFor

LEMMA KeyArrivesKeepsWraps ==
  ASSUME WrapInv, PlanInv', NEW c \in Calls, KeyArrives(c)
  PROVE  WrapInv'
<1>1. PICK old : old = call[c]
  OBVIOUS
<1>2. PICK r : r = [old EXCEPT !.at = @ + 1]
  OBVIOUS
<1>3. /\ IsCall(old) /\ WrapsFor(old, ValuesOfCall(old, ScopeOf(c))) /\ UNCHANGED scenario
      /\ PlanInv /\ CacheSound
  BY <1>1 DEF WrapInv, PlanInv, IsPlanned, KeyArrives
<1>4. /\ IsCall(r) /\ KeepsLists(r, old) /\ r.at = old.at + 1
      /\ r.keyAccess = old.keyAccess /\ r.items = old.items
  BY <1>2, <1>3 DEF IsCall, Fields, KeepsLists
<1>5. CASE old.stage = "own"
  <2>1. RunOwnKeys(c, r)
    BY <1>1, <1>2, <1>5 DEF KeyArrives
  <2>2. IsFresh(r)
    BY <1>3, <1>4, <1>5 DEF WrapsFor, IsFresh, KeepsLists
  <2>3. Wraps(c)
    BY <1>3, <2>1, <2>2, RunOwnKeysWraps
  <2> QED
    BY <2>3, WrapsKeepWraps
<1>6. CASE old.stage = "effective"
  <2>1. PICK s : s = ScopeOf(c)
    OBVIOUS
  <2>2. PICK fqns : fqns = ValuesOfCall(old, s)
    OBVIOUS
  <2>3. RunEffectiveKeys(c, r, fqns) /\ scope' = scope
    BY <1>1, <1>2, <1>6, <2>1, <2>2 DEF KeyArrives, ValuesNow, ValuesOfCall
  <2>4. fqns \in Seq(Fqns)
    BY <1>1, <1>3, <2>1, <2>2, ScopesAre DEF ValuesOfCall, IsScope, PlanInv, IsPlanned
  <2>5. PICK keys : keys = EffectiveKeys(ValuesOf(fqns))
    OBVIOUS
  <2>6. PutsKeys(old, keys) /\ old.keyAccess = <<>>
    BY <1>3, <1>6, <2>1, <2>2, <2>5 DEF WrapsFor
  <2>7. Len(keys) \in Nat
    <3>1. keys \in Seq(Mapped)
      BY <1>3, <2>4, <2>5, EffectiveKeysAre
    <3> QED
      BY <3>1
  <2>8. r.at \in 1 .. Len(keys) + 1 /\ r.at - 1 = old.at
    BY <1>4, <2>6, <2>7 DEF PutsKeys
  <2>9. HasPut(keys, r.at - 1)
    BY <2>6, <2>8 DEF PutsKeys
  <2>10. /\ CacheSound' /\ Grows
         /\ \E q : Turns(c, q) /\ KeepsLists(q, r) /\ WrapsFor(q, fqns)'
    BY <1>3, <1>4, <2>3, <2>4, <2>5, <2>6, <2>8, <2>9, RunEffectiveKeysWraps
  <2>11. PICK q : Turns(c, q) /\ KeepsLists(q, r) /\ WrapsFor(q, fqns)'
    BY <2>10
  <2>12. ValuesOfCall(q, ScopeOf(c))' = fqns
    BY <1>3, <1>4, <2>1, <2>2, <2>3, <2>11 DEF ValuesOfCall, ScopeOf, Request, KeepsLists
  <2>13. WrapsFor(q, ValuesOfCall(q, ScopeOf(c)))'
    <3>1. PICK list : list = ValuesOfCall(q, ScopeOf(c))'
      OBVIOUS
    <3>2. WrapsFor(q, list)'
      BY <2>11, <2>12, <3>1 DEF WrapsFor
    <3> QED
      BY <3>1, <3>2 DEF WrapsFor
  <2>14. Wraps(c)
    BY <2>3, <2>10, <2>11, <2>13 DEF Wraps
  <2> QED
    BY <2>14, WrapsKeepWraps
<1>7. CASE old.stage = "items"
  <2>1. PICK entry, item : entry = cache[old.entry] /\ item = old.items[old.at]
    OBVIOUS
  <2>2. PICK object :
          object = [url |-> entry.key.url, kid |-> entry.key.kid, sid |-> item.sid]
    OBVIOUS
  <2>3. PICK objects : objects = Append(old.keyAccess, object)
    OBVIOUS
  <2>4. PICK s : s = [r EXCEPT !.keyAccess = objects]
    OBVIOUS
  <2>5. RunItems(c, s, r.items, r.at) /\ scope' = scope /\ entry.state = "resolved"
    <3>1. s = [r EXCEPT !.keyAccess = Append(@, object)]
      BY <1>4, <2>3, <2>4
    <3> QED
      BY <1>1, <1>2, <1>7, <2>1, <2>2, <3>1 DEF KeyArrives, Entry
  <2>6. OnItems(old)
    BY <1>3, <1>7 DEF WrapsFor
  <2>7. /\ AreItems(old.items) /\ old.at \in DOMAIN old.items /\ IsLookup(item)
        /\ old.entry \in Found(item.ask) /\ Covers(old.keyAccess, old.items, old.at - 1)
    BY <2>1, <2>6 DEF OnItems
  <2>8. IsItem(item) /\ IsSound(entry) /\ Matches(entry, item.ask)
    BY <1>3, <2>1, <2>7 DEF AreItems, CacheSound, Found
  <2>9. IsFor(object, item)
    <3>1. object.url = entry.key.url /\ object.kid = entry.key.kid /\ object.sid = item.sid
      BY <2>2
    <3> QED
      BY <1>3, <2>5, <2>7, <2>8, <3>1, KeyIsForItem
  <2>10. /\ Len(old.items) \in Nat /\ old.at \in Nat \ {0}
         /\ r.at \in 1 .. Len(old.items) + 1 /\ r.at - 1 = old.at
    <3>1. Len(old.items) \in Nat /\ DOMAIN old.items = 1 .. Len(old.items)
      BY <2>7, PlacesOf DEF AreItems
    <3> QED
      BY <1>4, <2>7, <3>1
  <2>11. Covers(objects, old.items, r.at - 1)
    BY <2>1, <2>3, <2>7, <2>9, <2>10, ObjectCovers
  <2>12. IsCall(s) /\ s.keyAccess = objects
    BY <1>4, <2>4 DEF IsCall, Fields
  <2>13. /\ CacheSound' /\ Grows
         /\ \E q : Turns(c, q) /\ \A fqns : WrapsFor(q, fqns)'
    BY <1>3, <1>4, <2>5, <2>7, <2>10, <2>11, <2>12, RunItemsWraps
  <2>14. Wraps(c)
    BY <2>5, <2>13, AnyWraps
  <2> QED
    BY <2>14, WrapsKeepWraps
<1> QED
  BY <1>1, <1>5, <1>6, <1>7 DEF KeyArrives, WaitsForKey

LEMMA InitWraps == Init => WrapInv
<1> SUFFICES ASSUME Init PROVE WrapInv
  OBVIOUS
<1>1. PlanInv /\ CacheInv
  BY InitPlans, InitCache
<1>2. cache = <<>>
  BY DEF Init
<1>3. CacheSound
  BY <1>1, <1>2 DEF CacheSound
<1>4. ASSUME NEW c \in Calls PROVE WrapsFor(call[c], ValuesOfCall(call[c], ScopeOf(c)))
  <2>1. /\ call[c].stage = "new" /\ call[c].fetched = <<>> /\ call[c].keyAccess = <<>>
    BY DEF Init
  <2> QED
    BY <2>1 DEF WrapsFor
<1> QED
  BY <1>1, <1>3, <1>4 DEF WrapInv

(* Nothing but the cache has changed.                                        *)
LEMMA CallsKeepWraps ==
  ASSUME WrapInv, PlanInv', CacheSound', Grows, UNCHANGED <<scope, call>>
  PROVE  WrapInv'
<1>1. Calls' = Calls
  BY DEF Grows, Calls
<1>2. ASSUME NEW c \in Calls PROVE WrapsFor(call[c], ValuesOfCall(call[c], ScopeOf(c)))'
  <2>1. PICK r, list : r = call[c] /\ list = ValuesOfCall(r, ScopeOf(c))
    OBVIOUS
  <2>2. WrapsFor(r, list)
    BY <2>1 DEF WrapInv
  <2>3. WrapsFor(r, list)'
    BY <2>2, GrowsKeepsWraps
  <2>4. call'[c] = r /\ ValuesOfCall(call[c], ScopeOf(c))' = list
    BY <2>1 DEF Grows, ValuesOfCall, ScopeOf, Request
  <2> QED
    BY <2>3, <2>4 DEF WrapsFor
<1> QED
  BY <1>1, <1>2 DEF WrapInv

LEMMA StepWraps == WrapInv /\ [Next]_vars => WrapInv'
<1> SUFFICES ASSUME WrapInv, [Next]_vars PROVE WrapInv'
  OBVIOUS
<1>0. PlanInv' /\ PlanInv /\ CacheSound
  BY StepPlans DEF WrapInv
<1>1. ASSUME NEW c \in Calls, Start(c) PROVE WrapInv'
  <2>1. PICK r : r = [call[c] EXCEPT !.at = 1]
    OBVIOUS
  <2>2. /\ IsCall(call[c]) /\ call[c].stage = "new"
        /\ WrapsFor(call[c], ValuesOfCall(call[c], ScopeOf(c)))
    BY <1>1 DEF WrapInv, PlanInv, IsPlanned, Start
  <2>3. call[c].keyAccess = <<>> /\ call[c].fetched = <<>>
    BY <2>2 DEF WrapsFor
  <2>4. IsFresh(r)
    BY <2>1, <2>2, <2>3 DEF IsFresh, IsCall, Fields
  <2>5. RunOwnKeys(c, r) /\ UNCHANGED scenario
    BY <1>1, <2>1 DEF Start
  <2>6. Wraps(c)
    BY <1>0, <2>4, <2>5, RunOwnKeysWraps
  <2> QED
    BY <1>0, <2>6, WrapsKeepWraps
<1>2. ASSUME NEW c \in Calls, HydrationFails(c) \/ KeyRefused(c) PROVE WrapInv'
  <2>1. PICK error : Fails(c, call[c], error)
    BY <1>2 DEF HydrationFails, KeyRefused
  <2>2. UNCHANGED <<scenario, scope>> /\ IsCall(call[c])
    BY <1>0, <1>2 DEF HydrationFails, KeyRefused, PlanInv, IsPlanned
  <2>3. /\ CacheSound' /\ Grows
        /\ \E q : Turns(c, q) /\ \A fqns : WrapsFor(q, fqns)'
    BY <1>0, <2>1, <2>2, FailsWraps
  <2>4. Wraps(c)
    BY <2>2, <2>3, AnyWraps
  <2> QED
    BY <1>0, <2>4, WrapsKeepWraps
<1>3. CASE \E c \in Calls : CallStep(c)
  BY <1>0, <1>1, <1>2, <1>3, HydratedKeepsWraps, KeyArrivesKeepsWraps DEF CallStep
<1>4. CASE Network
  BY <1>0, <1>4, NetworkGrows, CallsKeepWraps
<1>5. CASE UNCHANGED vars
  BY <1>0, <1>5, GoesGrows, CallsKeepWraps DEF vars
<1> QED
  BY <1>3, <1>4, <1>5 DEF Next

(* A file has a key access object for each KAS of its split plan and no      *)
(* other, with the very key that a key mapping names: whatever calls share   *)
(* the cache, complete its scope, and in whatever order the keys arrive.     *)
THEOREM FilesAreWrappedAsPlanned == Spec => []WrappedForThePlan
<1>1. Spec => []WrapInv
  BY InitWraps, StepWraps, PTL DEF Spec
<1>2. WrapInv => WrappedForThePlan
  <2> SUFFICES ASSUME WrapInv, NEW c \in Calls, call[c].stage = "done"
      PROVE  LET items == ToSet(call[c].items)
                 objects == ToSet(call[c].keyAccess)
             IN /\ \A item \in items : \E object \in objects : IsFor(object, item)
                /\ \A object \in objects : \E item \in items : IsFor(object, item)
    BY DEF WrappedForThePlan
  <2>1. PICK items, objects : items = call[c].items /\ objects = call[c].keyAccess
    OBVIOUS
  <2>2. AreItems(items) /\ Covers(objects, items, Len(items))
    BY <2>1 DEF WrapInv, WrapsFor
  <2>3. DOMAIN items = 1 .. Len(items)
    BY <2>2, PlacesOf DEF AreItems
  <2>4. \A item \in ToSet(items) : \E object \in ToSet(objects) : IsFor(object, item)
    <3> SUFFICES ASSUME NEW i \in 1 .. Len(items)
        PROVE  \E object \in ToSet(objects) : IsFor(object, items[i])
      BY <2>3 DEF ToSet
    <3> QED
      BY <2>2 DEF Covers
  <2>5. \A object \in ToSet(objects) : \E item \in ToSet(items) : IsFor(object, item)
    <3>1. \A i \in 1 .. Len(items) : items[i] \in ToSet(items)
      BY <2>3 DEF ToSet
    <3>2. PICK source : IsSource(source, objects, items, 1 .. Len(items))
      BY <2>2 DEF Covers
    <3>3. \A k \in DOMAIN objects : \E i \in 1 .. Len(items) : IsFor(objects[k], items[i])
      BY <3>2 DEF IsSource
    <3> QED
      BY <3>1, <3>3 DEF ToSet
  <2> QED
    BY <2>1, <2>4, <2>5
<1> QED
  BY <1>1, <1>2, PTL

-----------------------------------------------------------------------------
(* What a call has under way is what it has planned.                         *)
Autoconfigures(c) == Request(c).splitPlan = Absent /\ Request(c).autoconfigure

PlannedItemsOf(c, fqns) == Items(c, PlannedItems(c, plan(ValuesOf(fqns))))

FollowsPlan(c, r) ==
  Autoconfigures(c) /\ r.stage \in {"items", "done"} =>
    r.items = PlannedItemsOf(c, r.planned)

(* A turn of a call after which it still does.                               *)
StaysOnPlan(c) == \E q : call' = [call EXCEPT ![c] = q] /\ FollowsPlan(c, q)

(* Each of a call's handlers, innermost first: it leaves it on its plan.    *)
LEMMA AwaitEntryFollows ==
  ASSUME NEW c, NEW r, IsCall(r), NEW ask, NEW promise, AwaitEntry(c, r, ask, promise),
         FollowsPlan(c, r)
  PROVE  StaysOnPlan(c)
<1>1. PICK q : q = [r EXCEPT !.entry = Place(ask)]
  OBVIOUS
<1>2. call' = [call EXCEPT ![c] = q]
  BY <1>1 DEF AwaitEntry
<1>3. q.stage = r.stage /\ q.items = r.items /\ q.planned = r.planned
  BY <1>1 DEF IsCall, Fields
<1>4. FollowsPlan(c, q)
  BY <1>3 DEF FollowsPlan
<1> QED
  BY <1>2, <1>4 DEF StaysOnPlan

LEMMA FailsFollows ==
  ASSUME NEW c, NEW r, IsCall(r), NEW error, Fails(c, r, error)
  PROVE  StaysOnPlan(c)
<1>1. PICK q : Turns(c, q) /\ q.stage = "failed"
  BY FailsTurns
<1>2. FollowsPlan(c, q)
  BY <1>1 DEF FollowsPlan
<1> QED
  BY <1>1, <1>2 DEF StaysOnPlan, Turns

LEMMA RunItemsFollows ==
  ASSUME NEW c, NEW r, IsCall(r), NEW items, NEW at, RunItems(c, r, items, at),
         Autoconfigures(c) => items = PlannedItemsOf(c, r.planned)
  PROVE  StaysOnPlan(c)
<1>1. PICK lookup : lookup = NextLookup(items, at)
  OBVIOUS
<1>2. CASE lookup = 0
  <2>1. PICK objects : objects = r.keyAccess \o Enclosed(items, at, Len(items) + 1)
    OBVIOUS
  <2>2. PICK q : q = [r EXCEPT !.stage = "done", !.items = items, !.keyAccess = objects]
    OBVIOUS
  <2>3. Goes(c, q)
    BY <1>1, <1>2, <2>1, <2>2 DEF RunItems
  <2>4. q.items = items /\ q.planned = r.planned
    BY <2>2 DEF IsCall, Fields
  <2>5. FollowsPlan(c, q)
    BY <2>4 DEF FollowsPlan
  <2> QED
    BY <2>3, <2>5 DEF Goes, StaysOnPlan
<1>3. CASE lookup # 0 /\ IsUnknown(items[lookup])
  <2>1. Fails(c, r, "keyType")
    BY <1>1, <1>3 DEF RunItems
  <2> QED
    BY <2>1, FailsFollows
<1>4. CASE lookup # 0 /\ ~IsUnknown(items[lookup])
  <2>1. PICK objects : objects = r.keyAccess \o Enclosed(items, at, lookup)
    OBVIOUS
  <2>2. PICK s : s = [r EXCEPT !.stage = "items", !.items = items, !.at = lookup,
                               !.keyAccess = objects]
    OBVIOUS
  <2>3. Fetch(c, s, items[lookup].ask)
    BY <1>1, <1>4, <2>1, <2>2 DEF RunItems
  <2>4. IsCall(s) /\ s.items = items /\ s.planned = r.planned
    BY <2>2 DEF IsCall, Fields
  <2>5. FollowsPlan(c, s)
    BY <2>4 DEF FollowsPlan
  <2> QED
    BY <2>3, <2>4, <2>5, AwaitEntryFollows DEF Fetch
<1> QED
  BY <1>2, <1>3, <1>4

LEMMA RunEffectiveKeysFollows ==
  ASSUME NEW c, NEW r, IsCall(r), NEW fqns, RunEffectiveKeys(c, r, fqns)
  PROVE  StaysOnPlan(c)
<1>1. PICK values, keys : values = ValuesOf(fqns) /\ keys = EffectiveKeys(values)
  OBVIOUS
<1>2. CASE r.at <= Len(keys)
  <2>1. PICK s : s = [r EXCEPT !.stage = "effective"]
    OBVIOUS
  <2>2. Put(c, s, keys[r.at])
    BY <1>1, <1>2, <2>1 DEF RunEffectiveKeys
  <2>3. IsCall(s) /\ s.stage = "effective"
    BY <2>1 DEF IsCall, Fields
  <2>4. FollowsPlan(c, s)
    BY <2>3 DEF FollowsPlan
  <2> QED
    BY <2>2, <2>3, <2>4, AwaitEntryFollows DEF Put
<1>3. CASE ~(r.at <= Len(keys)) /\ \E value \in ToSet(values) : HasNoAttribute(value)
  <2>1. Fails(c, r, "attribute")
    BY <1>1, <1>3, Zenon DEF RunEffectiveKeys
  <2> QED
    BY <2>1, FailsFollows
<1>4. CASE ~(r.at <= Len(keys)) /\ ~\E value \in ToSet(values) : HasNoAttribute(value)
  <2>1. PICK s : s = [r EXCEPT !.planned = fqns]
    OBVIOUS
  <2>2. PICK items : items = PlannedItemsOf(c, fqns)
    OBVIOUS
  <2>3. RunItems(c, s, items, 1)
    BY <1>1, <1>4, <2>1, <2>2, Zenon DEF RunEffectiveKeys, StartItems, PlannedItemsOf, plan
  <2>4. IsCall(s) /\ s.planned = fqns
    BY <2>1 DEF IsCall, Fields
  <2> QED
    BY <2>2, <2>3, <2>4, RunItemsFollows
<1> QED
  BY <1>2, <1>3, <1>4

LEMMA CheckValuesFollows ==
  ASSUME NEW c, NEW r, IsCall(r), NEW fqns, CheckValues(c, r, fqns)
  PROVE  StaysOnPlan(c)
<1>1. CASE Complete(r, fqns)
  <2>1. PICK s : s = [r EXCEPT !.at = 1]
    OBVIOUS
  <2>2. IsCall(s)
    BY <2>1 DEF IsCall
  <2>3. RunEffectiveKeys(c, s, fqns)
    BY <1>1, <2>1 DEF CheckValues
  <2> QED
    BY <2>2, <2>3, RunEffectiveKeysFollows
<1>2. CASE ~Complete(r, fqns)
  BY <1>2, FailsFollows DEF CheckValues
<1> QED
  BY <1>1, <1>2

LEMMA AutoconfigureFollows ==
  ASSUME NEW c, NEW r, IsCall(r), Autoconfigure(c, r)
  PROVE  StaysOnPlan(c)
<1>1. PICK given : given = Given(ScopeOf(c).attributeValues)
  OBVIOUS
<1>2. PICK fqns : fqns = AskedFqns(ScopeOf(c))
  OBVIOUS
<1>3. PICK missing : missing = ToSet(fqns) \ ToSet(given)
  OBVIOUS
<1>4. PICK there : there = [r EXCEPT !.fqns = fqns, !.missing = missing]
  OBVIOUS
<1>5. IsCall(there)
  BY <1>4 DEF IsCall
<1>6. IF missing = {} THEN CheckValues(c, there, given)
      ELSE IF ~Request(c).hasPlatform THEN Fails(c, there, "platformUrl")
      ELSE Goes(c, [there EXCEPT !.stage = "hydrating"])
  BY <1>1, <1>2, <1>3, <1>4, Zenon DEF Autoconfigure, AskedFqns, FqnsWithoutValues
<1>7. CASE Goes(c, [there EXCEPT !.stage = "hydrating"])
  <2>1. PICK q : q = [there EXCEPT !.stage = "hydrating"]
    OBVIOUS
  <2>2. q.stage = "hydrating"
    BY <1>5, <2>1 DEF IsCall, Fields
  <2>3. FollowsPlan(c, q)
    BY <2>2 DEF FollowsPlan
  <2> QED
    BY <1>7, <2>1, <2>3 DEF Goes, StaysOnPlan
<1> QED
  BY <1>5, <1>6, <1>7, CheckValuesFollows, FailsFollows

LEMMA RunOwnKeysFollows ==
  ASSUME NEW c, NEW r, IsCall(r), RunOwnKeys(c, r)
  PROVE  StaysOnPlan(c)
<1>1. CASE \E holder : Put(c, [r EXCEPT !.stage = "own"], holder)
  <2>1. PICK s : s = [r EXCEPT !.stage = "own"]
    OBVIOUS
  <2>2. IsCall(s) /\ s.stage = "own"
    BY <2>1 DEF IsCall, Fields
  <2>3. FollowsPlan(c, s)
    BY <2>2 DEF FollowsPlan
  <2> QED
    BY <1>1, <2>1, <2>2, <2>3, AwaitEntryFollows DEF Put
<1>2. CASE Prepare(c, r)
  <2>1. PICK there : there = [r EXCEPT !.policy = asPolicy(ScopeOf(c))]
    OBVIOUS
  <2>2. IsCall(there)
    BY <2>1 DEF IsCall
  <2>3. CASE Autoconfigures(c)
    <3>1. Autoconfigure(c, there)
      BY <1>2, <2>1, <2>3 DEF Prepare, Autoconfigures
    <3> QED
      BY <2>2, <3>1, AutoconfigureFollows
  <2>4. CASE ~Autoconfigures(c)
    <3>1. \E steps : StartItems(c, there, steps)
      BY <1>2, <2>1, <2>4 DEF Prepare, Autoconfigures
    <3> QED
      BY <2>2, <2>4, <3>1, RunItemsFollows DEF StartItems
  <2> QED
    BY <2>3, <2>4
<1> QED
  BY <1>1, <1>2 DEF RunOwnKeys

LEMMA CallStepFollows ==
  ASSUME NEW c, IsCall(call[c]), FollowsPlan(c, call[c]), CallStep(c)
  PROVE  StaysOnPlan(c)
<1>1. CASE Start(c)
  <2>1. PICK r : r = [call[c] EXCEPT !.at = 1]
    OBVIOUS
  <2>2. IsCall(r) /\ RunOwnKeys(c, r)
    BY <1>1, <2>1 DEF Start, IsCall
  <2> QED
    BY <2>2, RunOwnKeysFollows
<1>2. CASE Hydrated(c)
  <2>1. PICK got : got = SetToSeq(call[c].missing \cap scenario.known)
    OBVIOUS
  <2>2. PICK r : r = [call[c] EXCEPT !.fetched = got]
    OBVIOUS
  <2>3. IsCall(r) /\ \E fqns : CheckValues(c, r, fqns)
    BY <1>2, <2>1, <2>2 DEF Hydrated, IsCall
  <2> QED
    BY <2>3, CheckValuesFollows
<1>3. CASE HydrationFails(c) \/ KeyRefused(c)
  BY <1>3, FailsFollows DEF HydrationFails, KeyRefused
<1>4. CASE KeyArrives(c)
  <2>1. PICK r : r = [call[c] EXCEPT !.at = @ + 1]
    OBVIOUS
  <2>2. IsCall(r) /\ r.items = call[c].items /\ r.planned = call[c].planned
    BY <2>1 DEF IsCall, Fields
  <2>3. CASE call[c].stage = "own"
    BY <1>4, <2>1, <2>2, <2>3, RunOwnKeysFollows DEF KeyArrives
  <2>4. CASE call[c].stage = "effective"
    BY <1>4, <2>1, <2>2, <2>4, RunEffectiveKeysFollows DEF KeyArrives
  <2>5. CASE call[c].stage = "items"
    <3>1. PICK object : RunItems(c, [r EXCEPT !.keyAccess = Append(@, object)], r.items, r.at)
      BY <1>4, <2>1, <2>5 DEF KeyArrives
    <3>2. PICK s : s = [r EXCEPT !.keyAccess = Append(@, object)]
      OBVIOUS
    <3>3. IsCall(s) /\ s.planned = r.planned
      BY <2>2, <3>2 DEF IsCall, Fields
    <3>4. Autoconfigures(c) => r.items = PlannedItemsOf(c, s.planned)
      BY <2>2, <2>5, <3>3 DEF FollowsPlan
    <3> QED
      BY <3>1, <3>2, <3>3, <3>4, RunItemsFollows
  <2> QED
    BY <1>4, <2>3, <2>4, <2>5 DEF KeyArrives, WaitsForKey
<1> QED
  BY <1>1, <1>2, <1>3, <1>4 DEF CallStep

(* The wrapping is sound, and every call that autoconfigures carries out the *)
(* plan that it made.                                                        *)
PlanFollowed == WrapInv /\ \A c \in Calls : FollowsPlan(c, call[c])

LEMMA InitFollows == Init => PlanFollowed
<1> SUFFICES ASSUME Init PROVE PlanFollowed
  OBVIOUS
<1>1. \A c \in Calls : call[c].stage = "new"
  BY DEF Init
<1>2. \A c \in Calls : FollowsPlan(c, call[c])
  BY <1>1 DEF FollowsPlan
<1> QED
  BY <1>2, InitWraps DEF PlanFollowed

LEMMA StepFollows == PlanFollowed /\ [Next]_vars => PlanFollowed'
<1> SUFFICES ASSUME PlanFollowed, [Next]_vars PROVE PlanFollowed'
  OBVIOUS
<1>1. WrapInv' /\ PlanInv
  BY StepWraps DEF PlanFollowed, WrapInv
<1>2. UNCHANGED scenario
  BY DEF Next, CallStep, Network, Start, Hydrated, HydrationFails, KeyArrives, KeyRefused,
         Fetched, FetchFails, vars
<1>3. ASSUME NEW c, NEW r PROVE FollowsPlan(c, r)' <=> FollowsPlan(c, r)
  BY <1>2 DEF FollowsPlan, Autoconfigures, PlannedItemsOf, PlannedItems, Items, DefaultItem,
              ValuesOf, Value, Request
<1>4. CASE \E c \in Calls : CallStep(c)
  <2>1. PICK c \in Calls : CallStep(c)
    BY <1>4
  <2>2. StaysOnPlan(c)
    BY <1>1, <2>1, CallStepFollows DEF PlanFollowed, PlanInv, IsPlanned
  <2>3. PICK q : call' = [call EXCEPT ![c] = q] /\ FollowsPlan(c, q)
    BY <2>2 DEF StaysOnPlan
  <2>4. ASSUME NEW d \in Calls PROVE FollowsPlan(d, call'[d])
    BY <1>1, <2>3 DEF PlanFollowed, PlanInv
  <2>5. ASSUME NEW d \in Calls PROVE FollowsPlan(d, call[d])'
    <3>1. PICK r : r = call'[d]
      OBVIOUS
    <3>2. FollowsPlan(d, r)'
      BY <2>4, <3>1, <1>3
    <3> QED
      BY <3>1, <3>2 DEF FollowsPlan
  <2> QED
    BY <1>1, <1>2, <2>5 DEF PlanFollowed, Calls
<1>5. CASE UNCHANGED call
  <2>1. ASSUME NEW d \in Calls PROVE FollowsPlan(d, call[d])'
    <3>1. PICK r : r = call[d]
      OBVIOUS
    <3>2. FollowsPlan(d, r)'
      BY <3>1, <1>3 DEF PlanFollowed
    <3> QED
      BY <1>5, <3>1, <3>2 DEF FollowsPlan
  <2> QED
    BY <1>1, <1>2, <2>1 DEF PlanFollowed, Calls
<1> QED
  BY <1>4, <1>5 DEF Next, Network, Fetched, FetchFails, vars

-----------------------------------------------------------------------------
(* Where the steps of a plan come from.                                      *)
SplitSteps(clauses, sid) == StepsOf(sid, clauses[sid])

(* The granters of a clause are of the kind that is planned for.             *)
LEMMA ClauseHeld ==
  \A clauses, holders, i : AreClauses(clauses, holders) /\ i \in DOMAIN clauses =>
    HeldAs(clauses[i], PlannedKind)
<1>1. SUFFICES ASSUME NEW clauses, NEW holders, NEW i, AreClauses(clauses, holders),
                      i \in DOMAIN clauses
      PROVE  HeldAs(clauses[i], PlannedKind)
  OBVIOUS
<1>2. PICK clause : clause = clauses[i]
  OBVIOUS
<1>3. clause \in Seq(holders)
  BY <1>1, <1>2 DEF AreClauses
<1>4. IsSequence(clause) /\ ToSet(clause) \subseteq holders
  BY <1>3, OwnElements
<1> QED
  BY <1>1, <1>2, <1>4, PlacesOf DEF HeldAs, AreClauses

(* The steps of one split come from different places of one clause.          *)
LEMMA SimplifiedPlaces ==
  \A clauses, holders, p, q :
    /\ AreClauses(clauses, holders)
    /\ p \in DOMAIN simplify(clauses) /\ q \in DOMAIN simplify(clauses)
    /\ p # q /\ simplify(clauses)[p].sid = simplify(clauses)[q].sid
    => \E i \in DOMAIN clauses :
         \E k, l \in DOMAIN SplitSteps(clauses, i) :
           /\ k # l
           /\ SplitSteps(clauses, i)[k] = simplify(clauses)[p]
           /\ SplitSteps(clauses, i)[l] = simplify(clauses)[q]
<1>1. SUFFICES ASSUME NEW clauses, NEW holders, NEW p, NEW q,
                      AreClauses(clauses, holders),
                      p \in DOMAIN simplify(clauses), q \in DOMAIN simplify(clauses),
                      p # q, simplify(clauses)[p].sid = simplify(clauses)[q].sid
      PROVE  \E i \in DOMAIN clauses :
               \E k, l \in DOMAIN SplitSteps(clauses, i) :
                 /\ k # l
                 /\ SplitSteps(clauses, i)[k] = simplify(clauses)[p]
                 /\ SplitSteps(clauses, i)[l] = simplify(clauses)[q]
  OBVIOUS
<1>2. PICK n : n = Len(clauses)
  OBVIOUS
<1>3. PICK S : S = [sid : 1 .. n, kas : holders]
  OBVIOUS
<1>4. n \in Nat /\ DOMAIN clauses = 1 .. n
  BY <1>1, <1>2 DEF AreClauses
<1>5. ASSUME NEW i \in 1 .. n
      PROVE  /\ SplitSteps(clauses, i) \in Seq(S)
             /\ \A step \in ToSet(SplitSteps(clauses, i)) : step.sid = i
  <2>1. PICK clause : clause = clauses[i]
    OBVIOUS
  <2>2. HeldAs(clause, PlannedKind)
    BY <1>1, <1>4, <2>1, ClauseHeld
  <2>3. clause \in Seq(holders)
    BY <1>1, <1>4, <2>1 DEF AreClauses
  <2>4. ToSet(clause) \subseteq holders
    BY <2>3, OwnElements
  <2>5. PICK R : R = [sid : {i}, kas : ToSet(clause)]
    OBVIOUS
  <2>6. StepsOf(i, clause) \in Seq(R)
    BY <2>2, <2>5, StepsOfAre
  <2>7. R \subseteq S /\ \A step \in R : step.sid = i
    BY <2>4, <2>5, <1>3
  <2>8. ToSet(StepsOf(i, clause)) \subseteq R
    BY <2>6, OwnElements
  <2>9. StepsOf(i, clause) \in Seq(S)
    BY <2>6, <2>7, WiderElements
  <2> QED
    BY <2>1, <2>7, <2>8, <2>9 DEF SplitSteps
<1> DEFINE each == [i \in DOMAIN clauses |->
                      IF IsKept(clauses, i) THEN StepsOf(SplitName(i), clauses[i]) ELSE <<>>]
<1>6. PICK steps : steps = simplify(clauses)
  OBVIOUS
<1>7. steps = FlattenSeq(each)
  BY <1>6 DEF simplify, IsKept
<1>8. \A i \in 1 .. n :
        each[i] = IF IsKept(clauses, i) THEN SplitSteps(clauses, i) ELSE <<>>
  BY <1>4 DEF SplitName, SplitSteps
<1>9. each = [i \in 1 .. n |-> each[i]]
  BY <1>4
<1> HIDE DEF each
<1>10. ASSUME NEW i \in 1 .. n PROVE each[i] \in Seq(S)
  <2>1. <<>> \in Seq(S)
    OBVIOUS
  <2> QED
    BY <1>5, <1>8, <2>1, Zenon
<1>11. each \in [1 .. n -> Seq(S)]
  BY <1>9, <1>10
<1>12. each \in Seq(Seq(S)) /\ Len(each) = n
  BY <1>4, <1>11
<1>13. steps \in Seq(S)
  BY <1>7, <1>12, FlattenPlaces
<1>14. PICK start : IsLayout(start, each)
  BY <1>12, FlattenPlaces
<1>15. DOMAIN steps = 1 .. Len(steps)
  BY <1>13
<1>16. ASSUME NEW m \in DOMAIN steps
       PROVE  \E i \in 1 .. n : \E k \in DOMAIN SplitSteps(clauses, i) :
                m = start[i] + k /\ steps[m] = SplitSteps(clauses, i)[k]
  <2>1. PICK i \in 1 .. n : \E k \in 1 .. Len(each[i]) : m = start[i] + k
    BY <1>7, <1>12, <1>14, <1>15 DEF IsLayout
  <2>2. PICK k \in 1 .. Len(each[i]) : m = start[i] + k
    BY <2>1
  <2>3. steps[m] = each[i][k]
    BY <2>1, <2>2, <1>7, <1>12, <1>14 DEF IsLayout
  <2>4. each[i] = SplitSteps(clauses, i)
    <3>1. CASE ~IsKept(clauses, i)
      <4>1. Len(each[i]) = 0
        BY <1>8, <3>1
      <4> QED
        BY <2>2, <4>1
    <3>2. CASE IsKept(clauses, i)
      BY <1>8, <3>2
    <3> QED
      BY <3>1, <3>2
  <2>5. k \in DOMAIN each[i]
    BY <1>10
  <2> QED
    BY <2>2, <2>3, <2>4, <2>5
<1>17. PICK i \in 1 .. n : \E k \in DOMAIN SplitSteps(clauses, i) :
                             p = start[i] + k /\ steps[p] = SplitSteps(clauses, i)[k]
  BY <1>1, <1>6, <1>16
<1>18. PICK k \in DOMAIN SplitSteps(clauses, i) :
              p = start[i] + k /\ steps[p] = SplitSteps(clauses, i)[k]
  BY <1>17
<1>19. PICK j \in 1 .. n : \E l \in DOMAIN SplitSteps(clauses, j) :
                             q = start[j] + l /\ steps[q] = SplitSteps(clauses, j)[l]
  BY <1>1, <1>6, <1>16
<1>20. PICK l \in DOMAIN SplitSteps(clauses, j) :
              q = start[j] + l /\ steps[q] = SplitSteps(clauses, j)[l]
  BY <1>19
<1>21. steps[p].sid = i
  BY <1>5, <1>18 DEF ToSet
<1>22. steps[q].sid = j
  BY <1>5, <1>20 DEF ToSet
<1>23. i = j
  BY <1>1, <1>6, <1>21, <1>22
<1>24. k # l
  BY <1>1, <1>18, <1>20, <1>23
<1> QED
  BY <1>4, <1>6, <1>18, <1>20, <1>23, <1>24

(* A granter that encloses several keys has several steps.                   *)
EnclosesSeveral(g) == g.kind = "cached" /\ Len(g.keys) > 1

HasTwoSteps(steps, g) ==
  \E k, l \in DOMAIN steps : k # l /\ steps[k].kas = g /\ steps[l].kas = g

LEMMA EnclosedPlaces ==
  \A sid, granters, g :
    HeldAs(granters, PlannedKind) /\ g \in ToSet(granters) /\ EnclosesSeveral(g)
      => HasTwoSteps(StepsOf(sid, granters), g)
<1>1. SUFFICES ASSUME NEW sid, NEW granters, NEW g, HeldAs(granters, PlannedKind),
                      g \in ToSet(granters), EnclosesSeveral(g)
      PROVE  HasTwoSteps(StepsOf(sid, granters), g)
  OBVIOUS
<1>2. PICK n : n = Len(granters)
  OBVIOUS
<1>3. /\ n \in Nat /\ DOMAIN granters = 1 .. n
      /\ \A i \in 1 .. n : granters[i] \in ToSet(granters) /\ IsHolder(granters[i], PlannedKind)
  BY <1>1, <1>2, PlacesOf DEF HeldAs
<1>4. PICK R : R = [sid : {sid}, kas : ToSet(granters)]
  OBVIOUS
<1> DEFINE Step(i) == [sid |-> sid, kas |-> granters[i]]
           each == [i \in DOMAIN granters |->
                      IF granters[i].kind = "cached"
                        THEN [k \in DOMAIN granters[i].keys |-> Step(i)]
                        ELSE <<Step(i)>>]
<1>5. PICK steps : steps = StepsOf(sid, granters)
  OBVIOUS
<1>6. steps = FlattenSeq(each)
  BY <1>5 DEF StepsOf
<1>7. ASSUME NEW i \in 1 .. n
      PROVE  /\ each[i] \in Seq(R)
             /\ granters[i].kind = "cached" =>
                  /\ Len(each[i]) = Len(granters[i].keys)
                  /\ \A k \in 1 .. Len(granters[i].keys) : each[i][k].kas = granters[i]
  <2>1. PICK s : s = Step(i)
    OBVIOUS
  <2>2. s \in R /\ s.kas = granters[i]
    BY <2>1, <1>3, <1>4
  <2>3. CASE granters[i].kind = "cached"
    <3>1. PICK keys : keys = granters[i].keys
      OBVIOUS
    <3>2. IsSequence(keys)
      BY <2>3, <3>1, <1>3 DEF IsHolder
    <3>3. DOMAIN keys = 1 .. Len(keys) /\ Len(keys) \in Nat
      BY <3>2, PlacesOf
    <3>4. each[i] = [k \in 1 .. Len(keys) |-> s]
      BY <2>1, <2>3, <3>1, <3>3, <1>3
    <3> HIDE DEF each, Step
    <3>5. each[i] \in Seq(R) /\ Len(each[i]) = Len(keys)
      BY <2>2, <3>3, <3>4
    <3>6. \A k \in 1 .. Len(keys) : each[i][k] = s
      BY <3>4
    <3> QED
      BY <2>2, <3>1, <3>5, <3>6
  <2>4. CASE granters[i].kind # "cached"
    <3>1. each[i] = <<s>>
      BY <2>1, <2>4, <1>3
    <3> HIDE DEF each, Step
    <3> QED
      BY <2>2, <2>4, <3>1
  <2> QED
    BY <2>3, <2>4
<1>8. each = [i \in 1 .. n |-> each[i]]
  BY <1>3
<1> HIDE DEF each, Step
<1>9. each \in [1 .. n -> Seq(R)]
  BY <1>7, <1>8
<1>10. each \in Seq(Seq(R)) /\ Len(each) = n
  BY <1>3, <1>9
<1>11. steps \in Seq(R)
  BY <1>6, <1>10, FlattenPlaces
<1>12. PICK start : IsLayout(start, each)
  BY <1>10, FlattenPlaces
<1>13. PICK i \in 1 .. n : g = granters[i]
  BY <1>1, <1>3 DEF ToSet
<1>14. PICK m : m = Len(g.keys)
  OBVIOUS
<1>15. m \in Nat /\ m > 1
  <2>1. g.kind = "cached" /\ Len(g.keys) > 1
    BY <1>1 DEF EnclosesSeveral
  <2>2. IsSequence(g.keys)
    BY <1>3, <1>13, <2>1 DEF IsHolder
  <2> QED
    BY <1>14, <2>1, <2>2, PlacesOf
<1>16. Len(each[i]) = m /\ each[i][1].kas = g /\ each[i][2].kas = g
  <2>1. 1 \in 1 .. m /\ 2 \in 1 .. m
    BY <1>15
  <2> QED
    BY <2>1, <1>1, <1>7, <1>13, <1>14 DEF EnclosesSeveral
<1>17. /\ start[i] \in Nat /\ start[i + 1] = start[i] + m /\ start[i + 1] <= Len(steps)
       /\ \A k \in 1 .. m : steps[start[i] + k] = each[i][k]
  <2>1. i \in 1 .. n + 1
    BY <1>3
  <2>2. start[i] \in Nat
    BY <2>1, <1>10, <1>12 DEF IsLayout
  <2> QED
    BY <2>2, <1>6, <1>10, <1>12, <1>16 DEF IsLayout
<1>18. DOMAIN steps = 1 .. Len(steps) /\ Len(steps) \in Nat
  BY <1>11
<1>19. start[i] + 1 \in DOMAIN steps /\ start[i] + 2 \in DOMAIN steps
  BY <1>15, <1>17, <1>18
<1>20. steps[start[i] + 1].kas = g /\ steps[start[i] + 2].kas = g
  BY <1>15, <1>16, <1>17
<1>21. start[i] + 1 # start[i] + 2
  BY <1>17
<1> QED
  BY <1>5, <1>19, <1>20, <1>21 DEF HasTwoSteps

(* Two places are more than one.                                             *)
LEMMA TwoAreMore ==
  ASSUME NEW s, IsSequence(s), NEW T, T \subseteq DOMAIN s, NEW k \in T, NEW l \in T, k # l
  PROVE  Cardinality(T) > 1
<1>1. IsFiniteSet(T)
  <2>1. DOMAIN s = 1 .. Len(s) /\ Len(s) \in Nat
    BY PlacesOf
  <2>2. IsFiniteSet(1 .. Len(s))
    BY <2>1, FS_Interval
  <2> QED
    BY <2>1, <2>2, FS_Subset
<1>2. IsFiniteSet({l}) /\ Cardinality({l}) = 1
  BY FS_Singleton
<1>3. Cardinality({l} \cup {k}) = 2 /\ IsFiniteSet({l} \cup {k})
  <2>1. k \notin {l}
    OBVIOUS
  <2>2. PICK S : S = {l}
    OBVIOUS
  <2>3. /\ IsFiniteSet(S \cup {k})
        /\ Cardinality(S \cup {k}) = Cardinality(S) + 1
    BY <1>2, <2>1, <2>2, FS_AddElement
  <2> QED
    BY <1>2, <2>2, <2>3
<1>4. {l} \cup {k} \subseteq T
  OBVIOUS
<1>5. Cardinality({l} \cup {k}) <= Cardinality(T)
  BY <1>1, <1>4, FS_Subset
<1>6. Cardinality(T) \in Nat
  BY <1>1, FS_CardinalityType
<1> QED
  BY <1>3, <1>5, <1>6

(* A clause with two steps for one place of a key.                           *)
LEMMA RepeatedIsGranted ==
  ASSUME NEW values, NEW holders, AreClauses(Clauses(values), holders), NEW url,
         NEW sid \in DOMAIN Clauses(values),
         NEW k \in DOMAIN SplitSteps(Clauses(values), sid),
         NEW l \in DOMAIN SplitSteps(Clauses(values), sid), k # l,
         KeyPlace(SplitSteps(Clauses(values), sid)[k].kas) = url,
         KeyPlace(SplitSteps(Clauses(values), sid)[l].kas) = url
  PROVE  GrantedTwice(values, url)
<1>1. PICK clause : clause = Clauses(values)[sid]
  OBVIOUS
<1>2. HeldAs(clause, PlannedKind)
  BY <1>1, ClauseHeld
<1>3. PICK steps : steps = StepsOf(sid, clause)
  OBVIOUS
<1>4. PICK R : steps \in Seq(R)
  BY <1>2, <1>3, StepsOfAre
<1>5. IsSequence(steps)
  BY <1>4, OwnElements
<1>6. PICK T : T = {i \in DOMAIN steps : KeyPlace(steps[i].kas) = url}
  OBVIOUS
<1>7. T \subseteq DOMAIN steps /\ k \in T /\ l \in T
  BY <1>1, <1>3, <1>6 DEF SplitSteps
<1>8. Cardinality(T) > 1
  BY <1>5, <1>7, TwoAreMore
<1> QED
  BY <1>1, <1>3, <1>6, <1>8 DEF GrantedTwice

(* So is one that is granted with several keys.                              *)
LEMMA EnclosedIsGranted ==
  ASSUME NEW values, NEW holders, AreClauses(Clauses(values), holders),
         NEW sid \in DOMAIN Clauses(values), NEW g \in ToSet(Clauses(values)[sid]),
         EnclosesSeveral(g)
  PROVE  GrantedTwice(values, KeyPlace(g))
<1>1. PICK clauses : clauses = Clauses(values)
  OBVIOUS
<1>2. PICK clause : clause = clauses[sid]
  OBVIOUS
<1>3. HeldAs(clause, PlannedKind) /\ g \in ToSet(clause)
  BY <1>1, <1>2, ClauseHeld
<1>4. HasTwoSteps(StepsOf(sid, clause), g)
  BY <1>3, EnclosedPlaces, Zenon
<1>5. PICK steps : steps = SplitSteps(clauses, sid)
  OBVIOUS
<1>6. HasTwoSteps(steps, g)
  BY <1>2, <1>4, <1>5 DEF SplitSteps
<1>7. PICK k \in DOMAIN steps, l \in DOMAIN steps :
        k # l /\ steps[k].kas = g /\ steps[l].kas = g
  BY <1>6 DEF HasTwoSteps
<1> QED
  BY <1>1, <1>5, <1>7, RepeatedIsGranted

(* The item of a step, and where its key is to be had.                       *)
LEMMA ItemFromStep ==
  ASSUME NEW step, NEW alg, IsHolder(step.kas, PlannedKind)
  PROVE  LET item == ItemOf(step, alg)
         IN /\ item.sid = step.sid /\ item.kas = step.kas
            /\ \/ IsLookup(item) /\ item.ask.kas = KeyPlace(step.kas)
               \/ /\ ~IsLookup(item) /\ step.kas.kind = "cached"
                  /\ item.keys = step.kas.keys /\ item.kas.url = KeyPlace(step.kas)
<1>1. PICK kas : kas = step.kas
  OBVIOUS
<1>2. PICK item : item = ItemOf(step, alg)
  OBVIOUS
<1>3. CASE kas.kind \in {"mapped", "bare", "remote", "unknown"}
  <2>1. \E kid, type : item = Lookup(kas, step.sid, [kas |-> KeyPlace(kas), alg |-> type, kid |-> kid])
    BY <1>1, <1>2, <1>3, Zenon DEF ItemOf
  <2>2. /\ item.keys = <<>> /\ item.kas = kas /\ item.sid = step.sid
        /\ item.ask.kas = KeyPlace(kas)
    BY <2>1 DEF Lookup
  <2> QED
    BY <1>1, <1>2, <2>2 DEF IsLookup
<1>4. CASE kas.kind = "cached"
  <2>1. item = [kas |-> kas, sid |-> step.sid, ask |-> Absent, keys |-> kas.keys]
    BY <1>1, <1>2, <1>4 DEF ItemOf
  <2>2. item.keys = kas.keys /\ item.kas = kas /\ item.sid = step.sid
    BY <2>1
  <2>3. kas.keys # <<>>
    BY <1>1, <1>4 DEF IsHolder
  <2>4. KeyPlace(kas) = kas.url
    BY <1>4 DEF KeyPlace
  <2> QED
    BY <1>1, <1>2, <1>4, <2>2, <2>3, <2>4 DEF IsLookup
<1> QED
  BY <1>1, <1>3, <1>4 DEF IsHolder, PlannedKind, GrantKind

(* An object for an item has its key from there, unless that KAS hands out   *)
(* the key of another.                                                       *)
LEMMA ObjectPlace ==
  ASSUME NEW object, NEW step, NEW alg, IsHolder(step.kas, PlannedKind),
         IsFor(object, ItemOf(step, alg)), ~HandsOut(ItemOf(step, alg), object.url)
  PROVE  object.sid = step.sid /\ KeyPlace(step.kas) = object.url
<1>1. PICK item : item = ItemOf(step, alg)
  OBVIOUS
<1>2. /\ item.sid = step.sid
      /\ \/ IsLookup(item) /\ item.ask.kas = KeyPlace(step.kas)
         \/ ~IsLookup(item) /\ item.kas.url = KeyPlace(step.kas)
  BY <1>1, ItemFromStep
<1>3. object.sid = item.sid /\ object.url \in HoldersFor(item) /\ ~HandsOut(item, object.url)
  BY <1>1 DEF IsFor
<1> QED
  BY <1>2, <1>3 DEF HoldersFor, HandsOut

(* Two objects of one split for one KAS, which handed out its own key: the   *)
(* policy grants that KAS twice in one clause.  The objects are for one item, *)
(* which encloses several keys of the granter, or for two, and then their    *)
(* steps come from two places of the clause.                                 *)
LEMMA RepetitionsHaveCauses ==
  ASSUME PlanFollowed, NEW c \in Calls, call[c].stage = "done", Autoconfigures(c),
         NEW i \in DOMAIN call[c].keyAccess, NEW j \in DOMAIN call[c].keyAccess, i < j,
         call[c].keyAccess[i].sid = call[c].keyAccess[j].sid,
         call[c].keyAccess[i].url = call[c].keyAccess[j].url,
         ~(\E item \in ToSet(call[c].items) : HandsOut(item, call[c].keyAccess[i].url))
  PROVE  GrantedTwice(ValuesOf(call[c].planned), call[c].keyAccess[i].url)
<1>1. PICK objects, items : objects = call[c].keyAccess /\ items = call[c].items
  OBVIOUS
<1>2. PICK fqns, values : fqns = call[c].planned /\ values = ValuesOf(fqns)
  OBVIOUS
<1>3. PICK url : url = objects[i].url
  OBVIOUS
<1>4. PICK clauses, steps : clauses = Clauses(values) /\ steps = simplify(clauses)
  OBVIOUS
<1>5. AreItems(items) /\ Covers(objects, items, Len(items)) /\ fqns \in Seq(Fqns)
  BY <1>1, <1>2 DEF PlanFollowed, WrapInv, WrapsFor, PlanInv, IsPlanned
<1>6. items = Items(c, PlannedItems(c, steps))
  BY <1>1, <1>2, <1>4 DEF PlanFollowed, FollowsPlan, PlannedItemsOf, plan
<1>7. AreClauses(clauses, HoldersOf(values))
  <2>1. IsPolicy(Directory) /\ values \in Seq(Directory)
    BY <1>2, <1>5, DirectoryIs DEF PlanFollowed, WrapInv
  <2> QED
    BY <2>1, <1>4, PolicyClauses, Zenon
<1>8. PICK source : IsSource(source, objects, items, 1 .. Len(items))
  BY <1>5 DEF Covers
<1>9. PICK a, b : a = source[i] /\ b = source[j]
  OBVIOUS
<1>10. /\ DOMAIN items = 1 .. Len(items)
       /\ a \in DOMAIN items /\ b \in DOMAIN items
       /\ IsFor(objects[i], items[a]) /\ IsFor(objects[j], items[b])
       /\ a = b => Len(items[a].keys) > 1
  <2>1. DOMAIN items = 1 .. Len(items) /\ Len(items) \in Nat
    BY <1>5, PlacesOf DEF AreItems
  <2>2. i \in DOMAIN objects /\ j \in DOMAIN objects
    BY <1>1
  <2>3. objects \in Seq(ToSet(objects))
    BY <1>5 DEF Covers, IsSequence
  <2>4. i # j
    BY <2>2, <2>3
  <2> QED
    BY <2>1, <2>2, <2>4, <1>8, <1>9 DEF IsSource
<1>11. steps # <<>>
  <2> SUFFICES ASSUME steps = <<>> PROVE FALSE
    OBVIOUS
  <2>1. PlannedItems(c, steps) = <<>>
    BY DEF PlannedItems
  <2>2. PICK item : item = DefaultItem(c)
    OBVIOUS
  <2>3. items = <<item>>
    BY <2>1, <2>2, <1>6 DEF Items
  <2>4. item.keys = <<>>
    BY <2>2 DEF DefaultItem, Lookup
  <2>5. a = 1 /\ b = 1
    BY <2>3, <1>10
  <2> QED
    BY <2>3, <2>4, <2>5, <1>10
<1>12. PICK n : n = Len(clauses)
  OBVIOUS
<1>13. PICK S : S = [sid : 1 .. n, kas : HoldersOf(values)]
  OBVIOUS
<1>14. n \in Nat /\ steps \in Seq(S) /\ DOMAIN clauses = 1 .. n
  <2>1. n \in Nat /\ steps \in Seq(S)
    BY <1>4, <1>7, <1>12, <1>13, SimplifiedSteps, Zenon
  <2>2. clauses \in Seq(Seq(HoldersOf(values)))
    BY <1>7 DEF AreClauses
  <2> QED
    BY <2>1, <2>2, <1>12
<1>15. \A s \in DOMAIN steps : IsHolder(steps[s].kas, PlannedKind)
  <2>1. \A s \in DOMAIN steps : steps[s] \in S
    BY <1>14
  <2>2. \A step \in S : step.kas \in HoldersOf(values)
    BY <1>13
  <2> QED
    BY <2>1, <2>2, <1>7 DEF AreClauses
<1>16. items = PlannedItems(c, steps)
  <2>1. DOMAIN PlannedItems(c, steps) = DOMAIN steps
    BY DEF PlannedItems
  <2>2. DOMAIN steps = 1 .. Len(steps) /\ Len(steps) \in Nat /\ Len(steps) # 0
    BY <1>11, <1>14
  <2>3. 1 \in DOMAIN PlannedItems(c, steps)
    BY <2>1, <2>2
  <2>4. PlannedItems(c, steps) # <<>>
    BY <2>3
  <2> QED
    BY <1>6, <2>4 DEF Items
<1>17. PICK alg : alg = Request(c).alg
  OBVIOUS
<1>18. DOMAIN items = DOMAIN steps /\ \A s \in DOMAIN steps : items[s] = ItemOf(steps[s], alg)
  BY <1>16, <1>17 DEF PlannedItems
<1>19. \A s \in DOMAIN items : ~HandsOut(items[s], url)
  BY <1>1, <1>3 DEF ToSet
<1>20. objects[i].sid = steps[a].sid /\ KeyPlace(steps[a].kas) = url
  BY <1>3, <1>10, <1>15, <1>18, <1>19, ObjectPlace
<1>21. objects[j].sid = steps[b].sid /\ KeyPlace(steps[b].kas) = url
  BY <1>1, <1>3, <1>10, <1>15, <1>18, <1>19, ObjectPlace
<1>22. CASE a # b
  <2>1. steps[a].sid = steps[b].sid
    BY <1>1, <1>20, <1>21
  <2>2. PICK sid \in DOMAIN clauses :
          \E k, l \in DOMAIN SplitSteps(clauses, sid) :
            /\ k # l
            /\ SplitSteps(clauses, sid)[k] = steps[a]
            /\ SplitSteps(clauses, sid)[l] = steps[b]
    BY <1>4, <1>7, <1>10, <1>18, <1>22, <2>1, SimplifiedPlaces
  <2>3. PICK k \in DOMAIN SplitSteps(clauses, sid), l \in DOMAIN SplitSteps(clauses, sid) :
          /\ k # l
          /\ SplitSteps(clauses, sid)[k] = steps[a]
          /\ SplitSteps(clauses, sid)[l] = steps[b]
    BY <2>2
  <2>4. GrantedTwice(values, url)
    BY <2>3, <1>4, <1>7, <1>20, <1>21, RepeatedIsGranted
  <2> QED
    BY <2>4, <1>1, <1>2, <1>3
<1>23. CASE a = b
  <2>1. PICK g : g = steps[a].kas
    OBVIOUS
  <2>2. EnclosesSeveral(g)
    <3>1. PICK item : item = items[a]
      OBVIOUS
    <3>2. Len(item.keys) > 1 /\ item = ItemOf(steps[a], alg)
      BY <3>1, <1>10, <1>18, <1>23
    <3>3. ~IsLookup(item)
      BY <3>2 DEF IsLookup
    <3>4. g.kind = "cached" /\ item.keys = g.keys
      BY <2>1, <3>2, <3>3, <1>10, <1>15, <1>18, ItemFromStep
    <3> QED
      BY <3>2, <3>4 DEF EnclosesSeveral
  <2>3. steps[a] \in ToSet(steps)
    BY <1>10, <1>18 DEF ToSet
  <2>4. \E s \in 1 .. n : IsStep(steps[a], s, clauses[s])
    BY <2>3, <1>4, <1>7, <1>12, SimplifiedSteps, Zenon
  <2>5. PICK sid \in 1 .. n : IsStep(steps[a], sid, clauses[sid])
    BY <2>4
  <2>6. g \in ToSet(clauses[sid])
    <3>1. PICK h \in ToSet(clauses[sid]) : steps[a] = [sid |-> sid, kas |-> h]
      BY <2>5 DEF IsStep
    <3> QED
      BY <2>1, <3>1
  <2>7. GrantedTwice(values, KeyPlace(g))
    BY <2>2, <2>5, <2>6, <1>4, <1>7, <1>14, EnclosedIsGranted
  <2> QED
    BY <2>1, <2>7, <1>1, <1>2, <1>3, <1>20
<1> QED
  BY <1>22, <1>23

(* A file that decryption refuses for a KAS that one of its splits names     *)
(* twice is the doing of its policy, or of a KAS that hands out another's    *)
(* key: the reduction keeps apart the splits that a KAS is in for different  *)
(* attributes, and nothing is wrapped twice for one step of the plan.        *)
THEOREM RepetitionsAreExplained == Spec => []RepetitionIsExplained
<1>1. Spec => []PlanFollowed
  BY InitFollows, StepFollows, PTL DEF Spec
<1>2. PlanFollowed => RepetitionIsExplained
  <2> SUFFICES ASSUME PlanFollowed, NEW c \in Calls, call[c].stage = "done", HasPlan(c),
                      NEW i \in DOMAIN call[c].keyAccess, NEW j \in DOMAIN call[c].keyAccess,
                      i < j, call[c].keyAccess[i].sid = call[c].keyAccess[j].sid,
                      call[c].keyAccess[i].url = call[c].keyAccess[j].url
      PROVE  \/ GrantedTwice(ValuesOf(call[c].planned), call[c].keyAccess[i].url)
             \/ \E item \in ToSet(call[c].items) : HandsOut(item, call[c].keyAccess[i].url)
    BY DEF RepetitionIsExplained
  <2>1. Autoconfigures(c)
    BY DEF HasPlan, Autoconfigures
  <2> QED
    BY <2>1, RepetitionsHaveCauses
<1> QED
  BY <1>1, <1>2, PTL
=============================================================================
