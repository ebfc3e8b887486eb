----------------------------- MODULE ListProofs -----------------------------
(***************************************************************************)
(* What the operations on lists do: filtering, removing, inserting and      *)
(* moving an element.                                                      *)
(***************************************************************************)
EXTENDS Lists, FiniteSetTheorems, WellFoundedInduction, TLAPS

(* Induction over a recursion looks at the first number for which the      *)
(* claim fails.                                                            *)

LEMMA LeastElement ==
  ASSUME NEW T \in SUBSET Nat, T # {}
  PROVE  \E x \in T : \A y \in T : x <= y
<1> DEFINE Upto == {0..n : n \in T}
           R == StrictSubsetOrdering(Nat)
<1>1. Upto \subseteq FiniteSubsetsOf(Nat) /\ Upto # {}
  <2>1. \A n \in T : 0..n \in SUBSET Nat /\ IsFiniteSet(0..n)
    BY FS_Interval
  <2>2. \A n \in T : 0..n \in FiniteSubsetsOf(Nat)
    BY <2>1 DEF FiniteSubsetsOf
  <2> QED
    BY <2>2
<1>2. \E X \in Upto : \A Y \in Upto : <<Y, X>> \notin R
  <2> HIDE DEF Upto, R
  <2> QED
    BY <1>1, FS_StrictSubsetOrderingWellFounded, WFMin DEF R
<1>3. PICK x \in T : \A Y \in Upto : <<Y, 0..x>> \notin R
  BY <1>2
<1>4. ASSUME NEW y \in T, y < x PROVE FALSE
  <2>1. 0..y \subseteq 0..x /\ x \in 0..x /\ x \notin 0..y
    BY <1>4
  <2>2. 0..x \in SUBSET Nat /\ 0..y \in SUBSET Nat /\ 0..y # 0..x
    BY <2>1
  <2>3. <<0..y, 0..x>> \in R
    BY <2>1, <2>2 DEF StrictSubsetOrdering
  <2> QED
    BY <1>3, <2>3
<1> QED
  BY <1>3, <1>4

\* The step from one number to the next, as far as m.
LEMMA UpTo ==
  ASSUME NEW T, NEW m \in Nat, 0 \in T, \A n \in 1..m : n - 1 \in T => n \in T
  PROVE  \A n \in 0..m : n \in T
<1> DEFINE Bad == {n \in 0..m : n \notin T}
<1> SUFFICES ASSUME Bad # {} PROVE FALSE
  OBVIOUS
<1>1. PICK l \in Bad : \A k \in Bad : l <= k
  <2>1. Bad \in SUBSET Nat
    OBVIOUS
  <2> HIDE DEF Bad
  <2> QED
    BY <2>1, LeastElement
<1>2. l \in 1..m /\ l - 1 \in 0..m /\ l - 1 < l
  OBVIOUS
<1>3. l - 1 \notin Bad
  <2>1. ASSUME l - 1 \in Bad PROVE FALSE
    <3> HIDE DEF Bad
    <3>1. l <= l - 1
      BY <1>1, <2>1
    <3> QED
      BY <1>2, <3>1
  <2> QED
    BY <2>1
<1> QED
  BY <1>2, <1>3

\* The list of the elements of a set has each of them once.
LEMMA ListOfSet ==
  ASSUME NEW S, IsFiniteSet(S), NEW found, found = SetToSeq(S)
  PROVE  /\ found \in Seq(S) /\ Len(found) = Cardinality(S) /\ Len(found) \in Nat
         /\ \A i \in 1..Len(found) : found[i] \in S
         /\ \A i, j \in 1..Len(found) : found[i] = found[j] => i = j
         /\ \A x \in S : \E i \in 1..Len(found) : found[i] = x
<1> PICK n : n = Cardinality(S)
  OBVIOUS
<1>1. n \in Nat
  BY FS_CardinalityType
<1>2. PICK f : f \in Bijection(1..n, S)
  BY FS_CardinalityType DEF ExistsBijection
<1>3. \E g \in [1..n -> S] : IsInjective(g)
  BY <1>2 DEF Bijection, Injection
<1>4. found \in [1..n -> S] /\ IsInjective(found)
  BY <1>3 DEF SetToSeq
<1>5. found \in Seq(S) /\ Len(found) = n
  BY <1>1, <1>4
<1>6. IsFiniteSet(1..n) /\ Cardinality(1..n) = n
  <2>1. 1 \in Int /\ n \in Int
    BY <1>1
  <2>2. IsFiniteSet(1..n) /\ Cardinality(1..n) = IF 1 > n THEN 0 ELSE n - 1 + 1
    BY <2>1, FS_Interval
  <2> QED
    BY <1>1, <2>2
<1>7. found \in Injection(1..n, S)
  BY <1>4 DEF Injection
<1>8. found \in Surjection(1..n, S)
  BY <1>6, <1>7, FS_Injection
<1>9. \A x \in S : \E i \in 1..n : found[i] = x
  BY <1>8 DEF Surjection
<1> QED
  BY <1>1, <1>4, <1>5, <1>9 DEF IsInjective

\* Lists of one length and with the same elements are one list.
LEMMA SameList ==
  ASSUME NEW V, NEW r \in Seq(V), NEW t \in Seq(V), Len(r) = Len(t),
         \A i \in 1..Len(r) : r[i] = t[i]
  PROVE  r = t
OBVIOUS

\* The body of the recursion in Only.
KeptUpto(s, some, m, kept) ==
  [n \in 0..m |-> IF n = 0 THEN <<>>
                  ELSE IF n \in some THEN Append(kept[n - 1], s[n]) ELSE kept[n - 1]]

LEMMA KeptExists ==
  ASSUME NEW s, NEW some, NEW m \in Nat
  PROVE  \E kept : kept = KeptUpto(s, some, m, kept)
<1> DEFINE F(kept, n) == KeptUpto(s, some, n, kept)
           Bad == {n \in Nat : ~ \E kept : kept = F(kept, n)}
<1>1. SUFFICES ASSUME Bad # {} PROVE FALSE
  OBVIOUS
<1>2. PICK l \in Bad : \A k \in Bad : l <= k
  BY <1>1, LeastElement
<1>3. l # 0
  <2>1. [n \in 0..0 |-> <<>>] = F([n \in 0..0 |-> <<>>], 0)
    BY DEF KeptUpto
  <2> QED
    BY <2>1
<1>4. PICK old : old = F(old, l - 1)
  <2>1. l \in Nat /\ \A k \in Nat : k < l => k \notin Bad
    <3>1. Bad \subseteq Nat
      OBVIOUS
    <3> HIDE DEF Bad
    <3> QED
      BY <1>2, <3>1
  <2>2. l - 1 \in Nat /\ l - 1 < l
    BY <1>3, <2>1
  <2>3. l - 1 \notin Bad
    BY <2>1, <2>2
  <2> QED
    BY <2>2, <2>3
<1> DEFINE new == [n \in 0..l |-> IF n < l THEN old[n]
                                  ELSE IF l \in some THEN Append(old[l - 1], s[l])
                                  ELSE old[l - 1]]
<1>5. new = F(new, l)
  <2>1. \A n \in 0..l : new[n] = F(new, l)[n]
    <3> SUFFICES ASSUME NEW n \in 0..l PROVE new[n] = F(new, l)[n]
      OBVIOUS
    <3>1. CASE n < l
      <4>1. new[n] = F(old, l - 1)[n]
        BY <1>4, <3>1
      <4>2. n # 0 => new[n - 1] = old[n - 1]
        BY <3>1
      <4> QED
        BY <3>1, <4>1, <4>2 DEF KeptUpto
    <3>2. CASE n = l
      BY <1>3, <3>2 DEF KeptUpto
    <3> QED
      BY <3>1, <3>2
  <2> QED
    BY <2>1 DEF KeptUpto
<1> QED
  BY <1>5

LEMMA OnlyStep ==
  ASSUME NEW s, Len(s) \in Nat, NEW some
  PROVE  \E kept :
           /\ \A n \in 0..Len(s) :
                kept[n] = IF n = 0 THEN <<>>
                          ELSE IF n \in some THEN Append(kept[n - 1], s[n]) ELSE kept[n - 1]
           /\ Only(s, some) = kept[Len(s)]
<1> DEFINE Is(kept) == kept = KeptUpto(s, some, Len(s), kept)
           k == CHOOSE kept : Is(kept)
<1>1. Is(k)
  <2>1. \E kept : Is(kept)
    BY KeptExists
  <2> HIDE DEF Is
  <2> QED
    BY <2>1
<1>2. Only(s, some) = k[Len(s)]
  BY DEF Only, KeptUpto
<1> HIDE DEF k
<1>3. \A n \in 0..Len(s) :
         k[n] = IF n = 0 THEN <<>>
                ELSE IF n \in some THEN Append(k[n - 1], s[n]) ELSE k[n - 1]
  BY <1>1 DEF KeptUpto
<1> QED
  BY <1>2, <1>3

\* What is left of a list: elements from the chosen positions, all of them, in
\* the order they had, and none with more elements behind it than before.
OnlyOf(r, s, n, some) ==
  /\ Len(r) <= n
  /\ \A j \in 1..Len(r) : \E i \in 1..n : i \in some /\ r[j] = s[i]
  /\ \A j, k \in 1..Len(r) : j < k =>
       \E a, b \in 1..n : a < b /\ a \in some /\ b \in some /\ r[j] = s[a] /\ r[k] = s[b]
  /\ \A i \in 1..n : i \in some =>
       \E j \in 1..Len(r) : r[j] = s[i] /\ Len(r) - j <= n - i

LEMMA OnlyInOrder ==
  ASSUME NEW r, NEW s, NEW n, NEW some, OnlyOf(r, s, n, some),
         NEW j \in 1..Len(r), NEW k \in 1..Len(r), j < k
  PROVE  \E a, b \in 1..n : a < b /\ a \in some /\ b \in some /\ r[j] = s[a] /\ r[k] = s[b]
BY DEF OnlyOf

LEMMA OnlyAppend ==
  ASSUME NEW S, NEW s \in Seq(S), NEW some, NEW n \in 1..Len(s),
         NEW r \in Seq(S), OnlyOf(r, s, n - 1, some), n \in some
  PROVE  Append(r, s[n]) \in Seq(S) /\ OnlyOf(Append(r, s[n]), s, n, some)
<1> DEFINE q == Append(r, s[n])
<1>1. s[n] \in S /\ n \in Nat /\ Len(r) \in Nat
  OBVIOUS
<1>2. /\ q \in Seq(S) /\ Len(q) = Len(r) + 1 /\ q[Len(r) + 1] = s[n]
      /\ \A j \in 1..Len(r) : q[j] = r[j]
  BY <1>1
<1> HIDE DEF q
<1>3. ASSUME NEW j \in 1..Len(q) PROVE \E i \in 1..n : i \in some /\ q[j] = s[i]
  <2>1. CASE j = Len(r) + 1
    BY <1>1, <1>2, <2>1
  <2>2. CASE j \in 1..Len(r)
    <3>1. PICK i \in 1..(n - 1) : i \in some /\ r[j] = s[i]
      BY <2>2 DEF OnlyOf
    <3> QED
      BY <1>2, <2>2, <3>1
  <2> QED
    BY <1>1, <1>2, <2>1, <2>2
<1>4. ASSUME NEW j \in 1..Len(q), NEW k \in 1..Len(q), j < k
      PROVE  \E a, b \in 1..n : a < b /\ a \in some /\ b \in some /\ q[j] = s[a] /\ q[k] = s[b]
  <2>1. j \in 1..Len(r)
    BY <1>1, <1>2, <1>4
  <2>2. CASE k = Len(r) + 1
    <3>1. PICK a \in 1..(n - 1) : a \in some /\ r[j] = s[a]
      BY <2>1 DEF OnlyOf
    <3>2. a \in 1..n /\ n \in 1..n /\ a < n /\ q[j] = s[a] /\ q[k] = s[n]
      BY <1>1, <1>2, <2>1, <2>2, <3>1
    <3> QED
      BY <3>1, <3>2
  <2>3. CASE k \in 1..Len(r)
    <3>1. PICK a \in 1..(n - 1), b \in 1..(n - 1) :
             a < b /\ a \in some /\ b \in some /\ r[j] = s[a] /\ r[k] = s[b]
      BY <1>4, <2>1, <2>3 DEF OnlyOf
    <3>2. a \in 1..n /\ b \in 1..n /\ q[j] = s[a] /\ q[k] = s[b]
      BY <1>1, <1>2, <2>1, <2>3, <3>1
    <3> QED
      BY <3>1, <3>2
  <2> QED
    BY <1>1, <1>2, <2>2, <2>3
<1>5. ASSUME NEW i \in 1..n, i \in some
      PROVE  \E j \in 1..Len(q) : q[j] = s[i] /\ Len(q) - j <= n - i
  <2>1. CASE i = n
    BY <1>1, <1>2, <2>1
  <2>2. CASE i \in 1..(n - 1)
    <3>1. PICK j \in 1..Len(r) : r[j] = s[i] /\ Len(r) - j <= (n - 1) - i
      BY <1>5, <2>2 DEF OnlyOf
    <3> QED
      BY <1>1, <1>2, <3>1
  <2> QED
    BY <1>1, <2>1, <2>2
<1>6. Len(q) <= n
  BY <1>1, <1>2 DEF OnlyOf
<1> QED
  BY <1>2, <1>3, <1>4, <1>5, <1>6 DEF OnlyOf, q

LEMMA OnlySkip ==
  ASSUME NEW S, NEW s \in Seq(S), NEW some, NEW n \in 1..Len(s),
         NEW r \in Seq(S), OnlyOf(r, s, n - 1, some), n \notin some
  PROVE  OnlyOf(r, s, n, some)
<1>1. n \in Nat /\ Len(r) \in Nat /\ 1..(n - 1) \subseteq 1..n
      /\ \A i \in 1..n : i # n => i \in 1..(n - 1)
  OBVIOUS
<1>2. \A j \in 1..Len(r) : \E i \in 1..n : i \in some /\ r[j] = s[i]
  BY <1>1 DEF OnlyOf
<1>3. \A j, k \in 1..Len(r) : j < k =>
       \E a, b \in 1..n : a < b /\ a \in some /\ b \in some /\ r[j] = s[a] /\ r[k] = s[b]
  <2> SUFFICES ASSUME NEW j \in 1..Len(r), NEW k \in 1..Len(r), j < k
               PROVE  \E a, b \in 1..n : /\ a < b /\ a \in some /\ b \in some
                                          /\ r[j] = s[a] /\ r[k] = s[b]
    OBVIOUS
  <2>1. PICK a \in 1..(n - 1), b \in 1..(n - 1) :
           a < b /\ a \in some /\ b \in some /\ r[j] = s[a] /\ r[k] = s[b]
    BY DEF OnlyOf
  <2>2. a \in 1..n /\ b \in 1..n
    BY <1>1
  <2> QED
    BY <2>1, <2>2
<1>4. ASSUME NEW i \in 1..n, i \in some
      PROVE  \E j \in 1..Len(r) : r[j] = s[i] /\ Len(r) - j <= n - i
  <2>1. i \in 1..(n - 1)
    BY <1>1, <1>4
  <2>2. PICK j \in 1..Len(r) : r[j] = s[i] /\ Len(r) - j <= (n - 1) - i
    BY <1>4, <2>1 DEF OnlyOf
  <2> QED
    BY <1>1, <2>2
<1>5. Len(r) <= n
  BY <1>1 DEF OnlyOf
<1> QED
  BY <1>2, <1>3, <1>4, <1>5 DEF OnlyOf

LEMMA OnlyKeeps ==
  ASSUME NEW S, NEW s \in Seq(S), NEW some
  PROVE  Only(s, some) \in Seq(S) /\ OnlyOf(Only(s, some), s, Len(s), some)
<1>1. PICK kept :
        /\ \A n \in 0..Len(s) :
             kept[n] = IF n = 0 THEN <<>>
                       ELSE IF n \in some THEN Append(kept[n - 1], s[n]) ELSE kept[n - 1]
        /\ Only(s, some) = kept[Len(s)]
  BY OnlyStep
<1> DEFINE Good(n) == kept[n] \in Seq(S) /\ OnlyOf(kept[n], s, n, some)
           Bad == {n \in 0..Len(s) : ~Good(n)}
<1>2. Good(0)
  <2>1. kept[0] = <<>>
    BY <1>1
  <2> QED
    BY <2>1 DEF OnlyOf
<1>3. ASSUME NEW n \in 1..Len(s), Good(n - 1) PROVE Good(n)
  <2>0. /\ n \in 0..Len(s) /\ n # 0
        /\ kept[n] = IF n \in some THEN Append(kept[n - 1], s[n]) ELSE kept[n - 1]
    <3>1. n \in 0..Len(s) /\ n # 0
      OBVIOUS
    <3> QED
      BY <1>1, <3>1
  <2>1. CASE n \in some
    BY <1>3, <2>0, <2>1, OnlyAppend
  <2>2. CASE n \notin some
    BY <1>3, <2>0, <2>2, OnlySkip
  <2> QED
    BY <2>1, <2>2
<1>4. Bad = {}
  <2> SUFFICES ASSUME Bad # {} PROVE FALSE
    OBVIOUS
  <2>1. Bad \subseteq Nat
    OBVIOUS
  <2>2. PICK l \in Bad : \A k \in Bad : l <= k
    <3> HIDE DEF Bad
    <3> QED
      BY <2>1, LeastElement
  <2>3. l \in 1..Len(s) /\ l - 1 \notin Bad
    <3> HIDE DEF Good
    <3> QED
      BY <1>2, <2>2
  <2> HIDE DEF Good
  <2> QED
    BY <1>3, <2>2, <2>3
<1>5. Len(s) \in 0..Len(s)
  OBVIOUS
<1> QED
  BY <1>1, <1>4, <1>5

\* A list is divided between its positions and the others.
LEMMA OnlySplits ==
  ASSUME NEW S, NEW s \in Seq(S), NEW some, NEW others,
         \A n \in 1..Len(s) : n \in others <=> n \notin some
  PROVE  Len(Only(s, some)) + Len(Only(s, others)) = Len(s)
<1>1. PICK kept :
        /\ \A n \in 0..Len(s) :
             kept[n] = IF n = 0 THEN <<>>
                       ELSE IF n \in some THEN Append(kept[n - 1], s[n]) ELSE kept[n - 1]
        /\ Only(s, some) = kept[Len(s)]
  BY OnlyStep
<1>2. PICK left :
        /\ \A n \in 0..Len(s) :
             left[n] = IF n = 0 THEN <<>>
                       ELSE IF n \in others THEN Append(left[n - 1], s[n]) ELSE left[n - 1]
        /\ Only(s, others) = left[Len(s)]
  BY OnlyStep
<1> DEFINE Good(n) == /\ kept[n] \in Seq(S) /\ left[n] \in Seq(S)
                      /\ Len(kept[n]) + Len(left[n]) = n
           Bad == {n \in 0..Len(s) : ~Good(n)}
<1>3. Good(0)
  <2>1. kept[0] = <<>> /\ left[0] = <<>>
    BY <1>1, <1>2
  <2> QED
    BY <2>1
<1>4. ASSUME NEW n \in 1..Len(s), Good(n - 1) PROVE Good(n)
  <2>0. /\ kept[n - 1] \in Seq(S) /\ left[n - 1] \in Seq(S)
        /\ Len(kept[n - 1]) + Len(left[n - 1]) = n - 1
    BY <1>4
  <2>a. \A x, y \in Nat : x + y = n - 1 => (x + 1) + y = n /\ x + (y + 1) = n
    OBVIOUS
  <2>b. Len(kept[n - 1]) \in Nat /\ Len(left[n - 1]) \in Nat
    BY <2>0
  <2>c. /\ (Len(kept[n - 1]) + 1) + Len(left[n - 1]) = n
        /\ Len(kept[n - 1]) + (Len(left[n - 1]) + 1) = n
    BY <2>0, <2>a, <2>b, Zenon
  <2>1. n \in 0..Len(s) /\ n # 0 /\ s[n] \in S /\ n \in Nat
    OBVIOUS
  <2>2. kept[n] = IF n \in some THEN Append(kept[n - 1], s[n]) ELSE kept[n - 1]
    BY <1>1, <2>1
  <2>3. left[n] = IF n \in others THEN Append(left[n - 1], s[n]) ELSE left[n - 1]
    BY <1>2, <2>1
  <2>4. /\ Append(kept[n - 1], s[n]) \in Seq(S) /\ Append(left[n - 1], s[n]) \in Seq(S)
        /\ Len(Append(kept[n - 1], s[n])) = Len(kept[n - 1]) + 1
        /\ Len(Append(left[n - 1], s[n])) = Len(left[n - 1]) + 1
        /\ Len(kept[n - 1]) \in Nat /\ Len(left[n - 1]) \in Nat
    BY <2>0, <2>1
  <2>5. n \in others <=> n \notin some
    OBVIOUS
  <2>6. CASE n \in some
    <3>1. kept[n] = Append(kept[n - 1], s[n]) /\ left[n] = left[n - 1]
      BY <2>2, <2>3, <2>5, <2>6
    <3>2. kept[n] \in Seq(S) /\ left[n] \in Seq(S)
      BY <2>0, <2>4, <3>1
    <3>3. Len(kept[n]) = Len(kept[n - 1]) + 1 /\ Len(left[n]) = Len(left[n - 1])
      BY <2>4, <3>1
    <3>4. Len(kept[n]) + Len(left[n]) = n
      BY <2>c, <3>3
    <3> QED
      BY <3>2, <3>4
  <2>7. CASE n \notin some
    <3>1. left[n] = Append(left[n - 1], s[n]) /\ kept[n] = kept[n - 1]
      BY <2>2, <2>3, <2>5, <2>7
    <3>2. kept[n] \in Seq(S) /\ left[n] \in Seq(S)
      BY <2>0, <2>4, <3>1
    <3>3. Len(left[n]) = Len(left[n - 1]) + 1 /\ Len(kept[n]) = Len(kept[n - 1])
      BY <2>4, <3>1
    <3>4. Len(kept[n]) + Len(left[n]) = n
      BY <2>c, <3>3
    <3> QED
      BY <3>2, <3>4
  <2> QED
    BY <2>6, <2>7
<1>5. Bad = {}
  <2> SUFFICES ASSUME Bad # {} PROVE FALSE
    OBVIOUS
  <2>1. Bad \subseteq Nat
    <3> HIDE DEF Good
    <3> QED
      OBVIOUS
  <2>2. PICK l \in Bad : \A k \in Bad : l <= k
    <3> HIDE DEF Bad
    <3> QED
      BY <2>1, LeastElement
  <2>3. l \in 1..Len(s) /\ l - 1 \notin Bad
    <3> HIDE DEF Good
    <3> QED
      BY <1>3, <2>2
  <2> HIDE DEF Good
  <2> QED
    BY <1>4, <2>2, <2>3
<1>6. Len(s) \in 0..Len(s)
  OBVIOUS
<1> QED
  BY <1>1, <1>2, <1>5, <1>6

\* Where an element that is kept stands: behind those kept before it.
Rank(some, i) == Cardinality(some \cap (1..i))

LEMMA RankStep ==
  ASSUME NEW some, NEW n \in Nat \ {0}
  PROVE  /\ Rank(some, n) \in Nat /\ Rank(some, n - 1) \in Nat /\ Rank(some, 0) = 0
         /\ n \in some => Rank(some, n) = Rank(some, n - 1) + 1
         /\ n \notin some => Rank(some, n) = Rank(some, n - 1)
<1>1. \A m \in Nat : IsFiniteSet(some \cap (1..m)) /\ Rank(some, m) \in Nat
  <2> SUFFICES ASSUME NEW m \in Nat
               PROVE  IsFiniteSet(some \cap (1..m)) /\ Rank(some, m) \in Nat
    OBVIOUS
  <2>1. IsFiniteSet(1..m)
    BY FS_Interval
  <2>2. some \cap (1..m) \subseteq 1..m
    OBVIOUS
  <2>3. IsFiniteSet(some \cap (1..m))
    BY <2>1, <2>2, FS_Subset
  <2> QED
    BY <2>3, FS_CardinalityType DEF Rank
<1>2. n \in Nat /\ n - 1 \in Nat /\ 0 \in Nat
  OBVIOUS
<1>3. Rank(some, n) \in Nat /\ Rank(some, n - 1) \in Nat /\ IsFiniteSet(some \cap (1..(n - 1)))
  BY <1>1, <1>2
<1>4. Rank(some, 0) = 0
  <2>1. some \cap (1..0) = {}
    OBVIOUS
  <2> QED
    BY <2>1, FS_EmptySet DEF Rank
<1>5. ASSUME n \in some PROVE Rank(some, n) = Rank(some, n - 1) + 1
  <2>1. some \cap (1..n) = (some \cap (1..(n - 1))) \cup {n} /\ n \notin some \cap (1..(n - 1))
    BY <1>5
  <2>2. Cardinality((some \cap (1..(n - 1))) \cup {n}) = Cardinality(some \cap (1..(n - 1))) + 1
    BY <1>3, <2>1, FS_AddElement
  <2> QED
    BY <2>1, <2>2 DEF Rank
<1>6. ASSUME n \notin some PROVE Rank(some, n) = Rank(some, n - 1)
  <2>1. some \cap (1..n) = some \cap (1..(n - 1))
    BY <1>6
  <2> QED
    BY <2>1 DEF Rank
<1> QED
  BY <1>3, <1>4, <1>5, <1>6

LEMMA OnlyRanks ==
  ASSUME NEW S, NEW s \in Seq(S), NEW some
  PROVE  /\ Len(Only(s, some)) = Rank(some, Len(s))
         /\ \A i \in 1..Len(s) : i \in some =>
              /\ Rank(some, i) \in 1..Len(Only(s, some))
              /\ Only(s, some)[Rank(some, i)] = s[i]
<1>1. PICK kept :
        /\ \A n \in 0..Len(s) :
             kept[n] = IF n = 0 THEN <<>>
                       ELSE IF n \in some THEN Append(kept[n - 1], s[n]) ELSE kept[n - 1]
        /\ Only(s, some) = kept[Len(s)]
  BY OnlyStep
<1> DEFINE Good(n) == /\ kept[n] \in Seq(S) /\ Len(kept[n]) = Rank(some, n)
                      /\ \A i \in 1..n : i \in some =>
                           /\ Rank(some, i) \in 1..Len(kept[n])
                           /\ kept[n][Rank(some, i)] = s[i]
           Bad == {n \in 0..Len(s) : ~Good(n)}
<1>2. Good(0)
  <2>1. kept[0] = <<>>
    BY <1>1
  <2>2. Rank(some, 0) = 0
    <3>1. 1 \in Nat \ {0}
      OBVIOUS
    <3> QED
      BY <3>1, RankStep
  <2> QED
    BY <2>1, <2>2
<1>3. ASSUME NEW n \in 1..Len(s), Good(n - 1) PROVE Good(n)
  <2>0. /\ n \in 0..Len(s) /\ n # 0
        /\ kept[n] = IF n \in some THEN Append(kept[n - 1], s[n]) ELSE kept[n - 1]
    <3>1. n \in 0..Len(s) /\ n # 0
      OBVIOUS
    <3> QED
      BY <1>1, <3>1
  <2>1. /\ Rank(some, n) \in Nat /\ Rank(some, n - 1) \in Nat
        /\ n \in some => Rank(some, n) = Rank(some, n - 1) + 1
        /\ n \notin some => Rank(some, n) = Rank(some, n - 1)
    <3>1. n \in Nat \ {0}
      OBVIOUS
    <3> QED
      BY <3>1, RankStep
  <2>2. PICK old : old = kept[n - 1]
    OBVIOUS
  <2>3. /\ old \in Seq(S) /\ Len(old) = Rank(some, n - 1)
        /\ \A i \in 1..(n - 1) : i \in some =>
             Rank(some, i) \in 1..Len(old) /\ old[Rank(some, i)] = s[i]
    BY <1>3, <2>2
  <2>4. \A i \in 1..n : i # n => i \in 1..(n - 1)
    OBVIOUS
  <2>5. CASE n \in some
    <3>1. PICK new : new = Append(old, s[n])
      OBVIOUS
    <3>2. /\ new \in Seq(S) /\ Len(new) = Len(old) + 1 /\ new[Len(old) + 1] = s[n]
          /\ \A j \in 1..Len(old) : new[j] = old[j]
      BY <2>3, <3>1
    <3>3. Len(new) = Rank(some, n) /\ new[Rank(some, n)] = s[n] /\ Rank(some, n) \in 1..Len(new)
      BY <2>1, <2>3, <2>5, <3>2
    <3>4. ASSUME NEW i \in 1..(n - 1), i \in some
          PROVE  Rank(some, i) \in 1..Len(new) /\ new[Rank(some, i)] = s[i]
      <4>1. Rank(some, i) \in 1..Len(old) /\ old[Rank(some, i)] = s[i]
        BY <2>3, <3>4
      <4>2. 1..Len(old) \subseteq 1..Len(new)
        BY <2>3, <3>2
      <4> QED
        BY <3>2, <4>1, <4>2
    <3>5. \A i \in 1..n : i \in some => Rank(some, i) \in 1..Len(new) /\ new[Rank(some, i)] = s[i]
      BY <2>4, <3>3, <3>4
    <3>6. kept[n] = new
      BY <2>0, <2>2, <2>5, <3>1
    <3> QED
      BY <3>2, <3>3, <3>5, <3>6
  <2>6. CASE n \notin some
    <3>1. kept[n] = old
      BY <2>0, <2>2, <2>6
    <3>2. \A i \in 1..n : i \in some => Rank(some, i) \in 1..Len(old) /\ old[Rank(some, i)] = s[i]
      BY <2>3, <2>4, <2>6
    <3> QED
      BY <2>1, <2>3, <2>6, <3>1, <3>2
  <2> QED
    BY <2>5, <2>6
<1>4. Bad = {}
  <2> SUFFICES ASSUME Bad # {} PROVE FALSE
    OBVIOUS
  <2>1. Bad \subseteq Nat
    <3> HIDE DEF Good
    <3> QED
      OBVIOUS
  <2>2. PICK l \in Bad : \A k \in Bad : l <= k
    <3> HIDE DEF Bad
    <3> QED
      BY <2>1, LeastElement
  <2>3. l \in 1..Len(s) /\ l - 1 \notin Bad
    <3> HIDE DEF Good
    <3> QED
      BY <1>2, <2>2
  <2> HIDE DEF Good
  <2> QED
    BY <1>3, <2>2, <2>3
<1>5. Len(s) \in 0..Len(s)
  OBVIOUS
<1>6. Good(Len(s))
  <2> HIDE DEF Good
  <2> QED
    BY <1>4, <1>5
<1> QED
  BY <1>1, <1>6

-----------------------------------------------------------------------------
(* Removing, inserting and moving.                                         *)

LEMMA Removed ==
  ASSUME NEW S, NEW s \in Seq(S), NEW i \in 1..Len(s)
  PROVE  /\ RemoveAt(s, i) \in Seq(S) /\ Len(RemoveAt(s, i)) = Len(s) - 1
         /\ \A j \in 1..(Len(s) - 1) :
              RemoveAt(s, i)[j] = IF j < i THEN s[j] ELSE s[j + 1]
<1> DEFINE front == SubSeq(s, 1, i - 1)
           back == SubSeq(s, i + 1, Len(s))
<1>1. /\ front \in Seq(S) /\ Len(front) = i - 1
      /\ \A j \in 1..(i - 1) : front[j] = s[j]
  OBVIOUS
<1>2. /\ back \in Seq(S) /\ Len(back) = Len(s) - i
      /\ \A j \in 1..(Len(s) - i) : back[j] = s[i + j]
  OBVIOUS
<1>3. RemoveAt(s, i) = front \o back
  BY DEF RemoveAt
<1> HIDE DEF front, back
<1>4. Len(front \o back) = Len(s) - 1 /\ front \o back \in Seq(S)
  BY <1>1, <1>2
<1>5. ASSUME NEW j \in 1..(Len(s) - 1)
      PROVE  (front \o back)[j] = IF j < i THEN s[j] ELSE s[j + 1]
  <2>1. CASE j < i
    BY <1>1, <1>2, <2>1
  <2>2. CASE ~(j < i)
    <3>1. (front \o back)[j] = back[j - (i - 1)]
      BY <1>1, <1>2, <2>2
    <3>2. j - (i - 1) \in 1..(Len(s) - i) /\ i + (j - (i - 1)) = j + 1
      BY <2>2
    <3> QED
      BY <1>2, <2>2, <3>1, <3>2
  <2> QED
    BY <2>1, <2>2
<1> QED
  BY <1>3, <1>4, <1>5

LEMMA Inserted ==
  ASSUME NEW S, NEW s \in Seq(S), NEW i \in 1..(Len(s) + 1), NEW e \in S
  PROVE  /\ InsertAt(s, i, e) \in Seq(S) /\ Len(InsertAt(s, i, e)) = Len(s) + 1
         /\ \A j \in 1..(Len(s) + 1) :
              InsertAt(s, i, e)[j] = IF j < i THEN s[j] ELSE IF j = i THEN e ELSE s[j - 1]
<1> DEFINE front == SubSeq(s, 1, i - 1)
           back == SubSeq(s, i, Len(s))
           upto == front \o <<e>>
<1>1. /\ front \in Seq(S) /\ Len(front) = i - 1
      /\ \A j \in 1..(i - 1) : front[j] = s[j]
  OBVIOUS
<1>2. /\ back \in Seq(S) /\ Len(back) = Len(s) - i + 1
      /\ \A j \in 1..(Len(s) - i + 1) : back[j] = s[i + j - 1]
  OBVIOUS
<1>3. InsertAt(s, i, e) = upto \o back
  BY DEF InsertAt
<1> HIDE DEF front, back
<1>4. /\ upto \in Seq(S) /\ Len(upto) = i /\ upto[i] = e
      /\ \A j \in 1..(i - 1) : upto[j] = s[j]
  BY <1>1
<1> HIDE DEF upto
<1>5. Len(upto \o back) = Len(s) + 1 /\ upto \o back \in Seq(S)
  <2>1. upto \in Seq(S) /\ back \in Seq(S) /\ Len(upto) = i /\ Len(back) = Len(s) - i + 1
    BY <1>2, <1>4
  <2>2. Len(upto \o back) = Len(upto) + Len(back) /\ upto \o back \in Seq(S)
    BY <2>1
  <2> QED
    BY <2>1, <2>2
<1>6. ASSUME NEW j \in 1..(Len(s) + 1)
      PROVE  (upto \o back)[j] = IF j < i THEN s[j] ELSE IF j = i THEN e ELSE s[j - 1]
  <2>1. CASE j <= i
    BY <1>2, <1>4, <2>1
  <2>2. CASE j > i
    <3>1. (upto \o back)[j] = back[j - i]
      BY <1>2, <1>4, <2>2
    <3>2. j - i \in 1..(Len(s) - i + 1) /\ i + (j - i) - 1 = j - 1
      BY <2>2
    <3> QED
      BY <1>2, <2>2, <3>1, <3>2
  <2>3. j <= i \/ j > i
    OBVIOUS
  <2> QED
    BY <2>1, <2>2, <2>3
<1> QED
  BY <1>3, <1>5, <1>6

LEMMA InsertedElement ==
  ASSUME NEW S, NEW s \in Seq(S), NEW i \in 1..(Len(s) + 1), NEW e \in S,
         NEW j \in 1..(Len(s) + 1)
  PROVE  InsertAt(s, i, e)[j] = IF j < i THEN s[j] ELSE IF j = i THEN e ELSE s[j - 1]
BY Inserted

\* Where the element that is at j after a move came from.
CameFrom(j, from, to) ==
  IF j = to THEN from
  ELSE IF from <= j /\ j < to THEN j + 1
  ELSE IF to < j /\ j <= from THEN j - 1 ELSE j

LEMMA MovedFrom ==
  ASSUME NEW S, NEW s \in Seq(S), NEW from \in 1..Len(s), NEW to \in 1..Len(s)
  PROVE  /\ Moved(s, from, to) \in Seq(S) /\ Len(Moved(s, from, to)) = Len(s)
         /\ \A j \in 1..Len(s) : /\ CameFrom(j, from, to) \in 1..Len(s)
                                 /\ Moved(s, from, to)[j] = s[CameFrom(j, from, to)]
<1> DEFINE r == RemoveAt(s, from)
<1>1. /\ r \in Seq(S) /\ Len(r) = Len(s) - 1
      /\ \A j \in 1..(Len(s) - 1) : r[j] = IF j < from THEN s[j] ELSE s[j + 1]
  BY Removed
<1>2. Moved(s, from, to) = InsertAt(r, to, s[from])
  BY DEF Moved
<1>3. s[from] \in S
  OBVIOUS
<1> HIDE DEF r
<1>4. /\ InsertAt(r, to, s[from]) \in Seq(S) /\ Len(InsertAt(r, to, s[from])) = Len(r) + 1
      /\ \A j \in 1..(Len(r) + 1) :
           InsertAt(r, to, s[from])[j] = IF j < to THEN r[j] ELSE IF j = to THEN s[from] ELSE r[j - 1]
  <2>1. to \in 1..(Len(r) + 1) /\ r \in Seq(S)
    BY <1>1
  <2>2. ASSUME NEW q \in Seq(S), NEW i \in 1..(Len(q) + 1), NEW e \in S
        PROVE  /\ InsertAt(q, i, e) \in Seq(S) /\ Len(InsertAt(q, i, e)) = Len(q) + 1
               /\ \A j \in 1..(Len(q) + 1) :
                    InsertAt(q, i, e)[j] = IF j < i THEN q[j] ELSE IF j = i THEN e ELSE q[j - 1]
    <3>1. InsertAt(q, i, e) \in Seq(S) /\ Len(InsertAt(q, i, e)) = Len(q) + 1
      BY Inserted
    <3>2. ASSUME NEW j \in 1..(Len(q) + 1)
          PROVE  InsertAt(q, i, e)[j] = IF j < i THEN q[j] ELSE IF j = i THEN e ELSE q[j - 1]
      BY InsertedElement
    <3> QED
      BY <3>1, <3>2
  <2> QED
    BY <1>3, <2>1, <2>2, ZenonT(60)
<1>5. ASSUME NEW j \in 1..Len(s)
      PROVE  /\ CameFrom(j, from, to) \in 1..Len(s)
             /\ Moved(s, from, to)[j] = s[CameFrom(j, from, to)]
  <2>1. Moved(s, from, to)[j] = IF j < to THEN r[j] ELSE IF j = to THEN s[from] ELSE r[j - 1]
    BY <1>1, <1>2, <1>4
  <2>2. CASE j < to
    <3>1. r[j] = IF j < from THEN s[j] ELSE s[j + 1]
      BY <1>1, <2>2
    <3> QED
      BY <2>1, <2>2, <3>1 DEF CameFrom
  <2>3. CASE j = to
    BY <2>1, <2>3 DEF CameFrom
  <2>4. CASE j > to
    <3>1. r[j - 1] = IF j - 1 < from THEN s[j - 1] ELSE s[(j - 1) + 1]
      BY <1>1, <2>4
    <3> QED
      BY <2>1, <2>4, <3>1 DEF CameFrom
  <2> QED
    BY <2>2, <2>3, <2>4
<1> QED
  BY <1>1, <1>2, <1>4, <1>5
=============================================================================
