----------------------------- MODULE SetLemmas -----------------------------
(***************************************************************************)
(* Facts about numbers, finite sets and lists that the proofs share.       *)
(***************************************************************************)
EXTENDS Integers, FiniteSets, Lists, WellFoundedInduction, FiniteSetTheorems, TLAPS

\* A set of natural numbers has a least element: what a search from the first
\* position on, or the choice of the first CPU of a mask, comes to.
LEMMA LeastNat ==
    ASSUME NEW T \in SUBSET Nat, T # {}
    PROVE  \E x \in T : \A y \in T : x <= y
  <1> DEFINE R == {ss \in Nat \X Nat : ss[1] < ss[2]}
  <1>1. IsWellFoundedOn(R, Nat)
    BY NatLessThanWellFounded, Zenon DEF OpToRel
  <1> HIDE DEF R
  <1>2. PICK x \in T : \A y \in T : ~ (<<y, x>> \in R)
    BY <1>1, WFMin, Zenon
  <1>3. \A y \in T : ~ (y < x)
    BY <1>2 DEF R
  <1> QED
    BY <1>3

\* A finite set of natural numbers has a greatest element: the least number of elements of
\* a set without one is not zero, and one element less would do.
LEMMA GreatestNat ==
    ASSUME NEW T \in SUBSET Nat, T # {}, IsFiniteSet(T)
    PROVE  \E x \in T : \A y \in T : y <= x
  <1> DEFINE Bounded(X) == \E x \in X : \A y \in X : y <= x
             Bad == {X \in SUBSET Nat : X # {} /\ IsFiniteSet(X) /\ ~ Bounded(X)}
             Sizes == {Cardinality(X) : X \in Bad}
  <1> SUFFICES ASSUME Bad # {} PROVE FALSE
    OBVIOUS
  <1>1. Sizes \in SUBSET Nat /\ Sizes # {}
    BY FS_CardinalityType
  <1>2. PICK n \in Sizes : \A m \in Sizes : n <= m
    BY <1>1, LeastNat
  <1>3. PICK X \in Bad : n = Cardinality(X)
    BY <1>2
  <1>4. PICK x \in X : x \in Nat
    BY <1>3
  <1> DEFINE Y == X \ {x}
  <1>5. IsFiniteSet(Y) /\ Cardinality(Y) = n - 1 /\ n \in Nat /\ Y \in SUBSET Nat
    BY <1>1, <1>3, <1>4, FS_RemoveElement
  <1>6. Y \notin Bad
    <2>1. Y \in Bad => Cardinality(Y) \in Sizes
      OBVIOUS
    <2>2. \A m \in Sizes : m \in Nat /\ n <= m
      BY <1>1, <1>2
    <2>3. Cardinality(Y) \notin Sizes
      <3> HIDE DEF Sizes, Y
      <3> QED
        BY <1>5, <2>2
    <2> QED
      BY <2>1, <2>3
  <1>7. CASE Y = {}
    <2>1. \A y \in X : y = x
      BY <1>7
    <2> QED
      BY <1>3, <1>4, <2>1
  <1>8. CASE Y # {}
    <2>1. PICK z \in Y : \A y \in Y : y <= z
      BY <1>5, <1>6, <1>8
    <2>2. z \in X /\ z \in Nat /\ X \subseteq Nat /\ \A y \in X : y = x \/ y \in Y
      BY <1>3, <2>1
    <2>3. CASE x <= z
      BY <1>3, <2>1, <2>2, <2>3
    <2>4. CASE z <= x
      BY <1>3, <1>4, <2>1, <2>2, <2>4
    <2> QED
      BY <1>4, <2>2, <2>3, <2>4
  <1> QED
    BY <1>7, <1>8

\* The numbers from 1 to n are n.
LEMMA CountedTo ==
    ASSUME NEW n \in Nat
    PROVE  IsFiniteSet(1 .. n) /\ Cardinality(1 .. n) = n
  <1>1. 1 \in Int /\ n \in Int
    OBVIOUS
  <1>2. /\ IsFiniteSet(1 .. n)
        /\ Cardinality(1 .. n) = IF 1 > n THEN 0 ELSE n - 1 + 1
    BY <1>1, FS_Interval
  <1> QED
    BY <1>2

\* Products of natural numbers grow with their factors.
LEMMA ProductGrows ==
    ASSUME NEW a \in Nat, NEW b \in Nat, NEW c \in Nat, NEW d \in Nat, a <= c, b <= d
    PROVE  a * b <= c * d /\ a * b \in Nat
  <1>1. a * b \in Nat /\ (c - a) * b \in Nat /\ c * (d - b) \in Nat
    OBVIOUS
  <1>2. c * d = a * b + (c - a) * b + c * (d - b)
    OBVIOUS
  <1> QED
    BY <1>1, <1>2

-----------------------------------------------------------------------------
(* Lists in which nothing occurs twice *)

LEMMA AppendFacts ==
    ASSUME NEW S, NEW s \in Seq(S), NEW p \in S
    PROVE  /\ Append(s, p) \in Seq(S)
           /\ Elems(Append(s, p)) = Elems(s) \cup {p}
           /\ Distinct(s) /\ p \notin Elems(s) => Distinct(Append(s, p))
  <1>1. /\ Append(s, p) \in Seq(S) /\ Len(s) \in Nat /\ Len(Append(s, p)) = Len(s) + 1
        /\ \A i \in 1..Len(s) : Append(s, p)[i] = s[i]
        /\ Append(s, p)[Len(s) + 1] = p
    OBVIOUS
  <1> DEFINE a == Append(s, p)
  <1> HIDE DEF a
  <1>2. 1..Len(a) = 1..Len(s) \cup {Len(s) + 1}
    BY <1>1 DEF a
  <1>3. Elems(a) = Elems(s) \cup {p}
    BY <1>1, <1>2 DEF Elems, a
  <1>4. Distinct(s) /\ p \notin Elems(s) => Distinct(a)
    BY <1>1, <1>2 DEF Elems, Distinct, a
  <1> QED
    BY <1>1, <1>3, <1>4 DEF a

LEMMA PrependFacts ==
    ASSUME NEW S, NEW s \in Seq(S), NEW p \in S
    PROVE  /\ <<p>> \o s \in Seq(S)
           /\ Elems(<<p>> \o s) = Elems(s) \cup {p}
           /\ Distinct(s) /\ p \notin Elems(s) => Distinct(<<p>> \o s)
  <1> DEFINE a == <<p>> \o s
  <1>1. /\ a \in Seq(S) /\ Len(s) \in Nat /\ Len(a) = Len(s) + 1
        /\ \A i \in 1..Len(s) : a[i + 1] = s[i]
        /\ a[1] = p
    OBVIOUS
  <1> HIDE DEF a
  <1>2. \A i \in 1..Len(a) : i = 1 \/ (i - 1 \in 1..Len(s) /\ a[i] = s[i - 1])
    <2> SUFFICES ASSUME NEW i \in 1..Len(a), i # 1
                 PROVE  i - 1 \in 1..Len(s) /\ a[i] = s[i - 1]
      OBVIOUS
    <2>1. i - 1 \in 1..Len(s) /\ (i - 1) + 1 = i
      BY <1>1
    <2> QED
      BY <1>1, <2>1
  <1>3. Elems(a) = Elems(s) \cup {p}
    <2>1. Elems(a) \subseteq Elems(s) \cup {p}
      BY <1>1, <1>2 DEF Elems
    <2>2. p \in Elems(a)
      BY <1>1 DEF Elems
    <2>3. ASSUME NEW i \in 1..Len(s) PROVE s[i] \in Elems(a)
      <3>1. i + 1 \in 1..Len(a) /\ a[i + 1] = s[i]
        BY <1>1
      <3> QED
        BY <3>1 DEF Elems
    <2> QED
      BY <2>1, <2>2, <2>3 DEF Elems
  <1>4. Distinct(s) /\ p \notin Elems(s) => Distinct(a)
    <2> SUFFICES ASSUME Distinct(s), p \notin Elems(s),
                        NEW i \in 1..Len(a), NEW j \in 1..Len(a), a[i] = a[j]
                 PROVE  i = j
      BY DEF Distinct
    <2>1. CASE i = 1 \/ j = 1
      BY <1>1, <1>2, <2>1 DEF Elems
    <2>2. CASE i # 1 /\ j # 1
      <3>1. i - 1 = j - 1
        BY <1>2, <2>2 DEF Distinct
      <3> QED
        BY <1>1, <3>1
    <2> QED
      BY <2>1, <2>2
  <1> QED
    BY <1>1, <1>3, <1>4 DEF a

LEMMA DeleteFacts ==
    ASSUME NEW S, NEW s \in Seq(S), NEW p, Distinct(s)
    PROVE  /\ Delete(s, p) \in Seq(S)
           /\ Elems(Delete(s, p)) = Elems(s) \ {p}
           /\ Distinct(Delete(s, p))
  <1>1. CASE p \notin Elems(s)
    BY <1>1 DEF Delete
  <1>2. CASE p \in Elems(s)
    <2> DEFINE k == CHOOSE i \in 1..Len(s) : s[i] = p
               d == [i \in 1..(Len(s) - 1) |-> IF i < k THEN s[i] ELSE s[i + 1]]
    <2>1. k \in 1..Len(s) /\ s[k] = p
      BY <1>2 DEF Elems
    <2>2. Delete(s, p) = d
      BY <1>2 DEF Delete
    <2> HIDE DEF k
    <2>3. Len(s) \in Nat /\ Len(s) - 1 \in Nat /\ \A i \in 1..Len(s) : s[i] \in S
      BY <2>1
    <2>4. \A i \in 1..(Len(s) - 1) : d[i] \in S
      BY <2>1, <2>3
    <2>5. d \in Seq(S) /\ Len(d) = Len(s) - 1
      BY <2>3, <2>4
    <2>6. \A i \in 1..Len(d) : d[i] = IF i < k THEN s[i] ELSE s[i + 1]
      BY <2>5
    <2> HIDE DEF d
    <2>7. \A i \in 1..Len(s) : s[i] = p => i = k
      BY <2>1 DEF Distinct
    <2>8. Elems(d) \subseteq Elems(s) \ {p}
      <3> SUFFICES ASSUME NEW i \in 1..Len(d) PROVE d[i] \in Elems(s) \ {p}
        BY DEF Elems
      <3>1. CASE i < k
        <4>1. i \in 1..Len(s) /\ d[i] = s[i] /\ i # k
          BY <2>1, <2>3, <2>5, <2>6, <3>1
        <4> QED
          BY <2>7, <4>1 DEF Elems
      <3>2. CASE i >= k
        <4>1. i + 1 \in 1..Len(s) /\ d[i] = s[i + 1] /\ i + 1 # k
          BY <2>1, <2>3, <2>5, <2>6, <3>2
        <4> QED
          BY <2>7, <4>1 DEF Elems
      <3> QED
        BY <2>1, <2>3, <2>5, <3>1, <3>2
    <2>9. Elems(s) \ {p} \subseteq Elems(d)
      <3> SUFFICES ASSUME NEW i \in 1..Len(s), s[i] # p PROVE s[i] \in Elems(d)
        BY DEF Elems
      <3>1. CASE i < k
        <4>1. i \in 1..Len(d) /\ d[i] = s[i]
          BY <2>1, <2>3, <2>5, <2>6, <3>1
        <4> QED
          BY <4>1 DEF Elems
      <3>2. CASE i > k
        <4>1. i - 1 \in 1..Len(d) /\ ~ (i - 1 < k) /\ (i - 1) + 1 = i
          BY <2>1, <2>3, <2>5, <3>2
        <4>2. d[i - 1] = s[i]
          BY <2>6, <4>1
        <4> QED
          BY <4>1, <4>2 DEF Elems
      <3> QED
        BY <2>1, <3>1, <3>2
    <2>10. Distinct(d)
      <3> SUFFICES ASSUME NEW i \in 1..Len(d), NEW j \in 1..Len(d), d[i] = d[j] PROVE i = j
        BY DEF Distinct
      <3> DEFINE from(n) == IF n < k THEN n ELSE n + 1
      <3>1. /\ from(i) \in 1..Len(s) /\ d[i] = s[from(i)]
            /\ from(j) \in 1..Len(s) /\ d[j] = s[from(j)]
        BY <2>1, <2>3, <2>5, <2>6, SMTT(60)
      <3>2. from(i) = from(j)
        BY <3>1 DEF Distinct
      <3> QED
        BY <2>1, <2>3, <2>5, <3>2
    <2> QED
      BY <2>2, <2>5, <2>8, <2>9, <2>10
  <1> QED
    BY <1>1, <1>2

LEMMA HeadFacts ==
    ASSUME NEW S, NEW s \in Seq(S)
    PROVE  /\ s # <<>> => Head(s) \in Elems(s) /\ Head(s) \in S
           /\ s = <<>> <=> Elems(s) = {}
           /\ Elems(s) \subseteq S
           /\ Elems(<<>>) = {} /\ Distinct(<<>>)
  <1>1. Elems(s) \subseteq S /\ Elems(<<>>) = {} /\ Distinct(<<>>)
    BY DEF Elems, Distinct
  <1>2. ASSUME s # <<>> PROVE Head(s) \in Elems(s)
    <2>1. Len(s) \in Nat /\ Len(s) >= 1 /\ Head(s) = s[1]
      BY <1>2
    <2> QED
      BY <2>1 DEF Elems
  <1> QED
    BY <1>1, <1>2

\* A sequence without repetition is as long as the set of its elements is large.
LEMMA DistinctCount ==
    ASSUME NEW S, NEW s \in Seq(S), Distinct(s)
    PROVE  IsFiniteSet(Elems(s)) /\ Cardinality(Elems(s)) = Len(s)
  <1> DEFINE f == [i \in 1..Len(s) |-> s[i]]
  <1>1. Len(s) \in Nat
    OBVIOUS
  <1>2. IsFiniteSet(1..Len(s)) /\ Cardinality(1..Len(s)) = Len(s)
    BY <1>1, CountedTo
  <1>3. f \in Surjection(1..Len(s), Elems(s)) /\ f \in Injection(1..Len(s), Elems(s))
    BY DEF Surjection, Injection, IsInjective, Elems, Distinct
  <1> QED
    BY <1>2, <1>3, FS_Surjection

\* A new element between its neighbours.
LEMMA InsertFacts ==
    ASSUME NEW S, NEW s \in Seq(S), NEW p \in S, NEW k \in 1..(Len(s) + 1)
    PROVE  /\ Insert(s, k, p) \in Seq(S)
           /\ Len(Insert(s, k, p)) = Len(s) + 1
           /\ \A i \in 1..(Len(s) + 1) :
                Insert(s, k, p)[i] = IF i < k THEN s[i] ELSE IF i = k THEN p ELSE s[i - 1]
           /\ Elems(Insert(s, k, p)) = Elems(s) \cup {p}
           /\ Distinct(s) /\ p \notin Elems(s) => Distinct(Insert(s, k, p))
  <1> DEFINE a == [i \in 1..(Len(s) + 1) |->
                      IF i < k THEN s[i] ELSE IF i = k THEN p ELSE s[i - 1]]
  <1>1. Insert(s, k, p) = a /\ Len(s) \in Nat /\ \A i \in 1..Len(s) : s[i] \in S
    BY DEF Insert
  <1>2. \A i \in 1..(Len(s) + 1) : a[i] \in S
    BY <1>1
  <1>3. a \in Seq(S) /\ Len(a) = Len(s) + 1
    BY <1>1, <1>2
  <1>4. \A i \in 1..Len(a) : a[i] = IF i < k THEN s[i] ELSE IF i = k THEN p ELSE s[i - 1]
    BY <1>3
  <1> HIDE DEF a
  <1> DEFINE to(i) == IF i < k THEN i ELSE i + 1
             from(i) == IF i < k THEN i ELSE i - 1
  <1>5. \A i \in 1..Len(s) : to(i) \in 1..Len(a) /\ to(i) # k /\ a[to(i)] = s[i]
    <2> SUFFICES ASSUME NEW i \in 1..Len(s)
                 PROVE  to(i) \in 1..Len(a) /\ to(i) # k /\ a[to(i)] = s[i]
      OBVIOUS
    <2>1. CASE i < k
      BY <1>1, <1>3, <1>4, <2>1
    <2>2. CASE i >= k
      <3>1. /\ to(i) = i + 1 /\ i + 1 \in 1..Len(a) /\ ~ (i + 1 < k) /\ i + 1 # k
            /\ (i + 1) - 1 = i
        BY <1>1, <1>3, <2>2
      <3>2. a[i + 1] = s[(i + 1) - 1]
        BY <1>4, <3>1
      <3> QED
        BY <3>1, <3>2
    <2> QED
      BY <1>1, <2>1, <2>2
  <1>6. \A i \in 1..Len(a) : i # k => from(i) \in 1..Len(s) /\ a[i] = s[from(i)] /\ to(from(i)) = i
    BY <1>1, <1>3, <1>4
  <1>7. k \in 1..Len(a) /\ a[k] = p
    BY <1>3, <1>4
  <1> HIDE DEF to, from
  <1>8. Elems(a) = Elems(s) \cup {p}
    <2>1. Elems(a) \subseteq Elems(s) \cup {p}
      BY <1>6, <1>7 DEF Elems
    <2>2. p \in Elems(a)
      BY <1>7 DEF Elems
    <2>3. ASSUME NEW i \in 1..Len(s) PROVE s[i] \in Elems(a)
      BY <1>5, <2>3 DEF Elems
    <2> QED
      BY <2>1, <2>2, <2>3 DEF Elems
  <1>9. Distinct(s) /\ p \notin Elems(s) => Distinct(a)
    <2> SUFFICES ASSUME Distinct(s), p \notin Elems(s),
                        NEW i \in 1..Len(a), NEW j \in 1..Len(a), a[i] = a[j]
                 PROVE  i = j
      BY DEF Distinct
    <2>1. CASE i = k \/ j = k
      BY <1>6, <1>7, <2>1 DEF Elems
    <2>2. CASE i # k /\ j # k
      <3>1. from(i) = from(j)
        BY <1>6, <2>2 DEF Distinct
      <3> QED
        BY <1>6, <2>2, <3>1
    <2> QED
      BY <2>1, <2>2
  <1> QED
    BY <1>1, <1>3, <1>4, <1>8, <1>9
=============================================================================
