--------------------------- MODULE AlgorithmsProofs ---------------------------
(***************************************************************************)
(* Proofs about the pure functions, for every input they are given and any *)
(* limits: what each of them answers keeps what AlgorithmsProperties says. *)
(*                                                                         *)
(* None of it is an induction: where a function works step by step, the    *)
(* first step at which what is claimed went wrong is shown not to exist    *)
(* (LeastNumber).                                                          *)
(***************************************************************************)
EXTENDS AlgorithmsProperties, SequenceTheorems, FiniteSetTheorems, WellFoundedInduction,
        TLAPS

\* Every set of numbers that is not empty has a least one.
LEMMA LeastNumber ==
  ASSUME NEW T, T \subseteq Nat, T # {}
  PROVE  \E x \in T : \A y \in T : ~ (y < x)
<1>1. IsWellFoundedOn(OpToRel(<, Nat), Nat)
  BY NatLessThanWellFounded
<1>2. \E x \in T : \A y \in T : ~ (<<y, x>> \in OpToRel(<, Nat))
  BY <1>1, WFMin
<1> QED
  BY <1>2 DEF OpToRel

\* The least number of a set.
LEMMA LeastOf ==
  ASSUME NEW T, T \subseteq Nat, T # {}
  PROVE  Min(T) \in T /\ \A y \in T : Min(T) <= y
<1>1. PICK x \in T : \A y \in T : ~ (y < x)
  BY LeastNumber
<1>2. \A y \in T : x <= y
  BY <1>1
<1> QED
  BY <1>1, <1>2 DEF Min

\* The larger of two numbers.
LEMMA LargerOf ==
  ASSUME NEW a \in Nat, NEW b \in Nat
  PROVE  Max({a, b}) = IF a <= b THEN b ELSE a
<1>1. \E x \in {a, b} : \A y \in {a, b} : x >= y
  OBVIOUS
<1>2. Max({a, b}) \in {a, b} /\ \A y \in {a, b} : Max({a, b}) >= y
  BY <1>1 DEF Max
<1> QED
  BY <1>2

\* Lists can be put one after the other.
LEMMA FlattenExists ==
  ASSUME NEW seqs
  PROVE  \A m \in Nat : \E flat : flat = [i \in 1..m |->
           IF i = 1 THEN seqs[i] ELSE flat[i - 1] \o seqs[i]]
<1> DEFINE Upto(m) == \E flat : flat = [i \in 1..m |->
             IF i = 1 THEN seqs[i] ELSE flat[i - 1] \o seqs[i]]
           bad == {m \in Nat : ~Upto(m)}
<1>1. SUFFICES ASSUME bad # {}
               PROVE  FALSE
  OBVIOUS
<1>2. PICK m \in bad : \A j \in bad : ~ (j < m)
  BY <1>1, LeastNumber
<1>3. CASE m = 0
  <2> DEFINE flat == [i \in 1..0 |-> seqs[i]]
  <2>1. flat = [i \in 1..0 |-> IF i = 1 THEN seqs[i] ELSE flat[i - 1] \o seqs[i]]
    OBVIOUS
  <2> HIDE DEF flat
  <2>2. Upto(0)
    BY <2>1
  <2> QED
    BY <1>2, <1>3, <2>2
<1>4. CASE m # 0
  <2>1. m \in Nat /\ m - 1 \in Nat /\ m - 1 < m
    BY <1>2, <1>4
  <2>2. Upto(m - 1)
    BY <1>2, <2>1
  <2>3. PICK flat : flat = [i \in 1..(m - 1) |->
                       IF i = 1 THEN seqs[i] ELSE flat[i - 1] \o seqs[i]]
    BY <2>2
  <2> DEFINE more == [i \in 1..m |-> IF i < m THEN flat[i]
                        ELSE IF m = 1 THEN seqs[m] ELSE flat[m - 1] \o seqs[m]]
  <2>4. ASSUME NEW i \in 1..m
        PROVE  more[i] = IF i = 1 THEN seqs[i] ELSE more[i - 1] \o seqs[i]
    <3>1. CASE i = m
      BY <1>4, <2>1, <3>1
    <3>2. CASE i < m /\ i # 1
      <4>1. i \in 1..(m - 1) /\ i - 1 \in 1..m /\ i - 1 < m
        BY <2>1, <3>2
      <4>2. more[i] = flat[i] /\ more[i - 1] = flat[i - 1]
        BY <3>2, <4>1
      <4>3. flat[i] = flat[i - 1] \o seqs[i]
        BY <2>3, <3>2, <4>1
      <4> QED
        BY <3>2, <4>2, <4>3
    <3>3. CASE i < m /\ i = 1
      BY <2>1, <2>3, <3>3
    <3> QED
      BY <2>1, <3>1, <3>2, <3>3
  <2>5. more = [i \in 1..m |-> more[i]]
    OBVIOUS
  <2> HIDE DEF more
  <2>6. more = [i \in 1..m |-> IF i = 1 THEN seqs[i] ELSE more[i - 1] \o seqs[i]]
    BY <2>4, <2>5
  <2>7. Upto(m)
    BY <2>6
  <2> QED
    BY <1>2, <2>7
<1> QED
  BY <1>3, <1>4

\* FlattenSeq puts lists one after the other.
LEMMA FlattenUnfolds ==
  ASSUME NEW S, NEW seqs \in Seq(S), seqs # <<>>
  PROVE  \E flat : /\ flat = [i \in 1..Len(seqs) |->
                        IF i = 1 THEN seqs[i] ELSE flat[i - 1] \o seqs[i]]
                   /\ FlattenSeq(seqs) = flat[Len(seqs)]
<1>1. Len(seqs) \in Nat /\ Len(seqs) # 0
  OBVIOUS
<1> DEFINE flatten == CHOOSE flat : flat = [i \in 1..Len(seqs) |->
                        IF i = 1 THEN seqs[i] ELSE flat[i - 1] \o seqs[i]]
<1>2. FlattenSeq(seqs) = flatten[Len(seqs)]
  BY <1>1 DEF FlattenSeq
<1>3. \E flat : flat = [i \in 1..Len(seqs) |->
                   IF i = 1 THEN seqs[i] ELSE flat[i - 1] \o seqs[i]]
  BY <1>1, FlattenExists
<1>4. flatten = [i \in 1..Len(seqs) |->
                   IF i = 1 THEN seqs[i] ELSE flatten[i - 1] \o seqs[i]]
  BY <1>3
<1> HIDE DEF flatten
<1> QED
  BY <1>2, <1>4

-----------------------------------------------------------------------------
(***************************************************************************)
(* Pages of issues.  A screen reaches up to its Stop, where the next one   *)
(* starts; the newest page behind a screen is where Previous goes.         *)
(***************************************************************************)
\* Whole pages lie on both sides of a number.
LEMMA WholePages ==
  ASSUME NEW a \in Nat, NEW p \in Nat \ {0}
  PROVE  /\ a \div p \in Nat
         /\ (a \div p) * p <= a /\ a < (a \div p) * p + p
OBVIOUS

\* More pages hold more entries.
LEMMA MorePages ==
  ASSUME NEW m \in Nat, NEW n \in Nat, NEW p \in Nat, m <= n
  PROVE  m * p \in Nat /\ n * p \in Nat /\ m * p <= n * p
OBVIOUS

\* A page more holds PerPage entries more.
LEMMA OnePageMore ==
  ASSUME NEW m \in Nat, NEW p \in Nat
  PROVE  (m + 1) * p = m * p + p /\ m * p \in Nat
OBVIOUS

\* Fewer whole pages lie before a number than it takes to hold it.
LEMMA PagesBelow ==
  ASSUME NEW a \in Nat, NEW m \in Nat, NEW p \in Nat \ {0}, m * p <= a
  PROVE  m <= a \div p
<1>1. SUFFICES ASSUME a \div p < m
               PROVE  FALSE
  BY WholePages
<1>2. /\ a \div p \in Nat /\ a < (a \div p) * p + p
  BY WholePages
<1>3. (a \div p + 1) * p = (a \div p) * p + p
  BY <1>2, OnePageMore
<1>4. (a \div p + 1) * p <= m * p
  BY <1>1, <1>2, MorePages
<1>5. (a \div p) * p \in Nat /\ m * p \in Nat
  BY <1>2, OnePageMore
<1> QED
  BY <1>2, <1>3, <1>4, <1>5

\* Reading forward from a cursor goes past it.
LEMMA ForwardReaches ==
  ASSUME NEW c \in Nat
  PROVE  ForwardEnd(c) \in Nat /\ c < ForwardEnd(c)
<1>1. PerPage \in Nat \ {0} /\ Reach \in Nat /\ Reach >= 1
  BY PagesAssumption
<1> DEFINE leaf == c \div PerPage
<1>2. leaf \in Nat /\ c < leaf * PerPage + PerPage
  BY <1>1, WholePages
<1> HIDE DEF leaf
<1>3. (leaf + 1) * PerPage = leaf * PerPage + PerPage /\ leaf * PerPage \in Nat
  BY <1>1, <1>2, OnePageMore
<1>4. /\ (leaf + Reach) * PerPage \in Nat /\ (leaf + 1) * PerPage \in Nat
      /\ (leaf + 1) * PerPage <= (leaf + Reach) * PerPage
  BY <1>1, <1>2, MorePages
<1>5. ForwardEnd(c) = (leaf + Reach) * PerPage
  BY DEF ForwardEnd, leaf
<1> QED
  BY <1>2, <1>3, <1>4, <1>5

\* The first entry that is read backward from a cursor.
Newest(cursor) == (cursor + PerPage - 1) \div PerPage
Oldest(cursor) == IF Newest(cursor) < Reach THEN 0 ELSE (Newest(cursor) - Reach) * PerPage

\* What is read forward from an entry that was read backward reaches where that began.
LEMMA BackAndForth ==
  ASSUME NEW c \in Nat
  PROVE  /\ Newest(c) \in Nat /\ Oldest(c) \in Nat
         /\ Newest(c) >= Reach => Oldest(c) < c
         /\ \A b \in Nat : Oldest(c) <= b => c <= ForwardEnd(b)
<1>1. PerPage \in Nat \ {0} /\ Reach \in Nat /\ Reach >= 1
  BY PagesAssumption
<1> DEFINE newest == Newest(c)
           old    == IF newest < Reach THEN 0 ELSE newest - Reach
<1>2. c + PerPage - 1 \in Nat
  BY <1>1
<1>3. newest \in Nat /\ newest * PerPage <= c + PerPage - 1
      /\ c + PerPage - 1 < newest * PerPage + PerPage
  BY <1>1, <1>2, WholePages DEF Newest
<1> HIDE DEF newest
<1>4. old \in Nat /\ Oldest(c) = old * PerPage /\ newest <= old + Reach
  BY <1>1, <1>3 DEF Oldest, newest
<1>5. newest >= Reach => old + 1 <= newest
  BY <1>1, <1>3
<1> HIDE DEF old
<1>6. old * PerPage \in Nat /\ newest * PerPage \in Nat
      /\ (old + 1) * PerPage = old * PerPage + PerPage
  BY <1>1, <1>3, <1>4, OnePageMore
<1>7. ASSUME newest >= Reach
      PROVE  Oldest(c) < c
  <2>1. (old + 1) * PerPage <= newest * PerPage
    BY <1>1, <1>3, <1>4, <1>5, <1>7, MorePages
  <2> QED
    BY <1>1, <1>3, <1>4, <1>6, <2>1
<1>8. ASSUME NEW b \in Nat, Oldest(c) <= b
      PROVE  c <= ForwardEnd(b)
  <2> DEFINE leaf == b \div PerPage
  <2>1. leaf \in Nat /\ old <= leaf
    BY <1>1, <1>4, <1>8, PagesBelow, WholePages
  <2> HIDE DEF leaf
  <2>2. newest <= leaf + Reach /\ leaf + Reach \in Nat
    BY <1>1, <1>3, <1>4, <2>1
  <2>3. newest * PerPage <= (leaf + Reach) * PerPage /\ (leaf + Reach) * PerPage \in Nat
    BY <1>1, <1>3, <2>2, MorePages
  <2>4. ForwardEnd(b) = (leaf + Reach) * PerPage
    BY DEF ForwardEnd, leaf
  <2> QED
    BY <1>1, <1>3, <1>6, <2>3, <2>4
<1> QED
  BY <1>3, <1>4, <1>6, <1>7, <1>8 DEF newest

\* The places of issues are numbers of the list, and finite in number.
LEMMA PlacesAreFinite ==
  ASSUME NEW list, NEW a \in Nat, NEW b \in Nat
  PROVE  /\ IsFiniteSet(IssuesIn(list, a + 1, b))
         /\ IssuesIn(list, a + 1, b) \subseteq 1..b
         /\ Cardinality(IssuesIn(list, a + 1, b)) \in Nat
<1>1. IsFiniteSet((a + 1)..b)
  BY FS_Interval
<1>2. IssuesIn(list, a + 1, b) \subseteq (a + 1)..b
  BY DEF IssuesIn
<1>3. IsFiniteSet(IssuesIn(list, a + 1, b))
  BY <1>1, <1>2, FS_Subset
<1>4. (a + 1)..b \subseteq 1..b
  OBVIOUS
<1> QED
  BY <1>2, <1>3, <1>4, FS_CardinalityType

\* A set of numbers with k members or more has a k-th smallest.
LEMMA NthExists ==
  ASSUME NEW b \in Nat, NEW S, S \subseteq 1..b, NEW k \in Nat \ {0}, Cardinality(S) >= k
  PROVE  /\ Nth(S, k) \in S
         /\ Cardinality({j \in S : j <= Nth(S, k)}) = k
<1> DEFINE upto(i) == {j \in S : j <= i}
           enough  == {i \in Nat : Cardinality(upto(i)) >= k}
<1>0. /\ IsFiniteSet(S)
      /\ \A s \in S : s \in Nat /\ s # 0 /\ s <= b
  <2>1. IsFiniteSet(1..b)
    BY FS_Interval
  <2>2. \A s \in 1..b : s \in Nat /\ s # 0 /\ s <= b
    OBVIOUS
  <2> QED
    BY <2>1, <2>2, FS_Subset
<1>1. \A i \in Nat : IsFiniteSet(upto(i)) /\ Cardinality(upto(i)) \in Nat
  <2>1. \A i \in Nat : upto(i) \in SUBSET S
    OBVIOUS
  <2> HIDE DEF upto
  <2> QED
    BY <1>0, <2>1, FS_Subset, FS_CardinalityType
<1>2. enough # {}
  <2>1. upto(b) = S
    BY <1>0
  <2> HIDE DEF upto
  <2> QED
    BY <2>1
<1>3. PICK n \in enough : \A i \in enough : ~ (i < n)
  BY <1>2, LeastNumber
<1>4. n \in Nat /\ Cardinality(upto(n)) >= k
  BY <1>3
<1>5. n # 0
  <2>1. upto(0) = {}
    <3>1. \A s \in S : ~ (s <= 0)
      BY <1>0
    <3> QED
      BY <3>1
  <2> HIDE DEF upto
  <2> QED
    BY <1>4, <2>1, FS_EmptySet
<1>6. n - 1 \in Nat /\ ~ (Cardinality(upto(n - 1)) >= k)
  <2>1. n - 1 \in Nat /\ n - 1 < n
    BY <1>4, <1>5
  <2> HIDE DEF upto
  <2> QED
    BY <1>3, <2>1
<1>7. n \notin S => upto(n) = upto(n - 1)
  <2>1. \A s \in S : s # n => (s <= n <=> s <= n - 1)
    BY <1>0, <1>4
  <2> QED
    BY <2>1
<1>8. n \in S
  <2> HIDE DEF upto
  <2> QED
    BY <1>4, <1>6, <1>7
<1>9. upto(n) = upto(n - 1) \union {n} /\ n \notin upto(n - 1)
  <2>1. \A s \in S : (s # n => (s <= n <=> s <= n - 1)) /\ n <= n /\ ~ (n <= n - 1)
    BY <1>0, <1>4
  <2> QED
    BY <1>8, <2>1
<1> HIDE DEF upto
<1>10. Cardinality(upto(n)) = Cardinality(upto(n - 1)) + 1
  BY <1>1, <1>6, <1>9, FS_AddElement
<1>11. Cardinality(upto(n)) = k
  BY <1>1, <1>4, <1>6, <1>10
<1>12. n \in S /\ Cardinality({j \in S : j <= n}) = k
  BY <1>8, <1>11 DEF upto
<1>13. \E i \in S : Cardinality({j \in S : j <= i}) = k
  BY <1>12
<1> QED
  BY <1>13 DEF Nth

\* A set of numbers with k members or more has a k-th largest.
LEMMA NthLastExists ==
  ASSUME NEW b \in Nat, NEW S, S \subseteq 1..b, NEW k \in Nat \ {0}, Cardinality(S) >= k
  PROVE  /\ NthLast(S, k) \in S
         /\ Cardinality({j \in S : j >= NthLast(S, k)}) = k
<1> DEFINE from(i) == {j \in S : j >= i}
           few     == {i \in Nat : ~ (Cardinality(from(i)) >= k)}
<1>0. /\ IsFiniteSet(S)
      /\ \A s \in S : s \in Nat /\ s # 0 /\ s <= b
  <2>1. IsFiniteSet(1..b)
    BY FS_Interval
  <2>2. \A s \in 1..b : s \in Nat /\ s # 0 /\ s <= b
    OBVIOUS
  <2> QED
    BY <2>1, <2>2, FS_Subset
<1>1. \A i \in Nat : IsFiniteSet(from(i)) /\ Cardinality(from(i)) \in Nat
  <2>1. \A i \in Nat : from(i) \in SUBSET S
    OBVIOUS
  <2> HIDE DEF from
  <2> QED
    BY <1>0, <2>1, FS_Subset, FS_CardinalityType
<1>2. few # {}
  <2>1. from(b + 1) = {}
    <3>1. \A s \in S : ~ (s >= b + 1)
      BY <1>0
    <3> QED
      BY <3>1
  <2>2. Cardinality(from(b + 1)) = 0
    BY <2>1, FS_EmptySet
  <2> HIDE DEF from
  <2> QED
    BY <2>2
<1>3. PICK n \in few : \A i \in few : ~ (i < n)
  BY <1>2, LeastNumber
<1>4. n \in Nat /\ ~ (Cardinality(from(n)) >= k)
  BY <1>3
<1>5. n # 0
  <2>1. from(0) = S
    <3>1. \A s \in S : s >= 0
      BY <1>0
    <3> QED
      BY <3>1
  <2> HIDE DEF from
  <2> QED
    BY <1>4, <2>1
<1>6. n - 1 \in Nat /\ Cardinality(from(n - 1)) >= k
  <2>1. n - 1 \in Nat /\ n - 1 < n
    BY <1>4, <1>5
  <2> HIDE DEF from
  <2> QED
    BY <1>3, <2>1
<1>7. n - 1 \notin S => from(n - 1) = from(n)
  <2>1. \A s \in S : s # n - 1 => (s >= n <=> s >= n - 1)
    BY <1>0, <1>4
  <2> QED
    BY <2>1
<1>8. n - 1 \in S
  <2> HIDE DEF from
  <2> QED
    BY <1>4, <1>6, <1>7
<1>9. from(n - 1) = from(n) \union {n - 1} /\ n - 1 \notin from(n)
  <2>1. \A s \in S : (s # n - 1 => (s >= n <=> s >= n - 1)) /\ n - 1 >= n - 1 /\ ~ (n - 1 >= n)
    BY <1>0, <1>4
  <2> QED
    BY <1>8, <2>1
<1> HIDE DEF from
<1>10. Cardinality(from(n - 1)) = Cardinality(from(n)) + 1
  BY <1>1, <1>4, <1>9, FS_AddElement
<1>11. Cardinality(from(n - 1)) = k
  BY <1>1, <1>4, <1>6, <1>10
<1>12. Cardinality({j \in S : j >= n - 1}) = k
  BY <1>11 DEF from
<1>13. \E i \in S : Cardinality({j \in S : j >= i}) = k
  BY <1>8, <1>12
<1> QED
  BY <1>13 DEF NthLast

\* Where reading forward for a screen stops.
Stop(list, cursor) ==
  LET found == IssuesIn(list, cursor + 1, ForwardEnd(cursor))
  IN  IF Cardinality(found) < Screen THEN ForwardEnd(cursor) ELSE Nth(found, Screen)

\* A screen shows all issues between its cursor and where reading stopped.
LEMMA ShownUpToStop ==
  ASSUME NEW list, NEW c \in Nat
  PROVE  /\ Stop(list, c) \in Nat /\ c < Stop(list, c)
         /\ OnScreen(list, c) = IssuesIn(list, c + 1, Stop(list, c))
         /\ NextCursor(list, c) = IF Stop(list, c) < Len(list) THEN Stop(list, c) ELSE NoCursor
<1> DEFINE end   == ForwardEnd(c)
           found == IssuesIn(list, c + 1, end)
<1>1. end \in Nat /\ c < end
  BY ForwardReaches
<1> HIDE DEF end
<1>2. IsFiniteSet(found) /\ found \subseteq 1..end /\ Cardinality(found) \in Nat
  BY <1>1, PlacesAreFinite
<1>3. CASE Cardinality(found) < Screen
  BY <1>1, <1>3 DEF Stop, OnScreen, NextCursor, end
<1>4. CASE ~ (Cardinality(found) < Screen)
  <2> DEFINE nth == Nth(found, Screen)
  <2>1. Screen \in Nat \ {0} /\ Cardinality(found) >= Screen
    BY <1>2, <1>4, PagesAssumption
  <2>2. nth \in found
    BY <1>1, <1>2, <2>1, NthExists
  <2>3. Stop(list, c) = nth /\ OnScreen(list, c) = {i \in found : i <= nth}
        /\ NextCursor(list, c) = IF nth < Len(list) THEN nth ELSE NoCursor
    BY <1>4 DEF Stop, OnScreen, NextCursor, end
  <2> HIDE DEF nth
  <2>4. nth \in (c + 1)..end
    BY <2>2 DEF IssuesIn
  <2>5. {i \in found : i <= nth} = IssuesIn(list, c + 1, nth)
    BY <1>1, <2>4 DEF IssuesIn
  <2> QED
    BY <1>1, <2>3, <2>4, <2>5
<1> QED
  BY <1>3, <1>4

\* Reading forward from a cursor passes more entries than Reach - 1 pages hold.
LEMMA ForwardIsFar ==
  ASSUME NEW c \in Nat
  PROVE  ForwardEnd(c) > c + (Reach - 1) * PerPage
<1>1. PerPage \in Nat \ {0} /\ Reach \in Nat /\ Reach - 1 \in Nat
  BY PagesAssumption
<1> DEFINE leaf == c \div PerPage
           far  == Reach - 1
<1>2. leaf \in Nat /\ c < leaf * PerPage + PerPage
  BY <1>1, WholePages
<1>3. ForwardEnd(c) = (leaf + Reach) * PerPage /\ Reach = far + 1 /\ far \in Nat
  BY <1>1 DEF ForwardEnd
<1> HIDE DEF leaf, far
<1>4. (leaf + Reach) * PerPage = leaf * PerPage + far * PerPage + PerPage
  BY <1>1, <1>2, <1>3
<1>5. leaf * PerPage \in Nat /\ far * PerPage \in Nat
  BY <1>1, <1>2, <1>3, OnePageMore
<1> QED
  BY <1>1, <1>2, <1>3, <1>4, <1>5 DEF far

\* A screen holds Screen issues, or all up to the end or far enough.
LEMMA ScreenIsFull ==
  ASSUME NEW list \in Seq(BOOLEAN), NEW c \in Nat
  PROVE  \/ Cardinality(OnScreen(list, c)) = Screen
         \/ /\ Cardinality(OnScreen(list, c)) < Screen
            /\ \E last \in 0..Len(list) :
                 /\ last = Len(list) \/ last > c + (Reach - 1) * PerPage
                 /\ OnScreen(list, c) = IssuesIn(list, c + 1, last)
<1> DEFINE end   == ForwardEnd(c)
           found == IssuesIn(list, c + 1, end)
<1>1. end \in Nat /\ c < end /\ end > c + (Reach - 1) * PerPage
  BY ForwardReaches, ForwardIsFar
<1> HIDE DEF end
<1>2. found \subseteq 1..end /\ Cardinality(found) \in Nat
  BY <1>1, PlacesAreFinite
<1>3. CASE Cardinality(found) < Screen
  <2> DEFINE last == IF end <= Len(list) THEN end ELSE Len(list)
  <2>1. OnScreen(list, c) = found
    BY <1>3 DEF OnScreen, end
  <2>2. last \in 0..Len(list) /\ (last = Len(list) \/ last = end)
    BY <1>1
  <2>3. found = IssuesIn(list, c + 1, last)
    BY <1>1 DEF IssuesIn
  <2> HIDE DEF last, found
  <2> QED
    BY <1>1, <1>3, <2>1, <2>2, <2>3
<1>4. CASE ~ (Cardinality(found) < Screen)
  <2>1. Screen \in Nat \ {0} /\ Cardinality(found) >= Screen
    BY <1>2, <1>4, PagesAssumption
  <2>2. OnScreen(list, c) = {i \in found : i <= Nth(found, Screen)}
    BY <1>4 DEF OnScreen, end
  <2>3. Cardinality({j \in found : j <= Nth(found, Screen)}) = Screen
    BY <1>1, <1>2, <2>1, NthExists
  <2> QED
    BY <2>2, <2>3
<1> QED
  BY <1>3, <1>4

\* A screen shows all issues between an entry and a later one that is read forward from
\* it, if they are not too many.
LEMMA ScreenReaches ==
  ASSUME NEW list, NEW b \in Nat, NEW c \in Nat, c <= ForwardEnd(b),
         Cardinality(IssuesIn(list, b + 1, c)) <= Screen
  PROVE  IssuesIn(list, b + 1, c) \subseteq OnScreen(list, b)
<1> DEFINE end   == ForwardEnd(b)
           near  == IssuesIn(list, b + 1, c)
           found == IssuesIn(list, b + 1, end)
<1>1. end \in Nat
  BY ForwardReaches
<1>2. /\ IsFiniteSet(near) /\ IsFiniteSet(found) /\ found \subseteq 1..end
      /\ Cardinality(near) \in Nat /\ Cardinality(found) \in Nat
  BY <1>1, PlacesAreFinite
<1>3. near \subseteq found
  BY <1>1 DEF IssuesIn
<1>4. \A i \in near, j \in found : j <= i => j \in near
  BY <1>1 DEF IssuesIn
<1>5. OnScreen(list, b) = IF Cardinality(found) < Screen THEN found
                          ELSE {i \in found : i <= Nth(found, Screen)}
  BY DEF OnScreen
<1>6. Cardinality(near) <= Screen /\ Screen \in Nat \ {0}
  BY PagesAssumption
<1> HIDE DEF end, near, found
<1>7. SUFFICES near \subseteq OnScreen(list, b)
  BY DEF near
<1>8. CASE Cardinality(found) < Screen
  BY <1>3, <1>5, <1>8
<1>9. CASE ~ (Cardinality(found) < Screen)
  <2> DEFINE nth   == Nth(found, Screen)
             first == {j \in found : j <= nth}
  <2>1. Cardinality(found) >= Screen
    BY <1>2, <1>6, <1>9
  <2>2. nth \in found /\ Cardinality(first) = Screen
    BY <1>1, <1>2, <1>6, <2>1, NthExists
  <2> HIDE DEF nth
  <2>3. SUFFICES ASSUME NEW i \in near, ~ (i <= nth)
                 PROVE  FALSE
    BY <1>3, <1>5, <1>9 DEF nth
  <2>4. i \in Nat /\ nth \in Nat /\ found \subseteq Nat
    BY <1>2, <1>3, <2>2
  <2>5. first \subseteq near /\ i \notin first
    <3>1. \A j \in found : j <= nth => j <= i
      BY <2>3, <2>4
    <3> QED
      BY <1>4, <2>3, <3>1
  <2> HIDE DEF first
  <2>6. IsFiniteSet(first) /\ first \union {i} \in SUBSET near
    BY <1>2, <2>3, <2>5, FS_Subset
  <2>7. Cardinality(first \union {i}) = Screen + 1
    BY <2>2, <2>5, <2>6, FS_AddElement
  <2>8. Cardinality(first \union {i}) <= Cardinality(near)
    BY <1>2, <2>6, FS_Subset
  <2> QED
    BY <1>2, <1>6, <2>7, <2>8
<1> QED
  BY <1>8, <1>9

\* Previous leads back to an entry from which all issues up to the cursor are shown;
\* there is none only if no issue lies before the cursor.
LEMMA PreviousShowsAll ==
  ASSUME NEW list, NEW c \in Nat
  PROVE  LET back == PreviousCursor(list, c)
         IN  IF back = NoCursor THEN IssuesIn(list, 1, c) = {}
             ELSE /\ back < c /\ Cardinality(IssuesIn(list, back + 1, c)) <= Screen
                  /\ IssuesIn(list, back + 1, c) \subseteq OnScreen(list, back)
<1> DEFINE back  == PreviousCursor(list, c)
           found == IssuesIn(list, Oldest(c) + 1, c)
           old   == Oldest(c)
<1>1. /\ old \in Nat
      /\ Newest(c) \in Nat
      /\ Newest(c) >= Reach => old < c
      /\ \A b \in Nat : old <= b => c <= ForwardEnd(b)
  BY BackAndForth
<1>2. Screen \in Nat \ {0} /\ Reach \in Nat /\ NoCursor \notin Nat
  BY PagesAssumption
<1>3. back = IF Cardinality(found) >= Screen THEN NthLast(found, Screen) - 1
             ELSE IF Newest(c) >= Reach THEN old
             ELSE IF found = {} THEN NoCursor ELSE Min(found) - 1
  BY DEF PreviousCursor, Newest, Oldest
<1>4. Newest(c) < Reach => old = 0
  BY DEF Oldest
<1> HIDE DEF old
<1>5. found = IssuesIn(list, old + 1, c)
  BY DEF old
<1> HIDE DEF found, back
<1>6. /\ IsFiniteSet(found) /\ found \subseteq 1..c /\ Cardinality(found) \in Nat
      /\ \A i \in found : i \in Nat /\ old < i /\ i <= c
  <2>1. found \subseteq (old + 1)..c
    BY <1>1, <1>5 DEF IssuesIn
  <2>2. \A i \in (old + 1)..c : i \in Nat /\ old < i /\ i <= c
    BY <1>1
  <2> QED
    BY <1>1, <1>5, <2>1, <2>2, PlacesAreFinite
<1>7. SUFFICES IF back = NoCursor THEN IssuesIn(list, 1, c) = {}
               ELSE /\ back \in Nat /\ old <= back /\ back < c
                    /\ Cardinality(IssuesIn(list, back + 1, c)) <= Screen
  <2>1. back # NoCursor /\ back \in Nat /\ old <= back
          /\ Cardinality(IssuesIn(list, back + 1, c)) <= Screen
        => IssuesIn(list, back + 1, c) \subseteq OnScreen(list, back)
    BY <1>1, ScreenReaches
  <2> QED
    BY <1>7, <2>1 DEF back
<1>8. \A i \in found : IssuesIn(list, (i - 1) + 1, c) = {j \in found : j >= i}
  <2>1. SUFFICES ASSUME NEW i \in found
                 PROVE  IssuesIn(list, (i - 1) + 1, c) = {j \in found : j >= i}
    OBVIOUS
  <2>2. (i - 1) + 1 = i /\ i \in Nat /\ old < i
    BY <1>6
  <2>3. \A j \in i..c : j \in (old + 1)..c /\ j >= i
    BY <1>1, <2>2
  <2>4. \A j \in (old + 1)..c : j >= i => j \in i..c
    BY <1>1, <2>2
  <2> QED
    BY <1>5, <2>2, <2>3, <2>4 DEF IssuesIn
<1>9. CASE Cardinality(found) >= Screen
  <2> DEFINE nth == NthLast(found, Screen)
  <2>1. nth \in found /\ Cardinality({j \in found : j >= nth}) = Screen
    BY <1>2, <1>6, <1>9, NthLastExists
  <2> HIDE DEF nth
  <2>2. back = nth - 1
    BY <1>3, <1>9 DEF nth
  <2>3. back \in Nat /\ old <= back /\ back < c
    BY <1>1, <1>6, <2>1, <2>2
  <2>4. Cardinality(IssuesIn(list, back + 1, c)) = Screen
    BY <1>8, <2>1, <2>2
  <2> QED
    BY <1>2, <2>3, <2>4
<1>10. CASE ~ (Cardinality(found) >= Screen) /\ Newest(c) >= Reach
  <2>1. back = old
    BY <1>3, <1>10
  <2> QED
    BY <1>1, <1>2, <1>5, <1>6, <1>10, <2>1
<1>11. CASE ~ (Cardinality(found) >= Screen) /\ ~ (Newest(c) >= Reach) /\ found = {}
  <2>1. back = NoCursor /\ old = 0
    BY <1>1, <1>2, <1>3, <1>4, <1>11
  <2> QED
    BY <1>5, <1>11, <2>1
<1>12. CASE ~ (Cardinality(found) >= Screen) /\ ~ (Newest(c) >= Reach) /\ found # {}
  <2> DEFINE first == Min(found)
  <2>1. first \in found /\ \A i \in found : i >= first
    <3>1. PICK i \in found : \A j \in found : ~ (j < i)
      BY <1>6, <1>12, LeastNumber
    <3>2. \A j \in found : i <= j
      BY <1>6, <3>1
    <3>3. \E k \in found : \A j \in found : k <= j
      BY <3>2
    <3>4. first \in found /\ \A j \in found : first <= j
      BY <3>3 DEF Min
    <3> HIDE DEF first
    <3> QED
      BY <1>6, <3>4
  <2> HIDE DEF first
  <2>2. back = first - 1
    BY <1>3, <1>12 DEF first
  <2>3. back \in Nat /\ old <= back /\ back < c
    BY <1>1, <1>6, <2>1, <2>2
  <2>4. {j \in found : j >= first} = found
    BY <2>1
  <2>5. IssuesIn(list, back + 1, c) = found
    BY <1>8, <2>1, <2>2, <2>4
  <2> QED
    BY <1>2, <1>6, <1>12, <2>3, <2>5
<1> QED
  BY <1>9, <1>10, <1>11, <1>12

\* Where Next leads from a cursor, and whether the first k screens can be followed.
Following(list, c) == IF c = NoCursor THEN NoCursor ELSE NextCursor(list, c)
CursorsUpto(list, k) ==
  \E cursor : cursor = [n \in 1..k |-> IF n = 1 THEN 0 ELSE Following(list, cursor[n - 1])]

\* Next can be followed as often as one likes.
LEMMA CursorsExist ==
  ASSUME NEW list
  PROVE  \A k \in Nat : CursorsUpto(list, k)
<1> DEFINE bad == {k \in Nat : ~CursorsUpto(list, k)}
<1>1. SUFFICES ASSUME bad # {}
               PROVE  FALSE
  OBVIOUS
<1>2. PICK k \in bad : \A j \in bad : ~ (j < k)
  BY <1>1, LeastNumber
<1>3. CASE k = 0
  <2> DEFINE cursor == [n \in 1..0 |-> 0]
  <2>1. cursor = [n \in 1..0 |-> IF n = 1 THEN 0 ELSE Following(list, cursor[n - 1])]
    OBVIOUS
  <2> HIDE DEF cursor
  <2>2. CursorsUpto(list, 0)
    BY <2>1 DEF CursorsUpto
  <2> QED
    BY <1>2, <1>3, <2>2
<1>4. CASE k # 0
  <2>1. k \in Nat /\ k - 1 \in Nat /\ k - 1 < k
    BY <1>2, <1>4
  <2>2. CursorsUpto(list, k - 1)
    BY <1>2, <2>1
  <2>3. PICK cursor : cursor = [n \in 1..(k - 1) |->
                        IF n = 1 THEN 0 ELSE Following(list, cursor[n - 1])]
    BY <2>2 DEF CursorsUpto
  <2> DEFINE more == [n \in 1..k |-> IF n < k THEN cursor[n]
                        ELSE IF k = 1 THEN 0 ELSE Following(list, cursor[k - 1])]
  <2>4. ASSUME NEW n \in 1..k
        PROVE  more[n] = IF n = 1 THEN 0 ELSE Following(list, more[n - 1])
    <3>1. CASE n = k
      BY <1>4, <2>1, <3>1
    <3>2. CASE n < k /\ n # 1
      <4>1. n \in 1..(k - 1) /\ n - 1 \in 1..k /\ n - 1 < k
        BY <2>1, <3>2
      <4>2. more[n] = cursor[n] /\ more[n - 1] = cursor[n - 1]
        BY <3>2, <4>1
      <4> QED
        BY <2>3, <3>2, <4>1, <4>2
    <3>3. CASE n < k /\ n = 1
      BY <2>1, <2>3, <3>3
    <3> QED
      BY <2>1, <3>1, <3>2, <3>3
  <2>5. more = [n \in 1..k |-> more[n]]
    OBVIOUS
  <2> HIDE DEF more
  <2>6. more = [n \in 1..k |-> IF n = 1 THEN 0 ELSE Following(list, more[n - 1])]
    BY <2>4, <2>5
  <2>7. CursorsUpto(list, k)
    BY <2>6 DEF CursorsUpto
  <2> QED
    BY <1>2, <2>7
<1> QED
  BY <1>3, <1>4

\* The screens are those at the cursors Next leads to, as long as it leads to any.
LEMMA ScreensUnfold ==
  ASSUME NEW list \in Seq(BOOLEAN)
  PROVE  \E cursor :
           /\ cursor = [n \in 1..Len(list) + 1 |->
                          IF n = 1 THEN 0 ELSE Following(list, cursor[n - 1])]
           /\ Screens(list) = [n \in {m \in 1..Len(list) + 1 : cursor[m] # NoCursor} |->
                [cursor |-> cursor[n], shown |-> OnScreen(list, cursor[n]),
                 previous |-> PreviousCursor(list, cursor[n])]]
<1>1. Len(list) + 1 \in Nat
  OBVIOUS
<1> DEFINE follow == CHOOSE cursor : cursor = [n \in 1..Len(list) + 1 |->
                       IF n = 1 THEN 0
                       ELSE IF cursor[n - 1] = NoCursor THEN NoCursor
                       ELSE NextCursor(list, cursor[n - 1])]
<1>2. Screens(list) = [n \in {m \in 1..Len(list) + 1 : follow[m] # NoCursor} |->
                [cursor |-> follow[n], shown |-> OnScreen(list, follow[n]),
                 previous |-> PreviousCursor(list, follow[n])]]
  BY DEF Screens
<1>3. \E cursor : cursor = [n \in 1..Len(list) + 1 |->
                       IF n = 1 THEN 0
                       ELSE IF cursor[n - 1] = NoCursor THEN NoCursor
                       ELSE NextCursor(list, cursor[n - 1])]
  <2>1. CursorsUpto(list, Len(list) + 1)
    BY <1>1, CursorsExist
  <2>2. PICK cursor : cursor = [n \in 1..Len(list) + 1 |->
                                  IF n = 1 THEN 0 ELSE Following(list, cursor[n - 1])]
    BY <2>1 DEF CursorsUpto
  <2>3. cursor = [n \in 1..Len(list) + 1 |->
                       IF n = 1 THEN 0
                       ELSE IF cursor[n - 1] = NoCursor THEN NoCursor
                       ELSE NextCursor(list, cursor[n - 1])]
    BY <2>2 DEF Following
  <2> QED
    BY <2>3
<1>4. follow = [n \in 1..Len(list) + 1 |->
                       IF n = 1 THEN 0
                       ELSE IF follow[n - 1] = NoCursor THEN NoCursor
                       ELSE NextCursor(list, follow[n - 1])]
  BY <1>3
<1> HIDE DEF follow
<1>5. follow = [n \in 1..Len(list) + 1 |-> IF n = 1 THEN 0 ELSE Following(list, follow[n - 1])]
  BY <1>4 DEF Following
<1> QED
  BY <1>2, <1>5

\* What PagesShowEveryIssue says of the screens of a list.
LEMMA ScreensShowEveryIssue ==
  ASSUME NEW list \in Seq(BOOLEAN)
  PROVE  LET screens == Screens(list)
         IN  /\ UNION {screens[k].shown : k \in DOMAIN screens} = Issues(list)
             /\ \A j, k \in DOMAIN screens : j < k =>
                  \A a \in screens[j].shown, b \in screens[k].shown : a < b
             /\ \A k \in DOMAIN screens :
                  /\ screens[k].cursor \in Nat
                  /\ screens[k].shown = OnScreen(list, screens[k].cursor)
                  /\ screens[k].previous = PreviousCursor(list, screens[k].cursor)
<1> DEFINE screens == Screens(list)
<1>1. /\ Len(list) \in Nat /\ DOMAIN list = 1..Len(list)
      /\ \A i \in DOMAIN list : list[i] \in BOOLEAN
      /\ NoCursor \notin Nat
  BY PagesAssumption
<1>2. PICK cursor :
        /\ cursor = [n \in 1..Len(list) + 1 |->
                       IF n = 1 THEN 0 ELSE Following(list, cursor[n - 1])]
        /\ screens = [n \in {m \in 1..Len(list) + 1 : cursor[m] # NoCursor} |->
             [cursor |-> cursor[n], shown |-> OnScreen(list, cursor[n]),
              previous |-> PreviousCursor(list, cursor[n])]]
  BY ScreensUnfold
<1> HIDE DEF screens
<1> DEFINE there  == DOMAIN screens
           stop(n) == Stop(list, cursor[n])
<1>3. /\ there = {m \in 1..Len(list) + 1 : cursor[m] # NoCursor}
      /\ \A n \in there :
           /\ screens[n].cursor = cursor[n]
           /\ screens[n].shown = OnScreen(list, cursor[n])
           /\ screens[n].previous = PreviousCursor(list, cursor[n])
  BY <1>2
<1>4. /\ cursor[1] = 0
      /\ \A n \in 2..Len(list) + 1 : cursor[n] = Following(list, cursor[n - 1])
  BY <1>1, <1>2
<1> HIDE DEF there
<1>5. \A c \in Nat :
        /\ Stop(list, c) \in Nat /\ c < Stop(list, c)
        /\ OnScreen(list, c) = IssuesIn(list, c + 1, Stop(list, c))
        /\ Following(list, c) = IF Stop(list, c) < Len(list) THEN Stop(list, c) ELSE NoCursor
  BY <1>1, ShownUpToStop DEF Following
\* Up to the n-th screen: its cursor has grown, and what comes before it has been shown.
<1> DEFINE Good(n) ==
             /\ n \in there =>
                  /\ cursor[n] \in Nat /\ n - 1 <= cursor[n]
                  /\ \A j \in 1..n - 1 : j \in there /\ stop(j) <= cursor[n]
                  /\ \A i \in 1..Len(list) : i <= cursor[n] =>
                       \E j \in 1..n - 1 : cursor[j] < i /\ i <= stop(j)
             /\ n \notin there =>
                  \A i \in 1..Len(list) :
                    \E j \in there : j < n /\ cursor[j] < i /\ i <= stop(j)
           bad == {n \in 1..Len(list) + 1 : ~Good(n)}
<1>6. bad = {}
  <2>1. SUFFICES ASSUME bad # {}
                 PROVE  FALSE
    OBVIOUS
  <2>2. bad \subseteq Nat
    BY <1>1
  <2>3. PICK n \in bad : \A j \in bad : ~ (j < n)
    BY <2>1, <2>2, LeastNumber
  <2>4. n \in 1..Len(list) + 1 /\ ~Good(n)
    BY <2>3
  <2>5. CASE n = 1
    <3>1. cursor[1] = 0 /\ cursor[1] # NoCursor /\ 1 \in there
      BY <1>1, <1>3, <1>4
    <3> QED
      BY <1>1, <2>4, <2>5, <3>1
  <2>6. CASE n # 1
    <3> DEFINE c == cursor[n - 1]
    <3>1. n \in 2..Len(list) + 1 /\ n - 1 \in 1..Len(list) + 1 /\ n - 1 < n
      BY <1>1, <2>4, <2>6
    <3>2. Good(n - 1)
      BY <2>3, <3>1
    <3>3. cursor[n] = Following(list, c)
      BY <1>4, <3>1
    <3>4. CASE n - 1 \notin there
      <4>1. c = NoCursor
        BY <1>3, <3>1, <3>4
      <4>2. n \notin there
        BY <1>3, <3>3, <4>1 DEF Following
      <4>3. \A j \in there : j < n - 1 => j < n
        BY <1>1, <1>3, <3>1
      <4> QED
        BY <2>4, <3>2, <3>4, <4>2, <4>3
    <3>5. CASE n - 1 \in there
      <4>1. /\ c \in Nat /\ n - 2 <= c
            /\ \A j \in 1..n - 2 : j \in there /\ stop(j) <= c
            /\ \A i \in 1..Len(list) : i <= c =>
                 \E j \in 1..n - 2 : cursor[j] < i /\ i <= stop(j)
        BY <3>1, <3>2, <3>5
      <4>2. /\ stop(n - 1) \in Nat /\ c < stop(n - 1)
            /\ cursor[n] = IF stop(n - 1) < Len(list) THEN stop(n - 1) ELSE NoCursor
        BY <1>5, <3>3, <4>1
      <4> HIDE DEF stop
      <4>3. \A j \in 1..n - 1 : j = n - 1 \/ j \in 1..n - 2
        BY <3>1
      <4>4. \A j \in 1..n - 1 : j \in there /\ stop(j) <= stop(n - 1)
        <5>1. SUFFICES ASSUME NEW j \in 1..n - 2
                       PROVE  stop(j) <= stop(n - 1)
          BY <3>5, <4>1, <4>2, <4>3
        <5>2. cursor[j] \in Nat /\ stop(j) <= c
          <6>1. j \in 1..Len(list) + 1 /\ j < n /\ j \in there
            BY <1>1, <3>1, <4>1
          <6>2. Good(j)
            BY <2>3, <6>1
          <6> QED
            BY <4>1, <6>1, <6>2
        <5>3. stop(j) \in Nat
          BY <1>5, <5>2 DEF stop
        <5> QED
          BY <4>1, <4>2, <5>2, <5>3
      <4>5. \A i \in 1..Len(list) : i <= stop(n - 1) =>
              \E j \in 1..n - 1 : cursor[j] < i /\ i <= stop(j)
        <5>1. SUFFICES ASSUME NEW i \in 1..Len(list), i <= stop(n - 1)
                       PROVE  \E j \in 1..n - 1 : cursor[j] < i /\ i <= stop(j)
          OBVIOUS
        <5>2. CASE i <= c
          <6>1. 1..n - 2 \subseteq 1..n - 1
            BY <3>1
          <6> QED
            BY <4>1, <5>2, <6>1
        <5>3. CASE ~ (i <= c)
          <6>1. c < i /\ n - 1 \in 1..n - 1
            BY <1>1, <3>1, <4>1, <5>3
          <6> QED
            BY <5>1, <6>1
        <5> QED
          BY <5>2, <5>3
      <4>6. CASE stop(n - 1) < Len(list)
        <5>1. cursor[n] = stop(n - 1) /\ n - 1 <= cursor[n]
          BY <3>1, <4>1, <4>2, <4>6
        <5>2. n \in there
          BY <1>1, <1>3, <2>4, <4>2, <5>1
        <5> QED
          BY <2>4, <4>2, <4>4, <4>5, <5>1, <5>2
      <4>7. CASE ~ (stop(n - 1) < Len(list))
        <5>1. n \notin there
          BY <1>3, <4>2, <4>7
        <5>2. \A i \in 1..Len(list) : i <= stop(n - 1)
          BY <1>1, <4>2, <4>7
        <5>3. \A j \in 1..n - 1 : j < n
          BY <3>1
        <5> QED
          BY <2>4, <4>4, <4>5, <5>1, <5>2, <5>3
      <4> QED
        BY <4>6, <4>7
    <3> QED
      BY <3>4, <3>5
  <2> QED
    BY <2>5, <2>6
<1>7. \A n \in 1..Len(list) + 1 : Good(n)
  BY <1>6
<1>8. \A n \in there : n \in 1..Len(list) + 1 /\ n \in Nat /\ cursor[n] \in Nat
  BY <1>1, <1>3, <1>7
<1>9. \A n \in there : /\ screens[n].shown = IssuesIn(list, cursor[n] + 1, stop(n))
                       /\ stop(n) \in Nat
  BY <1>3, <1>5, <1>8
<1> HIDE DEF stop
<1>10. \A j, k \in there : j < k =>
         \A a \in screens[j].shown, b \in screens[k].shown : a < b
  <2>1. SUFFICES ASSUME NEW j \in there, NEW k \in there, j < k,
                        NEW a \in screens[j].shown, NEW b \in screens[k].shown
                 PROVE  a < b
    OBVIOUS
  <2>2. j \in 1..k - 1
    BY <1>8, <2>1
  <2>3. stop(j) <= cursor[k]
    BY <1>7, <1>8, <2>2
  <2>4. a \in (cursor[j] + 1)..stop(j) /\ b \in (cursor[k] + 1)..stop(k)
    BY <1>9 DEF IssuesIn
  <2> QED
    BY <1>8, <1>9, <2>3, <2>4
<1>11. \A i \in 1..Len(list) : \E j \in there : cursor[j] < i /\ i <= stop(j)
  <2>1. SUFFICES ASSUME NEW i \in 1..Len(list)
                 PROVE  \E j \in there : cursor[j] < i /\ i <= stop(j)
    OBVIOUS
  <2> DEFINE last == Len(list) + 1
  <2>2. last \in 1..Len(list) + 1 /\ last - 1 = Len(list)
    BY <1>1
  <2>3. Good(last)
    BY <1>7, <2>2
  <2>4. CASE last \in there
    <3>1. i <= cursor[last]
      BY <1>1, <1>8, <2>2, <2>3, <2>4
    <3> QED
      BY <2>3, <2>4, <3>1
  <2>5. CASE last \notin there
    BY <2>3, <2>5
  <2> QED
    BY <2>4, <2>5
<1>12. UNION {screens[k].shown : k \in there} = Issues(list)
  <2>1. ASSUME NEW k \in there
        PROVE  screens[k].shown \subseteq Issues(list)
    <3>1. \A i \in (cursor[k] + 1)..stop(k) : i <= Len(list) => i \in 1..Len(list)
      BY <1>1, <1>8, <1>9
    <3> QED
      BY <1>1, <1>9, <3>1 DEF IssuesIn, Issues
  <2>2. ASSUME NEW i \in Issues(list)
        PROVE  \E k \in there : i \in screens[k].shown
    <3>1. i \in 1..Len(list) /\ list[i]
      BY <1>1 DEF Issues
    <3>2. PICK k \in there : cursor[k] < i /\ i <= stop(k)
      BY <1>11, <3>1
    <3>3. i \in (cursor[k] + 1)..stop(k) /\ i <= Len(list)
      BY <1>1, <1>8, <1>9, <3>1, <3>2
    <3> QED
      BY <1>9, <3>1, <3>3 DEF IssuesIn
  <2> QED
    BY <2>1, <2>2
<1> QED
  BY <1>3, <1>8, <1>10, <1>12 DEF there, screens

-----------------------------------------------------------------------------
(***************************************************************************)
(* Chunks of a Python file.  The nodes of a file nest, so the cuts of one  *)
(* definition keep apart from those of another.                            *)
(***************************************************************************)
\* The symbols a level further down.
DefinedIn(symbols) == UNION {Defined(s.node.body, Qualified(s)) :
                               s \in {t \in symbols : t.node.kind = "class"}}

\* Whether the levels of nodes, or of symbols, can be told down to the k-th.
NodesUpto(nodes, k) ==
  \E level : level = [d \in 0..k |->
               IF d = 0 THEN nodes ELSE UNION {n.body : n \in level[d - 1]}]
SymbolsUpto(nodes, k) ==
  \E level : level = [d \in 0..k |->
               IF d = 0 THEN Defined(nodes, TopLevel)
               ELSE DefinedIn(level[d - 1])]

\* The levels of nodes can be told.
LEMMA NodeLevelsExist ==
  ASSUME NEW nodes
  PROVE  \A k \in Nat : NodesUpto(nodes, k)
<1> DEFINE bad == {k \in Nat : ~NodesUpto(nodes, k)}
           Below(upper) == UNION {n.body : n \in upper}
<1>1. SUFFICES ASSUME bad # {}
               PROVE  FALSE
  OBVIOUS
<1>2. PICK k \in bad : \A j \in bad : ~ (j < k)
  BY <1>1, LeastNumber
<1>3. CASE k = 0
  <2> DEFINE level == [d \in 0..0 |-> nodes]
  <2>1. level = [d \in 0..0 |-> IF d = 0 THEN nodes ELSE Below(level[d - 1])]
    OBVIOUS
  <2> HIDE DEF level
  <2>2. NodesUpto(nodes, 0)
    BY <2>1 DEF NodesUpto
  <2> QED
    BY <1>2, <1>3, <2>2
<1>4. CASE k # 0
  <2>1. k \in Nat /\ k - 1 \in Nat /\ k - 1 < k
    BY <1>2, <1>4
  <2>2. NodesUpto(nodes, k - 1)
    BY <1>2, <2>1
  <2>3. PICK level : level = [d \in 0..(k - 1) |->
                       IF d = 0 THEN nodes ELSE Below(level[d - 1])]
    BY <2>2 DEF NodesUpto
  <2> DEFINE more == [d \in 0..k |-> IF d < k THEN level[d]
                                     ELSE Below(level[k - 1])]
  <2>4. ASSUME NEW d \in 0..k
        PROVE  more[d] = IF d = 0 THEN nodes ELSE Below(more[d - 1])
    <3> HIDE DEF Below
    <3>1. CASE d = k
      BY <1>4, <2>1, <3>1
    <3>2. CASE d < k /\ d # 0
      BY <2>1, <2>3, <3>2
    <3>3. CASE d < k /\ d = 0
      BY <2>1, <2>3, <3>3
    <3> QED
      BY <2>1, <3>1, <3>2, <3>3
  <2>5. more = [d \in 0..k |-> more[d]]
    OBVIOUS
  <2> HIDE DEF more
  <2>6. more = [d \in 0..k |-> IF d = 0 THEN nodes ELSE Below(more[d - 1])]
    BY <2>4, <2>5
  <2>7. NodesUpto(nodes, k)
    BY <2>6 DEF NodesUpto
  <2> QED
    BY <1>2, <2>7
<1> QED
  BY <1>3, <1>4

\* The levels of symbols can be told.
LEMMA SymbolLevelsExist ==
  ASSUME NEW nodes
  PROVE  \A k \in Nat : SymbolsUpto(nodes, k)
<1> DEFINE bad == {k \in Nat : ~SymbolsUpto(nodes, k)}
<1>1. SUFFICES ASSUME bad # {}
               PROVE  FALSE
  OBVIOUS
<1>2. PICK k \in bad : \A j \in bad : ~ (j < k)
  BY <1>1, LeastNumber
<1>3. CASE k = 0
  <2> DEFINE level == [d \in 0..0 |-> Defined(nodes, TopLevel)]
  <2>1. level = [d \in 0..0 |->
                   IF d = 0 THEN Defined(nodes, TopLevel) ELSE DefinedIn(level[d - 1])]
    OBVIOUS
  <2> HIDE DEF level
  <2>2. SymbolsUpto(nodes, 0)
    BY <2>1 DEF SymbolsUpto
  <2> QED
    BY <1>2, <1>3, <2>2
<1>4. CASE k # 0
  <2>1. k \in Nat /\ k - 1 \in Nat /\ k - 1 < k
    BY <1>2, <1>4
  <2>2. SymbolsUpto(nodes, k - 1)
    BY <1>2, <2>1
  <2>3. PICK level : level = [d \in 0..(k - 1) |->
                       IF d = 0 THEN Defined(nodes, TopLevel) ELSE DefinedIn(level[d - 1])]
    BY <2>2 DEF SymbolsUpto
  <2> DEFINE more == [d \in 0..k |-> IF d < k THEN level[d] ELSE DefinedIn(level[k - 1])]
  <2>4. ASSUME NEW d \in 0..k
        PROVE  more[d] = IF d = 0 THEN Defined(nodes, TopLevel) ELSE DefinedIn(more[d - 1])
    <3>1. CASE d = k
      BY <1>4, <2>1, <3>1
    <3>2. CASE d < k /\ d # 0
      BY <2>1, <2>3, <3>2
    <3>3. CASE d < k /\ d = 0
      BY <2>1, <2>3, <3>3
    <3> QED
      BY <2>1, <3>1, <3>2, <3>3
  <2>5. more = [d \in 0..k |-> more[d]]
    OBVIOUS
  <2> HIDE DEF more
  <2>6. more = [d \in 0..k |-> IF d = 0 THEN Defined(nodes, TopLevel) ELSE DefinedIn(more[d - 1])]
    BY <2>4, <2>5
  <2>7. SymbolsUpto(nodes, k)
    BY <2>6 DEF SymbolsUpto
  <2> QED
    BY <1>2, <2>7
<1> QED
  BY <1>3, <1>4

\* Every node is in a list of the file, or the body of one of its nodes; those of the
\* upper two levels are among them.
LEMMA NodesUnfold ==
  ASSUME NEW nodes, NEW length \in Nat \ {0}
  PROVE  \E level :
           /\ Nodes(nodes, length) = UNION {level[d] : d \in 0..length}
           /\ level[0] = nodes
           /\ \A d \in 1..length : level[d] = UNION {n.body : n \in level[d - 1]}
<1> DEFINE level == CHOOSE level : level = [d \in 0..length |->
                      IF d = 0 THEN nodes ELSE UNION {n.body : n \in level[d - 1]}]
<1>1. Nodes(nodes, length) = UNION {level[d] : d \in 0..length}
  BY DEF Nodes
<1>2. \E l : l = [d \in 0..length |-> IF d = 0 THEN nodes ELSE UNION {n.body : n \in l[d - 1]}]
  <2>1. NodesUpto(nodes, length)
    BY NodeLevelsExist
  <2> QED
    BY <2>1 DEF NodesUpto
<1>3. level = [d \in 0..length |->
                 IF d = 0 THEN nodes ELSE UNION {n.body : n \in level[d - 1]}]
  BY <1>2
<1> HIDE DEF level
<1>4. level[0] = nodes
  BY <1>3
<1>5. ASSUME NEW d \in 1..length
      PROVE  level[d] = UNION {n.body : n \in level[d - 1]}
  <2>1. d \in 0..length /\ d # 0
    OBVIOUS
  <2> QED
    BY <1>3, <2>1
<1> QED
  BY <1>1, <1>4, <1>5

\* The same of symbols.
LEMMA SymbolsUnfold ==
  ASSUME NEW nodes, NEW length \in Nat \ {0}
  PROVE  \E level :
           /\ Symbols(nodes, length) = UNION {level[d] : d \in 0..length}
           /\ level[0] = Defined(nodes, TopLevel)
           /\ \A d \in 1..length : level[d] = DefinedIn(level[d - 1])
<1> DEFINE level == CHOOSE level : level = [d \in 0..length |->
                      IF d = 0 THEN Defined(nodes, TopLevel) ELSE DefinedIn(level[d - 1])]
<1>1. Symbols(nodes, length) = UNION {level[d] : d \in 0..length}
  BY DEF Symbols, DefinedIn
<1>2. \E l : l = [d \in 0..length |->
                   IF d = 0 THEN Defined(nodes, TopLevel) ELSE DefinedIn(l[d - 1])]
  <2>1. SymbolsUpto(nodes, length)
    BY SymbolLevelsExist
  <2> QED
    BY <2>1 DEF SymbolsUpto
<1>3. level = [d \in 0..length |->
                 IF d = 0 THEN Defined(nodes, TopLevel) ELSE DefinedIn(level[d - 1])]
  BY <1>2
<1> HIDE DEF level
<1>4. level[0] = Defined(nodes, TopLevel)
  BY <1>3
<1>5. ASSUME NEW d \in 1..length
      PROVE  level[d] = DefinedIn(level[d - 1])
  <2>1. d \in 0..length /\ d # 0
    OBVIOUS
  <2> QED
    BY <1>3, <2>1
<1> QED
  BY <1>1, <1>4, <1>5

Spanned(n) == n.from \in Nat \ {0} /\ n.to \in Nat /\ n.from <= n.to
Within(n, m) == m.from <= n.from /\ n.to <= m.to
Before(n, m) == n.to < m.from \/ m.to < n.from
Definitions(nodes) == {n \in nodes : n.kind # "block"}

\* What a node of the top level is known of.
Nested(n) ==
  /\ Spanned(n)
  /\ \A m \in n.body : Spanned(m) /\ n.from < m.from /\ m.to <= n.to
  /\ \A l, m \in n.body : l # m => Before(l, m)

\* Whether a node is one of the top level, or lies in one of the body of such a one.
Rooted(nodes, f) ==
  \E n \in nodes : f = n \/ \E m \in n.body : Spanned(f) /\ Within(f, m)

\* The nodes of a file lie in those of its top two levels.
LEMMA NodesNest ==
  ASSUME NEW nodes, NEW length, WellNested(nodes, length)
  PROVE  /\ \A n \in nodes : Nested(n)
         /\ \A m, n \in nodes : m # n => Before(m, n)
         /\ \A f \in Nodes(nodes, length) : Rooted(nodes, f)
<1>1. /\ length \in Nat \ {0} /\ InOrder(nodes)
      /\ \A n \in Nodes(nodes, length) :
           /\ Spanned(n) /\ InOrder(n.body)
           /\ \A m \in n.body : n.from < m.from /\ m.to <= n.to
  BY DEF WellNested, Spanned
<1>2. PICK level :
        /\ Nodes(nodes, length) = UNION {level[d] : d \in 0..length}
        /\ level[0] = nodes
        /\ \A d \in 1..length : level[d] = UNION {n.body : n \in level[d - 1]}
  BY <1>1, NodesUnfold
<1>3. 0 \in 0..length /\ 1 \in 0..length /\ 1 \in 1..length /\ 1 - 1 = 0
  BY <1>1
<1>4. \A d \in 0..length : \A f \in level[d] : f \in Nodes(nodes, length)
  BY <1>2
<1>5. \A n \in nodes : n \in Nodes(nodes, length)
  BY <1>2, <1>3, <1>4
<1>6. \A n \in nodes : \A m \in n.body : m \in Nodes(nodes, length)
  <2>1. level[1] = UNION {n.body : n \in nodes}
    BY <1>2, <1>3
  <2> QED
    BY <1>3, <1>4, <2>1
<1>7. ASSUME NEW n \in nodes
      PROVE  Nested(n)
  <2>1. /\ Spanned(n) /\ InOrder(n.body)
        /\ \A m \in n.body : n.from < m.from /\ m.to <= n.to
    BY <1>1, <1>5
  <2>2. \A m \in n.body : Spanned(m)
    BY <1>1, <1>6
  <2> QED
    BY <2>1, <2>2 DEF Nested, InOrder, Before
<1> DEFINE bad == {d \in 0..length : \E f \in level[d] : ~Rooted(nodes, f)}
<1>8. bad = {}
  <2>1. SUFFICES ASSUME bad # {}
                 PROVE  FALSE
    OBVIOUS
  <2>2. bad \subseteq Nat
    BY <1>1
  <2>3. PICK d \in bad : \A e \in bad : ~ (e < d)
    BY <2>1, <2>2, LeastNumber
  <2>4. PICK f \in level[d] : ~Rooted(nodes, f)
    BY <2>3
  <2>5. d # 0
    BY <1>2, <2>4 DEF Rooted
  <2>6. d \in 1..length /\ d - 1 \in 0..length /\ d - 1 < d /\ d - 1 \notin bad
    BY <1>1, <2>3, <2>5
  <2>7. PICK g \in level[d - 1] : f \in g.body
    BY <1>2, <2>4, <2>6
  <2>8. Rooted(nodes, g)
    BY <2>6, <2>7
  <2>9. /\ Spanned(f) /\ Spanned(g) /\ Within(f, f)
        /\ g.from < f.from /\ f.to <= g.to
    BY <1>1, <1>4, <2>3, <2>4, <2>6, <2>7 DEF Spanned, Within
  <2>10. PICK n \in nodes : g = n \/ \E m \in n.body : Within(g, m)
    BY <2>8 DEF Rooted
  <2>11. CASE g = n
    BY <2>4, <2>7, <2>9, <2>11 DEF Rooted
  <2>12. CASE \E m \in n.body : Within(g, m)
    <3>1. PICK m \in n.body : Within(g, m)
      BY <2>12
    <3>2. Spanned(m)
      BY <1>7 DEF Nested
    <3>3. Within(f, m)
      BY <2>9, <3>1, <3>2 DEF Spanned, Within
    <3> QED
      BY <2>4, <2>9, <3>3 DEF Rooted
  <2> QED
    BY <2>10, <2>11, <2>12
<1>9. \A f \in Nodes(nodes, length) : Rooted(nodes, f)
  BY <1>2, <1>8
<1> QED
  BY <1>1, <1>7, <1>9 DEF InOrder, Before

\* A qualified name of one part.
LEMMA OneName ==
  ASSUME NEW x, NEW y
  PROVE  /\ Append(TopLevel, x) = <<x>> /\ Len(<<x>>) = 1
         /\ Append(TopLevel, x) = Append(TopLevel, y) => x = y
         /\ Append(TopLevel, x) # TopLevel
BY DEF TopLevel

\* A definition of the top level as a symbol, and the definitions whose parent is of its
\* name.
Top(n) == [node |-> n, parent |-> TopLevel]
Methods(n, symbols) == {s.node : s \in {t \in symbols : t.parent = Qualified(Top(n))}}

\* A name and its parts are those of the symbol.
LEMMA TopFields ==
  \A n : Top(n).node = n /\ Top(n).parent = TopLevel
         /\ Qualified(Top(n)) = Append(TopLevel, n.name)
BY DEF Top, Qualified

\* The symbols without parent are the definitions of the top level, and those whose
\* parent has a class's name the definitions in the classes of that name.
LEMMA SymbolsNest ==
  ASSUME NEW nodes, NEW length, WellNested(nodes, length)
  PROVE  /\ {s \in Symbols(nodes, length) : s.parent = TopLevel}
              = {Top(n) : n \in Definitions(nodes)}
         /\ \A n, m : m \in Methods(n, Symbols(nodes, length)) <=>
              \E c \in Definitions(nodes) :
                c.kind = "class" /\ c.name = n.name /\ m \in Definitions(c.body)
<1>1. length \in Nat \ {0}
  BY DEF WellNested
<1>2. PICK level :
        /\ Nodes(nodes, length) = UNION {level[d] : d \in 0..length}
        /\ level[0] = nodes
        /\ \A d \in 1..length : level[d] = UNION {n.body : n \in level[d - 1]}
  BY <1>1, NodesUnfold
<1>3. PICK known :
        /\ Symbols(nodes, length) = UNION {known[d] : d \in 0..length}
        /\ known[0] = Defined(nodes, TopLevel)
        /\ \A d \in 1..length : known[d] = DefinedIn(known[d - 1])
  BY <1>1, SymbolsUnfold
<1>4. 0 \in 0..length /\ 1 \in 0..length /\ 1 \in 1..length /\ 1 - 1 = 0
  BY <1>1
<1>5. \A within, parent : \A s : s \in Defined(within, parent) <=>
        \E n \in Definitions(within) : s = [node |-> n, parent |-> parent]
  BY DEF Defined, Definitions
<1>6. \A d \in 1..length : \A s : s \in known[d] <=>
        \E t \in known[d - 1] : t.node.kind = "class" /\ s \in Defined(t.node.body, Qualified(t))
  BY <1>3 DEF DefinedIn
\* A symbol d levels down has a parent with a name of d parts.
<1> DEFINE names == {n.name : n \in Nodes(nodes, length)}
           Known(s, d) == s.node \in level[d] /\ s.parent \in Seq(names) /\ Len(s.parent) = d
           bad == {d \in 0..length : \E s \in known[d] : ~Known(s, d)}
<1>7. \A d \in 0..length : \A n \in level[d] : n.name \in names
  BY <1>2
<1> HIDE DEF names
<1>8. /\ TopLevel \in Seq(names) /\ Len(TopLevel) = 0
       /\ \A parent \in Seq(names), x \in names :
            Append(parent, x) \in Seq(names) /\ Len(Append(parent, x)) = Len(parent) + 1
  BY DEF TopLevel
<1>9. ASSUME NEW s \in known[0]
       PROVE  Known(s, 0)
  <2>1. PICK n \in Definitions(nodes) : s = [node |-> n, parent |-> TopLevel]
    BY <1>3, <1>5
  <2>2. s.node = n /\ s.parent = TopLevel
    BY <2>1
  <2>3. n \in level[0]
    BY <1>2 DEF Definitions
  <2> QED
    BY <1>8, <2>2, <2>3
<1>10. ASSUME NEW d \in 1..length, \A t \in known[d - 1] : Known(t, d - 1), NEW s \in known[d]
       PROVE  Known(s, d)
  <2>1. PICK t \in known[d - 1] : s \in Defined(t.node.body, Qualified(t))
    BY <1>6
  <2>2. PICK n \in Definitions(t.node.body) : s = [node |-> n, parent |-> Qualified(t)]
    BY <1>5, <2>1
  <2>3. t.node \in level[d - 1] /\ t.parent \in Seq(names) /\ Len(t.parent) = d - 1
    BY <1>10
  <2>4. n \in level[d]
    BY <1>2, <2>3 DEF Definitions
  <2>5. t.node.name \in names
    <3>1. d - 1 \in 0..length
      BY <1>1
    <3> QED
      BY <1>7, <2>3, <3>1
  <2>6. s.node = n /\ s.parent = Qualified(t)
    BY <2>2
  <2>7. s.parent = Append(t.parent, t.node.name)
    BY <2>6 DEF Qualified
  <2>8. s.parent \in Seq(names) /\ Len(s.parent) = d - 1 + 1
    BY <1>8, <2>3, <2>5, <2>7
  <2>9. d - 1 + 1 = d
    OBVIOUS
  <2> QED
    BY <2>4, <2>6, <2>8, <2>9
<1> HIDE DEF Known
<1>11. bad = {}
  <2>1. SUFFICES ASSUME bad # {}
                 PROVE  FALSE
    OBVIOUS
  <2>2. bad \subseteq Nat
    BY <1>1
  <2>3. PICK d \in bad : \A e \in bad : ~ (e < d)
    BY <2>1, <2>2, LeastNumber
  <2>4. PICK s \in known[d] : ~Known(s, d)
    BY <2>3
  <2>5. d # 0
    BY <1>9, <2>4
  <2>6. d \in 1..length /\ d - 1 \in 0..length /\ d - 1 < d
    BY <1>1, <2>3, <2>5
  <2>7. \A t \in known[d - 1] : Known(t, d - 1)
    BY <2>3, <2>6
  <2> QED
    BY <1>10, <2>4, <2>6, <2>7
<1>12. \A d \in 0..length : \A s \in known[d] : Len(s.parent) = d
  BY <1>11 DEF Known
<1> HIDE DEF bad
<1>13. \A s : s \in known[0] <=> \E n \in Definitions(nodes) : s = Top(n)
  BY <1>3, <1>5 DEF Top
<1>14. \A s : s \in known[1] <=>
         \E c \in Definitions(nodes) :
           c.kind = "class" /\ s \in Defined(c.body, Append(TopLevel, c.name))
  <2>1. \A s : s \in known[1] <=>
          \E t \in known[0] : t.node.kind = "class" /\ s \in Defined(t.node.body, Qualified(t))
    BY <1>4, <1>6
  <2>2. ASSUME NEW s, NEW c \in Definitions(nodes), c.kind = "class",
               s \in Defined(c.body, Append(TopLevel, c.name))
        PROVE  s \in known[1]
    <3>1. Top(c) \in known[0]
      BY <1>13
    <3> QED
      BY <2>1, <2>2, <3>1, TopFields
  <2>3. ASSUME NEW s \in known[1]
        PROVE  \E c \in Definitions(nodes) :
                 c.kind = "class" /\ s \in Defined(c.body, Append(TopLevel, c.name))
    <3>1. PICK t \in known[0] : t.node.kind = "class" /\ s \in Defined(t.node.body, Qualified(t))
      BY <2>1
    <3>2. PICK c \in Definitions(nodes) : t = Top(c)
      BY <1>13
    <3> QED
      BY <3>1, <3>2, TopFields
  <2> QED
    BY <2>2, <2>3
<1>15. {s \in Symbols(nodes, length) : s.parent = TopLevel} = {Top(n) : n \in Definitions(nodes)}
  <2>1. ASSUME NEW s \in Symbols(nodes, length), s.parent = TopLevel
        PROVE  s \in known[0]
    <3>1. PICK d \in 0..length : s \in known[d]
      BY <1>3
    <3>2. Len(s.parent) = 0
      BY <2>1 DEF TopLevel
    <3> QED
      BY <1>12, <3>1, <3>2
  <2>2. \A s \in known[0] : s \in Symbols(nodes, length)
    BY <1>3, <1>4
  <2> QED
    BY <1>13, <2>1, <2>2, TopFields
<1>16. ASSUME NEW n, NEW m
       PROVE  m \in Methods(n, Symbols(nodes, length)) <=>
                \E c \in Definitions(nodes) :
                  c.kind = "class" /\ c.name = n.name /\ m \in Definitions(c.body)
  <2>1. ASSUME NEW s \in Symbols(nodes, length), s.parent = Qualified(Top(n)), s.node = m
        PROVE  \E c \in Definitions(nodes) :
                 c.kind = "class" /\ c.name = n.name /\ m \in Definitions(c.body)
    <3>1. PICK d \in 0..length : s \in known[d]
      BY <1>3
    <3>2. s.parent = Append(TopLevel, n.name)
      BY <2>1, TopFields
    <3>3. Len(s.parent) = 1
      BY <3>2, OneName
    <3>4. s \in known[1]
      BY <1>12, <3>1, <3>3
    <3>5. PICK c \in Definitions(nodes) :
            c.kind = "class" /\ s \in Defined(c.body, Append(TopLevel, c.name))
      BY <1>14, <3>4
    <3>6. PICK l \in Definitions(c.body) : s = [node |-> l, parent |-> Append(TopLevel, c.name)]
      BY <3>5 DEF Defined, Definitions
    <3>7. l = m /\ Append(TopLevel, c.name) = Append(TopLevel, n.name)
      <4>1. s.node = l /\ s.parent = Append(TopLevel, c.name)
        BY <3>6
      <4> QED
        BY <2>1, <3>2, <4>1
    <3>8. c.name = n.name
      BY <3>7, OneName
    <3> QED
      BY <3>5, <3>7, <3>8
  <2>2. ASSUME NEW c \in Definitions(nodes), c.kind = "class", c.name = n.name,
               m \in Definitions(c.body)
        PROVE  \E s \in Symbols(nodes, length) : s.parent = Qualified(Top(n)) /\ s.node = m
    <3> DEFINE s == [node |-> m, parent |-> Append(TopLevel, c.name)]
    <3>1. s.node = m /\ s.parent = Qualified(Top(n))
      BY <2>2, TopFields
    <3>2. s \in Defined(c.body, Append(TopLevel, c.name))
      BY <1>5, <2>2
    <3> HIDE DEF s
    <3>3. s \in Symbols(nodes, length)
      BY <1>3, <1>4, <1>14, <2>2, <3>2
    <3> QED
      BY <3>1, <3>3
  <2> QED
    BY <2>1, <2>2 DEF Methods
<1> QED
  BY <1>15, <1>16

\* Whether a chunk has lines.
Filled(c) == c.from \in Nat /\ c.to \in Nat /\ c.from <= c.to

\* What the chunks of one definition are to it, and to each other.
CutInOrder(n, cuts) ==
  /\ \A c \in cuts : Filled(c) /\ Within(c, n)
  /\ \A c, d \in cuts : c # d => Before(c, d)
  /\ \E c \in cuts : c.from = n.from

\* Why a line of a definition may be in none of its chunks.
MayBeLeft(n, line) ==
  /\ n.to - n.from >= MaxLines
  /\ \E m \in n.body : m.kind # "block" /\ m.to < line
  /\ \A m \in n.body : m.kind # "block" => line < m.from \/ line > m.to

\* The fields of a chunk.
LEMMA ChunkFields ==
  \A kind, from, to, parent : /\ Chunk(kind, from, to, parent).from = from
                              /\ Chunk(kind, from, to, parent).to = to
BY DEF Chunk

\* The chunks of a definition of the top level whose methods are its own have no common
\* lines, and leave out only lines that are none of a definition's, after the first.
LEMMA SymbolIsCutInOrder ==
  ASSUME NEW n, Nested(n), n.kind # "block", NEW symbols,
         n.kind = "class" => Methods(n, symbols) = Definitions(n.body)
  PROVE  /\ CutInOrder(n, SymbolChunks(Top(n), symbols))
         /\ \A line \in n.from..n.to :
              \/ \E c \in SymbolChunks(Top(n), symbols) : c.from <= line /\ line <= c.to
              \/ MayBeLeft(n, line)
<1> DEFINE methods == Definitions(n.body)
           cuts  == SymbolChunks(Top(n), symbols)
<1>1. /\ n.from \in Nat \ {0} /\ n.to \in Nat /\ n.from <= n.to
      /\ \A m \in n.body : /\ m.from \in Nat /\ m.to \in Nat /\ m.from <= m.to
                           /\ n.from < m.from /\ m.to <= n.to
      /\ \A l, m \in n.body : l # m => l.to < m.from \/ m.to < l.from
  BY DEF Nested, Spanned, Before
<1>2. MaxLines \in Nat
  BY ChunkingAssumption
\* A definition that is not split.
<1>3. CASE ~ (n.kind = "class" /\ n.to - n.from + 1 > MaxLines /\ methods # {})
  <2> DEFINE all == Chunk("symbol", n.from, n.to, NoParent)
  <2>1. cuts = {all}
    BY <1>3, TopFields DEF SymbolChunks, Methods
  <2>2. all.from = n.from /\ all.to = n.to
    BY ChunkFields
  <2> HIDE DEF all, cuts
  <2>3. CutInOrder(n, cuts)
    BY <1>1, <2>1, <2>2 DEF CutInOrder, Filled, Within
  <2> QED
    BY <1>1, <2>1, <2>2, <2>3 DEF cuts
\* A class that is.
<1>4. CASE n.kind = "class" /\ n.to - n.from + 1 > MaxLines /\ methods # {}
  <2> DEFINE starts == {m.from : m \in methods}
             first  == Min(starts)
             end    == HeaderEnd(n, methods)
             header == Chunk("class_header", n.from, end, NoParent)
             chunk(m) == Chunk("method", m.from, m.to, <<header.from, header.to>>)
  <2>1. methods \subseteq n.body /\ \A m \in methods : m.kind # "block"
    BY DEF Definitions
  <2>2. cuts = {header} \union {chunk(m) : m \in methods}
    BY <1>4, TopFields DEF SymbolChunks, Methods
  <2>3. starts \subseteq Nat /\ starts # {}
    BY <1>1, <1>4, <2>1
  <2>4. first \in starts /\ \A y \in starts : first <= y
    BY <2>3, LeastOf
  <2>5. PICK opener \in methods : opener.from = first
    BY <2>4
  <2>6. \A m \in methods : first <= m.from
    BY <2>4
  <2>7. first \in Nat /\ n.from < first /\ first <= n.to
    BY <1>1, <2>1, <2>5
  <2>8. end = first - 1
    <3>1. first - 1 \in Nat /\ n.from <= first - 1
      BY <1>1, <2>7
    <3>2. Max({first - 1, n.from}) = first - 1
      BY <1>1, <3>1, LargerOf
    <3> QED
      BY <3>2 DEF HeaderEnd
  <2>9. header.from = n.from /\ header.to = first - 1
    BY <2>8, ChunkFields
  <2>10. \A m \in methods : chunk(m).from = m.from /\ chunk(m).to = m.to
    BY ChunkFields
  <2> HIDE DEF header, chunk, cuts, starts, first, end, methods
  <2>11. ASSUME NEW c \in cuts
         PROVE  c = header \/ \E m \in methods : c = chunk(m)
    BY <2>2
  <2>12. ASSUME NEW c \in cuts
         PROVE  Filled(c) /\ Within(c, n)
    <3>1. CASE c = header
      BY <1>1, <2>7, <2>9, <3>1 DEF Filled, Within
    <3>2. CASE \E m \in methods : c = chunk(m)
      BY <1>1, <2>1, <2>10, <3>2 DEF Filled, Within
    <3> QED
      BY <2>11, <3>1, <3>2
  <2>13. \A m \in methods : Before(header, chunk(m)) /\ Before(chunk(m), header)
    BY <1>1, <2>1, <2>6, <2>7, <2>9, <2>10 DEF Before
  <2>14. \A l, m \in methods : chunk(l) # chunk(m) => Before(chunk(l), chunk(m))
    BY <1>1, <2>1, <2>10 DEF Before
  <2>15. \A c, d \in cuts : c # d => Before(c, d)
    BY <2>11, <2>13, <2>14
  <2>16. header \in cuts /\ header.from = n.from
    BY <2>2, <2>9
  <2>17. CutInOrder(n, cuts)
    BY <2>12, <2>15, <2>16 DEF CutInOrder
  <2>18. ASSUME NEW line \in n.from..n.to,
                ~ \E c \in cuts : c.from <= line /\ line <= c.to
         PROVE  MayBeLeft(n, line)
    <3>1. line \in Nat /\ line >= first
      BY <1>1, <2>7, <2>9, <2>16, <2>18
    <3>2. \A m \in methods : line < m.from \/ line > m.to
      BY <1>1, <2>1, <2>2, <2>10, <2>18, <3>1
    <3>3. opener \in n.body /\ opener.kind # "block" /\ opener.to < line
      BY <1>1, <2>1, <2>5, <3>1, <3>2
    <3>4. \A m \in n.body : m.kind # "block" => m \in methods
      BY DEF methods, Definitions
    <3> QED
      BY <1>1, <1>2, <1>4, <3>2, <3>3, <3>4 DEF MayBeLeft
  <2> QED
    BY <2>17, <2>18 DEF cuts
<1> QED
  BY <1>3, <1>4

\* Chunks without common lines are told apart by their lines.
LEMMA ApartIsIdentified ==
  ASSUME NEW cuts, \A c \in cuts : Filled(c), \A c, d \in cuts : c # d => Before(c, d)
  PROVE  /\ Identified(cuts)
         /\ \A c, d \in cuts : c # d => Lines(c) \intersect Lines(d) = {}
<1>1. ASSUME NEW c \in cuts, NEW d \in cuts, c # d
      PROVE  Lines(c) \intersect Lines(d) = {} /\ <<c.from, c.to>> # <<d.from, d.to>>
  <2>1. Filled(c) /\ Filled(d) /\ Before(c, d)
    BY <1>1
  <2> QED
    BY <2>1 DEF Filled, Before, Lines
<1> QED
  BY <1>1 DEF Identified

\* A file without structure is cut into slices, which hold each of its lines.
LEMMA SlicesHoldTheFile ==
  ASSUME NEW length \in Nat \ {0}
  PROVE  Identified(WholeFile(length)) /\ UNION {Lines(c) : c \in WholeFile(length)} = 1..length
<1>1. HardSlice \in Nat \ {0}
  BY ChunkingAssumption
<1> DEFINE last     == (length - 1) \div HardSlice
           slice(k) == Chunk("file", k * HardSlice + 1, Min({(k + 1) * HardSlice, length}),
                             NoParent)
<1>2. WholeFile(length) = {slice(k) : k \in 0..last}
  BY DEF WholeFile
<1>3. last \in Nat
  BY <1>1
<1>4. \A k \in Nat : k * HardSlice \in Nat /\ (k + 1) * HardSlice \in Nat
  BY <1>1
<1>5. ASSUME NEW k \in Nat
      PROVE  /\ slice(k).from = k * HardSlice + 1
             /\ slice(k).to \in Nat
             /\ \A line \in Nat :
                  line <= slice(k).to <=> line <= (k + 1) * HardSlice /\ line <= length
  <2> DEFINE ends == {(k + 1) * HardSlice, length}
  <2>1. ends \subseteq Nat /\ ends # {}
    BY <1>4
  <2>2. Min(ends) \in ends /\ \A y \in ends : Min(ends) <= y
    BY <2>1, LeastOf
  <2>3. slice(k).from = k * HardSlice + 1 /\ slice(k).to = Min(ends)
    BY ChunkFields
  <2> HIDE DEF slice
  <2>4. Min(ends) \in Nat /\ Min(ends) <= length /\ Min(ends) <= (k + 1) * HardSlice
    BY <2>1, <2>2
  <2>5. Min(ends) = length \/ Min(ends) = (k + 1) * HardSlice
    BY <2>2
  <2> HIDE DEF ends
  <2>6. (k + 1) * HardSlice \in Nat
    BY <1>4
  <2> QED
    BY <2>3, <2>4, <2>5, <2>6
<1> HIDE DEF slice
<1>6. \A k, l \in Nat : k # l => k * HardSlice # l * HardSlice
  BY <1>1
<1>7. Identified(WholeFile(length))
  <2>1. ASSUME NEW k \in Nat, NEW l \in Nat, slice(k).from = slice(l).from
        PROVE  k = l
    <3>1. k * HardSlice + 1 = l * HardSlice + 1
      BY <1>5, <2>1
    <3>2. k * HardSlice = l * HardSlice
      <4>1. k * HardSlice \in Nat /\ l * HardSlice \in Nat
        BY <1>4
      <4>2. \A a, b \in Nat : a + 1 = b + 1 => a = b
        OBVIOUS
      <4> QED
        BY <3>1, <4>1, <4>2
    <3> QED
      BY <1>6, <3>2
  <2>2. \A k, l \in 0..last : slice(k).from = slice(l).from => slice(k) = slice(l)
    BY <1>3, <2>1
  <2> QED
    BY <1>2, <2>2 DEF Identified
<1>8. ASSUME NEW k \in 0..last
      PROVE  Lines(slice(k)) \subseteq 1..length
  <2>1. k \in Nat /\ k * HardSlice \in Nat
    BY <1>3, <1>4
  <2> QED
    BY <1>5, <2>1 DEF Lines
<1>9. ASSUME NEW line \in 1..length
      PROVE  \E k \in 0..last : line \in Lines(slice(k))
  <2> DEFINE k == (line - 1) \div HardSlice
  <2>1. k \in Nat /\ k * HardSlice + 1 <= line /\ line <= (k + 1) * HardSlice
    BY <1>1
  <2>2. k <= last
    BY <1>1
  <2> HIDE DEF k
  <2>3. k \in 0..last
    BY <1>3, <2>1, <2>2
  <2>4. slice(k).from <= line /\ line <= slice(k).to
    BY <1>5, <2>1
  <2>5. slice(k).from \in Nat /\ slice(k).to \in Nat
    <3>1. k * HardSlice \in Nat
      BY <1>4, <2>1
    <3>2. slice(k).from = k * HardSlice + 1 /\ slice(k).to \in Nat
      BY <1>5, <2>1
    <3> QED
      BY <3>1, <3>2
  <2> QED
    BY <2>3, <2>4, <2>5 DEF Lines
<1> QED
  BY <1>2, <1>7, <1>8, <1>9

\* Where a chunk of a Python file may start, or the one before it end.
Edge(nodes, at) ==
  \/ at = 1
  \/ \E n \in nodes :
       \/ at = n.from \/ at = n.to + 1
       \/ n.kind = "class" /\ (at = n.from + 1 \/ \E m \in n.body : at = m.from \/ at = m.to + 1)

\* Chunks start and end at edges, whatever the names of the classes are.
LEMMA ChunksHaveEdges ==
  ASSUME NEW nodes, NEW length, WellNested(nodes, length),
         Definitions(nodes) # {}, NEW c \in PythonChunks(nodes, length)
  PROVE  c.from \in Nat /\ c.to \in Nat /\ Edge(nodes, c.from) /\ Edge(nodes, c.to + 1)
<1> DEFINE symbols == Symbols(nodes, length)
           tops    == {s \in symbols : s.parent = TopLevel}
           starts  == {s.node.from : s \in tops}
           first   == Min(starts)
           prelude == Chunk("module_prelude", 1, first - 1, NoParent)
<1>1. \A n \in nodes : Nested(n)
  BY NodesNest
<1>2. tops = {Top(n) : n \in Definitions(nodes)}
  BY SymbolsNest
<1>3. \A n, m : m \in Methods(n, symbols) =>
        \E k \in nodes : k.kind = "class" /\ m \in k.body
  BY SymbolsNest DEF Definitions
<1>4. c \in (IF first > 1 THEN {prelude} ELSE {}) \union UNION {SymbolChunks(s, symbols) : s \in tops}
  <2>1. tops # {}
    BY <1>2
  <2> QED
    BY <2>1 DEF PythonChunks
<1> HIDE DEF symbols, tops
<1>5. CASE c = prelude
  <2>1. \A y \in starts : \E n \in nodes : y = n.from
    BY <1>2, TopFields DEF Definitions
  <2>2. starts \subseteq Nat \ {0}
    BY <1>1, <2>1 DEF Nested, Spanned
  <2>3. starts # {}
    BY <1>2
  <2> HIDE DEF starts
  <2>4. starts \subseteq Nat
    BY <2>2
  <2>5. first \in starts
    BY <2>3, <2>4, LeastOf
  <2>6. c.from = 1 /\ c.to = first - 1
    BY <1>5, ChunkFields
  <2> HIDE DEF first
  <2>7. first \in Nat \ {0} /\ first - 1 + 1 = first
    BY <2>2, <2>5
  <2>8. \E n \in nodes : first = n.from
    BY <2>1, <2>5
  <2> QED
    BY <2>6, <2>7, <2>8 DEF Edge
<1>6. CASE \E s \in tops : c \in SymbolChunks(s, symbols)
  <2>1. PICK n \in nodes : c \in SymbolChunks(Top(n), symbols)
    BY <1>2, <1>6 DEF Definitions
  <2>2. n.from \in Nat \ {0} /\ n.to \in Nat
    BY <1>1 DEF Nested, Spanned
  <2> DEFINE methods == Methods(n, symbols)
             begins  == {m.from : m \in methods}
             least   == Min(begins)
             end     == HeaderEnd(n, methods)
             header  == Chunk("class_header", n.from, end, NoParent)
             chunk(m) == Chunk("method", m.from, m.to, <<header.from, header.to>>)
  <2>3. CASE c = Chunk("symbol", n.from, n.to, NoParent)
    <3>1. c.from = n.from /\ c.to = n.to
      BY <2>3, ChunkFields
    <3> QED
      BY <2>2, <3>1 DEF Edge
  <2>4. CASE n.kind = "class" /\ methods # {} /\ c \in {header} \union {chunk(m) : m \in methods}
    <3>1. \A m \in methods : \E k \in nodes : k.kind = "class" /\ m \in k.body
      BY <1>3
    <3>2. \A m \in methods : m.from \in Nat \ {0} /\ m.to \in Nat
      BY <1>1, <3>1 DEF Nested, Spanned
    <3>3. CASE c = header
      <4>1. c.from = n.from /\ c.to = end
        BY <3>3, ChunkFields
      <4>2. begins \subseteq Nat /\ begins # {}
        BY <2>4, <3>2
      <4>3. least \in begins
        BY <4>2, LeastOf
      <4>4. PICK m \in methods : least = m.from
        BY <4>3
      <4>5. PICK k \in nodes : k.kind = "class" /\ m \in k.body
        BY <3>1
      <4>6. least \in Nat \ {0}
        BY <3>2, <4>4
      <4>7. end = least - 1 \/ end = n.from
        <5> HIDE DEF least
        <5>1. least - 1 \in Nat /\ n.from \in Nat
          BY <2>2, <4>6
        <5>2. Max({least - 1, n.from}) = least - 1 \/ Max({least - 1, n.from}) = n.from
          BY <5>1, LargerOf
        <5> QED
          BY <5>2 DEF HeaderEnd, least
      <4> HIDE DEF end, least
      <4>8. CASE end = least - 1
        <5>1. c.to + 1 = m.from /\ c.to \in Nat
          BY <4>1, <4>4, <4>6, <4>8
        <5> QED
          BY <2>2, <4>1, <4>5, <5>1 DEF Edge
      <4>9. CASE end = n.from
        BY <2>2, <2>4, <4>1, <4>9 DEF Edge
      <4> QED
        BY <4>7, <4>8, <4>9
    <3>4. CASE \E m \in methods : c = chunk(m)
      <4>1. PICK m \in methods : c.from = m.from /\ c.to = m.to
        BY <3>4, ChunkFields
      <4>2. PICK k \in nodes : k.kind = "class" /\ m \in k.body
        BY <3>1
      <4> QED
        BY <3>2, <4>1, <4>2 DEF Edge
    <3> QED
      BY <2>4, <3>3, <3>4
  <2> QED
    BY <2>1, <2>3, <2>4, TopFields DEF SymbolChunks, Methods
<1> QED
  BY <1>4, <1>5, <1>6

\* A function lies on one side of each edge.
LEMMA FunctionsAreClear ==
  ASSUME NEW nodes, NEW length, WellNested(nodes, length),
         NEW f \in Functions(nodes, length), NEW at \in Nat, Edge(nodes, at)
  PROVE  Spanned(f) /\ (f.to < at \/ at <= f.from)
<1>1. /\ \A n \in nodes : Nested(n)
      /\ \A m, n \in nodes : m # n => Before(m, n)
      /\ Rooted(nodes, f)
  BY NodesNest DEF Functions
<1>2. f.kind = "function"
  BY DEF Functions
<1>3. PICK n \in nodes : f = n \/ \E g \in n.body : Spanned(f) /\ Within(f, g)
  BY <1>1 DEF Rooted
<1>4. Spanned(n) /\ \A g \in n.body : Spanned(g) /\ n.from < g.from /\ g.to <= n.to
  BY <1>1 DEF Nested
<1>5. Spanned(f) /\ Within(f, n) /\ (f # n => n.from < f.from)
  BY <1>3, <1>4 DEF Spanned, Within
<1>6. CASE at = 1
  BY <1>5, <1>6 DEF Spanned
<1>7. ASSUME NEW k \in nodes,
             \/ at = k.from \/ at = k.to + 1
             \/ k.kind = "class" /\ (at = k.from + 1 \/ \E m \in k.body : at = m.from \/ at = m.to + 1)
      PROVE  f.to < at \/ at <= f.from
  <2>1. Spanned(k) /\ \A m \in k.body : Spanned(m) /\ k.from < m.from /\ m.to <= k.to
    BY <1>1 DEF Nested
  <2>2. k.from <= at /\ at <= k.to + 1
    BY <1>7, <2>1 DEF Spanned
  <2>3. CASE k # n
    <3>1. Before(k, n)
      BY <1>1, <2>3
    <3> QED
      BY <1>4, <1>5, <2>1, <2>2, <3>1 DEF Spanned, Within, Before
  <2>4. CASE k = n /\ (at = k.from \/ at = k.to + 1)
    BY <1>4, <1>5, <2>4 DEF Spanned, Within
  <2>5. CASE k = n /\ k.kind = "class"
    <3>1. f # n
      BY <1>2, <2>5
    <3>2. PICK g \in n.body : Within(f, g)
      BY <1>3, <3>1
    <3>3. CASE at = k.from + 1
      BY <1>4, <1>5, <2>5, <3>1, <3>3 DEF Spanned
    <3>4. CASE \E m \in k.body : at = m.from \/ at = m.to + 1
      <4>1. PICK m \in n.body : at = m.from \/ at = m.to + 1
        BY <2>5, <3>4
      <4>2. Spanned(m) /\ Spanned(g) /\ (g = m \/ Before(g, m))
        BY <1>1, <1>4 DEF Nested
      <4>3. m.from <= at /\ at <= m.to + 1
        BY <4>1, <4>2 DEF Spanned
      <4>4. CASE g = m
        BY <1>5, <3>2, <4>1, <4>2, <4>4 DEF Spanned, Within
      <4>5. CASE Before(g, m)
        BY <1>5, <3>2, <4>2, <4>3, <4>5 DEF Spanned, Within, Before
      <4> QED
        BY <4>2, <4>4, <4>5
    <3>5. CASE at = k.from \/ at = k.to + 1
      BY <2>4, <2>5, <3>5
    <3> QED
      BY <1>7, <3>3, <3>4, <3>5
  <2> QED
    BY <1>7, <2>3, <2>4, <2>5
<1> QED
  BY <1>5, <1>6, <1>7 DEF Edge

\* No chunk cuts a function.
LEMMA NoFunctionIsCut ==
  ASSUME NEW nodes, NEW length, WellNested(nodes, length), Definitions(nodes) # {},
         NEW f \in Functions(nodes, length), NEW c \in PythonChunks(nodes, length)
  PROVE  Lines(f) \subseteq Lines(c) \/ Lines(f) \intersect Lines(c) = {}
<1>1. c.from \in Nat /\ c.to \in Nat /\ Edge(nodes, c.from) /\ Edge(nodes, c.to + 1)
  BY ChunksHaveEdges
<1>2. Spanned(f) /\ (f.to < c.from \/ c.from <= f.from)
  BY <1>1, FunctionsAreClear
<1>3. f.to < c.to + 1 \/ c.to + 1 <= f.from
  <2>1. c.to + 1 \in Nat
    BY <1>1
  <2> QED
    BY <1>1, <2>1, FunctionsAreClear
<1> QED
  BY <1>1, <1>2, <1>3 DEF Lines, Spanned

\* What ChunksFollowStructure says of the chunks of a Python file.
LEMMA PythonFollowsStructure ==
  ASSUME NEW nodes, NEW length, WellNested(nodes, length)
  PROVE  LET cuts    == PythonChunks(nodes, length)
             top     == {n \in nodes : n.kind # "block"}
             first   == Min({n.from : n \in top})
             covered == UNION {Lines(c) : c \in cuts}
         IN  /\ top # {} =>
                  \A f \in Functions(nodes, length), c \in cuts :
                    Lines(f) \subseteq Lines(c) \/ Lines(f) \intersect Lines(c) = {}
             /\ NamedApart(top) => Identified(cuts)
             /\ NamedApart(top) /\ top # {} =>
                  /\ \A c, d \in cuts : c # d => Lines(c) \intersect Lines(d) = {}
                  /\ \A line \in 1..length \ covered :
                       /\ line > first
                       /\ \A n \in top : line \in Lines(n) =>
                            /\ n.to - n.from >= MaxLines
                            /\ \E m \in n.body : m.kind # "block" /\ m.to < line
                            /\ \A m \in n.body : m.kind # "block" => line \notin Lines(m)
<1> DEFINE symbols == Symbols(nodes, length)
           cuts    == PythonChunks(nodes, length)
           top     == {n \in nodes : n.kind # "block"}
           first   == Min({n.from : n \in top})
           of(n)   == SymbolChunks(Top(n), symbols)
           prelude == Chunk("module_prelude", 1, first - 1, NoParent)
           tops    == {s \in symbols : s.parent = TopLevel}
<1>1. length \in Nat \ {0}
  BY DEF WellNested
<1>2. /\ \A n \in nodes : Nested(n)
      /\ \A m, n \in nodes : m # n => Before(m, n)
  BY NodesNest
<1>3. top = Definitions(nodes)
  BY DEF Definitions
<1>4. /\ tops = {Top(n) : n \in top}
      /\ \A n, m : m \in Methods(n, symbols) <=>
           \E c \in top : c.kind = "class" /\ c.name = n.name /\ m \in Definitions(c.body)
  BY <1>3, SymbolsNest
<1>5. ASSUME top # {}, NEW f \in Functions(nodes, length), NEW c \in cuts
      PROVE  Lines(f) \subseteq Lines(c) \/ Lines(f) \intersect Lines(c) = {}
  BY <1>3, <1>5, NoFunctionIsCut
<1>6. CASE top = {}
  <2>1. cuts = WholeFile(length)
    BY <1>4, <1>6 DEF PythonChunks
  <2> QED
    BY <1>1, <1>6, <2>1, SlicesHoldTheFile
<1>7. ASSUME NamedApart(top), top # {}
      PROVE  /\ Identified(cuts)
             /\ \A c, d \in cuts : c # d => Lines(c) \intersect Lines(d) = {}
             /\ \A line \in 1..length \ UNION {Lines(c) : c \in cuts} :
                  /\ line > first
                  /\ \A n \in top : line \in Lines(n) =>
                       /\ n.to - n.from >= MaxLines
                       /\ \E m \in n.body : m.kind # "block" /\ m.to < line
                       /\ \A m \in n.body : m.kind # "block" => line \notin Lines(m)
  <2>1. cuts = (IF first > 1 THEN {prelude} ELSE {}) \union UNION {of(n) : n \in top}
    <3>1. {s.node.from : s \in tops} = {n.from : n \in top}
      <4> HIDE DEF symbols, top, tops
      <4>1. \A s \in tops : \E n \in top : s.node = n
        BY <1>4, TopFields
      <4>2. \A n \in top : \E s \in tops : s.node = n
        BY <1>4, TopFields
      <4> QED
        BY <4>1, <4>2
    <3>2. UNION {SymbolChunks(s, symbols) : s \in tops} = UNION {of(n) : n \in top}
      BY <1>4
    <3>3. tops # {}
      BY <1>4, <1>7
    <3> QED
      BY <3>1, <3>2, <3>3 DEF PythonChunks
  <2>2. ASSUME NEW n \in top
        PROVE  /\ CutInOrder(n, of(n))
               /\ \A line \in n.from..n.to :
                    (\E c \in of(n) : c.from <= line /\ line <= c.to) \/ MayBeLeft(n, line)
    <3>1. ASSUME n.kind = "class"
          PROVE  Methods(n, symbols) = Definitions(n.body)
      <4>1. \A c \in top : c.kind = "class" /\ c.name = n.name => c = n
        BY <1>7, <3>1 DEF NamedApart
      <4>2. \A m : m \in Methods(n, symbols) <=> m \in Definitions(n.body)
        BY <1>4, <3>1, <4>1
      <4> QED
        BY <4>2
    <3> QED
      BY <1>2, <3>1, SymbolIsCutInOrder
  <2> HIDE DEF symbols, cuts, of, tops
  <2>3. \A n \in top : n \in nodes /\ Nested(n) /\ Spanned(n)
    BY <1>2 DEF Nested
  <2>4. /\ first \in Nat \ {0} /\ \A n \in top : first <= n.from
        /\ \E n \in top : n.from = first
    <3> DEFINE starts == {n.from : n \in top}
    <3>1. starts \subseteq Nat /\ starts # {} /\ 0 \notin starts
      BY <1>7, <2>3 DEF Spanned
    <3>2. Min(starts) \in starts /\ \A y \in starts : Min(starts) <= y
      BY <3>1, LeastOf
    <3> QED
      BY <3>1, <3>2
  <2>5. prelude.from = 1 /\ prelude.to = first - 1
    BY ChunkFields
  <2> HIDE DEF first, prelude
  <2>6. \A c \in cuts : (c = prelude /\ first > 1) \/ \E n \in top : c \in of(n)
    BY <2>1
  <2>7. ASSUME NEW n \in top, NEW c \in of(n)
        PROVE  Filled(c) /\ Within(c, n) /\ first <= c.from
    <3>1. Filled(c) /\ Within(c, n)
      BY <2>2 DEF CutInOrder
    <3> QED
      BY <2>3, <2>4, <3>1 DEF Filled, Within, Spanned
  <2>8. ASSUME NEW c \in cuts
        PROVE  Filled(c)
    BY <2>4, <2>5, <2>6, <2>7 DEF Filled
  <2>9. ASSUME NEW m \in top, NEW n \in top, m # n, NEW c \in of(m), NEW d \in of(n)
        PROVE  Before(c, d)
    <3>1. Before(m, n)
      BY <1>2, <2>9
    <3>2. Filled(c) /\ Filled(d) /\ Within(c, m) /\ Within(d, n) /\ Spanned(m) /\ Spanned(n)
      BY <2>3, <2>7
    <3> QED
      BY <3>1, <3>2 DEF Before, Filled, Within, Spanned
  <2>10. ASSUME NEW c \in cuts, NEW d \in cuts, c # d
         PROVE  Before(c, d)
    <3>1. CASE \E m \in top : c \in of(m)
      <4>1. PICK m \in top : c \in of(m)
        BY <3>1
      <4>2. CASE \E n \in top : d \in of(n)
        <5>1. PICK n \in top : d \in of(n)
          BY <4>2
        <5>2. CASE m = n
          BY <2>2, <2>10, <4>1, <5>1, <5>2 DEF CutInOrder
        <5>3. CASE m # n
          BY <2>9, <4>1, <5>1, <5>3
        <5> QED
          BY <5>2, <5>3
      <4>3. CASE d = prelude /\ first > 1
        BY <2>4, <2>5, <2>7, <4>1, <4>3 DEF Before, Filled
      <4> QED
        BY <2>6, <4>2, <4>3
    <3>2. CASE c = prelude /\ first > 1
      <4>1. PICK n \in top : d \in of(n)
        BY <2>6, <2>10, <3>2
      <4> QED
        BY <2>4, <2>5, <2>7, <3>2, <4>1 DEF Before, Filled
    <3> QED
      BY <2>6, <3>1, <3>2
  <2>11. /\ Identified(cuts)
         /\ \A c, d \in cuts : c # d => Lines(c) \intersect Lines(d) = {}
    BY <2>8, <2>10, ApartIsIdentified
  \* What is in no chunk.
  <2>12. ASSUME NEW line \in 1..length, \A c \in cuts : line \notin Lines(c)
         PROVE  /\ line > first
                /\ \A n \in top : line \in Lines(n) => MayBeLeft(n, line)
    <3>1. \A c \in cuts : c.from \in Nat /\ c.to \in Nat /\ ~ (c.from <= line /\ line <= c.to)
      BY <2>8, <2>12 DEF Filled, Lines
    <3>2. line # first
      <4>1. PICK n \in top : n.from = first
        BY <2>4
      <4>2. PICK c \in of(n) : c.from = n.from
        BY <2>2 DEF CutInOrder
      <4>3. c \in cuts /\ c.from <= c.to
        BY <2>1, <2>7, <4>2 DEF Filled
      <4> QED
        BY <3>1, <4>1, <4>2, <4>3
    <3>3. ~ line < first
      BY <2>1, <2>4, <2>5, <3>1
    <3>4. ASSUME NEW n \in top, line \in Lines(n)
          PROVE  MayBeLeft(n, line)
      <4>1. line \in n.from..n.to /\ \A c \in of(n) : c \in cuts
        BY <2>1, <3>4 DEF Lines
      <4> QED
        BY <2>2, <3>1, <4>1
    <3> QED
      BY <2>4, <3>2, <3>3, <3>4
  <2>13. ASSUME NEW n \in top, NEW line, MayBeLeft(n, line)
         PROVE  /\ n.to - n.from >= MaxLines
                /\ \E m \in n.body : m.kind # "block" /\ m.to < line
                /\ \A m \in n.body : m.kind # "block" => line \notin Lines(m)
    BY <2>3, <2>13 DEF MayBeLeft, Lines, Nested, Spanned
  <2>14. ASSUME NEW line \in 1..length \ UNION {Lines(c) : c \in cuts}
         PROVE  /\ line > first
                /\ \A n \in top : line \in Lines(n) =>
                     /\ n.to - n.from >= MaxLines
                     /\ \E m \in n.body : m.kind # "block" /\ m.to < line
                     /\ \A m \in n.body : m.kind # "block" => line \notin Lines(m)
    <3>1. line \in 1..length /\ \A c \in cuts : line \notin Lines(c)
      OBVIOUS
    <3> QED
      BY <2>12, <2>13, <3>1
  <2> QED
    BY <2>11, <2>14
<1> HIDE DEF cuts, top, first
<1> QED
  BY <1>5, <1>6, <1>7 DEF cuts, top, first

-----------------------------------------------------------------------------
(***************************************************************************)
(* Chunks of a Markdown file: which headings are open below each line.     *)
(***************************************************************************)
\* Whether the lines of a file can be read down to the k-th.
ReadUpto(levels, k) ==
  \E read : read = [i \in 0..k |-> IF i = 0 THEN [open |-> {}, closed |-> {}]
                                   ELSE ReadLine(read[i - 1], levels[i], i)]

\* Lines can be read one after the other.
LEMMA LinesCanBeRead ==
  ASSUME NEW levels
  PROVE  \A k \in Nat : ReadUpto(levels, k)
<1> DEFINE bad == {k \in Nat : ~ReadUpto(levels, k)}
           start == [open |-> {}, closed |-> {}]
<1>1. SUFFICES ASSUME bad # {}
               PROVE  FALSE
  OBVIOUS
<1>2. PICK k \in bad : \A j \in bad : ~ (j < k)
  BY <1>1, LeastNumber
<1>3. CASE k = 0
  <2> DEFINE read == [i \in 0..0 |-> start]
  <2>1. read = [i \in 0..0 |-> IF i = 0 THEN start ELSE ReadLine(read[i - 1], levels[i], i)]
    OBVIOUS
  <2> HIDE DEF read
  <2>2. ReadUpto(levels, 0)
    BY <2>1 DEF ReadUpto
  <2> QED
    BY <1>2, <1>3, <2>2
<1>4. CASE k # 0
  <2>1. k \in Nat /\ k - 1 \in Nat /\ k - 1 < k
    BY <1>2, <1>4
  <2>2. ReadUpto(levels, k - 1)
    BY <1>2, <2>1
  <2>3. PICK read : read = [i \in 0..(k - 1) |->
                      IF i = 0 THEN start ELSE ReadLine(read[i - 1], levels[i], i)]
    BY <2>2 DEF ReadUpto
  <2> DEFINE more == [i \in 0..k |-> IF i < k THEN read[i]
                                     ELSE ReadLine(read[k - 1], levels[k], k)]
  <2>4. ASSUME NEW i \in 0..k
        PROVE  more[i] = IF i = 0 THEN start ELSE ReadLine(more[i - 1], levels[i], i)
    <3> HIDE DEF start
    <3>1. CASE i = k
      BY <1>4, <2>1, <3>1
    <3>2. CASE i < k /\ i # 0
      BY <2>1, <2>3, <3>2
    <3>3. CASE i < k /\ i = 0
      BY <2>1, <2>3, <3>3
    <3> QED
      BY <2>1, <3>1, <3>2, <3>3
  <2>5. more = [i \in 0..k |-> more[i]]
    OBVIOUS
  <2> HIDE DEF more
  <2>6. more = [i \in 0..k |-> IF i = 0 THEN start ELSE ReadLine(more[i - 1], levels[i], i)]
    BY <2>4, <2>5
  <2>7. ReadUpto(levels, k)
    BY <2>6 DEF ReadUpto
  <2> QED
    BY <1>2, <2>7
<1> QED
  BY <1>3, <1>4

\* The headings of a file, where the section of one ends, and whether it is open at a line.
Headings(levels) == {i \in DOMAIN levels : levels[i] > 0}
Enders(levels, i) == {h \in Headings(levels) : h > i /\ levels[h] <= levels[i]}
EndOf(levels, i) == Min({j - 1 : j \in Enders(levels, i)} \union {Len(levels)})
OpenAt(levels, line) ==
  {i \in Headings(levels) : i <= line /\ \A h \in Enders(levels, i) : h > line}
Section(levels, i) == Chunk("section", i, EndOf(levels, i), NoParent)

\* What has been read of a file down to a line.
ReadDownTo(state, levels, line) ==
  state = [open   |-> {[level |-> levels[i], line |-> i] : i \in OpenAt(levels, line)},
           closed |-> {Section(levels, i) :
                         i \in {h \in Headings(levels) : h <= line} \ OpenAt(levels, line)}]

\* A section ends at the line above the next heading of its level or above, or with the file.
LEMMA SectionsEnd ==
  ASSUME NEW levels \in Seq(Nat), NEW i \in Headings(levels)
  PROVE  /\ \A h \in Enders(levels, i) :
              (\A g \in Enders(levels, i) : h <= g) => EndOf(levels, i) = h - 1
         /\ Enders(levels, i) = {} => EndOf(levels, i) = Len(levels)
<1> DEFINE ends == {j - 1 : j \in Enders(levels, i)} \union {Len(levels)}
<1>1. /\ Len(levels) \in Nat /\ DOMAIN levels = 1..Len(levels)
      /\ \A h \in Headings(levels) : h \in 1..Len(levels) /\ levels[h] \in Nat
  BY DEF Headings
<1>2. \A h \in Enders(levels, i) : h \in 1..Len(levels) /\ h - 1 \in Nat
  BY <1>1 DEF Enders
<1>3. ends \subseteq Nat /\ ends # {}
  BY <1>1, <1>2
<1>4. EndOf(levels, i) \in ends /\ \A y \in ends : EndOf(levels, i) <= y
  BY <1>3, LeastOf DEF EndOf
<1>5. ASSUME NEW h \in Enders(levels, i), \A g \in Enders(levels, i) : h <= g
      PROVE  EndOf(levels, i) = h - 1
  <2>1. EndOf(levels, i) <= h - 1
    BY <1>4
  <2>2. CASE EndOf(levels, i) = Len(levels)
    BY <1>1, <1>2, <2>1, <2>2
  <2>3. CASE \E g \in Enders(levels, i) : EndOf(levels, i) = g - 1
    BY <1>2, <1>5, <2>1, <2>3
  <2> QED
    BY <1>4, <2>2, <2>3
<1> QED
  BY <1>4, <1>5

\* Closing headings at a line: the ones that end there are closed, each with its section.
LEMMA HeadingsAreClosed ==
  ASSUME NEW levels \in Seq(Nat), NEW line \in 0..Len(levels), NEW level \in Nat \ {0},
         NEW state, ReadDownTo(state, levels, line),
         \A i \in OpenAt(levels, line) : levels[i] >= level => EndOf(levels, i) = line
  PROVE  LET staying == {i \in OpenAt(levels, line) : levels[i] < level}
         IN  Close(state, level, line)
               = [open   |-> {[level |-> levels[i], line |-> i] : i \in staying},
                  closed |-> {Section(levels, i) :
                                i \in {h \in Headings(levels) : h <= line} \ staying}]
<1> DEFINE opened  == OpenAt(levels, line)
           staying == {i \in opened : levels[i] < level}
           mark(i) == [level |-> levels[i], line |-> i]
           read    == {h \in Headings(levels) : h <= line}
           closing == {h \in state.open : h.level >= level}
<1>1. /\ state.open = {mark(i) : i \in opened}
      /\ state.closed = {Section(levels, i) : i \in read \ opened}
  BY DEF ReadDownTo
<1>2. opened \subseteq read /\ \A i \in read : i \in Nat /\ levels[i] \in Nat
  BY DEF OpenAt, Headings
<1>3. closing = {mark(i) : i \in opened \ staying}
  BY <1>1, <1>2
<1>4. state.open \ closing = {mark(i) : i \in staying}
  BY <1>1, <1>2
<1>5. {Chunk("section", h.line, line, NoParent) : h \in closing}
        = {Section(levels, i) : i \in opened \ staying}
  <2>1. \A i \in opened \ staying :
          Section(levels, i) = Chunk("section", mark(i).line, line, NoParent)
    BY <1>2 DEF Section
  <2> HIDE DEF opened, staying, closing, mark
  <2> QED
    BY <1>3, <2>1
<1>6. (read \ opened) \union (opened \ staying) = read \ staying
  BY <1>2
<1>7. state.closed \union {Chunk("section", h.line, line, NoParent) : h \in closing}
        = {Section(levels, i) : i \in read \ staying}
  <2> HIDE DEF opened, staying, closing, mark, read
  <2> QED
    BY <1>1, <1>5, <1>6
<1>8. Close(state, level, line)
        = [open |-> state.open \ closing,
           closed |-> state.closed
                        \union {Chunk("section", h.line, line, NoParent) : h \in closing}]
  BY DEF Close
<1> HIDE DEF read, closing
<1> QED
  BY <1>4, <1>7, <1>8 DEF read

\* Reading one line more.
LEMMA OneLineMore ==
  ASSUME NEW levels \in Seq(Nat), NEW line \in 1..Len(levels), NEW state,
         ReadDownTo(state, levels, line - 1)
  PROVE  ReadDownTo(ReadLine(state, levels[line], line), levels, line)
<1> DEFINE above == OpenAt(levels, line - 1)
           below == OpenAt(levels, line)
           level == levels[line]
           mark(i) == [level |-> levels[i], line |-> i]
           before(n) == {h \in Headings(levels) : h <= n}
<1>1. /\ Len(levels) \in Nat /\ DOMAIN levels = 1..Len(levels) /\ level \in Nat
      /\ line \in Nat /\ line - 1 \in 0..Len(levels)
      /\ \A h \in Headings(levels) : h \in 1..Len(levels) /\ h \in Nat /\ levels[h] \in Nat
      /\ \A h \in 1..Len(levels) : h \in Headings(levels) <=> levels[h] > 0
  BY DEF Headings
<1>2. CASE level = 0
  <2>1. line \notin Headings(levels)
    BY <1>1, <1>2
  <2>2. \A h \in Headings(levels) : /\ h <= line <=> h <= line - 1
                                    /\ h > line <=> h > line - 1
    BY <1>1, <2>1
  <2>3. above = below /\ before(line) = before(line - 1)
    BY <2>2 DEF OpenAt, Enders
  <2> QED
    BY <1>2, <2>3 DEF ReadLine, ReadDownTo
<1>3. CASE level # 0
  <2> DEFINE staying == {i \in above : levels[i] < level}
  <2>1. line \in Headings(levels) /\ level \in Nat \ {0}
    BY <1>1, <1>3
  <2>2. \A i \in above : /\ i \in Headings(levels) /\ i <= line - 1 /\ i < line
                         /\ \A h \in Enders(levels, i) : h > line - 1 /\ line <= h
    BY <1>1 DEF OpenAt, Enders
  <2>3. \A i \in above : line \in Enders(levels, i) <=> level <= levels[i]
    BY <2>1, <2>2 DEF Enders
  <2>4. \A i \in above : levels[i] >= level => EndOf(levels, i) = line - 1
    <3>1. SUFFICES ASSUME NEW i \in above, levels[i] >= level
                   PROVE  EndOf(levels, i) = line - 1
      OBVIOUS
    <3>2. line \in Enders(levels, i)
      BY <1>1, <2>2, <2>3, <3>1
    <3> QED
      BY <2>2, <3>2, SectionsEnd
  <2>5. Close(state, level, line - 1)
          = [open   |-> {mark(i) : i \in staying},
             closed |-> {Section(levels, i) : i \in before(line - 1) \ staying}]
    BY <1>1, <2>1, <2>4, HeadingsAreClosed
  <2>6. below = staying \union {line}
    <3>1. line \in below
      BY <1>1, <2>1 DEF OpenAt, Enders
    <3>2. ASSUME NEW i \in staying
          PROVE  i \in below
      <4>1. i \in above /\ ~ level <= levels[i] /\ i \in Headings(levels) /\ i <= line
        BY <1>1, <2>2
      <4>2. \A h \in Enders(levels, i) : h # line /\ line <= h /\ h \in Nat
        BY <1>1, <2>2, <2>3, <4>1 DEF Enders
      <4> QED
        BY <1>1, <4>1, <4>2 DEF OpenAt
    <3>3. ASSUME NEW i \in below, i # line
          PROVE  i \in staying
      <4>1. /\ i \in Headings(levels) /\ i <= line - 1
            /\ \A h \in Enders(levels, i) : h > line /\ h > line - 1
        BY <1>1, <3>3 DEF OpenAt, Enders
      <4>2. i \in above
        BY <4>1 DEF OpenAt
      <4>3. ~ level <= levels[i]
        BY <1>1, <2>3, <4>1, <4>2
      <4> QED
        BY <1>1, <4>1, <4>2, <4>3
    <3> QED
      BY <3>1, <3>2, <3>3
  <2>7. before(line) \ below = before(line - 1) \ staying
    <3>1. before(line) = before(line - 1) \union {line} /\ line \notin before(line - 1)
      <4>1. \A h \in Headings(levels) : h <= line <=> h <= line - 1 \/ h = line
        BY <1>1
      <4>2. ~ line <= line - 1
        BY <1>1
      <4> QED
        BY <2>1, <4>1, <4>2
    <3> HIDE DEF before, staying, below
    <3> QED
      BY <2>6, <3>1
  <2> DEFINE closed == {Section(levels, i) : i \in before(line - 1) \ staying}
  <2>8. {mark(i) : i \in staying} \union {mark(line)} = {mark(i) : i \in below}
    BY <2>6
  <2>9. ReadLine(state, level, line)
          = [open |-> {mark(i) : i \in staying} \union {mark(line)}, closed |-> closed]
    <3> DEFINE open == {mark(i) : i \in staying}
    <3>1. Close(state, level, line - 1) = [open |-> open, closed |-> closed]
      BY <2>5
    <3>2. /\ Close(state, level, line - 1).open = open
          /\ Close(state, level, line - 1).closed = closed
      BY <3>1
    <3>3. ReadLine(state, level, line) = [open |-> open \union {mark(line)}, closed |-> closed]
      BY <1>3, <3>2 DEF ReadLine
    <3> QED
      BY <3>3 DEF open
  <2>10. closed = {Section(levels, i) : i \in before(line) \ below}
    BY <2>7
  <2> HIDE DEF closed, staying, below
  <2>11. ReadLine(state, level, line)
           = [open |-> {mark(i) : i \in below},
              closed |-> {Section(levels, i) : i \in before(line) \ below}]
    BY <2>8, <2>9, <2>10
  <2> QED
    BY <2>11 DEF ReadDownTo, below
<1> QED
  BY <1>2, <1>3

\* The sections of a file are those of its headings.
LEMMA SectionsOfHeadings ==
  ASSUME NEW levels \in Seq(Nat)
  PROVE  MarkdownSections(levels) = {Section(levels, i) : i \in Headings(levels)}
<1> DEFINE start == [open |-> {}, closed |-> {}]
           read == CHOOSE read : read = [i \in 0..Len(levels) |->
                     IF i = 0 THEN start ELSE ReadLine(read[i - 1], levels[i], i)]
<1>1. MarkdownSections(levels) = Close(read[Len(levels)], 1, Len(levels)).closed
  BY DEF MarkdownSections
<1>2. Len(levels) \in Nat /\ DOMAIN levels = 1..Len(levels)
  OBVIOUS
<1>3. \E r : r = [i \in 0..Len(levels) |->
                    IF i = 0 THEN start ELSE ReadLine(r[i - 1], levels[i], i)]
  <2>1. ReadUpto(levels, Len(levels))
    BY <1>2, LinesCanBeRead
  <2> QED
    BY <2>1 DEF ReadUpto
<1>4. read = [i \in 0..Len(levels) |->
                IF i = 0 THEN start ELSE ReadLine(read[i - 1], levels[i], i)]
  BY <1>3
<1> HIDE DEF read
<1>5. \A h \in Headings(levels) : h \in 1..Len(levels) /\ levels[h] \in Nat \ {0}
  BY <1>2 DEF Headings
<1> DEFINE bad == {i \in 0..Len(levels) : ~ReadDownTo(read[i], levels, i)}
<1>6. bad = {}
  <2>1. SUFFICES ASSUME bad # {}
                 PROVE  FALSE
    OBVIOUS
  <2>2. bad \subseteq Nat
    BY <1>2
  <2>3. PICK i \in bad : \A j \in bad : ~ (j < i)
    BY <2>1, <2>2, LeastNumber
  <2>4. CASE i = 0
    <3>1. read[0] = start
      BY <1>2, <1>4
    <3>2. OpenAt(levels, 0) = {} /\ {h \in Headings(levels) : h <= 0} = {}
      BY <1>5 DEF OpenAt
    <3>3. ReadDownTo(start, levels, 0)
      BY <3>2 DEF ReadDownTo
    <3> QED
      BY <2>3, <2>4, <3>1, <3>3
  <2>5. CASE i # 0
    <3>1. /\ i \in 1..Len(levels) /\ i \in 0..Len(levels) /\ i - 1 < i
          /\ i - 1 \in 0..Len(levels) /\ i - 1 \notin bad
      BY <1>2, <2>3, <2>5
    <3>2. ReadDownTo(read[i - 1], levels, i - 1)
      BY <3>1
    <3>3. read[i] = ReadLine(read[i - 1], levels[i], i)
      BY <1>4, <2>5, <3>1
    <3>4. ReadDownTo(read[i], levels, i)
      BY <3>1, <3>2, <3>3, OneLineMore
    <3> QED
      BY <2>3, <3>4
  <2> QED
    BY <2>4, <2>5
<1> DEFINE n == Len(levels)
           staying == {i \in OpenAt(levels, n) : levels[i] < 1}
<1>7. ReadDownTo(read[n], levels, n)
  BY <1>2, <1>6
<1>8. \A i \in OpenAt(levels, n) : i \in Headings(levels) /\ EndOf(levels, i) = n
  <2>1. SUFFICES ASSUME NEW i \in OpenAt(levels, n)
                 PROVE  i \in Headings(levels) /\ EndOf(levels, i) = n
    OBVIOUS
  <2>2. i \in Headings(levels) /\ \A h \in Enders(levels, i) : h > n /\ h \in Headings(levels)
    BY DEF OpenAt, Enders
  <2>3. Enders(levels, i) = {}
    BY <1>2, <1>5, <2>2
  <2> QED
    BY <2>2, <2>3, SectionsEnd
<1>9. Close(read[n], 1, n).closed
        = {Section(levels, i) : i \in {h \in Headings(levels) : h <= n} \ staying}
  <2>1. n \in 0..Len(levels) /\ 1 \in Nat \ {0}
    BY <1>2
  <2>2. Close(read[n], 1, n)
          = [open   |-> {[level |-> levels[i], line |-> i] : i \in staying},
             closed |-> {Section(levels, i) : i \in {h \in Headings(levels) : h <= n} \ staying}]
    BY <1>7, <1>8, <2>1, HeadingsAreClosed
  <2> QED
    BY <2>2
<1>10. {h \in Headings(levels) : h <= n} \ staying = Headings(levels)
  BY <1>2, <1>5, <1>8
<1> QED
  BY <1>1, <1>9, <1>10

\* What ChunksFollowStructure says of the chunks of a Markdown file.
LEMMA MarkdownFollowsStructure ==
  ASSUME NEW levels \in Seq(Nat), levels # <<>>
  PROVE  LET headings == {i \in DOMAIN levels : levels[i] > 0}
             cuts   == MarkdownChunks(levels)
             until(i) == Min({j - 1 : j \in {h \in headings : h > i /\ levels[h] <= levels[i]}}
                             \union {Len(levels)})
         IN  /\ Identified(cuts)
             /\ headings # {} => cuts = {Chunk("section", i, until(i), NoParent) : i \in headings}
             /\ headings = {} => UNION {Lines(c) : c \in cuts} = DOMAIN levels
<1> DEFINE cuts == MarkdownChunks(levels)
<1>1. Len(levels) \in Nat \ {0} /\ DOMAIN levels = 1..Len(levels)
  OBVIOUS
<1>2. MarkdownSections(levels) = {Section(levels, i) : i \in Headings(levels)}
  BY SectionsOfHeadings
<1>3. CASE Headings(levels) = {}
  <2>1. cuts = WholeFile(Len(levels))
    BY <1>2, <1>3 DEF MarkdownChunks
  <2>2. Identified(cuts) /\ UNION {Lines(c) : c \in cuts} = DOMAIN levels
    BY <1>1, <2>1, SlicesHoldTheFile
  <2> QED
    BY <1>3, <2>2 DEF Headings
<1>4. CASE Headings(levels) # {}
  <2>1. cuts = {Section(levels, i) : i \in Headings(levels)}
    BY <1>2, <1>4 DEF MarkdownChunks
  <2>2. \A i : Section(levels, i).from = i
    BY ChunkFields DEF Section
  <2>3. Identified(cuts)
    BY <2>1, <2>2 DEF Identified
  <2> QED
    BY <1>4, <2>1, <2>3 DEF Section, EndOf, Enders, Headings
<1> QED
  BY <1>3, <1>4

-----------------------------------------------------------------------------
(***************************************************************************)
(* Requests for embeddings: the segments of the texts, each token in one.  *)
(***************************************************************************)
Segment == [owner : Nat, from : Nat, tokens : 1..InputTokens]
Holds(s, t) == s.from + 1 <= t /\ t <= s.from + s.tokens

\* A text has its tokens, each in one of its segments.
LEMMA SegmentsOfText ==
  ASSUME NEW owner \in Nat, NEW text \in Nat
  PROVE  LET segments == SegmentsOf(owner, text)
             tokens   == TokensOf(text)
         IN  /\ segments \in Seq(Segment)
             /\ \A k \in DOMAIN segments :
                  /\ segments[k].owner = owner
                  /\ segments[k].from + segments[k].tokens <= tokens
             /\ \A t \in 1..tokens : \E k \in DOMAIN segments : Holds(segments[k], t)
             /\ \A k, l \in DOMAIN segments, t \in 1..tokens :
                  Holds(segments[k], t) /\ Holds(segments[l], t) => k = l
             /\ \A k, l \in DOMAIN segments : segments[k] = segments[l] => k = l
<1> DEFINE segments == SegmentsOf(owner, text)
           tokens   == TokensOf(text)
           full     == InputTokens
           count    == (tokens + full - 1) \div full
<1>1. full \in Nat \ {0} /\ tokens \in Nat \ {0}
  BY PoolingAssumption DEF TokensOf
<1>2. segments = [k \in 1..count |->
         [owner |-> owner, from |-> (k - 1) * full,
          tokens |-> IF k < count THEN full ELSE tokens - (k - 1) * full]]
  BY DEF SegmentsOf
<1> HIDE DEF segments, tokens, full
<1>3. count \in Nat /\ count * full <= tokens + full - 1 /\ tokens <= count * full
  <2>1. tokens + full - 1 \in Nat
    BY <1>1
  <2>2. /\ count \in Nat /\ count * full <= tokens + full - 1
        /\ tokens + full - 1 < count * full + full
    BY <1>1, <2>1, WholePages
  <2> HIDE DEF count
  <2>3. count * full \in Nat
    BY <1>1, <2>2, OnePageMore
  <2> QED
    BY <1>1, <2>2, <2>3
<1> HIDE DEF count
<1>4. count # 0
  BY <1>1, <1>3
<1> DEFINE from(k) == (k - 1) * full
           size(k) == IF k < count THEN full ELSE tokens - from(k)
<1>5. ASSUME NEW k \in 1..count
      PROVE  /\ from(k) \in Nat /\ size(k) \in 1..full /\ from(k) + size(k) <= tokens
             /\ k < count => size(k) = full
             /\ ~ (k < count) => from(k) + size(k) = tokens
  <2>1. k - 1 \in Nat /\ k \in Nat /\ (k - 1) + 1 = k
    BY <1>3
  <2>2. from(k) \in Nat /\ k * full = from(k) + full
    BY <1>1, <2>1, OnePageMore
  <2>3. count - 1 \in Nat /\ (count - 1) + 1 = count
    BY <1>3, <1>4
  <2>4. count * full = (count - 1) * full + full /\ (count - 1) * full \in Nat
    BY <1>1, <2>3, OnePageMore
  <2>5. (count - 1) * full + 1 <= tokens
    BY <1>1, <1>3, <2>4
  <2> HIDE DEF from
  <2>6. CASE k < count
    <3>1. k <= count - 1
      BY <1>3, <2>1, <2>6
    <3>2. k * full <= (count - 1) * full
      BY <1>1, <2>1, <2>3, <3>1, MorePages
    <3> QED
      BY <1>1, <2>2, <2>4, <2>5, <2>6, <3>2
  <2>7. CASE ~ (k < count)
    <3>1. k = count
      BY <1>3, <2>7
    <3>2. from(k) = (count - 1) * full
      BY <3>1 DEF from
    <3> QED
      BY <1>1, <1>3, <2>2, <2>4, <2>5, <2>7, <3>1, <3>2
  <2> QED
    BY <2>6, <2>7
<1>6. ASSUME NEW k \in 1..count, NEW l \in 1..count, k < l
      PROVE  from(k) + size(k) <= from(l)
  <2>1. k \in Nat /\ k - 1 \in Nat /\ l - 1 \in Nat /\ k <= l - 1 /\ (k - 1) + 1 = k
        /\ k < count
    BY <1>3, <1>6
  <2>2. k * full = from(k) + full /\ k * full <= from(l)
    BY <1>1, <2>1, OnePageMore, MorePages
  <2> QED
    BY <1>5, <2>1, <2>2
<1>7. segments = [k \in 1..count |-> [owner |-> owner, from |-> from(k), tokens |-> size(k)]]
  BY <1>2
<1>8. \A t \in 1..tokens : \E k \in 1..count : from(k) + 1 <= t /\ t <= from(k) + size(k)
  <2>1. SUFFICES ASSUME NEW t \in 1..tokens
                 PROVE  \E k \in 1..count : from(k) + 1 <= t /\ t <= from(k) + size(k)
    OBVIOUS
  <2> DEFINE before == (t - 1) \div full
             k      == before + 1
  <2>2. t - 1 \in Nat
    BY <1>1
  <2>3. before \in Nat /\ before * full <= t - 1 /\ t - 1 < before * full + full
    BY <1>1, <2>2, WholePages
  <2> HIDE DEF before
  <2>4. before < count
    <3>1. SUFFICES ASSUME count <= before
                   PROVE  FALSE
      BY <1>3, <2>3
    <3>2. count * full <= before * full /\ before * full \in Nat /\ count * full \in Nat
      BY <1>1, <1>3, <2>3, <3>1, MorePages
    <3> QED
      BY <1>1, <1>3, <2>3, <3>2
  <2>5. k \in 1..count /\ k - 1 = before
    BY <1>3, <2>3, <2>4
  <2>6. from(k) = before * full
    BY <2>5
  <2> HIDE DEF k, from
  <2>7. from(k) + 1 <= t /\ t <= from(k) + size(k)
    BY <1>1, <1>5, <2>3, <2>5, <2>6
  <2> QED
    BY <2>5, <2>7
<1> HIDE DEF from, size
<1>9. /\ DOMAIN segments = 1..count
      /\ \A k \in 1..count : /\ segments[k] \in Segment /\ segments[k].owner = owner
                             /\ segments[k].from = from(k) /\ segments[k].tokens = size(k)
  <2>1. full = InputTokens
    BY DEF full
  <2> QED
    BY <1>5, <1>7, <2>1 DEF Segment
<1>10. segments \in Seq(Segment)
  <2>1. segments \in [1..count -> Segment]
    BY <1>7, <1>9
  <2> QED
    BY <1>3, <2>1
<1>11. \A k, l \in 1..count, t \in 1..tokens :
         Holds(segments[k], t) /\ Holds(segments[l], t) => k = l
  <2>1. SUFFICES ASSUME NEW k \in 1..count, NEW l \in 1..count, NEW t \in 1..tokens,
                        Holds(segments[k], t), Holds(segments[l], t), k # l
                 PROVE  FALSE
    OBVIOUS
  <2>2. /\ from(k) + 1 <= t /\ t <= from(k) + size(k)
        /\ from(l) + 1 <= t /\ t <= from(l) + size(l)
    BY <1>9, <2>1 DEF Holds
  <2>3. k < l \/ l < k
    BY <1>3, <2>1
  <2>4. from(k) + size(k) <= from(l) \/ from(l) + size(l) <= from(k)
    BY <1>6, <2>3
  <2>5. from(k) \in Nat /\ size(k) \in Nat /\ from(l) \in Nat /\ size(l) \in Nat /\ t \in Nat
    BY <1>1, <1>5
  <2> QED
    BY <2>2, <2>4, <2>5
<1>12. \A k, l \in 1..count : segments[k] = segments[l] => k = l
  <2>1. SUFFICES ASSUME NEW k \in 1..count, NEW l \in 1..count, segments[k] = segments[l], k # l
                 PROVE  FALSE
    OBVIOUS
  <2>2. from(k) = from(l) /\ size(k) = size(l)
    BY <1>9, <2>1
  <2>3. k < l \/ l < k
    BY <1>3, <2>1
  <2>4. from(k) + size(k) <= from(l) \/ from(l) + size(l) <= from(k)
    BY <1>6, <2>3
  <2>5. from(k) \in Nat /\ size(k) \in Nat /\ size(k) >= 1
    BY <1>1, <1>5
  <2> QED
    BY <2>2, <2>4, <2>5
<1>13. \A t \in 1..tokens : \E k \in 1..count : Holds(segments[k], t)
  BY <1>8, <1>9 DEF Holds
<1> QED
  BY <1>5, <1>9, <1>10, <1>11, <1>12, <1>13 DEF segments, tokens

\* What two lists have that have nothing in common, and nothing twice.
LEMMA ConcatenatedOnce ==
  ASSUME NEW S, NEW s \in Seq(S), NEW t \in Seq(S),
         \A k, l \in DOMAIN s : s[k] = s[l] => k = l,
         \A k, l \in DOMAIN t : t[k] = t[l] => k = l,
         \A k \in DOMAIN s, l \in DOMAIN t : s[k] # t[l]
  PROVE  /\ s \o t \in Seq(S)
         /\ \A k \in DOMAIN (s \o t) : (\E l \in DOMAIN s : (s \o t)[k] = s[l])
                                       \/ (\E l \in DOMAIN t : (s \o t)[k] = t[l])
         /\ \A l \in DOMAIN s : \E k \in DOMAIN (s \o t) : (s \o t)[k] = s[l]
         /\ \A l \in DOMAIN t : \E k \in DOMAIN (s \o t) : (s \o t)[k] = t[l]
         /\ \A k, l \in DOMAIN (s \o t) : (s \o t)[k] = (s \o t)[l] => k = l
<1> DEFINE both == s \o t
<1>1. /\ both \in Seq(S) /\ Len(s) \in Nat /\ Len(t) \in Nat /\ Len(both) = Len(s) + Len(t)
      /\ DOMAIN s = 1..Len(s) /\ DOMAIN t = 1..Len(t) /\ DOMAIN both = 1..Len(s) + Len(t)
      /\ \A k \in 1..Len(s) + Len(t) :
           both[k] = IF k <= Len(s) THEN s[k] ELSE t[k - Len(s)]
  BY ConcatProperties, LenProperties
<1> HIDE DEF both
<1>2. \A k \in 1..Len(s) + Len(t) :
        /\ k <= Len(s) => k \in 1..Len(s) /\ both[k] = s[k]
        /\ ~ (k <= Len(s)) => k - Len(s) \in 1..Len(t) /\ both[k] = t[k - Len(s)]
  BY <1>1
<1>3. \A l \in 1..Len(s) : l \in 1..Len(s) + Len(t) /\ both[l] = s[l]
  BY <1>1
<1>4. \A l \in 1..Len(t) : l + Len(s) \in 1..Len(s) + Len(t) /\ both[l + Len(s)] = t[l]
  <2>1. SUFFICES ASSUME NEW l \in 1..Len(t)
                 PROVE  l + Len(s) \in 1..Len(s) + Len(t) /\ both[l + Len(s)] = t[l]
    OBVIOUS
  <2>2. /\ l + Len(s) \in 1..Len(s) + Len(t) /\ ~ (l + Len(s) <= Len(s))
        /\ (l + Len(s)) - Len(s) = l
    BY <1>1
  <2> QED
    BY <1>1, <2>2
<1>5. ASSUME NEW k \in DOMAIN both, NEW l \in DOMAIN both, both[k] = both[l]
      PROVE  k = l
  <2>1. CASE k <= Len(s) /\ l <= Len(s)
    BY <1>1, <1>2, <1>5, <2>1
  <2>2. CASE ~ (k <= Len(s)) /\ ~ (l <= Len(s))
    <3>1. k - Len(s) = l - Len(s)
      BY <1>1, <1>2, <1>5, <2>2
    <3> QED
      BY <1>1, <3>1
  <2>3. CASE k <= Len(s) /\ ~ (l <= Len(s))
    <3>1. l - Len(s) \in DOMAIN t /\ both[l] = t[l - Len(s)]
      BY <1>1, <1>2, <2>3
    <3>2. k \in DOMAIN s /\ both[k] = s[k]
      BY <1>1, <1>2, <2>3
    <3> QED
      BY <1>5, <3>1, <3>2
  <2>4. CASE ~ (k <= Len(s)) /\ l <= Len(s)
    <3>1. k - Len(s) \in DOMAIN t /\ both[k] = t[k - Len(s)]
      BY <1>1, <1>2, <2>4
    <3>2. l \in DOMAIN s /\ both[l] = s[l]
      BY <1>1, <1>2, <2>4
    <3> QED
      BY <1>5, <3>1, <3>2
  <2> QED
    BY <2>1, <2>2, <2>3, <2>4
<1> QED
  BY <1>1, <1>2, <1>3, <1>4, <1>5 DEF both

\* A segment of one of the first n texts.
SegmentOf(texts, n, x) ==
  \E i \in 1..n : \E k \in DOMAIN SegmentsOf(i, texts[i]) : x = SegmentsOf(i, texts[i])[k]

\* The segments of the texts are those of each of them, none twice.
LEMMA SegmentsOfTexts ==
  ASSUME NEW texts \in Seq(Nat)
  PROVE  LET segments == Segments(texts)
         IN  /\ segments \in Seq(Segment)
             /\ \A m \in DOMAIN segments : SegmentOf(texts, Len(texts), segments[m])
             /\ \A x : SegmentOf(texts, Len(texts), x) =>
                  \E m \in DOMAIN segments : segments[m] = x
             /\ \A m, n \in DOMAIN segments : segments[m] = segments[n] => m = n
<1> DEFINE segments == Segments(texts)
           each     == [i \in DOMAIN texts |-> SegmentsOf(i, texts[i])]
           Right(s, n) ==
             /\ s \in Seq(Segment)
             /\ \A m \in DOMAIN s : SegmentOf(texts, n, s[m])
             /\ \A x : SegmentOf(texts, n, x) => \E m \in DOMAIN s : s[m] = x
             /\ \A m, l \in DOMAIN s : s[m] = s[l] => m = l
<1>1. /\ Len(texts) \in Nat /\ DOMAIN texts = 1..Len(texts)
      /\ \A i \in 1..Len(texts) : texts[i] \in Nat /\ i \in Nat
  OBVIOUS
<1>2. \A i \in 1..Len(texts) :
        /\ SegmentsOf(i, texts[i]) \in Seq(Segment)
        /\ \A k \in DOMAIN SegmentsOf(i, texts[i]) : SegmentsOf(i, texts[i])[k].owner = i
        /\ \A k, l \in DOMAIN SegmentsOf(i, texts[i]) :
             SegmentsOf(i, texts[i])[k] = SegmentsOf(i, texts[i])[l] => k = l
  BY <1>1, SegmentsOfText
<1>3. segments = FlattenSeq(each)
  BY DEF Segments
<1>4. /\ each \in Seq(Seq(Segment)) /\ Len(each) = Len(texts)
      /\ \A i \in 1..Len(texts) : each[i] = SegmentsOf(i, texts[i])
  <2>1. each \in [1..Len(texts) -> Seq(Segment)]
    BY <1>1, <1>2
  <2>2. \A i \in 1..Len(texts) : each[i] = SegmentsOf(i, texts[i])
    BY <1>1
  <2> HIDE DEF each
  <2> QED
    BY <1>1, <2>1, <2>2
<1> HIDE DEF each, segments
<1>5. CASE Len(texts) = 0
  <2>1. segments = each
    BY <1>3, <1>4, <1>5 DEF FlattenSeq
  <2>2. segments = <<>>
    BY <1>4, <1>5, <2>1
  <2>3. segments \in Seq(Segment) /\ DOMAIN segments = {}
    BY <2>2
  <2>4. \A x : ~SegmentOf(texts, Len(texts), x)
    <3>1. 1..Len(texts) = {}
      BY <1>5
    <3> QED
      BY <3>1 DEF SegmentOf
  <2> QED
    BY <2>3, <2>4 DEF segments
<1>6. CASE Len(texts) # 0
  <2>1. each # <<>>
    BY <1>4, <1>6
  <2>2. PICK flat : /\ flat = [i \in 1..Len(each) |->
                        IF i = 1 THEN each[i] ELSE flat[i - 1] \o each[i]]
                    /\ FlattenSeq(each) = flat[Len(each)]
    BY <1>4, <2>1, FlattenUnfolds
  <2>3. \A i \in 1..Len(texts) : flat[i] = IF i = 1 THEN each[i] ELSE flat[i - 1] \o each[i]
    BY <1>4, <2>2
  <2>4. segments = flat[Len(texts)]
    BY <1>3, <1>4, <2>2
  <2> DEFINE bad == {n \in 1..Len(texts) : ~Right(flat[n], n)}
  <2>5. bad = {}
    <3>1. SUFFICES ASSUME bad # {}
                   PROVE  FALSE
      OBVIOUS
    <3>2. bad \subseteq Nat
      BY <1>1
    <3>3. PICK n \in bad : \A j \in bad : ~ (j < n)
      BY <3>1, <3>2, LeastNumber
    <3>4. n \in 1..Len(texts) /\ n \in Nat /\ ~Right(flat[n], n)
      BY <1>1, <3>3
    <3> DEFINE t == SegmentsOf(n, texts[n])
    <3>5. /\ t \in Seq(Segment) /\ \A k \in DOMAIN t : t[k].owner = n
          /\ \A k, l \in DOMAIN t : t[k] = t[l] => k = l
          /\ each[n] = t
      BY <1>2, <1>4, <3>4
    <3>6. CASE n = 1
      <4>1. flat[n] = t
        BY <2>3, <3>4, <3>5, <3>6
      <4>2. \A x : SegmentOf(texts, 1, x) <=> \E k \in DOMAIN t : x = t[k]
        <5>1. 1..1 = {1}
          OBVIOUS
        <5> QED
          BY <3>6, <5>1 DEF SegmentOf
      <4> HIDE DEF t
      <4> QED
        BY <3>4, <3>5, <3>6, <4>1, <4>2
    <3>7. CASE n # 1
      <4> DEFINE s == flat[n - 1]
      <4>1. n - 1 \in 1..Len(texts) /\ n - 1 < n /\ 1..n = (1..n - 1) \union {n}
            /\ \A i \in 1..n - 1 : i # n /\ i \in 1..Len(texts)
        BY <1>1, <3>4, <3>7
      <4>2. Right(s, n - 1)
        BY <3>3, <4>1
      <4>3. flat[n] = s \o t
        BY <2>3, <3>4, <3>5, <3>7
      <4>4. \A x : SegmentOf(texts, n, x) <=>
              SegmentOf(texts, n - 1, x) \/ \E k \in DOMAIN t : x = t[k]
        BY <4>1 DEF SegmentOf
      <4>5. \A x : SegmentOf(texts, n - 1, x) => x.owner # n
        <5>1. SUFFICES ASSUME NEW x, SegmentOf(texts, n - 1, x)
                       PROVE  x.owner # n
          OBVIOUS
        <5>2. PICK i \in 1..n - 1 : \E k \in DOMAIN SegmentsOf(i, texts[i]) :
                                     x = SegmentsOf(i, texts[i])[k]
          BY <5>1 DEF SegmentOf
        <5>3. x.owner = i
          BY <1>2, <4>1, <5>2
        <5> QED
          BY <4>1, <5>3
      <4> HIDE DEF s, t
      <4>6. /\ \A m \in DOMAIN s : SegmentOf(texts, n - 1, s[m])
            /\ \A x : SegmentOf(texts, n - 1, x) => \E m \in DOMAIN s : s[m] = x
            /\ \A m, l \in DOMAIN s : s[m] = s[l] => m = l
            /\ s \in Seq(Segment)
        BY <4>2
      <4>7. \A k \in DOMAIN s, l \in DOMAIN t : s[k] # t[l]
        BY <3>5, <4>5, <4>6
      <4>8. /\ s \o t \in Seq(Segment)
            /\ \A k \in DOMAIN (s \o t) : (\E l \in DOMAIN s : (s \o t)[k] = s[l])
                                          \/ (\E l \in DOMAIN t : (s \o t)[k] = t[l])
            /\ \A l \in DOMAIN s : \E k \in DOMAIN (s \o t) : (s \o t)[k] = s[l]
            /\ \A l \in DOMAIN t : \E k \in DOMAIN (s \o t) : (s \o t)[k] = t[l]
            /\ \A k, l \in DOMAIN (s \o t) : (s \o t)[k] = (s \o t)[l] => k = l
        <5>1. s \in Seq(Segment) /\ t \in Seq(Segment)
          BY <3>5, <4>6
        <5>2. /\ \A k, l \in DOMAIN s : s[k] = s[l] => k = l
              /\ \A k, l \in DOMAIN t : t[k] = t[l] => k = l
          BY <3>5, <4>6
        <5> QED
          BY <4>7, <5>1, <5>2, ConcatenatedOnce
      <4> DEFINE both == s \o t
      <4>9. flat[n] = both
        BY <4>3
      <4>10. /\ both \in Seq(Segment)
             /\ \A k \in DOMAIN both : (\E l \in DOMAIN s : both[k] = s[l])
                                       \/ (\E l \in DOMAIN t : both[k] = t[l])
             /\ \A l \in DOMAIN s : \E k \in DOMAIN both : both[k] = s[l]
             /\ \A l \in DOMAIN t : \E k \in DOMAIN both : both[k] = t[l]
             /\ \A k, l \in DOMAIN both : both[k] = both[l] => k = l
        BY <4>8
      <4> HIDE DEF both
      <4>11. \A k \in DOMAIN both : SegmentOf(texts, n, both[k])
        BY <4>4, <4>6, <4>10
      <4>12. ASSUME NEW x, SegmentOf(texts, n, x)
             PROVE  \E m \in DOMAIN both : both[m] = x
        BY <4>4, <4>6, <4>10, <4>12
      <4> QED
        BY <3>4, <4>9, <4>10, <4>11, <4>12
    <3> QED
      BY <3>6, <3>7
  <2>6. Right(flat[Len(texts)], Len(texts))
    BY <1>1, <1>6, <2>5
  <2> QED
    BY <2>4, <2>6 DEF segments
<1> QED
  BY <1>1, <1>5, <1>6

-----------------------------------------------------------------------------
(***************************************************************************)
(* Requests for embeddings: what is packed into them.                      *)
(***************************************************************************)
\* Whether the tokens of the first k segments can be added up, and the sums.
TokensUpto(batch, k) ==
  \E sum : sum = [n \in 0..k |-> IF n = 0 THEN 0 ELSE sum[n - 1] + batch[n].tokens]

\* Tokens can be added up.
LEMMA TokensUptoExists ==
  ASSUME NEW batch
  PROVE  \A k \in Nat : TokensUpto(batch, k)
<1> DEFINE bad == {k \in Nat : ~TokensUpto(batch, k)}
<1>1. SUFFICES ASSUME bad # {}
               PROVE  FALSE
  OBVIOUS
<1>2. PICK k \in bad : \A j \in bad : ~ (j < k)
  BY <1>1, LeastNumber
<1>3. CASE k = 0
  <2> DEFINE sum == [n \in 0..0 |-> 0]
  <2>1. sum = [n \in 0..0 |-> IF n = 0 THEN 0 ELSE sum[n - 1] + batch[n].tokens]
    OBVIOUS
  <2> HIDE DEF sum
  <2>2. TokensUpto(batch, 0)
    BY <2>1 DEF TokensUpto
  <2> QED
    BY <1>2, <1>3, <2>2
<1>4. CASE k # 0
  <2>1. k \in Nat /\ k - 1 \in Nat /\ k - 1 < k
    BY <1>2, <1>4
  <2>2. TokensUpto(batch, k - 1)
    BY <1>2, <2>1
  <2>3. PICK sum : sum = [n \in 0..(k - 1) |->
                     IF n = 0 THEN 0 ELSE sum[n - 1] + batch[n].tokens]
    BY <2>2 DEF TokensUpto
  <2> DEFINE more == [n \in 0..k |-> IF n < k THEN sum[n] ELSE sum[k - 1] + batch[k].tokens]
  <2>4. ASSUME NEW n \in 0..k
        PROVE  more[n] = IF n = 0 THEN 0 ELSE more[n - 1] + batch[n].tokens
    <3>1. CASE n = k
      BY <1>4, <2>1, <3>1
    <3>2. CASE n < k /\ n # 0
      BY <2>1, <2>3, <3>2
    <3>3. CASE n < k /\ n = 0
      BY <2>1, <2>3, <3>3
    <3> QED
      BY <2>1, <3>1, <3>2, <3>3
  <2>5. more = [n \in 0..k |-> more[n]]
    OBVIOUS
  <2> HIDE DEF more
  <2>6. more = [n \in 0..k |-> IF n = 0 THEN 0 ELSE more[n - 1] + batch[n].tokens]
    BY <2>4, <2>5
  <2>7. TokensUpto(batch, k)
    BY <2>6 DEF TokensUpto
  <2> QED
    BY <1>2, <2>7
<1> QED
  BY <1>3, <1>4

\* The tokens of a batch are added up one segment after the other.
LEMMA TokensUnfold ==
  ASSUME NEW batch \in Seq(Segment)
  PROVE  \E sum : /\ sum = [n \in 0..Len(batch) |->
                       IF n = 0 THEN 0 ELSE sum[n - 1] + batch[n].tokens]
                  /\ TokensIn(batch) = sum[Len(batch)]
<1> DEFINE added == CHOOSE sum : sum = [n \in 0..Len(batch) |->
                      IF n = 0 THEN 0 ELSE sum[n - 1] + batch[n].tokens]
<1>1. TokensIn(batch) = added[Len(batch)]
  BY DEF TokensIn
<1>2. TokensUpto(batch, Len(batch))
  BY TokensUptoExists
<1>3. \E sum : sum = [n \in 0..Len(batch) |->
        IF n = 0 THEN 0 ELSE sum[n - 1] + batch[n].tokens]
  BY <1>2 DEF TokensUpto
<1>4. added = [n \in 0..Len(batch) |->
                 IF n = 0 THEN 0 ELSE added[n - 1] + batch[n].tokens]
  BY <1>3
<1> HIDE DEF added
<1> QED
  BY <1>1, <1>4

\* A segment more adds its tokens.
LEMMA TokensGrow ==
  /\ TokensIn(<<>>) = 0
  /\ \A batch \in Seq(Segment), s \in Segment :
       TokensIn(Append(batch, s)) = TokensIn(batch) + s.tokens
<1>1. TokensIn(<<>>) = 0
  <2>1. <<>> \in Seq(Segment) /\ Len(<<>>) = 0
    OBVIOUS
  <2>2. PICK sum : /\ sum = [n \in 0..Len(<<>>) |->
                       IF n = 0 THEN 0 ELSE sum[n - 1] + (<<>>)[n].tokens]
                   /\ TokensIn(<<>>) = sum[Len(<<>>)]
    BY <2>1, TokensUnfold
  <2>3. sum[0] = 0
    BY <2>1, <2>2
  <2> QED
    BY <2>1, <2>2, <2>3
<1>2. ASSUME NEW batch \in Seq(Segment), NEW s \in Segment
      PROVE  TokensIn(Append(batch, s)) = TokensIn(batch) + s.tokens
  <2> DEFINE more == Append(batch, s)
  <2>1. /\ Len(batch) \in Nat /\ more \in Seq(Segment) /\ Len(more) = Len(batch) + 1
        /\ \A n \in 1..Len(batch) : more[n] = batch[n]
        /\ more[Len(batch) + 1] = s
    OBVIOUS
  <2> HIDE DEF more
  <2>2. PICK sum : /\ sum = [n \in 0..Len(batch) |->
                       IF n = 0 THEN 0 ELSE sum[n - 1] + batch[n].tokens]
                   /\ TokensIn(batch) = sum[Len(batch)]
    BY TokensUnfold
  <2>3. PICK added : /\ added = [n \in 0..Len(more) |->
                         IF n = 0 THEN 0 ELSE added[n - 1] + more[n].tokens]
                     /\ TokensIn(more) = added[Len(more)]
    BY <2>1, TokensUnfold
  <2>4. \A n \in 0..Len(batch) : sum[n] = IF n = 0 THEN 0 ELSE sum[n - 1] + batch[n].tokens
    BY <2>2
  <2>5. \A n \in 0..Len(batch) + 1 :
          added[n] = IF n = 0 THEN 0 ELSE added[n - 1] + more[n].tokens
    BY <2>1, <2>3
  <2> DEFINE bad == {n \in 0..Len(batch) : added[n] # sum[n]}
  <2>6. bad = {}
    <3>1. SUFFICES ASSUME bad # {}
                   PROVE  FALSE
      OBVIOUS
    <3>2. bad \subseteq Nat
      BY <2>1
    <3>3. PICK n \in bad : \A j \in bad : ~ (j < n)
      BY <3>1, <3>2, LeastNumber
    <3>4. n \in 0..Len(batch) /\ added[n] # sum[n]
      BY <3>3
    <3>5. n # 0
      BY <2>1, <2>4, <2>5, <3>4
    <3>6. n - 1 \in 0..Len(batch) /\ n - 1 < n /\ n \in 1..Len(batch) /\ n \in 0..Len(batch) + 1
      BY <2>1, <3>4, <3>5
    <3>7. added[n - 1] = sum[n - 1] /\ more[n] = batch[n]
      BY <2>1, <3>3, <3>6
    <3> QED
      BY <2>4, <2>5, <3>4, <3>5, <3>6, <3>7
  <2>7. added[Len(batch)] = sum[Len(batch)]
    BY <2>1, <2>6
  <2>8. Len(batch) + 1 \in 0..Len(batch) + 1 /\ Len(batch) + 1 # 0
        /\ (Len(batch) + 1) - 1 = Len(batch)
    BY <2>1
  <2>9. added[Len(batch) + 1] = added[Len(batch)] + s.tokens
    BY <2>1, <2>5, <2>8
  <2> QED
    BY <2>1, <2>2, <2>3, <2>7, <2>9 DEF more
<1> QED
  BY <1>1, <1>2

\* The requests so far, the one being filled among them, and how they fit the provider.
Open(state) == IF state.batch = <<>> THEN state.sent ELSE Append(state.sent, state.batch)
Fits(requests) ==
  \A r \in DOMAIN requests :
    /\ requests[r] # <<>> /\ Len(requests[r]) <= BatchSize
    /\ TokensIn(requests[r]) <= BatchTokens

\* The first n segments are in the requests, each once, and nothing else is.
HoldsFirst(requests, segments, n) ==
  /\ \A r \in DOMAIN requests : \A k \in DOMAIN requests[r] :
       \E m \in 1..n : segments[m] = requests[r][k]
  /\ \A m \in 1..n : \E r \in DOMAIN requests : \E k \in DOMAIN requests[r] :
       requests[r][k] = segments[m]
  /\ \A r, q \in DOMAIN requests : \A k \in DOMAIN requests[r], l \in DOMAIN requests[q] :
       requests[r][k] = requests[q][l] => r = q /\ k = l

\* What has one place more, and what is there.
WithPlace(rs, more, r0, k0, s) ==
  /\ r0 \in DOMAIN more /\ k0 \in DOMAIN more[r0] /\ more[r0][k0] = s
  /\ \A r \in DOMAIN rs : \A k \in DOMAIN rs[r] :
       r \in DOMAIN more /\ k \in DOMAIN more[r] /\ more[r][k] = rs[r][k]
  /\ \A r \in DOMAIN more : \A k \in DOMAIN more[r] :
       (r = r0 /\ k = k0) \/ (r \in DOMAIN rs /\ k \in DOMAIN rs[r])
OthersFirst(segments, n) == \A m \in 1..n - 1 : segments[m] # segments[n]

\* A place more holds a segment more.
LEMMA OnePlaceMore ==
  ASSUME NEW segments, NEW n \in Nat \ {0}, NEW rs, NEW more, NEW r0, NEW k0,
         HoldsFirst(rs, segments, n - 1), OthersFirst(segments, n),
         WithPlace(rs, more, r0, k0, segments[n])
  PROVE  HoldsFirst(more, segments, n)
<1>0. /\ r0 \in DOMAIN more /\ k0 \in DOMAIN more[r0] /\ more[r0][k0] = segments[n]
      /\ \A r \in DOMAIN rs : \A k \in DOMAIN rs[r] :
           r \in DOMAIN more /\ k \in DOMAIN more[r] /\ more[r][k] = rs[r][k]
      /\ \A r \in DOMAIN more : \A k \in DOMAIN more[r] :
           (r = r0 /\ k = k0) \/ (r \in DOMAIN rs /\ k \in DOMAIN rs[r])
  BY DEF WithPlace
<1>1. n \in 1..n /\ 1..n = (1..n - 1) \union {n}
  OBVIOUS
<1>2. /\ \A r \in DOMAIN rs : \A k \in DOMAIN rs[r] :
           \E m \in 1..n - 1 : segments[m] = rs[r][k]
      /\ \A m \in 1..n - 1 : \E r \in DOMAIN rs : \E k \in DOMAIN rs[r] :
           rs[r][k] = segments[m]
      /\ \A r, q \in DOMAIN rs : \A k \in DOMAIN rs[r], l \in DOMAIN rs[q] :
           rs[r][k] = rs[q][l] => r = q /\ k = l
  BY DEF HoldsFirst
<1>3. \A r \in DOMAIN rs : \A k \in DOMAIN rs[r] : more[r][k] # segments[n]
  BY <1>0, <1>2 DEF OthersFirst
<1>4. \A r \in DOMAIN more : \A k \in DOMAIN more[r] :
        \E m \in 1..n : segments[m] = more[r][k]
  BY <1>0, <1>1, <1>2
<1>5. \A m \in 1..n : \E r \in DOMAIN more : \E k \in DOMAIN more[r] :
        more[r][k] = segments[m]
  BY <1>0, <1>1, <1>2
<1>6. \A r, q \in DOMAIN more : \A k \in DOMAIN more[r], l \in DOMAIN more[q] :
        more[r][k] = more[q][l] => r = q /\ k = l
  <2>1. SUFFICES ASSUME NEW r \in DOMAIN more, NEW q \in DOMAIN more,
                        NEW k \in DOMAIN more[r], NEW l \in DOMAIN more[q],
                        more[r][k] = more[q][l]
                 PROVE  r = q /\ k = l
    OBVIOUS
  <2>2. CASE r = r0 /\ k = k0
    BY <1>0, <1>3, <2>1, <2>2
  <2>3. CASE q = r0 /\ l = k0
    BY <1>0, <1>3, <2>1, <2>3
  <2>4. CASE ~ (r = r0 /\ k = k0) /\ ~ (q = r0 /\ l = k0)
    BY <1>0, <1>2, <2>1, <2>4
  <2> QED
    BY <2>2, <2>3, <2>4
<1> QED
  BY <1>4, <1>5, <1>6 DEF HoldsFirst

\* A segment may be the first of a new request.
LEMMA NewRequest ==
  ASSUME NEW segments, NEW n \in Nat \ {0}, NEW rs \in Seq(Seq(Segment)),
         segments[n] \in Segment, Fits(rs),
         HoldsFirst(rs, segments, n - 1), OthersFirst(segments, n)
  PROVE  LET more == Append(rs, <<segments[n]>>)
         IN  more \in Seq(Seq(Segment)) /\ Fits(more) /\ HoldsFirst(more, segments, n)
<1> DEFINE one  == <<segments[n]>>
           more == Append(rs, one)
<1>1. /\ one \in Seq(Segment) /\ one # <<>> /\ Len(one) = 1 /\ DOMAIN one = {1}
      /\ one[1] = segments[n] /\ one = Append(<<>>, segments[n])
  OBVIOUS
<1>2. TokensIn(one) = segments[n].tokens
  <2>1. <<>> \in Seq(Segment) /\ segments[n].tokens \in Nat
    BY PoolingAssumption DEF Segment
  <2>2. TokensIn(Append(<<>>, segments[n])) = TokensIn(<<>>) + segments[n].tokens
    BY <2>1, TokensGrow
  <2> QED
    BY <1>1, <2>1, <2>2, TokensGrow
<1>3. Len(one) <= BatchSize /\ TokensIn(one) <= BatchTokens
  <2>1. segments[n].tokens \in 1..InputTokens
    BY DEF Segment
  <2> QED
    BY <1>1, <1>2, <2>1, PoolingAssumption
<1> HIDE DEF one
<1>4. /\ more \in Seq(Seq(Segment)) /\ Len(rs) \in Nat /\ DOMAIN rs = 1..Len(rs)
      /\ DOMAIN more = 1..Len(rs) + 1
      /\ \A r \in 1..Len(rs) : more[r] = rs[r]
      /\ more[Len(rs) + 1] = one
  BY <1>1
<1> HIDE DEF more
<1>5. \A r \in 1..Len(rs) + 1 : r \in 1..Len(rs) \/ r = Len(rs) + 1
  BY <1>4
<1>6. \A r \in 1..Len(rs) : r \in 1..Len(rs) + 1
  BY <1>4
<1>7. Fits(more)
  BY <1>1, <1>3, <1>4, <1>5 DEF Fits
<1>8. HoldsFirst(more, segments, n)
  <2> DEFINE r0 == Len(rs) + 1
  <2>1. r0 \in DOMAIN more /\ 1 \in DOMAIN more[r0] /\ more[r0][1] = segments[n]
    BY <1>1, <1>4
  <2>2. \A r \in DOMAIN rs : \A k \in DOMAIN rs[r] :
          r \in DOMAIN more /\ k \in DOMAIN more[r] /\ more[r][k] = rs[r][k]
    BY <1>4, <1>6
  <2>3. \A r \in DOMAIN more : \A k \in DOMAIN more[r] :
          (r = r0 /\ k = 1) \/ (r \in DOMAIN rs /\ k \in DOMAIN rs[r])
    BY <1>1, <1>4, <1>5
  <2> HIDE DEF r0
  <2>4. WithPlace(rs, more, r0, 1, segments[n])
    BY <2>1, <2>2, <2>3 DEF WithPlace
  <2> QED
    BY <2>4, OnePlaceMore
<1> QED
  BY <1>4, <1>7, <1>8 DEF more, one

\* A segment may join the request that is being filled, if there is room for it.
LEMMA LargerRequest ==
  ASSUME NEW segments, NEW n \in Nat \ {0},
         NEW sent \in Seq(Seq(Segment)), NEW batch \in Seq(Segment),
         segments[n] \in Segment, Fits(Append(sent, batch)),
         HoldsFirst(Append(sent, batch), segments, n - 1),
         OthersFirst(segments, n),
         Len(batch) + 1 <= BatchSize, TokensIn(batch) + segments[n].tokens <= BatchTokens
  PROVE  LET more == Append(sent, Append(batch, segments[n]))
         IN  more \in Seq(Seq(Segment)) /\ Fits(more) /\ HoldsFirst(more, segments, n)
<1> DEFINE last == Append(batch, segments[n])
           rs   == Append(sent, batch)
           more == Append(sent, last)
           r0   == Len(sent) + 1
           k0   == Len(batch) + 1
<1>1. /\ last \in Seq(Segment) /\ last # <<>> /\ Len(last) = k0 /\ Len(batch) \in Nat
      /\ DOMAIN batch = 1..Len(batch) /\ DOMAIN last = 1..k0
      /\ \A k \in 1..Len(batch) : last[k] = batch[k]
      /\ last[k0] = segments[n]
  OBVIOUS
<1>2. TokensIn(last) <= BatchTokens /\ Len(last) <= BatchSize
  BY <1>1, TokensGrow
<1> HIDE DEF last
<1>3. /\ Len(sent) \in Nat /\ more \in Seq(Seq(Segment))
      /\ DOMAIN rs = 1..r0 /\ DOMAIN more = 1..r0
      /\ \A r \in 1..Len(sent) : rs[r] = sent[r] /\ more[r] = sent[r]
      /\ rs[r0] = batch /\ more[r0] = last
  BY <1>1
<1>4. \A r \in 1..r0 : r \in 1..Len(sent) \/ r = r0
  BY <1>3
<1>5. \A k \in 1..k0 : k \in 1..Len(batch) \/ k = k0
  BY <1>1
<1>6. r0 \in 1..r0 /\ k0 \in 1..k0 /\ \A k \in 1..Len(batch) : k \in 1..k0
  BY <1>1, <1>3
<1> HIDE DEF rs, more, r0, k0
<1>7. Fits(more)
  <2>1. Fits(rs)
    BY DEF rs
  <2> QED
    BY <1>1, <1>2, <1>3, <1>4, <2>1 DEF Fits
<1>8. HoldsFirst(more, segments, n)
  <2>1. HoldsFirst(rs, segments, n - 1)
    BY DEF rs
  <2>2. r0 \in DOMAIN more /\ k0 \in DOMAIN more[r0] /\ more[r0][k0] = segments[n]
    BY <1>1, <1>3, <1>6
  <2>3. \A r \in DOMAIN rs : \A k \in DOMAIN rs[r] :
          r \in DOMAIN more /\ k \in DOMAIN more[r] /\ more[r][k] = rs[r][k]
    BY <1>1, <1>3, <1>4, <1>6
  <2>4. \A r \in DOMAIN more : \A k \in DOMAIN more[r] :
          (r = r0 /\ k = k0) \/ (r \in DOMAIN rs /\ k \in DOMAIN rs[r])
    BY <1>1, <1>3, <1>4, <1>5
  <2>5. WithPlace(rs, more, r0, k0, segments[n])
    BY <2>2, <2>3, <2>4 DEF WithPlace
  <2> QED
    BY <2>1, <2>5, OnePlaceMore
<1> QED
  BY <1>3, <1>7, <1>8 DEF more, last

\* What is kept while segments are packed.
Filling(state, segments, n) ==
  /\ state = [sent |-> state.sent, batch |-> state.batch, tokens |-> state.tokens]
  /\ state.sent \in Seq(Seq(Segment)) /\ state.batch \in Seq(Segment)
  /\ state.tokens = TokensIn(state.batch) /\ state.tokens \in Nat
  /\ Open(state) \in Seq(Seq(Segment))
  /\ Fits(Open(state)) /\ HoldsFirst(Open(state), segments, n)

\* Packing a segment puts it into the requests, and keeps them fit.
LEMMA PackFills ==
  ASSUME NEW segments, NEW n \in Nat \ {0}, NEW state, Filling(state, segments, n - 1),
         segments[n] \in Segment, OthersFirst(segments, n)
  PROVE  Filling(Pack(state, segments[n]), segments, n)
<1> DEFINE s     == segments[n]
           sent  == state.sent
           batch == state.batch
           full  == \/ Len(batch) >= BatchSize
                    \/ state.tokens + s.tokens > BatchTokens
           next  == Pack(state, s)
<1>1. /\ sent \in Seq(Seq(Segment)) /\ batch \in Seq(Segment)
      /\ state.tokens = TokensIn(batch) /\ state.tokens \in Nat
      /\ Open(state) \in Seq(Seq(Segment))
      /\ Fits(Open(state)) /\ HoldsFirst(Open(state), segments, n - 1)
      /\ state = [sent |-> sent, batch |-> batch, tokens |-> state.tokens]
  BY DEF Filling
<1>2. s.tokens \in Nat /\ BatchSize \in Nat \ {0} /\ BatchTokens \in Nat
  BY PoolingAssumption DEF Segment
<1>3. /\ Append(Open(state), <<s>>) \in Seq(Seq(Segment))
      /\ Fits(Append(Open(state), <<s>>)) /\ HoldsFirst(Append(Open(state), <<s>>), segments, n)
  BY <1>1, NewRequest
<1>4. /\ Append(batch, s) \in Seq(Segment) /\ Append(batch, s) # <<>>
      /\ TokensIn(Append(batch, s)) = state.tokens + s.tokens
  <2>1. s \in Segment
    OBVIOUS
  <2>2. TokensIn(Append(batch, s)) = TokensIn(batch) + s.tokens
    BY <1>1, <2>1, TokensGrow
  <2>3. Append(batch, s) \in Seq(Segment) /\ Append(batch, s) # <<>>
    <3>1. \A b \in Seq(Segment), x \in Segment :
            Append(b, x) \in Seq(Segment) /\ Len(Append(b, x)) # 0
      OBVIOUS
    <3>2. Append(batch, s) \in Seq(Segment) /\ Len(Append(batch, s)) # 0
      BY <1>1, <2>1, <3>1
    <3>3. Len(<<>>) = 0
      OBVIOUS
    <3> QED
      BY <3>2, <3>3
  <2> QED
    BY <1>1, <2>2, <2>3
<1>5. /\ <<s>> \in Seq(Segment) /\ <<s>> # <<>> /\ <<s>> = Append(<<>>, s)
      /\ <<>> \in Seq(Segment)
  OBVIOUS
<1>6. TokensIn(<<s>>) = s.tokens
  <2>1. TokensIn(Append(<<>>, s)) = TokensIn(<<>>) + s.tokens
    BY <1>5, TokensGrow
  <2> QED
    BY <1>2, <1>5, <2>1, TokensGrow
<1>7. CASE batch # <<>> /\ full
  <2>1. next = [sent |-> Append(sent, batch), batch |-> <<s>>, tokens |-> s.tokens]
    BY <1>7 DEF Pack
  <2>2. Open(state) = Append(sent, batch)
    BY <1>7 DEF Open
  <2>3. Open(next) = Append(Open(state), <<s>>)
    BY <1>5, <2>1, <2>2 DEF Open
  <2>4. next.sent \in Seq(Seq(Segment))
    BY <1>1, <2>1, <2>2
  <2> DEFINE one == <<s>>
  <2>5. /\ next.sent \in Seq(Seq(Segment)) /\ next.batch = one /\ next.tokens = s.tokens
        /\ next = [sent |-> next.sent, batch |-> next.batch, tokens |-> next.tokens]
    BY <2>1, <2>4
  <2>6. one \in Seq(Segment) /\ TokensIn(one) = s.tokens
    BY <1>5, <1>6
  <2>7. /\ Open(next) \in Seq(Seq(Segment)) /\ Fits(Open(next))
        /\ HoldsFirst(Open(next), segments, n)
    BY <1>3, <2>3
  <2> HIDE DEF next, s, one
  <2>8. Filling(next, segments, n)
    BY <1>2, <2>5, <2>6, <2>7 DEF Filling
  <2> QED
    BY <2>8 DEF next, s
<1>8. CASE ~ (batch # <<>> /\ full)
  <2>1. next = [sent |-> sent, batch |-> Append(batch, s), tokens |-> state.tokens + s.tokens]
    <3>1. next = [state EXCEPT !.batch = Append(@, s), !.tokens = @ + s.tokens]
      BY <1>8 DEF Pack
    <3> HIDE DEF next, s
    <3> QED
      BY <1>1, <3>1
  <2>2. Open(next) = Append(sent, Append(batch, s))
    BY <1>4, <2>1 DEF Open
  <2>3. /\ Open(next) \in Seq(Seq(Segment)) /\ Fits(Open(next))
        /\ HoldsFirst(Open(next), segments, n)
    <3>1. CASE batch = <<>>
      <4>1. Open(state) = sent /\ Append(batch, s) = <<s>>
        BY <1>5, <3>1 DEF Open
      <4> QED
        BY <1>3, <2>2, <4>1
    <3>2. CASE batch # <<>>
      <4>1. Open(state) = Append(sent, batch)
        BY <3>2 DEF Open
      <4>2. Len(batch) + 1 <= BatchSize /\ TokensIn(batch) + s.tokens <= BatchTokens
        <5>1. Len(batch) \in Nat
          BY <1>1
        <5> QED
          BY <1>1, <1>2, <1>8, <3>2, <5>1
      <4> QED
        BY <1>1, <2>2, <4>1, <4>2, LargerRequest
    <3> QED
      BY <3>1, <3>2
  <2>4. state.tokens + s.tokens \in Nat
    BY <1>1, <1>2
  <2> HIDE DEF next, s
  <2> QED
    BY <1>1, <1>4, <2>1, <2>3, <2>4 DEF Filling, next, s
<1> QED
  BY <1>7, <1>8

\* Whether the first k segments can be packed one after the other.
Unfilled == [sent |-> <<>>, batch |-> <<>>, tokens |-> 0]
FilledUpto(segments, k) ==
  \E filled : filled = [n \in 0..k |->
                IF n = 0 THEN Unfilled ELSE Pack(filled[n - 1], segments[n])]

\* Segments can be packed one after the other.
LEMMA FilledExists ==
  ASSUME NEW segments
  PROVE  \A k \in Nat : FilledUpto(segments, k)
<1> DEFINE bad == {k \in Nat : ~FilledUpto(segments, k)}
<1>1. SUFFICES ASSUME bad # {}
               PROVE  FALSE
  OBVIOUS
<1>2. PICK k \in bad : \A j \in bad : ~ (j < k)
  BY <1>1, LeastNumber
<1>3. CASE k = 0
  <2> DEFINE filled == [n \in 0..0 |-> Unfilled]
  <2>1. filled = [n \in 0..0 |-> IF n = 0 THEN Unfilled ELSE Pack(filled[n - 1], segments[n])]
    OBVIOUS
  <2> HIDE DEF filled
  <2>2. FilledUpto(segments, 0)
    BY <2>1 DEF FilledUpto
  <2> QED
    BY <1>2, <1>3, <2>2
<1>4. CASE k # 0
  <2>1. k \in Nat /\ k - 1 \in Nat /\ k - 1 < k
    BY <1>2, <1>4
  <2>2. FilledUpto(segments, k - 1)
    BY <1>2, <2>1
  <2>3. PICK filled : filled = [n \in 0..(k - 1) |->
                        IF n = 0 THEN Unfilled ELSE Pack(filled[n - 1], segments[n])]
    BY <2>2 DEF FilledUpto
  <2> DEFINE more == [n \in 0..k |-> IF n < k THEN filled[n]
                                     ELSE Pack(filled[k - 1], segments[k])]
  <2>4. ASSUME NEW n \in 0..k
        PROVE  more[n] = IF n = 0 THEN Unfilled ELSE Pack(more[n - 1], segments[n])
    <3>1. CASE n = k
      BY <1>4, <2>1, <3>1
    <3>2. CASE n < k /\ n # 0
      BY <2>1, <2>3, <3>2
    <3>3. CASE n < k /\ n = 0
      BY <2>1, <2>3, <3>3
    <3> QED
      BY <2>1, <3>1, <3>2, <3>3
  <2>5. more = [n \in 0..k |-> more[n]]
    OBVIOUS
  <2> HIDE DEF more
  <2>6. more = [n \in 0..k |-> IF n = 0 THEN Unfilled ELSE Pack(more[n - 1], segments[n])]
    BY <2>4, <2>5
  <2>7. FilledUpto(segments, k)
    BY <2>6 DEF FilledUpto
  <2> QED
    BY <1>2, <2>7
<1> QED
  BY <1>3, <1>4

\* The requests hold the segments of the texts, each once, and fit the provider.
LEMMA RequestsHoldSegments ==
  ASSUME NEW texts \in Seq(Nat)
  PROVE  LET segments == Segments(texts)
             requests == Requests(texts)
         IN  /\ requests \in Seq(Seq(Segment)) /\ Fits(requests)
             /\ HoldsFirst(requests, segments, Len(segments))
<1> DEFINE segments == Segments(texts)
           requests == Requests(texts)
           filled   == CHOOSE filled : filled = [n \in 0..Len(segments) |->
                         IF n = 0 THEN [sent |-> <<>>, batch |-> <<>>, tokens |-> 0]
                         ELSE Pack(filled[n - 1], segments[n])]
<1>1. requests = Open(filled[Len(segments)])
  BY DEF Requests, Open
<1>2. /\ segments \in Seq(Segment)
      /\ \A m, n \in DOMAIN segments : segments[m] = segments[n] => m = n
  BY SegmentsOfTexts
<1> HIDE DEF segments
<1>3. Len(segments) \in Nat /\ DOMAIN segments = 1..Len(segments)
  BY <1>2
<1>4. \E done : done = [n \in 0..Len(segments) |->
                  IF n = 0 THEN [sent |-> <<>>, batch |-> <<>>, tokens |-> 0]
                  ELSE Pack(done[n - 1], segments[n])]
  BY <1>3, FilledExists DEF FilledUpto, Unfilled
<1>5. filled = [n \in 0..Len(segments) |->
                  IF n = 0 THEN [sent |-> <<>>, batch |-> <<>>, tokens |-> 0]
                  ELSE Pack(filled[n - 1], segments[n])]
  BY <1>4
<1> HIDE DEF filled, requests
<1>6. \A n \in 0..Len(segments) :
        filled[n] = IF n = 0 THEN Unfilled ELSE Pack(filled[n - 1], segments[n])
  BY <1>5 DEF Unfilled
<1> DEFINE bad == {n \in 0..Len(segments) : ~Filling(filled[n], segments, n)}
<1>7. bad = {}
  <2>1. SUFFICES ASSUME bad # {}
                 PROVE  FALSE
    OBVIOUS
  <2>2. bad \subseteq Nat
    BY <1>3
  <2>3. PICK n \in bad : \A j \in bad : ~ (j < n)
    BY <2>1, <2>2, LeastNumber
  <2>4. n \in 0..Len(segments) /\ ~Filling(filled[n], segments, n)
    BY <2>3
  <2>5. CASE n = 0
    <3>1. filled[0] = Unfilled /\ Open(Unfilled) = <<>>
      BY <1>3, <1>6 DEF Open, Unfilled
    <3>2. <<>> \in Seq(Segment) /\ <<>> \in Seq(Seq(Segment)) /\ DOMAIN <<>> = {} /\ 1..0 = {}
      OBVIOUS
    <3>3. Fits(<<>>) /\ HoldsFirst(<<>>, segments, 0)
      BY <3>2 DEF Fits, HoldsFirst
    <3>4. TokensIn(<<>>) = 0
      BY TokensGrow
    <3>5. Filling(Unfilled, segments, 0)
      <4>1. /\ Unfilled.sent = <<>> /\ Unfilled.batch = <<>> /\ Unfilled.tokens = 0
            /\ Unfilled = [sent |-> Unfilled.sent, batch |-> Unfilled.batch,
                           tokens |-> Unfilled.tokens]
        BY DEF Unfilled
      <4> QED
        BY <3>1, <3>2, <3>3, <3>4, <4>1 DEF Filling
    <3> QED
      BY <2>4, <2>5, <3>1, <3>5
  <2>6. CASE n # 0
    <3>1. /\ n \in Nat \ {0} /\ n - 1 \in 0..Len(segments) /\ n - 1 < n
          /\ n \in 1..Len(segments)
      BY <1>3, <2>4, <2>6
    <3>2. Filling(filled[n - 1], segments, n - 1)
      BY <2>3, <3>1
    <3>3. segments[n] \in Segment
      BY <1>2, <3>1
    <3>4. OthersFirst(segments, n)
      <4>1. \A m \in 1..n - 1 : m \in 1..Len(segments) /\ m # n
        BY <1>3, <3>1
      <4> QED
        BY <1>2, <1>3, <3>1, <4>1 DEF OthersFirst
    <3>5. Filling(Pack(filled[n - 1], segments[n]), segments, n)
      BY <3>1, <3>2, <3>3, <3>4, PackFills
    <3> QED
      BY <1>6, <2>4, <2>6, <3>5
  <2> QED
    BY <2>5, <2>6
<1>8. Filling(filled[Len(segments)], segments, Len(segments))
  BY <1>3, <1>7
<1> QED
  BY <1>1, <1>8 DEF Filling, segments, requests

\* What EveryTokenIsPooledOnce says of the requests of some texts.
LEMMA TokensArePooledOnce ==
  ASSUME NEW texts \in Seq(Nat)
  PROVE  LET requests == Requests(texts)
             held(p)  == requests[p[1]][p[2]].from + 1
                           ..requests[p[1]][p[2]].from + requests[p[1]][p[2]].tokens
         IN  /\ \A r \in DOMAIN requests :
                  /\ requests[r] # <<>> /\ Len(requests[r]) <= BatchSize
                  /\ TokensIn(requests[r]) <= BatchTokens
                  /\ \A k \in DOMAIN requests[r] : requests[r][k].tokens \in 1..InputTokens
             /\ \A i \in DOMAIN texts :
                  /\ \A t \in 1..TokensOf(texts[i]) : \E p \in PooledFrom(requests, i) :
                       {q \in PooledFrom(requests, i) : t \in held(q)} = {p}
                  /\ \A p \in PooledFrom(requests, i) : held(p) \subseteq 1..TokensOf(texts[i])
<1> DEFINE segments == Segments(texts)
           requests == Requests(texts)
           at(p)    == requests[p[1]][p[2]]
           held(p)  == at(p).from + 1..at(p).from + at(p).tokens
<1>1. /\ requests \in Seq(Seq(Segment)) /\ Fits(requests)
      /\ HoldsFirst(requests, segments, Len(segments))
  BY RequestsHoldSegments
<1>2. /\ segments \in Seq(Segment)
      /\ \A m \in DOMAIN segments : SegmentOf(texts, Len(texts), segments[m])
      /\ \A x : SegmentOf(texts, Len(texts), x) => \E m \in DOMAIN segments : segments[m] = x
  BY SegmentsOfTexts
<1>3. DOMAIN texts = 1..Len(texts) /\ \A i \in DOMAIN texts : i \in Nat /\ texts[i] \in Nat
  OBVIOUS
<1> HIDE DEF segments, requests
<1>4. DOMAIN segments = 1..Len(segments)
  BY <1>2
<1>5. \A r \in DOMAIN requests : \A k \in DOMAIN requests[r] :
        /\ requests[r][k] \in Segment
        /\ SegmentOf(texts, Len(texts), requests[r][k])
  <2>1. \A r \in DOMAIN requests : \A k \in DOMAIN requests[r] : requests[r][k] \in Segment
    BY <1>1
  <2>2. \A r \in DOMAIN requests : \A k \in DOMAIN requests[r] :
          \E m \in 1..Len(segments) : segments[m] = requests[r][k]
    BY <1>1 DEF HoldsFirst
  <2>3. SUFFICES ASSUME NEW r \in DOMAIN requests, NEW k \in DOMAIN requests[r]
                 PROVE  SegmentOf(texts, Len(texts), requests[r][k])
    BY <2>1
  <2>4. PICK m \in DOMAIN segments : segments[m] = requests[r][k]
    BY <1>4, <2>2
  <2>5. SegmentOf(texts, Len(texts), segments[m])
    BY <1>2
  <2> QED
    BY <2>4, <2>5
<1>6. \A x : SegmentOf(texts, Len(texts), x) =>
        \E r \in DOMAIN requests : \E k \in DOMAIN requests[r] : requests[r][k] = x
  BY <1>1, <1>2, <1>4 DEF HoldsFirst
<1>7. \A r \in DOMAIN requests :
        /\ requests[r] # <<>> /\ Len(requests[r]) <= BatchSize
        /\ TokensIn(requests[r]) <= BatchTokens
        /\ \A k \in DOMAIN requests[r] : requests[r][k].tokens \in 1..InputTokens
  BY <1>1, <1>5 DEF Fits, Segment
\* The segments in the requests, by text.
<1>8. ASSUME NEW i \in DOMAIN texts, NEW p \in PooledFrom(requests, i)
      PROVE  /\ p[1] \in DOMAIN requests /\ p[2] \in DOMAIN requests[p[1]]
             /\ p = <<p[1], p[2]>>
             /\ at(p) \in Segment
             /\ \E k \in DOMAIN SegmentsOf(i, texts[i]) : at(p) = SegmentsOf(i, texts[i])[k]
  <2>1. /\ p[1] \in DOMAIN requests /\ p[2] \in DOMAIN requests[p[1]] /\ at(p).owner = i
        /\ p = <<p[1], p[2]>>
    BY DEF PooledFrom
  <2>2. at(p) \in Segment /\ SegmentOf(texts, Len(texts), at(p))
    BY <1>5, <2>1
  <2>3. PICK j \in 1..Len(texts) : \E k \in DOMAIN SegmentsOf(j, texts[j]) :
                                     at(p) = SegmentsOf(j, texts[j])[k]
    BY <2>2 DEF SegmentOf
  <2>4. \A k \in DOMAIN SegmentsOf(j, texts[j]) : SegmentsOf(j, texts[j])[k].owner = j
    BY <1>3, SegmentsOfText
  <2>5. j = i
    BY <2>1, <2>3, <2>4
  <2> QED
    BY <2>1, <2>2, <2>3, <2>5
<1>9. \A s \in Segment : s.from \in Nat /\ s.tokens \in Nat
  BY PoolingAssumption DEF Segment
<1>10. ASSUME NEW i \in DOMAIN texts, NEW t \in 1..TokensOf(texts[i])
      PROVE  \E p \in PooledFrom(requests, i) :
               {q \in PooledFrom(requests, i) : t \in held(q)} = {p}
  <2> DEFINE own == SegmentsOf(i, texts[i])
  <2>1. /\ \A k \in DOMAIN own : own[k].owner = i
        /\ \E k \in DOMAIN own : Holds(own[k], t)
        /\ \A k, l \in DOMAIN own : Holds(own[k], t) /\ Holds(own[l], t) => k = l
    BY <1>3, SegmentsOfText
  <2>2. PICK k \in DOMAIN own : Holds(own[k], t)
    BY <2>1
  <2>3. SegmentOf(texts, Len(texts), own[k])
    BY <1>3 DEF SegmentOf
  <2>4. PICK r \in DOMAIN requests : \E l \in DOMAIN requests[r] : requests[r][l] = own[k]
    BY <1>6, <2>3
  <2>5. PICK l \in DOMAIN requests[r] : requests[r][l] = own[k]
    BY <2>4
  <2> DEFINE p == <<r, l>>
  <2>6. p \in PooledFrom(requests, i) /\ at(p) = own[k]
    BY <2>1, <2>5 DEF PooledFrom
  <2>7. t \in Nat /\ \A q \in PooledFrom(requests, i) : t \in held(q) <=> Holds(at(q), t)
    <3>1. t \in Nat
      BY <1>3 DEF TokensOf
    <3>2. SUFFICES ASSUME NEW q \in PooledFrom(requests, i)
                   PROVE  t \in held(q) <=> Holds(at(q), t)
      BY <3>1
    <3>3. at(q) \in Segment
      BY <1>8
    <3>4. at(q).from \in Nat /\ at(q).tokens \in Nat
      BY <1>9, <3>3
    <3> HIDE DEF at
    <3> QED
      BY <3>1, <3>4 DEF Holds
  <2>8. ASSUME NEW q \in PooledFrom(requests, i), t \in held(q)
        PROVE  q = p
    <3>1. Holds(at(q), t)
      BY <2>7, <2>8
    <3>2. PICK m \in DOMAIN own : at(q) = own[m]
      BY <1>8
    <3>3. m = k
      BY <2>1, <2>2, <3>1, <3>2
    <3>4. requests[q[1]][q[2]] = requests[r][l]
      BY <2>5, <3>2, <3>3
    <3>5. q[1] = r /\ q[2] = l
      BY <1>1, <1>8, <3>4 DEF HoldsFirst
    <3> QED
      BY <1>8, <3>5
  <2>9. t \in held(p)
    BY <2>2, <2>6, <2>7
  <2> HIDE DEF p, held
  <2> QED
    BY <2>6, <2>8, <2>9
<1>11. ASSUME NEW i \in DOMAIN texts, NEW p \in PooledFrom(requests, i)
       PROVE  held(p) \subseteq 1..TokensOf(texts[i])
  <2>1. PICK k \in DOMAIN SegmentsOf(i, texts[i]) : at(p) = SegmentsOf(i, texts[i])[k]
    BY <1>8
  <2>2. at(p).from + at(p).tokens <= TokensOf(texts[i])
    BY <1>3, <2>1, SegmentsOfText
  <2>3. at(p) \in Segment
    BY <1>8
  <2>4. at(p).from \in Nat /\ at(p).tokens \in Nat /\ TokensOf(texts[i]) \in Nat
    BY <1>3, <1>9, <2>3 DEF TokensOf
  <2> HIDE DEF at
  <2> QED
    BY <2>2, <2>4
<1> QED
  BY <1>7, <1>10, <1>11 DEF requests

-----------------------------------------------------------------------------
(***************************************************************************)
(* Patches, read line by line: in a hunk the numbers of the next lines are *)
(* known, so every line read is one that was due.                          *)
(***************************************************************************)
\* Whether the first k lines of a patch can be read one after the other.
PatchUpto(start, patch, k) ==
  \E read : read = [i \in 0..k |-> IF i = 0 THEN start ELSE Read(read[i - 1], patch[i])]

\* The lines of a patch can be read one after the other.
LEMMA PatchCanBeRead ==
  ASSUME NEW start, NEW patch
  PROVE  \A k \in Nat : PatchUpto(start, patch, k)
<1> DEFINE bad == {k \in Nat : ~PatchUpto(start, patch, k)}
<1>1. SUFFICES ASSUME bad # {}
               PROVE  FALSE
  OBVIOUS
<1>2. PICK k \in bad : \A j \in bad : ~ (j < k)
  BY <1>1, LeastNumber
<1>3. CASE k = 0
  <2> DEFINE read == [i \in 0..0 |-> start]
  <2>1. read = [i \in 0..0 |-> IF i = 0 THEN start ELSE Read(read[i - 1], patch[i])]
    OBVIOUS
  <2> HIDE DEF read
  <2>2. PatchUpto(start, patch, 0)
    BY <2>1 DEF PatchUpto
  <2> QED
    BY <1>2, <1>3, <2>2
<1>4. CASE k # 0
  <2>1. k \in Nat /\ k - 1 \in Nat /\ k - 1 < k
    BY <1>2, <1>4
  <2>2. PatchUpto(start, patch, k - 1)
    BY <1>2, <2>1
  <2>3. PICK read : read = [i \in 0..(k - 1) |->
                      IF i = 0 THEN start ELSE Read(read[i - 1], patch[i])]
    BY <2>2 DEF PatchUpto
  <2> DEFINE more == [i \in 0..k |-> IF i < k THEN read[i] ELSE Read(read[k - 1], patch[k])]
  <2>4. ASSUME NEW i \in 0..k
        PROVE  more[i] = IF i = 0 THEN start ELSE Read(more[i - 1], patch[i])
    <3>1. CASE i = k
      BY <1>4, <2>1, <3>1
    <3>2. CASE i < k /\ i # 0
      BY <2>1, <2>3, <3>2
    <3>3. CASE i < k /\ i = 0
      BY <2>1, <2>3, <3>3
    <3> QED
      BY <2>1, <3>1, <3>2, <3>3
  <2>5. more = [i \in 0..k |-> more[i]]
    OBVIOUS
  <2> HIDE DEF more
  <2>6. more = [i \in 0..k |-> IF i = 0 THEN start ELSE Read(more[i - 1], patch[i])]
    BY <2>4, <2>5
  <2>7. PatchUpto(start, patch, k)
    BY <2>6 DEF PatchUpto
  <2> QED
    BY <1>2, <2>7
<1> QED
  BY <1>3, <1>4

\* Reading line by line.
ReadBy(read, start, patch) ==
  /\ read[0] = start
  /\ \A i \in 1..Len(patch) : read[i] = Read(read[i - 1], patch[i])

\* ReadAll reads line by line.
LEMMA ReadAllUnfolds ==
  ASSUME NEW S, NEW patch \in Seq(S), NEW start
  PROVE  \E read : ReadBy(read, start, patch) /\ ReadAll(start, patch) = read[Len(patch)]
<1> DEFINE read == CHOOSE read : read = [i \in 0..Len(patch) |->
                     IF i = 0 THEN start ELSE Read(read[i - 1], patch[i])]
<1>1. ReadAll(start, patch) = read[Len(patch)]
  BY DEF ReadAll
<1>2. Len(patch) \in Nat
  OBVIOUS
<1>3. \E r : r = [i \in 0..Len(patch) |-> IF i = 0 THEN start ELSE Read(r[i - 1], patch[i])]
  <2>1. PatchUpto(start, patch, Len(patch))
    BY <1>2, PatchCanBeRead
  <2> QED
    BY <2>1 DEF PatchUpto
<1>4. read = [i \in 0..Len(patch) |-> IF i = 0 THEN start ELSE Read(read[i - 1], patch[i])]
  BY <1>3
<1> HIDE DEF read
<1>5. ReadBy(read, start, patch)
  <2>1. read[0] = start
    BY <1>2, <1>4
  <2>2. ASSUME NEW i \in 1..Len(patch)
        PROVE  read[i] = Read(read[i - 1], patch[i])
    <3>1. i \in 0..Len(patch) /\ i # 0
      BY <1>2
    <3> QED
      BY <1>4, <3>1
  <2> QED
    BY <2>1, <2>2 DEF ReadBy
<1> QED
  BY <1>1, <1>5

\* Reading can go wrong in one way only.
LEMMA ReadingIsDetermined ==
  ASSUME NEW S, NEW patch \in Seq(S), NEW start, NEW read, ReadBy(read, start, patch)
  PROVE  ReadAll(start, patch) = read[Len(patch)]
<1>1. PICK other : ReadBy(other, start, patch) /\ ReadAll(start, patch) = other[Len(patch)]
  BY ReadAllUnfolds
<1>2. Len(patch) \in Nat
  OBVIOUS
<1> DEFINE bad == {i \in 0..Len(patch) : read[i] # other[i]}
<1>3. bad = {}
  <2>1. SUFFICES ASSUME bad # {}
                 PROVE  FALSE
    OBVIOUS
  <2>2. bad \subseteq Nat
    BY <1>2
  <2>3. PICK i \in bad : \A j \in bad : ~ (j < i)
    BY <2>1, <2>2, LeastNumber
  <2>4. i # 0
    BY <1>1, <2>3 DEF ReadBy
  <2>5. i \in 1..Len(patch) /\ i - 1 \in 0..Len(patch) /\ i - 1 < i /\ i - 1 \notin bad
    BY <1>2, <2>3, <2>4
  <2>6. read[i - 1] = other[i - 1]
    BY <2>5
  <2> QED
    BY <1>1, <2>3, <2>5, <2>6 DEF ReadBy
<1> QED
  BY <1>1, <1>2, <1>3

\* A patch is read part by part.
LEMMA ReadInParts ==
  ASSUME NEW S, NEW p \in Seq(S), NEW q \in Seq(S), NEW start
  PROVE  ReadAll(start, p \o q) = ReadAll(ReadAll(start, p), q)
<1> DEFINE middle == ReadAll(start, p)
<1>1. PICK first : ReadBy(first, start, p) /\ middle = first[Len(p)]
  BY ReadAllUnfolds
<1>2. PICK second : ReadBy(second, middle, q) /\ ReadAll(middle, q) = second[Len(q)]
  BY ReadAllUnfolds
<1>3. /\ Len(p) \in Nat /\ Len(q) \in Nat
      /\ p \o q \in Seq(S) /\ Len(p \o q) = Len(p) + Len(q)
      /\ \A i \in 1..Len(p) + Len(q) : (p \o q)[i] = IF i <= Len(p) THEN p[i] ELSE q[i - Len(p)]
  OBVIOUS
<1> DEFINE read == [i \in 0..Len(p) + Len(q) |->
                      IF i <= Len(p) THEN first[i] ELSE second[i - Len(p)]]
<1>4. ReadBy(read, start, p \o q)
  <2>1. read[0] = start
    BY <1>1, <1>3 DEF ReadBy
  <2>2. ASSUME NEW i \in 1..Len(p) + Len(q)
        PROVE  read[i] = Read(read[i - 1], (p \o q)[i])
    <3>1. CASE i <= Len(p)
      <4>1. i \in 1..Len(p) /\ i - 1 <= Len(p) /\ i - 1 \in 0..Len(p) + Len(q)
        BY <1>3, <3>1
      <4>2. read[i] = first[i] /\ read[i - 1] = first[i - 1] /\ (p \o q)[i] = p[i]
        BY <1>3, <3>1, <4>1
      <4> QED
        BY <1>1, <4>1, <4>2 DEF ReadBy
    <3>2. CASE i = Len(p) + 1
      <4>1. 1 \in 1..Len(q) /\ 1 - 1 = 0 /\ i - Len(p) = 1 /\ i - 1 = Len(p) /\ ~ i <= Len(p)
        BY <1>3, <3>2
      <4>2. read[i] = second[1] /\ read[i - 1] = first[Len(p)] /\ (p \o q)[i] = q[1]
        BY <1>3, <4>1
      <4> QED
        BY <1>1, <1>2, <4>1, <4>2 DEF ReadBy
    <3>3. CASE i > Len(p) + 1
      <4> DEFINE j == i - Len(p)
      <4>1. /\ j \in 1..Len(q) /\ ~ i <= Len(p) /\ ~ i - 1 <= Len(p) /\ i - 1 - Len(p) = j - 1
            /\ i - 1 \in 0..Len(p) + Len(q)
        BY <1>3, <3>3
      <4>2. read[i] = second[j] /\ read[i - 1] = second[j - 1] /\ (p \o q)[i] = q[j]
        BY <1>3, <4>1
      <4> QED
        BY <1>2, <4>1, <4>2 DEF ReadBy
    <3> QED
      BY <1>3, <3>1, <3>2, <3>3
  <2> HIDE DEF read
  <2> QED
    BY <1>3, <2>1, <2>2 DEF ReadBy
<1>5. read[Len(p) + Len(q)] = ReadAll(middle, q)
  <2>1. CASE Len(q) = 0
    <3>1. read[Len(p) + Len(q)] = first[Len(p)]
      BY <1>3, <2>1
    <3> QED
      BY <1>1, <1>2, <2>1, <3>1 DEF ReadBy
  <2>2. CASE Len(q) # 0
    BY <1>2, <1>3, <2>2
  <2> QED
    BY <2>1, <2>2
<1> HIDE DEF read
<1> QED
  BY <1>3, <1>4, <1>5, ReadingIsDetermined

\* Reading no line, and reading one.
LEMMA ReadNoneOrOne ==
  ASSUME NEW start
  PROVE  ReadAll(start, <<>>) = start /\ \A raw : ReadAll(start, <<raw>>) = Read(start, raw)
<1>1. ReadAll(start, <<>>) = start
  <2>1. <<>> \in Seq({}) /\ Len(<<>>) = 0
    OBVIOUS
  <2>2. PICK read : ReadBy(read, start, <<>>) /\ ReadAll(start, <<>>) = read[Len(<<>>)]
    BY <2>1, ReadAllUnfolds
  <2> QED
    BY <2>1, <2>2 DEF ReadBy
<1>2. ASSUME NEW raw
      PROVE  ReadAll(start, <<raw>>) = Read(start, raw)
  <2>1. <<raw>> \in Seq({raw}) /\ Len(<<raw>>) = 1 /\ <<raw>>[1] = raw
    OBVIOUS
  <2>2. PICK read : ReadBy(read, start, <<raw>>) /\ ReadAll(start, <<raw>>) = read[Len(<<raw>>)]
    BY <2>1, ReadAllUnfolds
  <2>3. 1 \in 1..1 /\ 1 - 1 = 0
    OBVIOUS
  <2> QED
    BY <2>1, <2>2, <2>3 DEF ReadBy
<1> QED
  BY <1>1, <1>2

\* Lists of lines put one after the other are read one after the other.
LEMMA ReadFlattened ==
  ASSUME NEW S, NEW seqs \in Seq(Seq(S)), NEW start
  PROVE  \E after : /\ after[0] = start
                    /\ \A i \in 1..Len(seqs) : after[i] = ReadAll(after[i - 1], seqs[i])
                    /\ ReadAll(start, FlattenSeq(seqs)) = after[Len(seqs)]
                    /\ FlattenSeq(seqs) \in Seq(S)
<1>1. Len(seqs) \in Nat /\ DOMAIN seqs = 1..Len(seqs)
  OBVIOUS
<1>2. CASE seqs = <<>>
  <2>1. FlattenSeq(seqs) = <<>> /\ Len(seqs) = 0
    BY <1>2 DEF FlattenSeq
  <2> DEFINE after == [i \in {0} |-> start]
  <2>2. ReadAll(start, <<>>) = start /\ <<>> \in Seq(S) /\ after[0] = start
    BY ReadNoneOrOne
  <2>3. 1..Len(seqs) = {}
    BY <2>1
  <2> HIDE DEF after
  <2> QED
    BY <2>1, <2>2, <2>3
<1>3. CASE seqs # <<>>
  <2>1. PICK flat : /\ flat = [i \in 1..Len(seqs) |->
                         IF i = 1 THEN seqs[i] ELSE flat[i - 1] \o seqs[i]]
                    /\ FlattenSeq(seqs) = flat[Len(seqs)]
    BY <1>3, FlattenUnfolds
  <2>2. Len(seqs) \in 1..Len(seqs) /\ 1 \in 1..Len(seqs) /\ Len(seqs) # 0
    BY <1>1, <1>3
  <2>3. \A i \in 1..Len(seqs) : flat[i] = IF i = 1 THEN seqs[i] ELSE flat[i - 1] \o seqs[i]
    BY <2>1
  <2> DEFINE bad == {i \in 1..Len(seqs) : flat[i] \notin Seq(S)}
  <2>4. bad = {}
    <3>1. SUFFICES ASSUME bad # {}
                   PROVE  FALSE
      OBVIOUS
    <3>2. bad \subseteq Nat
      BY <1>1
    <3>3. PICK i \in bad : \A j \in bad : ~ (j < i)
      BY <3>1, <3>2, LeastNumber
    <3>4. seqs[i] \in Seq(S)
      BY <1>1, <3>3
    <3>5. i # 1
      BY <2>3, <3>3, <3>4
    <3>6. i - 1 \in 1..Len(seqs) /\ i - 1 < i /\ i - 1 \notin bad
      BY <1>1, <3>3, <3>5
    <3>7. flat[i] = flat[i - 1] \o seqs[i] /\ flat[i - 1] \in Seq(S)
      BY <2>3, <3>3, <3>5, <3>6
    <3>8. \A p, q \in Seq(S) : p \o q \in Seq(S)
      OBVIOUS
    <3>9. flat[i] \in Seq(S)
      BY <3>4, <3>7, <3>8
    <3> QED
      BY <3>3, <3>9
  <2> DEFINE after == [i \in 0..Len(seqs) |-> IF i = 0 THEN start ELSE ReadAll(start, flat[i])]
  <2>5. after[0] = start /\ after[Len(seqs)] = ReadAll(start, FlattenSeq(seqs))
    BY <1>1, <2>1, <2>2
  <2>6. ASSUME NEW i \in 1..Len(seqs)
        PROVE  after[i] = ReadAll(after[i - 1], seqs[i])
    <3>1. after[i] = ReadAll(start, flat[i]) /\ i \in Nat \ {0}
      BY <1>1
    <3>2. CASE i = 1
      BY <2>3, <2>5, <3>1, <3>2
    <3>3. CASE i # 1
      <4>1. i - 1 \in 1..Len(seqs) /\ i - 1 # 0 /\ i - 1 \in 0..Len(seqs)
        BY <1>1, <3>3
      <4>2. after[i - 1] = ReadAll(start, flat[i - 1])
        BY <4>1
      <4>3. flat[i - 1] \in Seq(S) /\ seqs[i] \in Seq(S) /\ flat[i] = flat[i - 1] \o seqs[i]
        <5>1. flat[i - 1] \in Seq(S)
          BY <2>4, <4>1
        <5>2. seqs[i] \in Seq(S)
          BY <1>1
        <5> QED
          BY <2>3, <3>3, <5>1, <5>2
      <4> HIDE DEF after
      <4> QED
        BY <3>1, <4>2, <4>3, ReadInParts
    <3> QED
      BY <3>2, <3>3
  <2>7. FlattenSeq(seqs) \in Seq(S)
    BY <2>1, <2>2, <2>4
  <2> HIDE DEF after
  <2> QED
    BY <2>5, <2>6, <2>7
<1> QED
  BY <1>2, <1>3

Sides == {"old", "new"}
Showing == [old |-> {"del", "ctx"}, new |-> {"add", "ctx"}]

\* The lines of a file that stand in a version, their numbers and texts, and those due.
On(lines, side) == {k \in DOMAIN lines : lines[k].kind \in Showing[side]}
Numbers(lines, side) == {<<lines[k][side], lines[k].text>> : k \in On(lines, side)}
Due(change, i, side) ==
  {<<Number(change.script, j, side), change.script[j].text>> :
     j \in {h \in InHunks(change, side) : h <= i}}

\* The numbers of each version rise down the lines.
Rising(lines) ==
  /\ lines \in Seq(FileLines)
  /\ \A side \in Sides :
       /\ \A k \in On(lines, side) : lines[k][side] \in Nat
       /\ \A j, k \in On(lines, side) : j < k => lines[j][side] < lines[k][side]

\* What is left of a hunk from a line of the script on.
Rest(change, i) == {j \in i..Len(change.script) : \A k \in i..j : k \notin change.outside}

\* A patch has been read down to a line of the script of a file; in a hunk, the next
\* line's numbers are known, as far as the hunk goes on in that version.
ReadOf(state, files, change, i) ==
  /\ DOMAIN state = {"files", "lines", "open", "old", "new"}
  /\ state.files = files /\ state.open = TRUE
  /\ Rising(state.lines)
  /\ \A side \in Sides : Numbers(state.lines, side) = Due(change, i, side)
InHunk(state, change, i) ==
  /\ state.lines # <<>>
  /\ \A side \in Sides :
       /\ state[side] \in Nat
       /\ \/ state[side] = Number(change.script, i, side) + 1
          \/ \A j \in Rest(change, i + 1) : change.script[j].sign = Lacking[side]

\* A line adds one to the numbers of the versions that have it.
LEMMA NumberGrows ==
  ASSUME NEW script, NEW i \in Nat \ {0}, NEW side
  PROVE  /\ Number(script, i - 1, side) \in Nat
         /\ Number(script, i, side) = IF script[i].sign = Lacking[side]
                                      THEN Number(script, i - 1, side)
                                      ELSE Number(script, i - 1, side) + 1
<1> DEFINE counted(n) == {j \in 1..n : script[j].sign # Lacking[side]}
<1>1. /\ i - 1 \in Nat /\ 1..i - 1 \subseteq 1..i /\ i \notin 1..i - 1
      /\ 1..i = (1..i - 1) \union {i}
  OBVIOUS
<1>2. IsFiniteSet(1..i - 1)
  BY <1>1, FS_Interval
<1>3. IsFiniteSet(counted(i - 1)) /\ Cardinality(counted(i - 1)) \in Nat
  BY <1>2, FS_Subset, FS_CardinalityType
<1>4. Number(script, i, side) = Cardinality(counted(i))
      /\ Number(script, i - 1, side) = Cardinality(counted(i - 1))
  BY DEF Number
<1>5. CASE script[i].sign = Lacking[side]
  <2>1. counted(i) = counted(i - 1)
    BY <1>1, <1>5
  <2> QED
    BY <1>3, <1>4, <1>5, <2>1
<1>6. CASE script[i].sign # Lacking[side]
  <2>1. counted(i) = counted(i - 1) \union {i} /\ i \notin counted(i - 1)
    BY <1>1, <1>6
  <2> HIDE DEF counted
  <2>2. Cardinality(counted(i - 1) \union {i}) = Cardinality(counted(i - 1)) + 1
    BY <1>3, <2>1, FS_AddElement
  <2> QED
    BY <1>3, <1>4, <1>6, <2>1, <2>2
<1> QED
  BY <1>5, <1>6

\* Further down the numbers are no smaller.
LEMMA NumberRises ==
  ASSUME NEW script, NEW i \in Nat, NEW j \in 0..i, NEW side
  PROVE  /\ Number(script, j, side) \in Nat /\ Number(script, i, side) \in Nat
         /\ Number(script, j, side) <= Number(script, i, side)
<1> DEFINE counted(n) == {k \in 1..n : script[k].sign # Lacking[side]}
<1>1. counted(j) \subseteq counted(i) /\ counted(i) \subseteq 1..i
  OBVIOUS
<1>2. IsFiniteSet(1..i)
  BY FS_Interval
<1>3. IsFiniteSet(counted(i))
  BY <1>1, <1>2, FS_Subset
<1> HIDE DEF counted
<1>4. IsFiniteSet(counted(j)) /\ Cardinality(counted(j)) <= Cardinality(counted(i))
  BY <1>1, <1>3, FS_Subset
<1>5. Cardinality(counted(j)) \in Nat /\ Cardinality(counted(i)) \in Nat
  BY <1>3, <1>4, FS_CardinalityType
<1> QED
  BY <1>4, <1>5 DEF Number, counted

\* What is due after a line more.
LEMMA DueGrows ==
  ASSUME NEW change \in ChangesOfFiles, NEW i \in 1..Len(change.script), NEW side \in Sides
  PROVE  /\ Due(change, i, side) =
              IF i \in InHunks(change, side)
              THEN Due(change, i - 1, side)
                     \union {<<Number(change.script, i, side), change.script[i].text>>}
              ELSE Due(change, i - 1, side)
         /\ \A p \in Due(change, i - 1, side) :
              p[1] \in Nat /\ p[1] <= Number(change.script, i - 1, side)
<1> DEFINE script == change.script
           first(n) == {h \in InHunks(change, side) : h <= n}
           pair(j) == <<Number(script, j, side), script[j].text>>
<1>1. /\ script \in Seq([sign : DOMAIN Kinds, text : Wordings])
      /\ Len(script) \in Nat /\ DOMAIN script = 1..Len(script) /\ i \in Nat \ {0} /\ i - 1 \in Nat
  <2>1. change \in [opening : Openings, script : Seq([sign : DOMAIN Kinds, text : Wordings]), outside : SUBSET Nat]
    BY DEF ChangesOfFiles
  <2>2. script \in Seq([sign : DOMAIN Kinds, text : Wordings])
    BY <2>1
  <2> QED
    BY <2>2
<1>2. \A h \in InHunks(change, side) : h \in 1..Len(script)
  BY <1>1 DEF InHunks
<1>3. \A n : Due(change, n, side) = {pair(j) : j \in first(n)}
  BY DEF Due
<1>4. first(i) = IF i \in InHunks(change, side) THEN first(i - 1) \union {i} ELSE first(i - 1)
  <2>1. \A h \in InHunks(change, side) : h <= i <=> h <= i - 1 \/ h = i
    BY <1>1, <1>2
  <2> QED
    BY <1>1, <2>1
<1>5. ASSUME NEW p \in Due(change, i - 1, side)
      PROVE  p[1] \in Nat /\ p[1] <= Number(script, i - 1, side)
  <2>1. PICK j \in first(i - 1) : p = pair(j)
    BY <1>3
  <2>2. j \in 0..i - 1
    BY <1>1, <1>2, <2>1
  <2> QED
    BY <1>1, <2>1, <2>2, NumberRises
<1> HIDE DEF first, pair
<1>6. Due(change, i, side) = IF i \in InHunks(change, side)
                             THEN Due(change, i - 1, side) \union {pair(i)}
                             ELSE Due(change, i - 1, side)
  <2>1. CASE i \in InHunks(change, side)
    <3>1. Due(change, i, side) = {pair(j) : j \in first(i - 1) \union {i}}
      BY <1>3, <1>4, <2>1
    <3>2. Due(change, i - 1, side) = {pair(j) : j \in first(i - 1)}
      BY <1>3
    <3> QED
      BY <2>1, <3>1, <3>2
  <2>2. CASE i \notin InHunks(change, side)
    <3>1. Due(change, i, side) = {pair(j) : j \in first(i - 1)}
      BY <1>3, <1>4, <2>2
    <3>2. Due(change, i - 1, side) = {pair(j) : j \in first(i - 1)}
      BY <1>3
    <3> QED
      BY <2>2, <3>1, <3>2
  <2> QED
    BY <2>1, <2>2
<1> QED
  BY <1>5, <1>6 DEF pair

\* The sides of a line.
LEMMA SidesOfLine ==
  \A kind, old, new, text :
    /\ Line(kind, old, new, text)["old"] = old /\ Line(kind, old, new, text)["new"] = new
    /\ Line(kind, old, new, text).kind = kind /\ Line(kind, old, new, text).text = text
BY DEF Line

\* A line added to those of a file.
LEMMA LineAdded ==
  ASSUME NEW lines, Rising(lines), NEW line \in FileLines, NEW side \in Sides
  PROVE  LET more == Append(lines, line)
         IN  IF line.kind \in Showing[side]
             THEN /\ On(more, side) = On(lines, side) \union {Len(lines) + 1}
                  /\ Numbers(more, side) = Numbers(lines, side) \union {<<line[side], line.text>>}
             ELSE /\ On(more, side) = On(lines, side)
                  /\ Numbers(more, side) = Numbers(lines, side)
<1> DEFINE more == Append(lines, line)
           last == Len(lines) + 1
<1>1. /\ lines \in Seq(FileLines) /\ Len(lines) \in Nat /\ DOMAIN lines = 1..Len(lines)
      /\ more \in Seq(FileLines) /\ DOMAIN more = (1..Len(lines)) \union {last}
      /\ last \notin 1..Len(lines)
      /\ more[last] = line /\ \A k \in 1..Len(lines) : more[k] = lines[k]
  BY DEF Rising
<1> HIDE DEF more, last
<1>2. CASE line.kind \in Showing[side]
  <2>1. On(more, side) = On(lines, side) \union {last}
    BY <1>1, <1>2 DEF On
  <2>2. \A k \in On(lines, side) : more[k] = lines[k]
    BY <1>1 DEF On
  <2>3. Numbers(more, side) = Numbers(lines, side) \union {<<line[side], line.text>>}
    BY <1>1, <2>1, <2>2 DEF Numbers
  <2> QED
    BY <1>2, <2>1, <2>3 DEF more, last
<1>3. CASE line.kind \notin Showing[side]
  <2>1. On(more, side) = On(lines, side)
    BY <1>1, <1>3 DEF On
  <2>2. \A k \in On(lines, side) : more[k] = lines[k]
    BY <1>1 DEF On
  <2>3. Numbers(more, side) = Numbers(lines, side)
    BY <2>1, <2>2 DEF Numbers
  <2> QED
    BY <1>3, <2>1, <2>3 DEF more
<1> QED
  BY <1>2, <1>3

\* The numbers still rise if the line's are larger than those before.
LEMMA LineAddedRises ==
  ASSUME NEW lines, Rising(lines), NEW line \in FileLines,
         \A side \in Sides : line.kind \in Showing[side] =>
           line[side] \in Nat /\ \A p \in Numbers(lines, side) : p[1] < line[side]
  PROVE  Rising(Append(lines, line))
<1> DEFINE more == Append(lines, line)
           last == Len(lines) + 1
<1>1. /\ lines \in Seq(FileLines) /\ Len(lines) \in Nat /\ DOMAIN lines = 1..Len(lines)
      /\ more \in Seq(FileLines)
      /\ more[last] = line /\ \A k \in 1..Len(lines) : more[k] = lines[k] /\ k < last
  BY DEF Rising
<1>2. ASSUME NEW side \in Sides
      PROVE  /\ \A k \in On(more, side) : more[k][side] \in Nat
             /\ \A j, k \in On(more, side) : j < k => more[j][side] < more[k][side]
  <2>1. /\ \A k \in On(lines, side) : /\ lines[k][side] \in Nat /\ k \in 1..Len(lines)
                                      /\ more[k] = lines[k]
        /\ \A j, k \in On(lines, side) : j < k => lines[j][side] < lines[k][side]
    BY <1>1 DEF Rising, On
  <2>2. CASE line.kind \in Showing[side]
    <3>1. On(more, side) = On(lines, side) \union {last}
      BY <2>2, LineAdded
    <3>2. \A j \in On(lines, side) : more[j][side] < line[side]
      <4>1. \A j \in On(lines, side) : <<lines[j][side], lines[j].text>> \in Numbers(lines, side)
        BY DEF Numbers
      <4> QED
        BY <2>1, <2>2, <4>1
    <3> HIDE DEF more, last
    <3>3. ~ last < last /\ \A k \in On(lines, side) : ~ last < k
      BY <1>1, <2>1 DEF last
    <3>4. more[last][side] = line[side] /\ line[side] \in Nat
      BY <1>1, <2>2
    <3>5. \A k \in On(lines, side) : more[k][side] = lines[k][side] /\ more[k][side] \in Nat
      BY <2>1
    <3>6. \A k \in On(more, side) : k \in On(lines, side) \/ k = last
      BY <3>1
    <3>7. ASSUME NEW j \in On(more, side), NEW k \in On(more, side), j < k
          PROVE  more[j][side] < more[k][side]
      <4>1. j \in On(lines, side)
        BY <3>3, <3>6, <3>7
      <4>2. CASE k \in On(lines, side)
        BY <2>1, <3>5, <3>7, <4>1, <4>2
      <4>3. CASE k = last
        BY <3>2, <3>4, <4>1, <4>3
      <4> QED
        BY <3>6, <4>2, <4>3
    <3> QED
      BY <3>4, <3>5, <3>6, <3>7
  <2>3. CASE line.kind \notin Showing[side]
    <3>1. On(more, side) = On(lines, side)
      BY <2>3, LineAdded
    <3> QED
      BY <2>1, <3>1
  <2> QED
    BY <2>2, <2>3
<1> QED
  BY <1>1, <1>2 DEF Rising

\* The lines of a script.
LEMMA ScriptShape ==
  ASSUME NEW change \in ChangesOfFiles
  PROVE  /\ Len(change.script) \in Nat /\ DOMAIN change.script = 1..Len(change.script)
         /\ \A i \in 1..Len(change.script) :
              /\ i \in Nat \ {0} /\ i - 1 \in Nat /\ i - 1 + 1 = i /\ i <= Len(change.script)
              /\ change.script[i].sign \in {"+", "-", " "}
              /\ change.script[i].text \in Wordings
<1> DEFINE Lined == [sign : {"+", "-", " "}, text : Wordings]
<1>1. change \in [opening : Openings, script : Seq([sign : DOMAIN Kinds, text : Wordings]), outside : SUBSET Nat]
  BY DEF ChangesOfFiles
<1>2. DOMAIN Kinds = {"+", "-", " "}
  BY DEF Kinds
<1>3. change.script \in Seq(Lined)
  BY <1>1, <1>2
<1>4. \A line \in Lined : line.sign \in {"+", "-", " "} /\ line.text \in Wordings
  OBVIOUS
<1> HIDE DEF Lined
<1>5. Len(change.script) \in Nat /\ DOMAIN change.script = 1..Len(change.script)
  BY <1>3
<1>6. \A i \in 1..Len(change.script) : change.script[i] \in Lined
  BY <1>3, <1>5
<1>7. \A n \in Nat : \A i \in 1..n :
        i \in Nat \ {0} /\ i - 1 \in Nat /\ i - 1 + 1 = i /\ i <= n
  OBVIOUS
<1> QED
  BY <1>4, <1>5, <1>6, <1>7

\* What reading a header of a hunk leaves known.
LEMMA HunkOpens ==
  ASSUME NEW change \in ChangesOfFiles, NEW i \in 1..Len(change.script),
         NEW files, NEW state, ReadOf(state, files, change, i - 1)
  PROVE  LET next == Read(state, Hunk(change, i))
         IN  ReadOf(next, files, change, i - 1) /\ InHunk(next, change, i - 1)
<1> DEFINE script == change.script
           rest == Rest(change, i)
           start(side) == Number(script, i - 1, side)
                            + (IF \A j \in rest : script[j].sign = Lacking[side] THEN 0 ELSE 1)
           head == Line("hunk", Blank, Blank, Plain)
           next == Read(state, Hunk(change, i))
<1>1. i \in Nat \ {0} /\ i - 1 \in Nat /\ i - 1 + 1 = i
  BY ScriptShape
<1>2. Hunk(change, i) = Raw("@", Plain, start("old"), start("new"))
  BY DEF Hunk, Rest
<1>3. \A side \in Sides : /\ Number(script, i - 1, side) \in Nat /\ start(side) \in Nat
                          /\ \/ start(side) = Number(script, i - 1, side) + 1
                             \/ \A j \in rest : script[j].sign = Lacking[side]
  <2>1. SUFFICES ASSUME NEW side \in Sides
                 PROVE  /\ Number(script, i - 1, side) \in Nat /\ start(side) \in Nat
                        /\ \/ start(side) = Number(script, i - 1, side) + 1
                           \/ \A j \in rest : script[j].sign = Lacking[side]
    OBVIOUS
  <2>2. Number(script, i - 1, side) \in Nat
    BY <1>1, NumberGrows
  <2> HIDE DEF rest
  <2>3. CASE \A j \in rest : script[j].sign = Lacking[side]
    BY <2>2, <2>3
  <2>4. CASE ~ \A j \in rest : script[j].sign = Lacking[side]
    BY <2>2, <2>4
  <2> QED
    BY <2>3, <2>4
<1>4. /\ DOMAIN state = {"files", "lines", "open", "old", "new"}
      /\ state.files = files /\ state.open = TRUE /\ Rising(state.lines)
      /\ \A side \in Sides : Numbers(state.lines, side) = Due(change, i - 1, side)
  BY DEF ReadOf
<1> HIDE DEF start
<1>5. next = [state EXCEPT !.old = start("old"), !.new = start("new"),
                           !.lines = Append(@, head)]
  BY <1>2 DEF Read, Raw, IsHeader, NamesVersion
<1> HIDE DEF head
<1>6. /\ DOMAIN next = {"files", "lines", "open", "old", "new"}
      /\ next.files = files /\ next.open = TRUE
      /\ next.lines = Append(state.lines, head)
      /\ \A side \in Sides : next[side] = start(side)
  <2> HIDE DEF next
  <2> QED
    BY <1>4, <1>5 DEF Sides
<1>7. head \in FileLines /\ head.kind = "hunk"
  BY DEF head, Line, FileLines, Wordings
<1>8. \A side \in Sides : head.kind \notin Showing[side]
  BY <1>7 DEF Sides, Showing
<1> HIDE DEF next
<1>9. Rising(next.lines)
  BY <1>4, <1>6, <1>7, <1>8, LineAddedRises
<1>10. \A side \in Sides : Numbers(next.lines, side) = Numbers(state.lines, side)
  BY <1>4, <1>6, <1>7, <1>8, LineAdded
<1>11. next.lines # <<>>
  <2>1. state.lines \in Seq(FileLines)
    BY <1>4 DEF Rising
  <2>2. \A s \in Seq(FileLines), l \in FileLines : Append(s, l) # <<>>
    OBVIOUS
  <2> QED
    BY <1>6, <1>7, <2>1, <2>2
<1>12. ReadOf(next, files, change, i - 1)
  BY <1>4, <1>6, <1>9, <1>10 DEF ReadOf
<1>13. InHunk(next, change, i - 1)
  BY <1>1, <1>3, <1>6, <1>11 DEF InHunk
<1> QED
  BY <1>12, <1>13 DEF next

\* What reading a line of a hunk leaves known.
LEMMA LineIsRead ==
  ASSUME NEW change \in ChangesOfFiles, NEW i \in 1..Len(change.script), i \notin change.outside,
         NEW files, NEW state, ReadOf(state, files, change, i - 1), InHunk(state, change, i - 1)
  PROVE  LET next == Read(state, Raw(change.script[i].sign, change.script[i].text, 0, 0))
         IN  ReadOf(next, files, change, i) /\ InHunk(next, change, i)
<1> DEFINE script == change.script
           sign == script[i].sign
           raw  == Raw(sign, script[i].text, 0, 0)
           next == Read(state, raw)
           kind == Kinds[sign]
           told == Line(kind, IF kind # "add" THEN state.old ELSE Blank,
                        IF kind # "del" THEN state.new ELSE Blank, script[i].text)
           counts(side) == sign # Lacking[side]
<1>1. /\ i \in Nat \ {0} /\ i - 1 \in Nat /\ i - 1 + 1 = i /\ i \in DOMAIN script
      /\ Len(script) \in Nat /\ i <= Len(script)
      /\ sign \in {"+", "-", " "} /\ script[i].text \in Wordings
  BY ScriptShape
<1>2. /\ DOMAIN state = {"files", "lines", "open", "old", "new"}
      /\ state.files = files /\ state.open = TRUE /\ Rising(state.lines)
      /\ \A side \in Sides : Numbers(state.lines, side) = Due(change, i - 1, side)
  BY DEF ReadOf
<1>3. /\ state.lines # <<>>
      /\ \A side \in Sides :
           /\ state[side] \in Nat
           /\ \/ state[side] = Number(script, i - 1, side) + 1
              \/ \A j \in Rest(change, i) : script[j].sign = Lacking[side]
  BY <1>1 DEF InHunk
<1>4. state.old \in Nat /\ state.new \in Nat
  BY <1>3 DEF Sides
<1>5. /\ kind \in {"add", "del", "ctx"}
      /\ kind # "add" <=> sign # "+"
      /\ kind # "del" <=> sign # "-"
  BY <1>1 DEF Kinds
<1>6. \A side \in Sides : kind \in Showing[side] <=> counts(side)
  BY <1>5 DEF Sides, Showing, Lacking
<1>7. next = Numbered(state, kind, raw)
  <2>1. /\ raw.sign = sign /\ raw.text = script[i].text
        /\ raw.sign # "diff" /\ raw.sign # "@" /\ raw.sign \in DOMAIN Kinds
    BY <1>1 DEF Raw, Kinds
  <2>2. ~IsHeader(state, raw)
    BY <1>3 DEF IsHeader
  <2> HIDE DEF raw
  <2> QED
    BY <1>2, <2>1, <2>2 DEF Read
<1>8. next = [state EXCEPT !.lines = Append(@, told),
                           !.old = IF kind # "add" THEN @ + 1 ELSE @,
                           !.new = IF kind # "del" THEN @ + 1 ELSE @]
  BY <1>7 DEF Numbered, Raw
<1> HIDE DEF told, next, kind, sign, raw
<1>9. /\ DOMAIN next = {"files", "lines", "open", "old", "new"}
      /\ next.files = files /\ next.open = TRUE
      /\ next.lines = Append(state.lines, told)
      /\ next.old = IF kind # "add" THEN state.old + 1 ELSE state.old
      /\ next.new = IF kind # "del" THEN state.new + 1 ELSE state.new
  BY <1>2, <1>8
<1>10. \A side \in Sides : next[side] = IF counts(side) THEN state[side] + 1 ELSE state[side]
  BY <1>5, <1>9 DEF Sides, Lacking
<1>11. /\ told \in FileLines /\ told.kind = kind /\ told.text = script[i].text
       /\ \A side \in Sides : counts(side) => told[side] = state[side]
  <2>1. told.kind = kind /\ told.text = script[i].text
    BY SidesOfLine DEF told
  <2>2. \A side \in Sides : counts(side) => told[side] = state[side]
    BY <1>5, SidesOfLine DEF told, Sides, Lacking
  <2>3. told \in FileLines
    BY <1>1, <1>4, <1>5 DEF told, Line, FileLines
  <2> QED
    BY <2>1, <2>2, <2>3
<1>12. i \in Rest(change, i)
  <2>1. \A a, b \in Nat : a <= b => a \in a..b /\ \A k \in a..a : k = a
    OBVIOUS
  <2>2. i \in Nat /\ Len(script) \in Nat /\ i <= Len(script)
    BY <1>1
  <2>3. i \in i..Len(script) /\ \A k \in i..i : k = i
    BY <2>1, <2>2
  <2> QED
    BY <2>3 DEF Rest
<1>13. \A side \in Sides : counts(side) => state[side] = Number(script, i - 1, side) + 1
  BY <1>3, <1>12 DEF sign
<1>14. \A side \in Sides :
         Number(script, i, side) = IF counts(side) THEN Number(script, i - 1, side) + 1
                                   ELSE Number(script, i - 1, side)
  BY <1>1, NumberGrows DEF sign
<1>15. \A side \in Sides : Number(script, i - 1, side) \in Nat
  BY <1>1, NumberGrows
<1>16. \A side \in Sides : i \in InHunks(change, side) <=> counts(side)
  BY <1>1 DEF InHunks, sign
<1>17. ASSUME NEW side \in Sides
       PROVE  /\ counts(side) => \A p \in Numbers(state.lines, side) : p[1] < told[side]
              /\ Numbers(Append(state.lines, told), side) = Due(change, i, side)
  <2>1. /\ Due(change, i, side) =
             IF counts(side)
             THEN Due(change, i - 1, side) \union {<<Number(script, i, side), told.text>>}
             ELSE Due(change, i - 1, side)
        /\ \A p \in Due(change, i - 1, side) : p[1] \in Nat /\ p[1] <= Number(script, i - 1, side)
    BY <1>11, <1>16, DueGrows
  <2>2. counts(side) => told[side] = Number(script, i, side)
                        /\ Number(script, i, side) = Number(script, i - 1, side) + 1
    BY <1>11, <1>13, <1>14
  <2>3. counts(side) => \A p \in Numbers(state.lines, side) : p[1] < told[side]
    BY <1>2, <1>15, <2>1, <2>2
  <2>4. Numbers(Append(state.lines, told), side)
          = IF counts(side) THEN Numbers(state.lines, side) \union {<<told[side], told.text>>}
            ELSE Numbers(state.lines, side)
    BY <1>2, <1>6, <1>11, LineAdded
  <2> QED
    BY <1>2, <2>1, <2>2, <2>3, <2>4
<1>18. Rising(next.lines)
  <2>1. \A side \in Sides : told.kind \in Showing[side] =>
          told[side] \in Nat /\ \A p \in Numbers(state.lines, side) : p[1] < told[side]
    BY <1>3, <1>6, <1>11, <1>17
  <2> QED
    BY <1>2, <1>9, <1>11, <2>1, LineAddedRises
<1>19. ReadOf(next, files, change, i)
  BY <1>9, <1>17, <1>18 DEF ReadOf
<1>20. next.lines # <<>>
  <2>1. state.lines \in Seq(FileLines)
    BY <1>2 DEF Rising
  <2> QED
    BY <1>9, <1>11, <2>1
<1>21. ASSUME NEW side \in Sides
       PROVE  /\ next[side] \in Nat
              /\ \/ next[side] = Number(script, i, side) + 1
                 \/ \A j \in Rest(change, i + 1) : script[j].sign = Lacking[side]
  <2>1. next[side] \in Nat
    BY <1>3, <1>10
  <2>2. CASE counts(side)
    BY <1>10, <1>13, <1>14, <2>1, <2>2
  <2>3. CASE ~counts(side)
    <3>1. Rest(change, i + 1) \subseteq Rest(change, i)
      <4>1. SUFFICES ASSUME NEW j \in Rest(change, i + 1)
                     PROVE  j \in Rest(change, i)
        OBVIOUS
      <4>2. j \in i + 1..Len(script) /\ \A k \in i + 1..j : k \notin change.outside
        BY DEF Rest
      <4>3. \A a, b \in Nat : \A c \in a + 1..b :
              c \in a..b /\ \A k \in a..c : k = a \/ k \in a + 1..c
        OBVIOUS
      <4>4. j \in i..Len(script) /\ \A k \in i..j : k = i \/ k \in i + 1..j
        <5>1. i \in Nat /\ Len(script) \in Nat
          BY <1>1
        <5> QED
          BY <4>2, <4>3, <5>1
      <4> QED
        BY <4>2, <4>4 DEF Rest
    <3> QED
      BY <1>3, <1>10, <1>14, <2>1, <2>3, <3>1
  <2> QED
    BY <2>1, <2>2, <2>3
<1>22. InHunk(next, change, i)
  BY <1>20, <1>21 DEF InHunk
<1> QED
  BY <1>19, <1>22 DEF next, raw, sign

\* What reading what is written of a line of the script leaves known.
LEMMA ScriptLineIsRead ==
  ASSUME NEW change \in ChangesOfFiles, NEW i \in 1..Len(change.script), NEW files, NEW state,
         ReadOf(state, files, change, i - 1),
         i # 1 /\ i - 1 \notin change.outside => InHunk(state, change, i - 1)
  PROVE  LET next == ReadAll(state, Written(change, i))
         IN  /\ ReadOf(next, files, change, i)
             /\ i \notin change.outside => InHunk(next, change, i)
<1> DEFINE raw == Raw(change.script[i].sign, change.script[i].text, 0, 0)
<1>1. CASE i \in change.outside
  <2>1. Written(change, i) = <<>>
    BY <1>1 DEF Written
  <2>2. ReadAll(state, <<>>) = state
    BY ReadNoneOrOne
  <2>3. \A side \in Sides : i \notin InHunks(change, side)
    BY <1>1 DEF InHunks
  <2>4. \A side \in Sides : Due(change, i, side) = Due(change, i - 1, side)
    BY <2>3, DueGrows
  <2> QED
    BY <1>1, <2>1, <2>2, <2>4 DEF ReadOf
<1>2. CASE i \notin change.outside /\ ~(i = 1 \/ i - 1 \in change.outside)
  <2>1. Written(change, i) = <<>> \o <<raw>>
    BY <1>2 DEF Written
  <2>2. <<>> \o <<raw>> = <<raw>>
    OBVIOUS
  <2>3. ReadAll(state, <<raw>>) = Read(state, raw)
    BY ReadNoneOrOne
  <2> QED
    BY <1>2, <2>1, <2>2, <2>3, LineIsRead
<1>3. CASE i \notin change.outside /\ (i = 1 \/ i - 1 \in change.outside)
  <2> DEFINE hunk == Hunk(change, i)
             open == Read(state, hunk)
  <2>1. Written(change, i) = <<hunk>> \o <<raw>>
    BY <1>3 DEF Written
  <2>2. <<hunk>> \in Seq({hunk, raw}) /\ <<raw>> \in Seq({hunk, raw})
    OBVIOUS
  <2> HIDE DEF hunk, raw
  <2>3. ReadAll(state, <<hunk>> \o <<raw>>) = ReadAll(ReadAll(state, <<hunk>>), <<raw>>)
    BY <2>2, ReadInParts
  <2>4. ReadAll(state, <<hunk>>) = open /\ ReadAll(open, <<raw>>) = Read(open, raw)
    BY ReadNoneOrOne
  <2>5. ReadOf(open, files, change, i - 1) /\ InHunk(open, change, i - 1)
    BY HunkOpens DEF hunk
  <2>6. ReadAll(state, Written(change, i)) = Read(open, raw)
    BY <2>1, <2>3, <2>4
  <2> HIDE DEF open
  <2> QED
    BY <1>3, <2>5, <2>6, LineIsRead DEF raw
<1> QED
  BY <1>1, <1>2, <1>3

\* The lines of patches.
RawLines ==
  [sign : {"From", "diff", "quoted", "index", "@", "+", "-", " "}, text : Wordings,
   old : Nat, new : Nat]

\* The lines that open no file.
InnerLines ==
  [sign : {"From", "quoted", "index", "@", "+", "-", " "}, text : Wordings, old : Nat, new : Nat]

\* They are lines of patches.
LEMMA InnerAreRaw ==
  /\ InnerLines \subseteq RawLines
  /\ Seq(InnerLines) \subseteq Seq(RawLines)
<1>1. InnerLines \subseteq RawLines
  BY DEF InnerLines, RawLines
<1>2. \A S, T : S \subseteq T => Seq(S) \subseteq Seq(T)
  OBVIOUS
<1> QED
  BY <1>1, <1>2

\* What is written of a line of a script are lines of patches that open no file.
LEMMA WrittenLines ==
  ASSUME NEW change \in ChangesOfFiles, NEW i \in 1..Len(change.script)
  PROVE  Written(change, i) \in Seq(InnerLines)
<1> DEFINE raw == Raw(change.script[i].sign, change.script[i].text, 0, 0)
<1>1. \A sign \in {"From", "quoted", "index", "@", "+", "-", " "}, text \in Wordings,
         old \in Nat, new \in Nat : Raw(sign, text, old, new) \in InnerLines
  BY DEF InnerLines, Raw
<1>2. change.script[i].sign \in {"+", "-", " "} /\ change.script[i].text \in Wordings
      /\ i \in Nat \ {0}
  BY ScriptShape
<1>3. raw \in InnerLines
  <2>1. 0 \in Nat
    OBVIOUS
  <2> QED
    BY <1>1, <1>2, <2>1
<1>4. Hunk(change, i) \in InnerLines
  <2> DEFINE rest == {j \in i..Len(change.script) : \A k \in i..j : k \notin change.outside}
             more(side) == IF \A j \in rest : change.script[j].sign = Lacking[side] THEN 0 ELSE 1
             start(side) == Number(change.script, i - 1, side) + more(side)
  <2>1. Hunk(change, i) = Raw("@", Plain, start("old"), start("new"))
    BY DEF Hunk
  <2>2. Number(change.script, i - 1, "old") \in Nat /\ Number(change.script, i - 1, "new") \in Nat
    BY <1>2, NumberGrows
  <2>3. more("old") \in Nat /\ more("new") \in Nat
    OBVIOUS
  <2> HIDE DEF more
  <2>4. start("old") \in Nat /\ start("new") \in Nat
    BY <2>2, <2>3
  <2>5. Plain \in Wordings
    BY DEF Wordings
  <2> QED
    BY <1>1, <2>1, <2>4, <2>5
<1> HIDE DEF raw
<1>5. \A a, b \in InnerLines : /\ <<>> \in Seq(InnerLines) /\ <<>> \o <<b>> \in Seq(InnerLines)
                             /\ <<a>> \o <<b>> \in Seq(InnerLines)
  OBVIOUS
<1> QED
  BY <1>3, <1>4, <1>5 DEF Written, raw

\* The header of a file closes the one before it, and leaves nothing read of this one.
LEMMA HeaderIsRead ==
  ASSUME NEW change \in ChangesOfFiles,
         NEW state, DOMAIN state = {"files", "lines", "open", "old", "new"}
  PROVE  /\ ReadOf(ReadAll(state, FileHeader("diff")), Closed(state), change, 0)
         /\ FileHeader("diff") \in Seq(RawLines)
<1> DEFINE diff == Raw("diff", Plain, 0, 0)
           index == Raw("index", Plain, 0, 0)
           dashes == Raw("-", Dashes, 0, 0)
           pluses == Raw("+", Pluses, 0, 0)
           opened == Read(state, diff)
<1>1. FileHeader("diff") = <<diff, index, dashes, pluses>>
  BY DEF FileHeader
<1>2. /\ diff \in RawLines /\ index \in RawLines /\ dashes \in RawLines /\ pluses \in RawLines
  <2>1. \A sign \in {"From", "diff", "quoted", "index", "@", "+", "-", " "}, text \in Wordings,
           old \in Nat, new \in Nat : Raw(sign, text, old, new) \in RawLines
    BY DEF RawLines, Raw
  <2>2. 0 \in Nat /\ Plain \in Wordings /\ Dashes \in Wordings /\ Pluses \in Wordings
    BY DEF Wordings
  <2> QED
    BY <2>1, <2>2
<1>3. FileHeader("diff") \in Seq(RawLines)
  <2>1. \A a, b, c, d \in RawLines : <<a, b, c, d>> \in Seq(RawLines)
    OBVIOUS
  <2> HIDE DEF diff, index, dashes, pluses
  <2> QED
    BY <1>1, <1>2, <2>1
<1>4. PICK read : /\ ReadBy(read, state, FileHeader("diff"))
                  /\ ReadAll(state, FileHeader("diff")) = read[Len(FileHeader("diff"))]
  BY <1>3, ReadAllUnfolds
<1>5. /\ Len(FileHeader("diff")) = 4
      /\ FileHeader("diff")[1] = diff /\ FileHeader("diff")[2] = index
      /\ FileHeader("diff")[3] = dashes /\ FileHeader("diff")[4] = pluses
  <2> HIDE DEF diff, index, dashes, pluses
  <2> QED
    BY <1>1
<1>6. /\ read[0] = state /\ read[1] = Read(read[0], diff) /\ read[2] = Read(read[1], index)
      /\ read[3] = Read(read[2], dashes) /\ read[4] = Read(read[3], pluses)
  <2>1. /\ 1 \in 1..4 /\ 2 \in 1..4 /\ 3 \in 1..4 /\ 4 \in 1..4
        /\ 1 - 1 = 0 /\ 2 - 1 = 1 /\ 3 - 1 = 2 /\ 4 - 1 = 3
    OBVIOUS
  <2> HIDE DEF diff, index, dashes, pluses
  <2>2. \A i \in 1..4 : read[i] = Read(read[i - 1], FileHeader("diff")[i])
    BY <1>4, <1>5 DEF ReadBy
  <2> QED
    BY <1>4, <1>5, <2>1, <2>2 DEF ReadBy
<1>7. opened = [state EXCEPT !.files = Closed(state), !.lines = <<>>, !.open = TRUE]
  BY DEF Read, Raw
<1>8. /\ DOMAIN opened = {"files", "lines", "open", "old", "new"}
      /\ opened.files = Closed(state) /\ opened.lines = <<>> /\ opened.open = TRUE
  <2> HIDE DEF opened
  <2> QED
    BY <1>7
<1>9. ASSUME NEW raw \in {index, dashes, pluses}
      PROVE  Read(opened, raw) = opened
  <2>1. CASE raw = index
    BY <2>1 DEF Read, Raw, Kinds, IsHeader, NamesVersion
  <2> HIDE DEF opened
  <2>2. CASE raw = dashes
    BY <1>8, <2>2 DEF Read, Raw, IsHeader, NamesVersion
  <2>3. CASE raw = pluses
    BY <1>8, <2>3 DEF Read, Raw, IsHeader, NamesVersion
  <2> QED
    BY <2>1, <2>2, <2>3
<1>10. ReadAll(state, FileHeader("diff")) = opened
  <2>1. /\ Read(opened, index) = opened
        /\ Read(opened, dashes) = opened /\ Read(opened, pluses) = opened
    BY <1>9
  <2> HIDE DEF diff, index, dashes, pluses
  <2> QED
    BY <1>4, <1>5, <1>6, <2>1
<1>11. Rising(opened.lines) /\ \A side \in Sides : Numbers(opened.lines, side) = {}
  <2>1. <<>> \in Seq(FileLines) /\ DOMAIN <<>> = {}
    OBVIOUS
  <2> HIDE DEF opened
  <2> QED
    BY <1>8, <2>1 DEF Rising, On, Numbers
<1>12. \A side \in Sides : Due(change, 0, side) = {}
  <2>1. \A side \in Sides : {h \in InHunks(change, side) : h <= 0} = {}
    <3>1. \A i \in 1..Len(change.script) : i \in Nat \ {0}
      BY ScriptShape
    <3>2. \A side \in Sides : \A h \in InHunks(change, side) : h \in 1..Len(change.script)
      BY ScriptShape DEF InHunks
    <3>3. \A n \in Nat \ {0} : ~ n <= 0
      OBVIOUS
    <3> QED
      BY <3>1, <3>2, <3>3
  <2> QED
    BY <2>1 DEF Due
<1> HIDE DEF opened
<1> QED
  BY <1>3, <1>8, <1>10, <1>11, <1>12 DEF ReadOf

\* A file whose path git does not quote.
Plainly(change) == change.opening = "diff"

\* The diff of a file, read after any others, closes them and is read to its end.
LEMMA FileIsRead ==
  ASSUME NEW change \in ChangesOfFiles, Plainly(change),
         NEW state, DOMAIN state = {"files", "lines", "open", "old", "new"}
  PROVE  /\ ReadOf(ReadAll(state, GitDiff(change)), Closed(state), change, Len(change.script))
         /\ GitDiff(change) \in Seq(RawLines)
<1> DEFINE n == Len(change.script)
           seqs == [i \in DOMAIN change.script |-> Written(change, i)]
           files == Closed(state)
           start == ReadAll(state, FileHeader("diff"))
<1>1. n \in Nat /\ DOMAIN change.script = 1..n
  BY ScriptShape
<1>2. seqs \in Seq(Seq(RawLines)) /\ Len(seqs) = n /\ \A i \in 1..n : seqs[i] = Written(change, i)
  <2>1. \A i \in 1..n : Written(change, i) \in Seq(RawLines)
    BY WrittenLines, InnerAreRaw
  <2>2. seqs = [i \in 1..n |-> Written(change, i)]
    BY <1>1
  <2> HIDE DEF n, seqs
  <2> QED
    BY <1>1, <2>1, <2>2
<1> HIDE DEF seqs
<1>3. /\ ReadOf(start, files, change, 0)
      /\ FileHeader("diff") \in Seq(RawLines)
  BY HeaderIsRead
<1> HIDE DEF start
<1>4. PICK after : /\ after[0] = start
                   /\ \A i \in 1..Len(seqs) : after[i] = ReadAll(after[i - 1], seqs[i])
                   /\ ReadAll(start, FlattenSeq(seqs)) = after[Len(seqs)]
                   /\ FlattenSeq(seqs) \in Seq(RawLines)
  <2>1. seqs \in Seq(Seq(RawLines))
    BY <1>2
  <2> HIDE DEF n, files
  <2> QED
    BY <2>1, ReadFlattened
<1>5. GitDiff(change) = FileHeader("diff") \o FlattenSeq(seqs)
  BY DEF GitDiff, seqs, Plainly
<1>6. GitDiff(change) \in Seq(RawLines)
  <2>1. \A p, q \in Seq(RawLines) : p \o q \in Seq(RawLines)
    OBVIOUS
  <2> QED
    BY <1>3, <1>4, <1>5, <2>1
<1>7. ReadAll(state, GitDiff(change)) = after[n]
  BY <1>2, <1>3, <1>4, <1>5, ReadInParts DEF start
<1> HIDE DEF files
<1> DEFINE known(i) == /\ ReadOf(after[i], files, change, i)
                       /\ i # 0 /\ i \notin change.outside => InHunk(after[i], change, i)
           bad == {i \in 0..n : ~known(i)}
<1>8. bad = {}
  <2>1. SUFFICES ASSUME bad # {}
                 PROVE  FALSE
    OBVIOUS
  <2>2. bad \subseteq Nat
    BY <1>1
  <2>3. PICK i \in bad : \A j \in bad : ~ (j < i)
    BY <2>1, <2>2, LeastNumber
  <2>4. known(0)
    BY <1>3, <1>4
  <2>5. i # 0
    BY <2>3, <2>4
  <2> HIDE DEF known
  <2>6. i \in 1..n /\ i - 1 \in 0..n /\ i - 1 < i /\ (i - 1 # 0 <=> i # 1)
    BY <1>1, <2>3, <2>5
  <2>7. known(i - 1)
    BY <2>3, <2>6
  <2>8. ReadOf(after[i - 1], files, change, i - 1)
        /\ (i # 1 /\ i - 1 \notin change.outside => InHunk(after[i - 1], change, i - 1))
    BY <2>6, <2>7 DEF known
  <2>9. after[i] = ReadAll(after[i - 1], Written(change, i))
    BY <1>2, <1>4, <2>6
  <2>10. /\ ReadOf(after[i], files, change, i)
         /\ i \notin change.outside => InHunk(after[i], change, i)
    BY <2>6, <2>8, <2>9, ScriptLineIsRead
  <2>11. known(i)
    BY <2>10 DEF known
  <2> QED
    BY <2>3, <2>11
<1>9. ReadOf(after[n], files, change, n)
  <2>1. n \in 0..n
    BY <1>1
  <2> HIDE DEF n
  <2> QED
    BY <1>8, <2>1
<1> QED
  BY <1>6, <1>7, <1>9 DEF files

\* A patch read down to some line.
States == [files : Seq(Seq(FileLines)), lines : Seq(FileLines), open : BOOLEAN,
           old : Nat, new : Nat]

\* The same with other lines of the current file, and other numbers.
Further(state, lines, old, new) == [state EXCEPT !.lines = lines, !.old = old, !.new = new]

\* It is well formed, and the files before are the same.
LEMMA FurtherKeeps ==
  \A state \in States, lines \in Seq(FileLines), old, new \in Nat :
    LET next == Further(state, lines, old, new)
    IN  next \in States /\ next.files = state.files /\ next.open = state.open
BY DEF States, Further

\* What is read of a patch stays well formed, and none but a header opens a file.
LEMMA LineKeeps ==
  ASSUME NEW state \in States, NEW raw \in RawLines
  PROVE  /\ Read(state, raw) \in States
         /\ raw.sign # "diff" =>
              Read(state, raw).files = state.files /\ Read(state, raw).open = state.open
<1>1. /\ state.files \in Seq(Seq(FileLines)) /\ state.lines \in Seq(FileLines)
      /\ state.old \in Nat /\ state.new \in Nat
  BY DEF States
<1>2. raw.text \in Wordings /\ raw.old \in Nat /\ raw.new \in Nat
  BY DEF RawLines
<1>3. \A line \in FileLines : Append(state.lines, line) \in Seq(FileLines)
  BY <1>1
<1>4. ASSUME NEW kind \in {"hunk", "add", "del", "ctx"}, NEW old \in Nat \union {Blank},
             NEW new \in Nat \union {Blank}
      PROVE  Line(kind, old, new, raw.text) \in FileLines
  BY <1>2, <1>4 DEF Line, FileLines
<1>5. CASE raw.sign = "diff"
  <2>1. Closed(state) \in Seq(Seq(FileLines))
    <3>1. Append(state.files, state.lines) \in Seq(Seq(FileLines))
      BY <1>1
    <3> QED
      BY <1>1, <3>1 DEF Closed
  <2>2. <<>> \in Seq(FileLines)
    OBVIOUS
  <2>3. \A files \in Seq(Seq(FileLines)), lines \in Seq(FileLines) :
          [state EXCEPT !.files = files, !.lines = lines, !.open = TRUE] \in States
    BY DEF States
  <2> QED
    BY <1>5, <2>1, <2>2, <2>3 DEF Read
<1>6. CASE raw.sign # "diff" /\ IsHeader(state, raw)
  BY <1>6 DEF Read
<1>7. CASE raw.sign = "@" /\ ~IsHeader(state, raw)
  <2> DEFINE lines == Append(state.lines, Line("hunk", Blank, Blank, raw.text))
             next == Further(state, lines, raw.old, raw.new)
  <2>1. lines \in Seq(FileLines)
    BY <1>3, <1>4
  <2>2. Read(state, raw) = [state EXCEPT !.old = raw.old, !.new = raw.new, !.lines = lines]
    BY <1>7 DEF Read
  <2> HIDE DEF lines
  <2>3. Read(state, raw) = next
    BY <2>2 DEF Further
  <2>4. next \in States /\ next.files = state.files /\ next.open = state.open
    BY <1>2, <2>1, FurtherKeeps
  <2> HIDE DEF next
  <2> QED
    BY <2>3, <2>4
<1>8. CASE raw.sign \notin {"diff", "@"} /\ ~IsHeader(state, raw)
           /\ state.open /\ raw.sign \in DOMAIN Kinds
  <2> DEFINE kind == Kinds[raw.sign]
             line == Line(kind, IF kind # "add" THEN state.old ELSE Blank,
                          IF kind # "del" THEN state.new ELSE Blank, raw.text)
             lines == Append(state.lines, line)
             old == IF kind # "add" THEN state.old + 1 ELSE state.old
             new == IF kind # "del" THEN state.new + 1 ELSE state.new
             next == Further(state, lines, old, new)
  <2>1. kind \in {"add", "del", "ctx"}
    BY <1>8 DEF Kinds
  <2>2. Read(state, raw) = Numbered(state, kind, raw)
    BY <1>8 DEF Read
  <2> HIDE DEF kind
  <2>3. old \in Nat /\ new \in Nat
    BY <1>1
  <2>4. line \in FileLines
    BY <1>1, <1>4, <2>1
  <2>5. lines \in Seq(FileLines)
    BY <1>3, <2>4
  <2>6. Numbered(state, kind, raw) = next
    BY DEF Numbered, Further
  <2> HIDE DEF lines, old, new, next
  <2>7. next \in States /\ next.files = state.files /\ next.open = state.open
    BY <2>3, <2>5, FurtherKeeps DEF next
  <2> QED
    BY <1>8, <2>2, <2>6, <2>7
<1>9. CASE raw.sign \notin {"diff", "@"} /\ ~IsHeader(state, raw)
           /\ ~(state.open /\ raw.sign \in DOMAIN Kinds)
  BY <1>9 DEF Read
<1> QED
  BY <1>5, <1>6, <1>7, <1>8, <1>9

\* The same of several lines.
LEMMA LinesKeep ==
  ASSUME NEW state \in States, NEW patch \in Seq(RawLines)
  PROVE  /\ ReadAll(state, patch) \in States
         /\ patch \in Seq(InnerLines) =>
              /\ ReadAll(state, patch).files = state.files
              /\ ReadAll(state, patch).open = state.open
<1>1. PICK read : ReadBy(read, state, patch) /\ ReadAll(state, patch) = read[Len(patch)]
  BY ReadAllUnfolds
<1>2. Len(patch) \in Nat /\ \A i \in 1..Len(patch) : patch[i] \in RawLines
  OBVIOUS
<1>3. patch \in Seq(InnerLines) => \A i \in 1..Len(patch) : patch[i].sign # "diff"
  <2>1. \A raw \in InnerLines : raw.sign # "diff"
    BY DEF InnerLines
  <2>2. patch \in Seq(InnerLines) => \A i \in 1..Len(patch) : patch[i] \in InnerLines
    OBVIOUS
  <2> QED
    BY <2>1, <2>2
<1> DEFINE kept(i) == /\ read[i] \in States
                      /\ patch \in Seq(InnerLines) =>
                           read[i].files = state.files /\ read[i].open = state.open
           bad == {i \in 0..Len(patch) : ~kept(i)}
<1>4. bad = {}
  <2>1. SUFFICES ASSUME bad # {}
                 PROVE  FALSE
    OBVIOUS
  <2>2. bad \subseteq Nat
    BY <1>2
  <2>3. PICK i \in bad : \A j \in bad : ~ (j < i)
    BY <2>1, <2>2, LeastNumber
  <2>4. kept(0)
    BY <1>1 DEF ReadBy
  <2>5. i # 0
    BY <2>3, <2>4
  <2>6. i \in 1..Len(patch) /\ i - 1 \in 0..Len(patch) /\ i - 1 < i
    BY <1>2, <2>3, <2>5
  <2>7. kept(i - 1)
    BY <2>3, <2>6
  <2>8. read[i] = Read(read[i - 1], patch[i])
    BY <1>1, <2>6 DEF ReadBy
  <2>9. kept(i)
    BY <1>2, <1>3, <2>6, <2>7, <2>8, LineKeeps
  <2> QED
    BY <2>3, <2>9
<1>5. kept(Len(patch))
  BY <1>2, <1>4
<1> QED
  BY <1>1, <1>5

\* The diff of a file are lines of patches, none of which opens a file if its path is quoted.
LEMMA DiffLines ==
  ASSUME NEW change \in ChangesOfFiles
  PROVE  /\ GitDiff(change) \in Seq(RawLines)
         /\ ~Plainly(change) => GitDiff(change) \in Seq(InnerLines)
<1> DEFINE n == Len(change.script)
           seqs == [i \in DOMAIN change.script |-> Written(change, i)]
           opening == Raw(change.opening, Plain, 0, 0)
           rest == <<Raw("index", Plain, 0, 0), Raw("-", Dashes, 0, 0), Raw("+", Pluses, 0, 0)>>
<1>1. n \in Nat /\ DOMAIN change.script = 1..n
  BY ScriptShape
<1>2. seqs \in Seq(Seq(InnerLines))
  <2>1. \A i \in 1..n : Written(change, i) \in Seq(InnerLines)
    BY WrittenLines
  <2>2. seqs = [i \in 1..n |-> Written(change, i)]
    BY <1>1
  <2> HIDE DEF n, seqs
  <2> QED
    BY <1>1, <2>1, <2>2
<1> HIDE DEF seqs
<1>3. FlattenSeq(seqs) \in Seq(InnerLines) /\ FlattenSeq(seqs) \in Seq(RawLines)
  BY <1>2, ReadFlattened, InnerAreRaw
<1>4. rest \in Seq(InnerLines) /\ rest \in Seq(RawLines)
  <2>1. \A sign \in {"From", "quoted", "index", "@", "+", "-", " "}, text \in Wordings,
           old \in Nat, new \in Nat : Raw(sign, text, old, new) \in InnerLines
    BY DEF InnerLines, Raw
  <2>2. 0 \in Nat /\ Plain \in Wordings /\ Dashes \in Wordings /\ Pluses \in Wordings
    BY DEF Wordings
  <2>3. /\ Raw("index", Plain, 0, 0) \in InnerLines /\ Raw("-", Dashes, 0, 0) \in InnerLines
        /\ Raw("+", Pluses, 0, 0) \in InnerLines
    BY <2>1, <2>2
  <2>4. \A a, b, c \in InnerLines : <<a, b, c>> \in Seq(InnerLines)
    OBVIOUS
  <2>5. rest \in Seq(InnerLines)
    BY <2>3, <2>4
  <2> QED
    BY <2>5, InnerAreRaw
<1>5. change.opening \in {"diff", "quoted"}
  BY DEF ChangesOfFiles, Openings
<1>6. opening \in RawLines /\ (~Plainly(change) => opening \in InnerLines)
  <2>1. 0 \in Nat /\ Plain \in Wordings
    BY DEF Wordings
  <2>2. CASE change.opening = "diff"
    BY <2>1, <2>2 DEF Plainly, RawLines, Raw
  <2>3. CASE change.opening = "quoted"
    BY <2>1, <2>3 DEF InnerLines, RawLines, Raw
  <2> QED
    BY <1>5, <2>2, <2>3
<1> HIDE DEF opening, rest
<1>7. GitDiff(change) = <<opening>> \o rest \o FlattenSeq(seqs)
  <2>1. FileHeader(change.opening) = <<opening>> \o rest
    BY DEF FileHeader, opening, rest
  <2> QED
    BY <2>1 DEF GitDiff, seqs
<1>8. \A S : \A x \in S : \A p, q \in Seq(S) : <<x>> \o p \o q \in Seq(S)
  OBVIOUS
<1> QED
  BY <1>3, <1>4, <1>6, <1>7, <1>8

\* How many tables there are up to a file.
LEMMA TablesGrow ==
  ASSUME NEW changes, NEW f \in Nat \ {0}
  PROVE  /\ TableOf(changes, f - 1) \in Nat
         /\ TableOf(changes, f) = IF Plainly(changes[f]) THEN TableOf(changes, f - 1) + 1
                                                         ELSE TableOf(changes, f - 1)
<1> DEFINE counted(n) == {g \in 1..n : changes[g].opening = "diff"}
<1>1. /\ f - 1 \in Nat /\ 1..f - 1 \subseteq 1..f /\ f \notin 1..f - 1
      /\ 1..f = (1..f - 1) \union {f}
  OBVIOUS
<1>2. IsFiniteSet(1..f - 1)
  BY <1>1, FS_Interval
<1>3. IsFiniteSet(counted(f - 1)) /\ Cardinality(counted(f - 1)) \in Nat
  BY <1>2, FS_Subset, FS_CardinalityType
<1>4. TableOf(changes, f) = Cardinality(counted(f))
      /\ TableOf(changes, f - 1) = Cardinality(counted(f - 1))
  BY DEF TableOf
<1>5. CASE ~Plainly(changes[f])
  <2>1. counted(f) = counted(f - 1)
    BY <1>1, <1>5 DEF Plainly
  <2> QED
    BY <1>3, <1>4, <1>5, <2>1
<1>6. CASE Plainly(changes[f])
  <2>1. counted(f) = counted(f - 1) \union {f} /\ f \notin counted(f - 1)
    BY <1>1, <1>6 DEF Plainly
  <2> HIDE DEF counted
  <2>2. Cardinality(counted(f - 1) \union {f}) = Cardinality(counted(f - 1)) + 1
    BY <1>3, <2>1, FS_AddElement
  <2> QED
    BY <1>3, <1>4, <1>6, <2>1, <2>2
<1> QED
  BY <1>5, <1>6

\* Further down a patch there are no fewer.
LEMMA TablesRise ==
  ASSUME NEW changes, NEW f \in Nat, NEW g \in 0..f
  PROVE  /\ TableOf(changes, g) \in Nat /\ TableOf(changes, f) \in Nat
         /\ TableOf(changes, g) <= TableOf(changes, f)
<1> DEFINE counted(n) == {h \in 1..n : changes[h].opening = "diff"}
<1>1. counted(g) \subseteq counted(f) /\ counted(f) \subseteq 1..f
  OBVIOUS
<1>2. IsFiniteSet(1..f)
  BY FS_Interval
<1>3. IsFiniteSet(counted(f))
  BY <1>1, <1>2, FS_Subset
<1> HIDE DEF counted
<1>4. IsFiniteSet(counted(g)) /\ Cardinality(counted(g)) <= Cardinality(counted(f))
  BY <1>1, <1>3, FS_Subset
<1>5. Cardinality(counted(g)) \in Nat /\ Cardinality(counted(f)) \in Nat
  BY <1>3, <1>4, FS_CardinalityType
<1> QED
  BY <1>4, <1>5 DEF TableOf, counted

\* The table of a file is one of those up to it, and not the last once another was opened.
LEMMA TableIsThere ==
  ASSUME NEW changes, NEW f \in Nat, NEW g \in 1..f, Plainly(changes[g])
  PROVE  /\ TableOf(changes, g) \in 1..TableOf(changes, f)
         /\ g + 1 <= f /\ Plainly(changes[g + 1]) => TableOf(changes, g) < TableOf(changes, f)
<1>1. g \in Nat \ {0} /\ g \in 0..f
  OBVIOUS
<1>2. TableOf(changes, g - 1) \in Nat /\ TableOf(changes, g) = TableOf(changes, g - 1) + 1
  BY <1>1, TablesGrow
<1>3. TableOf(changes, f) \in Nat /\ TableOf(changes, g) <= TableOf(changes, f)
  BY <1>1, TablesRise
<1>4. ASSUME g + 1 <= f, Plainly(changes[g + 1])
      PROVE  TableOf(changes, g) < TableOf(changes, f)
  <2>1. g + 1 \in Nat \ {0} /\ g + 1 \in 0..f /\ g + 1 - 1 = g
    BY <1>1, <1>4
  <2>2. TableOf(changes, g + 1) = TableOf(changes, g) + 1
    BY <1>4, <2>1, TablesGrow
  <2>3. TableOf(changes, g + 1) <= TableOf(changes, f)
    BY <2>1, TablesRise
  <2> QED
    BY <1>2, <1>3, <2>2, <2>3
<1> QED
  BY <1>2, <1>3, <1>4

\* The lines of a file have been read whole.
WellRead(lines, change) ==
  /\ Rising(lines)
  /\ \A side \in Sides : Numbers(lines, side) = Due(change, Len(change.script), side)

\* The first files of a patch have been read.
FilesRead(state, changes, f) ==
  /\ state \in States /\ Len(Closed(state)) = TableOf(changes, f)
  /\ \A g \in 1..f : Plainly(changes[g]) /\ (g = f \/ Plainly(changes[g + 1])) =>
       WellRead(Closed(state)[TableOf(changes, g)], changes[g])

\* A file more is a table more.
LEMMA OneMoreFile ==
  ASSUME NEW changes \in Seq(ChangesOfFiles), NEW f \in 1..Len(changes), Plainly(changes[f]),
         NEW state, FilesRead(state, changes, f - 1)
  PROVE  FilesRead(ReadAll(state, GitDiff(changes[f])), changes, f)
<1> DEFINE next == ReadAll(state, GitDiff(changes[f]))
           before == Closed(state)
           change == changes[f]
           files == Closed(next)
<1>1. change \in ChangesOfFiles /\ f \in Nat \ {0} /\ f - 1 \in Nat /\ f - 1 + 1 = f
  OBVIOUS
<1>2. /\ state \in States /\ Len(before) = TableOf(changes, f - 1)
      /\ \A g \in 1..f - 1 : Plainly(changes[g]) /\ (g = f - 1 \/ Plainly(changes[g + 1])) =>
           WellRead(before[TableOf(changes, g)], changes[g])
  BY DEF FilesRead
<1>3. DOMAIN state = {"files", "lines", "open", "old", "new"}
  BY <1>2 DEF States
<1>4. ReadOf(next, before, change, Len(change.script))
  BY <1>1, <1>3, FileIsRead
<1>5. next \in States
  BY <1>1, <1>2, DiffLines, LinesKeep
<1>6. /\ next.files = before /\ next.open = TRUE /\ WellRead(next.lines, change)
  BY <1>4 DEF ReadOf, WellRead
<1>7. files = Append(before, next.lines)
  BY <1>6 DEF Closed
<1>8. before \in Seq(Seq(FileLines)) /\ next.lines \in Seq(FileLines)
  <2>1. next.files \in Seq(Seq(FileLines)) /\ next.lines \in Seq(FileLines)
    BY <1>5 DEF States
  <2> QED
    BY <1>6, <2>1
<1> HIDE DEF next, before, files
<1>9. /\ Len(files) = Len(before) + 1 /\ files[Len(before) + 1] = next.lines
      /\ \A k \in 1..Len(before) : files[k] = before[k]
  <2>1. \A s \in Seq(Seq(FileLines)), x \in Seq(FileLines) :
          /\ Len(Append(s, x)) = Len(s) + 1
          /\ Append(s, x)[Len(s) + 1] = x
          /\ \A k \in 1..Len(s) : Append(s, x)[k] = s[k]
    OBVIOUS
  <2> QED
    BY <1>7, <1>8, <2>1
<1>10. /\ TableOf(changes, f - 1) \in Nat
       /\ TableOf(changes, f) = TableOf(changes, f - 1) + 1
  BY <1>1, TablesGrow
<1>11. ASSUME NEW g \in 1..f, Plainly(changes[g]), g = f \/ Plainly(changes[g + 1])
       PROVE  WellRead(files[TableOf(changes, g)], changes[g])
  <2>1. CASE g = f
    BY <1>2, <1>6, <1>9, <1>10, <2>1
  <2>2. CASE g # f
    <3>1. g \in 1..f - 1 /\ Plainly(changes[g + 1])
      BY <1>1, <1>11, <2>2
    <3>2. TableOf(changes, g) \in 1..Len(before)
      BY <1>1, <1>2, <1>11, <3>1, TableIsThere
    <3> QED
      BY <1>2, <1>9, <1>11, <3>1, <3>2
  <2> QED
    BY <2>1, <2>2
<1> QED
  BY <1>2, <1>5, <1>9, <1>10, <1>11 DEF FilesRead, files, next

\* A file whose path is quoted gives no table, and changes none but the last.
LEMMA OneMoreQuoted ==
  ASSUME NEW changes \in Seq(ChangesOfFiles), NEW f \in 1..Len(changes), ~Plainly(changes[f]),
         NEW state, FilesRead(state, changes, f - 1)
  PROVE  FilesRead(ReadAll(state, GitDiff(changes[f])), changes, f)
<1> DEFINE next == ReadAll(state, GitDiff(changes[f]))
           before == Closed(state)
           change == changes[f]
           files == Closed(next)
<1>1. change \in ChangesOfFiles /\ f \in Nat \ {0} /\ f - 1 \in Nat /\ f - 1 + 1 = f
  OBVIOUS
<1>2. /\ state \in States /\ Len(before) = TableOf(changes, f - 1)
      /\ \A g \in 1..f - 1 : Plainly(changes[g]) /\ (g = f - 1 \/ Plainly(changes[g + 1])) =>
           WellRead(before[TableOf(changes, g)], changes[g])
  BY DEF FilesRead
<1>3. next \in States /\ next.files = state.files /\ next.open = state.open
  BY <1>1, <1>2, DiffLines, LinesKeep
<1>4. TableOf(changes, f - 1) \in Nat /\ TableOf(changes, f) = TableOf(changes, f - 1)
  BY <1>1, TablesGrow
<1>5. /\ state.files \in Seq(Seq(FileLines)) /\ state.lines \in Seq(FileLines)
      /\ next.lines \in Seq(FileLines)
  BY <1>2, <1>3 DEF States
<1>6. Len(files) = Len(before) /\ \A k \in 1..Len(before) - 1 : files[k] = before[k]
  <2>1. \A s \in Seq(Seq(FileLines)), x, y \in Seq(FileLines) :
          /\ Len(Append(s, x)) = Len(Append(s, y))
          /\ \A k \in 1..Len(Append(s, y)) - 1 : Append(s, x)[k] = Append(s, y)[k]
    OBVIOUS
  <2>2. CASE state.open
    <3>1. files = Append(state.files, next.lines) /\ before = Append(state.files, state.lines)
      BY <1>3, <2>2 DEF Closed
    <3> HIDE DEF files, before, next
    <3> QED
      BY <1>5, <2>1, <3>1
  <2>3. CASE ~state.open
    <3>1. files = state.files /\ before = state.files
      BY <1>3, <2>3 DEF Closed
    <3> QED
      BY <3>1
  <2> QED
    BY <2>2, <2>3
<1> HIDE DEF next, before, files
<1>7. ASSUME NEW g \in 1..f, Plainly(changes[g]), g = f \/ Plainly(changes[g + 1])
      PROVE  WellRead(files[TableOf(changes, g)], changes[g])
  <2>1. g # f /\ g # f - 1
    BY <1>1, <1>7
  <2>2. g \in 1..f - 1 /\ g + 1 <= f - 1 /\ Plainly(changes[g + 1])
    BY <1>1, <1>7, <2>1
  <2>3. /\ TableOf(changes, g) \in 1..Len(before) /\ TableOf(changes, g) < Len(before)
    BY <1>1, <1>2, <1>7, <2>2, TableIsThere
  <2>4. TableOf(changes, g) \in 1..Len(before) - 1
    BY <1>2, <1>4, <2>3
  <2> QED
    BY <1>2, <1>6, <1>7, <2>2, <2>4
<1> QED
  BY <1>2, <1>3, <1>4, <1>6, <1>7 DEF FilesRead, files, next

\* Reading the patch git writes gives each file whose path is not quoted its table, with
\* the lines of both versions unless those of others follow.
LEMMA PatchIsRead ==
  ASSUME NEW changes \in Seq(ChangesOfFiles)
  PROVE  \E state : Parse(Patch(changes)) = Closed(state) /\ FilesRead(state, changes, Len(changes))
<1> DEFINE n == Len(changes)
           from == Raw("From", Plain, 0, 0)
           dash == Raw("-", Plain, 0, 0)
           preface == <<from, dash>>
           first == [files |-> <<>>, lines |-> <<>>, open |-> FALSE, old |-> 0, new |-> 0]
           seqs == [i \in DOMAIN changes |-> GitDiff(changes[i])]
<1>1. n \in Nat /\ DOMAIN changes = 1..n /\ \A i \in 1..n : changes[i] \in ChangesOfFiles
  OBVIOUS
<1>2. first \in States /\ first.open = FALSE /\ first.files = <<>>
  <2>1. <<>> \in Seq(Seq(FileLines)) /\ <<>> \in Seq(FileLines) /\ 0 \in Nat
    OBVIOUS
  <2> QED
    BY <2>1 DEF States
<1>3. /\ seqs \in Seq(Seq(RawLines)) /\ Len(seqs) = n
      /\ \A i \in 1..n : seqs[i] = GitDiff(changes[i])
  <2>1. \A i \in 1..n : GitDiff(changes[i]) \in Seq(RawLines)
    BY <1>1, DiffLines
  <2>2. seqs = [i \in 1..n |-> GitDiff(changes[i])]
    BY <1>1
  <2> HIDE DEF n, seqs
  <2> QED
    BY <1>1, <2>1, <2>2
<1> HIDE DEF seqs
<1>4. preface \in Seq(RawLines)
  <2>1. Plain \in Wordings /\ 0 \in Nat
    BY DEF Wordings
  <2>2. from \in RawLines /\ dash \in RawLines
    BY <2>1 DEF RawLines, Raw
  <2> HIDE DEF from, dash
  <2> QED
    BY <2>2
<1>5. ReadAll(first, preface) = first
  <2>1. Read(first, from) = first
    BY <1>2 DEF Read, Raw, IsHeader, NamesVersion, Kinds
  <2>2. Read(first, dash) = first
    BY <1>2 DEF Read, Raw, IsHeader, NamesVersion
  <2> HIDE DEF from, dash, first
  <2>3. Len(preface) = 2 /\ preface[1] = from /\ preface[2] = dash
    OBVIOUS
  <2> HIDE DEF preface
  <2>4. PICK read : ReadBy(read, first, preface) /\ ReadAll(first, preface) = read[Len(preface)]
    BY <1>4, ReadAllUnfolds
  <2>5. 1 \in 1..2 /\ 2 \in 1..2 /\ 1 - 1 = 0 /\ 2 - 1 = 1
    OBVIOUS
  <2>6. read[1] = Read(read[0], from) /\ read[2] = Read(read[1], dash)
    BY <2>3, <2>4, <2>5 DEF ReadBy
  <2> QED
    BY <2>1, <2>2, <2>3, <2>4, <2>6 DEF ReadBy
<1>6. PICK after : /\ after[0] = first
                   /\ \A i \in 1..Len(seqs) : after[i] = ReadAll(after[i - 1], seqs[i])
                   /\ ReadAll(first, FlattenSeq(seqs)) = after[Len(seqs)]
                   /\ FlattenSeq(seqs) \in Seq(RawLines)
  BY <1>3, ReadFlattened
<1>7. Patch(changes) = preface \o FlattenSeq(seqs)
  BY DEF Patch, seqs
<1>8. Parse(Patch(changes)) = Closed(ReadAll(first, Patch(changes)))
  BY DEF Parse
<1> HIDE DEF first, preface
<1>9. ReadAll(first, Patch(changes)) = after[n]
  BY <1>3, <1>4, <1>5, <1>6, <1>7, ReadInParts
<1> DEFINE known(i) == FilesRead(after[i], changes, i)
           bad == {i \in 0..n : ~known(i)}
<1>10. known(0)
  <2>1. Closed(first) = <<>>
    BY <1>2 DEF Closed
  <2>2. TableOf(changes, 0) = 0 /\ Len(<<>>) = 0
    <3>1. {g \in 1..0 : changes[g].opening = "diff"} = {}
      OBVIOUS
    <3> QED
      BY <3>1, FS_EmptySet DEF TableOf
  <2> QED
    BY <1>2, <1>6, <2>1, <2>2 DEF FilesRead
<1>11. bad = {}
  <2>1. SUFFICES ASSUME bad # {}
                 PROVE  FALSE
    OBVIOUS
  <2>2. bad \subseteq Nat
    BY <1>1
  <2>3. PICK i \in bad : \A j \in bad : ~ (j < i)
    BY <2>1, <2>2, LeastNumber
  <2>4. i # 0
    BY <1>10, <2>3
  <2> HIDE DEF known
  <2>5. i \in 1..n /\ i - 1 \in 0..n /\ i - 1 < i
    BY <1>1, <2>3, <2>4
  <2>6. known(i - 1)
    BY <2>3, <2>5
  <2>7. after[i] = ReadAll(after[i - 1], GitDiff(changes[i]))
    BY <1>3, <1>6, <2>5
  <2>8. known(i)
    BY <2>5, <2>6, <2>7, OneMoreFile, OneMoreQuoted DEF known
  <2> QED
    BY <2>3, <2>8
<1>12. FilesRead(after[n], changes, n)
  <2>1. n \in 0..n
    BY <1>1
  <2> HIDE DEF n
  <2> QED
    BY <1>11, <2>1
<1> QED
  BY <1>8, <1>9, <1>12

-----------------------------------------------------------------------------
(***************************************************************************)
(* Tables: the lines placed so far are in the rows, or in the run of       *)
(* changes that is being gathered.                                         *)
(***************************************************************************)
\* The rows of a table, and the numbers and texts a version shows in some.
TableRows ==
  {row \in [old : FileLines \union {Blank}, new : FileLines \union {Blank}] :
     row.old # Blank /\ row.new # Blank =>
       row.old = row.new \/ (row.old.kind = "del" /\ row.new.kind = "add")}
Told(rows, side) == {<<rows[k][side][side], rows[k][side].text>> : k \in Cells(rows, side)}

\* The numbers of each version rise down the rows.
RowsRise(rows) ==
  /\ rows \in Seq(TableRows)
  /\ \A side \in Sides :
       /\ \A k \in Cells(rows, side) : rows[k][side][side] \in Nat
       /\ \A j, k \in Cells(rows, side) : j < k => rows[j][side][side] < rows[k][side][side]

\* Rows below others show what both show, and their numbers rise if theirs are larger.
LEMMA RowsJoined ==
  ASSUME NEW above, NEW below, RowsRise(above), RowsRise(below),
         \A side \in Sides : \A p \in Told(above, side), q \in Told(below, side) : p[1] < q[1]
  PROVE  /\ RowsRise(above \o below)
         /\ \A side \in Sides :
              Told(above \o below, side) = Told(above, side) \union Told(below, side)
<1> DEFINE all == above \o below
           n == Len(above)
<1>1. /\ above \in Seq(TableRows) /\ below \in Seq(TableRows) /\ all \in Seq(TableRows)
      /\ n \in Nat /\ Len(below) \in Nat
      /\ DOMAIN above = 1..n /\ DOMAIN below = 1..Len(below) /\ DOMAIN all = 1..n + Len(below)
      /\ \A k \in 1..n : all[k] = above[k]
      /\ \A k \in 1..Len(below) : all[n + k] = below[k]
  <2>1. above \in Seq(TableRows) /\ below \in Seq(TableRows)
    BY DEF RowsRise
  <2>2. \A p, q \in Seq(TableRows) :
          /\ p \o q \in Seq(TableRows) /\ Len(p) \in Nat /\ Len(q) \in Nat
          /\ DOMAIN p = 1..Len(p) /\ DOMAIN q = 1..Len(q) /\ DOMAIN (p \o q) = 1..Len(p) + Len(q)
          /\ \A k \in 1..Len(p) : (p \o q)[k] = p[k]
          /\ \A k \in 1..Len(q) : (p \o q)[Len(p) + k] = q[k]
    OBVIOUS
  <2> QED
    BY <2>1, <2>2
<1> HIDE DEF all, n
<1>2. ASSUME NEW side \in Sides
      PROVE  /\ Told(all, side) = Told(above, side) \union Told(below, side)
             /\ \A k \in Cells(all, side) : all[k][side][side] \in Nat
             /\ \A j, k \in Cells(all, side) : j < k => all[j][side][side] < all[k][side][side]
  <2> DEFINE lower == {n + k : k \in Cells(below, side)}
             up(k) == above[k][side][side]
             down(k) == below[k][side][side]
  <2>1. /\ \A k \in Cells(above, side) : k \in 1..n /\ all[k] = above[k] /\ up(k) \in Nat
        /\ \A k \in Cells(below, side) :
             k \in 1..Len(below) /\ all[n + k] = below[k] /\ down(k) \in Nat
        /\ \A j, k \in Cells(above, side) : j < k => up(j) < up(k)
        /\ \A j, k \in Cells(below, side) : j < k => down(j) < down(k)
    BY <1>1 DEF RowsRise, Cells
  <2>2. Cells(all, side) = Cells(above, side) \union lower
    <3>1. \A k \in 1..n + Len(below) : k \in 1..n \/ (k - n \in 1..Len(below) /\ k = n + (k - n))
      BY <1>1
    <3>2. \A k \in 1..n : k \in 1..n + Len(below)
      BY <1>1
    <3>3. \A k \in 1..Len(below) : n + k \in 1..n + Len(below)
      BY <1>1
    <3>4. \A k \in Cells(all, side) : k \in Cells(above, side) \union lower
      <4>1. SUFFICES ASSUME NEW k \in Cells(all, side)
                     PROVE  k \in Cells(above, side) \/ \E h \in Cells(below, side) : k = n + h
        OBVIOUS
      <4>2. k \in 1..n + Len(below) /\ all[k][side] # Blank
        BY <1>1 DEF Cells
      <4>3. CASE k \in 1..n
        BY <1>1, <4>2, <4>3 DEF Cells
      <4>4. CASE k - n \in 1..Len(below) /\ k = n + (k - n)
        <5>1. all[k] = below[k - n]
          BY <1>1, <4>4
        <5>2. k - n \in Cells(below, side)
          BY <1>1, <4>2, <4>4, <5>1 DEF Cells
        <5> QED
          BY <4>4, <5>2
      <4> QED
        BY <3>1, <4>2, <4>3, <4>4
    <3>5. \A k \in Cells(above, side) : k \in Cells(all, side)
      BY <1>1, <3>2 DEF Cells
    <3>6. \A k \in Cells(below, side) : n + k \in Cells(all, side)
      BY <1>1, <3>3 DEF Cells
    <3> QED
      BY <3>4, <3>5, <3>6
  <2>3. \A k \in lower : \E h \in Cells(below, side) : k = n + h /\ all[k] = below[h]
    BY <2>1
  <2>4. Told(all, side) = Told(above, side) \union Told(below, side)
    <3>1. Told(all, side) = {<<all[k][side][side], all[k][side].text>> : k \in Cells(above, side)}
                            \union {<<all[k][side][side], all[k][side].text>> : k \in lower}
      BY <2>2 DEF Told
    <3>2. {<<all[k][side][side], all[k][side].text>> : k \in Cells(above, side)}
            = Told(above, side)
      BY <2>1 DEF Told
    <3>3. {<<all[k][side][side], all[k][side].text>> : k \in lower} = Told(below, side)
      <4>1. \A k \in lower : \E h \in Cells(below, side) : all[k] = below[h]
        BY <2>3
      <4>2. \A h \in Cells(below, side) : \E k \in lower : all[k] = below[h]
        BY <2>1
      <4> HIDE DEF lower
      <4> QED
        BY <4>1, <4>2 DEF Told
    <3> QED
      BY <3>1, <3>2, <3>3
  <2>5. \A j \in Cells(above, side), k \in Cells(below, side) : up(j) < down(k)
    <3>1. \A j \in Cells(above, side) : <<up(j), above[j][side].text>> \in Told(above, side)
      BY DEF Told
    <3>2. \A k \in Cells(below, side) : <<down(k), below[k][side].text>> \in Told(below, side)
      BY DEF Told
    <3> QED
      BY <3>1, <3>2
  <2> DEFINE at(k) == all[k][side][side]
  <2>6. /\ \A k \in Cells(above, side) : at(k) = up(k)
        /\ \A k \in Cells(below, side) : at(n + k) = down(k)
    BY <2>1
  <2>7. /\ \A j, k \in Cells(below, side) : n + j < n + k => j < k
        /\ \A j \in Cells(above, side), k \in Cells(below, side) : ~ n + k < j
    <3>1. /\ \A j, k \in 1..Len(below) : n + j < n + k => j < k
          /\ \A j \in 1..n, k \in 1..Len(below) : ~ n + k < j
      BY <1>1
    <3> QED
      BY <2>1, <3>1
  <2> HIDE DEF up, down, at
  <2>8. \A k \in Cells(all, side) : at(k) \in Nat
    BY <2>1, <2>2, <2>6
  <2>9. ASSUME NEW j \in Cells(all, side), NEW k \in Cells(all, side), j < k
        PROVE  at(j) < at(k)
    <3>1. CASE j \in Cells(above, side) /\ k \in Cells(above, side)
      BY <2>1, <2>6, <2>9, <3>1
    <3>2. CASE j \in Cells(above, side) /\ k \in lower
      BY <2>5, <2>6, <3>2
    <3>3. CASE j \in lower /\ k \in Cells(above, side)
      BY <2>7, <2>9, <3>3
    <3>4. CASE j \in lower /\ k \in lower
      BY <2>1, <2>6, <2>7, <2>9, <3>4
    <3> QED
      BY <2>2, <3>1, <3>2, <3>3, <3>4
  <2> QED
    BY <2>4, <2>8, <2>9 DEF at
<1> QED
  BY <1>1, <1>2 DEF RowsRise, all

\* A row below others.
LEMMA RowAdded ==
  ASSUME NEW rows, RowsRise(rows), NEW row \in TableRows,
         \A side \in Sides : row[side] # Blank =>
           row[side][side] \in Nat /\ \A p \in Told(rows, side) : p[1] < row[side][side]
  PROVE  /\ RowsRise(Append(rows, row))
         /\ \A side \in Sides : Told(Append(rows, row), side) =
              IF row[side] = Blank THEN Told(rows, side)
              ELSE Told(rows, side) \union {<<row[side][side], row[side].text>>}
<1> DEFINE one == <<row>>
<1>1. one \in Seq(TableRows) /\ DOMAIN one = {1} /\ one[1] = row
  OBVIOUS
<1>2. Append(rows, row) = rows \o one
  <2>1. rows \in Seq(TableRows)
    BY DEF RowsRise
  <2> QED
    BY <2>1, AppendIsConcat
<1> HIDE DEF one
<1>3. ASSUME NEW side \in Sides
      PROVE  IF row[side] = Blank THEN Cells(one, side) = {} /\ Told(one, side) = {}
             ELSE /\ Cells(one, side) = {1}
                  /\ Told(one, side) = {<<row[side][side], row[side].text>>}
  <2>1. CASE row[side] = Blank
    <3>1. Cells(one, side) = {}
      BY <1>1, <2>1 DEF Cells
    <3> QED
      BY <2>1, <3>1 DEF Told
  <2>2. CASE row[side] # Blank
    <3>1. Cells(one, side) = {1}
      BY <1>1, <2>2 DEF Cells
    <3> QED
      BY <1>1, <2>2, <3>1 DEF Told
  <2> QED
    BY <2>1, <2>2
<1>4. RowsRise(one)
  <2>1. ASSUME NEW side \in Sides
        PROVE  /\ \A k \in Cells(one, side) : one[k][side][side] \in Nat
               /\ \A j, k \in Cells(one, side) : j < k => one[j][side][side] < one[k][side][side]
    <3>1. \A k \in Cells(one, side) : k = 1 /\ row[side] # Blank
      BY <1>3
    <3>2. ~ 1 < 1
      OBVIOUS
    <3> QED
      BY <1>1, <3>1, <3>2
  <2> QED
    BY <1>1, <2>1 DEF RowsRise
<1>5. \A side \in Sides : \A p \in Told(rows, side), q \in Told(one, side) : p[1] < q[1]
  BY <1>3
<1>6. /\ RowsRise(rows \o one)
      /\ \A side \in Sides : Told(rows \o one, side) = Told(rows, side) \union Told(one, side)
  BY <1>4, <1>5, RowsJoined
<1> QED
  BY <1>2, <1>3, <1>6

\* A run of changes: lines taken out, and lines put in.
Run(removed, added) ==
  /\ Rising(removed) /\ \A k \in DOMAIN removed : removed[k].kind = "del"
  /\ Rising(added) /\ \A k \in DOMAIN added : added[k].kind = "add"
Waiting(removed, added) == [old |-> removed, new |-> added]

\* The lines of a run, side by side, are rows that show them.
LEMMA BesideShows ==
  ASSUME NEW removed, NEW added, Run(removed, added)
  PROVE  /\ RowsRise(Beside(removed, added))
         /\ \A side \in Sides :
              Told(Beside(removed, added), side) = Numbers(Waiting(removed, added)[side], side)
<1> DEFINE rows == Beside(removed, added)
           m == Max({Len(removed), Len(added)})
           wait(side) == Waiting(removed, added)[side]
<1>1. /\ removed \in Seq(FileLines) /\ added \in Seq(FileLines)
      /\ Len(removed) \in Nat /\ Len(added) \in Nat
      /\ DOMAIN removed = 1..Len(removed) /\ DOMAIN added = 1..Len(added)
  BY DEF Run, Rising
<1>2. m \in Nat /\ Len(removed) <= m /\ Len(added) <= m
  BY <1>1, LargerOf
<1>3. rows = [k \in 1..m |-> Row(IF k <= Len(removed) THEN removed[k] ELSE Blank,
                                 IF k <= Len(added) THEN added[k] ELSE Blank)]
  BY DEF Beside
<1> HIDE DEF rows, m
<1>4. \A k \in 1..m : /\ DOMAIN rows[k] = {"old", "new"}
                      /\ rows[k].old = IF k \in 1..Len(removed) THEN removed[k] ELSE Blank
                      /\ rows[k].new = IF k \in 1..Len(added) THEN added[k] ELSE Blank
                      /\ rows[k] \in [old : FileLines \union {Blank},
                                      new : FileLines \union {Blank}]
  <2>1. SUFFICES ASSUME NEW k \in 1..m
                 PROVE  /\ DOMAIN rows[k] = {"old", "new"}
                        /\ rows[k].old = IF k \in 1..Len(removed) THEN removed[k] ELSE Blank
                        /\ rows[k].new = IF k \in 1..Len(added) THEN added[k] ELSE Blank
                        /\ rows[k] \in [old : FileLines \union {Blank},
                                      new : FileLines \union {Blank}]
    OBVIOUS
  <2> DEFINE old == IF k \in 1..Len(removed) THEN removed[k] ELSE Blank
             new == IF k \in 1..Len(added) THEN added[k] ELSE Blank
  <2>2. (k <= Len(removed) <=> k \in 1..Len(removed)) /\ (k <= Len(added) <=> k \in 1..Len(added))
    BY <1>1, <1>2
  <2>3. rows[k] = [old |-> old, new |-> new]
    BY <1>3, <2>2 DEF Row
  <2>4. old \in FileLines \union {Blank} /\ new \in FileLines \union {Blank}
    BY <1>1
  <2> HIDE DEF old, new
  <2>5. /\ DOMAIN rows[k] = {"old", "new"} /\ rows[k].old = old /\ rows[k].new = new
        /\ rows[k] \in [old : FileLines \union {Blank}, new : FileLines \union {Blank}]
    BY <2>3, <2>4
  <2> QED
    BY <2>5 DEF old, new
<1>5. rows \in Seq(TableRows) /\ DOMAIN rows = 1..m
  <2>1. \A k \in 1..m : rows[k] \in TableRows
    <3>1. \A k \in 1..m : rows[k].old # Blank /\ rows[k].new # Blank =>
            rows[k].old.kind = "del" /\ rows[k].new.kind = "add"
      BY <1>1, <1>4 DEF Run
    <3> QED
      BY <1>4, <3>1 DEF TableRows
  <2>2. DOMAIN rows = 1..m /\ rows = [k \in 1..m |-> rows[k]]
    BY <1>3
  <2> QED
    BY <1>2, <2>1, <2>2
<1>6. ASSUME NEW side \in Sides
      PROVE  /\ Cells(rows, side) = On(wait(side), side)
             /\ \A k \in Cells(rows, side) : rows[k][side] = wait(side)[k]
             /\ Rising(wait(side))
  <2>1. CASE side = "old"
    <3>1. wait(side) = removed /\ Showing[side] = {"del", "ctx"}
      BY <2>1 DEF Waiting, Showing
    <3>2. On(removed, side) = 1..Len(removed)
      BY <1>1, <3>1 DEF On, Run
    <3>3. \A k \in 1..Len(removed) : removed[k] # Blank /\ k \in 1..m
      BY <1>1, <1>2, DiffAssumption
    <3>4. Cells(rows, side) = 1..Len(removed)
      BY <1>4, <1>5, <2>1, <3>3 DEF Cells
    <3> QED
      BY <1>4, <2>1, <3>1, <3>2, <3>3, <3>4 DEF Run
  <2>2. CASE side = "new"
    <3>1. wait(side) = added /\ Showing[side] = {"add", "ctx"}
      BY <2>2 DEF Waiting, Showing
    <3>2. On(added, side) = 1..Len(added)
      BY <1>1, <3>1 DEF On, Run
    <3>3. \A k \in 1..Len(added) : added[k] # Blank /\ k \in 1..m
      BY <1>1, <1>2, DiffAssumption
    <3>4. Cells(rows, side) = 1..Len(added)
      BY <1>4, <1>5, <2>2, <3>3 DEF Cells
    <3> QED
      BY <1>4, <2>2, <3>1, <3>2, <3>3, <3>4 DEF Run
  <2> QED
    BY <2>1, <2>2 DEF Sides
<1> HIDE DEF wait
<1>7. ASSUME NEW side \in Sides
      PROVE  /\ Told(rows, side) = Numbers(wait(side), side)
             /\ \A k \in Cells(rows, side) : rows[k][side][side] \in Nat
             /\ \A j, k \in Cells(rows, side) : j < k => rows[j][side][side] < rows[k][side][side]
  <2>1. /\ \A k \in On(wait(side), side) : wait(side)[k][side] \in Nat
        /\ \A j, k \in On(wait(side), side) : j < k => wait(side)[j][side] < wait(side)[k][side]
    BY <1>6 DEF Rising
  <2>2. Told(rows, side) = Numbers(wait(side), side)
    BY <1>6 DEF Told, Numbers
  <2> QED
    BY <1>6, <2>1, <2>2
<1>8. RowsRise(rows)
  BY <1>5, <1>7 DEF RowsRise
<1> QED
  BY <1>7, <1>8 DEF rows, wait

\* What the first lines of a file hold of a version.
NumbersTo(lines, n, side) ==
  {<<lines[k][side], lines[k].text>> : k \in {h \in On(lines, side) : h <= n}}

\* The first lines of a file have been placed: in rows, or in the run being gathered.
Placed(state, lines, n) ==
  /\ DOMAIN state = {"rows", "removed", "added"}
  /\ RowsRise(state.rows)
  /\ Run(state.removed, state.added)
  /\ \A side \in Sides :
       LET waiting == Numbers(Waiting(state.removed, state.added)[side], side)
       IN  /\ NumbersTo(lines, n, side) = Told(state.rows, side) \union waiting
           /\ \A p \in Told(state.rows, side), q \in waiting : p[1] < q[1]

\* What one line more holds.
LEMMA NumbersToGrow ==
  ASSUME NEW lines, Rising(lines), NEW n \in 1..Len(lines), NEW side \in Sides
  PROVE  IF lines[n].kind \in Showing[side]
         THEN /\ NumbersTo(lines, n, side) = NumbersTo(lines, n - 1, side)
                                               \union {<<lines[n][side], lines[n].text>>}
              /\ lines[n][side] \in Nat
              /\ \A p \in NumbersTo(lines, n - 1, side) : p[1] < lines[n][side]
         ELSE NumbersTo(lines, n, side) = NumbersTo(lines, n - 1, side)
<1> DEFINE upto(k) == {h \in On(lines, side) : h <= k}
<1>1. /\ lines \in Seq(FileLines) /\ Len(lines) \in Nat /\ DOMAIN lines = 1..Len(lines)
      /\ \A k \in On(lines, side) : lines[k][side] \in Nat
      /\ \A j, k \in On(lines, side) : j < k => lines[j][side] < lines[k][side]
  BY DEF Rising
<1>2. \A k \in 1..Len(lines) : (k <= n <=> k <= n - 1 \/ k = n) /\ (k <= n - 1 => k < n)
  BY <1>1
<1>3. On(lines, side) \subseteq 1..Len(lines)
  BY <1>1 DEF On
<1>4. \A p \in NumbersTo(lines, n - 1, side) :
        \E h \in upto(n - 1) : p = <<lines[h][side], lines[h].text>>
  BY DEF NumbersTo
<1>5. CASE lines[n].kind \in Showing[side]
  <2>1. n \in On(lines, side)
    BY <1>1, <1>5 DEF On
  <2>2. upto(n) = upto(n - 1) \union {n}
    BY <1>2, <1>3, <2>1
  <2>3. \A h \in upto(n - 1) : lines[h][side] < lines[n][side]
    BY <1>1, <1>2, <1>3, <2>1
  <2>4. NumbersTo(lines, n, side) = NumbersTo(lines, n - 1, side)
                                      \union {<<lines[n][side], lines[n].text>>}
    BY <2>2 DEF NumbersTo
  <2>5. \A p \in NumbersTo(lines, n - 1, side) : p[1] < lines[n][side]
    BY <1>4, <2>3
  <2> QED
    BY <1>1, <1>5, <2>1, <2>4, <2>5
<1>6. CASE lines[n].kind \notin Showing[side]
  <2>1. upto(n) = upto(n - 1)
    BY <1>2, <1>3, <1>6 DEF On
  <2> QED
    BY <1>6, <2>1 DEF NumbersTo
<1> QED
  BY <1>5, <1>6

\* Once the run is closed, the rows show what the lines hold.
LEMMA RunCloses ==
  ASSUME NEW state, NEW lines, NEW n, Placed(state, lines, n)
  PROVE  LET rows == state.rows \o Beside(state.removed, state.added)
         IN  /\ RowsRise(rows)
             /\ \A side \in Sides : Told(rows, side) = NumbersTo(lines, n, side)
<1> DEFINE below == Beside(state.removed, state.added)
<1>1. /\ RowsRise(state.rows) /\ Run(state.removed, state.added)
      /\ \A side \in Sides :
           LET waiting == Numbers(Waiting(state.removed, state.added)[side], side)
           IN  /\ NumbersTo(lines, n, side) = Told(state.rows, side) \union waiting
               /\ \A p \in Told(state.rows, side), q \in waiting : p[1] < q[1]
  BY DEF Placed
<1>2. /\ RowsRise(below)
      /\ \A side \in Sides :
           Told(below, side) = Numbers(Waiting(state.removed, state.added)[side], side)
  BY <1>1, BesideShows
<1> HIDE DEF below
<1>3. \A side \in Sides : \A p \in Told(state.rows, side), q \in Told(below, side) : p[1] < q[1]
  BY <1>1, <1>2
<1>4. /\ RowsRise(state.rows \o below)
      /\ \A side \in Sides : Told(state.rows \o below, side)
                               = Told(state.rows, side) \union Told(below, side)
  BY <1>1, <1>2, <1>3, RowsJoined
<1> QED
  BY <1>1, <1>2, <1>4 DEF below

\* A line taken out, or put in, waits for the end of its run.
LEMMA ChangeIsPlaced ==
  ASSUME NEW lines, Rising(lines), NEW n \in 1..Len(lines),
         NEW state, Placed(state, lines, n - 1),
         lines[n].kind \in {"del", "add"}
  PROVE  Placed(Place(state, lines[n]), lines, n)
<1> DEFINE line == lines[n]
           next == Place(state, line)
           side == IF line.kind = "del" THEN "old" ELSE "new"
           wait(s) == Waiting(state.removed, state.added)[s]
           more(s) == Waiting(next.removed, next.added)[s]
<1>1. /\ DOMAIN state = {"rows", "removed", "added"}
      /\ RowsRise(state.rows)
      /\ Rising(state.removed) /\ \A k \in DOMAIN state.removed : state.removed[k].kind = "del"
      /\ Rising(state.added) /\ \A k \in DOMAIN state.added : state.added[k].kind = "add"
      /\ \A s \in Sides :
           /\ NumbersTo(lines, n - 1, s) = Told(state.rows, s) \union Numbers(wait(s), s)
           /\ \A p \in Told(state.rows, s), q \in Numbers(wait(s), s) : p[1] < q[1]
  BY DEF Placed, Run
<1>2. line \in FileLines
  BY DEF Rising
<1>3. /\ side \in Sides /\ line.kind \in Showing[side]
      /\ \A s \in Sides : s # side => line.kind \notin Showing[s]
  BY DEF Sides, Showing
<1>4. /\ NumbersTo(lines, n, side) = NumbersTo(lines, n - 1, side)
                                       \union {<<line[side], line.text>>}
      /\ line[side] \in Nat
      /\ \A p \in NumbersTo(lines, n - 1, side) : p[1] < line[side]
      /\ \A s \in Sides : s # side => NumbersTo(lines, n, s) = NumbersTo(lines, n - 1, s)
  BY <1>3, NumbersToGrow
<1>5. /\ DOMAIN next = {"rows", "removed", "added"}
      /\ next.rows = state.rows
      /\ next.removed = IF line.kind = "del" THEN Append(state.removed, line) ELSE state.removed
      /\ next.added = IF line.kind = "add" THEN Append(state.added, line) ELSE state.added
  <2>1. CASE line.kind = "del"
    <3>1. next = [state EXCEPT !.removed = Append(@, line)]
      BY <2>1 DEF Place
    <3> HIDE DEF next, line
    <3> QED
      BY <1>1, <2>1, <3>1
  <2>2. CASE line.kind = "add"
    <3>1. next = [state EXCEPT !.added = Append(@, line)]
      BY <2>2 DEF Place
    <3> HIDE DEF next, line
    <3> QED
      BY <1>1, <2>2, <3>1
  <2> QED
    BY <2>1, <2>2
<1>6. /\ more(side) = Append(wait(side), line)
      /\ \A s \in Sides : s # side => more(s) = wait(s)
      /\ wait("old") = state.removed /\ wait("new") = state.added
      /\ more("old") = next.removed /\ more("new") = next.added
  <2> HIDE DEF next
  <2>1. \A a, b : Waiting(a, b)["old"] = a /\ Waiting(a, b)["new"] = b
    BY DEF Waiting
  <2>2. /\ wait("old") = state.removed /\ wait("new") = state.added
        /\ more("old") = next.removed /\ more("new") = next.added
    BY <2>1
  <2> HIDE DEF wait, more
  <2>3. CASE line.kind = "del"
    BY <1>5, <2>2, <2>3 DEF Sides
  <2>4. CASE line.kind # "del"
    BY <1>5, <2>2, <2>4 DEF Sides
  <2> QED
    BY <2>2, <2>3, <2>4
<1> HIDE DEF next, line, wait, more, side
<1>7. \A s \in Sides : Rising(wait(s))
  BY <1>1, <1>6 DEF Sides
<1>8. \A p \in Numbers(wait(side), side) : p[1] < line[side]
  BY <1>1, <1>3, <1>4
<1>9. Rising(more(side))
  <2>1. \A s \in Sides : line.kind \in Showing[s] =>
          line[s] \in Nat /\ \A p \in Numbers(wait(side), s) : p[1] < line[s]
    BY <1>3, <1>4, <1>8
  <2> QED
    BY <1>2, <1>3, <1>6, <1>7, <2>1, LineAddedRises
<1>10. Numbers(more(side), side) = Numbers(wait(side), side) \union {<<line[side], line.text>>}
  BY <1>2, <1>3, <1>6, <1>7, LineAdded
<1>11. Run(next.removed, next.added)
  <2>1. \A s \in Sides : Rising(more(s))
    BY <1>6, <1>7, <1>9
  <2>2. Rising(next.removed) /\ Rising(next.added)
    BY <1>6, <2>1 DEF Sides
  <2>3. \A q \in Seq(FileLines), l \in FileLines :
          \A k \in DOMAIN Append(q, l) :
            (k \in DOMAIN q /\ Append(q, l)[k] = q[k]) \/ Append(q, l)[k] = l
    OBVIOUS
  <2>4. state.removed \in Seq(FileLines) /\ state.added \in Seq(FileLines)
    BY <1>1 DEF Rising
  <2>5. \A k \in DOMAIN next.removed : next.removed[k].kind = "del"
    BY <1>1, <1>2, <1>5, <2>3, <2>4
  <2>6. \A k \in DOMAIN next.added : next.added[k].kind = "add"
    BY <1>1, <1>2, <1>5, <2>3, <2>4
  <2> QED
    BY <2>2, <2>5, <2>6 DEF Run
<1>12. ASSUME NEW s \in Sides
       PROVE  /\ NumbersTo(lines, n, s) = Told(next.rows, s) \union Numbers(more(s), s)
              /\ \A p \in Told(next.rows, s), q \in Numbers(more(s), s) : p[1] < q[1]
  <2>1. CASE s = side
    <3>1. \A p \in Told(state.rows, side) : p[1] < line[side]
      BY <1>1, <1>3, <1>4
    <3> QED
      BY <1>1, <1>4, <1>5, <1>10, <2>1, <3>1
  <2>2. CASE s # side
    BY <1>1, <1>4, <1>5, <1>6, <2>2
  <2> QED
    BY <2>1, <2>2
<1> QED
  BY <1>1, <1>5, <1>11, <1>12 DEF Placed, more, next, line

\* A line that was kept, or the header of a hunk, closes the run and has its own row.
LEMMA OtherIsPlaced ==
  ASSUME NEW lines, Rising(lines), NEW n \in 1..Len(lines),
         NEW state, Placed(state, lines, n - 1),
         lines[n].kind \notin {"del", "add"}
  PROVE  Placed(Place(state, lines[n]), lines, n)
<1> DEFINE line == lines[n]
           next == Place(state, line)
           rows == state.rows \o Beside(state.removed, state.added)
           row == IF line.kind = "hunk" THEN Row(Blank, Blank) ELSE Row(line, line)
<1>1. RowsRise(rows) /\ \A s \in Sides : Told(rows, s) = NumbersTo(lines, n - 1, s)
  BY RunCloses
<1>2. next = [rows |-> Append(rows, row), removed |-> <<>>, added |-> <<>>]
  BY DEF Place
<1>3. line \in FileLines /\ line # Blank /\ line.kind \in {"hunk", "ctx"}
  <2>1. line \in FileLines
    BY DEF Rising
  <2> QED
    BY <2>1, DiffAssumption DEF FileLines
<1>4. row \in TableRows /\ \A s \in Sides : row[s] = IF line.kind = "hunk" THEN Blank ELSE line
  <2>1. CASE line.kind = "hunk"
    BY <2>1 DEF Row, TableRows, Sides
  <2>2. CASE line.kind # "hunk"
    <3> HIDE DEF line
    <3> QED
      BY <1>3, <2>2 DEF Row, TableRows, Sides
  <2> QED
    BY <2>1, <2>2
<1>5. \A s \in Sides : line.kind \in Showing[s] <=> line.kind # "hunk"
  BY <1>3 DEF Sides, Showing
<1> HIDE DEF rows, row, next
<1>6. ASSUME NEW s \in Sides
      PROVE  IF line.kind # "hunk"
             THEN /\ NumbersTo(lines, n, s) = NumbersTo(lines, n - 1, s)
                                                \union {<<line[s], line.text>>}
                  /\ line[s] \in Nat
                  /\ \A p \in NumbersTo(lines, n - 1, s) : p[1] < line[s]
             ELSE NumbersTo(lines, n, s) = NumbersTo(lines, n - 1, s)
  BY <1>5, NumbersToGrow
<1> HIDE DEF line
<1>7. \A s \in Sides : row[s] # Blank =>
        row[s][s] \in Nat /\ \A p \in Told(rows, s) : p[1] < row[s][s]
  BY <1>1, <1>4, <1>6
<1>8. /\ RowsRise(Append(rows, row))
      /\ \A s \in Sides : Told(Append(rows, row), s) =
           IF row[s] = Blank THEN Told(rows, s)
           ELSE Told(rows, s) \union {<<row[s][s], row[s].text>>}
  BY <1>1, <1>4, <1>7, RowAdded
<1>9. \A s \in Sides : Told(Append(rows, row), s) = NumbersTo(lines, n, s)
  BY <1>1, <1>3, <1>4, <1>6, <1>8
<1>10. /\ DOMAIN next = {"rows", "removed", "added"}
       /\ next.rows = Append(rows, row) /\ next.removed = <<>> /\ next.added = <<>>
  BY <1>2
<1>11. Run(<<>>, <<>>) /\ \A s \in Sides : Numbers(Waiting(<<>>, <<>>)[s], s) = {}
  <2>1. <<>> \in Seq(FileLines) /\ DOMAIN <<>> = {}
    OBVIOUS
  <2>2. \A s \in Sides : Waiting(<<>>, <<>>)[s] = <<>>
    BY DEF Sides, Waiting
  <2> QED
    BY <2>1, <2>2 DEF Run, Rising, On, Numbers
<1> QED
  BY <1>8, <1>9, <1>10, <1>11 DEF Placed, next, line

\* Whether the first k lines can be placed one after the other.
PlacedUpto(lines, k) ==
  \E placed : placed = [n \in 0..k |->
    IF n = 0 THEN [rows |-> <<>>, removed |-> <<>>, added |-> <<>>]
    ELSE Place(placed[n - 1], lines[n])]

\* The lines of a file can be placed one after the other.
LEMMA LinesCanBePlaced ==
  ASSUME NEW lines
  PROVE  \A k \in Nat : PlacedUpto(lines, k)
<1> DEFINE start == [rows |-> <<>>, removed |-> <<>>, added |-> <<>>]
           bad == {k \in Nat : ~PlacedUpto(lines, k)}
<1>1. SUFFICES ASSUME bad # {}
               PROVE  FALSE
  OBVIOUS
<1>2. PICK k \in bad : \A j \in bad : ~ (j < k)
  BY <1>1, LeastNumber
<1>3. CASE k = 0
  <2> DEFINE placed == [n \in 0..0 |-> start]
  <2>1. placed = [n \in 0..0 |-> IF n = 0 THEN start ELSE Place(placed[n - 1], lines[n])]
    OBVIOUS
  <2> HIDE DEF placed
  <2>2. PlacedUpto(lines, 0)
    BY <2>1 DEF PlacedUpto
  <2> QED
    BY <1>2, <1>3, <2>2
<1>4. CASE k # 0
  <2>1. k \in Nat /\ k - 1 \in Nat /\ k - 1 < k
    BY <1>2, <1>4
  <2>2. PlacedUpto(lines, k - 1)
    BY <1>2, <2>1
  <2>3. PICK placed : placed = [n \in 0..(k - 1) |->
                        IF n = 0 THEN start ELSE Place(placed[n - 1], lines[n])]
    BY <2>2 DEF PlacedUpto
  <2> DEFINE more == [n \in 0..k |-> IF n < k THEN placed[n] ELSE Place(placed[k - 1], lines[k])]
  <2> HIDE DEF start
  <2>4. ASSUME NEW n \in 0..k
        PROVE  more[n] = IF n = 0 THEN start ELSE Place(more[n - 1], lines[n])
    <3>1. CASE n = k
      BY <1>4, <2>1, <3>1
    <3>2. CASE n < k /\ n # 0
      BY <2>1, <2>3, <3>2
    <3>3. CASE n < k /\ n = 0
      BY <2>1, <2>3, <3>3
    <3> QED
      BY <2>1, <3>1, <3>2, <3>3
  <2>5. more = [n \in 0..k |-> more[n]]
    OBVIOUS
  <2> HIDE DEF more
  <2>6. more = [n \in 0..k |-> IF n = 0 THEN start ELSE Place(more[n - 1], lines[n])]
    BY <2>4, <2>5
  <2>7. PlacedUpto(lines, k)
    BY <2>6 DEF PlacedUpto, start
  <2> QED
    BY <1>2, <2>7
<1> QED
  BY <1>3, <1>4

\* The rows of a file show what its lines hold.
LEMMA RowsShowLines ==
  ASSUME NEW lines, Rising(lines)
  PROVE  /\ RowsRise(Rows(lines))
         /\ \A side \in Sides : Told(Rows(lines), side) = Numbers(lines, side)
<1> DEFINE start == [rows |-> <<>>, removed |-> <<>>, added |-> <<>>]
           n == Len(lines)
           placed == CHOOSE placed : placed = [k \in 0..n |->
                       IF k = 0 THEN start ELSE Place(placed[k - 1], lines[k])]
<1>1. Rows(lines) = placed[n].rows \o Beside(placed[n].removed, placed[n].added)
  BY DEF Rows
<1>2. n \in Nat /\ DOMAIN lines = 1..n
  BY DEF Rising
<1>3. \E p : p = [k \in 0..n |-> IF k = 0 THEN start ELSE Place(p[k - 1], lines[k])]
  <2>1. PlacedUpto(lines, n)
    BY <1>2, LinesCanBePlaced
  <2> QED
    BY <2>1 DEF PlacedUpto
<1>4. placed = [k \in 0..n |-> IF k = 0 THEN start ELSE Place(placed[k - 1], lines[k])]
  BY <1>3
<1>5. DOMAIN start = {"rows", "removed", "added"}
      /\ start.rows = <<>> /\ start.removed = <<>> /\ start.added = <<>>
  OBVIOUS
<1> HIDE DEF placed, start
<1>6. Placed(start, lines, 0)
  <2>1. /\ <<>> \in Seq(FileLines) /\ <<>> \in Seq(TableRows) /\ DOMAIN <<>> = {}
    OBVIOUS
  <2>2. \A s \in Sides : Waiting(<<>>, <<>>)[s] = <<>>
    BY DEF Sides, Waiting
  <2>3. RowsRise(<<>>) /\ \A s \in Sides : Told(<<>>, s) = {} /\ Numbers(<<>>, s) = {}
    BY <2>1 DEF RowsRise, Cells, Told, Numbers, On
  <2>4. Run(<<>>, <<>>)
    BY <2>1 DEF Run, Rising, On
  <2>5. \A s \in Sides : NumbersTo(lines, 0, s) = {}
    <3>1. \A k \in 1..n : ~ k <= 0
      BY <1>2
    <3>2. \A s \in Sides : {h \in On(lines, s) : h <= 0} = {}
      BY <1>2, <3>1 DEF On
    <3> QED
      BY <3>2 DEF NumbersTo
  <2> QED
    BY <1>5, <2>2, <2>3, <2>4, <2>5 DEF Placed
<1> DEFINE bad == {k \in 0..n : ~Placed(placed[k], lines, k)}
<1>7. bad = {}
  <2>1. SUFFICES ASSUME bad # {}
                 PROVE  FALSE
    OBVIOUS
  <2>2. bad \subseteq Nat
    BY <1>2
  <2>3. PICK k \in bad : \A j \in bad : ~ (j < k)
    BY <2>1, <2>2, LeastNumber
  <2>4. k # 0
    BY <1>2, <1>4, <1>6, <2>3
  <2>5. k \in 1..n /\ k \in 0..n /\ k - 1 \in 0..n /\ k - 1 < k
    BY <1>2, <2>3, <2>4
  <2>6. Placed(placed[k - 1], lines, k - 1)
    BY <2>3, <2>5
  <2>7. placed[k] = Place(placed[k - 1], lines[k])
    BY <1>4, <2>4, <2>5
  <2>8. Placed(Place(placed[k - 1], lines[k]), lines, k)
    BY <2>5, <2>6, ChangeIsPlaced, OtherIsPlaced
  <2> QED
    BY <2>3, <2>7, <2>8
<1>8. Placed(placed[n], lines, n)
  <2>1. n \in 0..n
    BY <1>2
  <2> QED
    BY <1>7, <2>1
<1>9. \A side \in Sides : NumbersTo(lines, n, side) = Numbers(lines, side)
  <2>1. \A k \in 1..n : k <= n
    BY <1>2
  <2>2. \A side \in Sides : {h \in On(lines, side) : h <= n} = On(lines, side)
    BY <1>2, <2>1 DEF On
  <2> QED
    BY <2>2 DEF NumbersTo, Numbers
<1> QED
  BY <1>1, <1>8, <1>9, RunCloses

\* The tables of a patch.
Tables(changes) ==
  LET files == Parse(Patch(changes)) IN [i \in DOMAIN files |-> Rows(files[i])]

\* The tables of a patch show both versions of every file.
LEMMA TablesShowBothVersions ==
  ASSUME NEW changes \in Seq(ChangesOfFiles)
  PROVE  /\ Len(Tables(changes)) = TableOf(changes, Len(changes))
         /\ \A f \in {g \in DOMAIN changes : OnItsOwn(changes, g)} :
              LET table == Tables(changes)[TableOf(changes, f)]
              IN  /\ RowsRise(table)
                  /\ \A side \in Sides :
                       Told(table, side) =
                         {<<Number(changes[f].script, i, side), changes[f].script[i].text>> :
                            i \in InHunks(changes[f], side)}
<1> DEFINE files == Parse(Patch(changes))
           tables == Tables(changes)
           n == Len(changes)
<1>1. PICK state : files = Closed(state) /\ FilesRead(state, changes, n)
  BY PatchIsRead
<1>2. n \in Nat /\ DOMAIN changes = 1..n /\ \A f \in 1..n : changes[f] \in ChangesOfFiles
  OBVIOUS
<1>3. /\ Len(files) = TableOf(changes, n)
      /\ \A g \in 1..n : Plainly(changes[g]) /\ (g = n \/ Plainly(changes[g + 1])) =>
           WellRead(files[TableOf(changes, g)], changes[g])
  BY <1>1 DEF FilesRead
<1>4. files \in Seq(Seq(FileLines))
  <2>1. state.files \in Seq(Seq(FileLines)) /\ state.lines \in Seq(FileLines)
    BY <1>1 DEF FilesRead, States
  <2>2. Append(state.files, state.lines) \in Seq(Seq(FileLines))
    BY <2>1
  <2> QED
    BY <1>1, <2>1, <2>2 DEF Closed
<1>5. tables = [i \in DOMAIN files |-> Rows(files[i])]
  BY DEF Tables
<1> HIDE DEF files, tables, n
<1>6. DOMAIN files = 1..Len(files) /\ Len(files) \in Nat
  BY <1>4
<1>7. Len(tables) = Len(files)
  BY <1>5, <1>6
<1>8. ASSUME NEW f \in 1..n, NEW side \in Sides
      PROVE  Due(changes[f], Len(changes[f].script), side) =
               {<<Number(changes[f].script, i, side), changes[f].script[i].text>> :
                  i \in InHunks(changes[f], side)}
  <2> DEFINE change == changes[f]
             length == Len(change.script)
  <2>1. change \in ChangesOfFiles
    BY <1>2
  <2> HIDE DEF change
  <2>2. \A i \in InHunks(change, side) : i <= length
    BY <2>1, ScriptShape DEF InHunks
  <2>3. {h \in InHunks(change, side) : h <= length} = InHunks(change, side)
    BY <2>2
  <2>4. Due(change, length, side) = {<<Number(change.script, i, side), change.script[i].text>> :
                                       i \in InHunks(change, side)}
    BY <2>3 DEF Due
  <2> QED
    BY <2>4 DEF change
<1>9. ASSUME NEW f \in 1..n, OnItsOwn(changes, f)
      PROVE  /\ RowsRise(tables[TableOf(changes, f)])
             /\ \A side \in Sides :
                  Told(tables[TableOf(changes, f)], side) =
                    {<<Number(changes[f].script, i, side), changes[f].script[i].text>> :
                       i \in InHunks(changes[f], side)}
  <2> DEFINE k == TableOf(changes, f)
  <2>1. Plainly(changes[f]) /\ (f = n \/ Plainly(changes[f + 1]))
    BY <1>9 DEF OnItsOwn, Plainly, n
  <2>2. k \in DOMAIN files
    BY <1>2, <1>3, <1>6, <2>1, TableIsThere
  <2>3. WellRead(files[k], changes[f])
    BY <1>3, <2>1
  <2> HIDE DEF k
  <2>4. tables[k] = Rows(files[k])
    BY <1>5, <2>2
  <2>5. RowsRise(Rows(files[k])) /\ \A side \in Sides : Told(Rows(files[k]), side) = Numbers(files[k], side)
    BY <2>3, RowsShowLines DEF WellRead
  <2>6. \A side \in Sides : Told(tables[k], side) = Due(changes[f], Len(changes[f].script), side)
    BY <2>3, <2>4, <2>5 DEF WellRead
  <2> QED
    BY <1>8, <2>4, <2>5, <2>6 DEF k
<1> QED
  BY <1>2, <1>3, <1>7, <1>9 DEF n, tables

\* Whatever the patch, its tables keep what is promised of them.
LEMMA RenderedShowsBothVersions ==
  ASSUME input \in Seq(ChangesOfFiles), output = Tables(input)
  PROVE  DiffShowsBothVersions
<1>1. /\ Len(output) = TableOf(input, Len(input))
      /\ \A f \in {g \in DOMAIN input : OnItsOwn(input, g)} :
           /\ RowsRise(output[TableOf(input, f)])
           /\ \A side \in Sides :
                Told(output[TableOf(input, f)], side) =
                  {<<Number(input[f].script, i, side), input[f].script[i].text>> :
                     i \in InHunks(input[f], side)}
  BY TablesShowBothVersions
<1>2. ASSUME NEW f \in {g \in DOMAIN input : OnItsOwn(input, g)}
      PROVE  LET rows   == output[TableOf(input, f)]
                 script == input[f].script
             IN  /\ \A side \in {"old", "new"} :
                      /\ {<<rows[k][side][side], rows[k][side].text>> : k \in Cells(rows, side)}
                           = {<<Number(script, i, side), script[i].text>> :
                                i \in InHunks(input[f], side)}
                      /\ \A j, k \in Cells(rows, side) :
                           j < k => rows[j][side][side] < rows[k][side][side]
                 /\ \A k \in Cells(rows, "old") \intersect Cells(rows, "new") :
                      \/ rows[k].old = rows[k].new
                      \/ rows[k].old.kind = "del" /\ rows[k].new.kind = "add"
  <2> DEFINE rows == output[TableOf(input, f)]
  <2>1. RowsRise(rows)
    BY <1>1
  <2>2. ASSUME NEW side \in {"old", "new"}
        PROVE  /\ {<<rows[k][side][side], rows[k][side].text>> : k \in Cells(rows, side)}
                    = {<<Number(input[f].script, i, side), input[f].script[i].text>> :
                         i \in InHunks(input[f], side)}
               /\ \A j, k \in Cells(rows, side) :
                    j < k => rows[j][side][side] < rows[k][side][side]
    <3>1. side \in Sides
      BY DEF Sides
    <3> QED
      BY <1>1, <2>1, <3>1 DEF RowsRise, Told
  <2>3. \A k \in Cells(rows, "old") \intersect Cells(rows, "new") :
          rows[k].old = rows[k].new \/ (rows[k].old.kind = "del" /\ rows[k].new.kind = "add")
    <3>1. \A k \in Cells(rows, "old") \intersect Cells(rows, "new") :
            rows[k] \in TableRows /\ rows[k].old # Blank /\ rows[k].new # Blank
      BY <2>1 DEF RowsRise, Cells
    <3> QED
      BY <3>1 DEF TableRows
  <2> QED
    BY <2>2, <2>3
<1> QED
  BY <1>1, <1>2 DEF DiffShowsBothVersions

-----------------------------------------------------------------------------
(***************************************************************************)
(* What the functions answer.                                              *)
(***************************************************************************)
\* What a task that is done has put out.
Answered ==
  /\ task = "pages" => input \in IssueLists /\ output \in {Pending, Screens(input)}
  /\ task = "python" => input \in PythonFiles
                        /\ output \in {Pending, PythonChunks(input.nodes, input.length)}
  /\ task = "markdown" => input \in MarkdownFiles /\ output \in {Pending, MarkdownChunks(input)}
  /\ task = "diff" => input \in Changes /\ output \in {Pending, Tables(input)}
  /\ task = "embed" => input \in Texts /\ output \in {Pending, Requests(input)}

\* A task keeps its input, and puts out nothing but what its function makes of it.
LEMMA AlgorithmsAnswered == AlgorithmsSpec => []Answered
<1>1. AlgorithmsInit => Answered
  BY DEF AlgorithmsInit, Answered
<1>2. Answered /\ [AlgorithmsNext]_<<task, input, output>> => Answered'
  <2>1. SUFFICES ASSUME Answered, [AlgorithmsNext]_<<task, input, output>>
                 PROVE  Answered'
    OBVIOUS
  <2>2. CASE ReadIssues
    BY <2>1, <2>2 DEF Answered, ReadIssues, Apply
  <2>3. CASE Embed
    BY <2>1, <2>3 DEF Answered, Embed, Apply
  <2>4. CASE ChunkPython
    BY <2>1, <2>4 DEF Answered, ChunkPython, Apply
  <2>5. CASE ChunkMarkdown
    BY <2>1, <2>5 DEF Answered, ChunkMarkdown, Apply
  <2>6. CASE RenderDiff
    BY <2>1, <2>6 DEF Answered, RenderDiff, Apply, Tables
  <2>7. CASE UNCHANGED <<task, input, output>>
    BY <2>1, <2>7 DEF Answered
  <2> QED
    BY <2>1, <2>2, <2>3, <2>4, <2>5, <2>6, <2>7 DEF AlgorithmsNext
<1> QED
  BY <1>1, <1>2, PTL DEF AlgorithmsSpec

\* The screens of every issue list show its issues once and in order, none is shorter
\* than it must be, and their links to the previous screen miss none.
THEOREM AlgorithmsPagesShowEveryIssue == AlgorithmsSpec => []PagesShowEveryIssue
<1>1. Answered => PagesShowEveryIssue
  <2>1. SUFFICES ASSUME Answered, Done("pages")
                 PROVE  PagesShowEveryIssue
    BY DEF PagesShowEveryIssue
  <2>2. input \in Seq(BOOLEAN) /\ output = Screens(input)
    BY <2>1, AlgorithmsAssumption DEF Answered, Done
  <2> QED
    BY <2>2, ScreensShowEveryIssue, ScreenIsFull, PreviousShowsAll DEF PagesShowEveryIssue
<1> QED
  BY <1>1, AlgorithmsAnswered, PTL

\* The chunks of every file follow its structure.
THEOREM AlgorithmsChunksFollowStructure == AlgorithmsSpec => []ChunksFollowStructure
<1>1. Answered => ChunksFollowStructure
  <2>1. SUFFICES ASSUME Answered, Done("python") \/ Done("markdown")
                 PROVE  ChunksFollowStructure
    BY DEF ChunksFollowStructure
  <2>2. CASE Done("python")
    <3>1. /\ ~Done("markdown")
          /\ WellNested(input.nodes, input.length)
          /\ output = PythonChunks(input.nodes, input.length)
      BY <2>1, <2>2, AlgorithmsAssumption DEF Answered, Done
    <3> QED
      BY <3>1, PythonFollowsStructure DEF ChunksFollowStructure
  <2>3. CASE Done("markdown")
    <3>1. /\ ~Done("python")
          /\ input \in Seq(Nat) /\ input # <<>>
          /\ output = MarkdownChunks(input)
      BY <2>1, <2>3, AlgorithmsAssumption DEF Answered, Done
    <3> QED
      BY <3>1, MarkdownFollowsStructure DEF ChunksFollowStructure
  <2> QED
    BY <2>1, <2>2, <2>3
<1> QED
  BY <1>1, AlgorithmsAnswered, PTL

\* The requests for any texts fit the provider, and pool each of their tokens once.
THEOREM AlgorithmsEveryTokenIsPooledOnce == AlgorithmsSpec => []EveryTokenIsPooledOnce
<1>1. Answered => EveryTokenIsPooledOnce
  <2>1. SUFFICES ASSUME Answered, Done("embed")
                 PROVE  EveryTokenIsPooledOnce
    BY DEF EveryTokenIsPooledOnce
  <2>2. input \in Seq(Nat) /\ output = Requests(input)
    BY <2>1, AlgorithmsAssumption DEF Answered, Done
  <2> QED
    BY <2>2, TokensArePooledOnce DEF EveryTokenIsPooledOnce
<1> QED
  BY <1>1, AlgorithmsAnswered, PTL

\* The tables of every patch show both versions of each of its files.
THEOREM AlgorithmsDiffShowsBothVersions == AlgorithmsSpec => []DiffShowsBothVersions
<1>1. Answered => DiffShowsBothVersions
  <2>1. SUFFICES ASSUME Answered, Done("diff")
                 PROVE  DiffShowsBothVersions
    BY DEF DiffShowsBothVersions
  <2>2. input \in Seq(ChangesOfFiles) /\ output = Tables(input)
    BY <2>1, AlgorithmsAssumption DEF Answered, Done
  <2> QED
    BY <2>2, RenderedShowsBothVersions
<1> QED
  BY <1>1, AlgorithmsAnswered, PTL
===============================================================================
