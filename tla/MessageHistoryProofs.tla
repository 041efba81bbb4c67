------------------------ MODULE MessageHistoryProofs ------------------------
(***************************************************************************)
(* Proofs about paging, for any threads, page sizes and numbers of         *)
(* messages.                                                               *)
(***************************************************************************)
EXTENDS MessageHistory, FiniteSetTheorems, WellFoundedInduction, TLAPS

-----------------------------------------------------------------------------
(* The ends of a finite set of ids *)

LEMMA SmallestExists ==
  ASSUME NEW S \in SUBSET Nat, S # {}
  PROVE  \E x \in S : \A y \in S : x <= y
<1> DEFINE R == OpToRel(<, Nat)
<1>1. IsWellFoundedOn(R, Nat)
  BY NatLessThanWellFounded
<1> HIDE DEF R
<1>2. PICK x \in S : \A y \in S : ~ (<<y, x>> \in R)
  BY <1>1, WFMin
<1>3. ASSUME NEW y \in S, y < x PROVE <<y, x>> \in R
  BY <1>3 DEF R, OpToRel
<1>4. ASSUME NEW y \in S PROVE x <= y
  <2>1. x \in Nat /\ y \in Nat
    OBVIOUS
  <2>2. ~ (y < x)
    BY <1>2, <1>3
  <2> QED
    BY <2>1, <2>2
<1> QED
  BY <1>4

LEMMA MinIs ==
  ASSUME NEW S \in SUBSET Nat, S # {}
  PROVE  Min(S) \in S /\ \A y \in S : Min(S) <= y
  BY SmallestExists DEF Min

LEMMA MaxIs ==
  ASSUME NEW n \in Nat, NEW S \in SUBSET (0..n), S # {}
  PROVE  Max(S) \in S /\ \A y \in S : y <= Max(S)
<1> DEFINE T == {n - x : x \in S}
<1>1. T \in SUBSET Nat /\ T # {}
  <2>1. \A x \in S : n - x \in Nat
    OBVIOUS
  <2>2. PICK x \in S : TRUE
    OBVIOUS
  <2>3. n - x \in T
    BY <2>2
  <2> QED
    BY <2>1, <2>3
<1>2. PICK t \in T : \A u \in T : t <= u
  BY <1>1, SmallestExists
<1>3. PICK x \in S : t = n - x
  OBVIOUS
<1>4. \A y \in S : y <= x
  BY <1>2, <1>3
<1> QED
  BY <1>3, <1>4 DEF Max

-----------------------------------------------------------------------------
(* Pages *)

\* What takes the n newest of a set takes everything newer with it, all of it when
\* there are no more than n, and something unless there is nothing.
TakesNewest(S, N, n) ==
  /\ N \subseteq S
  /\ \A m \in N : \A x \in S : x > m => x \in N
  /\ Cardinality(S) <= n => N = S
  /\ n >= 1 /\ S # {} => N # {}

TakesOldest(S, N, n) ==
  /\ N \subseteq S
  /\ \A m \in N : \A x \in S : x < m => x \in N
  /\ Cardinality(S) <= n => N = S
  /\ n >= 1 /\ S # {} => N # {}

LEMMA NewestTakes ==
  ASSUME NEW k \in Nat, NEW S \in SUBSET (1..k), NEW n \in Nat
  PROVE  TakesNewest(S, Newest(S, n), n)
<1> DEFINE above(m) == {x \in S : x > m}
<1>0. \A y \in S : y \in Nat
  OBVIOUS
<1>1. IsFiniteSet(S)
  <2>1. IsFiniteSet(1..k)
    BY FS_Interval
  <2> QED
    BY <2>1, FS_Subset
<1>2. ASSUME NEW m \in S
      PROVE  /\ IsFiniteSet(above(m)) /\ Cardinality(above(m)) \in Nat
             /\ Cardinality(above(m)) < Cardinality(S) /\ Cardinality(S) \in Nat
  <2>1. IsFiniteSet(S \ {m}) /\ Cardinality(S \ {m}) = Cardinality(S) - 1
    BY <1>1, FS_RemoveElement
  <2>2. above(m) \in SUBSET (S \ {m})
    OBVIOUS
  <2> HIDE DEF above
  <2>3. IsFiniteSet(above(m)) /\ Cardinality(above(m)) <= Cardinality(S \ {m})
    BY <2>1, <2>2, FS_Subset
  <2>4. Cardinality(above(m)) \in Nat /\ Cardinality(S) \in Nat
    BY <1>1, <2>3, FS_CardinalityType
  <2> QED
    BY <2>1, <2>3, <2>4
<1>3. Newest(S, n) = {m \in S : Cardinality(above(m)) < n}
  BY DEF Newest
<1>4. ASSUME NEW m \in Newest(S, n), NEW x \in S, x > m PROVE x \in Newest(S, n)
  <2>1. m \in S /\ Cardinality(above(m)) < n
    BY <1>3
  <2>2. x \in Nat /\ m \in Nat
    BY <1>0, <2>1
  <2>3. ASSUME NEW y \in S, y > x PROVE y > m
    <3>1. y \in Nat
      BY <1>0
    <3> QED
      BY <1>4, <2>2, <2>3, <3>1
  <2>4. above(x) \in SUBSET above(m)
    BY <2>3
  <2> HIDE DEF above
  <2>5. Cardinality(above(x)) <= Cardinality(above(m))
    BY <1>2, <2>1, <2>4, FS_Subset
  <2>6. Cardinality(above(x)) < n
    BY <1>2, <2>1, <2>5
  <2> QED
    BY <1>3, <2>6
<1>5. ASSUME Cardinality(S) <= n PROVE Newest(S, n) = S
  <2> HIDE DEF above
  <2>1. \A m \in S : Cardinality(above(m)) < n
    BY <1>2, <1>5
  <2> QED
    BY <1>3, <2>1
<1>6. ASSUME n >= 1, S # {} PROVE Newest(S, n) # {}
  <2>1. S \in SUBSET (0..k)
    OBVIOUS
  <2>2. Max(S) \in S /\ \A y \in S : y <= Max(S)
    BY <1>6, <2>1, MaxIs
  <2>3. above(Max(S)) = {}
    <3>1. PICK e \in S : e = Max(S)
      BY <2>2
    <3>2. ASSUME NEW y \in S, y > e PROVE FALSE
      <4>1. y \in Nat /\ e \in Nat
        BY <1>0
      <4> QED
        BY <2>2, <3>1, <3>2, <4>1
    <3>3. above(e) = {}
      BY <3>2
    <3> QED
      BY <3>1, <3>3
  <2>4. Cardinality(above(Max(S))) < n
    BY <1>6, <2>3, FS_EmptySet
  <2> HIDE DEF above
  <2> QED
    BY <1>3, <2>2, <2>4
<1> QED
  BY <1>3, <1>4, <1>5, <1>6 DEF TakesNewest

LEMMA OldestTakes ==
  ASSUME NEW k \in Nat, NEW S \in SUBSET (1..k), NEW n \in Nat
  PROVE  TakesOldest(S, Oldest(S, n), n)
<1> DEFINE below(m) == {x \in S : x < m}
<1>0. \A y \in S : y \in Nat
  OBVIOUS
<1>1. IsFiniteSet(S)
  <2>1. IsFiniteSet(1..k)
    BY FS_Interval
  <2> QED
    BY <2>1, FS_Subset
<1>2. ASSUME NEW m \in S
      PROVE  /\ IsFiniteSet(below(m)) /\ Cardinality(below(m)) \in Nat
             /\ Cardinality(below(m)) < Cardinality(S) /\ Cardinality(S) \in Nat
  <2>1. IsFiniteSet(S \ {m}) /\ Cardinality(S \ {m}) = Cardinality(S) - 1
    BY <1>1, FS_RemoveElement
  <2>2. below(m) \in SUBSET (S \ {m})
    OBVIOUS
  <2> HIDE DEF below
  <2>3. IsFiniteSet(below(m)) /\ Cardinality(below(m)) <= Cardinality(S \ {m})
    BY <2>1, <2>2, FS_Subset
  <2>4. Cardinality(below(m)) \in Nat /\ Cardinality(S) \in Nat
    BY <1>1, <2>3, FS_CardinalityType
  <2> QED
    BY <2>1, <2>3, <2>4
<1>3. Oldest(S, n) = {m \in S : Cardinality(below(m)) < n}
  BY DEF Oldest
<1>4. ASSUME NEW m \in Oldest(S, n), NEW x \in S, x < m PROVE x \in Oldest(S, n)
  <2>1. m \in S /\ Cardinality(below(m)) < n
    BY <1>3
  <2>2. x \in Nat /\ m \in Nat
    BY <1>0, <2>1
  <2>3. ASSUME NEW y \in S, y < x PROVE y < m
    <3>1. y \in Nat
      BY <1>0
    <3> QED
      BY <1>4, <2>2, <2>3, <3>1
  <2>4. below(x) \in SUBSET below(m)
    BY <2>3
  <2> HIDE DEF below
  <2>5. Cardinality(below(x)) <= Cardinality(below(m))
    BY <1>2, <2>1, <2>4, FS_Subset
  <2>6. Cardinality(below(x)) < n
    BY <1>2, <2>1, <2>5
  <2> QED
    BY <1>3, <2>6
<1>5. ASSUME Cardinality(S) <= n PROVE Oldest(S, n) = S
  <2> HIDE DEF below
  <2>1. \A m \in S : Cardinality(below(m)) < n
    BY <1>2, <1>5
  <2> QED
    BY <1>3, <2>1
<1>6. ASSUME n >= 1, S # {} PROVE Oldest(S, n) # {}
  <2>1. S \in SUBSET Nat
    OBVIOUS
  <2>2. Min(S) \in S /\ \A y \in S : Min(S) <= y
    BY <1>6, <2>1, MinIs
  <2>3. below(Min(S)) = {}
    <3>1. PICK e \in S : e = Min(S)
      BY <2>2
    <3>2. ASSUME NEW y \in S, y < e PROVE FALSE
      <4>1. y \in Nat /\ e \in Nat
        BY <1>0
      <4> QED
        BY <2>2, <3>1, <3>2, <4>1
    <3>3. below(e) = {}
      BY <3>2
    <3> QED
      BY <3>1, <3>3
  <2>4. Cardinality(below(Min(S))) < n
    BY <1>6, <2>3, FS_EmptySet
  <2> HIDE DEF below
  <2> QED
    BY <1>3, <2>2, <2>4
<1> QED
  BY <1>3, <1>4, <1>5, <1>6 DEF TakesOldest

LEMMA Counted ==
  ASSUME NEW k \in Nat, NEW S \in SUBSET (1..k)
  PROVE  IsFiniteSet(S) /\ Cardinality(S) \in Nat
<1>1. IsFiniteSet(1..k)
  BY FS_Interval
<1>2. IsFiniteSet(S)
  BY <1>1, FS_Subset
<1> QED
  BY <1>2, FS_CardinalityType

\* The ends of a page are among its rows.
LEMMA Ends ==
  ASSUME NEW k \in Nat, NEW S \in SUBSET (1..k), S # {}
  PROVE  /\ Min(S) \in S /\ Min(S) # None /\ \A y \in S : Min(S) <= y
         /\ Max(S) \in S /\ Max(S) # None /\ \A y \in S : y <= Max(S)
<1>1. S \in SUBSET Nat /\ S \in SUBSET (0..k) /\ None \notin S
  BY DEF None
<1>2. Min(S) \in S /\ \A y \in S : Min(S) <= y
  BY <1>1, MinIs
<1>3. Max(S) \in S /\ \A y \in S : y <= Max(S)
  BY <1>1, MaxIs
<1> QED
  BY <1>1, <1>2, <1>3

\* The page older than cur: the rows R next to it, and a cursor N, if any, at their
\* old end.  Without one there is nothing older.
PageAfter(V, cur, R, N) ==
  /\ R \subseteq {m \in V : m < cur}
  /\ \A a \in R : \A x \in V : a < x /\ x < cur => x \in R
  /\ N # None => N \in R /\ \A y \in R : N <= y
  /\ N = None => \A m \in V : m < cur => m \in R

\* The page newer than cur, with its cursor N at the new end.
PageBefore(V, cur, R, N) ==
  /\ R \subseteq {m \in V : m > cur}
  /\ \A c \in R : \A x \in V : cur < x /\ x < c => x \in R
  /\ N # None => N \in R /\ \A y \in R : y <= N
  /\ V # {} /\ (\A m \in V : m > cur) => R # {}

LEMMA OlderPage ==
  ASSUME NEW k \in Nat, NEW V \in SUBSET (1..k), NEW n \in Nat, n >= 1, NEW cur \in 1..k
  PROVE  PageAfter(V, cur, PageInfo(V, n, cur, "after").rows, PageInfo(V, n, cur, "after").next)
<1> DEFINE p == PageInfo(V, n, cur, "after")
           side == {m \in V : m < cur}
           R == Newest(side, n)
           N == IF R # {} /\ HasExtra(side, n) THEN Min(R) ELSE None
<1>1. Beyond(V, cur, "after") = side
  BY DEF Beyond, None
<1>2. p.rows = R /\ p.next = N
  <2> HIDE DEF side
  <2> QED
    BY <1>1 DEF PageInfo, Page
<1>3. side \in SUBSET (1..k)
  OBVIOUS
<1>4. \A x \in V : x \in Nat
  OBVIOUS
<1> HIDE DEF side
<1>5. TakesNewest(side, R, n)
  BY <1>3, NewestTakes
<1>6. R \subseteq side /\ (\A m \in R : \A x \in side : x > m => x \in R)
  BY <1>5 DEF TakesNewest
<1>7. N # None => N \in R /\ \A y \in R : N <= y
  <2> HIDE DEF R
  <2> SUFFICES ASSUME R # {} PROVE Min(R) \in R /\ \A y \in R : Min(R) <= y
    OBVIOUS
  <2>1. R \in SUBSET (1..k)
    BY <1>3, <1>6
  <2> QED
    BY <2>1, Ends
<1>8. N = None => R = side
  <2>1. R # {} => Min(R) # None
    <3> HIDE DEF R
    <3>1. R \in SUBSET (1..k)
      BY <1>3, <1>6
    <3> QED
      BY <3>1, Ends
  <2>2. CASE R = {}
    BY <2>2, <1>5 DEF TakesNewest
  <2>3. CASE R # {} /\ ~HasExtra(side, n)
    <3>1. Cardinality(side) \in Nat /\ ~(Cardinality(side) > n)
      BY <1>3, <2>3, Counted DEF HasExtra
    <3> QED
      BY <3>1, <1>5 DEF TakesNewest
  <2> QED
    BY <2>1, <2>2, <2>3
<1> HIDE DEF R, N, p
<1>9. ASSUME NEW a \in R, NEW x \in V, a < x, x < cur PROVE x \in R
  <2>1. x \in side
    BY <1>9 DEF side
  <2>2. a \in Nat /\ x \in Nat
    BY <1>3, <1>4, <1>6
  <2> QED
    BY <1>6, <1>9, <2>1, <2>2
<1>10. PageAfter(V, cur, R, N)
  BY <1>6, <1>7, <1>8, <1>9 DEF PageAfter, side
<1> QED
  BY <1>2, <1>10 DEF p

LEMMA NewerPage ==
  ASSUME NEW k \in Nat, NEW V \in SUBSET (1..k), NEW n \in Nat, n >= 1, NEW cur \in 1..k
  PROVE  PageBefore(V, cur, PageInfo(V, n, cur, "before").rows, PageInfo(V, n, cur, "before").prev)
<1> DEFINE p == PageInfo(V, n, cur, "before")
           side == {m \in V : m > cur}
           R == Oldest(side, n)
           N == IF R # {} /\ HasExtra(side, n) THEN Max(R) ELSE None
<1>1. Beyond(V, cur, "before") = side
  BY DEF Beyond, None
<1>2. p.rows = R /\ p.prev = N
  <2> HIDE DEF side
  <2> QED
    BY <1>1 DEF PageInfo, Page
<1>3. side \in SUBSET (1..k)
  OBVIOUS
<1>4. \A x \in V : x \in Nat
  OBVIOUS
<1> HIDE DEF side
<1>5. TakesOldest(side, R, n)
  BY <1>3, OldestTakes
<1>6. R \subseteq side /\ (\A m \in R : \A x \in side : x < m => x \in R)
  BY <1>5 DEF TakesOldest
<1>7. N # None => N \in R /\ \A y \in R : y <= N
  <2> HIDE DEF R
  <2> SUFFICES ASSUME R # {} PROVE Max(R) \in R /\ \A y \in R : y <= Max(R)
    OBVIOUS
  <2>1. R \in SUBSET (1..k)
    BY <1>3, <1>6
  <2> QED
    BY <2>1, Ends
<1> HIDE DEF R, N, p
<1>8. ASSUME V # {}, \A m \in V : m > cur PROVE R # {}
  <2>1. side = V
    BY <1>8 DEF side
  <2> QED
    BY <1>5, <1>8, <2>1 DEF TakesOldest
<1>9. ASSUME NEW c \in R, NEW x \in V, cur < x, x < c PROVE x \in R
  <2>1. x \in Nat
    BY <1>4
  <2>2. x \in side
    BY <1>9, <2>1 DEF side
  <2> QED
    BY <1>6, <1>9, <2>2
<1>10. PageBefore(V, cur, R, N)
  BY <1>6, <1>7, <1>8, <1>9 DEF PageBefore, side
<1> QED
  BY <1>2, <1>10 DEF p

-----------------------------------------------------------------------------
(* What a client holds of one thread *)

\* Of the messages V of the thread the client holds got, an interval of them; its
\* cursors are the ends of that interval.  A client that jumped to a place before the
\* first message and has nothing yet has everything before it.  At the bottom there
\* is nothing older than what it holds.
Walks(V, got, next, prev, bottom) ==
  /\ got \subseteq V
  /\ \A a \in got : \A c \in got : \A x \in V : a < x /\ x < c => x \in got
  /\ next # None => next \in got /\ \A g \in got : next <= g
  /\ prev # None /\ got # {} => prev \in got /\ \A g \in got : g <= prev
  /\ prev # None /\ got = {} => V # {} /\ \A m \in V : m > prev
  /\ bottom /\ got # {} => \A m \in V : \E g \in got : g <= m

\* The first page of a session.
LEMMA OpenWalks ==
  ASSUME NEW k \in Nat, NEW V \in SUBSET (1..k), NEW n \in Nat, n >= 1
  PROVE  LET p == PageInfo(V, n, None, "after")
         IN  Walks(V, p.rows, p.next, p.prev, p.next = None)
<1> DEFINE p == PageInfo(V, n, None, "after")
           R == Newest(V, n)
           N == IF R # {} /\ HasExtra(V, n) THEN Min(R) ELSE None
<1>1. Beyond(V, None, "after") = V
  BY DEF Beyond
<1>2. p.rows = R /\ p.next = N /\ p.prev = None
  BY <1>1 DEF PageInfo, Page
<1>3. TakesNewest(V, R, n)
  BY NewestTakes
<1>4. R \subseteq V /\ (\A m \in R : \A x \in V : x > m => x \in R)
  BY <1>3 DEF TakesNewest
<1>5. R \in SUBSET (1..k)
  BY <1>4
<1>6. N # None => N \in R /\ \A y \in R : N <= y
  <2> HIDE DEF R
  <2> SUFFICES ASSUME R # {} PROVE Min(R) \in R /\ \A y \in R : Min(R) <= y
    OBVIOUS
  <2> QED
    BY <1>5, Ends
<1>7. N = None /\ R # {} => R = V
  <2> SUFFICES ASSUME N = None, R # {} PROVE R = V
    OBVIOUS
  <2>1. Min(R) # None
    <3> HIDE DEF R
    <3> QED
      BY <1>5, Ends
  <2>2. Cardinality(V) \in Nat /\ ~(Cardinality(V) > n)
    BY <2>1, Counted DEF HasExtra
  <2> QED
    BY <2>2, <1>3 DEF TakesNewest
<1>8. \A x \in V : x \in Nat
  OBVIOUS
<1> HIDE DEF R, N, p
<1>9. ASSUME NEW a \in R, NEW c \in R, NEW x \in V, a < x, x < c PROVE x \in R
  <2>1. a \in Nat /\ x \in Nat
    BY <1>4, <1>8
  <2> QED
    BY <1>4, <1>9, <2>1
<1>10. N = None /\ R # {} => \A m \in V : \E g \in R : g <= m
  BY <1>7, <1>8
<1>11. Walks(V, R, N, None, N = None)
  BY <1>4, <1>6, <1>9, <1>10 DEF Walks
<1> QED
  BY <1>2, <1>11 DEF p

\* A page towards the older messages.
LEMMA OlderWalks ==
  ASSUME NEW k \in Nat, NEW V \in SUBSET (1..k), NEW got, NEW next, NEW prev, NEW bottom,
         NEW R, NEW N,
         Walks(V, got, next, prev, bottom), next # None, PageAfter(V, next, R, N)
  PROVE  Walks(V, got \cup R, N, prev, N = None)
<1>1. \A x \in V : x \in Nat
  OBVIOUS
<1>2. got \subseteq V /\ next \in got /\ (\A g \in got : next <= g)
  BY DEF Walks
<1>3. R \subseteq V /\ (\A y \in R : y < next)
  BY DEF PageAfter
<1>4. \A x \in V \cup got \cup R : x \in Nat
  BY <1>1, <1>2, <1>3
<1>5. next \in Nat
  BY <1>2, <1>4
<1>6. ASSUME NEW a \in got \cup R, NEW c \in got \cup R, NEW x \in V, a < x, x < c
      PROVE  x \in got \cup R
  <2>1. a \in Nat /\ c \in Nat /\ x \in Nat
    BY <1>4
  <2>2. CASE x < next
    <3>1. a \in R
      <4>1. a < next
        BY <1>5, <1>6, <2>1, <2>2
      <4>2. ~(next <= a)
        BY <1>5, <2>1, <4>1
      <4> QED
        BY <1>2, <4>2
    <3> QED
      BY <1>6, <2>2, <3>1 DEF PageAfter
  <2>3. CASE x = next
    BY <1>2, <2>3
  <2>4. CASE next < x
    <3>1. next < c
      BY <1>5, <1>6, <2>1, <2>4
    <3>2. ~(c < next)
      BY <1>5, <2>1, <3>1
    <3>3. c \in got
      BY <1>3, <3>2
    <3> QED
      BY <1>2, <1>6, <2>4, <3>3 DEF Walks
  <2> QED
    BY <1>5, <2>1, <2>2, <2>3, <2>4
<1>7. ASSUME N # None, NEW g \in got \cup R PROVE N \in got \cup R /\ N <= g
  <2>1. N \in R /\ \A y \in R : N <= y
    BY <1>7 DEF PageAfter
  <2>2. CASE g \in R
    BY <2>1, <2>2
  <2>3. CASE g \in got
    <3>1. N \in Nat /\ g \in Nat /\ N < next /\ next <= g
      BY <1>2, <1>3, <1>4, <2>1, <2>3
    <3> QED
      BY <1>5, <2>1, <3>1
  <2> QED
    BY <2>2, <2>3
<1>8. ASSUME prev # None, NEW g \in got \cup R PROVE prev \in got \cup R /\ g <= prev
  <2>1. prev \in got /\ \A x \in got : x <= prev
    BY <1>2, <1>8 DEF Walks
  <2>2. CASE g \in got
    BY <2>1, <2>2
  <2>3. CASE g \in R
    <3>1. prev \in Nat /\ g \in Nat /\ g < next /\ next <= prev
      BY <1>2, <1>3, <1>4, <2>1, <2>3
    <3> QED
      BY <1>5, <2>1, <3>1
  <2> QED
    BY <2>2, <2>3
<1>9. ASSUME N = None, NEW m \in V PROVE \E g \in got \cup R : g <= m
  <2>1. m \in Nat
    BY <1>1
  <2>2. CASE m < next
    <3>1. m \in R /\ m <= m
      BY <1>9, <2>1, <2>2 DEF PageAfter
    <3> QED
      BY <3>1
  <2>3. CASE next <= m
    BY <1>2, <2>3
  <2> QED
    BY <1>5, <2>1, <2>2, <2>3
<1> QED
  BY <1>2, <1>3, <1>6, <1>7, <1>8, <1>9 DEF Walks

\* A page towards the newer messages.
LEMMA NewerWalks ==
  ASSUME NEW k \in Nat, NEW V \in SUBSET (1..k), NEW got, NEW next, NEW prev \in Nat, NEW bottom,
         NEW R, NEW N,
         Walks(V, got, next, prev, bottom), prev # None, PageBefore(V, prev, R, N)
  PROVE  Walks(V, got \cup R, next, N, bottom)
<1>1. \A x \in V : x \in Nat
  OBVIOUS
<1>2. got \subseteq V /\ R \subseteq V /\ (\A y \in R : prev < y)
  <2>1. R \subseteq V /\ (\A y \in R : y > prev)
    BY DEF PageBefore
  <2>2. \A y \in R : y \in Nat
    BY <1>1, <2>1
  <2> QED
    BY <2>1, <2>2 DEF Walks
<1>3. got # {} => prev \in got /\ \A g \in got : g <= prev
  BY DEF Walks
<1>4. \A x \in V \cup got \cup R : x \in Nat
  BY <1>1, <1>2
<1>5. got = {} => V # {} /\ (\A m \in V : m > prev)
  BY DEF Walks
<1>6. ASSUME NEW a \in got \cup R, NEW c \in got \cup R, NEW x \in V, a < x, x < c
      PROVE  x \in got \cup R
  <2>1. a \in Nat /\ c \in Nat /\ x \in Nat
    BY <1>4
  <2>2. CASE prev < x
    <3>1. ~(c <= prev)
      BY <1>6, <2>1, <2>2
    <3>2. c \in R
      BY <1>3, <3>1
    <3> QED
      BY <1>6, <2>2, <3>2 DEF PageBefore
  <2>3. CASE x = prev
    <3>1. got # {}
      <4>1. ~(x > prev)
        BY <2>1, <2>3
      <4> QED
        BY <1>5, <4>1
    <3> QED
      BY <1>3, <2>3, <3>1
  <2>4. CASE x < prev
    <3>1. ~(prev < a) /\ ~(x > prev)
      BY <1>6, <2>1, <2>4
    <3>2. a \in got
      BY <1>2, <3>1
    <3>3. prev \in got
      BY <1>3, <3>2
    <3> QED
      BY <1>6, <2>4, <3>2, <3>3 DEF Walks
  <2> QED
    BY <2>1, <2>2, <2>3, <2>4
<1>7. ASSUME next # None, NEW g \in got \cup R PROVE next \in got \cup R /\ next <= g
  <2>1. next \in got /\ \A y \in got : next <= y
    BY <1>7 DEF Walks
  <2>2. CASE g \in got
    BY <2>1, <2>2
  <2>3. CASE g \in R
    <3>1. next \in Nat /\ g \in Nat /\ next <= prev /\ prev < g
      BY <1>2, <1>3, <1>4, <2>1, <2>3
    <3> QED
      BY <2>1, <3>1
  <2> QED
    BY <2>2, <2>3
<1>8. ASSUME N # None, NEW g \in got \cup R PROVE N \in got \cup R /\ g <= N
  <2>1. N \in R /\ \A y \in R : y <= N
    BY <1>8 DEF PageBefore
  <2>2. CASE g \in R
    BY <2>1, <2>2
  <2>3. CASE g \in got
    <3>1. N \in Nat /\ g \in Nat /\ g <= prev /\ prev < N
      BY <1>2, <1>3, <1>4, <2>1, <2>3
    <3> QED
      BY <2>1, <3>1
  <2> QED
    BY <2>2, <2>3
<1>9. ASSUME N # None PROVE got \cup R # {}
  BY <1>9 DEF PageBefore
<1>10. ASSUME bottom, NEW m \in V PROVE \E g \in got \cup R : g <= m
  <2>1. CASE got # {}
    BY <1>10, <2>1 DEF Walks
  <2>2. CASE got = {}
    <3>1. R # {}
      BY <1>5, <2>2 DEF PageBefore
    <3>2. PICK c \in R : TRUE
      BY <3>1
    <3>3. c \in Nat /\ m \in Nat /\ prev < m
      BY <1>4, <1>5, <2>2
    <3>4. CASE m < c
      <4>1. m \in R /\ m <= m
        BY <3>3, <3>4 DEF PageBefore
      <4> QED
        BY <4>1
    <3>5. CASE c <= m
      BY <3>5
    <3> QED
      BY <3>3, <3>4, <3>5
  <2> QED
    BY <2>1, <2>2
<1> QED
  BY <1>2, <1>6, <1>7, <1>8, <1>9, <1>10 DEF Walks

\* A message newer than all of them arrives.
LEMMA GrowWalks ==
  ASSUME NEW k \in Nat, NEW V \in SUBSET (1..k), NEW got, NEW next, NEW prev \in Nat, NEW bottom,
         NEW n \in Nat, \A x \in V : x < n,
         Walks(V, got, next, prev, bottom)
  PROVE  Walks(V \cup {n}, got, next, prev, bottom)
<1>1. \A x \in V : x \in Nat
  OBVIOUS
<1>2. got \subseteq V
  BY DEF Walks
<1>3. ASSUME NEW a \in got, NEW c \in got, NEW x \in V \cup {n}, a < x, x < c PROVE x \in got
  <2>1. c \in Nat /\ c < n
    BY <1>1, <1>2
  <2>2. x # n
    BY <1>3, <2>1
  <2> QED
    BY <1>3, <2>2 DEF Walks
<1>4. ASSUME prev # None, got = {} PROVE V \cup {n} # {} /\ \A m \in V \cup {n} : m > prev
  <2>1. V # {} /\ \A m \in V : m > prev
    BY <1>4 DEF Walks
  <2>2. PICK v \in V : TRUE
    BY <2>1
  <2>3. v \in Nat /\ v > prev /\ v < n
    BY <1>1, <2>1
  <2>4. n > prev
    BY <2>3
  <2> QED
    BY <2>1, <2>4
<1>5. ASSUME bottom, got # {}, NEW m \in V \cup {n} PROVE \E g \in got : g <= m
  <2>1. CASE m \in V
    BY <1>5, <2>1 DEF Walks
  <2>2. CASE m = n
    <3>1. PICK g \in got : TRUE
      BY <1>5
    <3>2. g \in Nat /\ g < n
      BY <1>1, <1>2
    <3>3. g <= m
      BY <2>2, <3>2
    <3> QED
      BY <3>3
  <2> QED
    BY <2>1, <2>2
<1> QED
  BY <1>2, <1>3, <1>4, <1>5 DEF Walks

\* The window around a message, of the thread or of another one.
LEMMA AroundWalks ==
  ASSUME NEW k \in Nat, NEW V \in SUBSET (1..k), NEW n \in Nat, n >= 1, NEW cur \in 1..k
  PROVE  LET p == AroundPageInfo(V, n, cur)
         IN  Walks(V, p.rows, p.next, p.prev, p.next = None)
<1> DEFINE p == AroundPageInfo(V, n, cur)
           b == n \div 2
           a == n - b
           A == {m \in V : m <= cur}
           B == {m \in V : m > cur}
           RA == Newest(A, a)
           RB == Oldest(B, b)
           R == RA \cup RB
           N == IF ~HasExtra(A, a) THEN None ELSE IF R = {} THEN cur ELSE Min(R)
           P == IF ~HasExtra(B, b) THEN None ELSE IF R = {} THEN cur ELSE Max(R)
<1>1. p.rows = R /\ p.next = N /\ p.prev = P
  BY DEF AroundPageInfo, AroundSides, Page
<1>2. a \in Nat /\ a >= 1 /\ b \in Nat
  OBVIOUS
<1>4. \A x \in V : x \in Nat
  OBVIOUS
<1>3. A \in SUBSET (1..k) /\ B \in SUBSET (1..k) /\ V = A \cup B
  <2>1. \A x \in V : x <= cur \/ x > cur
    BY <1>4
  <2>2. V = A \cup B
    BY <2>1
  <2> QED
    BY <2>2
<1>5. (\A x \in A : x <= cur) /\ (\A x \in B : cur < x)
  BY <1>4
<1> HIDE DEF p, a, b, A, B
<1>6. TakesNewest(A, RA, a) /\ TakesOldest(B, RB, b)
  BY <1>2, <1>3, NewestTakes, OldestTakes
<1>7. /\ RA \subseteq A /\ (\A m \in RA : \A x \in A : x > m => x \in RA)
      /\ RB \subseteq B /\ (\A m \in RB : \A x \in B : x < m => x \in RB)
      /\ A # {} => RA # {}
  BY <1>2, <1>6 DEF TakesNewest, TakesOldest
<1>8. ~HasExtra(A, a) => RA = A
  <2>1. Cardinality(A) \in Nat
    BY <1>3, Counted
  <2>2. ~HasExtra(A, a) => Cardinality(A) <= a
    BY <1>2, <2>1 DEF HasExtra
  <2> QED
    BY <1>6, <2>2 DEF TakesNewest
<1>9. (HasExtra(A, a) => A # {}) /\ (HasExtra(B, b) => B # {})
  <2>1. Cardinality({}) = 0
    BY FS_EmptySet
  <2> QED
    BY <1>2, <2>1 DEF HasExtra
<1>10. R \subseteq V /\ R \in SUBSET (1..k)
  BY <1>3, <1>7
<1> HIDE DEF RA, RB
<1>11. /\ N # None => N \in R /\ \A g \in R : N <= g
       /\ P # None /\ R # {} => P \in R /\ \A g \in R : g <= P
       /\ P # None /\ R = {} => P = cur
       /\ N = None => RA = A
  <2> HIDE DEF R
  <2>1. R # {} => /\ Min(R) \in R /\ Min(R) # None /\ \A y \in R : Min(R) <= y
                  /\ Max(R) \in R /\ \A y \in R : y <= Max(R)
    BY <1>10, Ends
  <2>2. HasExtra(A, a) => R # {}
    BY <1>7, <1>9 DEF R
  <2> QED
    BY <1>8, <2>1, <2>2
<1>12. P # None /\ R = {} => A = {} /\ B # {}
  BY <1>7, <1>9
<1> HIDE DEF N, P
<1>13. ASSUME NEW u \in R, NEW w \in R, NEW x \in V, u < x, x < w PROVE x \in R
  <2>1. u \in Nat /\ w \in Nat /\ x \in Nat
    BY <1>4, <1>10
  <2>2. CASE x \in A
    <3>1. ~(cur < u)
      BY <1>5, <1>13, <2>1, <2>2
    <3>2. u \in RA
      BY <1>5, <1>7, <3>1
    <3> QED
      BY <1>7, <1>13, <2>1, <2>2, <3>2
  <2>3. CASE x \in B
    <3>1. ~(w <= cur)
      BY <1>5, <1>13, <2>1, <2>3
    <3>2. w \in RB
      BY <1>5, <1>7, <3>1
    <3> QED
      BY <1>7, <1>13, <2>3, <3>2
  <2> QED
    BY <1>3, <2>2, <2>3
<1>14. ASSUME P # None, R = {} PROVE V # {} /\ \A m \in V : m > P
  <2>1. P = cur /\ A = {} /\ B # {}
    BY <1>11, <1>12, <1>14
  <2>2. ASSUME NEW m \in V PROVE m > P
    BY <1>3, <1>4, <1>5, <2>1
  <2> QED
    BY <1>3, <2>1, <2>2
<1>15. ASSUME N = None, R # {}, NEW m \in V PROVE \E g \in R : g <= m
  <2>1. RA = A /\ m \in Nat
    BY <1>4, <1>11, <1>15
  <2>2. CASE m \in A
    <3>1. m \in R /\ m <= m
      BY <2>1, <2>2
    <3> QED
      BY <3>1
  <2>3. CASE m \in B
    <3>1. PICK g \in R : TRUE
      BY <1>15
    <3>2. g \in Nat
      BY <1>4, <1>10
    <3>3. CASE m < g
      <4>1. cur < m
        BY <1>5, <2>3
      <4>2. ~(g <= cur)
        BY <2>1, <3>2, <3>3, <4>1
      <4>3. g \in RB
        BY <1>5, <1>7, <4>2
      <4>4. m \in R /\ m <= m
        BY <1>7, <2>1, <2>3, <3>3, <4>3
      <4> QED
        BY <4>4
    <3> QED
      BY <2>1, <3>2, <3>3
  <2> QED
    BY <1>3, <2>2, <2>3
<1> HIDE DEF R
<1>16. Walks(V, R, N, P, N = None)
  BY <1>10, <1>11, <1>13, <1>14, <1>15 DEF Walks
<1> QED
  BY <1>1, <1>16 DEF p

\* The cursors of any page are messages it was made from.
LEMMA PageTyped ==
  ASSUME NEW k \in Nat, NEW V \in SUBSET (1..k), NEW n \in Nat, NEW cur, NEW dir
  PROVE  LET p == PageInfo(V, n, cur, dir)
         IN  p.rows \subseteq V /\ p.next \in V \cup {None} /\ p.prev \in V \cup {None}
<1> DEFINE p == PageInfo(V, n, cur, dir)
           side == Beyond(V, cur, dir)
           R == IF dir = "after" THEN Newest(side, n) ELSE Oldest(side, n)
<1>1. p.rows = R /\ p.next \in {Min(R), None} /\ p.prev \in {Max(R), None}
      /\ (R = {} => p.next = None /\ p.prev = None)
  <2>1. CASE dir = "after"
    BY <2>1 DEF PageInfo, Page
  <2>2. CASE dir # "after"
    BY <2>2 DEF PageInfo, Page
  <2> QED
    BY <2>1, <2>2
<1>2. R \subseteq V
  BY DEF Beyond, Newest, Oldest
<1> HIDE DEF R, p
<1>3. R # {} => Min(R) \in V /\ Max(R) \in V
  <2>1. R \in SUBSET (1..k)
    BY <1>2
  <2> QED
    BY <1>2, <2>1, Ends
<1> QED
  BY <1>1, <1>2, <1>3 DEF p

LEMMA AroundTyped ==
  ASSUME NEW k \in Nat, NEW V \in SUBSET (1..k), NEW n \in Nat, NEW cur \in 1..k
  PROVE  LET p == AroundPageInfo(V, n, cur)
         IN  p.rows \subseteq V /\ p.next \in (1..k) \cup {None} /\ p.prev \in (1..k) \cup {None}
<1> DEFINE p == AroundPageInfo(V, n, cur)
           side == AroundSides(V, cur)
           R == Newest(side.next, n - n \div 2) \cup Oldest(side.prev, n \div 2)
<1>1. /\ p.rows = R
      /\ R # {} => p.next \in {Min(R), None} /\ p.prev \in {Max(R), None}
      /\ R = {} => p.next \in {cur, None} /\ p.prev \in {cur, None}
  BY DEF AroundPageInfo, Page
<1>2. R \subseteq V
  BY DEF AroundSides, Newest, Oldest
<1> HIDE DEF R, p
<1>3. R # {} => Min(R) \in 1..k /\ Max(R) \in 1..k
  <2>1. R \in SUBSET (1..k)
    BY <1>2
  <2> QED
    BY <2>1, Ends
<1> QED
  BY <1>1, <1>2, <1>3 DEF p

\* A caller without access is given an empty page, which has no cursors.
LEMMA EmptyPage ==
  ASSUME NEW n \in Nat, NEW cur, NEW dir
  PROVE  LET p == PageInfo({}, n, cur, dir) IN p.rows = {} /\ p.next = None /\ p.prev = None
<1>1. {} \in SUBSET (1..0) /\ 0 \in Nat
  OBVIOUS
<1> QED
  BY <1>1, PageTyped

LEMMA EmptyAround ==
  ASSUME NEW n \in Nat, NEW cur \in Nat
  PROVE  LET p == AroundPageInfo({}, n, cur) IN p.rows = {} /\ p.next = None /\ p.prev = None
<1> DEFINE p == AroundPageInfo({}, n, cur)
           b == n \div 2
<1>1. b \in Nat /\ n - b \in Nat
  OBVIOUS
<1>2. AroundSides({}, cur).next = {} /\ AroundSides({}, cur).prev = {}
  BY DEF AroundSides
<1>3. Newest({}, n - b) = {} /\ Oldest({}, b) = {}
  BY DEF Newest, Oldest
<1>4. ~HasExtra({}, n - b) /\ ~HasExtra({}, b)
  BY <1>1, FS_EmptySet DEF HasExtra
<1> QED
  BY <1>2, <1>3, <1>4 DEF AroundPageInfo, Page

-----------------------------------------------------------------------------
(* The invariant *)

View == [kind : {"history", "search"}, scope : SUBSET Threads, limit : 0..MaxSize, got : SUBSET Nat,
         next : Nat, prev : Nat, bottom : BOOLEAN]

\* A session has a page size; without a session there is no cursor.  A history is of
\* one thread.
ViewOK ==
  /\ view \in View
  /\ view.limit = 0 => view.next = None /\ view.prev = None /\ view.got = {}
  /\ view.kind = "history" /\ view.limit # 0 => \E t \in Threads : view.scope = {t}

\* The insert that holds a thread row is the newest of the thread.
OrderInv ==
  \A m \in DOMAIN row : row[m].state = "open" =>
    \A x \in DOMAIN row : row[x].thread = row[m].thread => x <= m

\* What a session of one thread's history holds, whether the caller may still read the
\* thread or not.
Held ==
  \A t \in Threads : view.kind = "history" /\ view.scope = {t} =>
    Walks(Sent({t}), view.got, view.next, view.prev, view.bottom)

HistoryInv == TypeOK /\ ViewOK /\ OrderInv /\ Held

LEMMA SentIds ==
  ASSUME TypeOK, NEW scope
  PROVE  Sent(scope) \in SUBSET (1..Len(row)) /\ Len(row) \in Nat
         /\ DOMAIN row = 1..Len(row)
<1>1. row \in Seq(Row)
  BY DEF TypeOK
<1> QED
  BY <1>1 DEF Sent

LEMMA RowsSent ==
  ASSUME NEW kind, NEW scope, NEW S \in Rows(kind, scope)
  PROVE  S \subseteq Sent(scope)
  BY DEF Rows, Visible, Found

\* The history of a thread is all of it, or nothing without access.
LEMMA AllOrNothing ==
  ASSUME NEW t
  PROVE  Visible({t}) = IF t \in member THEN Sent({t}) ELSE {}
  BY DEF Visible, Sent

LEMMA LimitRange ==
  ASSUME NEW size \in Sizes
  PROVE  Limit(size) \in 1..MaxSize /\ Limit(size) \in Nat /\ Limit(size) >= 1
         /\ Limit(size) \in 0..MaxSize /\ Limit(size) # 0
<1>1. MaxSize \in Nat /\ DefaultLimit \in 1..MaxSize
  BY HistoryAssumption
<1>2. Limit(size) \in 1..MaxSize
  BY <1>1 DEF Limit
<1> HIDE DEF Limit
<1> QED
  BY <1>1, <1>2

LEMMA InitOK == Init => HistoryInv
<1> SUFFICES ASSUME Init PROVE HistoryInv
  OBVIOUS
<1>1. row = <<>> /\ member = Threads /\ view = Closed
  BY DEF Init
<1>2. MaxSize \in Nat /\ MaxMsgs \in Nat
  BY HistoryAssumption
<1>3. /\ view.kind = "history" /\ view.scope = {} /\ view.limit = 0 /\ view.got = {} /\ view.next = None
      /\ view.prev = None /\ view.bottom = FALSE /\ view \in View
  BY <1>1, <1>2 DEF Closed, View, None
<1>4. row \in Seq(Row) /\ Len(row) = 0 /\ DOMAIN row = {}
  BY <1>1
<1>5. TypeOK
  BY <1>1, <1>2, <1>3, <1>4 DEF TypeOK
<1>6. Held
  BY <1>3 DEF Held
<1> QED
  BY <1>3, <1>4, <1>5, <1>6 DEF HistoryInv, ViewOK, OrderInv

\* Nothing changes for a client whose messages, threads and session stay as they are.
LEMMA SaveOK ==
  ASSUME HistoryInv, NEW t \in Threads, SaveMessage(t)
  PROVE  HistoryInv'
<1> DEFINE r == [thread |-> t, state |-> "open"]
<1>1. row \in Seq(Row) /\ Len(row) \in Nat /\ DOMAIN row = 1..Len(row)
  BY DEF HistoryInv, TypeOK
<1>2. r \in Row
  BY DEF Row
<1>3. row' = Append(row, r) /\ member' = member /\ view' = view /\ Len(row) < MaxMsgs
  BY DEF SaveMessage
<1>4. /\ row' \in Seq(Row) /\ Len(row') = Len(row) + 1 /\ DOMAIN row' = 1..(Len(row) + 1)
      /\ \A i \in DOMAIN row : i \in DOMAIN row' /\ row'[i] = row[i]
      /\ row'[Len(row) + 1] = r
  BY <1>1, <1>2, <1>3
<1>5. r.thread = t /\ r.state = "open"
  OBVIOUS
<1>6. TypeOK'
  <2>1. MaxMsgs \in Nat
    BY HistoryAssumption
  <2>2. Len(row') <= MaxMsgs
    BY <1>1, <1>3, <1>4, <2>1
  <2> QED
    BY <1>3, <1>4, <2>2 DEF HistoryInv, TypeOK
<1>7. ViewOK'
  BY <1>3 DEF HistoryInv, ViewOK
<1> HIDE DEF r
<1>8. ASSUME NEW m \in DOMAIN row', row'[m].state = "open",
             NEW x \in DOMAIN row', row'[x].thread = row'[m].thread
      PROVE  x <= m
  <2>1. CASE m = Len(row) + 1
    BY <1>1, <1>4, <2>1
  <2>2. CASE m \in DOMAIN row
    <3>1. row[m].thread # t /\ row[m].state = "open" /\ row'[m] = row[m]
      BY <1>4, <1>8, <2>2 DEF SaveMessage, Locked
    <3>2. x # Len(row) + 1
      BY <1>4, <1>5, <1>8, <3>1
    <3>3. x \in DOMAIN row
      BY <1>1, <1>4, <3>2
    <3>4. row[x].thread = row[m].thread
      BY <1>4, <1>8, <3>1, <3>3
    <3> QED
      BY <2>2, <3>1, <3>3, <3>4 DEF HistoryInv, OrderInv
  <2> QED
    BY <1>1, <1>4, <2>1, <2>2
<1>9. OrderInv'
  BY <1>8 DEF OrderInv
<1>10. ASSUME NEW u \in Threads PROVE Sent({u})' = Sent({u})
  <2>1. ASSUME NEW m \in DOMAIN row', row'[m].state = "sent" PROVE m \in DOMAIN row
    BY <1>1, <1>4, <1>5, <2>1
  <2> QED
    BY <1>3, <1>4, <2>1 DEF Sent
<1>11. Held'
  <2> SUFFICES ASSUME NEW u \in Threads, view'.kind = "history", view'.scope = {u}
               PROVE  Walks(Sent({u})', view'.got, view'.next, view'.prev, view'.bottom)
    BY DEF Held
  <2> QED
    BY <1>3, <1>10 DEF HistoryInv, Held
<1> QED
  BY <1>6, <1>7, <1>9, <1>11 DEF HistoryInv

LEMMA EndTxOK ==
  ASSUME HistoryInv, NEW m \in DOMAIN row, NEW s \in {"sent", "lost"}, EndTx(m, s)
  PROVE  HistoryInv'
<1>1. row \in Seq(Row) /\ Len(row) \in Nat /\ DOMAIN row = 1..Len(row)
  BY DEF HistoryInv, TypeOK
<1>2. row[m].state = "open" /\ row' = [row EXCEPT ![m].state = s] /\ member' = member /\ view' = view
  BY DEF EndTx
<1>3. row[m] \in Row
  BY <1>1
<1>4. [row[m] EXCEPT !.state = s] \in Row
  BY <1>3 DEF Row
<1>5. /\ row' \in Seq(Row) /\ Len(row') = Len(row) /\ DOMAIN row' = DOMAIN row
      /\ \A i \in DOMAIN row : i # m => row'[i] = row[i]
      /\ row'[m] = [row[m] EXCEPT !.state = s]
  BY <1>1, <1>2, <1>4
<1>6. row'[m].thread = row[m].thread /\ row'[m].state = s
  BY <1>3, <1>5 DEF Row
<1>7. \A i \in DOMAIN row : row'[i].thread = row[i].thread
  BY <1>5, <1>6
<1>8. TypeOK'
  BY <1>2, <1>5 DEF HistoryInv, TypeOK
<1>9. ViewOK'
  BY <1>2 DEF HistoryInv, ViewOK
<1>10. OrderInv'
  <2> SUFFICES ASSUME NEW i \in DOMAIN row', row'[i].state = "open",
                      NEW x \in DOMAIN row', row'[x].thread = row'[i].thread
               PROVE  x <= i
    BY DEF OrderInv
  <2>1. i # m /\ row[i].state = "open" /\ row[x].thread = row[i].thread
    BY <1>5, <1>6, <1>7
  <2> QED
    BY <1>5, <2>1 DEF HistoryInv, OrderInv
<1>11. ASSUME NEW u \in Threads, view.kind = "history", view.scope = {u}
       PROVE  Walks(Sent({u})', view.got, view.next, view.prev, view.bottom)
  <2>1. Walks(Sent({u}), view.got, view.next, view.prev, view.bottom)
    BY <1>11 DEF HistoryInv, Held
  <2>2. Sent({u}) \in SUBSET (1..Len(row))
    BY SentIds DEF HistoryInv
  <2>3. ASSUME NEW x \in DOMAIN row, x # m
        PROVE  x \in Sent({u})' <=> x \in Sent({u})
    BY <1>2, <1>5, <2>3 DEF Sent
  <2>4. Sent({u})' \subseteq DOMAIN row /\ Sent({u}) \subseteq DOMAIN row
    BY <1>5 DEF Sent
  <2>5. m \notin Sent({u})
    BY <1>2 DEF Sent
  <2>6. CASE m \notin Sent({u})'
    <3>1. Sent({u})' = Sent({u})
      BY <2>3, <2>4, <2>5, <2>6
    <3> QED
      BY <2>1, <3>1
  <2>7. CASE m \in Sent({u})'
    <3>1. Sent({u})' = Sent({u}) \cup {m}
      BY <2>3, <2>4, <2>5, <2>7
    <3>2. row[m].thread = u
      BY <1>6, <2>7 DEF Sent
    <3>3. ASSUME NEW x \in Sent({u}) PROVE x < m
      <4>1. x \in DOMAIN row /\ row[x].thread = row[m].thread /\ x # m
        BY <2>5, <3>2 DEF Sent
      <4>2. x <= m
        BY <1>2, <4>1 DEF HistoryInv, OrderInv
      <4> QED
        BY <1>1, <4>1, <4>2
    <3>4. m \in Nat /\ view.prev \in Nat
      BY <1>1 DEF HistoryInv, ViewOK, View
    <3> HIDE DEF Sent
    <3>5. Walks(Sent({u}) \cup {m}, view.got, view.next, view.prev, view.bottom)
      BY <1>1, <2>1, <2>2, <3>3, <3>4, GrowWalks
    <3> QED
      BY <3>1, <3>5
  <2> QED
    BY <2>6, <2>7
<1>12. Held'
  <2> SUFFICES ASSUME NEW u \in Threads, view'.kind = "history", view'.scope = {u}
               PROVE  Walks(Sent({u})', view'.got, view'.next, view'.prev, view'.bottom)
    BY DEF Held
  <2> QED
    BY <1>2, <1>11
<1> QED
  BY <1>8, <1>9, <1>10, <1>12 DEF HistoryInv

\* Gaining or losing access changes neither the messages nor what the client holds.
LEMMA MemberOK ==
  ASSUME HistoryInv, UNCHANGED <<row, view>>, member' \subseteq Threads
  PROVE  HistoryInv'
<1>1. row' = row /\ view' = view
  OBVIOUS
<1>2. TypeOK' /\ ViewOK' /\ OrderInv'
  BY <1>1 DEF HistoryInv, TypeOK, ViewOK, OrderInv
<1>3. \A u \in Threads : Sent({u})' = Sent({u})
  BY <1>1 DEF Sent
<1>4. Held'
  <2> SUFFICES ASSUME NEW u \in Threads, view'.kind = "history", view'.scope = {u}
               PROVE  Walks(Sent({u})', view'.got, view'.next, view'.prev, view'.bottom)
    BY DEF Held
  <2> QED
    BY <1>1, <1>3 DEF HistoryInv, Held
<1> QED
  BY <1>2, <1>4 DEF HistoryInv

\* A session that may be the client's.
Serves(kind, scope, limit, got, next, prev, bottom) ==
  /\ kind \in {"history", "search"}
  /\ scope \in SUBSET Threads /\ limit \in 0..MaxSize /\ got \in SUBSET DOMAIN row
  /\ next \in DOMAIN row \cup {None} /\ prev \in DOMAIN row \cup {None}
  /\ bottom \in BOOLEAN
  /\ limit = 0 => next = None /\ prev = None /\ got = {}
  /\ kind = "history" /\ limit # 0 => \E t \in Threads : scope = {t}
  /\ \A t \in Threads : kind = "history" /\ scope = {t} =>
       Walks(Sent({t}), got, next, prev, bottom)

\* A request changes the session only.
LEMMA SessionOK ==
  ASSUME HistoryInv, UNCHANGED <<row, member>>,
         NEW kind, NEW scope, NEW limit, NEW got, NEW next, NEW prev, NEW bottom,
         Serves(kind, scope, limit, got, next, prev, bottom),
         view' = [kind |-> kind, scope |-> scope, limit |-> limit, got |-> got,
                  next |-> next, prev |-> prev, bottom |-> bottom]
  PROVE  HistoryInv'
<1>0. /\ kind \in {"history", "search"}
      /\ scope \in SUBSET Threads /\ limit \in 0..MaxSize /\ got \in SUBSET DOMAIN row
      /\ next \in DOMAIN row \cup {None} /\ prev \in DOMAIN row \cup {None}
      /\ bottom \in BOOLEAN
      /\ limit = 0 => next = None /\ prev = None /\ got = {}
      /\ kind = "history" /\ limit # 0 => \E t \in Threads : scope = {t}
      /\ \A t \in Threads : kind = "history" /\ scope = {t} =>
           Walks(Sent({t}), got, next, prev, bottom)
  BY DEF Serves
<1>1. row' = row /\ member' = member
  OBVIOUS
<1>2. /\ view'.kind = kind /\ view'.scope = scope /\ view'.limit = limit /\ view'.got = got
      /\ view'.next = next /\ view'.prev = prev /\ view'.bottom = bottom
  OBVIOUS
<1>3. DOMAIN row \subseteq Nat /\ None \in Nat
  BY DEF HistoryInv, TypeOK, None
<1>4. ViewOK'
  <2>1. view' \in View
    <3>1. got \in SUBSET Nat /\ next \in Nat /\ prev \in Nat
      BY <1>0, <1>3
    <3> QED
      BY <1>0, <3>1 DEF View
  <2> QED
    BY <1>0, <1>2, <2>1 DEF ViewOK
<1>5. TypeOK'
  BY <1>0, <1>1, <1>2 DEF HistoryInv, TypeOK
<1>6. OrderInv'
  BY <1>1 DEF HistoryInv, OrderInv
<1>7. \A t \in Threads : Sent({t})' = Sent({t})
  BY <1>1 DEF Sent
<1>8. Held'
  <2> SUFFICES ASSUME NEW u \in Threads, view'.kind = "history", view'.scope = {u}
               PROVE  Walks(Sent({u})', view'.got, view'.next, view'.prev, view'.bottom)
    BY DEF Held
  <2> QED
    BY <1>0, <1>1, <1>2, <1>7
<1> QED
  BY <1>4, <1>5, <1>6, <1>8 DEF HistoryInv

LEMMA CloseOK ==
  ASSUME HistoryInv, Close
  PROVE  HistoryInv'
<1>1. MaxSize \in Nat
  BY HistoryAssumption
<1>2. view' = Closed /\ UNCHANGED <<row, member>>
  BY DEF Close
<1>3. \A t \in Threads : {} # {t}
  OBVIOUS
<1>4. 0 \in 0..MaxSize /\ {} \in SUBSET Threads /\ {} \in SUBSET DOMAIN row
      /\ FALSE \in BOOLEAN /\ None \in DOMAIN row \cup {None}
  BY <1>1
<1>5. Serves("history", {}, 0, {}, None, None, FALSE)
  BY <1>3, <1>4 DEF Serves
<1> QED
  BY <1>2, <1>5, SessionOK DEF Closed

\* A history is of one thread.
LEMMA ScopesOK ==
  ASSUME NEW kind \in {"history", "search"}, NEW scope \in Scopes(kind)
  PROVE  /\ scope \in SUBSET Threads
         /\ kind = "history" => \E t \in Threads : scope = {t}
  BY DEF Scopes

LEMMA OpenOK ==
  ASSUME HistoryInv, NEW kind \in {"history", "search"}, NEW scope \in Scopes(kind),
         NEW size \in Sizes, Open(kind, scope, size)
  PROVE  HistoryInv'
<1>1. PICK n : n = Limit(size)
  OBVIOUS
<1>2. n \in Nat /\ n >= 1 /\ n \in 0..MaxSize /\ n # 0
  BY <1>1, LimitRange
<1>3. PICK V \in Rows(kind, scope) :
         view' = Session(kind, scope, size, PageInfo(V, Limit(size), None, "after"))
  BY DEF Open
<1>4. PICK p : p = PageInfo(V, n, None, "after")
  OBVIOUS
<1>5. PICK bottom \in BOOLEAN : bottom = (p.next = None /\ scope \subseteq member)
  OBVIOUS
<1>6. view' = [kind |-> kind, scope |-> scope, limit |-> n, got |-> p.rows, next |-> p.next,
               prev |-> p.prev, bottom |-> bottom] /\ UNCHANGED <<row, member>>
  BY <1>1, <1>3, <1>4, <1>5 DEF Open, Session
<1>7. V \in SUBSET (1..Len(row)) /\ Len(row) \in Nat /\ DOMAIN row = 1..Len(row)
  BY SentIds, RowsSent DEF HistoryInv
<1>8. p.rows \subseteq V /\ p.next \in V \cup {None} /\ p.prev \in V \cup {None}
  BY <1>2, <1>4, <1>7, PageTyped
<1>9. ASSUME NEW t \in Threads, kind = "history", scope = {t}
      PROVE  Walks(Sent({t}), p.rows, p.next, p.prev, bottom)
  <2>1. V = IF t \in member THEN Sent({t}) ELSE {}
    BY <1>9, AllOrNothing DEF Rows
  <2>2. CASE t \in member
    <3>1. Walks(V, p.rows, p.next, p.prev, p.next = None)
      BY <1>2, <1>4, <1>7, OpenWalks
    <3>2. bottom = (p.next = None)
      BY <1>5, <1>9, <2>2
    <3> QED
      BY <2>1, <2>2, <3>1, <3>2
  <2>3. CASE t \notin member
    <3>1. p.rows = {} /\ p.next = None /\ p.prev = None
      BY <1>2, <1>4, <2>1, <2>3, EmptyPage
    <3> QED
      BY <3>1 DEF Walks
  <2> QED
    BY <2>2, <2>3
<1>10. /\ p.rows \in SUBSET DOMAIN row /\ p.next \in DOMAIN row \cup {None}
       /\ p.prev \in DOMAIN row \cup {None}
  BY <1>7, <1>8
<1>11. Serves(kind, scope, n, p.rows, p.next, p.prev, bottom)
  BY <1>2, <1>5, <1>9, <1>10, ScopesOK DEF Serves
<1> QED
  BY <1>6, <1>11, SessionOK

LEMMA AroundOK ==
  ASSUME HistoryInv, NEW t \in Threads, NEW size \in Sizes, NEW m \in DOMAIN row,
         OpenAround(t, size, m)
  PROVE  HistoryInv'
<1>1. PICK n : n = Limit(size)
  OBVIOUS
<1>2. n \in Nat /\ n >= 1 /\ n \in 0..MaxSize /\ n # 0
  BY <1>1, LimitRange
<1>3. PICK V : V = Visible({t})
  OBVIOUS
<1>4. PICK p : p = AroundPageInfo(V, n, m)
  OBVIOUS
<1>5. PICK bottom \in BOOLEAN : bottom = (p.next = None /\ {t} \subseteq member)
  OBVIOUS
<1>6. view' = [kind |-> "history", scope |-> {t}, limit |-> n, got |-> p.rows, next |-> p.next,
               prev |-> p.prev, bottom |-> bottom] /\ UNCHANGED <<row, member>>
  BY <1>1, <1>3, <1>4, <1>5 DEF OpenAround, Session
<1>7. V = IF t \in member THEN Sent({t}) ELSE {}
  BY <1>3, AllOrNothing
<1>8. V \in SUBSET (1..Len(row)) /\ Len(row) \in Nat /\ DOMAIN row = 1..Len(row) /\ m \in Nat
  BY <1>7, SentIds DEF HistoryInv
<1>9. /\ p.rows \subseteq V /\ p.next \in (1..Len(row)) \cup {None}
      /\ p.prev \in (1..Len(row)) \cup {None}
  BY <1>2, <1>4, <1>8, AroundTyped
<1>10. Walks(Sent({t}), p.rows, p.next, p.prev, bottom)
  <2>1. CASE t \in member
    <3>1. Walks(V, p.rows, p.next, p.prev, p.next = None)
      BY <1>2, <1>4, <1>8, AroundWalks
    <3>2. bottom = (p.next = None)
      BY <1>5, <2>1
    <3> QED
      BY <1>7, <2>1, <3>1, <3>2
  <2>2. CASE t \notin member
    <3>1. p.rows = {} /\ p.next = None /\ p.prev = None
      BY <1>2, <1>4, <1>7, <1>8, <2>2, EmptyAround
    <3> QED
      BY <3>1 DEF Walks
  <2> QED
    BY <2>1, <2>2
<1>11. /\ p.rows \in SUBSET DOMAIN row /\ p.next \in DOMAIN row \cup {None}
       /\ p.prev \in DOMAIN row \cup {None}
  BY <1>8, <1>9
<1>12. \A u \in Threads : {t} = {u} => Walks(Sent({u}), p.rows, p.next, p.prev, bottom)
  BY <1>10
<1>13. Serves("history", {t}, n, p.rows, p.next, p.prev, bottom)
  BY <1>2, <1>5, <1>11, <1>12 DEF Serves
<1> QED
  BY <1>6, <1>13, SessionOK

LEMMA OlderOK ==
  ASSUME HistoryInv, Older
  PROVE  HistoryInv'
<1>1. PICK v : v = view
  OBVIOUS
<1>2. PICK V \in Rows(v.kind, v.scope) :
         LET p == PageInfo(V, view.limit, view.next, "after") IN
         view' = [view EXCEPT !.got = @ \cup p.rows, !.next = p.next,
                              !.bottom = p.next = None /\ view.scope \subseteq member]
  BY <1>1 DEF Older
<1>3. PICK p : p = PageInfo(V, v.limit, v.next, "after")
  OBVIOUS
<1>4. v \in View
  BY <1>1 DEF HistoryInv, ViewOK
<1>5. PICK bottom \in BOOLEAN : bottom = (p.next = None /\ v.scope \subseteq member)
  OBVIOUS
<1>6. /\ v.next # None /\ UNCHANGED <<row, member>>
      /\ view' = [v EXCEPT !.got = @ \cup p.rows, !.next = p.next, !.bottom = bottom]
  BY <1>1, <1>2, <1>3, <1>5 DEF Older
<1>7. view' = [kind |-> v.kind, scope |-> v.scope, limit |-> v.limit, got |-> v.got \cup p.rows,
               next |-> p.next, prev |-> v.prev, bottom |-> bottom]
  BY <1>4, <1>6 DEF View
<1>8. V \in SUBSET (1..Len(row)) /\ Len(row) \in Nat /\ DOMAIN row = 1..Len(row)
  BY SentIds, RowsSent DEF HistoryInv
<1>9. /\ v.limit \in 0..MaxSize /\ v.limit # 0 /\ v.limit \in Nat /\ v.limit >= 1
      /\ v.scope \in SUBSET Threads /\ v.kind \in {"history", "search"}
  <2>1. v.limit \in 0..MaxSize /\ v.scope \in SUBSET Threads /\ MaxSize \in Nat
        /\ v.kind \in {"history", "search"}
    BY <1>4, HistoryAssumption DEF View
  <2>2. v.limit # 0
    BY <1>1, <1>6 DEF HistoryInv, ViewOK
  <2> QED
    BY <2>1, <2>2
<1>10. v.next \in 1..Len(row) /\ v.got \subseteq DOMAIN row /\ v.prev \in DOMAIN row \cup {None}
  BY <1>1, <1>6, <1>8 DEF HistoryInv, TypeOK
<1>11. p.rows \subseteq V /\ p.next \in V \cup {None}
  BY <1>3, <1>8, <1>9, PageTyped
<1>12. ASSUME NEW t \in Threads, v.kind = "history", v.scope = {t}
       PROVE  Walks(Sent({t}), v.got \cup p.rows, p.next, v.prev, bottom)
  <2>1. V = IF t \in member THEN Sent({t}) ELSE {}
    BY <1>12, AllOrNothing DEF Rows
  <2>2. Walks(Sent({t}), v.got, v.next, v.prev, v.bottom)
    BY <1>1, <1>12 DEF HistoryInv, Held
  <2>3. CASE t \in member
    <3>1. PageAfter(V, v.next, p.rows, p.next)
      BY <1>3, <1>8, <1>9, <1>10, OlderPage
    <3>2. Walks(V, v.got \cup p.rows, p.next, v.prev, p.next = None)
      BY <1>6, <1>8, <2>1, <2>2, <2>3, <3>1, OlderWalks
    <3>3. bottom = (p.next = None)
      BY <1>5, <1>12, <2>3
    <3> QED
      BY <2>1, <2>3, <3>2, <3>3
  <2>4. CASE t \notin member
    <3>1. p.rows = {} /\ p.next = None /\ ~bottom
      BY <1>3, <1>5, <1>9, <1>12, <2>1, <2>4, EmptyPage
    <3> QED
      BY <2>2, <3>1 DEF Walks
  <2> QED
    BY <2>3, <2>4
<1>13. v.got \cup p.rows \in SUBSET DOMAIN row /\ p.next \in DOMAIN row \cup {None}
  BY <1>8, <1>10, <1>11
<1>14. v.kind = "history" => \E t \in Threads : v.scope = {t}
  BY <1>1, <1>9 DEF HistoryInv, ViewOK
<1>15. Serves(v.kind, v.scope, v.limit, v.got \cup p.rows, p.next, v.prev, bottom)
  BY <1>9, <1>10, <1>12, <1>13, <1>14 DEF Serves
<1> QED
  BY <1>6, <1>7, <1>15, SessionOK

LEMMA NewerOK ==
  ASSUME HistoryInv, Newer
  PROVE  HistoryInv'
<1>1. PICK v : v = view
  OBVIOUS
<1>2. PICK V \in Rows(v.kind, v.scope) :
         LET p == PageInfo(V, view.limit, view.prev, "before") IN
         view' = [view EXCEPT !.got = @ \cup p.rows, !.prev = p.prev]
  BY <1>1 DEF Newer
<1>3. PICK p : p = PageInfo(V, v.limit, v.prev, "before")
  OBVIOUS
<1>4. v \in View
  BY <1>1 DEF HistoryInv, ViewOK
<1>5. /\ v.prev # None /\ UNCHANGED <<row, member>>
      /\ view' = [v EXCEPT !.got = @ \cup p.rows, !.prev = p.prev]
  BY <1>1, <1>2, <1>3 DEF Newer
<1>6. view' = [kind |-> v.kind, scope |-> v.scope, limit |-> v.limit, got |-> v.got \cup p.rows,
               next |-> v.next, prev |-> p.prev, bottom |-> v.bottom]
  BY <1>4, <1>5 DEF View
<1>7. V \in SUBSET (1..Len(row)) /\ Len(row) \in Nat /\ DOMAIN row = 1..Len(row)
  BY SentIds, RowsSent DEF HistoryInv
<1>8. /\ v.limit \in 0..MaxSize /\ v.limit # 0 /\ v.limit \in Nat /\ v.limit >= 1
      /\ v.scope \in SUBSET Threads /\ v.bottom \in BOOLEAN /\ v.kind \in {"history", "search"}
  <2>1. v.limit \in 0..MaxSize /\ v.scope \in SUBSET Threads /\ MaxSize \in Nat
        /\ v.bottom \in BOOLEAN /\ v.kind \in {"history", "search"}
    BY <1>4, HistoryAssumption DEF View
  <2>2. v.limit # 0
    BY <1>1, <1>5 DEF HistoryInv, ViewOK
  <2> QED
    BY <2>1, <2>2
<1>9. v.prev \in 1..Len(row) /\ v.got \subseteq DOMAIN row /\ v.next \in DOMAIN row \cup {None}
  BY <1>1, <1>5, <1>7 DEF HistoryInv, TypeOK
<1>10. p.rows \subseteq V /\ p.prev \in V \cup {None}
  BY <1>3, <1>7, <1>8, PageTyped
<1>11. ASSUME NEW t \in Threads, v.kind = "history", v.scope = {t}
       PROVE  Walks(Sent({t}), v.got \cup p.rows, v.next, p.prev, v.bottom)
  <2>1. V = IF t \in member THEN Sent({t}) ELSE {}
    BY <1>11, AllOrNothing DEF Rows
  <2>2. Walks(Sent({t}), v.got, v.next, v.prev, v.bottom)
    BY <1>1, <1>11 DEF HistoryInv, Held
  <2>3. CASE t \in member
    <3>1. PageBefore(V, v.prev, p.rows, p.prev)
      BY <1>3, <1>7, <1>8, <1>9, NewerPage
    <3>2. v.prev \in Nat
      BY <1>7, <1>9
    <3>3. Walks(V, v.got, v.next, v.prev, v.bottom)
      BY <2>1, <2>2, <2>3
    <3>4. Walks(V, v.got \cup p.rows, v.next, p.prev, v.bottom)
      BY <1>5, <1>7, <3>1, <3>2, <3>3, NewerWalks
    <3> QED
      BY <2>1, <2>3, <3>4
  <2>4. CASE t \notin member
    <3>1. p.rows = {} /\ p.prev = None
      BY <1>3, <1>8, <2>1, <2>4, EmptyPage
    <3> QED
      BY <2>2, <3>1 DEF Walks
  <2> QED
    BY <2>3, <2>4
<1>12. v.got \cup p.rows \in SUBSET DOMAIN row /\ p.prev \in DOMAIN row \cup {None}
  BY <1>7, <1>9, <1>10
<1>13. v.kind = "history" => \E t \in Threads : v.scope = {t}
  BY <1>1, <1>8 DEF HistoryInv, ViewOK
<1>14. Serves(v.kind, v.scope, v.limit, v.got \cup p.rows, v.next, p.prev, v.bottom)
  BY <1>8, <1>9, <1>11, <1>12, <1>13 DEF Serves
<1> QED
  BY <1>5, <1>6, <1>14, SessionOK

-----------------------------------------------------------------------------
(* The theorems *)

(* Every step keeps the invariant: rows of one thread are committed in the order of    *)
(* their ids, and a client holds an interval of them with its cursors at its ends,     *)
(* also after it lost access.                                                          *)
THEOREM HistoryInvariance == Spec => []HistoryInv
<1>1. HistoryInv /\ [Next]_vars => HistoryInv'
  <2> SUFFICES ASSUME HistoryInv, [Next]_vars PROVE HistoryInv'
    OBVIOUS
  <2>1. CASE UNCHANGED vars
    <3>1. UNCHANGED <<row, view>> /\ member' = member /\ member \subseteq Threads
      BY <2>1 DEF vars, HistoryInv, TypeOK
    <3> QED
      BY <3>1, MemberOK
  <2>2. ASSUME NEW t \in Threads, SaveMessage(t) PROVE HistoryInv'
    BY <2>2, SaveOK
  <2>3. ASSUME NEW t \in Threads, Leave(t) \/ Join(t) PROVE HistoryInv'
    <3>1. UNCHANGED <<row, view>> /\ member' \subseteq Threads
      BY <2>3 DEF Leave, Join, HistoryInv, TypeOK
    <3> QED
      BY <3>1, MemberOK
  <2>4. ASSUME NEW m \in DOMAIN row, NEW s \in {"sent", "lost"}, EndTx(m, s) PROVE HistoryInv'
    BY <2>4, EndTxOK
  <2>5. ASSUME NEW kind \in {"history", "search"}, NEW size \in Sizes, NEW scope \in Scopes(kind),
               Open(kind, scope, size)
        PROVE  HistoryInv'
    BY <2>5, OpenOK
  <2>6. ASSUME NEW t \in Threads, NEW size \in Sizes, NEW m \in DOMAIN row,
               OpenAround(t, size, m)
        PROVE  HistoryInv'
    BY <2>6, AroundOK
  <2>7. CASE Older
    BY <2>7, OlderOK
  <2>8. CASE Newer
    BY <2>8, NewerOK
  <2>9. CASE Close
    BY <2>9, CloseOK
  <2> QED
    BY <2>1, <2>2, <2>3, <2>4, <2>5, <2>6, <2>7, <2>8, <2>9 DEF Next
<1> QED
  BY <1>1, InitOK, PTL DEF Spec

(* Rows are appended in the order of their ids, and what a client is given, cursors    *)
(* included, are messages that exist.                                                  *)
THEOREM Typing == Spec => []TypeOK
<1>1. HistoryInv => TypeOK
  BY DEF HistoryInv
<1> QED
  BY <1>1, HistoryInvariance, PTL

\* A session that holds part of a history holds part of one thread.
LEMMA OneThread ==
  ASSUME HistoryInv, view.kind = "history", view.got # {}
  PROVE  /\ Walks(Sent(view.scope), view.got, view.next, view.prev, view.bottom)
         /\ view.got \in SUBSET (1..Len(row)) /\ Len(row) \in Nat
         /\ Visible(view.scope) \subseteq Sent(view.scope)
         /\ view.scope \subseteq member => Visible(view.scope) = Sent(view.scope)
<1>1. PICK t \in Threads : view.scope = {t}
  BY DEF HistoryInv, ViewOK
<1>2. Walks(Sent({t}), view.got, view.next, view.prev, view.bottom)
  BY <1>1 DEF HistoryInv, Held
<1>3. Len(row) \in Nat /\ DOMAIN row = 1..Len(row)
  BY SentIds DEF HistoryInv
<1> QED
  BY <1>1, <1>2, <1>3, AllOrNothing DEF HistoryInv, TypeOK

(* What a client holds of a thread's history has no hole, whatever was sent and        *)
(* committed between its requests, for every page size, walking in both directions,    *)
(* and also when it lost access and got it back.                                       *)
THEOREM HistoryComplete == Spec => []NoGap
<1>1. ASSUME HistoryInv PROVE NoGap
  <2> SUFFICES ASSUME view.kind = "history", view.scope \subseteq member, view.got # {}
               PROVE  view.got = {m \in Visible(view.scope) : m \in Min(view.got)..Max(view.got)}
    BY DEF NoGap
  <2>1. PICK got : got = view.got
    OBVIOUS
  <2>2. PICK V : V = Visible(view.scope)
    OBVIOUS
  <2>3. Walks(V, got, view.next, view.prev, view.bottom)
    BY <1>1, <2>1, <2>2, OneThread
  <2>4. got \in SUBSET (1..Len(row)) /\ Len(row) \in Nat /\ got # {}
    BY <1>1, <2>1, OneThread
  <2>5. PICK a \in got : a = Min(got) /\ \A y \in got : a <= y
    BY <2>4, Ends
  <2>6. PICK c \in got : c = Max(got) /\ \A y \in got : y <= c
    BY <2>4, Ends
  <2>7. V \in SUBSET (1..Len(row))
    BY <1>1, <2>2, OneThread, SentIds DEF HistoryInv
  <2>8. \A x \in got \cup V : x \in Nat
    BY <2>4, <2>7
  <2>9. got \subseteq V /\ (\A x \in V : a < x /\ x < c => x \in got)
    BY <2>3 DEF Walks
  <2>10. ASSUME NEW x \in V, x \in a..c PROVE x \in got
    <3>1. x \in Nat /\ a \in Nat /\ c \in Nat /\ a <= x /\ x <= c
      BY <2>8, <2>10
    <3>2. x = a \/ x = c \/ (a < x /\ x < c)
      BY <3>1
    <3> QED
      BY <2>9, <3>2
  <2>11. ASSUME NEW x \in got PROVE x \in V /\ x \in a..c
    <3>1. x \in Nat /\ a \in Nat /\ c \in Nat /\ a <= x /\ x <= c
      BY <2>5, <2>6, <2>8
    <3> QED
      BY <2>9, <3>1
  <2>12. got = {m \in V : m \in a..c}
    BY <2>10, <2>11
  <2> QED
    BY <2>1, <2>2, <2>5, <2>6, <2>12
<1> QED
  BY <1>1, HistoryInvariance, PTL

(* A page without a next_cursor, given to a caller that may read the thread, really is *)
(* the last one: there never is a message older than the oldest the client holds.      *)
THEOREM BottomIsReal == Spec => []EndHonest
<1>1. ASSUME HistoryInv PROVE EndHonest
  <2> SUFFICES ASSUME view.kind = "history", view.bottom, view.got # {},
                      NEW m \in Visible(view.scope)
               PROVE  m >= Min(view.got)
    BY DEF EndHonest
  <2>1. PICK got : got = view.got
    OBVIOUS
  <2>2. PICK V : V = Sent(view.scope)
    OBVIOUS
  <2>3. Walks(V, got, view.next, view.prev, view.bottom) /\ m \in V
    BY <1>1, <2>1, <2>2, OneThread
  <2>4. got \in SUBSET (1..Len(row)) /\ Len(row) \in Nat /\ got # {}
    BY <1>1, <2>1, OneThread
  <2>5. PICK a \in got : a = Min(got) /\ \A y \in got : a <= y
    BY <2>4, Ends
  <2>6. PICK g \in got : g <= m
    BY <2>1, <2>3 DEF Walks
  <2>7. m \in Nat
    BY <1>1, <2>2, <2>3, SentIds DEF HistoryInv
  <2>8. a \in Nat /\ g \in Nat /\ a <= g
    BY <2>4, <2>5
  <2>9. m >= a
    BY <2>6, <2>7, <2>8
  <2> QED
    BY <2>1, <2>5, <2>9
<1> QED
  BY <1>1, HistoryInvariance, PTL
=============================================================================
