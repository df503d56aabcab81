----------------------------- MODULE GapSetProofs -----------------------------
(***************************************************************************)
(* GapSet implements SeqTracker, and ranges() returns the gaps, for every  *)
(* declared size.                                                          *)
(*                                                                         *)
(* The inductive invariant is that the intervals are separated, that       *)
(* m_allObserved says whether they cover all numbers, and that the count   *)
(* is the number of covered ones.  Because they are separated, the number  *)
(* observed can lie in, or touch, only the interval before lower_bound and *)
(* the one at it: at most two intervals merge with it.                     *)
(***************************************************************************)
EXTENDS GapSet, TLAPS, FiniteSetTheorems, WellFoundedInduction

IInv ==
  /\ TypeOK
  /\ Separated
  /\ m_allObserved <=> (Observed = 0..(m_size - 1))
  /\ m_observedCount = Cardinality(Observed)

-----------------------------------------------------------------------------
\* The neighbours lower_bound finds are the only ones that can hold seq.
LEMMA HolderIsFound ==
  ASSUME TypeOK, Separated, NEW seq \in Nat
  PROVE  AlreadyObserved(seq) <=> \E i \in m_intervals : Holds(i, seq)
<1>1. AlreadyObserved(seq) => \E i \in m_intervals : Holds(i, seq)
  BY DEF AlreadyObserved, Prev, It, Before, From
<1>2. ASSUME NEW i \in m_intervals, Holds(i, seq)
      PROVE  AlreadyObserved(seq)
  <2>1. /\ i.start \in Nat /\ i.end \in Nat
        /\ i.start <= seq /\ seq <= i.end
    BY <1>2 DEF Holds, TypeOK, Interval
  <2>2. \A j \in m_intervals : j.start \in Nat /\ j.end \in Nat
    BY DEF TypeOK, Interval
  <2>3. CASE i.start < seq
    <3>1. i \in Before(seq)
      BY <2>1, <2>3 DEF Before, Less, Singleton
    <3>2. \A j \in Before(seq) : ~ Less(i, j)
      BY <2>1, <2>2 DEF Before, Less, Singleton, Separated
    <3> QED BY <3>1, <3>2, <1>2 DEF AlreadyObserved, Prev
  <2>4. CASE i.start = seq
    <3>1. i \in From(seq)
      BY <2>1, <2>4 DEF From, Less, Singleton
    <3>2. \A j \in From(seq) : ~ Less(j, i)
      BY <2>1, <2>2, <2>4 DEF From, Less, Singleton, Separated
    <3> QED BY <3>1, <3>2, <1>2 DEF AlreadyObserved, It
  <2> QED BY <2>1, <2>3, <2>4
<1> QED BY <1>1, <1>2

\* The intervals merged with a new number are those that touch it.
LEMMA MergedAreNeighbours ==
  ASSUME TypeOK, Separated, NEW seq \in Nat,
         \A i \in m_intervals : ~ Holds(i, seq)
  PROVE  /\ MergedPrev(seq) = {i \in m_intervals : i.end + 1 = seq}
         /\ MergedNext(seq) = {i \in m_intervals : i.start = seq + 1}
<1>1. \A i \in m_intervals : /\ i.start \in Nat /\ i.end \in Nat
                             /\ i.start <= i.end
                             /\ i.end < seq \/ seq < i.start
  BY DEF TypeOK, Interval, Separated, Holds
<1>2. Before(seq) = {i \in m_intervals : i.end < seq}
  BY <1>1 DEF Before, Less, Singleton
<1>3. From(seq) = {i \in m_intervals : seq < i.start}
  BY <1>1 DEF From, Less, Singleton
<1>4. MergedPrev(seq) = {i \in m_intervals : i.end + 1 = seq}
  <2>1. ASSUME NEW i \in MergedPrev(seq)
        PROVE  i \in m_intervals /\ i.end + 1 = seq
    BY <1>1, <1>2 DEF MergedPrev, Prev, CanMerge, Singleton
  <2>2. ASSUME NEW i \in m_intervals, i.end + 1 = seq
        PROVE  i \in MergedPrev(seq)
    <3>1. i \in Before(seq)
      BY <1>1, <1>2, <2>2
    <3>2. \A j \in Before(seq) : ~ Less(i, j)
      BY <1>1, <1>2, <2>2 DEF Less, Separated
    <3>3. CanMerge({Singleton(seq)}, i)
      BY <1>1, <2>2 DEF CanMerge, Singleton
    <3> QED BY <3>1, <3>2, <3>3 DEF MergedPrev, Prev
  <2> QED BY <2>1, <2>2
<1>5. MergedNext(seq) = {i \in m_intervals : i.start = seq + 1}
  <2> DEFINE Left == {Singleton(seq)} \cup MergedPrev(seq)
             Acc(j) == Left \cup {k \in From(seq) : Less(k, j)}
  <2>1. \A i \in m_intervals : i \in MergedNext(seq) <=>
          i \in From(seq) /\ \A j \in From(seq) : ~ Less(i, j) => CanMerge(Acc(j), j)
    BY DEF MergedNext, From
  <2>2. \A k \in Left : k.start \in Nat /\ k.end \in Nat /\ k.start <= seq /\ k.end <= seq
    BY <1>1, <1>4 DEF Singleton
  <2>3. Singleton(seq) \in Left /\ Singleton(seq).start = seq /\ Singleton(seq).end = seq
    BY DEF Singleton
  <2> HIDE DEF Left
  <2>4. ASSUME NEW i \in From(seq), i \in MergedNext(seq)
        PROVE  i.start = seq + 1
    <3>1. CanMerge(Acc(i), i)
      BY <1>1, <1>3, <2>1, <2>4 DEF Less
    <3>2. PICK k \in Acc(i) : i.start <= k.end + 1
      BY <3>1 DEF CanMerge
    <3>3. CASE k \in Left
      BY <3>2, <3>3, <2>2, <1>1, <1>3
    <3>4. CASE k \in From(seq) /\ Less(k, i)
      BY <3>2, <3>4, <1>1, <1>3 DEF Separated, Less
    <3> QED BY <3>2, <3>3, <3>4
  <2>5. ASSUME NEW i \in m_intervals, i.start = seq + 1
        PROVE  i \in MergedNext(seq)
    <3>1. i \in From(seq)
      BY <1>1, <1>3, <2>5
    <3>2. ASSUME NEW j \in From(seq), ~ Less(i, j)
          PROVE  CanMerge(Acc(j), j)
      <4>1. j = i
        BY <3>1, <3>2, <1>1, <1>3, <2>5 DEF Less, Separated
      <4>2. /\ Singleton(seq).start <= j.end + 1
            /\ j.start <= Singleton(seq).end + 1
        BY <4>1, <2>5, <2>3, <1>1
      <4> QED BY <4>2, <2>3 DEF CanMerge
    <3> QED BY <2>1, <3>1, <3>2
  <2>6. MergedNext(seq) \subseteq From(seq) /\ From(seq) \subseteq m_intervals
    BY DEF MergedNext, From
  <2> QED BY <2>4, <2>5, <2>6
<1> QED BY <1>4, <1>5

\* The merged interval covers the new number and its neighbours, and touches
\* none of the intervals that stay.
LEMMA HullOfMerged ==
  ASSUME TypeOK, Separated, NEW seq \in Nat, seq < m_size, m_size \in Nat,
         \A i \in m_intervals : ~ Holds(i, seq),
         NEW h, h = Hull(Merged(seq))
  PROVE  /\ h \in Interval
         /\ h.start <= seq /\ seq <= h.end /\ h.end < m_size
         /\ \A n \in Nat : Holds(h, n) <=>
              n = seq \/ \E i \in m_intervals \cap Merged(seq) : Holds(i, n)
         /\ \A j \in m_intervals \ Merged(seq) :
              j.end + 1 < h.start \/ h.end + 1 < j.start
<1> DEFINE L == {i \in m_intervals : i.end + 1 = seq}
           R == {i \in m_intervals : i.start = seq + 1}
<1>1. Merged(seq) = {Singleton(seq)} \cup L \cup R
  BY MergedAreNeighbours DEF Merged
<1>2. \A i \in m_intervals : /\ i.start \in Nat /\ i.end \in Nat
                             /\ i.start <= i.end /\ i.end < m_size
                             /\ i.end < seq \/ seq < i.start
  BY DEF TypeOK, Interval, Separated, Holds
<1>3. Singleton(seq).start = seq /\ Singleton(seq).end = seq
  BY DEF Singleton
<1>4. \A i, j \in L : i = j
  BY <1>2 DEF Separated
<1>5. \A i, j \in R : i = j
  BY <1>2 DEF Separated
<1> DEFINE S == Merged(seq)
           Starts == {i.start : i \in S}
           Ends == {i.end : i \in S}
<1>6. \E n \in Starts : \A i \in S : n <= i.start
  <2>1. CASE L = {}
    <3>1. \A i \in S : seq <= i.start
      BY <1>1, <1>2, <1>3, <2>1
    <3> QED BY <3>1, <1>1, <1>3
  <2>2. ASSUME NEW l \in L
        PROVE  \E n \in Starts : \A i \in S : n <= i.start
    <3>1. \A i \in S : l.start <= i.start
      BY <1>1, <1>2, <1>3, <1>4
    <3> QED BY <3>1, <1>1
  <2> QED BY <2>1, <2>2
<1>7. \E n \in Ends : \A i \in S : i.end <= n
  <2>1. CASE R = {}
    <3>1. \A i \in S : i.end <= seq
      BY <1>1, <1>2, <1>3, <2>1
    <3> QED BY <3>1, <1>1, <1>3
  <2>2. ASSUME NEW r \in R
        PROVE  \E n \in Ends : \A i \in S : i.end <= n
    <3>1. \A i \in S : i.end <= r.end
      BY <1>1, <1>2, <1>3, <1>5
    <3> QED BY <3>1, <1>1
  <2> QED BY <2>1, <2>2
<1>8. h = [start |-> CHOOSE n \in Starts : \A i \in S : n <= i.start,
           end   |-> CHOOSE n \in Ends : \A i \in S : i.end <= n]
  BY DEF Hull
<1>9. /\ h.start \in Starts /\ \A i \in S : h.start <= i.start
      /\ h.end \in Ends /\ \A i \in S : i.end <= h.end
  <2> HIDE DEF S, Starts, Ends
  <2>1. h.start = CHOOSE n \in Starts : \A i \in S : n <= i.start
    BY <1>8
  <2>2. h.end = CHOOSE n \in Ends : \A i \in S : i.end <= n
    BY <1>8
  <2>3. h.start \in Starts /\ \A i \in S : h.start <= i.start
    BY <1>6, <2>1, Zenon
  <2>4. h.end \in Ends /\ \A i \in S : i.end <= h.end
    BY <1>7, <2>2, Zenon
  <2> QED BY <2>3, <2>4
<1>10. h \in Interval
  <2>1. \A i \in S : i.start \in Nat /\ i.end \in Nat
    BY <1>1, <1>2, <1>3
  <2>2. h.start \in Nat /\ h.end \in Nat
    BY <1>9, <2>1
  <2> QED BY <1>8, <2>2 DEF Interval
<1>11. h.start <= seq /\ seq <= h.end
  BY <1>9, <1>1, <1>3
<1>12. \/ h.start = seq /\ L = {}
       \/ \E l \in L : h.start = l.start
  <2>1. PICK i \in S : h.start = i.start
    BY <1>9
  <2>2. ASSUME NEW l \in L PROVE h.start <= l.start /\ l.start < seq
    BY <1>9, <1>1, <1>2
  <2>3. \A r \in R : seq < r.start
    BY <1>2
  <2> QED BY <2>1, <2>2, <2>3, <1>1, <1>2, <1>3, <1>10, <1>11 DEF Interval
<1>13. \/ h.end = seq /\ R = {}
       \/ \E r \in R : h.end = r.end
  <2>1. PICK i \in S : h.end = i.end
    BY <1>9
  <2>2. ASSUME NEW r \in R PROVE r.end <= h.end /\ seq < r.end
    BY <1>9, <1>1, <1>2
  <2>3. \A l \in L : l.end < seq
    BY <1>2
  <2> QED BY <2>1, <2>2, <2>3, <1>1, <1>2, <1>3, <1>10, <1>11 DEF Interval
<1>14. h.end < m_size
  BY <1>13, <1>2, <1>10 DEF Interval
<1>15. Singleton(seq) \notin m_intervals
  BY <1>2, <1>3
<1>16. m_intervals \cap Merged(seq) = L \cup R
  BY <1>1, <1>15
<1>17. ASSUME NEW n \in Nat
       PROVE  Holds(h, n) <=> n = seq \/ \E i \in L \cup R : Holds(i, n)
  <2> USE <1>2, <1>10 DEF Interval, Holds
  <2>1. ASSUME n = seq PROVE Holds(h, n)
    BY <2>1, <1>11
  <2>2. ASSUME NEW i \in L \cup R, Holds(i, n) PROVE Holds(h, n)
    BY <2>2, <1>9, <1>1
  <2>3. ASSUME Holds(h, n), n < seq PROVE \E i \in L : Holds(i, n)
    BY <2>3, <1>12
  <2>4. ASSUME Holds(h, n), seq < n PROVE \E i \in R : Holds(i, n)
    BY <2>4, <1>13
  <2> QED BY <2>1, <2>2, <2>3, <2>4
<1>18. ASSUME NEW j \in m_intervals \ Merged(seq)
       PROVE  j.end + 1 < h.start \/ h.end + 1 < j.start
  <2>1. j \notin L /\ j \notin R
    BY <1>1
  <2>2. CASE j.end < seq
    BY <2>1, <2>2, <1>2, <1>12, <1>10 DEF Separated, Interval
  <2>3. CASE seq < j.start
    BY <2>1, <2>3, <1>2, <1>13, <1>10 DEF Separated, Interval
  <2> QED BY <2>2, <2>3, <1>2
<1> QED BY <1>10, <1>11, <1>14, <1>16, <1>17, <1>18

-----------------------------------------------------------------------------
\* A new GapSet, whatever its size, satisfies the inductive invariant.
LEMMA IInvInit == Init => IInv
<1> SUFFICES ASSUME Init PROVE IInv
  OBVIOUS
<1>1. m_size \in Nat
  BY SizesAssumption DEF Init
<1>2. TypeOK /\ Separated
  BY DEF Init, TypeOK, Separated
<1>3. Observed = {}
  BY DEF Init, Observed
<1>4. (m_size = 0) <=> ({} = 0..(m_size - 1))
  BY <1>1
<1> QED BY <1>2, <1>3, <1>4, FS_EmptySet, Zenon DEF Init, IInv

\* Observing a number adds it to the observed ones and to nothing else.
LEMMA ObserveStep ==
  ASSUME IInv, NEW seq \in 0..(m_size - 1), observe(seq)
  PROVE  IInv' /\ Tracker!Observe(seq)
<1>1. /\ m_size \in Nat /\ m_size' = m_size /\ seq \in Nat /\ seq < m_size
  BY SizesAssumption DEF IInv, TypeOK, observe
<1>2. TypeOK /\ Separated
  BY DEF IInv
<1>3. AlreadyObserved(seq) <=> seq \in Observed
  BY <1>1, <1>2, HolderIsFound DEF Observed
<1>4. IsFiniteSet(Observed)
  <2>1. IsFiniteSet(0..(m_size - 1))
    BY <1>1, FS_Interval, 0 \in Int, m_size - 1 \in Int
  <2>2. Observed \subseteq 0..(m_size - 1)
    BY DEF Observed
  <2> QED BY <2>1, <2>2, FS_Subset, Zenon
<1>5. CASE m_allObserved \/ AlreadyObserved(seq)
  <2>1. UNCHANGED <<m_intervals, m_allObserved, m_observedCount>>
    BY <1>5 DEF observe
  <2>2. Observed' = Observed
    BY <2>1, <1>1 DEF Observed
  <2>3. seq \in Observed
    BY <1>3, <1>5, Zenon DEF IInv
  <2>4. IInv'
    BY <2>1, <2>2, <1>1 DEF IInv, TypeOK, Separated
  <2>5. Observed' = Observed \cup {seq}
    BY <2>2, <2>3
  <2>6. empty' = (Observed' = 0..(m_size - 1))
    BY <2>4, <1>1 DEF IInv, empty
  <2> QED BY <2>1, <2>3, <2>4, <2>5, <2>6, <1>1 DEF Tracker!Observe, Tracker!All
<1>6. CASE ~ (m_allObserved \/ AlreadyObserved(seq))
  <2> DEFINE h == Hull(Merged(seq))
  <2>1. /\ m_observedCount' = m_observedCount + 1
        /\ m_intervals' = (m_intervals \ Merged(seq)) \cup {h}
        /\ m_allObserved' = IsWhole(m_intervals')
    BY <1>6 DEF observe
  <2>2. \A i \in m_intervals : ~ Holds(i, seq)
    BY <1>1, <1>2, <1>6, HolderIsFound
  <2>3. /\ h \in Interval
        /\ h.start <= seq /\ seq <= h.end /\ h.end < m_size
        /\ \A n \in Nat : Holds(h, n) <=>
             n = seq \/ \E i \in m_intervals \cap Merged(seq) : Holds(i, n)
        /\ \A j \in m_intervals \ Merged(seq) :
             j.end + 1 < h.start \/ h.end + 1 < j.start
    BY <1>1, <1>2, <2>2, HullOfMerged
  <2> HIDE DEF h
  <2>4. Separated'
    BY <1>1, <1>2, <2>1, <2>3 DEF Separated, Interval
  <2>5. m_intervals' \subseteq Interval
    BY <1>2, <2>1, <2>3 DEF TypeOK
  <2>6. ASSUME NEW n \in 0..(m_size - 1)
        PROVE  (\E i \in m_intervals' : Holds(i, n)) <=>
                 n = seq \/ \E i \in m_intervals : Holds(i, n)
    <3>1. n \in Nat
      BY <1>1
    <3>2. (\E i \in m_intervals' : Holds(i, n)) <=>
            Holds(h, n) \/ \E i \in m_intervals \ Merged(seq) : Holds(i, n)
      BY <2>1
    <3> QED BY <3>1, <3>2, <2>3
  <2>7. Observed' = Observed \cup {seq}
    BY <1>1, <2>6 DEF Observed, Holds
  <2>8. m_observedCount' = Cardinality(Observed')
    <3>1. seq \notin Observed
      BY <1>3, <1>6
    <3> QED BY <3>1, <1>4, <2>1, <2>7, FS_AddElement DEF IInv
  <2>9. m_allObserved' <=> (Observed' = 0..(m_size' - 1))
    <3>1. ASSUME Observed' = 0..(m_size' - 1)
          PROVE  \E i \in m_intervals' : m_intervals' = {i} /\ i.start = 0 /\ i.end = m_size - 1
      <4>1. \A i \in m_intervals' : /\ i.start \in Nat /\ i.end \in Nat
                                    /\ i.start <= i.end /\ i.end < m_size
        BY <2>4, <2>5, <1>1 DEF Separated, Interval
      <4>2. PICK i \in m_intervals' : Holds(i, 0)
        BY <3>1, <1>1 DEF Observed
      <4>3. i.start = 0
        BY <4>1, <4>2 DEF Holds
      <4>4. i.end = m_size - 1
        <5>1. SUFFICES ASSUME i.end + 1 < m_size PROVE FALSE
          BY <4>1, <1>1
        <5>2. i.end + 1 \in Observed'
          BY <5>1, <3>1, <4>1, <1>1
        <5>3. PICK j \in m_intervals' : Holds(j, i.end + 1)
          BY <5>2 DEF Observed
        <5> QED BY <5>3, <4>1, <2>4 DEF Separated, Holds
      <4>5. \A j \in m_intervals' : j = i
        BY <4>1, <4>3, <4>4, <2>4, <1>1 DEF Separated
      <4> QED BY <4>3, <4>4, <4>5
    <3>2. m_allObserved' <=>
            \E i \in m_intervals' : m_intervals' = {i} /\ i.start = 0 /\ i.end = m_size - 1
      BY <2>1 DEF IsWhole
    <3>3. ASSUME NEW i \in m_intervals', m_intervals' = {i}, i.start = 0, i.end = m_size - 1
          PROVE  Observed' = 0..(m_size' - 1)
      BY <3>3, <1>1 DEF Observed, Holds
    <3> QED BY <3>1, <3>2, <3>3
  <2>10. m_allObserved' \in BOOLEAN /\ m_observedCount' \in Nat
    BY <2>1, <1>2 DEF IsWhole, TypeOK
  <2>11. IInv'
    BY <2>4, <2>5, <2>8, <2>9, <2>10, <1>1, <1>2 DEF IInv, TypeOK
  <2>12. empty' = (Observed' = 0..(m_size - 1))
    BY <2>9, <2>10, <1>1 DEF empty
  <2>13. seq \notin Observed
    BY <1>3, <1>6
  <2> QED BY <2>1, <2>7, <2>11, <2>12, <2>13, <1>1 DEF Tracker!Observe, Tracker!All
<1> QED BY <1>5, <1>6

\* Observing a number preserves the inductive invariant.
LEMMA IInvStep == IInv /\ [Next]_vars => IInv'
<1> SUFFICES ASSUME IInv, [Next]_vars PROVE IInv'
  OBVIOUS
<1>1. CASE Next
  BY <1>1, ObserveStep DEF Next
<1>2. CASE UNCHANGED vars
  BY <1>2 DEF vars, IInv, TypeOK, Separated, Observed, Holds
<1> QED BY <1>1, <1>2

-----------------------------------------------------------------------------
\* For every declared size and every order of arrival, the intervals that
\* observe keeps never touch and never leave the declared size.
THEOREM IntervalsAreSeparated == Spec => []Separated
<1>1. IInv => Separated
  BY DEF IInv
<1> QED BY <1>1, IInvInit, IInvStep, PTL DEF Spec

\* For every declared size, GapSet remembers exactly the numbers observed,
\* counts each once, and is empty() when all have been: it implements
\* SeqTracker under the mapping of the intervals to what they cover.
THEOREM GapSetImplementsTracker == Spec => ImplementsTracker
<1>1. Init => Tracker!Init
  <2> SUFFICES ASSUME Init PROVE Tracker!Init
    OBVIOUS
  <2>1. Observed = {}
    BY DEF Init, Observed
  <2>2. empty = (m_size = 0)
    BY Zenon DEF Init, empty
  <2> QED BY <2>1, <2>2 DEF Init, Tracker!Init
<1>2. IInv /\ [Next]_vars => [Tracker!Next]_(Tracker!vars)
  <2> SUFFICES ASSUME IInv, [Next]_vars PROVE [Tracker!Next]_(Tracker!vars)
    OBVIOUS
  <2>1. CASE Next
    <3>1. PICK seq \in 0..(m_size - 1) : observe(seq)
      BY <2>1 DEF Next
    <3>2. Tracker!Observe(seq)
      BY <3>1, ObserveStep
    <3> QED BY <3>2 DEF Tracker!Next, Tracker!All
  <2>2. CASE UNCHANGED vars
    BY <2>2 DEF vars, Tracker!vars, Observed, empty, Holds
  <2> QED BY <2>1, <2>2
<1> QED BY <1>1, <1>2, IInvInit, IInvStep, PTL DEF Spec, ImplementsTracker, Tracker!Spec

-----------------------------------------------------------------------------
(* The ranges asked for again *)

\* A set of natural numbers has a least element.
LEMMA LeastNumber ==
  ASSUME NEW T \in SUBSET Nat, T # {}
  PROVE  \E x \in T : \A y \in T : x <= y
<1> DEFINE R == OpToRel(<, Nat)
<1>1. IsWellFoundedOn(R, Nat)
  BY NatLessThanWellFounded, Zenon
<1>2. \A x, y \in Nat : y < x => <<y, x>> \in R
  BY DEF OpToRel
<1> HIDE DEF R
<1>3. \E x \in T : \A y \in T : ~ (<<y, x>> \in R)
  BY <1>1, WFMin, Zenon
<1>4. PICK x \in T : \A y \in T : ~ (<<y, x>> \in R)
  BY <1>3
<1>5. \A y \in T : ~ (y < x)
  BY <1>2, <1>4, Zenon
<1>6. T \subseteq Nat
  OBVIOUS
<1>7. \A y \in T : x <= y
  BY <1>5, <1>6
<1> QED BY <1>7

\* Among some intervals there is a first and a last one.
LEMMA FirstAndLast ==
  ASSUME TypeOK, Separated, m_size \in Nat, NEW S \in SUBSET m_intervals, S # {}
  PROVE  /\ \E i \in S : \A j \in S : i.start <= j.start
         /\ \E i \in S : \A j \in S : j.start <= i.start
<1>1. \A i \in S : i.start \in Nat /\ i.end \in Nat /\ i.start < m_size
  BY DEF TypeOK, Interval, Separated
<1>2. \E i \in S : \A j \in S : i.start <= j.start
  <2> DEFINE T == {i.start : i \in S}
  <2>1. T \in SUBSET Nat /\ T # {}
    BY <1>1
  <2>2. PICK x \in T : \A y \in T : x <= y
    BY <2>1, LeastNumber, Zenon
  <2> QED BY <2>2
<1>3. \E i \in S : \A j \in S : j.start <= i.start
  <2> DEFINE T == {m_size - i.start : i \in S}
  <2>1. T \in SUBSET Nat /\ T # {}
    BY <1>1
  <2>2. PICK x \in T : \A y \in T : x <= y
    BY <2>1, LeastNumber, Zenon
  <2>3. PICK i \in S : x = m_size - i.start
    OBVIOUS
  <2>4. \A j \in S : m_size - i.start <= m_size - j.start
    BY <2>2, <2>3
  <2>5. \A j \in S : j.start <= i.start
    BY <1>1, <2>4
  <2> QED BY <2>5
<1> QED BY <1>2, <1>3

\* When ranges() reaches an interval, its position is just past the interval
\* before it, and so past all of those before it.
LEMMA PosIsPastTheOthers ==
  ASSUME TypeOK, Separated, m_size \in Nat, NEW i \in m_intervals
  PROVE  /\ PosBefore(i) \in Nat
         /\ \A j \in m_intervals : Less(j, i) => j.end < PosBefore(i)
         /\ \/ PosBefore(i) = 0
            \/ \E j \in m_intervals : j.start < i.start /\ PosBefore(i) = j.end + 1
<1> DEFINE S == {j \in m_intervals : Less(j, i)}
           IsPrev(j) == Less(j, i) /\ \A k \in m_intervals : Less(k, i) => ~ Less(j, k)
<1>1. \A j \in m_intervals : j.start \in Nat /\ j.end \in Nat /\ j.start <= j.end
  BY DEF TypeOK, Interval, Separated
<1>2. CASE S = {}
  <2>1. PosBefore(i) = 0
    BY <1>2 DEF PosBefore
  <2> QED BY <1>2, <2>1
<1>3. CASE S # {}
  <2>1. PICK l \in S : \A j \in S : j.start <= l.start
    BY <1>3, FirstAndLast, Zenon
  <2>2. IsPrev(l)
    BY <1>1, <2>1 DEF Less, Separated
  <2>3. PICK p \in m_intervals : IsPrev(p) /\ PosBefore(i) = p.end + 1
    <3>1. \E j \in m_intervals : Less(j, i)
      BY <1>3
    <3>2. PosBefore(i) = (CHOOSE j \in m_intervals : IsPrev(j)).end + 1
      BY <3>1 DEF PosBefore
    <3> QED BY <2>1, <2>2, <3>2, Zenon
  <2>4. p.start < i.start
    BY <1>1, <2>3 DEF Less, Separated
  <2>5. ASSUME NEW j \in m_intervals, Less(j, i) PROVE j.end < PosBefore(i)
    <3>1. ~ Less(p, j)
      BY <2>3, <2>5
    <3>2. j = p \/ j.end < p.start
      BY <1>1, <3>1 DEF Less, Separated
    <3> QED BY <1>1, <2>3, <3>2
  <2> QED BY <1>1, <2>3, <2>4, <2>5
<1> QED BY <1>2, <1>3

\* The ranges cover exactly the numbers that no interval holds.
LEMMA RangesCoverGaps ==
  ASSUME IInv, NEW seq \in 0..(m_size - 1)
  PROVE  (seq \notin Observed) <=> \E r \in ranges : r[1] <= seq /\ seq <= r[2]
<1>1. m_size \in Nat /\ m_size # 0 /\ seq \in Nat /\ seq < m_size /\ TypeOK /\ Separated
  BY SizesAssumption DEF IInv, TypeOK
<1>2. \A j \in m_intervals : j.start \in Nat /\ j.end \in Nat /\ j.start <= j.end
  BY DEF IInv, TypeOK, Interval, Separated
<1>3. CASE m_allObserved
  BY <1>3 DEF IInv, ranges
<1>4. CASE ~ m_allObserved /\ m_intervals = {}
  <2>1. ranges = {<<0, m_size - 1>>} /\ Observed = {}
    BY <1>1, <1>4 DEF ranges, Observed
  <2> QED BY <1>1, <2>1
<1>5. CASE ~ m_allObserved /\ m_intervals # {}
  <2> DEFINE Gap(i) == <<PosBefore(i), i.start - 1>>
             IsLast(i) == (\A k \in m_intervals : ~ Less(i, k)) /\ i.end + 1 < m_size
  <2>1. ranges = {Gap(i) : i \in {j \in m_intervals : PosBefore(j) < j.start}}
                   \cup {<<i.end + 1, m_size - 1>> : i \in {j \in m_intervals : IsLast(j)}}
    BY <1>1, <1>5 DEF ranges
  <2>2. ASSUME seq \notin Observed
        PROVE  \E r \in ranges : r[1] <= seq /\ seq <= r[2]
    <3> DEFINE A == {i \in m_intervals : seq < i.start}
    <3>1. \A j \in m_intervals : seq < j.start \/ j.end < seq
      BY <1>1, <1>2, <2>2 DEF Observed, Holds
    <3>2. CASE A # {}
      <4>1. PICK i \in A : \A j \in A : i.start <= j.start
        BY <1>1, <3>2, FirstAndLast, Zenon
      <4>2. PosBefore(i) <= seq /\ PosBefore(i) \in Nat
        <5>1. CASE PosBefore(i) = 0
          BY <1>1, <5>1
        <5>2. CASE PosBefore(i) # 0
          <6>1. PICK j \in m_intervals : j.start < i.start /\ PosBefore(i) = j.end + 1
            BY <1>1, <4>1, <5>2, PosIsPastTheOthers
          <6>2. j.end < seq
            BY <1>1, <1>2, <3>1, <4>1, <6>1
          <6> QED BY <1>1, <1>2, <6>1, <6>2
        <5> QED BY <5>1, <5>2
      <4>3. Gap(i) \in ranges
        BY <1>1, <1>2, <2>1, <4>1, <4>2
      <4>4. seq <= i.start - 1
        BY <1>1, <1>2, <4>1
      <4> QED BY <4>2, <4>3, <4>4
    <3>3. CASE A = {}
      <4>1. PICK i \in m_intervals : \A j \in m_intervals : j.start <= i.start
        BY <1>1, <1>5, FirstAndLast
      <4>2. i.end < seq
        BY <3>1, <3>3
      <4>3. IsLast(i)
        BY <1>1, <1>2, <4>1, <4>2 DEF Less, Separated
      <4>4. <<i.end + 1, m_size - 1>> \in ranges
        BY <2>1, <4>3
      <4>5. i.end + 1 <= seq /\ seq <= m_size - 1
        BY <1>1, <1>2, <4>2
      <4> QED BY <4>4, <4>5
    <3> QED BY <3>2, <3>3
  <2>3. ASSUME NEW r \in ranges, r[1] <= seq, seq <= r[2], NEW k \in m_intervals, Holds(k, seq)
        PROVE  FALSE
    <3>1. k.start <= seq /\ seq <= k.end
      BY <2>3 DEF Holds
    <3>2. CASE \E i \in m_intervals : r = Gap(i)
      <4>1. PICK i \in m_intervals : r = Gap(i)
        BY <3>2
      <4>2. PosBefore(i) <= seq /\ seq <= i.start - 1
        BY <2>3, <4>1
      <4>3. Less(k, i)
        BY <1>1, <1>2, <3>1, <4>2 DEF Less
      <4>4. k.end < PosBefore(i) /\ PosBefore(i) \in Nat
        BY <1>1, <4>3, PosIsPastTheOthers
      <4> QED BY <1>1, <1>2, <3>1, <4>2, <4>4
    <3>3. CASE \E i \in m_intervals : IsLast(i) /\ r = <<i.end + 1, m_size - 1>>
      <4>1. PICK i \in m_intervals : IsLast(i) /\ r = <<i.end + 1, m_size - 1>>
        BY <3>3
      <4>2. i.end + 1 <= seq /\ ~ Less(i, k)
        BY <2>3, <4>1
      <4>3. k.end <= i.end
        BY <1>1, <1>2, <4>2 DEF Less, Separated
      <4> QED BY <1>1, <1>2, <3>1, <4>2, <4>3
    <3> QED BY <2>1, <2>3, <3>2, <3>3
  <2> QED BY <2>2, <2>3 DEF Observed
<1> QED BY <1>3, <1>4, <1>5

\* For every declared size and every order of arrival, the ranges the manager
\* asks for again are the numbers it has not received, no more and no fewer,
\* and contains() tells them apart.
THEOREM GapsAreAskedFor == Spec => []RangesAreTheGaps
<1>1. IInv => RangesAreTheGaps
  <2> SUFFICES ASSUME IInv, NEW seq \in 0..(m_size - 1)
               PROVE  /\ contains(seq) <=> seq \in Observed
                      /\ (seq \notin Observed) <=> \E r \in ranges : r[1] <= seq /\ seq <= r[2]
    BY DEF RangesAreTheGaps
  <2>1. m_size \in Nat /\ seq \in Nat /\ seq < m_size /\ TypeOK /\ Separated
    BY SizesAssumption DEF IInv, TypeOK
  <2>2. AlreadyObserved(seq) <=> seq \in Observed
    BY <2>1, HolderIsFound DEF Observed
  <2>3. contains(seq) <=> m_allObserved \/ AlreadyObserved(seq)
    BY <2>1 DEF contains, AlreadyObserved
  <2> QED BY <2>2, <2>3, RangesCoverGaps, Zenon DEF IInv
<1> QED BY <1>1, IInvInit, IInvStep, PTL DEF Spec
==============================================================================
