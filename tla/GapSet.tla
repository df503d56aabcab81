-------------------------------- MODULE GapSet --------------------------------
(***************************************************************************)
(* The manager's record of the sequence numbers a session has received: a  *)
(* sorted set of closed intervals that grow and merge (gapSet.hpp).  The   *)
(* gaps between them are what the manager asks the agent to send again.    *)
(***************************************************************************)
EXTENDS Integers, FiniteSets

CONSTANT Sizes   \* the sizes a Start message may declare

ASSUME SizesAssumption == Sizes \subseteq Nat

VARIABLES m_size, m_intervals, m_allObserved, m_observedCount

vars == <<m_size, m_intervals, m_allObserved, m_observedCount>>

Interval == [start : Nat, end : Nat]

TypeOK ==
  /\ m_size \in Sizes
  /\ m_intervals \subseteq Interval
  /\ m_allObserved \in BOOLEAN
  /\ m_observedCount \in Nat

Init ==
  /\ m_size \in Sizes
  /\ m_intervals = {}
  /\ m_allObserved = (m_size = 0)
  /\ m_observedCount = 0

-----------------------------------------------------------------------------
(* Intervals *)

Singleton(seq) == [start |-> seq, end |-> seq]

Less(i, j) == i.start < j.start \/ (i.start = j.start /\ i.end < j.end)

Holds(i, seq) == i.start <= seq /\ seq <= i.end

\* Variant: only overlapping intervals merge.
OverlapsHull(S, i) ==
  /\ \E j \in S : j.start <= i.end
  /\ \E j \in S : i.start <= j.end

\* canMergeWith, for the interval mergeWith has made of those in S.
CanMerge(S, i) ==
  /\ \E j \in S : j.start <= i.end + 1
  /\ \E j \in S : i.start <= j.end + 1

Hull(S) ==
  [start |-> CHOOSE n \in {i.start : i \in S} : \A i \in S : n <= i.start,
   end   |-> CHOOSE n \in {i.end : i \in S} : \A i \in S : i.end <= n]

\* lower_bound, and what lies before it.
From(seq) == {i \in m_intervals : ~ Less(i, Singleton(seq))}

Before(seq) == {i \in m_intervals : Less(i, Singleton(seq))}

\* The iterators std::prev(it) and it, as sets of at most one interval.
Prev(seq) == {i \in Before(seq) : \A j \in Before(seq) : ~ Less(i, j)}

It(seq) == {i \in From(seq) : \A j \in From(seq) : ~ Less(j, i)}

-----------------------------------------------------------------------------
(* observe *)

AlreadyObserved(seq) == \E i \in Prev(seq) \cup It(seq) : Holds(i, seq)

MergedPrev(seq) == {i \in Prev(seq) : CanMerge({Singleton(seq)}, i)}

\* The while loop: following intervals are merged up to the first that does
\* not touch what has been merged before it.
MergedNext(seq) ==
  {i \in From(seq) :
     \A j \in From(seq) : ~ Less(i, j) =>
       CanMerge({Singleton(seq)} \cup MergedPrev(seq) \cup {k \in From(seq) : Less(k, j)}, j)}

Merged(seq) == {Singleton(seq)} \cup MergedPrev(seq) \cup MergedNext(seq)

\* Variant: the last number is taken for m_size.
IsWholeOffByOne(S) == \E i \in S : S = {i} /\ i.start = 0 /\ i.end = m_size

IsWhole(S) == \E i \in S : S = {i} /\ i.start = 0 /\ i.end = m_size - 1

\* A sequence number beyond m_size makes observe throw and changes nothing.
observe(seq) ==
  /\ seq < m_size
  /\ UNCHANGED m_size
  /\ IF m_allObserved \/ AlreadyObserved(seq)
     THEN UNCHANGED <<m_intervals, m_allObserved, m_observedCount>>
     ELSE /\ m_observedCount' = m_observedCount + 1
          /\ m_intervals' = (m_intervals \ Merged(seq)) \cup {Hull(Merged(seq))}
          /\ m_allObserved' = IsWhole(m_intervals')

-----------------------------------------------------------------------------
(* The questions a session asks *)

empty == m_size = 0 \/ m_allObserved

contains(seq) ==
  /\ seq < m_size
  /\ m_allObserved \/ \E i \in It(seq) \cup Prev(seq) : Holds(i, seq)

\* Variant: the gap is taken to include the end of the interval before it.
PosBeforeAtEnd(i) ==
  IF \E j \in m_intervals : Less(j, i)
  THEN (CHOOSE j \in m_intervals : Less(j, i) /\ \A k \in m_intervals : Less(k, i) => ~ Less(j, k)).end
  ELSE 0

\* The loop's pos when it reaches interval i.
PosBefore(i) ==
  IF \E j \in m_intervals : Less(j, i)
  THEN (CHOOSE j \in m_intervals : Less(j, i) /\ \A k \in m_intervals : Less(k, i) => ~ Less(j, k)).end + 1
  ELSE 0

\* The gaps, as a set: their order does not matter to the agent.
ranges ==
  IF m_size = 0 \/ m_allObserved THEN {}
  ELSE IF m_intervals = {} THEN {<<0, m_size - 1>>}
  ELSE {<<PosBefore(i), i.start - 1>> : i \in {j \in m_intervals : PosBefore(j) < j.start}}
         \cup {<<i.end + 1, m_size - 1>> :
                 i \in {j \in m_intervals : (\A k \in m_intervals : ~ Less(j, k)) /\ j.end + 1 < m_size}}

-----------------------------------------------------------------------------
Next == \E seq \in 0..(m_size - 1) : observe(seq)

Spec == Init /\ [][Next]_vars

-----------------------------------------------------------------------------
\* The numbers the intervals stand for.
Observed == {seq \in 0..(m_size - 1) : \E i \in m_intervals : Holds(i, seq)}

\* Separated: in whatever order the numbers arrive, the intervals stay inside
\* the declared size and never touch one another, which the binary search of
\* observe and contains (one neighbour on each side) relies on.
Separated ==
  /\ \A i \in m_intervals : i.start <= i.end /\ i.end < m_size
  /\ \A i, j \in m_intervals : i # j => i.end + 1 < j.start \/ j.end + 1 < i.start

\* RangesAreTheGaps: the ranges asked for again are exactly the numbers not
\* yet received, and contains agrees, so a session with a gap always asks for
\* something and never for what it has.
RangesAreTheGaps ==
  \A seq \in 0..(m_size - 1) :
    /\ contains(seq) <=> seq \in Observed
    /\ (seq \notin Observed) <=> \E r \in ranges : r[1] <= seq /\ seq <= r[2]

\* The gap set is a faithful tracker of the declared sequence numbers: it
\* forgets none, counts none twice, and is empty() when all have arrived.
Tracker == INSTANCE SeqTracker WITH
  size <- m_size, seen <- Observed, count <- m_observedCount, complete <- empty

ImplementsTracker == Tracker!Spec
==============================================================================
