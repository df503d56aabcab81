------------------------ MODULE BulkProcessingProofs ------------------------
(***************************************************************************)
(* However the buffer is cut up and repeated, chunks are whole operations, *)
(* a call that returns has executed all of them in order, and to the       *)
(* sessions a call is one step: for all sizes, limits and answers.         *)
(*                                                                         *)
(* The inductive invariant says what the chunks ahead still cover.  Each   *)
(* starts no later than the one before it ends, and the last ends where    *)
(* the buffer ends, because the second half of a split always reaches to   *)
(* the end; what lies before the next one has been executed in order.      *)
(***************************************************************************)
EXTENDS BulkProcessing, WellFoundedInduction, TLAPS

\* The first k operations have been executed, the later ones last.
Done(k) ==
  /\ \A j \in 1..k : batch[j] \in executed
  /\ \A i, j \in 1..k : i < j => <<batch[i], batch[j]>> \in order

\* Operations enter the buffer in the order of their numbers.
Numbered ==
  /\ \A i, j \in 1..Len(m_bulkData) : i < j => m_bulkData[i] < m_bulkData[j]
  /\ \A i \in 1..Len(m_bulkData) : m_bulkData[i] <= added
  /\ caller = "index" => 1 <= added /\ \A i \in 1..Len(m_bulkData) : m_bulkData[i] < added

\* What a call keeps in its variables, by where it is.
Local ==
  /\ pc \notin {"chunk", "stopped"} => chunks = <<>>
  /\ pc # "deletes" => deletes = {}
  /\ pc = "idle" => caller = "none"
  /\ pc \in {"deletes", "chunk"} => m_bulkData = batch
  /\ pc = "bulk" => m_bulkData \in {batch, <<>>}

\* What the chunks ahead cover.
Cover ==
  pc = "chunk" =>
    /\ chunks = <<>> => Done(Len(batch))
    /\ chunks # <<>> =>
         /\ Inside(chunks[1]) => \A k \in 0..Len(batch) : End(k) <= chunks[1].from => Done(k)
         /\ chunks[Len(chunks)].to = Length
         /\ \A i \in 1..Len(chunks) - 1 : Inside(chunks[i + 1]) => chunks[i + 1].from <= chunks[i].to

\* What a call has done so far.
SoFar ==
  InCall =>
    /\ before.executed \subseteq executed
    /\ executed \subseteq before.executed \cup m_deleteByQuery \cup Range(batch)
    /\ "skipped" \notin faults => m_deleteByQuery \ deletes \subseteq executed
    /\ IF pc = "bulk" /\ m_bulkData = <<>>
       THEN m_shouldNotifyAfterBulk /\ Range(batch) \subseteq executed
       ELSE m_shouldNotifyAfterBulk = before.notify

IInv == TypeOK /\ Numbered /\ Local /\ ChunksAreWhole /\ Cover /\ ReturnIsComplete /\ SoFar

-----------------------------------------------------------------------------
\* Sets of numbers have a least element.
LEMMA LeastNumber ==
  ASSUME NEW T \in SUBSET Nat, T # {}
  PROVE  \E x \in T : \A y \in T : x <= y
<1> DEFINE R == OpToRel(<, Nat)
<1>1. IsWellFoundedOn(R, Nat)
  BY NatLessThanWellFounded, Zenon
<1>2. \A x, y \in Nat : y < x => <<y, x>> \in R
  BY DEF OpToRel
<1> HIDE DEF R
<1>3. \E x \in T : \A y \in T : ~ (<<y, x>> \in R)
  BY <1>1, WFMin, Zenon
<1>4. PICK x \in T : \A y \in T : ~ (<<y, x>> \in R)
  BY <1>3, Zenon
<1>5. \A y \in T : ~ (y < x)
  BY <1>2, <1>4, Zenon
<1>6. T \subseteq Nat
  OBVIOUS
<1>. QED  BY <1>5, <1>6

\* A set of numbers that 0 is in, and with a number less than n the next one,
\* has all numbers up to n.
LEMMA UpTo ==
  ASSUME NEW n \in Nat, NEW G, 0 \in G, \A k \in 0..n - 1 : k \in G => k + 1 \in G
  PROVE  0..n \subseteq G
<1> DEFINE T == 0..n \ G
<1>1. SUFFICES ASSUME T # {} PROVE FALSE
  BY Zenon
<1>2. T \in SUBSET Nat
  OBVIOUS
<1>3. PICK x \in T : \A y \in T : x <= y
  BY <1>1, <1>2, LeastNumber, Zenon
<1>4. x \in 0..n /\ x # 0
  BY <1>3
<1>5. x - 1 \in 0..n - 1 /\ ~ (x <= x - 1) /\ x - 1 \in 0..n /\ (x - 1) + 1 = x
  BY <1>4
<1>6. x - 1 \in G
  BY <1>3, <1>5, Zenon
<1>7. x \in G
  BY <1>5, <1>6, Zenon
<1>. QED  BY <1>3, <1>7, Zenon

\* The sums of the first numbers of a sequence of n numbers.
IsSums(e, s, n) == e = [k \in 0..n |-> IF k = 0 THEN 0 ELSE e[k - 1] + s[k]]

\* There are such sums.
LEMMA SumsExist ==
  ASSUME NEW n \in Nat, NEW s \in [1..n -> Nat]
  PROVE  \E e \in [0..n -> Nat] : IsSums(e, s, n)
<1> DEFINE G == {m \in Nat : m <= n => \E e \in [0..m -> Nat] : IsSums(e, s, m)}
<1>1. 0 \in G
  <2>1. [k \in 0..0 |-> 0] \in [0..0 -> Nat]
    OBVIOUS
  <2>2. IsSums([k \in 0..0 |-> 0], s, 0)
    BY DEF IsSums
  <2>. QED  BY <2>1, <2>2
<1>2. ASSUME NEW m \in 0..n - 1, m \in G PROVE m + 1 \in G
  <2>1. PICK e \in [0..m -> Nat] : IsSums(e, s, m)
    BY <1>2
  <2> DEFINE f == [k \in 0..m + 1 |-> IF k = m + 1 THEN e[m] + s[m + 1] ELSE e[k]]
  <2>2. f \in [0..m + 1 -> Nat]
    <3>1. m + 1 \in 1..n /\ m \in 0..m
      OBVIOUS
    <3>2. e[m] + s[m + 1] \in Nat
      BY <3>1
    <3>3. \A k \in 0..m + 1 : k # m + 1 => k \in 0..m
      OBVIOUS
    <3>. QED  BY <3>2, <3>3
  <2>3. \A k \in 0..m : e[k] = IF k = 0 THEN 0 ELSE e[k - 1] + s[k]
    BY <2>1 DEF IsSums
  <2>4. \A k \in 0..m + 1 : f[k] = IF k = 0 THEN 0 ELSE f[k - 1] + s[k]
    BY <2>3
  <2>5. f = [k \in 0..m + 1 |-> f[k]]
    OBVIOUS
  <2>6. IsSums(f, s, m + 1)
    BY <2>4, <2>5, Zenon DEF IsSums
  <2>7. \E g \in [0..m + 1 -> Nat] : IsSums(g, s, m + 1)
    BY <2>2, <2>6, Zenon
  <2>8. m + 1 \in Nat
    OBVIOUS
  <2>. QED  BY <2>7, <2>8, Zenon
<1>3. 0..n \subseteq G
  <2> HIDE DEF G
  <2>. QED  BY <1>1, <1>2, UpTo, Zenon
<1>4. n \in 0..n /\ n <= n
  OBVIOUS
<1>5. n \in G
  BY <1>3, <1>4, Zenon
<1>. QED  BY <1>4, <1>5, Zenon

\* Sums are what their name says.
LEMMA SumsAre ==
  ASSUME NEW n \in Nat, NEW s \in [1..n -> Nat], Len(s) = n
  PROVE  Sums(s) \in [0..n -> Nat] /\ IsSums(Sums(s), s, n)
<1>1. PICK f \in [0..n -> Nat] : IsSums(f, s, n)
  BY SumsExist
<1>2. Sums(s) = CHOOSE e : IsSums(e, s, n)
  BY DEF Sums, IsSums
<1>3. IsSums(Sums(s), s, n)
  BY <1>1, <1>2, Zenon
<1> DEFINE S == Sums(s)
           G == {k \in 0..n : S[k] \in Nat}
<1>4. S = [k \in 0..n |-> IF k = 0 THEN 0 ELSE S[k - 1] + s[k]]
  BY <1>3, Zenon DEF IsSums
<1> HIDE DEF S
<1>5. 0 \in G
  BY <1>4
<1>6. ASSUME NEW k \in 0..n - 1, k \in G PROVE k + 1 \in G
  <2>1. k + 1 \in 0..n /\ k + 1 # 0 /\ (k + 1) - 1 = k /\ k + 1 \in 1..n
    OBVIOUS
  <2>2. S[k + 1] = S[(k + 1) - 1] + s[k + 1]
    BY <1>4, <2>1, Zenon
  <2>3. S[k] \in Nat /\ s[k + 1] \in Nat
    BY <1>6, <2>1, Zenon
  <2>4. S[k] + s[k + 1] \in Nat
    BY <2>3
  <2>. QED  BY <2>1, <2>2, <2>4, Zenon
<1>7. 0..n \subseteq G
  <2> HIDE DEF G
  <2>. QED  BY <1>5, <1>6, UpTo, Zenon
<1>8. S \in [0..n -> Nat]
  BY <1>4, <1>7
<1>. QED  BY <1>3, <1>8, Zenon DEF S

\* The offsets of the operations of d, which have the sizes sz.
OffsetsOf(d, sz) == Sums([i \in 1..Len(d) |-> sz[d[i]]])

\* Offsets start at 0 and grow by the sizes of the operations.
LEMMA Offsets1 ==
  ASSUME NEW sz \in Seq(Nat \ {0}), NEW d \in Seq(DOMAIN sz)
  PROVE  /\ Len(d) \in Nat
         /\ OffsetsOf(d, sz) \in [0..Len(d) -> Nat]
         /\ OffsetsOf(d, sz)[0] = 0
         /\ \A k \in 1..Len(d) : /\ sz[d[k]] \in Nat \ {0}
                                 /\ OffsetsOf(d, sz)[k] = OffsetsOf(d, sz)[k - 1] + sz[d[k]]
<1> DEFINE s == [i \in 1..Len(d) |-> sz[d[i]]]
           E == OffsetsOf(d, sz)
<1>1. Len(d) \in Nat /\ \A k \in 1..Len(d) : d[k] \in DOMAIN sz
  OBVIOUS
<1>2. \A k \in DOMAIN sz : sz[k] \in Nat \ {0}
  OBVIOUS
<1>3. \A k \in 1..Len(d) : sz[d[k]] \in Nat \ {0}
  BY <1>1, <1>2, Zenon
<1>4. s \in [1..Len(d) -> Nat]
  BY <1>3
<1>5. Len(s) = Len(d)
  BY <1>1
<1> HIDE DEF s
<1>6. Sums(s) \in [0..Len(d) -> Nat] /\ IsSums(Sums(s), s, Len(d))
  BY <1>1, <1>4, <1>5, SumsAre, Zenon
<1>7. E = Sums(s)
  BY Zenon DEF OffsetsOf, s
<1>8. E = [k \in 0..Len(d) |-> IF k = 0 THEN 0 ELSE E[k - 1] + s[k]]
  BY <1>6, <1>7, Zenon DEF IsSums
<1> HIDE DEF E
<1>9. \A k \in 1..Len(d) : s[k] = sz[d[k]]
  BY Zenon DEF s
<1>10. E[0] = 0
  BY <1>1, <1>8
<1>11. \A k \in 1..Len(d) : E[k] = E[k - 1] + s[k]
  <2>1. \A k \in 1..Len(d) : k \in 0..Len(d) /\ k # 0
    BY <1>1
  <2>. QED  BY <1>8, <2>1, Zenon
<1>12. \A k \in 1..Len(d) : E[k] = E[k - 1] + sz[d[k]]
  BY <1>9, <1>11, Zenon
<1>. QED  BY <1>1, <1>3, <1>6, <1>7, <1>10, <1>12, Zenon DEF E

\* Operations are not empty: later ones end later.
LEMMA Offsets2 ==
  ASSUME NEW sz \in Seq(Nat \ {0}), NEW d \in Seq(DOMAIN sz)
  PROVE  \A j, k \in 0..Len(d) : j < k => OffsetsOf(d, sz)[j] < OffsetsOf(d, sz)[k]
<1> DEFINE E == OffsetsOf(d, sz)
           n == Len(d)
<1>1. /\ n \in Nat
      /\ E \in [0..n -> Nat]
      /\ \A k \in 1..n : sz[d[k]] \in Nat \ {0} /\ E[k] = E[k - 1] + sz[d[k]]
  BY Offsets1, Zenon
<1> HIDE DEF E, n
<1>0. n \in Nat
  BY <1>1, Zenon
<1>2. \A k \in 1..n : k - 1 \in 0..n /\ E[k - 1] \in Nat /\ E[k] \in Nat /\ E[k - 1] < E[k]
  <2>. SUFFICES ASSUME NEW k \in 1..n
                PROVE  k - 1 \in 0..n /\ E[k - 1] \in Nat /\ E[k] \in Nat /\ E[k - 1] < E[k]
    BY Zenon
  <2>1. k - 1 \in 0..n /\ k \in 0..n
    BY <1>0
  <2>2. E[k - 1] \in Nat /\ E[k] \in Nat
    BY <1>1, <2>1, Zenon
  <2>3. sz[d[k]] \in Nat \ {0} /\ E[k] = E[k - 1] + sz[d[k]]
    BY <1>1, Zenon
  <2>4. E[k - 1] < E[k]
    BY <2>2, <2>3
  <2>. QED  BY <2>1, <2>2, <2>4, Zenon
<1> DEFINE G == {k \in 0..n : \A j \in 0..n : j < k => E[j] < E[k]}
<1>3. 0 \in G
  BY <1>1
<1>4. ASSUME NEW k \in 0..n - 1, k \in G PROVE k + 1 \in G
  <2>1. k + 1 \in 1..n /\ (k + 1) - 1 = k /\ k \in 0..n /\ k + 1 \in 0..n
    BY <1>1
  <2>2. E[k] < E[k + 1] /\ E[k] \in Nat /\ E[k + 1] \in Nat
    BY <1>2, <2>1
  <2>3. ASSUME NEW j \in 0..n, j < k + 1 PROVE E[j] < E[k + 1]
    <3>1. CASE j = k
      BY <2>2, <3>1
    <3>2. CASE j # k
      <4>1. j < k
        BY <1>1, <2>3, <3>2
      <4>2. E[j] < E[k]
        BY <1>4, <4>1
      <4>3. E[j] \in Nat
        BY <1>1
      <4>. QED  BY <2>2, <4>2, <4>3
    <3>. QED  BY <3>1, <3>2
  <2>. QED  BY <2>1, <2>3
<1>5. 0..n \subseteq G
  <2> HIDE DEF G
  <2>. QED  BY <1>1, <1>3, <1>4, UpTo, Zenon
<1>. QED  BY <1>5, Zenon DEF E, n

\* An operation added at the end does not move the others.
LEMMA OffsetsAppend ==
  ASSUME NEW sz \in Seq(Nat \ {0}), NEW d \in Seq(DOMAIN sz), NEW op \in DOMAIN sz
  PROVE  /\ \A k \in 0..Len(d) : OffsetsOf(Append(d, op), sz)[k] = OffsetsOf(d, sz)[k]
         /\ OffsetsOf(Append(d, op), sz)[Len(d) + 1] = OffsetsOf(d, sz)[Len(d)] + sz[op]
<1> DEFINE E == OffsetsOf(d, sz)
           n == Len(d)
           a == Append(d, op)
           F == OffsetsOf(a, sz)
<1>1. a \in Seq(DOMAIN sz) /\ Len(a) = n + 1 /\ a[n + 1] = op /\ \A k \in 1..n : a[k] = d[k]
  OBVIOUS
<1>2. n \in Nat /\ E[0] = 0 /\ \A k \in 1..n : E[k] = E[k - 1] + sz[d[k]]
  BY Offsets1, Zenon
<1>3. F[0] = 0 /\ \A k \in 1..n + 1 : F[k] = F[k - 1] + sz[a[k]]
  BY <1>1, Offsets1, Zenon
<1> HIDE DEF E, n, a, F
<1>0. n \in Nat
  BY <1>2, Zenon
<1> DEFINE G == {k \in 0..n : F[k] = E[k]}
<1>4. 0 \in G
  BY <1>2, <1>3
<1>5. ASSUME NEW k \in 0..n - 1, k \in G PROVE k + 1 \in G
  <2>1. k + 1 \in 1..n /\ k + 1 \in 1..n + 1 /\ (k + 1) - 1 = k /\ k + 1 \in 0..n
    BY <1>2
  <2>2. F[k + 1] = F[k] + sz[d[k + 1]] /\ E[k + 1] = E[k] + sz[d[k + 1]]
    BY <1>1, <1>2, <1>3, <2>1, Zenon
  <2>. QED  BY <1>5, <2>1, <2>2, Zenon
<1>6. 0..n \subseteq G
  <2> HIDE DEF G
  <2>. QED  BY <1>2, <1>4, <1>5, UpTo, Zenon
<1>7. n + 1 \in 1..n + 1 /\ (n + 1) - 1 = n /\ n \in 0..n
  BY <1>0
<1>8. F[n + 1] = E[n] + sz[op]
  BY <1>1, <1>3, <1>6, <1>7, Zenon
<1>. QED  BY <1>6, <1>8, Zenon DEF E, n, a, F

\* The same of the buffer.
LEMMA EndFacts ==
  ASSUME TypeOK
  PROVE  /\ Len(m_bulkData) \in Nat
         /\ End(0) = 0
         /\ \A k \in 0..Len(m_bulkData) : End(k) \in Nat
         /\ \A j, k \in 0..Len(m_bulkData) : j < k => End(j) < End(k)
         /\ Length \in Nat
<1>1. size \in Seq(Nat \ {0}) /\ m_bulkData \in Seq(DOMAIN size)
  BY Zenon DEF TypeOK, Ops
<1>2. \A k : End(k) = OffsetsOf(m_bulkData, size)[k]
  BY Zenon DEF End, Sizes, OffsetsOf
<1>3. /\ Len(m_bulkData) \in Nat
      /\ OffsetsOf(m_bulkData, size) \in [0..Len(m_bulkData) -> Nat]
      /\ OffsetsOf(m_bulkData, size)[0] = 0
  BY <1>1, Offsets1, Zenon
<1>4. \A k \in 0..Len(m_bulkData) : End(k) \in Nat
  BY <1>2, <1>3, Zenon
<1>5. \A j, k \in 0..Len(m_bulkData) : j < k => End(j) < End(k)
  BY <1>1, <1>2, Offsets2, Zenon
<1>6. Len(m_bulkData) \in 0..Len(m_bulkData)
  BY <1>3
<1>. QED  BY <1>2, <1>3, <1>4, <1>5, <1>6, Zenon DEF Length

\* Only the operations up to an offset end before it.
LEMMA EndOrder ==
  ASSUME TypeOK, NEW j \in 0..Len(m_bulkData), NEW k \in 0..Len(m_bulkData)
  PROVE  /\ End(j) <= End(k) <=> j <= k
         /\ End(j) = End(k) <=> j = k
         /\ End(j) <= Length
<1>1. /\ Len(m_bulkData) \in Nat
      /\ End(j) \in Nat /\ End(k) \in Nat
      /\ (j < k => End(j) < End(k)) /\ (k < j => End(k) < End(j))
  BY EndFacts, Zenon
<1>2. Len(m_bulkData) \in 0..Len(m_bulkData)
  BY <1>1
<1>3. Length \in Nat /\ (j < Len(m_bulkData) => End(j) < Length)
  BY <1>2, EndFacts, Zenon DEF Length
<1>4. j = Len(m_bulkData) => End(j) = Length
  BY Zenon DEF Length
<1>. QED  BY <1>1, <1>3, <1>4

\* Operations are numbers from 1 on.
LEMMA OpsAreNumbers ==
  ASSUME TypeOK
  PROVE  Ops = 1..Len(size) /\ Len(size) \in Nat /\ Ops \subseteq Nat /\ added \in Nat
<1>1. size \in Seq(Nat \ {0}) /\ added \in 0..Len(size)
  BY Zenon DEF TypeOK
<1>. QED  BY <1>1 DEF Ops

\* Entries of the buffer are operations, which are numbers.
LEMMA EntriesAreNumbers ==
  ASSUME TypeOK
  PROVE  \A i \in 1..Len(m_bulkData) : m_bulkData[i] \in Ops /\ m_bulkData[i] \in Nat
<1>1. m_bulkData \in Seq(Ops) /\ Ops \subseteq Nat
  BY OpsAreNumbers, Zenon DEF TypeOK
<1>2. PICK ops : ops = Ops
  BY Zenon
<1>3. \A i \in 1..Len(m_bulkData) : m_bulkData[i] \in ops
  <2>1. m_bulkData \in Seq(ops)
    BY <1>1, <1>2, Zenon
  <2>. QED  BY <2>1
<1>. QED  BY <1>1, <1>2, <1>3, Zenon

\* What the buffer and its boundaries look like between calls.
BufferOK ==
  /\ size \in Seq(Nat \ {0}) /\ added \in 0..Len(size)
  /\ m_bulkData \in Seq(Ops)
  /\ m_boundaries \in Seq(Nat)
  /\ "delete" \notin faults => m_boundaries = [k \in 1..Len(m_bulkData) |-> End(k)]
  /\ \A i, j \in 1..Len(m_bulkData) : i < j => m_bulkData[i] < m_bulkData[j]
  /\ \A i \in 1..Len(m_bulkData) : m_bulkData[i] <= added

IndexerOK ==
  /\ executed \subseteq Ops \cup {Delete}
  /\ order \subseteq executed \X executed

\* Both hold by the invariant.
LEMMA BufferHolds ==
  ASSUME IInv
  PROVE  BufferOK /\ IndexerOK
BY Zenon DEF IInv, TypeOK, Numbered, ChunksAreWhole, BufferOK, IndexerOK

\* Offsets depend on the buffer and the sizes only.
LEMMA SameOffsets ==
  ASSUME UNCHANGED <<size, m_bulkData>>
  PROVE  Length' = Length /\ \A k : End(k)' = End(k)
BY Zenon DEF Length, End, Sizes

\* A step that keeps the buffer keeps it in order, even if it uses up a number.
LEMMA BufferSame ==
  ASSUME BufferOK, UNCHANGED <<fixed, buffer>>, 
         added' = added \/ (added + 1 \in Ops /\ added' = added + 1)
  PROVE  BufferOK'
<1>1. UNCHANGED <<size, faults, m_bulkData, m_boundaries>>
  BY Zenon DEF fixed, buffer
<1>2. \A k : End(k)' = End(k)
  BY <1>1, SameOffsets, Zenon
<1>3. [k \in 1..Len(m_bulkData) |-> End(k)]' = [k \in 1..Len(m_bulkData) |-> End(k)]
  BY <1>1, <1>2, Zenon
<1>4. \A i \in 1..Len(m_bulkData) : m_bulkData[i] <= added'
  <2>1. \A i \in 1..Len(m_bulkData) : m_bulkData[i] \in Nat
    BY DEF BufferOK, Ops
  <2>2. added \in Nat /\ (added' = added \/ added' = added + 1)
    BY DEF BufferOK, Ops
  <2>. QED  BY <2>1, <2>2 DEF BufferOK
<1>5. Ops' = Ops
  BY <1>1, Zenon DEF Ops
<1>6. size' = size /\ added' \in 0..Len(size)
  BY <1>1 DEF BufferOK, Ops
<1>. QED  BY <1>1, <1>3, <1>4, <1>5, <1>6, Zenon DEF BufferOK

\* So does one that clears it.
LEMMA BufferClear ==
  ASSUME BufferOK, UNCHANGED <<fixed, added>>, m_bulkData' = <<>>,
         m_boundaries' = <<>> \/ (m_boundaries' = m_boundaries /\ "delete" \in faults)
  PROVE  BufferOK'
<1>1. UNCHANGED <<size, faults>> /\ Ops' = Ops
  BY Zenon DEF fixed, Ops
<1>2. m_bulkData' \in Seq(Ops) /\ m_boundaries' \in Seq(Nat) /\ Len(m_bulkData') = 0
  <2>1. <<>> \in Seq(Ops) /\ <<>> \in Seq(Nat) /\ Len(<<>>) = 0
    OBVIOUS
  <2>. QED  BY <2>1, Zenon DEF BufferOK
<1>3. 1..Len(m_bulkData') = {}
  BY <1>2
<1>4. [k \in 1..Len(m_bulkData) |-> End(k)]' = <<>>
  BY <1>3
<1>. QED  BY <1>1, <1>2, <1>3, <1>4, Zenon DEF BufferOK

\* bulkIndex adds an operation, and its end offset.
LEMMA BufferPush ==
  ASSUME BufferOK, UNCHANGED fixed, NEW op \in Ops, added' = op, Push(op),
         \A i \in 1..Len(m_bulkData) : m_bulkData[i] < op
  PROVE  BufferOK'
<1>0. PICK n : n = Len(m_bulkData)
  BY Zenon
<1>1. UNCHANGED <<size, faults>> /\ Ops' = Ops
  BY Zenon DEF fixed, Ops
<1>2. m_bulkData \in Seq(Ops) /\ m_boundaries \in Seq(Nat) /\ op \in Ops /\ n \in Nat
  BY <1>0 DEF BufferOK
<1>3. m_bulkData' = Append(m_bulkData, op) /\ m_boundaries' = Append(m_boundaries, Length + size[op])
  BY Zenon DEF Push
<1>4. /\ m_bulkData' \in Seq(Ops) /\ Len(m_bulkData') = n + 1
      /\ m_bulkData'[n + 1] = op /\ \A i \in 1..n : m_bulkData'[i] = m_bulkData[i]
  BY <1>0, <1>2, <1>3
<1>5. size \in Seq(Nat \ {0}) /\ size[op] \in Nat /\ op \in DOMAIN size /\ m_bulkData \in Seq(DOMAIN size)
  BY <1>2 DEF BufferOK, Ops
<1>6. \A k : End(k) = OffsetsOf(m_bulkData, size)[k] /\ End(k)' = OffsetsOf(m_bulkData', size)[k]
  BY <1>1, Zenon DEF End, Sizes, OffsetsOf
<1>7. n \in 0..n /\ OffsetsOf(m_bulkData, size) \in [0..n -> Nat]
  BY <1>0, <1>2, <1>5, Offsets1
<1>8. Length \in Nat /\ Length = End(n)
  BY <1>0, <1>6, <1>7, Zenon DEF Length
<1>9. m_boundaries' \in Seq(Nat)
  BY <1>2, <1>3, <1>5, <1>8
<1>10. (\A k \in 0..n : End(k)' = End(k)) /\ End(n + 1)' = Length + size[op]
  <2>1. OffsetsOf(m_bulkData', size) = OffsetsOf(Append(m_bulkData, op), size)
    BY <1>3, Zenon
  <2>2. /\ \A k \in 0..n : OffsetsOf(Append(m_bulkData, op), size)[k] = OffsetsOf(m_bulkData, size)[k]
        /\ OffsetsOf(Append(m_bulkData, op), size)[n + 1] = OffsetsOf(m_bulkData, size)[n] + size[op]
    BY <1>0, <1>5, OffsetsAppend, Zenon
  <2>3. \A k \in 0..n : End(k)' = End(k)
    BY <1>6, <2>1, <2>2, Zenon
  <2>4. End(n + 1)' = OffsetsOf(m_bulkData', size)[n + 1]
    BY <1>6, Zenon
  <2>5. Length = OffsetsOf(m_bulkData, size)[n]
    BY <1>6, <1>8, Zenon
  <2>. QED  BY <2>1, <2>2, <2>3, <2>4, <2>5, Zenon
<1>11. ASSUME m_boundaries = [k \in 1..n |-> End(k)]
       PROVE  m_boundaries' = [k \in 1..n + 1 |-> End(k)']
  <2>1. Len(m_boundaries) = n
    BY <1>2, <1>11
  <2>2. \A k \in 1..n : k \in 0..n
    BY <1>2
  <2>3. m_boundaries' = [k \in 1..n + 1 |-> IF k = n + 1 THEN Length + size[op] ELSE m_boundaries[k]]
    BY <1>0, <1>2, <1>3, <1>5, <1>8, <2>1
  <2>4. \A k \in 1..n + 1 :
           (IF k = n + 1 THEN Length + size[op] ELSE m_boundaries[k]) = End(k)'
    <3>1. \A k \in 1..n + 1 : k # n + 1 => k \in 1..n
      BY <1>2
    <3>2. \A k \in 1..n : m_boundaries[k] = End(k)'
      BY <1>10, <1>11, <2>2, Zenon
    <3>. QED  BY <1>10, <3>1, <3>2, Zenon
  <2>. QED  BY <2>3, <2>4, Zenon
<1>12. \A i \in 1..n : m_bulkData[i] \in Nat /\ m_bulkData[i] < op /\ op \in Nat
  BY <1>0, <1>2 DEF BufferOK, Ops
<1>13. ASSUME NEW i \in 1..n + 1, NEW j \in 1..n + 1, i < j PROVE m_bulkData'[i] < m_bulkData'[j]
  <2>1. i \in 1..n /\ (j = n + 1 \/ j \in 1..n)
    BY <1>2, <1>13
  <2>2. CASE j = n + 1
    BY <1>4, <1>12, <2>1, <2>2, Zenon
  <2>3. CASE j \in 1..n
    BY <1>0, <1>4, <1>13, <2>1, <2>3, Zenon DEF BufferOK
  <2>. QED  BY <2>1, <2>2, <2>3, Zenon
<1>14. ASSUME NEW i \in 1..n + 1 PROVE m_bulkData'[i] <= op
  <2>1. i = n + 1 \/ i \in 1..n
    BY <1>2
  <2>2. op \in Nat
    BY <1>2 DEF BufferOK, Ops
  <2>. QED  BY <1>4, <1>12, <2>1, <2>2
<1>15. op \in 0..Len(size)
  BY <1>2 DEF BufferOK, Ops
<1>. QED  BY <1>0, <1>1, <1>4, <1>5, <1>9, <1>11, <1>13, <1>14, <1>15, Zenon DEF BufferOK

\* What the indexer executes it has executed.
LEMMA IndexerStep ==
  ASSUME IndexerOK, UNCHANGED fixed, NEW ops, NEW some \in SUBSET (Ops \cup {Delete}),
         Executed(ops, some)
  PROVE  IndexerOK'
<1>1. Ops' = Ops /\ Delete' = Delete
  BY Zenon DEF fixed, Ops, Delete
<1>2. executed' = executed \cup some /\ order' \subseteq executed' \X executed'
  BY Zenon DEF Executed
<1>. QED  BY <1>1, <1>2, Zenon DEF IndexerOK

\* A step the indexer has no part in.
LEMMA IndexerSame ==
  ASSUME IndexerOK, UNCHANGED <<fixed, indexer>>
  PROVE  IndexerOK'
BY Zenon DEF fixed, indexer, IndexerOK, Ops, Delete

\* A run of operations is sent when all before it are done: then those up to
\* its end are done, also when some of it and of what follows was sent before.
LEMMA RunIsDone ==
  ASSUME IInv, m_bulkData = batch, batch' = batch,
         NEW a \in 0..Len(batch), NEW b \in 0..Len(batch), a <= b,
         Done(a), Execute(SubSeq(batch, a + 1, b))
  PROVE  Done(b)'
<1>1. PICK ops : ops = SubSeq(batch, a + 1, b)
  BY Zenon
<1>2. PICK some : some = Range(ops)
  BY Zenon
<1>3. Executed(ops, some)
  BY <1>1, <1>2, Zenon DEF Execute
<1>4. Len(batch) \in Nat /\ batch \in Seq(Ops)
  BY DEF IInv, TypeOK
<1>5. /\ ops \in Seq(Ops) /\ Len(ops) = b - a /\ b - a \in Nat
      /\ \A k \in 1..b - a : ops[k] = batch[a + k]
  BY <1>1, <1>4
<1>6. \A i, j \in 1..Len(batch) : i < j => batch[i] # batch[j]
  <2>1. \A i \in 1..Len(batch) : batch[i] \in Nat
    BY <1>4, OpsAreNumbers DEF IInv
  <2>2. \A i, j \in 1..Len(batch) : i < j => batch[i] < batch[j]
    BY Zenon DEF IInv, Numbered
  <2>. QED  BY <2>1, <2>2
<1>7. \A i \in 1..Len(batch) : batch[i] \in some <=> (a < i /\ i <= b)
  <2>. SUFFICES ASSUME NEW i \in 1..Len(batch)
                PROVE  batch[i] \in some <=> (a < i /\ i <= b)
    BY Zenon
  <2>1. ASSUME a < i, i <= b PROVE batch[i] \in some
    <3>1. i - a \in 1..b - a /\ a + (i - a) = i
      BY <1>4, <2>1
    <3>2. ops[i - a] = batch[i]
      BY <1>5, <3>1, Zenon
    <3>3. i - a \in DOMAIN ops
      BY <1>5, <3>1
    <3>. QED  BY <1>2, <3>2, <3>3, Zenon DEF Range
  <2>2. ASSUME batch[i] \in some PROVE a < i /\ i <= b
    <3>1. PICK k \in DOMAIN ops : ops[k] = batch[i]
      BY <1>2, <2>2, Zenon DEF Range
    <3>2. k \in 1..b - a
      BY <1>5
    <3>3. batch[a + k] = batch[i] /\ a + k \in 1..Len(batch) /\ a < a + k /\ a + k <= b
      BY <1>4, <1>5, <3>1, <3>2
    <3>4. a + k = i
      BY <1>4, <1>6, <3>3
    <3>. QED  BY <3>3, <3>4, Zenon
  <2>. QED  BY <2>1, <2>2, Zenon
<1>8. /\ executed' = executed \cup some
      /\ order' = {p \in (executed \cup some) \X (executed \cup some) :
                     IF p[2] \in some
                     THEN p[1] \in some => Precedes(ops, p[1], p[2])
                     ELSE p \in order /\ p[1] \notin some}
  BY <1>3, Zenon DEF Executed
<1>9. \A j \in 1..b : j \in 1..Len(batch) /\ (j \in 1..a \/ a < j) /\ j <= b
  BY <1>4
<1>10. \A j \in 1..b : batch[j] \in executed \cup some
  BY <1>7, <1>9, Zenon DEF Done
<1>11. ASSUME NEW i \in 1..b, NEW j \in 1..b, i < j
       PROVE  <<batch[i], batch[j]>> \in order'
  <2>. DEFINE p == <<batch[i], batch[j]>>
  <2>0. p \in (executed \cup some) \X (executed \cup some) /\ p[1] = batch[i] /\ p[2] = batch[j]
    BY <1>10, Zenon
  <2>1. CASE j \in 1..a
    <3>1. i \in 1..a /\ ~ (a < j) /\ ~ (a < i)
      BY <1>4, <1>11, <2>1
    <3>2. p \in order
      BY <1>11, <2>1, <3>1, Zenon DEF Done
    <3>3. batch[i] \notin some /\ batch[j] \notin some
      BY <1>7, <1>9, <3>1, Zenon
    <3>. QED  BY <1>8, <2>0, <3>2, <3>3, Zenon
  <2>2. CASE a < j
    <3>1. batch[j] \in some
      BY <1>7, <1>9, <2>2, Zenon
    <3>2. ASSUME batch[i] \in some PROVE Precedes(ops, batch[i], batch[j])
      <4>1. a < i
        BY <1>7, <1>9, <3>2, Zenon
      <4>2. /\ i - a \in 1..b - a /\ j - a \in 1..b - a /\ i - a < j - a
            /\ a + (i - a) = i /\ a + (j - a) = j
        BY <1>4, <1>11, <4>1
      <4>3. ops[i - a] = batch[i] /\ ops[j - a] = batch[j]
        BY <1>5, <4>2, Zenon
      <4>. QED  BY <1>5, <4>2, <4>3, Zenon DEF Precedes
    <3>. QED  BY <1>8, <2>0, <3>1, <3>2, Zenon
  <2>. QED  BY <1>9, <2>1, <2>2, Zenon
<1>. QED  BY <1>8, <1>10, <1>11, Zenon DEF Done

-----------------------------------------------------------------------------
\* A call begins.
LEMMA BeginInv ==
  ASSUME IInv, pc = "idle", NEW who \in {"index", "flush", "thread"}, NEW notify \in BOOLEAN,
         Begin(who, notify),
         UNCHANGED <<fixed, buffer, m_deleteByQuery, m_stopping, indexer>>,
         m_shouldNotifyAfterBulk' = notify,
         IF who = "index" THEN added + 1 \in Ops /\ added' = added + 1 ELSE added' = added
  PROVE  IInv'
<1>1. /\ UNCHANGED <<size, maxContent, faults, m_bulkData, m_boundaries, executed, order>>
      /\ UNCHANGED <<m_deleteByQuery, m_stopping, needToRetry, chunks>>
      /\ Ops' = Ops /\ Delete' = Delete /\ Chunks' = Chunks
  BY Zenon DEF fixed, buffer, indexer, Begin, Ops, Delete, Chunks
<1>2. /\ pc' = "deletes" /\ caller' = who /\ deletes' = m_deleteByQuery /\ batch' = m_bulkData
      /\ before' = [executed |-> executed, notify |-> notify]
  BY Zenon DEF Begin
<1>3. BufferOK' /\ IndexerOK'
  BY <1>1, BufferHolds, BufferSame, IndexerSame, Zenon DEF fixed, buffer, indexer
<1>4. before' \in [executed : SUBSET (Ops \cup {Delete}), notify : BOOLEAN]
  BY <1>2, Zenon DEF IInv, TypeOK
<1>5. TypeOK'
  BY <1>1, <1>2, <1>3, <1>4, Zenon DEF IInv, TypeOK, BufferOK, IndexerOK, Callers
<1>6. Numbered'
  <2>1. ASSUME who = "index"
        PROVE  1 <= added' /\ \A i \in 1..Len(m_bulkData) : m_bulkData[i] < added'
    <3>1. added \in Nat /\ Ops \subseteq Nat
      BY OpsAreNumbers, Zenon DEF IInv
    <3>2. \A i \in 1..Len(m_bulkData) : m_bulkData[i] \in Nat /\ m_bulkData[i] <= added
      BY BufferHolds, EntriesAreNumbers, Zenon DEF IInv, BufferOK
    <3>. QED  BY <2>1, <3>1, <3>2
  <2>. QED  BY <1>1, <1>2, <1>3, <2>1, Zenon DEF BufferOK, Numbered
<1>7. chunks' = <<>>
  BY <1>1, Zenon DEF IInv, Local
<1>8. Local'
  BY <1>1, <1>2, <1>7, Zenon DEF Local
<1>9. ChunksAreWhole'
  BY <1>3, <1>7 DEF BufferOK, ChunksAreWhole
<1>10. Cover' /\ ReturnIsComplete'
  BY <1>2, Zenon DEF Cover, ReturnIsComplete
<1>11. SoFar'
  BY <1>1, <1>2, Zenon DEF SoFar
<1>. QED  BY <1>5, <1>6, <1>8, <1>9, <1>10, <1>11, Zenon DEF IInv

\* A call ends, by an exception or by returning to its caller.
LEMMA LeaveInv ==
  ASSUME IInv, Leave, UNCHANGED <<fixed, m_stopping>>, BufferOK', IndexerOK',
         m_deleteByQuery' \subseteq {Delete}, m_shouldNotifyAfterBulk' \in BOOLEAN
  PROVE  IInv'
<1>1. /\ UNCHANGED <<size, maxContent, faults, m_stopping>>
      /\ Ops' = Ops /\ Delete' = Delete /\ Chunks' = Chunks
  BY Zenon DEF fixed, Ops, Delete, Chunks
<1>2. /\ pc' = IF m_stopping THEN "stopped" ELSE "idle"
      /\ caller' = "none" /\ deletes' = {} /\ needToRetry' = FALSE /\ chunks' = <<>>
      /\ batch' = <<>> /\ before' = NoEntry
  BY Zenon DEF Leave
<1>3. <<>> \in Seq(Ops) /\ <<>> \in Seq(Chunks) /\ Len(<<>>) = 0 /\ 1..0 = {}
  OBVIOUS
<1>4. before' \in [executed : SUBSET (Ops \cup {Delete}), notify : BOOLEAN]
  BY <1>2, Zenon DEF NoEntry
<1>5. TypeOK'
  BY <1>1, <1>2, <1>3, <1>4, Zenon DEF IInv, TypeOK, BufferOK, IndexerOK, Callers
<1>6. Numbered'
  BY <1>2, Zenon DEF BufferOK, Numbered
<1>7. Local'
  BY <1>2, Zenon DEF Local
<1>8. ChunksAreWhole'
  BY <1>2, <1>3, Zenon DEF BufferOK, ChunksAreWhole
<1>9. Cover' /\ ReturnIsComplete' /\ SoFar'
  BY <1>2, Zenon DEF Cover, ReturnIsComplete, SoFar, InCall
<1>. QED  BY <1>5, <1>6, <1>7, <1>8, <1>9, Zenon DEF IInv

\* What holds of each chunk ahead.
ChunkOK(c) ==
  /\ c \in Chunks
  /\ 1 <= c.lo /\ c.lo <= c.hi /\ c.hi <= Len(m_boundaries)
  /\ "delete" \notin faults => Inside(c) /\ Whole(c)

\* The chunks that are left are in order, by the invariant.
LEMMA ChunksHold ==
  ASSUME IInv
  PROVE  chunks \in Seq(Chunks) /\ \A i \in 1..Len(chunks) : ChunkOK(chunks[i])
<1>1. chunks \in Seq(Chunks)
  BY Zenon DEF IInv, TypeOK
<1>2. \A i \in 1..Len(chunks) : chunks[i] \in Chunks
  BY <1>1
<1>. QED  BY <1>1, <1>2, Zenon DEF IInv, TypeOK, ChunksAreWhole, ChunkOK

\* A call goes on, with the buffer as it was.
GoesOn ==
  /\ InCall /\ pc' \in {"deletes", "bulk", "chunk"}
  /\ UNCHANGED <<fixed, added, buffer, m_stopping, m_deleteByQuery, m_shouldNotifyAfterBulk, entry>>
  /\ pc' = pc \/ m_bulkData # <<>>
  /\ deletes' \subseteq deletes /\ needToRetry' \in BOOLEAN
  /\ executed \subseteq executed'
  /\ executed' \subseteq executed \cup m_deleteByQuery \cup Range(batch)
  /\ "skipped" \notin faults => deletes \ deletes' \subseteq executed'

\* What is left to show of such a step.
LEMMA GoesOnInv ==
  ASSUME IInv, GoesOn, IndexerOK', Local', Cover',
         chunks' \in Seq(Chunks), \A i \in 1..Len(chunks') : ChunkOK(chunks'[i])
  PROVE  IInv'
<1>1. /\ UNCHANGED <<size, maxContent, faults, m_bulkData, m_boundaries, added, m_stopping>>
      /\ UNCHANGED <<m_deleteByQuery, m_shouldNotifyAfterBulk, caller, batch, before>>
      /\ Ops' = Ops /\ Delete' = Delete /\ Chunks' = Chunks
  BY Zenon DEF GoesOn, fixed, buffer, entry, Ops, Delete, Chunks
<1>2. BufferOK'
  BY <1>1, BufferHolds, BufferSame, Zenon DEF GoesOn
<1>3. \A c : ChunkOK(c)' <=> ChunkOK(c)
  BY <1>1, SameOffsets, Zenon DEF ChunkOK, Inside, Whole, Offsets
<1>4. \A i \in 1..Len(chunks') : ChunkOK(chunks[i])'
  BY <1>3, Zenon
<1>5. TypeOK'
  <2>1. \A i \in 1..Len(chunks') : /\ 1 <= chunks'[i].lo /\ chunks'[i].lo <= chunks'[i].hi
                                   /\ chunks'[i].hi <= Len(m_boundaries')
    BY <1>4, Zenon DEF ChunkOK
  <2>2. pc' \in {"deletes", "bulk", "chunk"} /\ deletes' \subseteq deletes /\ needToRetry' \in BOOLEAN
    BY Zenon DEF GoesOn
  <2>. QED  BY <1>1, <1>2, <2>1, <2>2, Zenon DEF IInv, TypeOK, BufferOK, IndexerOK
<1>6. Numbered'
  BY <1>1, Zenon DEF IInv, Numbered
<1>7. ChunksAreWhole'
  BY <1>2, <1>4, Zenon DEF BufferOK, ChunkOK, ChunksAreWhole
<1>8. ReturnIsComplete'
  BY Zenon DEF GoesOn, ReturnIsComplete
<1>9. SoFar'
  <2>1. /\ before.executed \subseteq executed
        /\ executed \subseteq before.executed \cup m_deleteByQuery \cup Range(batch)
        /\ "skipped" \notin faults => m_deleteByQuery \ deletes \subseteq executed
    BY Zenon DEF IInv, SoFar, GoesOn
  <2>2. IF pc = "bulk" /\ m_bulkData = <<>>
        THEN m_shouldNotifyAfterBulk /\ Range(batch) \subseteq executed
        ELSE m_shouldNotifyAfterBulk = before.notify
    BY Zenon DEF IInv, SoFar, GoesOn
  <2>3. executed \subseteq executed' /\ executed' \subseteq executed \cup m_deleteByQuery \cup Range(batch)
    BY Zenon DEF GoesOn
  <2>4. /\ before.executed \subseteq executed'
        /\ executed' \subseteq before.executed \cup m_deleteByQuery \cup Range(batch)
    BY <2>1, <2>3, Zenon
  <2>5. "skipped" \notin faults => m_deleteByQuery \ deletes' \subseteq executed'
    <3>1. "skipped" \notin faults => deletes \ deletes' \subseteq executed'
      BY Zenon DEF GoesOn
    <3>. QED  BY <2>1, <2>3, <3>1, Zenon
  <2>6. pc' = pc \/ m_bulkData # <<>>
    BY Zenon DEF GoesOn
  <2>7. IF pc' = "bulk" /\ m_bulkData = <<>>
        THEN m_shouldNotifyAfterBulk /\ Range(batch) \subseteq executed'
        ELSE m_shouldNotifyAfterBulk = before.notify
    BY <2>2, <2>3, <2>6, Zenon
  <2>. QED  BY <1>1, <2>4, <2>5, <2>7, Zenon DEF SoFar
<1>. QED  BY <1>5, <1>6, <1>7, <1>8, <1>9, Zenon DEF IInv

\* A call comes to its end without an error.
LEMMA FinishInv ==
  ASSUME IInv, InCall, Finish, UNCHANGED <<fixed, added, m_stopping>>, IndexerOK',
         needToRetry' \in BOOLEAN, deletes = {}, chunks = <<>>, Done(Len(batch))'
  PROVE  IInv'
<1>1. /\ UNCHANGED <<size, maxContent, faults, added, m_stopping, caller, batch, before>>
      /\ Ops' = Ops /\ Delete' = Delete /\ Chunks' = Chunks
      /\ pc' = "returned" /\ m_deleteByQuery' = {} /\ m_shouldNotifyAfterBulk' = TRUE
      /\ deletes' = {} /\ chunks' = <<>>
      /\ m_bulkData' = <<>> /\ m_boundaries' = <<>>
  BY Zenon DEF Finish, Clear, fixed, entry, Ops, Delete, Chunks
<1>2. BufferOK'
  BY <1>1, BufferHolds, BufferClear, Zenon
<1>3. Len(<<>>) = 0 /\ 1..0 = {}
  OBVIOUS
<1>4. TypeOK'
  <2>1. \A i \in 1..Len(chunks') : /\ 1 <= chunks'[i].lo /\ chunks'[i].lo <= chunks'[i].hi
                                   /\ chunks'[i].hi <= Len(m_boundaries')
    BY <1>1, <1>3, Zenon
  <2>. QED  BY <1>1, <1>2, <2>1, Zenon DEF IInv, TypeOK, BufferOK, IndexerOK
<1>5. Numbered'
  BY <1>1, <1>3, Zenon DEF IInv, Numbered
<1>6. Local'
  BY <1>1, Zenon DEF Local
<1>7. ChunksAreWhole'
  BY <1>1, <1>2, <1>3, Zenon DEF BufferOK, ChunksAreWhole
<1>8. Range(batch') \subseteq executed'
  <2>1. batch \in Seq(Ops)
    BY Zenon DEF IInv, TypeOK
  <2>2. DOMAIN batch = 1..Len(batch)
    BY <2>1
  <2>. QED  BY <1>1, <2>2, Zenon DEF Range, Done
<1>9. ReturnIsComplete'
  BY <1>8, Zenon DEF ReturnIsComplete, Done
<1>10. Cover' /\ SoFar'
  BY <1>1, Zenon DEF Cover, SoFar, InCall
<1>. QED  BY <1>4, <1>5, <1>6, <1>7, <1>9, <1>10, Zenon DEF IInv

\* The operations are numbers, and what is in a buffer is an operation.
LEMMA BatchSet ==
  ASSUME IInv
  PROVE  Range(batch) \subseteq Ops /\ Range(m_bulkData) \subseteq Ops
<1>1. batch \in Seq(Ops) /\ m_bulkData \in Seq(Ops)
  BY Zenon DEF IInv, TypeOK
<1>2. (\A i \in DOMAIN batch : batch[i] \in Ops) /\ (\A i \in DOMAIN m_bulkData : m_bulkData[i] \in Ops)
  BY <1>1
<1>. QED  BY <1>2, Zenon DEF Range

\* The bytes of a whole chunk are a run of operations.
LEMMA PostedRun ==
  ASSUME TypeOK, NEW c \in Chunks, Whole(c)
  PROVE  \E a, b \in 0..Len(m_bulkData) :
            /\ a < b /\ End(a) = c.from /\ End(b) = c.to
            /\ Posted(c) = SubSeq(m_bulkData, a + 1, b)
<1>1. c.from < c.to /\ c.from \in Offsets /\ c.to \in Offsets
  BY Zenon DEF Whole
<1>2. PICK a \in 0..Len(m_bulkData) : End(a) = c.from
  BY <1>1, Zenon DEF Offsets
<1>3. PICK b \in 0..Len(m_bulkData) : End(b) = c.to
  BY <1>1, Zenon DEF Offsets
<1> DEFINE At(offset) == CHOOSE k \in 0..Len(m_bulkData) : End(k) = offset
<1>4. At(c.from) = a /\ At(c.to) = b
  <2>1. At(c.from) \in 0..Len(m_bulkData) /\ End(At(c.from)) = c.from
    BY <1>2, Zenon
  <2>2. At(c.to) \in 0..Len(m_bulkData) /\ End(At(c.to)) = c.to
    BY <1>3, Zenon
  <2> HIDE DEF At
  <2>. QED  BY <1>2, <1>3, <2>1, <2>2, EndOrder, Zenon
<1>5. Posted(c) = SubSeq(m_bulkData, a + 1, b)
  BY <1>4, Zenon DEF Posted
<1>6. a < b
  <2>1. End(b) <= End(a) <=> b <= a
    BY EndOrder, Zenon
  <2>2. End(a) \in Nat /\ End(b) \in Nat /\ Len(m_bulkData) \in Nat
    BY EndFacts, Zenon
  <2>. QED  BY <1>1, <1>2, <1>3, <2>1, <2>2
<1>. QED  BY <1>2, <1>3, <1>5, <1>6, Zenon

\* A chunk is sent.
LEMMA ChunkSentInv ==
  ASSUME IInv, ChunkSent
  PROVE  IInv'
<1>1. PICK c : c = Head(chunks)
  BY Zenon
<1>2. /\ pc = "chunk" /\ chunks # <<>>
      /\ Inside(c) /\ Whole(c) /\ Execute(Posted(c)) /\ chunks' = Tail(chunks)
      /\ UNCHANGED <<fixed, added, buffer, m_stopping, deletes, needToRetry>>
      /\ UNCHANGED <<m_deleteByQuery, m_shouldNotifyAfterBulk, pc, entry>>
  BY <1>1, Zenon DEF ChunkSent, InChunk, Continue
<1>3. chunks \in Seq(Chunks) /\ \A i \in 1..Len(chunks) : ChunkOK(chunks[i])
  BY ChunksHold, Zenon
<1>4. PICK n : n = Len(chunks)
  BY Zenon
<1>5. /\ n \in Nat /\ n >= 1 /\ c = chunks[1]
      /\ chunks' \in Seq(Chunks) /\ Len(chunks') = n - 1
      /\ \A i \in 1..n - 1 : chunks'[i] = chunks[i + 1]
  BY <1>1, <1>2, <1>3, <1>4
<1>6. m_bulkData = batch /\ batch' = batch /\ deletes' = deletes /\ m_bulkData' = m_bulkData /\ pc' = "chunk"
  BY <1>2, Zenon DEF IInv, Local, entry, buffer
<1>7. c \in Chunks /\ c.from \in Nat /\ c.to \in Nat
  <2>1. 1 \in 1..n
    BY <1>5
  <2>2. c \in Chunks
    BY <1>3, <1>4, <1>5, <2>1, Zenon DEF ChunkOK
  <2>. QED  BY <2>2, Zenon DEF Chunks
<1>8. PICK a \in 0..Len(batch), b \in 0..Len(batch) :
         /\ a < b /\ End(a) = c.from /\ End(b) = c.to
         /\ Posted(c) = SubSeq(batch, a + 1, b)
  BY <1>2, <1>6, <1>7, PostedRun, Zenon DEF IInv
<1>9. Len(batch) \in Nat /\ \A k \in 0..Len(batch) : End(k) \in Nat
  BY <1>6, EndFacts, Zenon DEF IInv
<1>10. c.from <= c.from
  BY <1>7
<1>11. Done(a)
  BY <1>2, <1>5, <1>8, <1>10, Zenon DEF IInv, Cover
<1>12. a <= b
  BY <1>8, <1>9
<1>13. Execute(SubSeq(batch, a + 1, b))
  BY <1>2, <1>8, Zenon
<1>14. Done(b)'
  BY <1>6, <1>11, <1>12, <1>13, RunIsDone, Zenon
<1>15. \A k \in 0..Len(batch) : End(k) <= c.to => Done(k)'
  <2>1. ASSUME NEW k \in 0..Len(batch), End(k) <= c.to PROVE 1..k \subseteq 1..b
    <3>1. k <= b
      <4>1. End(k) <= End(b)
        BY <1>8, <2>1, Zenon
      <4>2. TypeOK /\ k \in 0..Len(m_bulkData) /\ b \in 0..Len(m_bulkData)
        BY <1>6, Zenon DEF IInv
      <4>3. End(k) <= End(b) <=> k <= b
        BY <4>2, EndOrder, Zenon
      <4>. QED  BY <4>1, <4>3, Zenon
    <3>. QED  BY <1>9, <3>1
  <2>. QED  BY <1>14, <2>1, Zenon DEF Done
<1>16. Length' = Length /\ (\A k : End(k)' = End(k)) /\ \A d : Inside(d)' <=> Inside(d)
  <2>1. Length' = Length /\ (\A k : End(k)' = End(k))
    BY <1>2, SameOffsets, Zenon DEF fixed, buffer
  <2>. QED  BY <2>1, Zenon DEF Inside
<1>17. Cover'
  <2>1. ASSUME chunks' = <<>> PROVE Done(Len(batch))'
    <3>1. n = 1
      BY <1>5, <2>1
    <3>2. c.to = End(Len(batch)) /\ Len(batch) \in 0..Len(batch)
      BY <1>2, <1>4, <1>5, <1>6, <1>9, <3>1 DEF IInv, Cover, Length
    <3>3. End(Len(batch)) <= c.to
      BY <1>7, <3>2
    <3>. QED  BY <1>6, <1>15, <3>2, <3>3, Zenon
  <2>2. ASSUME chunks' # <<>>
        PROVE  /\ Inside(chunks'[1]) => \A k \in 0..Len(batch) : End(k) <= chunks'[1].from => Done(k)'
               /\ chunks'[Len(chunks')].to = Length
               /\ \A i \in 1..Len(chunks') - 1 :
                     Inside(chunks'[i + 1]) => chunks'[i + 1].from <= chunks'[i].to
    <3>1. n >= 2 /\ 1 \in 1..n - 1 /\ 1 + 1 = 2 /\ n - 1 \in 1..n - 1 /\ (n - 1) + 1 = n /\ 2 \in 1..n
      BY <1>5, <2>2
    <3>2. chunks'[1] = chunks[2] /\ chunks'[n - 1] = chunks[n]
      BY <1>5, <3>1
    <3>3. chunks[n].to = Length
      BY <1>2, <1>4, Zenon DEF IInv, Cover
    <3>4. \A i \in 1..n - 1 : Inside(chunks[i + 1]) => chunks[i + 1].from <= chunks[i].to
      BY <1>2, <1>4, Zenon DEF IInv, Cover
    <3>5. ASSUME Inside(chunks[2]), NEW k \in 0..Len(batch), End(k) <= chunks[2].from PROVE Done(k)'
      <4>1. chunks[2].from <= c.to
        BY <1>5, <3>1, <3>4, <3>5, Zenon
      <4>2. chunks[2].from \in Nat
        BY <1>3, <1>4, <3>1, Zenon DEF ChunkOK, Chunks
      <4>3. End(k) \in Nat
        BY <1>9, Zenon
      <4>4. End(k) <= c.to
        BY <1>7, <3>5, <4>1, <4>2, <4>3
      <4>. QED  BY <1>15, <4>4, Zenon
    <3>6. ASSUME NEW i \in 1..n - 2, Inside(chunks'[i + 1]) PROVE chunks'[i + 1].from <= chunks'[i].to
      <4>1. i \in 1..n - 1 /\ i + 1 \in 1..n - 1
        BY <1>5
      <4>2. chunks'[i] = chunks[i + 1] /\ chunks'[i + 1] = chunks[(i + 1) + 1]
        BY <1>5, <4>1, Zenon
      <4>. QED  BY <3>4, <3>6, <4>1, <4>2, Zenon
    <3>7. Len(chunks') - 1 = n - 2
      BY <1>5
    <3>. QED  BY <1>5, <3>2, <3>3, <3>5, <3>6, <3>7, Zenon
  <2>. QED  BY <1>6, <1>16, <2>1, <2>2, Zenon DEF Cover

<1>18. \A i \in 1..Len(chunks') : ChunkOK(chunks'[i])
  <2>1. \A i \in 1..n - 1 : i + 1 \in 1..n
    BY <1>5
  <2>. QED  BY <1>3, <1>4, <1>5, <2>1, Zenon
<1>19. Range(Posted(c)) \subseteq Range(batch)
  <2>1. batch \in Seq(Ops)
    BY Zenon DEF IInv, TypeOK
  <2>2. PICK ops : ops = Posted(c)
    BY Zenon
  <2>3. DOMAIN ops = 1..b - a /\ \A i \in 1..b - a : ops[i] = batch[a + i]
    BY <1>8, <1>9, <2>1, <2>2
  <2>4. \A i \in 1..b - a : a + i \in DOMAIN batch
    BY <1>8, <1>9, <2>1
  <2>5. \A i \in DOMAIN ops : ops[i] \in {batch[j] : j \in DOMAIN batch}
    BY <2>3, <2>4, Zenon
  <2>. QED  BY <2>2, <2>5, Zenon DEF Range
<1>20. executed' = executed \cup Range(Posted(c))
  BY <1>2, Zenon DEF Execute, Executed
<1>21. IndexerOK'
  <2>1. Range(Posted(c)) \in SUBSET (Ops \cup {Delete})
    BY <1>19, BatchSet, Zenon
  <2>. QED  BY <1>2, <2>1, BufferHolds, IndexerStep, Zenon DEF Execute
<1>22. Local'
  BY <1>2, <1>6, Zenon DEF IInv, Local
<1>23. GoesOn
  <2>1. needToRetry' \in BOOLEAN
    BY <1>2, Zenon DEF IInv, TypeOK
  <2>. QED  BY <1>2, <1>6, <1>19, <1>20, <2>1, Zenon DEF GoesOn, InCall
<1>. QED  BY <1>5, <1>17, <1>18, <1>21, <1>22, <1>23, GoesOnInv, Zenon

\* The halves of boundaries lo..hi: the first from the start of the buffer, the
\* second to its end, and nothing between them.
LEMMA HalvesAre ==
  ASSUME IInv, NEW lo \in Nat, NEW hi \in Nat, 1 <= lo, lo < hi, hi <= Len(m_boundaries)
  PROVE  \E f, s \in Chunks :
            /\ Halves(lo, hi) = <<f, s>>
            /\ ChunkOK(f) /\ ChunkOK(s)
            /\ f.from = 0 /\ f.to = s.from /\ s.to = Length
<1> DEFINE h == (hi - lo + 1) \div 2
           m == lo + h - 1
           f == Chunk(0, m_boundaries[m], lo, m)
           s == Chunk(m_boundaries[m], Length, m + 1, hi)
<1>1. h \in Nat /\ 1 <= h /\ h <= hi - lo
  OBVIOUS
<1> HIDE DEF h
<1>2. m \in Nat /\ lo <= m /\ m < hi
  BY <1>1
<1>3. Halves(lo, hi) = <<f, s>>
  BY Zenon DEF Halves, h
<1> HIDE DEF m
<1>4. m_boundaries \in Seq(Nat) /\ Len(m_boundaries) \in Nat
  <2>1. m_boundaries \in Seq(Nat)
    BY Zenon DEF IInv, TypeOK
  <2>. QED  BY <2>1
<1>5. m \in 1..Len(m_boundaries) /\ m + 1 \in Nat /\ m + 1 <= hi /\ 1 <= m + 1 /\ 1 <= m /\ m <= Len(m_boundaries)
  BY <1>2, <1>4
<1>6. m_boundaries[m] \in Nat /\ Length \in Nat
  <2>1. m_boundaries[m] \in Nat
    BY <1>4, <1>5
  <2>. QED  BY <2>1, EndFacts, Zenon DEF IInv
<1>7. /\ f = [from |-> 0, to |-> m_boundaries[m], lo |-> lo, hi |-> m, retry |-> FALSE]
      /\ s = [from |-> m_boundaries[m], to |-> Length, lo |-> m + 1, hi |-> hi, retry |-> FALSE]
  BY Zenon DEF Chunk
<1> HIDE DEF f, s
<1>8. f \in Chunks /\ s \in Chunks
  <2>1. 0 \in Nat
    OBVIOUS
  <2>. QED  BY <1>2, <1>5, <1>6, <1>7, <2>1, Zenon DEF Chunks
<1>9. /\ f.from = 0 /\ f.to = m_boundaries[m] /\ f.lo = lo /\ f.hi = m
      /\ s.from = m_boundaries[m] /\ s.to = Length /\ s.lo = m + 1 /\ s.hi = hi
  BY <1>7, Zenon
<1>10. ASSUME "delete" \notin faults PROVE Inside(f) /\ Whole(f) /\ Inside(s) /\ Whole(s)
  <2>1. PICK n : n = Len(m_bulkData)
    OBVIOUS
  <2>2. m_boundaries = [k \in 1..n |-> End(k)]
    BY <1>10, <2>1, Zenon DEF IInv, ChunksAreWhole
  <2>3. n \in Nat /\ End(0) = 0 /\ Length = End(n) /\ TypeOK
    BY <2>1, EndFacts, Zenon DEF IInv, Length
  <2>4. Len(m_boundaries) = n
    BY <1>4, <2>2, <2>3
  <2>5. 0 \in 0..n /\ m \in 0..n /\ n \in 0..n /\ 0 < m /\ m < n /\ m \in 1..n
    BY <1>2, <1>5, <2>3, <2>4
  <2>6. End(0) < End(m) /\ End(m) < End(n)
    BY <2>1, <2>3, <2>5, EndFacts, Zenon
  <2>7. m_boundaries[m] = End(m) /\ {0, End(m), Length} \subseteq Offsets
    BY <2>1, <2>2, <2>3, <2>5, Zenon DEF Offsets
  <2>8. 0 < m_boundaries[m] /\ m_boundaries[m] < Length
    BY <2>3, <2>6, <2>7, Zenon
  <2>9. Inside(f) /\ Inside(s)
    BY <1>6, <1>9, <2>8 DEF Inside
  <2>10. Whole(f) /\ Whole(s)
    BY <1>9, <2>7, <2>8, Zenon DEF Whole
  <2>. QED  BY <2>9, <2>10
<1>11. lo <= hi /\ hi <= hi
  OBVIOUS
<1>12. ChunkOK(f) /\ ChunkOK(s)
  BY <1>2, <1>5, <1>8, <1>9, <1>10, <1>11, Zenon DEF ChunkOK
<1>. QED  BY <1>3, <1>8, <1>9, <1>12, Zenon

\* Nothing lies before the start of the buffer.
LEMMA DoneZero ==
  ASSUME IInv, NEW k \in 0..Len(m_bulkData), End(k) <= 0
  PROVE  Done(k) /\ Done(k)'
<1>1. TypeOK /\ Len(m_bulkData) \in Nat /\ End(0) = 0
  BY EndFacts, Zenon DEF IInv
<1>2. 0 \in 0..Len(m_bulkData)
  BY <1>1
<1>3. End(k) <= End(0) <=> k <= 0
  BY <1>1, <1>2, EndOrder, Zenon
<1>4. k <= 0
  BY <1>1, <1>3, Zenon
<1>5. 1..k = {}
  BY <1>1, <1>4
<1>. QED  BY <1>5, Zenon DEF Done

\* A chunk that is too large is split.
LEMMA ChunkSplitInv ==
  ASSUME IInv, ChunkRefused413, Head(chunks).lo < Head(chunks).hi
  PROVE  IInv'
<1>1. PICK c : c = Head(chunks)
  BY Zenon
<1>2. /\ pc = "chunk" /\ chunks # <<>>
      /\ chunks' = Halves(c.lo, c.hi) \o Tail(chunks)
      /\ UNCHANGED <<fixed, added, buffer, m_stopping, indexer, deletes, needToRetry>>
      /\ UNCHANGED <<m_deleteByQuery, m_shouldNotifyAfterBulk, pc, entry>>
  BY <1>1, Zenon DEF ChunkRefused413, InChunk, Continue
<1>3. chunks \in Seq(Chunks) /\ \A i \in 1..Len(chunks) : ChunkOK(chunks[i])
  BY ChunksHold, Zenon
<1>4. PICK n : n = Len(chunks)
  BY Zenon
<1>5. n \in Nat /\ n >= 1 /\ c = chunks[1] /\ 1 \in 1..n
  BY <1>1, <1>2, <1>3, <1>4
<1>6. /\ c.lo \in Nat /\ c.hi \in Nat /\ 1 <= c.lo /\ c.lo < c.hi /\ c.hi <= Len(m_boundaries)
  BY <1>1, <1>3, <1>4, <1>5, Zenon DEF ChunkOK, Chunks
<1>7. PICK f \in Chunks, s \in Chunks :
         /\ Halves(c.lo, c.hi) = <<f, s>>
         /\ ChunkOK(f) /\ ChunkOK(s)
         /\ f.from = 0 /\ f.to = s.from /\ s.to = Length
  BY <1>6, HalvesAre, Zenon
<1>8. /\ chunks' \in Seq(Chunks) /\ Len(chunks') = n + 1
      /\ chunks'[1] = f /\ chunks'[2] = s
      /\ \A i \in 3..n + 1 : chunks'[i] = chunks[i - 1]
  <2>1. /\ Tail(chunks) \in Seq(Chunks) /\ Len(Tail(chunks)) = n - 1
        /\ \A i \in 1..n - 1 : Tail(chunks)[i] = chunks[i + 1]
    BY <1>3, <1>4, <1>5
  <2>2. PICK t \in Seq(Chunks) : t = Tail(chunks)
    BY <2>1, Zenon
  <2>3. chunks' = <<f, s>> \o t
    BY <1>2, <1>7, <2>2, Zenon
  <2>4. Len(t) = n - 1
    BY <2>1, <2>2, Zenon
  <2>5. /\ <<f, s>> \o t \in Seq(Chunks) /\ Len(<<f, s>> \o t) = n + 1
        /\ (<<f, s>> \o t)[1] = f /\ (<<f, s>> \o t)[2] = s
        /\ \A i \in 3..n + 1 : (<<f, s>> \o t)[i] = t[i - 2]
    BY <1>5, <2>4
  <2>6. \A i \in 3..n + 1 : i - 2 \in 1..n - 1 /\ (i - 2) + 1 = i - 1
    BY <1>5
  <2>7. \A i \in 3..n + 1 : t[i - 2] = chunks[i - 1]
    BY <2>1, <2>2, <2>6, Zenon
  <2>. QED  BY <2>3, <2>5, <2>7, Zenon
<1>9. m_bulkData = batch /\ batch' = batch /\ m_bulkData' = m_bulkData /\ pc' = "chunk" /\ deletes' = deletes
  BY <1>2, Zenon DEF IInv, Local, entry, buffer
<1>10. Length' = Length /\ (\A k : End(k)' = End(k)) /\ \A d : Inside(d)' <=> Inside(d)
  <2>1. Length' = Length /\ (\A k : End(k)' = End(k))
    BY <1>2, SameOffsets, Zenon DEF fixed, buffer
  <2>. QED  BY <2>1, Zenon DEF Inside
<1>11. \A i \in 1..n + 1 : i = 1 \/ i = 2 \/ (i \in 3..n + 1 /\ i - 1 \in 1..n)
  BY <1>5
<1>12. \A i \in 1..Len(chunks') : ChunkOK(chunks'[i])
  BY <1>3, <1>4, <1>7, <1>8, <1>11, Zenon
<1>13. chunks' # <<>>
  BY <1>5, <1>8
<1>14. chunks'[n + 1].to = Length
  <2>1. CASE n = 1
    BY <1>7, <1>8, <2>1
  <2>2. CASE n # 1
    <3>1. n + 1 \in 3..n + 1 /\ (n + 1) - 1 = n
      BY <1>5, <2>2
    <3>. QED  BY <1>2, <1>4, <1>8, <3>1, Zenon DEF IInv, Cover
  <2>. QED  BY <2>1, <2>2
<1>15. ASSUME NEW i \in 1..n, Inside(chunks'[i + 1]) PROVE chunks'[i + 1].from <= chunks'[i].to
  <2>1. CASE i = 1
    <3>1. f.to \in Nat /\ i + 1 = 2
      BY <1>7, <2>1 DEF Chunks
    <3>2. s.from <= f.to
      BY <1>7, <3>1
    <3>. QED  BY <1>8, <2>1, <3>1, <3>2, Zenon
  <2>2. CASE i = 2
    <3>1. i + 1 \in 3..n + 1 /\ (i + 1) - 1 = 2 /\ 2 \in 1..n
      BY <1>5, <2>2
    <3>2. chunks'[i + 1] = chunks[2] /\ chunks'[i] = s
      BY <1>8, <2>2, <3>1, Zenon
    <3>3. chunks[2].from \in Nat /\ chunks[2].to \in Nat /\ Length \in Nat
      BY <1>3, <1>4, <3>1, EndFacts, Zenon DEF ChunkOK, Chunks, IInv
    <3>4. chunks[2].from <= chunks[2].to /\ chunks[2].to <= Length
      BY <1>15, <3>2, Zenon DEF Inside
    <3>. QED  BY <1>7, <3>2, <3>3, <3>4
  <2>3. CASE i # 1 /\ i # 2
    <3>1. /\ i + 1 \in 3..n + 1 /\ i \in 3..n + 1 /\ (i + 1) - 1 = i /\ i - 1 \in 1..n - 1
          /\ (i - 1) + 1 = i
      BY <1>5, <2>3
    <3>2. chunks'[i + 1] = chunks[i] /\ chunks'[i] = chunks[i - 1]
      BY <1>8, <3>1, Zenon
    <3>3. \A j \in 1..n - 1 : Inside(chunks[j + 1]) => chunks[j + 1].from <= chunks[j].to
      BY <1>2, <1>4, Zenon DEF IInv, Cover
    <3>. QED  BY <1>15, <3>1, <3>2, <3>3, Zenon
  <2>. QED  BY <2>1, <2>2, <2>3, Zenon
<1>16. \A k \in 0..Len(batch) : End(k) <= f.from => Done(k)'
  BY <1>7, <1>9, DoneZero, Zenon
<1>17. Cover'
  <2>1. Len(chunks') - 1 = n
    BY <1>5, <1>8
  <2>. QED  BY <1>8, <1>9, <1>10, <1>13, <1>14, <1>15, <1>16, <2>1, Zenon DEF Cover
<1>18. IndexerOK'
  BY <1>2, BufferHolds, IndexerSame, Zenon
<1>19. Local'
  BY <1>2, <1>9, Zenon DEF IInv, Local
<1>20. GoesOn
  <2>1. needToRetry' \in BOOLEAN /\ executed' = executed
    BY <1>2, Zenon DEF IInv, TypeOK, indexer
  <2>. QED  BY <1>2, <1>9, <2>1, Zenon DEF GoesOn, InCall
<1>. QED  BY <1>8, <1>12, <1>17, <1>18, <1>19, <1>20, GoesOnInv, Zenon

\* The buffer is too large and is split.
LEMMA BulkSplitInv ==
  ASSUME IInv, BulkRefused413, ~ (Len(m_boundaries) <= 1)
  PROVE  IInv'
<1>1. /\ pc = "bulk" /\ Length > maxContent /\ pc' = "chunk"
      /\ chunks' = NonEmpty(Halves(1, Len(m_boundaries))[1]) \o NonEmpty(Halves(1, Len(m_boundaries))[2])
      /\ UNCHANGED <<buffer, m_deleteByQuery, m_shouldNotifyAfterBulk, entry, deletes, needToRetry>>
      /\ UNCHANGED <<fixed, added, m_stopping, indexer>>
  BY Zenon DEF BulkRefused413
<1>2. PICK m : m = Len(m_boundaries)
  BY Zenon
<1>3. m \in Nat /\ 1 < m /\ 1 \in Nat /\ 1 <= 1 /\ m <= m
  <2>1. m_boundaries \in Seq(Nat)
    BY Zenon DEF IInv, TypeOK
  <2>. QED  BY <1>2, <2>1
<1>4. PICK f \in Chunks, s \in Chunks :
         /\ Halves(1, m) = <<f, s>>
         /\ ChunkOK(f) /\ ChunkOK(s)
         /\ f.from = 0 /\ f.to = s.from /\ s.to = Length
  BY <1>2, <1>3, HalvesAre, Zenon
<1>5. chunks' = NonEmpty(f) \o NonEmpty(s)
  <2>1. <<f, s>>[1] = f /\ <<f, s>>[2] = s
    OBVIOUS
  <2>. QED  BY <1>1, <1>2, <1>4, <2>1, Zenon
<1>6. Length \in Nat /\ 0 < Length /\ End(0) = 0 /\ Len(m_bulkData) \in Nat
  <2>1. Length \in Nat /\ End(0) = 0 /\ Len(m_bulkData) \in Nat
    BY EndFacts, Zenon DEF IInv
  <2>2. maxContent \in Nat
    BY Zenon DEF IInv, TypeOK
  <2>. QED  BY <1>1, <2>1, <2>2
<1>7. m_bulkData # <<>>
  <2>. SUFFICES ASSUME m_bulkData = <<>> PROVE FALSE
    BY Zenon
  <2>1. Len(m_bulkData) = 0
    OBVIOUS
  <2>. QED  BY <1>6, <2>1 DEF Length
<1>8. m_bulkData = batch /\ batch' = batch /\ m_bulkData' = m_bulkData /\ deletes' = deletes /\ deletes = {}
  BY <1>1, <1>7, Zenon DEF IInv, Local, entry, buffer
<1>9. Length' = Length /\ (\A k : End(k)' = End(k)) /\ \A d : Inside(d)' <=> Inside(d)
  <2>1. Length' = Length /\ (\A k : End(k)' = End(k))
    BY <1>1, SameOffsets, Zenon DEF fixed, buffer
  <2>. QED  BY <2>1, Zenon DEF Inside
<1>10. \A k \in 0..Len(batch) : End(k) <= 0 => Done(k)'
  BY <1>8, DoneZero, Zenon
<1>11. ~ (f.from = f.to /\ s.from = s.to)
  BY <1>4, <1>6
<1>12. /\ chunks' # <<>> /\ chunks' \in Seq(Chunks)
       /\ \A i \in 1..Len(chunks') : ChunkOK(chunks'[i])
       /\ chunks'[1].from = 0 /\ chunks'[Len(chunks')].to = Length
       /\ \A i \in 1..Len(chunks') - 1 : chunks'[i + 1].from <= chunks'[i].to
  <2>1. CASE f.from # f.to /\ s.from # s.to
    <3>1. chunks' = <<f>> \o <<s>>
      BY <1>5, <2>1, Zenon DEF NonEmpty
    <3>2. /\ chunks' # <<>> /\ chunks' \in Seq(Chunks) /\ Len(chunks') = 2
          /\ chunks'[1] = f /\ chunks'[2] = s
      BY <3>1
    <3>3. (\A i \in 1..2 : i = 1 \/ i = 2) /\ (\A i \in 1..2 - 1 : i = 1 /\ i + 1 = 2)
      OBVIOUS
    <3>4. s.from <= f.to
      BY <1>4 DEF Chunks
    <3>. QED  BY <1>4, <3>2, <3>3, <3>4, Zenon
  <2>2. CASE f.from # f.to /\ s.from = s.to
    <3>1. chunks' = <<f>> \o <<>>
      BY <1>5, <2>2, Zenon DEF NonEmpty
    <3>2. /\ chunks' # <<>> /\ chunks' \in Seq(Chunks) /\ Len(chunks') = 1 /\ chunks'[1] = f
      BY <3>1
    <3>3. (\A i \in 1..1 : i = 1) /\ 1..1 - 1 = {}
      OBVIOUS
    <3>. QED  BY <1>4, <2>2, <3>2, <3>3, Zenon
  <2>3. CASE f.from = f.to /\ s.from # s.to
    <3>1. chunks' = <<>> \o <<s>>
      BY <1>5, <2>3, Zenon DEF NonEmpty
    <3>2. /\ chunks' # <<>> /\ chunks' \in Seq(Chunks) /\ Len(chunks') = 1 /\ chunks'[1] = s
      BY <3>1
    <3>3. (\A i \in 1..1 : i = 1) /\ 1..1 - 1 = {}
      OBVIOUS
    <3>. QED  BY <1>4, <2>3, <3>2, <3>3, Zenon
  <2>. QED  BY <1>11, <2>1, <2>2, <2>3, Zenon
<1>13. Cover'
  BY <1>8, <1>9, <1>10, <1>12, Zenon DEF Cover
<1>14. IndexerOK'
  BY <1>1, BufferHolds, IndexerSame, Zenon
<1>15. Local'
  BY <1>1, <1>8, Zenon DEF Local
<1>16. GoesOn
  <2>1. needToRetry' \in BOOLEAN /\ executed' = executed
    BY <1>1, Zenon DEF IInv, TypeOK, indexer
  <2>. QED  BY <1>1, <1>7, <1>8, <2>1, Zenon DEF GoesOn, InCall
<1>. QED  BY <1>12, <1>13, <1>14, <1>15, <1>16, GoesOnInv, Zenon

\* A busy answer leaves a chunk ahead as it was, but for its needToRetry.
LEMMA ChunkBusyInv ==
  ASSUME IInv, ChunkBusy
  PROVE  IInv'
<1>1. /\ pc = "chunk" /\ chunks # <<>> /\ chunks' = [chunks EXCEPT ![1].retry = TRUE]
      /\ UNCHANGED <<fixed, added, buffer, m_stopping, indexer, deletes, needToRetry>>
      /\ UNCHANGED <<m_deleteByQuery, m_shouldNotifyAfterBulk, pc, entry>>
  BY Zenon DEF ChunkBusy, InChunk, Continue
<1>2. chunks \in Seq(Chunks) /\ \A i \in 1..Len(chunks) : ChunkOK(chunks[i])
  BY ChunksHold, Zenon
<1>3. PICK n : n = Len(chunks)
  BY Zenon
<1>4. /\ n \in Nat /\ n >= 1 /\ 1 \in 1..n
  BY <1>1, <1>2, <1>3
<1>5. PICK c \in Chunks : c = [chunks[1] EXCEPT !.retry = TRUE] /\ chunks[1] \in Chunks
  <2>1. chunks[1] \in Chunks
    BY <1>2, <1>3, <1>4, Zenon DEF ChunkOK
  <2>2. [chunks[1] EXCEPT !.retry = TRUE] \in Chunks
    BY <2>1, Zenon DEF Chunks
  <2>. QED  BY <2>1, <2>2, Zenon
<1>6. c.from = chunks[1].from /\ c.to = chunks[1].to /\ c.lo = chunks[1].lo /\ c.hi = chunks[1].hi
  BY <1>5, Zenon DEF Chunks
<1>7. chunks' = [chunks EXCEPT ![1] = c]
  BY <1>1, <1>5, Zenon
<1>8. /\ chunks' \in Seq(Chunks) /\ Len(chunks') = n
      /\ chunks'[1] = c /\ \A i \in 1..n : i # 1 => chunks'[i] = chunks[i]
  <2>1. chunks \in [1..n -> Chunks]
    BY <1>2, <1>3
  <2>2. /\ chunks' \in [1..n -> Chunks]
        /\ chunks'[1] = c /\ \A i \in 1..n : i # 1 => chunks'[i] = chunks[i]
    BY <1>4, <1>5, <1>7, <2>1, Zenon
  <2>3. PICK new \in [1..n -> Chunks] : new = chunks'
    BY <2>2, Zenon
  <2>4. new \in Seq(Chunks) /\ Len(new) = n
    BY <1>4, <2>3
  <2>. QED  BY <2>2, <2>3, <2>4, Zenon
<1>9. \A i \in 1..n : /\ chunks'[i].from = chunks[i].from /\ chunks'[i].to = chunks[i].to
                      /\ chunks'[i].lo = chunks[i].lo /\ chunks'[i].hi = chunks[i].hi
                      /\ chunks'[i] \in Chunks
  BY <1>2, <1>3, <1>5, <1>6, <1>8, Zenon DEF ChunkOK
<1>10. \A i \in 1..n : ChunkOK(chunks'[i]) /\ (Inside(chunks'[i]) <=> Inside(chunks[i]))
  BY <1>2, <1>3, <1>9, Zenon DEF ChunkOK, Inside, Whole
<1>11. m_bulkData = batch /\ batch' = batch /\ m_bulkData' = m_bulkData /\ deletes' = deletes /\ pc' = "chunk"
  BY <1>1, Zenon DEF IInv, Local, entry, buffer
<1>12. Length' = Length /\ (\A k : End(k)' = End(k)) /\ \A d : Inside(d)' <=> Inside(d)
  <2>1. Length' = Length /\ (\A k : End(k)' = End(k))
    BY <1>1, SameOffsets, Zenon DEF fixed, buffer
  <2>. QED  BY <2>1, Zenon DEF Inside
<1>13. Cover'
  <2>1. executed' = executed /\ order' = order
    BY <1>1, Zenon DEF indexer
  <2>2. \A k : Done(k)' <=> Done(k)
    BY <1>11, <2>1, Zenon DEF Done
  <2>3. /\ Inside(chunks[1]) => \A k \in 0..Len(batch) : End(k) <= chunks[1].from => Done(k)
        /\ chunks[n].to = Length
        /\ \A i \in 1..n - 1 : Inside(chunks[i + 1]) => chunks[i + 1].from <= chunks[i].to
    BY <1>1, <1>3, Zenon DEF IInv, Cover
  <2>4. n \in 1..n /\ (\A i \in 1..n - 1 : i \in 1..n /\ i + 1 \in 1..n) /\ chunks' # <<>>
    BY <1>4, <1>8
  <2>5. /\ Inside(chunks'[1]) => \A k \in 0..Len(batch) : End(k) <= chunks'[1].from => Done(k)
        /\ chunks'[n].to = Length
        /\ \A i \in 1..n - 1 : Inside(chunks'[i + 1]) => chunks'[i + 1].from <= chunks'[i].to
    BY <1>4, <1>9, <1>10, <2>3, <2>4, Zenon
  <2>. QED  BY <1>8, <1>11, <1>12, <2>2, <2>4, <2>5, Zenon DEF Cover
<1>14. IndexerOK'
  BY <1>1, BufferHolds, IndexerSame, Zenon
<1>15. Local'
  BY <1>1, <1>11, Zenon DEF IInv, Local
<1>16. GoesOn
  <2>1. needToRetry' \in BOOLEAN /\ executed' = executed
    BY <1>1, Zenon DEF IInv, TypeOK, indexer
  <2>. QED  BY <1>1, <1>11, <2>1, Zenon DEF GoesOn, InCall
<1>. QED  BY <1>8, <1>10, <1>13, <1>14, <1>15, <1>16, GoesOnInv, Zenon

-----------------------------------------------------------------------------
\* Between calls, the buffer and the flags change.
LEMMA IdleInv ==
  ASSUME IInv, pc = "idle", UNCHANGED <<fixed, pc, locals>>, BufferOK', IndexerOK',
         m_deleteByQuery' \subseteq {Delete}, m_shouldNotifyAfterBulk' \in BOOLEAN, m_stopping' \in BOOLEAN
  PROVE  IInv'
<1>1. /\ UNCHANGED <<size, maxContent, faults, pc, caller, batch, before, deletes, needToRetry, chunks>>
      /\ Ops' = Ops /\ Delete' = Delete /\ Chunks' = Chunks
  BY Zenon DEF fixed, locals, entry, Ops, Delete, Chunks
<1>2. chunks = <<>> /\ deletes = {} /\ caller = "none"
  BY Zenon DEF IInv, Local
<1>3. Len(<<>>) = 0 /\ 1..0 = {}
  OBVIOUS
<1>4. TypeOK'
  <2>1. \A i \in 1..Len(chunks') : /\ 1 <= chunks'[i].lo /\ chunks'[i].lo <= chunks'[i].hi
                                   /\ chunks'[i].hi <= Len(m_boundaries')
    BY <1>1, <1>2, <1>3, Zenon
  <2>. QED  BY <1>1, <1>2, <2>1, Zenon DEF IInv, TypeOK, BufferOK, IndexerOK
<1>5. Numbered'
  BY <1>1, <1>2, Zenon DEF BufferOK, Numbered
<1>6. Local'
  BY <1>1, <1>2, Zenon DEF Local
<1>7. ChunksAreWhole'
  BY <1>1, <1>2, <1>3, Zenon DEF BufferOK, ChunksAreWhole
<1>8. Cover' /\ ReturnIsComplete' /\ SoFar'
  BY <1>1, Zenon DEF Cover, ReturnIsComplete, SoFar, InCall
<1>. QED  BY <1>4, <1>5, <1>6, <1>7, <1>8, Zenon DEF IInv

\* The process ends in a call, or a call returns because the connector stops.
LEMMA OutInv ==
  ASSUME IInv, deletes = {}, pc' = "stopped" \/ (pc' = "returned" /\ m_stopping /\ chunks = <<>>),
         UNCHANGED <<fixed, added, buffer, m_deleteByQuery, m_shouldNotifyAfterBulk, m_stopping,
                     indexer, locals>>
  PROVE  IInv'
<1>1. /\ UNCHANGED <<size, maxContent, faults, caller, batch, before, deletes, needToRetry, chunks>>
      /\ UNCHANGED <<m_bulkData, m_boundaries, added, m_deleteByQuery, m_shouldNotifyAfterBulk>>
      /\ UNCHANGED <<m_stopping, executed, order>>
      /\ Ops' = Ops /\ Delete' = Delete /\ Chunks' = Chunks
  BY Zenon DEF fixed, buffer, indexer, locals, entry, Ops, Delete, Chunks
<1>2. TypeOK'
  BY <1>1, Zenon DEF IInv, TypeOK
<1>3. Numbered'
  BY <1>1, Zenon DEF IInv, Numbered
<1>4. Local'
  BY <1>1, Zenon DEF Local
<1>5. ChunksAreWhole'
  <2>1. \A k : End(k)' = End(k)
    BY <1>1, SameOffsets, Zenon
  <2>2. \A c : Inside(c)' = Inside(c) /\ Whole(c)' = Whole(c)
    BY <1>1, SameOffsets, Zenon DEF Inside, Whole, Offsets
  <2>3. [k \in 1..Len(m_bulkData) |-> End(k)]' = [k \in 1..Len(m_bulkData) |-> End(k)]
    BY <1>1, <2>1, Zenon
  <2>. QED  BY <1>1, <2>2, <2>3, Zenon DEF IInv, ChunksAreWhole
<1>6. Cover' /\ ReturnIsComplete' /\ SoFar'
  <2>1. CASE pc' = "stopped"
    BY <2>1, Zenon DEF Cover, ReturnIsComplete, SoFar, InCall
  <2>2. CASE pc' = "returned" /\ m_stopping
    <3>1. m_stopping'
      BY <1>1, <2>2, Zenon
    <3>. QED  BY <2>2, <3>1, Zenon DEF Cover, ReturnIsComplete, SoFar, InCall
  <2>. QED  BY <2>1, <2>2, Zenon
<1>. QED  BY <1>2, <1>3, <1>4, <1>5, <1>6, Zenon DEF IInv

\* The invariant holds initially.
LEMMA InitInv == Init => IInv
<1>. SUFFICES ASSUME Init PROVE IInv
  BY Zenon
<1>1. size \in Seq(Nat \ {0}) /\ maxContent \in Nat
  BY BulkAssumption, Zenon DEF Init
<1>2. /\ added = 0 /\ m_bulkData = <<>> /\ m_boundaries = <<>> /\ m_deleteByQuery = {}
      /\ m_shouldNotifyAfterBulk = FALSE /\ m_stopping = FALSE /\ executed = {} /\ order = {}
      /\ pc = "idle" /\ caller = "none" /\ deletes = {} /\ needToRetry = FALSE /\ chunks = <<>>
      /\ batch = <<>> /\ before = NoEntry
  BY Zenon DEF Init
<1>3. /\ \A S : <<>> \in Seq(S)
      /\ Len(<<>>) = 0 /\ 1..0 = {} /\ <<>> = [k \in 1..0 |-> End(k)]
  OBVIOUS
<1>4. 0 \in 0..Len(size)
  BY <1>1
<1>5. before \in [executed : SUBSET (Ops \cup {Delete}), notify : BOOLEAN]
  BY <1>2, Zenon DEF NoEntry
<1>6. TypeOK
  BY <1>1, <1>2, <1>3, <1>4, <1>5, Zenon DEF TypeOK, Callers
<1>7. Numbered /\ Local
  BY <1>2, <1>3, Zenon DEF Numbered, Local
<1>8. ChunksAreWhole
  BY <1>2, <1>3, Zenon DEF ChunksAreWhole
<1>9. Cover /\ ReturnIsComplete /\ SoFar
  BY <1>2, Zenon DEF Cover, ReturnIsComplete, SoFar, InCall
<1>. QED  BY <1>6, <1>7, <1>8, <1>9, Zenon DEF IInv

\* The callers.
LEMMA CallersInv ==
  ASSUME IInv, BulkIndex \/ DeleteByQuery \/ Flush \/ BulkThread \/ Stop
  PROVE  IInv'
<1>0. BufferOK /\ IndexerOK /\ m_shouldNotifyAfterBulk \in BOOLEAN /\ m_stopping \in BOOLEAN
      /\ m_deleteByQuery \subseteq {Delete}
  BY BufferHolds, Zenon DEF IInv, TypeOK
<1>1. CASE BulkIndex
  <2>0. /\ pc = "idle" /\ added + 1 \in Ops /\ added' = added + 1
        /\ UNCHANGED <<fixed, m_deleteByQuery, m_shouldNotifyAfterBulk, m_stopping, indexer>>
    BY <1>1, Zenon DEF BulkIndex
  <2>1. CASE Push(added + 1) /\ UNCHANGED <<pc, locals>>
    <3>1. PICK op \in Ops : op = added + 1
      BY <2>0, Zenon
    <3>2. \A i \in 1..Len(m_bulkData) : m_bulkData[i] < op
      <4>1. \A i \in 1..Len(m_bulkData) : m_bulkData[i] \in Nat /\ m_bulkData[i] <= added
        BY <1>0, EntriesAreNumbers, Zenon DEF IInv, BufferOK
      <4>2. added \in Nat
        BY OpsAreNumbers, Zenon DEF IInv
      <4>. QED  BY <3>1, <4>1, <4>2
    <3>3. BufferOK'
      BY <1>0, <2>0, <2>1, <3>1, <3>2, BufferPush, Zenon
    <3>4. IndexerOK'
      BY <1>0, <2>0, IndexerSame, Zenon
    <3>. QED  BY <1>0, <2>0, <2>1, <3>3, <3>4, IdleInv, Zenon
  <2>2. CASE Begin("index", m_shouldNotifyAfterBulk) /\ UNCHANGED buffer
    <3>1. PICK notify \in BOOLEAN : notify = m_shouldNotifyAfterBulk
      BY <1>0, Zenon
    <3>. QED  BY <2>0, <2>2, <3>1, BeginInv, Zenon
  <2>3. CASE UNCHANGED <<buffer, pc, locals>>
    <3>1. BufferOK'
      BY <1>0, <2>0, <2>3, BufferSame, Zenon
    <3>2. IndexerOK'
      BY <1>0, <2>0, IndexerSame, Zenon
    <3>. QED  BY <1>0, <2>0, <2>3, <3>1, <3>2, IdleInv, Zenon
  <2>. QED  BY <1>1, <2>1, <2>2, <2>3, Zenon DEF BulkIndex
<1>2. CASE DeleteByQuery \/ Stop
  <2>1. /\ pc = "idle" /\ UNCHANGED <<fixed, added, buffer, m_shouldNotifyAfterBulk, indexer, pc, locals>>
        /\ m_deleteByQuery' \subseteq {Delete} /\ m_stopping' \in BOOLEAN
    BY <1>0, <1>2, Zenon DEF DeleteByQuery, Stop
  <2>2. BufferOK' /\ IndexerOK'
    BY <1>0, <2>1, BufferSame, IndexerSame, Zenon
  <2>. QED  BY <1>0, <2>1, <2>2, IdleInv, Zenon
<1>3. CASE Flush
  BY <1>3, BeginInv, Zenon DEF Flush
<1>4. CASE BulkThread
  <2>1. PICK notify \in BOOLEAN : notify = m_shouldNotifyAfterBulk
    BY <1>0, Zenon
  <2>. QED  BY <1>4, <2>1, BeginInv, Zenon DEF BulkThread
<1>. QED  BY <1>1, <1>2, <1>3, <1>4, Zenon

\* A call throws: the buffer is kept or dropped.
LEMMA ThrowInv ==
  ASSUME IInv, Throw, UNCHANGED <<fixed, added, m_stopping>>, BufferOK', IndexerOK'
  PROVE  IInv'
BY LeaveInv, Zenon DEF Throw, IInv, TypeOK

\* A request of which the indexer executes any part.
LEMMA SomeExecuted ==
  ASSUME IInv, UNCHANGED fixed, NEW ops, Range(ops) \subseteq Ops \cup {Delete}, ExecuteSome(ops)
  PROVE  IndexerOK' /\ executed \subseteq executed' /\ executed' \subseteq executed \cup Range(ops)
<1>1. PICK some \in SUBSET Range(ops) : Executed(ops, some)
  BY Zenon DEF ExecuteSome
<1>2. IndexerOK'
  BY <1>1, BufferHolds, IndexerStep, Zenon
<1>. QED  BY <1>1, <1>2, Zenon DEF Executed

\* A delete request is sent.
LEMMA SendDeleteInv ==
  ASSUME IInv, SendDelete
  PROVE  IInv'
<1>1. pc = "deletes" /\ UNCHANGED <<fixed, added, m_stopping, m_boundaries>> /\ BufferOK /\ IndexerOK
  BY BufferHolds, Zenon DEF SendDelete
<1>2. PICK d \in deletes :
        \/ /\ Execute(<<d>>) \/ ("skipped" \in faults /\ UNCHANGED indexer)
           /\ deletes' = deletes \ {d}
           /\ Continue
           /\ UNCHANGED <<m_bulkData, needToRetry, chunks>>
        \/ /\ "delete" \in faults
           /\ m_bulkData' = <<>>
           /\ Throw
           /\ UNCHANGED indexer
  BY Zenon DEF SendDelete
<1>3. CASE "delete" \in faults /\ m_bulkData' = <<>> /\ Throw /\ UNCHANGED indexer
  <2>1. BufferOK' /\ IndexerOK'
    BY <1>1, <1>3, BufferClear, IndexerSame, Zenon
  <2>. QED  BY <1>1, <1>3, <2>1, ThrowInv, Zenon
<1>4. CASE /\ Execute(<<d>>) \/ ("skipped" \in faults /\ UNCHANGED indexer)
           /\ deletes' = deletes \ {d} /\ Continue /\ UNCHANGED <<m_bulkData, needToRetry, chunks>>
  <2>1. d \in m_deleteByQuery /\ d = Delete
    BY Zenon DEF IInv, TypeOK
  <2>2. Range(<<d>>) = {d}
    BY DEF Range
  <2>3. /\ IndexerOK' /\ executed \subseteq executed' /\ executed' \subseteq executed \cup {d}
        /\ "skipped" \notin faults => d \in executed'
    <3>1. CASE Execute(<<d>>)
      <4>1. Executed(<<d>>, {d})
        BY <2>2, <3>1, Zenon DEF Execute
      <4>2. IndexerOK'
        BY <1>1, <2>1, <4>1, IndexerStep, Zenon
      <4>3. executed' = executed \cup {d}
        BY <4>1, Zenon DEF Executed
      <4>. QED  BY <4>2, <4>3, Zenon
    <3>2. CASE "skipped" \in faults /\ UNCHANGED indexer
      BY <1>1, <3>2, IndexerSame, Zenon DEF indexer
    <3>. QED  BY <1>4, <3>1, <3>2, Zenon
  <2>4. /\ UNCHANGED <<buffer, pc, entry, m_deleteByQuery, m_shouldNotifyAfterBulk, needToRetry>>
        /\ UNCHANGED <<batch, caller, m_bulkData>> /\ chunks' = chunks /\ chunks = <<>>
    BY <1>1, <1>4, Zenon DEF buffer, entry, Continue, IInv, Local
  <2>5. GoesOn
    <3>1. needToRetry' \in BOOLEAN
      BY <2>4, Zenon DEF IInv, TypeOK
    <3>2. executed' \subseteq executed \cup m_deleteByQuery \cup Range(batch)
      BY <2>1, <2>3, Zenon
    <3>3. "skipped" \notin faults => deletes \ deletes' \subseteq executed'
      BY <1>4, <2>3, Zenon
    <3>4. InCall /\ pc' = pc /\ pc' \in {"deletes", "bulk", "chunk"} /\ deletes' \subseteq deletes
      BY <1>1, <1>4, <2>4, Zenon DEF InCall
    <3>. QED  BY <1>1, <2>3, <2>4, <3>1, <3>2, <3>3, <3>4, Zenon DEF GoesOn
  <2>6. Local' /\ Cover'
    BY <1>1, <2>4, Zenon DEF IInv, Local, Cover
  <2>7. chunks' \in Seq(Chunks) /\ \A i \in 1..Len(chunks') : ChunkOK(chunks'[i])
    BY <2>4, ChunksHold, Zenon
  <2>. QED  BY <2>3, <2>5, <2>6, <2>7, GoesOnInv, Zenon
<1>. QED  BY <1>2, <1>3, <1>4, Zenon

\* The deletes are sent.
LEMMA ToBulkInv ==
  ASSUME IInv, ToBulk
  PROVE  IInv'
<1>1. /\ pc = "deletes" /\ deletes = {} /\ m_bulkData # <<>>
      /\ pc' = IF m_stopping THEN "returned" ELSE "bulk"
      /\ UNCHANGED <<fixed, added, buffer, m_deleteByQuery, m_shouldNotifyAfterBulk, m_stopping,
                     indexer, locals>>
  BY Zenon DEF ToBulk
<1>2. /\ UNCHANGED <<executed, entry, deletes, needToRetry, chunks, batch, m_bulkData>>
      /\ chunks = <<>> /\ m_bulkData = batch
  BY <1>1, Zenon DEF indexer, locals, entry, buffer, IInv, Local
<1>3. CASE m_stopping
  BY <1>1, <1>2, <1>3, OutInv, Zenon
<1>4. CASE ~ m_stopping
  <2>1. GoesOn
    <3>1. needToRetry' \in BOOLEAN /\ pc' = "bulk"
      BY <1>1, <1>2, <1>4, Zenon DEF IInv, TypeOK
    <3>. QED  BY <1>1, <1>2, <3>1, Zenon DEF GoesOn, InCall
  <2>2. Local' /\ Cover'
    BY <1>1, <1>2, <1>4, Zenon DEF Local, Cover
  <2>3. IndexerOK'
    BY <1>1, BufferHolds, IndexerSame, Zenon
  <2>4. chunks' \in Seq(Chunks) /\ \A i \in 1..Len(chunks') : ChunkOK(chunks'[i])
    BY <1>2, ChunksHold, Zenon
  <2>. QED  BY <2>1, <2>2, <2>3, <2>4, GoesOnInv, Zenon
<1>. QED  BY <1>3, <1>4, Zenon

\* A call returns to its caller.
LEMMA ReturnInv ==
  ASSUME IInv, Return
  PROVE  IInv'
<1>1. /\ Leave /\ UNCHANGED <<fixed, added, m_deleteByQuery, m_stopping, indexer>>
      /\ BufferOK /\ IndexerOK /\ m_deleteByQuery \subseteq {Delete} /\ m_shouldNotifyAfterBulk \in BOOLEAN
  BY BufferHolds, Zenon DEF Return, IInv, TypeOK
<1>2. IndexerOK'
  BY <1>1, IndexerSame, Zenon
<1>3. m_shouldNotifyAfterBulk' \in BOOLEAN
  BY <1>1, Zenon DEF Return
<1>4. CASE caller = "index"
  <2>1. Push(added) /\ added' = added
    BY <1>1, <1>4, Zenon DEF Return
  <2>2. 1 <= added /\ \A i \in 1..Len(m_bulkData) : m_bulkData[i] < added
    BY <1>4, Zenon DEF IInv, Numbered
  <2>3. added \in Ops
    BY <1>1, <2>2 DEF BufferOK, Ops
  <2>4. BufferOK'
    BY <1>1, <2>1, <2>2, <2>3, BufferPush, Zenon
  <2>. QED  BY <1>1, <1>2, <1>3, <2>4, LeaveInv, Zenon
<1>5. CASE caller # "index"
  <2>1. UNCHANGED buffer
    BY <1>5, Zenon DEF Return
  <2>2. BufferOK'
    BY <1>1, <2>1, BufferSame, Zenon
  <2>. QED  BY <1>1, <1>2, <1>3, <2>2, LeaveInv, Zenon
<1>. QED  BY <1>4, <1>5, Zenon

\* There are only deletes to send.
LEMMA OnlyDeletesInv ==
  ASSUME IInv, OnlyDeletes
  PROVE  IInv'
<1>1. /\ pc = "deletes" /\ deletes = {} /\ m_bulkData = <<>> /\ Finish
      /\ UNCHANGED <<fixed, added, m_stopping, needToRetry, indexer>>
  BY Zenon DEF OnlyDeletes
<1>2. InCall /\ chunks = <<>> /\ batch = <<>> /\ batch' = batch
  BY <1>1, Zenon DEF InCall, IInv, Local, Finish, entry
<1>3. Len(batch') = 0 /\ 1..0 = {}
  BY <1>2
<1>4. Done(Len(batch))'
  BY <1>3, Zenon DEF Done
<1>5. IndexerOK' /\ needToRetry' \in BOOLEAN
  BY <1>1, BufferHolds, IndexerSame, Zenon DEF IInv, TypeOK
<1>. QED  BY <1>1, <1>2, <1>4, <1>5, FinishInv, Zenon

\* The buffer is sent at once.
LEMMA BulkSentInv ==
  ASSUME IInv, BulkSent
  PROVE  IInv'
<1>1. /\ pc = "bulk" /\ m_bulkData # <<>> /\ Execute(m_bulkData) /\ needToRetry' = FALSE /\ Finish
      /\ UNCHANGED <<fixed, added, m_stopping>>
  BY Zenon DEF BulkSent
<1>2. InCall /\ chunks = <<>> /\ deletes = {} /\ m_bulkData = batch /\ batch' = batch
  BY <1>1, Zenon DEF InCall, IInv, Local, Finish, entry
<1>3. batch \in Seq(Ops)
  BY Zenon DEF IInv, TypeOK
<1>4. /\ SubSeq(batch, 0 + 1, Len(batch)) = batch /\ 1..0 = {}
      /\ 0 \in 0..Len(batch) /\ Len(batch) \in 0..Len(batch) /\ 0 <= Len(batch)
  BY <1>3
<1>5. Done(0)
  BY <1>4, Zenon DEF Done
<1>6. Execute(SubSeq(batch, 0 + 1, Len(batch)))
  BY <1>1, <1>2, <1>4, Zenon
<1>7. PICK n : n = Len(batch)
  BY Zenon
<1>8. Done(n)'
  BY <1>2, <1>4, <1>5, <1>6, <1>7, RunIsDone, Zenon
<1>9. Done(Len(batch))'
  BY <1>2, <1>7, <1>8, Zenon
<1>10. IndexerOK'
  <2>1. Range(m_bulkData) \in SUBSET (Ops \cup {Delete})
    BY BatchSet, Zenon
  <2>. QED  BY <1>1, <2>1, BufferHolds, IndexerStep, Zenon DEF Execute
<1>. QED  BY <1>1, <1>2, <1>9, <1>10, FinishInv, Zenon

\* The indexer is busy.
LEMMA BulkBusyInv ==
  ASSUME IInv, BulkBusy
  PROVE  IInv'
<1>1. /\ pc = "bulk" /\ needToRetry' = TRUE
      /\ UNCHANGED <<m_deleteByQuery, m_shouldNotifyAfterBulk, pc, entry>>
      /\ UNCHANGED <<fixed, added, buffer, m_stopping, indexer, deletes, chunks>>
  BY Zenon DEF BulkBusy, Continue
<1>2. UNCHANGED <<executed, batch, m_bulkData>>
  BY <1>1, Zenon DEF indexer, entry, buffer
<1>3. GoesOn
  BY <1>1, <1>2, Zenon DEF GoesOn, InCall
<1>4. Local' /\ Cover'
  BY <1>1, <1>2, Zenon DEF IInv, Local, Cover
<1>5. IndexerOK'
  BY <1>1, BufferHolds, IndexerSame, Zenon
<1>6. chunks' \in Seq(Chunks) /\ \A i \in 1..Len(chunks') : ChunkOK(chunks'[i])
  BY <1>1, ChunksHold, Zenon
<1>. QED  BY <1>3, <1>4, <1>5, <1>6, GoesOnInv, Zenon

\* The bulk request fails, or is one operation that is too large.
LEMMA BulkThrowsInv ==
  ASSUME IInv, BulkRejected \/ (BulkRefused413 /\ Len(m_boundaries) <= 1)
  PROVE  IInv'
<1>1. Clear /\ Throw /\ UNCHANGED <<fixed, added, m_stopping>>
  BY Zenon DEF BulkRejected, BulkRefused413
<1>2. BufferOK'
  BY <1>1, BufferHolds, BufferClear, Zenon DEF Clear
<1>3. UNCHANGED indexer \/ ExecuteSome(m_bulkData)
  BY Zenon DEF BulkRejected, BulkRefused413
<1>4. IndexerOK'
  <2>1. Range(m_bulkData) \subseteq Ops \cup {Delete}
    BY BatchSet, Zenon
  <2>. QED  BY <1>1, <1>3, <2>1, BufferHolds, IndexerSame, SomeExecuted, Zenon
<1>. QED  BY <1>1, <1>2, <1>4, ThrowInv, Zenon

\* The operations of a chunk are of the buffer.
LEMMA PostedSet ==
  ASSUME IInv, NEW c \in Chunks, Whole(c)
  PROVE  Range(Posted(c)) \subseteq Range(m_bulkData)
<1>1. PICK a \in 0..Len(m_bulkData), b \in 0..Len(m_bulkData) :
         a < b /\ Posted(c) = SubSeq(m_bulkData, a + 1, b)
  BY PostedRun, Zenon DEF IInv
<1>2. m_bulkData \in Seq(Ops)
  BY Zenon DEF IInv, TypeOK
<1>3. PICK ops : ops = Posted(c)
  BY Zenon
<1>4. DOMAIN ops = 1..b - a /\ \A i \in 1..b - a : ops[i] = m_bulkData[a + i]
  BY <1>1, <1>2, <1>3
<1>5. \A i \in 1..b - a : a + i \in DOMAIN m_bulkData
  BY <1>1, <1>2
<1>6. \A i \in DOMAIN ops : ops[i] \in {m_bulkData[j] : j \in DOMAIN m_bulkData}
  BY <1>4, <1>5, Zenon
<1>. QED  BY <1>3, <1>6, Zenon DEF Range

\* A chunk fails, is given up as too large, or lies outside the buffer.
ChunkThrows ==
  /\ InChunk
  /\ Throw /\ UNCHANGED <<fixed, added, buffer, m_stopping>>
  /\ UNCHANGED indexer \/ (Whole(Head(chunks)) /\ ExecuteSome(Posted(Head(chunks))))

\* A chunk that fails leaves the call with the buffer kept.
LEMMA ChunkThrowsInv ==
  ASSUME IInv, ChunkThrows
  PROVE  /\ IInv' /\ executed \subseteq executed'
         /\ executed' \subseteq executed \cup Range(m_bulkData)
<1>1. /\ InChunk /\ Throw /\ UNCHANGED <<fixed, added, buffer, m_stopping>>
      /\ UNCHANGED indexer \/ (Whole(Head(chunks)) /\ ExecuteSome(Posted(Head(chunks))))
  BY Zenon DEF ChunkThrows
<1>2. Head(chunks) \in Chunks
  <2>1. chunks \in Seq(Chunks) /\ chunks # <<>>
    BY <1>1, Zenon DEF InChunk, IInv, TypeOK
  <2>. QED  BY <2>1
<1>3. /\ IndexerOK' /\ executed \subseteq executed'
      /\ executed' \subseteq executed \cup Range(m_bulkData)
  <2>1. CASE UNCHANGED indexer
    <3>1. IndexerOK' /\ executed' = executed
      BY <1>1, <2>1, BufferHolds, IndexerSame, Zenon DEF indexer
    <3>. QED  BY <3>1, Zenon
  <2>2. CASE Whole(Head(chunks)) /\ ExecuteSome(Posted(Head(chunks)))
    <3>1. PICK ops : ops = Posted(Head(chunks))
      OBVIOUS
    <3>2. Range(ops) \subseteq Range(m_bulkData) /\ Range(ops) \subseteq Ops \cup {Delete}
      BY <1>2, <2>2, <3>1, PostedSet, BatchSet, Zenon
    <3>3. ExecuteSome(ops)
      BY <2>2, <3>1, Zenon
    <3>4. IndexerOK' /\ executed \subseteq executed' /\ executed' \subseteq executed \cup Range(ops)
      BY <1>1, <3>2, <3>3, SomeExecuted, Zenon
    <3>. QED  BY <3>2, <3>4, Zenon
  <2>. QED  BY <1>1, <2>1, <2>2, Zenon
<1>4. BufferOK'
  BY <1>1, BufferHolds, BufferSame, Zenon
<1>5. IInv'
  BY <1>1, <1>3, <1>4, ThrowInv, Zenon
<1>. QED  BY <1>3, <1>5, Zenon

\* The halves are sent.
LEMMA SplitDoneInv ==
  ASSUME IInv, SplitDone
  PROVE  IInv'
<1>1. /\ pc = "chunk" /\ chunks = <<>>
      /\ UNCHANGED <<fixed, added, m_stopping, indexer, needToRetry>>
  BY Zenon DEF SplitDone
<1>2. /\ UNCHANGED <<size, maxContent, faults, added, m_stopping, executed, order, needToRetry>>
      /\ Ops' = Ops /\ Delete' = Delete /\ Chunks' = Chunks
  BY <1>1, Zenon DEF fixed, indexer, Ops, Delete, Chunks
<1>3. InCall /\ deletes = {} /\ m_bulkData = batch /\ Done(Len(batch))
  BY <1>1, Zenon DEF InCall, IInv, Local, Cover
<1>4. IndexerOK' /\ needToRetry' \in BOOLEAN
  BY <1>1, BufferHolds, IndexerSame, Zenon DEF IInv, TypeOK
<1>5. CASE ~ needToRetry
  <2>1. Finish /\ batch' = batch
    BY <1>5, Zenon DEF SplitDone, Finish, entry
  <2>2. Done(Len(batch))'
    BY <1>2, <1>3, <2>1, Zenon DEF Done
  <2>. QED  BY <1>1, <1>3, <1>4, <2>1, <2>2, FinishInv, Zenon
<1>6. CASE needToRetry
  <2>1. /\ m_bulkData' = <<>> /\ m_boundaries' = <<>> /\ m_shouldNotifyAfterBulk' = TRUE /\ pc' = "bulk"
        /\ UNCHANGED <<m_deleteByQuery, caller, batch, before, deletes, chunks>>
    BY <1>6, Zenon DEF SplitDone, Clear, entry
  <2>2. BufferOK'
    BY <1>1, <2>1, BufferHolds, BufferClear, Zenon
  <2>3. Len(<<>>) = 0 /\ 1..0 = {}
    OBVIOUS
  <2>4. TypeOK'
    <3>1. \A i \in 1..Len(chunks') : /\ 1 <= chunks'[i].lo /\ chunks'[i].lo <= chunks'[i].hi
                                     /\ chunks'[i].hi <= Len(m_boundaries')
      BY <1>1, <2>1, <2>3, Zenon
    <3>. QED  BY <1>2, <1>4, <2>1, <2>2, <3>1, Zenon DEF IInv, TypeOK, BufferOK, IndexerOK
  <2>5. Numbered'
    BY <1>2, <2>1, <2>3, Zenon DEF IInv, Numbered
  <2>6. Local'
    BY <1>1, <1>3, <2>1, Zenon DEF Local
  <2>7. ChunksAreWhole'
    BY <1>1, <2>1, <2>2, <2>3, Zenon DEF BufferOK, ChunksAreWhole
  <2>8. Cover' /\ ReturnIsComplete'
    BY <2>1, Zenon DEF Cover, ReturnIsComplete
  <2>9. Range(batch) \subseteq executed
    <3>1. batch \in Seq(Ops)
      BY Zenon DEF IInv, TypeOK
    <3>2. DOMAIN batch = 1..Len(batch)
      BY <3>1
    <3>. QED  BY <1>3, <3>2, Zenon DEF Range, Done
  <2>10. SoFar'
    <3>1. /\ before.executed \subseteq executed
          /\ executed \subseteq before.executed \cup m_deleteByQuery \cup Range(batch)
          /\ "skipped" \notin faults => m_deleteByQuery \ deletes \subseteq executed
      BY <1>3, Zenon DEF IInv, SoFar
    <3>. QED  BY <1>2, <2>1, <2>9, <3>1, Zenon DEF SoFar
  <2>. QED  BY <2>4, <2>5, <2>6, <2>7, <2>8, <2>10, Zenon DEF IInv
<1>. QED  BY <1>5, <1>6, Zenon

\* A step of the chunks: one is sent, refused as too large, fails, or lies
\* outside the buffer.
LEMMA ChunkStep ==
  ASSUME IInv, ChunkRefused413 \/ ChunkRejected \/ ChunkUndefined
  PROVE  \/ ChunkThrows
         \/ ChunkRefused413 /\ Head(chunks).lo < Head(chunks).hi
         \/ /\ InChunk /\ pc' = "stopped"
            /\ UNCHANGED <<fixed, added, buffer, m_deleteByQuery, m_shouldNotifyAfterBulk, m_stopping,
                           indexer, locals>>
BY Zenon DEF ChunkRefused413, ChunkRejected, ChunkUndefined, ChunkThrows

\* Stuttering keeps the invariant.
LEMMA SameInv ==
  ASSUME IInv, UNCHANGED vars
  PROVE  IInv'
<1>1. /\ UNCHANGED <<size, maxContent, faults, caller, batch, before, deletes, needToRetry, chunks>>
      /\ UNCHANGED <<m_bulkData, m_boundaries, added, m_deleteByQuery, m_shouldNotifyAfterBulk>>
      /\ UNCHANGED <<m_stopping, executed, order, pc>>
      /\ Ops' = Ops /\ Delete' = Delete /\ Chunks' = Chunks
  BY Zenon DEF vars, fixed, buffer, indexer, locals, entry, Ops, Delete, Chunks
<1>2. TypeOK' /\ Numbered' /\ Local' /\ ReturnIsComplete'
  BY <1>1, Zenon DEF IInv, TypeOK, Numbered, Local, ReturnIsComplete
<1>3. Length' = Length /\ \A k : End(k)' = End(k)
  BY <1>1, SameOffsets, Zenon
<1>4. \A c : Inside(c)' = Inside(c) /\ Whole(c)' = Whole(c)
  BY <1>1, <1>3, Zenon DEF Inside, Whole, Offsets
<1>5. [k \in 1..Len(m_bulkData) |-> End(k)]' = [k \in 1..Len(m_bulkData) |-> End(k)]
  BY <1>1, <1>3, Zenon
<1>6. ChunksAreWhole'
  BY <1>1, <1>4, <1>5, Zenon DEF IInv, ChunksAreWhole
<1>7. \A k : Done(k)' = Done(k)
  BY <1>1, Zenon DEF Done
<1>8. Cover'
  BY <1>1, <1>3, <1>4, <1>7, Zenon DEF IInv, Cover
<1>9. SoFar'
  BY <1>1, Zenon DEF IInv, SoFar, InCall
<1>. QED  BY <1>2, <1>6, <1>8, <1>9, Zenon DEF IInv

\* Every step preserves the invariant.
LEMMA NextInv == IInv /\ [Next]_vars => IInv'
<1>. SUFFICES ASSUME IInv, [Next]_vars PROVE IInv'
  BY Zenon
<1>1. CASE BulkIndex \/ DeleteByQuery \/ Flush \/ BulkThread \/ Stop
  BY <1>1, CallersInv, Zenon
<1>2. CASE SendDelete \/ OnlyDeletes \/ ToBulk \/ SplitDone \/ Return
  BY <1>2, SendDeleteInv, OnlyDeletesInv, ToBulkInv, SplitDoneInv, ReturnInv, Zenon
<1>3. CASE BulkSent \/ BulkRefused413 \/ BulkRejected \/ BulkBusy
  BY <1>3, BulkSentInv, BulkSplitInv, BulkThrowsInv, BulkBusyInv, Zenon
<1>4. CASE ChunkSent \/ ChunkBusy
  BY <1>4, ChunkSentInv, ChunkBusyInv, Zenon
<1>5. CASE ChunkRefused413 \/ ChunkRejected \/ ChunkUndefined
  <2>1. CASE InChunk /\ pc' = "stopped"
             /\ UNCHANGED <<fixed, added, buffer, m_deleteByQuery, m_shouldNotifyAfterBulk, m_stopping,
                            indexer, locals>>
    <3>1. deletes = {}
      BY <2>1, Zenon DEF InChunk, IInv, Local
    <3>. QED  BY <2>1, <3>1, OutInv, Zenon
  <2>. QED  BY <1>5, <2>1, ChunkStep, ChunkThrowsInv, ChunkSplitInv, Zenon
<1>6. CASE UNCHANGED vars
  BY <1>6, SameInv, Zenon
<1>. QED  BY <1>1, <1>2, <1>3, <1>4, <1>5, <1>6, Zenon DEF Next, Answered

\* The invariant holds for any sizes, limit, faults and number of operations.
LEMMA Invariance == Spec => []IInv
BY InitInv, NextInv, PTL DEF Spec

-----------------------------------------------------------------------------
(***************************************************************************)
(* A call is one step of IndexerConnectorSync, taken when it ends.         *)
(***************************************************************************)
\* Requests that leave the call under way are not seen.
LEMMA GoingOnUnseen ==
  ASSUME InCall, InCall', UNCHANGED <<m_deleteByQuery, entry>>
  PROVE  UNCHANGED seen
BY Zenon DEF seen, SeenData, SeenNotify, SeenIndexed, entry

\* A call begins: nothing is seen of it but the flag.
LEMMA BeginUnseen ==
  ASSUME pc = "idle", NEW who, NEW notify, Begin(who, notify), UNCHANGED m_deleteByQuery
  PROVE  /\ UNCHANGED <<SeenData, SeenIndexed, m_deleteByQuery>>
         /\ SeenNotify = m_shouldNotifyAfterBulk /\ SeenNotify' = notify
<1>1. /\ pc' = "deletes" /\ batch' = m_bulkData
      /\ before' = [executed |-> executed, notify |-> notify]
  BY Zenon DEF Begin
<1>2. before'.executed = executed /\ before'.notify = notify
  BY <1>1, Zenon
<1>3. ~ InCall /\ InCall'
  BY <1>1, Zenon DEF InCall
<1>. QED  BY <1>1, <1>2, <1>3, Zenon DEF SeenData, SeenNotify, SeenIndexed

\* The set of a buffer with one operation more.
LEMMA PushSeen ==
  ASSUME TypeOK, NEW op \in Ops, Push(op)
  PROVE  Range(m_bulkData') = Range(m_bulkData) \cup {op}
<1>1. m_bulkData \in Seq(Ops) /\ m_bulkData' = Append(m_bulkData, op)
  BY Zenon DEF TypeOK, Push
<1>2. PICK n : n = Len(m_bulkData)
  BY Zenon
<1>3. /\ n \in Nat /\ DOMAIN m_bulkData = 1..n /\ DOMAIN m_bulkData' = 1..n + 1
      /\ m_bulkData'[n + 1] = op /\ \A i \in 1..n : m_bulkData'[i] = m_bulkData[i]
  BY <1>1, <1>2
<1>4. 1..n + 1 = 1..n \cup {n + 1}
  BY <1>3
<1>5. Range(m_bulkData) = {m_bulkData[i] : i \in 1..n} /\ Range(m_bulkData') = {m_bulkData'[i] : i \in 1..n + 1}
  BY <1>3, Zenon DEF Range
<1>6. {m_bulkData'[i] : i \in 1..n + 1} = {m_bulkData'[i] : i \in 1..n} \cup {m_bulkData'[n + 1]}
  BY <1>4, Zenon
<1>7. {m_bulkData'[i] : i \in 1..n} = {m_bulkData[i] : i \in 1..n}
  BY <1>3, Zenon
<1>. QED  BY <1>3, <1>5, <1>6, <1>7, Zenon

\* A call that ends in an error.
LEMMA ThrowSeen ==
  ASSUME IInv, InCall, ~ InCall', "skipped" \notin faults,
         m_bulkData' \in {<<>>, m_bulkData},
         UNCHANGED <<m_deleteByQuery, m_shouldNotifyAfterBulk>>,
         executed \subseteq executed', executed' \subseteq executed \cup m_deleteByQuery \cup Range(m_bulkData)
  PROVE  CallStep
<1>1. Range(<<>>) = {}
  BY DEF Range
<1>2. /\ SeenData = Range(batch) /\ SeenNotify = before.notify /\ SeenIndexed = before.executed
      /\ SeenData' = Range(m_bulkData') /\ SeenNotify' = m_shouldNotifyAfterBulk
      /\ SeenIndexed' = executed'
  BY Zenon DEF SeenData, SeenNotify, SeenIndexed
<1>3. m_bulkData \in {batch, <<>>}
  <2>1. pc \in {"deletes", "chunk", "bulk"}
    BY Zenon DEF InCall, IInv, TypeOK
  <2>. QED  BY <2>1, Zenon DEF IInv, Local
<1>4. Range(m_bulkData) \subseteq Range(batch) /\ SeenData' \in {{}, SeenData}
  BY <1>1, <1>2, <1>3, Zenon
<1>5. /\ before.executed \subseteq executed
      /\ executed \subseteq before.executed \cup m_deleteByQuery \cup Range(batch)
      /\ m_deleteByQuery \ deletes \subseteq executed
      /\ IF pc = "bulk" /\ m_bulkData = <<>>
         THEN m_shouldNotifyAfterBulk /\ Range(batch) \subseteq executed
         ELSE m_shouldNotifyAfterBulk = before.notify
  BY Zenon DEF IInv, SoFar
<1>6. /\ before.executed \subseteq executed'
      /\ executed' \subseteq before.executed \cup m_deleteByQuery \cup Range(batch)
  BY <1>4, <1>5, Zenon
<1>7. Connector!Sent = m_deleteByQuery \cup Range(batch)
  BY <1>2, Zenon DEF Connector!Sent
<1>8. \E some \in SUBSET Connector!Sent : SeenIndexed' = SeenIndexed \cup some
  <2> DEFINE some == executed' \cap Connector!Sent
  <2>1. SeenIndexed' = SeenIndexed \cup some /\ some \subseteq Connector!Sent
    BY <1>2, <1>6, <1>7, Zenon
  <2>. QED  BY <2>1, Zenon
<1>9. \/ SeenNotify' = SeenNotify
      \/ SeenData' = {} /\ Connector!Sent \subseteq SeenIndexed' /\ SeenNotify' = TRUE
  <2>1. CASE pc = "bulk" /\ m_bulkData = <<>>
    <3>1. deletes = {}
      BY <2>1, Zenon DEF IInv, Local
    <3>2. Connector!Sent \subseteq executed'
      BY <1>5, <1>7, <2>1, <3>1, Zenon
    <3>3. m_shouldNotifyAfterBulk = TRUE
      BY <1>5, <2>1, Zenon DEF IInv, TypeOK
    <3>4. SeenData' = {}
      BY <1>1, <1>2, <2>1, Zenon
    <3>. QED  BY <1>2, <3>2, <3>3, <3>4, Zenon
  <2>2. CASE ~ (pc = "bulk" /\ m_bulkData = <<>>)
    BY <1>2, <1>5, <2>2, Zenon
  <2>. QED  BY <2>1, <2>2, Zenon
<1>10. Connector!ProcessBulkThrows(SeenNotify)
  BY <1>4, <1>8, <1>9, Zenon DEF Connector!ProcessBulkThrows
<1>. QED  BY <1>10, Zenon DEF CallStep

\* A call that ends without one.
LEMMA FinishSeen ==
  ASSUME IInv, InCall, Finish, "skipped" \notin faults, deletes = {},
         executed \subseteq executed', executed' \subseteq executed \cup Range(batch),
         Range(batch) \subseteq executed'
  PROVE  CallStep
<1>1. Range(<<>>) = {}
  BY DEF Range
<1>2. /\ pc' = "returned" /\ m_bulkData' = <<>> /\ m_deleteByQuery' = {} /\ m_shouldNotifyAfterBulk'
  BY Zenon DEF Finish, Clear
<1>3. ~ InCall'
  BY <1>2, Zenon DEF InCall
<1>4. /\ SeenData = Range(batch) /\ SeenIndexed = before.executed
      /\ SeenData' = {} /\ SeenNotify' /\ SeenIndexed' = executed'
  BY <1>1, <1>2, <1>3, Zenon DEF SeenData, SeenNotify, SeenIndexed
<1>5. /\ before.executed \subseteq executed
      /\ executed \subseteq before.executed \cup m_deleteByQuery \cup Range(batch)
      /\ m_deleteByQuery \ deletes \subseteq executed
  BY Zenon DEF IInv, SoFar
<1>6. executed' = before.executed \cup (m_deleteByQuery \cup Range(batch))
  BY <1>5, Zenon
<1>7. Connector!ProcessBulk({})
  BY <1>2, <1>4, <1>6, Zenon DEF Connector!ProcessBulk, Connector!Sent
<1>. QED  BY <1>4, <1>7, Zenon DEF CallStep

\* What callers, bulk thread and destructor do is a step of the connector.
LEMMA CallersSeen ==
  ASSUME IInv, BulkIndex \/ DeleteByQuery \/ Flush \/ BulkThread \/ Stop \/ Return
  PROVE  CallStep \/ UNCHANGED seen
<1>1. CASE BulkIndex
  <2>1. /\ pc = "idle" /\ added + 1 \in Ops
        /\ UNCHANGED <<m_deleteByQuery, m_shouldNotifyAfterBulk, executed>>
    BY <1>1, Zenon DEF BulkIndex, indexer
  <2>2. CASE Push(added + 1) /\ UNCHANGED <<pc, locals>>
    <3>1. PICK op \in Ops : op = added + 1
      BY <2>1, Zenon
    <3>2. Range(m_bulkData') = Range(m_bulkData) \cup {op}
      BY <2>2, <3>1, PushSeen, Zenon DEF IInv
    <3>3. ~ InCall /\ ~ InCall'
      BY <2>1, <2>2, Zenon DEF InCall
    <3>4. SeenData' = SeenData \cup {op} /\ UNCHANGED <<SeenNotify, SeenIndexed, m_deleteByQuery>>
      BY <2>1, <3>2, <3>3, Zenon DEF SeenData, SeenNotify, SeenIndexed
    <3>. QED  BY <3>4, Zenon DEF CallStep
  <2>3. CASE Begin("index", m_shouldNotifyAfterBulk)
    <3>1. PICK notify : notify = m_shouldNotifyAfterBulk
      OBVIOUS
    <3>2. Begin("index", notify)
      BY <2>3, <3>1, Zenon
    <3>. QED  BY <2>1, <3>1, <3>2, BeginUnseen, Zenon DEF seen
  <2>4. CASE UNCHANGED <<buffer, pc, locals>>
    <3>1. UNCHANGED <<pc, m_bulkData>>
      BY <2>4, Zenon DEF buffer
    <3>2. ~ InCall /\ ~ InCall'
      BY <2>1, <3>1, Zenon DEF InCall
    <3>. QED  BY <2>1, <3>1, <3>2, Zenon DEF seen, SeenData, SeenNotify, SeenIndexed
  <2>. QED  BY <1>1, <2>2, <2>3, <2>4, Zenon DEF BulkIndex
<1>2. CASE DeleteByQuery \/ Stop
  <2>1. /\ pc = "idle" /\ UNCHANGED <<m_bulkData, m_shouldNotifyAfterBulk, executed, pc>>
        /\ m_deleteByQuery' = m_deleteByQuery \cup {Delete} \/ UNCHANGED m_deleteByQuery
    BY <1>2, Zenon DEF DeleteByQuery, Stop, buffer, indexer
  <2>2. ~ InCall /\ ~ InCall'
    BY <2>1, Zenon DEF InCall
  <2>3. UNCHANGED <<SeenData, SeenNotify, SeenIndexed>>
    BY <2>1, <2>2, Zenon DEF SeenData, SeenNotify, SeenIndexed
  <2>. QED  BY <2>1, <2>3, Zenon DEF seen, CallStep
<1>3. CASE Flush
  <2>1. pc = "idle" /\ Begin("flush", FALSE) /\ UNCHANGED m_deleteByQuery
    BY <1>3, Zenon DEF Flush
  <2>2. ~ SeenNotify' /\ UNCHANGED <<SeenData, SeenIndexed, m_deleteByQuery>>
    BY <2>1, BeginUnseen, Zenon
  <2>. QED  BY <2>2, Zenon DEF CallStep
<1>4. CASE BulkThread
  <2>1. PICK notify : notify = m_shouldNotifyAfterBulk
    OBVIOUS
  <2>2. pc = "idle" /\ Begin("thread", notify) /\ UNCHANGED m_deleteByQuery
    BY <1>4, <2>1, Zenon DEF BulkThread
  <2>. QED  BY <2>1, <2>2, BeginUnseen, Zenon DEF seen
<1>5. CASE Return
  <2>1. /\ pc = "returned" /\ pc' \in {"idle", "stopped"} /\ UNCHANGED <<m_deleteByQuery, executed>>
    BY <1>5, Zenon DEF Return, Leave, indexer
  <2>2. ~ InCall /\ ~ InCall'
    BY <2>1, Zenon DEF InCall
  <2>3. CASE caller = "index"
    <3>1. Push(added) /\ UNCHANGED m_shouldNotifyAfterBulk
      BY <1>5, <2>3, Zenon DEF Return
    <3>2. 1 <= added /\ added \in 0..Len(size) /\ size \in Seq(Nat \ {0})
      BY <2>3, Zenon DEF IInv, Numbered, TypeOK
    <3>3. added \in Ops
      BY <3>2 DEF Ops
    <3>4. Range(m_bulkData') = Range(m_bulkData) \cup {added}
      BY <3>1, <3>3, PushSeen, Zenon DEF IInv
    <3>5. SeenData' = SeenData \cup {added} /\ UNCHANGED <<SeenNotify, SeenIndexed, m_deleteByQuery>>
      BY <2>1, <2>2, <3>1, <3>4, Zenon DEF SeenData, SeenNotify, SeenIndexed
    <3>. QED  BY <3>3, <3>5, Zenon DEF CallStep
  <2>4. CASE caller # "index"
    <3>1. m_shouldNotifyAfterBulk' = FALSE /\ UNCHANGED m_bulkData
      BY <1>5, <2>4, Zenon DEF Return, buffer
    <3>2. ~ SeenNotify' /\ UNCHANGED <<SeenData, SeenIndexed, m_deleteByQuery>>
      BY <2>1, <2>2, <3>1, Zenon DEF SeenData, SeenNotify, SeenIndexed
    <3>. QED  BY <3>2, Zenon DEF CallStep
  <2>. QED  BY <2>3, <2>4, Zenon
<1>. QED  BY <1>1, <1>2, <1>3, <1>4, <1>5, Zenon

\* An exception leaves the call; neither deletes nor notification flag change.
LEMMA ThrowLeaves ==
  ASSUME Throw
  PROVE  ~ InCall' /\ UNCHANGED <<m_deleteByQuery, m_shouldNotifyAfterBulk>>
<1>1. pc' \in {"idle", "stopped"}
  BY Zenon DEF Throw, Leave
<1>. QED  BY <1>1, Zenon DEF Throw, InCall

\* The steps of processBulk are seen as one, at its end.
LEMMA ProcessBulkSeen ==
  ASSUME IInv, "skipped" \notin faults, ~ m_stopping,
         SendDelete \/ OnlyDeletes \/ ToBulk \/ BulkSent \/ BulkBusy \/ BulkRejected \/ BulkRefused413
  PROVE  CallStep \/ UNCHANGED seen
<1>1. pc \in {"deletes", "bulk"}
  BY Zenon DEF SendDelete, OnlyDeletes, ToBulk, BulkSent, BulkBusy, BulkRejected, BulkRefused413
<1>2. InCall
  BY <1>1, Zenon DEF InCall
<1>3. CASE SendDelete
  <2>1. CASE Continue
    <3>1. InCall' /\ UNCHANGED <<m_deleteByQuery, entry>>
      BY <1>2, <2>1, Zenon DEF Continue, InCall
    <3>. QED  BY <1>2, <3>1, GoingOnUnseen, Zenon
  <2>2. CASE m_bulkData' = <<>> /\ Throw /\ UNCHANGED indexer
    <3>1. executed' = executed
      BY <2>2, Zenon DEF indexer
    <3>2. executed \subseteq executed' /\ executed' \subseteq executed \cup m_deleteByQuery \cup Range(m_bulkData)
      BY <3>1, Zenon
    <3>. QED  BY <1>2, <2>2, <3>2, ThrowLeaves, ThrowSeen, Zenon
  <2>. QED  BY <1>3, <2>1, <2>2, Zenon DEF SendDelete
<1>4. CASE OnlyDeletes
  <2>1. /\ pc = "deletes" /\ deletes = {} /\ m_bulkData = <<>> /\ Finish /\ executed' = executed
    BY <1>4, Zenon DEF OnlyDeletes, indexer
  <2>2. batch = <<>>
    BY <2>1, Zenon DEF IInv, Local
  <2>3. Range(batch) = {}
    BY <2>2 DEF Range
  <2>4. /\ executed \subseteq executed' /\ executed' \subseteq executed \cup Range(batch)
        /\ Range(batch) \subseteq executed'
    BY <2>1, <2>3, Zenon
  <2>. QED  BY <1>2, <2>1, <2>4, FinishSeen, Zenon
<1>5. CASE ToBulk
  <2>1. pc' = "bulk" /\ UNCHANGED <<m_deleteByQuery, entry>>
    BY <1>5, Zenon DEF ToBulk, locals
  <2>2. InCall'
    BY <2>1, Zenon DEF InCall
  <2>. QED  BY <1>2, <2>1, <2>2, GoingOnUnseen, Zenon
<1>6. CASE BulkSent
  <2>1. /\ pc = "bulk" /\ m_bulkData # <<>> /\ Finish /\ executed' = executed \cup Range(m_bulkData)
    BY <1>6, Zenon DEF BulkSent, Execute, Executed
  <2>2. batch = m_bulkData /\ deletes = {}
    BY <2>1, Zenon DEF IInv, Local
  <2>3. /\ executed \subseteq executed' /\ executed' \subseteq executed \cup Range(batch)
        /\ Range(batch) \subseteq executed'
    BY <2>1, <2>2, Zenon
  <2>. QED  BY <1>2, <2>1, <2>2, <2>3, FinishSeen, Zenon
<1>7. CASE BulkBusy
  <2>1. UNCHANGED <<pc, m_deleteByQuery, entry>>
    BY <1>7, Zenon DEF BulkBusy, Continue
  <2>2. InCall'
    BY <1>2, <2>1, Zenon DEF InCall
  <2>. QED  BY <1>2, <2>1, <2>2, GoingOnUnseen, Zenon
<1>8. CASE BulkRejected \/ (BulkRefused413 /\ Len(m_boundaries) <= 1)
  <2>1. Clear /\ Throw /\ UNCHANGED fixed /\ (UNCHANGED indexer \/ ExecuteSome(m_bulkData))
    BY <1>8, Zenon DEF BulkRejected, BulkRefused413
  <2>2. executed \subseteq executed' /\ executed' \subseteq executed \cup Range(m_bulkData)
    <3>1. Range(m_bulkData) \subseteq Ops \cup {Delete}
      BY BatchSet, Zenon
    <3>2. CASE UNCHANGED indexer
      <4>1. executed' = executed
        BY <3>2, Zenon DEF indexer
      <4>. QED  BY <4>1, Zenon
    <3>. QED  BY <2>1, <3>1, <3>2, SomeExecuted, Zenon
  <2>3. m_bulkData' = <<>> /\ executed' \subseteq executed \cup m_deleteByQuery \cup Range(m_bulkData)
    BY <2>1, <2>2, Zenon DEF Clear
  <2>. QED  BY <1>2, <2>1, <2>2, <2>3, ThrowLeaves, ThrowSeen, Zenon
<1>9. CASE BulkRefused413 /\ ~ (Len(m_boundaries) <= 1)
  <2>1. pc' = "chunk" /\ UNCHANGED <<m_deleteByQuery, entry>>
    BY <1>9, Zenon DEF BulkRefused413
  <2>2. InCall'
    BY <2>1, Zenon DEF InCall
  <2>. QED  BY <1>2, <2>1, <2>2, GoingOnUnseen, Zenon
<1>. QED  BY <1>3, <1>4, <1>5, <1>6, <1>7, <1>8, <1>9, Zenon

\* So are those of splitAndProcessBulk.
LEMMA ChunksSeen ==
  ASSUME IInv, "skipped" \notin faults,
         SplitDone \/ ChunkSent \/ ChunkBusy \/ ChunkRefused413 \/ ChunkRejected \/ ChunkUndefined
  PROVE  CallStep \/ UNCHANGED seen
<1>1. pc = "chunk"
  BY Zenon DEF SplitDone, ChunkSent, ChunkBusy, ChunkRefused413, ChunkRejected, ChunkUndefined, InChunk
<1>2. InCall /\ deletes = {} /\ m_bulkData = batch
  BY <1>1, Zenon DEF InCall, IInv, Local
<1>3. CASE SplitDone
  <2>1. executed' = executed /\ chunks = <<>>
    BY <1>3, Zenon DEF SplitDone, indexer
  <2>2. CASE needToRetry
    <3>1. pc' = "bulk" /\ UNCHANGED <<m_deleteByQuery, entry>>
      BY <1>3, <2>2, Zenon DEF SplitDone
    <3>2. InCall'
      BY <3>1, Zenon DEF InCall
    <3>. QED  BY <1>2, <3>1, <3>2, GoingOnUnseen, Zenon
  <2>3. CASE ~ needToRetry
    <3>1. Finish
      BY <1>3, <2>3, Zenon DEF SplitDone
    <3>2. Done(Len(batch)) /\ batch \in Seq(Ops)
      BY <1>1, <2>1, Zenon DEF IInv, Cover, TypeOK
    <3>3. DOMAIN batch = 1..Len(batch)
      BY <3>2
    <3>4. Range(batch) \subseteq executed
      BY <3>2, <3>3, Zenon DEF Range, Done
    <3>5. /\ executed \subseteq executed' /\ executed' \subseteq executed \cup Range(batch)
          /\ Range(batch) \subseteq executed'
      BY <2>1, <3>4, Zenon
    <3>. QED  BY <1>2, <3>1, <3>5, FinishSeen, Zenon
  <2>. QED  BY <2>2, <2>3, Zenon
<1>4. CASE ChunkSent \/ ChunkBusy \/ (ChunkRefused413 /\ Head(chunks).lo < Head(chunks).hi)
  <2>1. Continue
    BY <1>4, Zenon DEF ChunkSent, ChunkBusy, ChunkRefused413
  <2>2. InCall' /\ UNCHANGED <<m_deleteByQuery, entry>>
    BY <1>2, <2>1, Zenon DEF Continue, InCall
  <2>. QED  BY <1>2, <2>2, GoingOnUnseen, Zenon
<1>5. CASE ChunkThrows
  <2>1. Throw /\ m_bulkData' = m_bulkData
    BY <1>5, Zenon DEF ChunkThrows, buffer
  <2>2. executed \subseteq executed' /\ executed' \subseteq executed \cup m_deleteByQuery \cup Range(m_bulkData)
    BY <1>5, ChunkThrowsInv, Zenon
  <2>. QED  BY <1>2, <2>1, <2>2, ThrowLeaves, ThrowSeen, Zenon
<1>6. CASE /\ InChunk /\ pc' = "stopped"
           /\ UNCHANGED <<fixed, added, buffer, m_deleteByQuery, m_shouldNotifyAfterBulk, m_stopping,
                          indexer, locals>>
  <2>1. UNCHANGED <<m_bulkData, m_deleteByQuery, m_shouldNotifyAfterBulk, executed>>
    BY <1>6, Zenon DEF buffer, indexer
  <2>2. ~ InCall'
    BY <1>6, Zenon DEF InCall
  <2>3. executed \subseteq executed' /\ executed' \subseteq executed \cup m_deleteByQuery \cup Range(m_bulkData)
    BY <2>1, Zenon
  <2>. QED  BY <1>2, <2>1, <2>2, <2>3, ThrowSeen, Zenon
<1>. QED  BY <1>3, <1>4, <1>5, <1>6, ChunkStep, Zenon

\* Stuttering is not seen.
LEMMA SameSeen ==
  ASSUME UNCHANGED vars
  PROVE  UNCHANGED seen
BY Zenon DEF vars, buffer, indexer, locals, entry, seen, SeenData, SeenNotify, SeenIndexed, InCall

\* Every step is one of the connector, or is not seen.
LEMMA NextSeen ==
  IInv /\ [Next]_vars => [CallStep \/ "skipped" \in faults \/ m_stopping]_seen
<1>. SUFFICES ASSUME IInv, [Next]_vars, "skipped" \notin faults, ~ m_stopping
              PROVE  CallStep \/ UNCHANGED seen
  BY Zenon
<1>1. CASE BulkIndex \/ DeleteByQuery \/ Flush \/ BulkThread \/ Stop \/ Return
  BY <1>1, CallersSeen, Zenon
<1>2. CASE SendDelete \/ OnlyDeletes \/ ToBulk \/ BulkSent \/ BulkBusy \/ BulkRejected \/ BulkRefused413
  BY <1>2, ProcessBulkSeen, Zenon
<1>3. CASE SplitDone \/ ChunkSent \/ ChunkBusy \/ ChunkRefused413 \/ ChunkRejected \/ ChunkUndefined
  BY <1>3, ChunksSeen, Zenon
<1>4. CASE UNCHANGED vars
  BY <1>4, SameSeen, Zenon
<1>. QED  BY <1>1, <1>2, <1>3, <1>4, Zenon DEF Next, Answered

-----------------------------------------------------------------------------
\* The variables of the bulk connector have their types, and the boundaries
\* every processBulkChunk call was given are ones that m_boundaries has.
THEOREM BulkTypes == Spec => []TypeOK
<1>1. IInv => TypeOK
  BY Zenon DEF IInv
<1>. QED  BY <1>1, Invariance, PTL

\* Whatever the sizes of the operations and the indexer's limit, every chunk
\* that processBulkChunk sends is a run of whole operations, unless a
\* delete-by-query failed.
THEOREM ChunksWhole == Spec => []ChunksAreWhole
<1>1. IInv => ChunksAreWhole
  BY Zenon DEF IInv
<1>. QED  BY <1>1, Invariance, PTL

\* When processBulk returns, the whole buffer was executed and in order, for
\* any number of operations, any splitting and any number of repetitions.
THEOREM ReturnsComplete == Spec => []ReturnIsComplete
<1>1. IInv => ReturnIsComplete
  BY Zenon DEF IInv
<1>. QED  BY <1>1, Invariance, PTL

\* A call of processBulk implements the one step that IndexerConnectorSync
\* makes of it, ProcessBulk or ProcessBulkThrows.
THEOREM CallsAreAtomic == Spec => CallIsAtomic
BY Invariance, NextSeen, PTL DEF Spec, CallIsAtomic

=============================================================================
