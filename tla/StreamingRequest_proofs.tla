----------------------- MODULE StreamingRequest_proofs -----------------------
(***************************************************************************)
(* Proofs about StreamingRequest, for any number and sizes of blocks and   *)
(* any windows.                                                            *)
(***************************************************************************)
EXTENDS StreamingRequest, SequenceTheorems, FiniteSetTheorems, WellFoundedInduction, TLAPS

-----------------------------------------------------------------------------
(* Numbers.                                                                *)

\* A set of natural numbers that is not empty has a least element.
LEMMA LeastNat ==
    ASSUME NEW T \in SUBSET Nat, T # {}
    PROVE  \E m \in T : \A k \in T : m <= k
<1>1. \E x \in T : \A y \in T : ~ (<<y, x>> \in OpToRel(<, Nat))
  BY NatLessThanWellFounded, WFMin
<1>2. PICK x \in T : \A y \in T : ~ (<<y, x>> \in OpToRel(<, Nat))
  BY <1>1
<1>3. \A y \in T : ~ (y < x)
  BY <1>2 DEF OpToRel
<1> QED BY <1>3

\* A set of numbers up to n that is not empty has a largest element.
LEMMA LargestNat ==
    ASSUME NEW n \in Nat, NEW T \in SUBSET (0 .. n), T # {}
    PROVE  Max(T) \in T /\ \A k \in T : k <= Max(T)
<1> DEFINE U == {n - k : k \in T}
<1>1. U \in SUBSET Nat
  OBVIOUS
<1>a. U # {}
  OBVIOUS
<1>2. PICK m \in U : \A k \in U : m <= k
  BY <1>1, <1>a, LeastNat
<1>3. PICK x \in T : m = n - x
  OBVIOUS
<1>4. \A k \in T : x >= k
  <2> TAKE k \in T
  <2>1. m <= n - k
    BY <1>2
  <2> QED BY <1>3, <2>1
<1>5. Max(T) \in T /\ \A k \in T : Max(T) >= k
  BY <1>4 DEF Max
<1> QED BY <1>5

\* A set of numbers from 1 on with no gap is as long as it has elements.
LEMMA DownSet ==
    ASSUME NEW n \in Nat, NEW T \in SUBSET (1 .. n),
           \A i \in T : \A j \in 1 .. i : j \in T
    PROVE  Cardinality(T) \in 0 .. n /\ T = 1 .. Cardinality(T)
<1> DEFINE U == (1 .. n + 1) \ T
<1>1. U \in SUBSET Nat /\ n + 1 \in U
  OBVIOUS
<1>2. PICK m \in U : \A k \in U : m <= k
  BY <1>1, LeastNat
<1>3. m \in 1 .. n + 1 /\ m \notin T
  OBVIOUS
<1>4. ASSUME NEW i \in T PROVE i \in 1 .. m - 1
  <2>1. i \in 1 .. n
    OBVIOUS
  <2>2. ~ (m <= i)
    BY <1>3
  <2> QED BY <1>3, <2>1, <2>2
<1>5. ASSUME NEW i \in 1 .. m - 1 PROVE i \in T
  BY <1>2, <1>3
<1>6. T = 1 .. m - 1
  BY <1>4, <1>5
<1>7. Cardinality(1 .. m - 1) = m - 1
  BY <1>3, FS_Interval
<1> QED BY <1>3, <1>6, <1>7

-----------------------------------------------------------------------------
(* Bytes.                                                                  *)

\* Every entry of a stream has a size.
LEMMA SizeType == ASSUME NEW x \in Entries PROVE SizeOf(x) \in Nat /\ SizeOf(x) > 0
BY BlocksAssumption DEF SizeOf, Entries, Blocks, End

Units(q, n) == UNION {{i} \X (1 .. SizeOf(q[i])) : i \in 1 .. n}

\* Finitely many entries have finitely many bytes.
LEMMA UnitsFinite ==
    ASSUME NEW n \in Nat, NEW q, \A i \in 1 .. n : q[i] \in Entries
    PROVE  IsFiniteSet(Units(q, n))
<1> DEFINE F == [i \in 1 .. n |-> {i} \X (1 .. SizeOf(q[i]))]
           T == {{i} \X (1 .. SizeOf(q[i])) : i \in 1 .. n}
<1>1. F \in Surjection(1 .. n, T)
  BY DEF Surjection
<1>2. IsFiniteSet(1 .. n)
  BY FS_Interval
<1>3. IsFiniteSet(T)
  BY <1>1, <1>2, FS_Surjection
<1>4. \A x \in T : IsFiniteSet(x)
  <2> TAKE x \in T
  <2>1. PICK i \in 1 .. n : x = {i} \X (1 .. SizeOf(q[i]))
    OBVIOUS
  <2>2. IsFiniteSet({i})
    BY FS_Singleton
  <2>3. SizeOf(q[i]) \in Int
    BY SizeType
  <2>4. IsFiniteSet(1 .. SizeOf(q[i]))
    BY <2>3, FS_Interval
  <2> QED BY <2>1, <2>2, <2>4, FS_Product
<1>5. IsFiniteSet(UNION T)
  BY <1>3, <1>4, FS_UNION
<1> QED BY <1>5 DEF Units

\* Bytes are counted by natural numbers.
LEMMA BytesType ==
    ASSUME NEW n \in Nat, NEW q, \A i \in 1 .. n : q[i] \in Entries
    PROVE  Bytes(q, n) \in Nat
<1>1. IsFiniteSet(Units(q, n))
  BY UnitsFinite
<1> QED BY <1>1, FS_CardinalityType DEF Bytes, Units

\* No entries have no bytes.
LEMMA BytesNone == ASSUME NEW q PROVE Bytes(q, 0) = 0
<1>1. Units(q, 0) = {}
  BY DEF Units
<1> QED BY <1>1, FS_EmptySet DEF Bytes, Units

\* The bytes of one entry are its size.
LEMMA BytesOne == ASSUME NEW q, q[1] \in Entries PROVE Bytes(q, 1) = SizeOf(q[1])
<1> DEFINE n == SizeOf(q[1])
<1>1. n \in Nat
  BY SizeType
<1>2. Units(q, 1) = {1} \X (1 .. n)
  <2>1. 1 .. 1 = {1}
    OBVIOUS
  <2> QED BY <2>1 DEF Units
<1> HIDE DEF n
<1>3. IsFiniteSet({1}) /\ Cardinality({1}) = 1
  BY FS_Singleton
<1>4. IsFiniteSet(1 .. n) /\ Cardinality(1 .. n) = n
  BY <1>1, FS_Interval
<1>5. Cardinality({1} \X (1 .. n)) = 1 * n
  <2> DEFINE one == {1}
             I == 1 .. n
  <2>1. IsFiniteSet(one) /\ Cardinality(one) = 1 /\ IsFiniteSet(I) /\ Cardinality(I) = n
    BY <1>3, <1>4
  <2> HIDE DEF one, I
  <2>2. Cardinality(one \X I) = Cardinality(one) * Cardinality(I)
    BY <2>1, FS_Product
  <2> QED BY <2>1, <2>2 DEF one, I
<1>6. Bytes(q, 1) = n
  BY <1>1, <1>2, <1>5 DEF Bytes, Units
<1> QED BY <1>6 DEF n

\* Queues that begin with the same entries have the same bytes there.
LEMMA BytesSame ==
    ASSUME NEW n \in Nat, NEW q, NEW r, \A i \in 1 .. n : q[i] = r[i]
    PROVE  Bytes(q, n) = Bytes(r, n)
<1>1. {{i} \X (1 .. SizeOf(q[i])) : i \in 1 .. n} = {{i} \X (1 .. SizeOf(r[i])) : i \in 1 .. n}
  OBVIOUS
<1> QED BY <1>1 DEF Bytes

\* The bytes of a queue are those of its beginning and of the rest.
LEMMA BytesSplit ==
    ASSUME NEW m \in Nat, NEW n \in Nat, NEW q, NEW r,
           \A i \in 1 .. m + n : q[i] \in Entries,
           \A i \in 1 .. n : r[i] = q[m + i]
    PROVE  Bytes(q, m + n) = Bytes(q, m) + Bytes(r, n)
<1> DEFINE Z == UNION {{i} \X (1 .. SizeOf(q[i])) : i \in m + 1 .. m + n}
           F == [u \in Units(r, n) |-> <<m + u[1], u[2]>>]
<1>1. \A u : u \in Units(r, n) <=> \E i \in 1 .. n : \E j \in 1 .. SizeOf(r[i]) : u = <<i, j>>
  BY DEF Units
<1>2. \A u : u \in Z <=> \E i \in m + 1 .. m + n : \E j \in 1 .. SizeOf(q[i]) : u = <<i, j>>
  OBVIOUS
<1>3. F \in Bijection(Units(r, n), Z)
  <2>1. ASSUME NEW u \in Units(r, n) PROVE F[u] \in Z
    <3>1. PICK i \in 1 .. n : \E j \in 1 .. SizeOf(r[i]) : u = <<i, j>>
      BY <1>1
    <3>2. PICK j \in 1 .. SizeOf(r[i]) : u = <<i, j>>
      BY <3>1
    <3>3. F[u] = <<m + i, j>> /\ m + i \in m + 1 .. m + n /\ j \in 1 .. SizeOf(q[m + i])
      BY <3>2
    <3> HIDE DEF Z, F
    <3> QED BY <1>2, <3>3
  <2>2. ASSUME NEW u \in Units(r, n), NEW v \in Units(r, n), F[u] = F[v] PROVE u = v
    <3>1. PICK i \in 1 .. n : \E j \in 1 .. SizeOf(r[i]) : u = <<i, j>>
      BY <1>1
    <3>2. PICK j \in 1 .. SizeOf(r[i]) : u = <<i, j>>
      BY <3>1
    <3>3. PICK k \in 1 .. n : \E l \in 1 .. SizeOf(r[k]) : v = <<k, l>>
      BY <1>1
    <3>4. PICK l \in 1 .. SizeOf(r[k]) : v = <<k, l>>
      BY <3>3
    <3>5. <<m + i, j>> = <<m + k, l>>
      BY <2>2, <3>2, <3>4
    <3>6. m + i = m + k /\ j = l
      BY <3>5
    <3>7. i = k
      BY <3>6
    <3> QED BY <3>2, <3>4, <3>6, <3>7
  <2>3. ASSUME NEW z \in Z PROVE \E u \in Units(r, n) : F[u] = z
    <3>1. PICK i \in m + 1 .. m + n : \E j \in 1 .. SizeOf(q[i]) : z = <<i, j>>
      BY <1>2
    <3>2. PICK j \in 1 .. SizeOf(q[i]) : z = <<i, j>>
      BY <3>1
    <3>3. i - m \in 1 .. n /\ m + (i - m) = i
      OBVIOUS
    <3>4. r[i - m] = q[i]
      BY <3>3
    <3>5. <<i - m, j>> \in Units(r, n)
      BY <1>1, <3>3, <3>4
    <3>6. F[<<i - m, j>>] = <<i, j>>
      BY <3>3, <3>5
    <3> QED BY <3>2, <3>5, <3>6
  <2> HIDE DEF Z
  <2>4. F \in Injection(Units(r, n), Z)
    BY <2>1, <2>2 DEF Injection, IsInjective
  <2>5. F \in Surjection(Units(r, n), Z)
    BY <2>1, <2>3 DEF Surjection
  <2> QED BY <2>4, <2>5 DEF Bijection
<1>4. \A i \in 1 .. n : r[i] \in Entries
  <2> TAKE i \in 1 .. n
  <2>1. m + i \in 1 .. m + n
    OBVIOUS
  <2> QED BY <2>1
<1>5. IsFiniteSet(Units(r, n))
  BY <1>4, UnitsFinite
<1>6. ExistsBijection(Units(r, n), Z)
  BY <1>3 DEF ExistsBijection
<1>7. IsFiniteSet(Z) /\ Cardinality(Z) = Cardinality(Units(r, n))
  <2> HIDE DEF Z
  <2> QED BY <1>5, <1>6, FS_Bijection
<1>8. 1 .. m \subseteq 1 .. m + n /\ 1 .. m + n = (1 .. m) \cup (m + 1 .. m + n)
  OBVIOUS
<1>9. IsFiniteSet(Units(q, m))
  BY <1>8, UnitsFinite
<1>10. Units(q, m + n) = Units(q, m) \cup Z
  BY <1>8 DEF Units
<1>11. Units(q, m) \cap Z = {}
  <2>1. \A u : u \in Units(q, m) => \E i \in 1 .. m : \E j \in 1 .. SizeOf(q[i]) : u = <<i, j>>
    BY DEF Units
  <2>2. ASSUME NEW u \in Units(q, m), u \in Z PROVE FALSE
    <3>1. u[1] \in 1 .. m
      BY <2>1
    <3>2. u[1] \in m + 1 .. m + n
      BY <1>2, <2>2
    <3> QED BY <3>1, <3>2
  <2> QED BY <2>2
<1> HIDE DEF Z
<1>12. Cardinality(Units(q, m + n))
        = Cardinality(Units(q, m)) + Cardinality(Z) - Cardinality(Units(q, m) \cap Z)
  BY <1>7, <1>9, <1>10, FS_Union
<1>13. Cardinality(Units(q, m) \cap Z) = 0
  BY <1>11, FS_EmptySet
<1>14. Cardinality(Units(q, m)) \in Nat /\ Cardinality(Z) \in Nat
  BY <1>7, <1>9, FS_CardinalityType
<1>15. Cardinality(Units(q, m + n)) = Cardinality(Units(q, m)) + Cardinality(Units(r, n))
  BY <1>7, <1>12, <1>13, <1>14
<1> QED BY <1>15 DEF Bytes, Units

-----------------------------------------------------------------------------
(* The stream.  Its k-th entry is block k, or the end of the stream after  *)
(* the a blocks that were accepted; everything that is queued, sent, held  *)
(* or read is a run of consecutive entries.                                *)

Entry(a, k) == IF k <= a THEN k ELSE End

\* The n entries after the first d.
Run(a, d, n) == [i \in 1 .. n |-> Entry(a, d + i)]

\* The position after k entries.
Pos(a, k) == Bytes(Run(a, 0, k), k)

\* A run is a sequence of entries.
LEMMA RunType ==
    ASSUME NEW a \in 0 .. N, NEW d \in Nat, NEW n \in Nat
    PROVE  /\ Run(a, d, n) \in Seq(Entries) /\ Len(Run(a, d, n)) = n
           /\ \A i \in 1 .. n : Run(a, d, n)[i] = Entry(a, d + i) /\ Entry(a, d + i) \in Entries
<1>1. \A i \in 1 .. n : Entry(a, d + i) \in Entries
  BY BlocksAssumption DEF Entry, Entries, Blocks
<1> QED BY <1>1 DEF Run

\* A sequence with the right entries is a run.
LEMMA RunEqual ==
    ASSUME NEW a \in 0 .. N, NEW d \in Nat, NEW q, NEW S, q \in Seq(S),
           \A i \in 1 .. Len(q) : q[i] = Entry(a, d + i)
    PROVE  q = Run(a, d, Len(q))
<1>1. q = [i \in 1 .. Len(q) |-> q[i]]
  OBVIOUS
<1>2. [i \in 1 .. Len(q) |-> q[i]] = [i \in 1 .. Len(q) |-> Entry(a, d + i)]
  OBVIOUS
<1> QED BY <1>1, <1>2 DEF Run

\* Two runs that meet are one.
LEMMA RunConcat ==
    ASSUME NEW a \in 0 .. N, NEW d \in Nat, NEW m \in Nat, NEW n \in Nat
    PROVE  Run(a, d, m) \o Run(a, d + m, n) = Run(a, d, m + n)
<1> DEFINE p == Run(a, d, m)
           q == Run(a, d + m, n)
<1>a. d + m \in Nat
  OBVIOUS
<1>b. p \in Seq(Entries) /\ Len(p) = m /\ \A i \in 1 .. m : p[i] = Entry(a, d + i)
  BY RunType
<1>c. q \in Seq(Entries) /\ Len(q) = n /\ \A i \in 1 .. n : q[i] = Entry(a, (d + m) + i)
  BY <1>a, RunType
<1> HIDE DEF p, q
<1>1. /\ p \in Seq(Entries) /\ Len(p) = m /\ \A i \in 1 .. m : p[i] = Entry(a, d + i)
      /\ q \in Seq(Entries) /\ Len(q) = n /\ \A i \in 1 .. n : q[i] = Entry(a, (d + m) + i)
  BY <1>b, <1>c
<1> DEFINE z == p \o q
<1>2. /\ z \in Seq(Entries) /\ Len(z) = Len(p) + Len(q)
      /\ \A i \in 1 .. Len(p) + Len(q) : z[i] = IF i <= Len(p) THEN p[i] ELSE q[i - Len(p)]
  BY <1>b, <1>c, ConcatProperties
<1> HIDE DEF z
<1>3. Len(z) = m + n /\ \A i \in 1 .. m + n : z[i] = IF i <= m THEN p[i] ELSE q[i - m]
  BY <1>1, <1>2
<1>4. ASSUME NEW i \in 1 .. m + n PROVE z[i] = Entry(a, d + i)
  <2>1. CASE i <= m
    BY <1>1, <1>3, <2>1
  <2>2. CASE ~ (i <= m)
    <3>1. PICK k \in 1 .. n : i = m + k
      <4>1. i - m \in 1 .. n /\ i = m + (i - m)
        BY <2>2
      <4> QED BY <4>1
    <3>2. z[i] = q[k]
      BY <1>3, <2>2, <3>1
    <3>3. q[k] = Entry(a, (d + m) + k)
      BY <1>1
    <3> QED BY <3>1, <3>2, <3>3 DEF Entry
  <2> QED BY <2>1, <2>2
<1>5. z = Run(a, d, m + n)
  BY <1>2, <1>3, <1>4, RunEqual
<1> QED BY <1>5 DEF p, q, z

\* The head and the tail of a run.
LEMMA RunTail ==
    ASSUME NEW a \in 0 .. N, NEW d \in Nat, NEW n \in Nat, n > 0
    PROVE  Head(Run(a, d, n)) = Entry(a, d + 1) /\ Tail(Run(a, d, n)) = Run(a, d + 1, n - 1)
<1> DEFINE p == Run(a, d, n)
           q == Tail(p)
<1>1. p \in Seq(Entries) /\ Len(p) = n /\ \A i \in 1 .. n : p[i] = Entry(a, d + i)
  BY RunType
<1> HIDE DEF p
<1>2. Head(p) = Entry(a, d + 1) /\ q \in Seq(Entries) /\ Len(q) = n - 1
  BY <1>1
<1>3. ASSUME NEW i \in 1 .. n - 1 PROVE q[i] = Entry(a, (d + 1) + i)
  <2>1. i + 1 \in 1 .. n /\ d + (i + 1) = (d + 1) + i
    OBVIOUS
  <2>2. q[i] = p[i + 1]
    BY <1>1, <2>1
  <2> QED BY <1>1, <2>1, <2>2
<1> HIDE DEF q
<1>4. q = Run(a, d + 1, n - 1)
  <2>1. d + 1 \in Nat /\ \A i \in 1 .. Len(q) : q[i] = Entry(a, (d + 1) + i)
    BY <1>2, <1>3
  <2>2. q = Run(a, d + 1, Len(q))
    BY <1>2, <2>1, RunEqual
  <2> QED BY <1>2, <2>2
<1> QED BY <1>2, <1>4 DEF p, q

\* A part of a run.
LEMMA RunSubSeq ==
    ASSUME NEW a \in 0 .. N, NEW d \in Nat, NEW n \in Nat, NEW k \in 0 .. n
    PROVE  /\ SubSeq(Run(a, d, n), 1, k) = Run(a, d, k)
           /\ SubSeq(Run(a, d, n), k + 1, n) = Run(a, d + k, n - k)
<1> DEFINE p == Run(a, d, n)
           q == SubSeq(p, 1, k)
           r == SubSeq(p, k + 1, n)
<1>1. p \in Seq(Entries) /\ Len(p) = n /\ \A i \in 1 .. n : p[i] = Entry(a, d + i)
  BY RunType
<1> HIDE DEF p
<1>2. q \in Seq(Entries) /\ Len(q) = k /\ \A i \in 1 .. k : q[i] = p[i]
  BY <1>1
<1>3. r \in Seq(Entries) /\ Len(r) = n - k /\ \A i \in 1 .. n - k : r[i] = p[k + i]
  <2>1. \A i \in 1 .. n - k : k + i \in 1 .. n /\ k + 1 + i - 1 = k + i
    OBVIOUS
  <2> QED BY <1>1, <2>1
<1> HIDE DEF q, r
<1>4. q = Run(a, d, k)
  BY <1>1, <1>2, RunEqual
<1>5. ASSUME NEW i \in 1 .. n - k PROVE r[i] = Entry(a, (d + k) + i)
  <2>1. k + i \in 1 .. n /\ d + (k + i) = (d + k) + i
    OBVIOUS
  <2> QED BY <1>1, <1>3, <2>1
<1>6. r = Run(a, d + k, n - k)
  BY <1>3, <1>5, RunEqual
<1> QED BY <1>4, <1>6 DEF p, q, r

\* One more entry.
LEMMA RunAppend ==
    ASSUME NEW a \in 0 .. N, NEW d \in Nat, NEW n \in Nat
    PROVE  Append(Run(a, d, n), Entry(a, d + n + 1)) = Run(a, d, n + 1)
<1> DEFINE p == Run(a, d, n)
           x == Entry(a, d + n + 1)
           q == Append(p, x)
<1>1. p \in Seq(Entries) /\ Len(p) = n /\ \A i \in 1 .. n : p[i] = Entry(a, d + i)
  BY RunType
<1>2. x \in Entries
  BY BlocksAssumption DEF Entry, Entries, Blocks
<1> HIDE DEF p, x
<1>3. q \in Seq(Entries) /\ Len(q) = n + 1 /\ q[n + 1] = x /\ \A i \in 1 .. n : q[i] = p[i]
  BY <1>1, <1>2
<1> HIDE DEF q
<1>4. x = Entry(a, d + (n + 1))
  <2>1. d + (n + 1) = d + n + 1
    OBVIOUS
  <2> QED BY <2>1 DEF x
<1>5. ASSUME NEW i \in 1 .. n + 1 PROVE q[i] = Entry(a, d + i)
  BY <1>1, <1>3, <1>4
<1>6. q = Run(a, d, n + 1)
  BY <1>3, <1>5, RunEqual
<1> QED BY <1>6 DEF p, q, x

\* A run of blocks does not change when more blocks are accepted.
LEMMA RunGrows ==
    ASSUME NEW a \in 0 .. N, NEW b \in a .. N, NEW d \in Nat, NEW n \in Nat, d + n <= a
    PROVE  Run(a, d, n) = Run(b, d, n)
<1>1. \A i \in 1 .. n : Entry(a, d + i) = Entry(b, d + i)
  BY BlocksAssumption DEF Entry
<1> QED BY <1>1 DEF Run

\* The run from the beginning.
LEMMA RunFromStart ==
    ASSUME NEW a \in 0 .. N, NEW n \in Nat
    PROVE  \A i \in 1 .. n : Run(a, 0, n)[i] = Entry(a, i) /\ Run(a, 0, n)[i] \in Entries
<1>1. \A i \in 1 .. n : Run(a, 0, n)[i] = Entry(a, 0 + i) /\ Entry(a, 0 + i) \in Entries
  BY RunType
<1>2. \A i \in 1 .. n : 0 + i = i
  OBVIOUS
<1> QED BY <1>1, <1>2

\* The bytes of a run are the difference of two positions.
LEMMA RunBytes ==
    ASSUME NEW a \in 0 .. N, NEW d \in Nat, NEW n \in Nat, NEW k \in 0 .. n
    PROVE  /\ Pos(a, d) \in Nat /\ Pos(a, d + k) \in Nat /\ Bytes(Run(a, d, n), k) \in Nat
           /\ Pos(a, d + k) = Pos(a, d) + Bytes(Run(a, d, n), k)
<1> DEFINE p == Run(a, 0, d)
           q == Run(a, d, n)
           z == Run(a, 0, d + k)
<1>1. \A i \in 1 .. d : p[i] = Entry(a, i) /\ p[i] \in Entries
  BY RunFromStart
<1>2. \A i \in 1 .. k : q[i] = Entry(a, d + i) /\ q[i] \in Entries
  <2>1. \A i \in 1 .. n : q[i] = Entry(a, d + i) /\ Entry(a, d + i) \in Entries
    BY RunType
  <2> HIDE DEF q
  <2> QED BY <2>1
<1>3. \A i \in 1 .. d + k : z[i] = Entry(a, i) /\ z[i] \in Entries
  <2>1. d + k \in Nat
    OBVIOUS
  <2> QED BY <2>1, RunFromStart
<1> HIDE DEF p, q, z
<1>4. Bytes(p, d) \in Nat /\ Bytes(q, k) \in Nat /\ Bytes(z, d + k) \in Nat
  BY <1>1, <1>2, <1>3, BytesType
<1>5. \A i \in 1 .. d : z[i] = p[i]
  BY <1>1, <1>3
<1>6. Bytes(z, d) = Bytes(p, d)
  BY <1>5, BytesSame
<1>7. \A i \in 1 .. k : q[i] = z[d + i]
  <2> TAKE i \in 1 .. k
  <2>1. d + i \in 1 .. d + k
    OBVIOUS
  <2> QED BY <1>2, <1>3, <2>1
<1>8. Bytes(z, d + k) = Bytes(z, d) + Bytes(q, k)
  BY <1>3, <1>7, BytesSplit
<1> QED BY <1>4, <1>6, <1>8 DEF p, q, z, Pos

\* The stream begins at position 0, every entry adds its size, and positions
\* are ordered like the entries.
LEMMA PosZero == ASSUME NEW a PROVE Pos(a, 0) = 0
BY BytesNone DEF Pos

\* See PosZero.
LEMMA PosNext ==
    ASSUME NEW a \in 0 .. N, NEW k \in Nat
    PROVE  /\ Pos(a, k) \in Nat /\ SizeOf(Entry(a, k + 1)) \in Nat /\ SizeOf(Entry(a, k + 1)) > 0
           /\ Pos(a, k + 1) = Pos(a, k) + SizeOf(Entry(a, k + 1))
<1> DEFINE q == Run(a, k, 1)
<1>a. Pos(a, k) \in Nat /\ Pos(a, k + 1) = Pos(a, k) + Bytes(q, 1)
  <2>1. 1 \in Nat /\ 1 \in 0 .. 1
    OBVIOUS
  <2> QED BY <2>1, RunBytes
<1>b. q[1] = Entry(a, k + 1) /\ q[1] \in Entries
  <2>1. \A i \in 1 .. 1 : q[i] = Entry(a, k + i) /\ Entry(a, k + i) \in Entries
    BY RunType
  <2> HIDE DEF q
  <2> QED BY <2>1
<1>1. /\ Pos(a, k) \in Nat /\ Pos(a, k + 1) = Pos(a, k) + Bytes(q, 1)
      /\ q[1] = Entry(a, k + 1) /\ q[1] \in Entries
  BY <1>a, <1>b
<1> HIDE DEF q
<1>2. Bytes(q, 1) = SizeOf(q[1])
  BY <1>1, BytesOne
<1> QED BY <1>1, <1>2, SizeType

\* See PosZero.
LEMMA PosLess ==
    ASSUME NEW a \in 0 .. N, NEW i \in Nat, NEW j \in Nat, i < j
    PROVE  Pos(a, i) \in Nat /\ Pos(a, j) \in Nat /\ Pos(a, i) < Pos(a, j)
<1> DEFINE n == j - (i + 1)
<1>1. n \in Nat /\ (i + 1) + n = j /\ i + 1 \in Nat /\ n \in 0 .. n
  OBVIOUS
<1> HIDE DEF n
<1>2. /\ Pos(a, i + 1) \in Nat /\ Bytes(Run(a, i + 1, n), n) \in Nat
      /\ Pos(a, (i + 1) + n) = Pos(a, i + 1) + Bytes(Run(a, i + 1, n), n)
  BY <1>1, RunBytes
<1>3. Pos(a, i) \in Nat /\ Pos(a, i + 1) > Pos(a, i)
  BY <1>2, PosNext
<1>4. Pos(a, j) = Pos(a, i + 1) + Bytes(Run(a, i + 1, n), n)
  BY <1>1, <1>2
<1> QED BY <1>2, <1>3, <1>4

\* See PosZero.
LEMMA PosOrder ==
    ASSUME NEW a \in 0 .. N, NEW i \in Nat, NEW j \in Nat
    PROVE  Pos(a, i) \in Nat /\ Pos(a, j) \in Nat /\ (Pos(a, i) <= Pos(a, j) <=> i <= j)
<1>1. CASE i < j
  BY <1>1, PosLess
<1>2. CASE j < i
  BY <1>2, PosLess
<1>3. CASE i = j
  BY <1>3, PosNext
<1> QED BY <1>1, <1>2, <1>3

\* Positions up to the last block stay when more blocks are accepted.
LEMMA PosGrows ==
    ASSUME NEW a \in 0 .. N, NEW b \in a .. N, NEW k \in 0 .. a
    PROVE  Pos(a, k) = Pos(b, k)
BY RunGrows, BlocksAssumption DEF Pos

\* Distances that follow each other add up.
LEMMA Differences ==
    ASSUME NEW u \in Nat, NEW v \in Nat, NEW w \in Nat, v <= w
    PROVE  w - v \in Nat /\ (v - u) + (w - v) = w - u
OBVIOUS

\* Runs that follow each other are one run when they are put together.
LEMMA RunFlatten ==
    ASSUME NEW a \in 0 .. N, NEW n \in Nat, NEW c \in [0 .. n -> Nat],
           \A i, j \in 0 .. n : i <= j => c[i] <= c[j],
           NEW ss, ss = [i \in 1 .. n |-> Run(a, c[i - 1], c[i] - c[i - 1])]
    PROVE  FlattenSeq(ss) = Run(a, c[0], c[n] - c[0])
<1>1. Len(ss) = n
  OBVIOUS
<1>2. CASE n = 0
  <2>1. FlattenSeq(ss) = ss
    BY <1>1, <1>2 DEF FlattenSeq
  <2>2. c[n] - c[0] = 0
    BY <1>2
  <2>3. 1 .. n = {} /\ 1 .. 0 = {}
    BY <1>2
  <2>4. ss = [i \in {} |-> 0]
    BY <2>3
  <2>5. Run(a, c[0], 0) = [i \in {} |-> 0]
    BY <2>3 DEF Run
  <2> QED BY <2>1, <2>2, <2>4, <2>5
<1>3. CASE n # 0
  <2> DEFINE F(f) == [i \in 1 .. n |-> IF i = 1 THEN ss[i] ELSE f[i - 1] \o ss[i]]
             h == CHOOSE f : f = F(f)
             g == [i \in 1 .. n |-> Run(a, c[0], c[i] - c[0])]
  <2>1. FlattenSeq(ss) = h[n]
    BY <1>1, <1>3 DEF FlattenSeq
  <2>2. \A i \in 1 .. n : i - 1 \in 0 .. n /\ i \in 0 .. n /\ i - 1 <= i
    OBVIOUS
  <2>3. ASSUME NEW i \in 1 .. n
        PROVE  c[0] \in Nat /\ c[i - 1] \in Nat /\ c[i] \in Nat /\ c[0] <= c[i - 1] /\ c[i - 1] <= c[i]
    BY <2>2
  <2>4. ASSUME NEW i \in 1 .. n, i # 1
        PROVE  g[i] = g[i - 1] \o ss[i]
    <3>1. PICK x \in Nat : x = c[i - 1] - c[0] /\ c[0] + x = c[i - 1]
      <4>1. c[i - 1] - c[0] \in Nat /\ c[0] + (c[i - 1] - c[0]) = c[i - 1]
        BY <2>3
      <4> QED BY <4>1
    <3>2. PICK y \in Nat : y = c[i] - c[i - 1] /\ x + y = c[i] - c[0]
      <4>1. PICK u \in Nat, v \in Nat, w \in Nat : u = c[0] /\ v = c[i - 1] /\ w = c[i] /\ v <= w
        BY <2>3
      <4>2. x = v - u
        BY <3>1, <4>1
      <4>3. w - v \in Nat /\ (v - u) + (w - v) = w - u
        BY <4>1, Differences
      <4> QED BY <4>1, <4>2, <4>3
    <3>3. i - 1 \in 1 .. n
      BY <2>4
    <3>4. g[i - 1] = Run(a, c[0], x) /\ g[i] = Run(a, c[0], x + y) /\ ss[i] = Run(a, c[0] + x, y)
      BY <3>1, <3>2, <3>3
    <3>5. c[0] \in Nat
      BY <2>3
    <3>6. Run(a, c[0], x) \o Run(a, c[0] + x, y) = Run(a, c[0], x + y)
      BY <3>5, RunConcat
    <3> QED BY <3>4, <3>6
  <2>5. g[1] = ss[1]
    <3>1. 1 \in 1 .. n /\ 1 - 1 = 0
      BY <1>3
    <3> QED BY <3>1
  <2>6. g = F(g)
    <3>1. ASSUME NEW i \in 1 .. n PROVE g[i] = F(g)[i]
      <4>1. CASE i = 1
        BY <2>5, <4>1
      <4>2. CASE i # 1
        BY <2>4, <4>2
      <4> QED BY <4>1, <4>2
    <3>2. g = [i \in 1 .. n |-> g[i]] /\ F(g) = [i \in 1 .. n |-> F(g)[i]]
      OBVIOUS
    <3> HIDE DEF g, F
    <3> QED BY <3>1, <3>2
  <2>7. h = F(h)
    <3> HIDE DEF g, F
    <3> QED BY <2>6
  <2> HIDE DEF h
  <2>8. \A i \in 1 .. n : h[i] = IF i = 1 THEN ss[i] ELSE h[i - 1] \o ss[i]
    BY <2>7
  <2> HIDE DEF g
  <2> DEFINE T == {i \in 1 .. n : h[i] # g[i]}
  <2>9. ASSUME T # {} PROVE FALSE
    <3>1. T \in SUBSET Nat
      OBVIOUS
    <3>2. PICK m \in T : \A k \in T : m <= k
      BY <2>9, <3>1, LeastNat
    <3>3. m \in 1 .. n /\ h[m] # g[m]
      OBVIOUS
    <3>4. m # 1
      BY <2>5, <2>8, <3>3
    <3>5. m - 1 \in 1 .. n /\ ~ (m <= m - 1)
      BY <3>3, <3>4
    <3>6. h[m - 1] = g[m - 1]
      BY <3>2, <3>5
    <3>7. h[m] = h[m - 1] \o ss[m]
      BY <2>8, <3>3, <3>4
    <3>8. g[m] = g[m - 1] \o ss[m]
      BY <2>4, <3>3, <3>4
    <3>9. h[m] = g[m]
      BY <3>6, <3>7, <3>8
    <3> QED BY <3>3, <3>9
  <2>10. n \in 1 .. n
    BY <1>3
  <2>11. h[n] = g[n]
    BY <2>9, <2>10
  <2> QED BY <2>1, <2>10, <2>11 DEF g
<1> QED BY <1>2, <1>3

-----------------------------------------------------------------------------
(* Windows.                                                                *)

IsWindow(w) == w.next \in Nat /\ IsFiniteSet(w.held) /\ \A p \in w.held : p.seq \in Nat

\* What AddPacket makes of a window, with H the packets it held and the new
\* one, and n the next packet to come.
AddsTo(w, s, x, H, n) ==
    /\ n >= w.next
    /\ AddPacket(w, s, x) = [next |-> n, held |-> {p \in H : p.seq >= n}]
    /\ IsFiniteSet({p \in H : p.seq >= n})
    /\ Released(w, s, x) = [i \in 1 .. n - w.next |-> Released(w, s, x)[i]]
    /\ \A i \in 1 .. n - w.next :
         \E p \in H : p.seq = w.next + i - 1 /\ Released(w, s, x)[i] = p.data

\* AddPacket finds the first number that is missing, releases the packets
\* before it in their order, and keeps the others.
LEMMA WindowAdds ==
    ASSUME NEW w, IsWindow(w), NEW s \in Nat, NEW x, NEW H, H = w.held \cup {Packet(s, x)}
    PROVE  \E n \in Nat : AddsTo(w, s, x, H, n)
<1> USE DEF IsWindow
<1> DEFINE C == Cardinality(H)
           I == w.next .. w.next + C
           f == [p \in H |-> p.seq]
           T == {n \in I : \A p \in H : p.seq # n}
<1>1. IsFiniteSet(H) /\ C \in Nat
  BY FS_AddElement, FS_CardinalityType
<1>2. \A p \in H : p.seq \in Nat
  BY DEF Packet
<1>3. T # {}
  <2>1. SUFFICES ASSUME T = {} PROVE FALSE
    OBVIOUS
  <2> DEFINE J == {p.seq : p \in H}
  <2>2. f \in Surjection(H, J)
    BY DEF Surjection
  <2>3. IsFiniteSet(J) /\ Cardinality(J) <= C
    BY <1>1, <2>2, FS_Surjection
  <2>4. I \subseteq J
    BY <2>1
  <2>5. IsFiniteSet(I) /\ Cardinality(I) = C + 1
    <3>1. w.next \in Int /\ w.next + C \in Int /\ ~ (w.next > w.next + C) /\ (w.next + C) - w.next + 1 = C + 1
      BY <1>1
    <3> HIDE DEF C
    <3> QED BY <3>1, FS_Interval
  <2> HIDE DEF I, J, C
  <2>6. Cardinality(I) <= Cardinality(J)
    BY <2>3, <2>4, FS_Subset
  <2>7. Cardinality(J) \in Nat
    BY <2>3, FS_CardinalityType
  <2> QED BY <1>1, <2>3, <2>5, <2>6, <2>7
<1>4. T \in SUBSET Nat
  BY <1>1
<1>5. PICK n \in T : \A k \in T : n <= k
  BY <1>3, <1>4, LeastNat
<1>6. n \in I /\ n \in Nat /\ n >= w.next /\ \A p \in H : p.seq # n
  BY <1>1, <1>4
<1>7. ASSUME NEW m \in w.next .. n - 1 PROVE \E p \in H : p.seq = m
  <2>1. m \in I /\ ~ (n <= m)
    BY <1>1, <1>6
  <2>2. m \notin T
    BY <1>5, <2>1
  <2> QED BY <2>1, <2>2
<1>8. Missing(w, H) = n
  <2> DEFINE P(k) == /\ \A p \in H : p.seq # k
                     /\ \A m \in w.next .. k - 1 : \E p \in H : p.seq = m
  <2>1. n \in I /\ P(n)
    BY <1>6, <1>7
  <2>2. ASSUME NEW k \in I, P(k) PROVE k = n
    <3>1. k \in Nat /\ k >= w.next
      BY <1>1
    <3>2. ~ (k < n)
      <4>1. k < n => k \in w.next .. n - 1
        BY <1>6, <3>1
      <4> QED BY <1>7, <2>2, <4>1
    <3>3. ~ (n < k)
      <4>1. n < k => n \in w.next .. k - 1
        BY <1>6, <3>1
      <4> QED BY <1>6, <2>2, <4>1
    <3> QED BY <1>6, <3>1, <3>2, <3>3
  <2>3. Missing(w, H) = CHOOSE k \in I : P(k)
    BY DEF Missing
  <2> HIDE DEF I, P
  <2> QED BY <2>1, <2>2, <2>3
<1>9. Released(w, s, x) = [i \in 1 .. n - w.next |-> (CHOOSE p \in H : p.seq = w.next + i - 1).data]
  BY <1>8 DEF Released
<1>10. AddPacket(w, s, x) = [next |-> n, held |-> {p \in H : p.seq >= n}]
  BY <1>8 DEF AddPacket
<1>11. IsFiniteSet({p \in H : p.seq >= n})
  <2>1. {p \in H : p.seq >= n} \in SUBSET H
    OBVIOUS
  <2> QED BY <1>1, <2>1, FS_Subset
<1>12. ASSUME NEW i \in 1 .. n - w.next
       PROVE  \E p \in H : p.seq = w.next + i - 1 /\ Released(w, s, x)[i] = p.data
  <2> DEFINE p == CHOOSE p \in H : p.seq = w.next + i - 1
  <2>1. w.next + i - 1 \in w.next .. n - 1
    BY <1>6
  <2>2. p \in H /\ p.seq = w.next + i - 1
    BY <1>7, <2>1
  <2>3. Released(w, s, x)[i] = p.data
    BY <1>9
  <2> HIDE DEF p
  <2> QED BY <2>2, <2>3
<1>13. Released(w, s, x) = [i \in 1 .. n - w.next |-> Released(w, s, x)[i]]
  BY <1>9
<1>14. AddsTo(w, s, x, H, n)
  BY <1>6, <1>10, <1>11, <1>12, <1>13 DEF AddsTo
<1> QED BY <1>6, <1>14

-----------------------------------------------------------------------------
(* The inductive invariant.                                                *)

\* How many entries the stream has, how many of them were sent.
Total == Len(accepted) + (IF closeCalled = "yes" THEN 1 ELSE 0)
Sent == Total - Len(dataQueue)

\* Accepted are the blocks in order; those that wait for compression, or
\* for an earlier block, come after them.
InOrder ==
    /\ accepted = Run(Len(accepted), 0, Len(accepted))
    /\ Len(accepted) <= outWindow.next \/ codec = "none"
    /\ Len(accepted) <= written
    /\ closeCalled = "no" /\ outError = "no" =>
           Len(accepted) = IF codec = "none" THEN written ELSE outWindow.next
    /\ outWindow.next <= written
    /\ IsFiniteSet(outWindow.held)
    /\ compressing \subseteq outWindow.next + 1 .. written
    /\ \A p \in outWindow.held :
           p.seq = p.data - 1 /\ p.data \in (outWindow.next + 1 .. written) \ compressing
    /\ codec = "none" => compressing = {} /\ outWindow.held = {}

\* The queue holds the end of the stream, and positions count its bytes.
QueueIsRest ==
    /\ Len(dataQueue) <= Total
    /\ dataQueue = Run(Len(accepted), Sent, Len(dataQueue))
    /\ writePosition = Pos(Len(accepted), Total)
    /\ sentPosition = Pos(Len(accepted), Sent)

\* Confirmations are waited for by the last entries of the stream.
ConfirmationsMatch ==
    LET first == Total - Len(confirmationQueue)
    IN  /\ first >= 0
        /\ \A j \in 1 .. Len(confirmationQueue) :
             /\ confirmationQueue[j].position = Pos(Len(accepted), first + j)
             /\ confirmationQueue[j].promise # NoPromise =>
                  confirmationQueue[j].promise = first + j /\ first + j <= Len(accepted)

\* Blocks that wait for compression, or for an earlier block.
Waiting == compressing \cup {p.data : p \in outWindow.held}

\* A write whose promise somebody is about to set is pending, and nobody else
\* is about to set it.
PromisesOwned ==
    /\ \A b \in Blocks : future[b] = "none" <=> b > written
    /\ future[End] = "none" <=> closeCalled = "no"
    /\ \A b \in Waiting \cup (confirming \cap Blocks) : future[b] = "pending"
    /\ \A j \in 1 .. Len(confirmationQueue) :
         confirmationQueue[j].promise # NoPromise =>
           /\ future[confirmationQueue[j].promise] = "pending"
           /\ confirmationQueue[j].promise \notin confirming
    /\ \A f \in Entries : future[f] # "twice"

\* The client knows of no more than was read, and confirms what that allows.
ConfirmedWhenRead ==
    /\ ackedPosition <= readPosition
    /\ \A position \in feedbacks : position <= readPosition
    /\ \A b \in Blocks :
         b \in confirming \/ future[b] = "ok" =>
           b <= Len(accepted) /\ Pos(Len(accepted), b) <= readPosition + WindowSize
    /\ End \in confirming \/ outClosed = "yes" \/ future[End] = "ok" => inClosed = "yes"

\* cut[s] is how many entries the first s payloads have.  A payload with
\* number s has those after them, and those before the next payload to come
\* have arrived.
CutsAt(cut) ==
    /\ cut[0] = 0 /\ cut[payloadNumber] = Sent
    /\ \A s, t \in 0 .. payloadNumber : s <= t => cut[s] <= cut[t]
Holds(cut, s, blocks) ==
    /\ s < payloadNumber
    /\ blocks = Run(Len(accepted), cut[s], cut[s + 1] - cut[s])
PayloadsAreCuts ==
    \E cut \in [0 .. payloadNumber -> 0 .. Sent] :
        /\ CutsAt(cut)
        /\ \A p \in payloads \cup pendingPayloads : Holds(cut, p.seq, p.blocks)
        /\ \A p \in inWindow.held : Holds(cut, p.seq, p.data)
        /\ inWindow.next <= payloadNumber
        /\ cut[inWindow.next] = Len(got) + Len(queue)

\* What was read, and what is to be read next, is the beginning of the stream.
ReadIsPrefix ==
    /\ IsFiniteSet(inWindow.held)
    /\ Len(got) + Len(queue) <= Sent
    /\ got = Run(Len(accepted), 0, Len(got))
    /\ queue = Run(Len(accepted), Len(got), Len(queue))
    /\ readPosition = Pos(Len(accepted), Len(got))
    /\ inClosed = "yes" <=> Len(got) > Len(accepted)

\* A Read that waits has not been answered.
ReadWaits ==
    /\ promise = "armed" /\ inError = "no" => readFuture = "pending"
    /\ readFuture # "twice"

\* What is sent and not read fits into the window, or is a single entry.
UnreadFits == sentPosition - readPosition <= WindowSize \/ Sent - Len(got) <= 1

IInv ==
    /\ TypeOK
    /\ InOrder
    /\ QueueIsRest
    /\ ConfirmationsMatch
    /\ PromisesOwned
    /\ ConfirmedWhenRead
    /\ PayloadsAreCuts
    /\ ReadIsPrefix
    /\ ReadWaits
    /\ UnreadFits
    /\ PullNotForgotten

-----------------------------------------------------------------------------
(* What the invariant says of the sizes of things.                         *)

\* The end is not a block, and one byte.
LEMMA EndFacts ==
    /\ N \in Nat /\ End = N + 1 /\ End \notin Blocks /\ Entries = 1 .. N + 1 /\ Blocks = 1 .. N
    /\ SizeOf(End) = 1 /\ End \in Entries /\ NoPromise = 0 /\ WindowSize \in Nat
<1>1. N \in Nat /\ WindowSize \in Nat
  BY BlocksAssumption, WindowSizeAssumption
<1>2. SizeOf(End) = 1
  BY DEF SizeOf
<1> QED BY <1>1, <1>2 DEF End, Blocks, Entries, NoPromise

\* Lengths.
LEMMA Lengths ==
    ASSUME IInv
    PROVE  /\ Len(accepted) \in 0 .. N /\ Len(dataQueue) \in Nat /\ Len(confirmationQueue) \in Nat
           /\ Total \in Nat /\ Sent \in Nat /\ Sent + Len(dataQueue) = Total /\ Sent <= Total
           /\ closeCalled = "yes" => Total = Len(accepted) + 1
           /\ closeCalled = "no" => Total = Len(accepted)
           /\ closeCalled \in {"yes", "no"} /\ outError \in {"yes", "no"}
           /\ Len(got) \in Nat /\ Len(queue) \in Nat /\ Len(got) + Len(queue) <= Sent
           /\ Total - Len(confirmationQueue) \in Nat
<1>1. /\ Len(accepted) \in Nat /\ Len(dataQueue) \in Nat /\ Len(confirmationQueue) \in Nat
      /\ Len(got) \in Nat /\ Len(queue) \in Nat /\ written \in 0 .. N
      /\ closeCalled \in {"yes", "no"} /\ outError \in {"yes", "no"}
  BY DEF IInv, TypeOK, YesNo
<1>2. Len(accepted) <= written /\ Len(dataQueue) <= Total /\ Len(got) + Len(queue) <= Sent
  BY DEF IInv, InOrder, QueueIsRest, ReadIsPrefix
<1>3. Total - Len(confirmationQueue) >= 0
  BY DEF IInv, ConfirmationsMatch
<1>4. Len(accepted) \in 0 .. N
  BY <1>1, <1>2, EndFacts
<1>5. closeCalled = "yes" => Total = Len(accepted) + 1
  BY DEF Total
<1>6. closeCalled = "no" => Total = Len(accepted)
  BY <1>1 DEF Total
<1>7. Total \in Nat
  BY <1>1, <1>5, <1>6
<1>8. Sent \in Nat /\ Sent + Len(dataQueue) = Total /\ Sent <= Total
  BY <1>1, <1>2, <1>7 DEF Sent
<1>9. Total - Len(confirmationQueue) \in Nat
  BY <1>1, <1>3, <1>7
<1> QED BY <1>1, <1>2, <1>4, <1>5, <1>6, <1>7, <1>8, <1>9

\* Positions.
LEMMA PositionsOrdered ==
    ASSUME IInv
    PROVE  /\ ackedPosition \in Nat /\ readPosition \in Nat /\ sentPosition \in Nat /\ writePosition \in Nat
           /\ ackedPosition <= readPosition /\ readPosition <= sentPosition /\ sentPosition <= writePosition
           /\ readPosition = sentPosition => Len(got) = Sent
           /\ readPosition = writePosition => Len(got) = Total
<1>1. /\ ackedPosition \in Nat /\ readPosition \in Nat /\ sentPosition \in Nat /\ writePosition \in Nat
  BY DEF IInv, TypeOK
<1>2. /\ ackedPosition <= readPosition /\ readPosition = Pos(Len(accepted), Len(got))
      /\ sentPosition = Pos(Len(accepted), Sent) /\ writePosition = Pos(Len(accepted), Total)
  BY DEF IInv, QueueIsRest, ReadIsPrefix, ConfirmedWhenRead
<1>3. /\ Len(accepted) \in 0 .. N /\ Len(got) \in Nat /\ Sent \in Nat /\ Total \in Nat
      /\ Len(got) <= Sent /\ Sent <= Total
  BY Lengths
<1>4. readPosition <= sentPosition /\ sentPosition <= writePosition
  BY <1>2, <1>3, PosOrder
<1>5. sentPosition <= readPosition => Sent <= Len(got)
  BY <1>2, <1>3, PosOrder
<1>6. writePosition <= readPosition => Total <= Len(got)
  BY <1>2, <1>3, PosOrder
<1> QED BY <1>1, <1>2, <1>3, <1>4, <1>5, <1>6

-----------------------------------------------------------------------------
(* Steps that neither queue, send, move nor read entries.                  *)

\* Messages may get lost or move on, a read position may be sent, and the
\* input stream may be aborted.
Minor ==
    /\ UNCHANGED <<outVars, inWindow, queue, got, readPosition, inClosed, promise>>
    /\ payloads' \cup pendingPayloads' \subseteq payloads \cup pendingPayloads
    /\ feedbacks' \subseteq feedbacks \cup {readPosition}
    /\ \/ UNCHANGED <<inError, readFuture>>
       \/ /\ inError = "no" /\ inError' = "yes"
          /\ readFuture' = IF promise = "armed" THEN SetRead("error") ELSE readFuture

\* Such a step preserves the invariant.
LEMMA MinorStep == ASSUME IInv, TypeOK', Minor PROVE IInv'
<1> USE DEF IInv
<1>1. /\ UNCHANGED <<codec, written, compressing, outWindow, dataQueue, confirmationQueue, writePosition, accepted>>
      /\ UNCHANGED <<closeCalled, outError, outClosed, sentPosition, ackedPosition, payloadNumber, pulls, future>>
      /\ UNCHANGED <<confirming, inWindow, queue, got, readPosition, inClosed, promise>>
  BY DEF Minor, outVars, queueVars
<1>2. Total' = Total /\ Sent' = Sent
  BY <1>1 DEF Total, Sent
<1>3. InOrder'
  BY <1>1 DEF InOrder
<1>4. QueueIsRest'
  BY <1>1, <1>2 DEF QueueIsRest
<1>5. ConfirmationsMatch'
  BY <1>1, <1>2 DEF ConfirmationsMatch
<1>6. PromisesOwned'
  BY <1>1 DEF PromisesOwned, Waiting
<1>7. ConfirmedWhenRead'
  BY <1>1, PositionsOrdered DEF ConfirmedWhenRead, Minor
<1>8. PayloadsAreCuts'
  BY <1>1, <1>2 DEF PayloadsAreCuts, CutsAt, Holds, Minor
<1>9. ReadIsPrefix'
  BY <1>1, <1>2 DEF ReadIsPrefix
<1>10. ReadWaits'
  BY <1>1 DEF ReadWaits, Minor, SetRead
<1>11. UnreadFits'
  BY <1>1, <1>2 DEF UnreadFits
<1>12. PullNotForgotten'
  BY <1>1 DEF PullNotForgotten, CanPullMore
<1> QED BY <1>3, <1>4, <1>5, <1>6, <1>7, <1>8, <1>9, <1>10, <1>11, <1>12

-----------------------------------------------------------------------------
(* The output stream.                                                      *)

\* What was sent is not affected by what is queued after it.
LEMMA StreamGrows ==
    ASSUME IInv, NEW b \in Len(accepted) .. N, Len(accepted') = b,
           closeCalled = "no" \/ b = Len(accepted),
           Sent' = Sent,
           UNCHANGED <<payloads, pendingPayloads, payloadNumber, sentPosition, inVars>>
    PROVE  /\ PayloadsAreCuts' /\ ReadIsPrefix' /\ UnreadFits' /\ ReadWaits'
           /\ sentPosition' = Pos(b, Sent)
           /\ \A k \in 0 .. Total : Pos(Len(accepted), k) = Pos(b, k)
           /\ \A d, n \in Nat : d + n <= Total => Run(Len(accepted), d, n) = Run(b, d, n)
<1> USE DEF IInv
<1>1. PICK a \in 0 .. N : a = Len(accepted)
  BY Lengths
<1>2. b \in a .. N /\ b \in 0 .. N /\ (Total <= a \/ b = a)
  BY <1>1, Lengths, EndFacts
<1>3. ASSUME NEW k \in 0 .. Total PROVE Pos(a, k) = Pos(b, k)
  <2>1. CASE b = a
    BY <2>1
  <2>2. CASE Total <= a
    <3>1. k \in 0 .. a
      BY <2>2, Lengths
    <3> QED BY <1>2, <3>1, PosGrows
  <2> QED BY <1>2, <2>1, <2>2
<1>4. ASSUME NEW d \in Nat, NEW n \in Nat, d + n <= Total PROVE Run(a, d, n) = Run(b, d, n)
  <2>1. CASE b = a
    BY <2>1
  <2>2. CASE Total <= a
    <3>1. d + n <= a
      BY <1>4, <2>2, Lengths
    <3> QED BY <1>2, <3>1, RunGrows
  <2> QED BY <1>2, <2>1, <2>2
<1>5. UNCHANGED <<inWindow, queue, promise, inError, inClosed, readPosition, readFuture, got>>
  BY DEF inVars
<1>6. sentPosition' = Pos(b, Sent)
  BY <1>1, <1>3, Lengths DEF QueueIsRest
<1>7. ReadIsPrefix'
  <2>1. Len(got) \in Nat /\ Len(queue) \in Nat /\ Len(got) + Len(queue) <= Total /\ 0 + Len(got) <= Total
    BY Lengths
  <2>2. got = Run(b, 0, Len(got)) /\ queue = Run(b, Len(got), Len(queue))
    BY <1>1, <1>4, <2>1 DEF ReadIsPrefix
  <2>3. readPosition = Pos(b, Len(got))
    BY <1>1, <1>3, <2>1 DEF ReadIsPrefix
  <2>4. inClosed = "yes" <=> Len(got) > b
    <3>1. inClosed = "yes" <=> Len(got) > a
      BY <1>1 DEF ReadIsPrefix
    <3>2. Total <= a => ~ (Len(got) > a) /\ ~ (Len(got) > b)
      BY <1>2, <2>1, Lengths
    <3> QED BY <1>2, <3>1, <3>2
  <2>5. IsFiniteSet(inWindow.held) /\ Len(got) + Len(queue) <= Sent
    BY DEF ReadIsPrefix
  <2> QED BY <1>5, <2>2, <2>3, <2>4, <2>5 DEF ReadIsPrefix
<1>8. UnreadFits' /\ ReadWaits'
  BY <1>5 DEF UnreadFits, ReadWaits
<1>9. PayloadsAreCuts'
  <2>1. PICK cut \in [0 .. payloadNumber -> 0 .. Sent] :
          /\ CutsAt(cut)
          /\ \A p \in payloads \cup pendingPayloads : Holds(cut, p.seq, p.blocks)
          /\ \A p \in inWindow.held : Holds(cut, p.seq, p.data)
          /\ inWindow.next <= payloadNumber
          /\ cut[inWindow.next] = Len(got) + Len(queue)
    BY DEF PayloadsAreCuts
  <2>2. ASSUME NEW s \in Nat, NEW q, Holds(cut, s, q) PROVE Holds(cut, s, q)'
    <3>1. s < payloadNumber /\ q = Run(a, cut[s], cut[s + 1] - cut[s])
      BY <1>1, <2>2 DEF Holds
    <3>2. payloadNumber \in Nat
      BY DEF TypeOK
    <3>3. s \in 0 .. payloadNumber /\ s + 1 \in 0 .. payloadNumber /\ s <= s + 1
      BY <3>1, <3>2
    <3>4. cut[s] \in 0 .. Sent /\ cut[s + 1] \in 0 .. Sent /\ cut[s] <= cut[s + 1]
      BY <2>1, <3>3 DEF CutsAt
    <3>5. cut[s] \in Nat /\ cut[s + 1] - cut[s] \in Nat /\ cut[s] + (cut[s + 1] - cut[s]) <= Total
      <4>1. Sent \in Nat /\ Total \in Nat /\ Sent <= Total
        BY Lengths
      <4> QED BY <3>4, <4>1
    <3>6. q = Run(b, cut[s], cut[s + 1] - cut[s])
      BY <1>4, <3>1, <3>5
    <3> QED BY <3>1, <3>6 DEF Holds
  <2>3. \A p \in payloads \cup pendingPayloads : p.seq \in Nat
    BY DEF TypeOK, Payloads
  <2>4. \A p \in inWindow.held : p.seq \in Nat
    BY DEF TypeOK
  <2>5. \A p \in payloads \cup pendingPayloads : Holds(cut, p.seq, p.blocks)'
    BY <2>1, <2>2, <2>3
  <2>6. \A p \in inWindow.held : Holds(cut, p.seq, p.data)'
    BY <2>1, <2>2, <2>4
  <2>7. CutsAt(cut)'
    BY <2>1 DEF CutsAt
  <2> QED BY <1>5, <2>1, <2>5, <2>6, <2>7 DEF PayloadsAreCuts
<1> QED BY <1>1, <1>3, <1>4, <1>6, <1>7, <1>8, <1>9

Futures == {"none", "pending", "ok", "failed", "twice"}

\* Whenever a step looks whether to pull, PullNotForgotten holds after it.
LEMMA PullAsked ==
    ASSUME pulls \in Nat, pulls' = PullsAfter(dataQueue', sentPosition', ackedPosition')
    PROVE  PullNotForgotten' /\ pulls' \in Nat
BY DEF PullNotForgotten, PullsAfter, CanPullMore

\* fut is what the futures are once the blocks in S have got theirs, if any
\* had none; no other block has come to wait.
Pending(fut, S) ==
    /\ \A c \in Blocks : fut[c] = "none" <=> c > written'
    /\ \A c \in S : fut[c] = "pending"
    /\ \A f \in Entries \ S : fut[f] = future[f]
    /\ Waiting' \subseteq Waiting

\* OnWindowPacketsReady of an open stream that gets the n blocks that are next.
AcceptsNext(a, n, bs, fut) ==
    /\ a = Len(accepted)
    /\ bs = Run(a + n, a, n)
    /\ AcceptPackets(bs, fut)
    /\ UNCHANGED <<closeCalled, outError, outClosed, sentPosition, ackedPosition, payloadNumber>>
    /\ UNCHANGED <<inVars, payloads, pendingPayloads, feedbacks>>
    /\ Pending(fut, a + 1 .. a + n)

\* Such a step preserves the invariant but for the order of blocks, which
\* depends on where the blocks come from.
LEMMA AcceptStep ==
    ASSUME IInv, NEW a \in Nat, NEW n \in Nat, a + n <= N, NEW bs, NEW fut, AcceptsNext(a, n, bs, fut)
    PROVE  /\ accepted' = Run(a + n, 0, a + n) /\ Len(accepted') = a + n
           /\ QueueIsRest' /\ ConfirmationsMatch' /\ PromisesOwned' /\ ConfirmedWhenRead'
           /\ PayloadsAreCuts' /\ ReadIsPrefix' /\ ReadWaits' /\ UnreadFits' /\ PullNotForgotten'
           /\ accepted' \in Seq(Blocks) /\ dataQueue' \in Seq(Entries) /\ confirming' \subseteq Entries
           /\ confirmationQueue' \in Seq(Confirmations) /\ writePosition' \in Nat /\ pulls' \in Nat
           /\ future'[End] = future[End]
<1> USE DEF IInv
<1>1. PICK b \in Nat : b = a + n
  OBVIOUS
<1>2. /\ a \in 0 .. N /\ b \in a .. N /\ b \in 0 .. N /\ closeCalled = "no" /\ outError = "no" /\ Total = a
      /\ UNCHANGED <<closeCalled, sentPosition>> /\ a = Len(accepted)
  BY <1>1, Lengths, EndFacts DEF AcceptsNext, AcceptPackets
<1>3. /\ bs = Run(b, a, n) /\ bs \in Seq(Entries) /\ Len(bs) = n
      /\ \A i \in 1 .. n : bs[i] = a + i /\ a + i \in Blocks
  <2>1. bs = Run(b, a, n)
    BY <1>1 DEF AcceptsNext
  <2>a. /\ Run(b, a, n) \in Seq(Entries) /\ Len(Run(b, a, n)) = n
        /\ \A i \in 1 .. n : Run(b, a, n)[i] = Entry(b, a + i)
    BY <1>2, RunType
  <2>2. bs \in Seq(Entries) /\ Len(bs) = n /\ \A i \in 1 .. n : bs[i] = Entry(b, a + i)
    BY <2>1, <2>a
  <2>3. \A i \in 1 .. n : Entry(b, a + i) = a + i /\ a + i \in Blocks
    BY <1>1, <1>2, EndFacts DEF Entry
  <2> QED BY <2>1, <2>2, <2>3
<1>4. \A i \in 0 .. n : writePosition + Bytes(bs, i) = Pos(b, a + i) /\ Pos(b, a + i) \in Nat
  <2> TAKE i \in 0 .. n
  <2>a. /\ Pos(b, a) \in Nat /\ Pos(b, a + i) \in Nat
        /\ Pos(b, a + i) = Pos(b, a) + Bytes(Run(b, a, n), i)
    <3>1. b \in 0 .. N
      BY <1>2
    <3> QED BY <3>1, RunBytes
  <2>1. Pos(b, a) \in Nat /\ Pos(b, a + i) \in Nat /\ Pos(b, a + i) = Pos(b, a) + Bytes(bs, i)
    BY <1>3, <2>a
  <2>2. writePosition = Pos(a, a) /\ a \in 0 .. a
    BY <1>2 DEF QueueIsRest
  <2>3. Pos(a, a) = Pos(b, a)
    BY <1>2, <2>2, PosGrows
  <2> QED BY <2>1, <2>2, <2>3
<1>5. accepted' = Run(b, 0, b) /\ Len(accepted') = b
  <2>1. accepted' = accepted \o bs /\ accepted = Run(a, 0, a)
    BY DEF AcceptsNext, AcceptPackets, InOrder
  <2>2. Run(a, 0, a) = Run(b, 0, a)
    BY <1>2, RunGrows
  <2>3. 0 + a = a
    BY <1>2
  <2>a. b \in 0 .. N /\ 0 \in Nat
    BY <1>2
  <2>4. Run(b, 0, a) \o Run(b, 0 + a, n) = Run(b, 0, a + n)
    BY <2>a, RunConcat
  <2>5. accepted' = Run(b, 0, b)
    BY <1>1, <1>3, <2>1, <2>2, <2>3, <2>4
  <2> QED BY <1>2, <2>5, RunType
<1>6. PICK L \in Nat : L = Len(dataQueue) /\ Sent + L = a
  BY <1>2, Lengths
<1>7. dataQueue' = Run(b, Sent, L + n) /\ Len(dataQueue') = L + n /\ Sent \in Nat
  <2>1. dataQueue' = dataQueue \o bs /\ dataQueue = Run(a, Sent, L)
    BY <1>2, <1>6 DEF AcceptsNext, AcceptPackets, QueueIsRest
  <2>2. Sent \in Nat
    BY Lengths
  <2>3. Run(a, Sent, L) = Run(b, Sent, L)
    BY <1>2, <1>6, <2>2, RunGrows
  <2>a. b \in 0 .. N
    BY <1>2
  <2>4. Run(b, Sent, L) \o Run(b, Sent + L, n) = Run(b, Sent, L + n)
    BY <2>2, <2>a, RunConcat
  <2>5. dataQueue' = Run(b, Sent, L + n)
    BY <1>3, <1>6, <2>1, <2>3, <2>4
  <2>6. L + n \in Nat
    OBVIOUS
  <2>7. Len(Run(b, Sent, L + n)) = L + n
    BY <1>2, <2>2, <2>6, RunType
  <2> QED BY <2>2, <2>5, <2>7
<1>8. Total' = b /\ Sent' = Sent
  <2>1. Total' = b
    BY <1>2, <1>5 DEF Total
  <2> QED BY <1>1, <1>6, <1>7, <2>1 DEF Sent
<1>9. /\ PayloadsAreCuts' /\ ReadIsPrefix' /\ UnreadFits' /\ ReadWaits' /\ sentPosition' = Pos(b, Sent)
      /\ \A k \in 0 .. a : Pos(a, k) = Pos(b, k)
  <2>1. UNCHANGED <<payloads, pendingPayloads, payloadNumber, sentPosition, inVars>>
    BY DEF AcceptsNext
  <2>2. b \in Len(accepted) .. N /\ Len(accepted') = b /\ closeCalled = "no" /\ Sent' = Sent
    BY <1>2, <1>5, <1>8
  <2>3. /\ PayloadsAreCuts' /\ ReadIsPrefix' /\ UnreadFits' /\ ReadWaits' /\ sentPosition' = Pos(b, Sent)
        /\ \A k \in 0 .. Total : Pos(Len(accepted), k) = Pos(b, k)
    BY <2>1, <2>2, StreamGrows
  <2> QED BY <1>2, <2>3
<1>10. QueueIsRest' /\ writePosition' \in Nat
  <2>1. writePosition' = writePosition + Bytes(bs, n)
    BY <1>3 DEF AcceptsNext, AcceptPackets
  <2>2. writePosition' = Pos(b, b) /\ writePosition' \in Nat
    BY <1>1, <1>4, <2>1
  <2>3. L + n <= b
    BY <1>1, <1>6, <1>7
  <2> QED BY <1>5, <1>7, <1>8, <1>9, <2>2, <2>3 DEF QueueIsRest
<1>11. PullNotForgotten' /\ pulls' \in Nat
  <2>1. pulls \in Nat
    BY DEF TypeOK
  <2>2. pulls' = PullsAfter(dataQueue', sentPosition', ackedPosition')
    BY DEF AcceptsNext, AcceptPackets
  <2> QED BY <2>1, <2>2, PullAsked
<1>12. PICK C \in Nat : C = Len(confirmationQueue) /\ a - C \in Nat
  BY <1>2, Lengths
<1>13. PICK ext \in Seq(Confirmations) :
         /\ Len(ext) = n /\ confirmationQueue' = confirmationQueue \o ext
         /\ \A i \in 1 .. n : /\ ext[i].position = Pos(b, a + i)
                              /\ ext[i].promise = IF Fits(Pos(b, a + i)) THEN NoPromise ELSE a + i
  <2> DEFINE e == [i \in 1 .. n |-> [position |-> writePosition + Bytes(bs, i),
                     promise |-> IF Fits(writePosition + Bytes(bs, i)) THEN NoPromise ELSE bs[i]]]
  <2>1. DOMAIN bs = 1 .. n
    BY <1>3
  <2>2. confirmationQueue' = confirmationQueue \o e
    BY <2>1 DEF AcceptsNext, AcceptPackets
  <2>3. ASSUME NEW i \in 1 .. n
        PROVE  /\ e[i] = [position |-> Pos(b, a + i), promise |-> IF Fits(Pos(b, a + i)) THEN NoPromise ELSE a + i]
               /\ e[i] \in Confirmations
    <3>1. writePosition + Bytes(bs, i) = Pos(b, a + i) /\ Pos(b, a + i) \in Nat /\ bs[i] = a + i /\ a + i \in Blocks
      <4>1. i \in 0 .. n
        OBVIOUS
      <4> QED BY <1>3, <1>4, <4>1
    <3>2. e[i] = [position |-> Pos(b, a + i), promise |-> IF Fits(Pos(b, a + i)) THEN NoPromise ELSE a + i]
      BY <3>1
    <3> HIDE DEF e
    <3> QED BY <3>1, <3>2 DEF Confirmations
  <2>4. e \in Seq(Confirmations) /\ Len(e) = n
    <3>1. e \in [1 .. n -> Confirmations]
      BY <2>3
    <3> HIDE DEF e
    <3> QED BY <3>1
  <2> HIDE DEF e
  <2>5. \A i \in 1 .. n : /\ e[i].position = Pos(b, a + i)
                          /\ e[i].promise = IF Fits(Pos(b, a + i)) THEN NoPromise ELSE a + i
    <3> TAKE i \in 1 .. n
    <3> DEFINE P == Pos(b, a + i)
               Q == IF Fits(Pos(b, a + i)) THEN NoPromise ELSE a + i
    <3>1. e[i] = [position |-> P, promise |-> Q]
      BY <2>3
    <3> HIDE DEF P, Q
    <3>2. e[i].position = P /\ e[i].promise = Q
      BY <3>1
    <3> QED BY <3>2 DEF P, Q
  <2> QED BY <2>2, <2>4, <2>5
<1>14. /\ confirmationQueue' \in Seq(Confirmations) /\ Len(confirmationQueue') = C + n
       /\ \A j \in 1 .. C : confirmationQueue'[j] = confirmationQueue[j]
       /\ \A j \in C + 1 .. C + n : confirmationQueue'[j] = ext[j - C] /\ j - C \in 1 .. n
  <2>1. confirmationQueue \in Seq(Confirmations)
    BY DEF TypeOK
  <2>2. /\ confirmationQueue \o ext \in Seq(Confirmations) /\ Len(confirmationQueue \o ext) = C + n
        /\ \A j \in 1 .. C + n : (confirmationQueue \o ext)[j] = IF j <= C THEN confirmationQueue[j] ELSE ext[j - C]
    BY <1>12, <1>13, <2>1, ConcatProperties
  <2>3. \A j \in C + 1 .. C + n : j - C \in 1 .. n /\ ~ (j <= C) /\ j \in 1 .. C + n
    BY <1>12
  <2>4. \A j \in 1 .. C : j <= C /\ j \in 1 .. C + n
    BY <1>12
  <2> QED BY <1>13, <2>2, <2>3, <2>4
<1>15. \A j \in 1 .. C :
         /\ confirmationQueue[j].position = Pos(a, (a - C) + j)
         /\ confirmationQueue[j].promise # NoPromise =>
              confirmationQueue[j].promise = (a - C) + j /\ (a - C) + j <= a
  BY <1>2, <1>12 DEF ConfirmationsMatch
<1>16. ASSUME NEW j \in 1 .. C + n
       PROVE  /\ confirmationQueue'[j].position = Pos(b, (a - C) + j)
              /\ confirmationQueue'[j].promise # NoPromise =>
                   confirmationQueue'[j].promise = (a - C) + j /\ (a - C) + j <= b
  <2>1. CASE j \in 1 .. C
    <3>1. (a - C) + j \in 0 .. a
      BY <1>12, <2>1
    <3>2. Pos(a, (a - C) + j) = Pos(b, (a - C) + j)
      BY <1>9, <3>1
    <3>3. confirmationQueue'[j] = confirmationQueue[j]
      BY <1>14, <2>1
    <3>4. a <= b /\ a \in Nat /\ b \in Nat
      BY <1>2
    <3>5. (a - C) + j <= b
      BY <3>1, <3>4
    <3> QED BY <1>15, <2>1, <3>2, <3>3, <3>5
  <2>2. CASE j \in C + 1 .. C + n
    <3>1. PICK i \in 1 .. n : j = C + i /\ confirmationQueue'[j] = ext[i]
      <4>1. j - C \in 1 .. n /\ j = C + (j - C)
        BY <1>12, <2>2
      <4> QED BY <1>14, <2>2, <4>1
    <3>2. (a - C) + j = a + i /\ a + i <= b
      BY <1>1, <1>12, <3>1
    <3> QED BY <1>13, <3>1, <3>2
  <2> QED BY <1>12, <2>1, <2>2
<1>17. ConfirmationsMatch'
  <2>1. Total' - Len(confirmationQueue') = a - C
    BY <1>1, <1>8, <1>12, <1>14
  <2> QED BY <1>5, <1>12, <1>14, <1>16, <2>1 DEF ConfirmationsMatch
<1>18. PICK X \in SUBSET (a + 1 .. b) :
         /\ confirming' = confirming \cup X
         /\ \A i \in 1 .. n : a + i \in X <=> Fits(Pos(b, a + i))
  <2> DEFINE Y == {bs[i] : i \in {j \in 1 .. n : Fits(writePosition + Bytes(bs, j))}}
  <2>1. DOMAIN bs = 1 .. n
    BY <1>3
  <2>2. confirming' = confirming \cup Y
    BY <2>1 DEF AcceptsNext, AcceptPackets
  <2>3. Y = {a + i : i \in {j \in 1 .. n : Fits(Pos(b, a + j))}}
    <3>1. \A j \in 1 .. n : j \in 0 .. n
      OBVIOUS
    <3>2. \A j \in 1 .. n : bs[j] = a + j /\ writePosition + Bytes(bs, j) = Pos(b, a + j)
      BY <1>3, <1>4, <3>1
    <3> QED BY <3>2
  <2>4. Y \in SUBSET (a + 1 .. b)
    <3>1. \A j \in 1 .. n : a + j \in a + 1 .. b
      BY <1>1
    <3> HIDE DEF Y
    <3> QED BY <2>3, <3>1
  <2>5. ASSUME NEW i \in 1 .. n PROVE a + i \in Y <=> Fits(Pos(b, a + i))
    <3>1. ASSUME NEW j \in 1 .. n, a + i = a + j PROVE i = j
      BY <3>1
    <3> QED BY <2>3, <3>1
  <2> HIDE DEF Y
  <2> QED BY <2>2, <2>4, <2>5
<1>19. confirming' \subseteq Entries
  BY <1>2, <1>18, EndFacts DEF TypeOK
<1>20. accepted' \in Seq(Blocks)
  <2>1. accepted \in Seq(Blocks) /\ accepted' = accepted \o bs
    BY DEF TypeOK, AcceptsNext, AcceptPackets
  <2>2. bs \in Seq(Blocks)
    BY <1>3
  <2> QED BY <2>1, <2>2
<1>21. dataQueue' \in Seq(Entries)
  <2>1. L + n \in Nat
    OBVIOUS
  <2> QED BY <1>2, <1>7, <2>1, RunType
<1>22. \A c \in Blocks : c \in confirming \/ future[c] = "ok" =>
         c <= a /\ c \in 0 .. a /\ Pos(b, c) = Pos(a, c) /\ Pos(a, c) <= readPosition + WindowSize
  <2> SUFFICES ASSUME NEW c \in Blocks, c \in confirming \/ future[c] = "ok"
               PROVE  c <= a /\ c \in 0 .. a /\ Pos(b, c) = Pos(a, c) /\ Pos(a, c) <= readPosition + WindowSize
    OBVIOUS
  <2>1. c <= a /\ Pos(a, c) <= readPosition + WindowSize
    BY <1>2 DEF ConfirmedWhenRead
  <2>2. c \in 0 .. a
    BY <1>2, <2>1, EndFacts
  <2> QED BY <1>9, <2>1, <2>2
<1>23. ConfirmedWhenRead'
  <2>1. UNCHANGED <<ackedPosition, readPosition, feedbacks, outClosed, inClosed>> /\ future' = fut
    BY DEF inVars, AcceptsNext, AcceptPackets
  <2>2. ASSUME NEW c \in Blocks, c \in confirming' \/ fut[c] = "ok"
        PROVE  c <= b /\ Pos(b, c) <= readPosition + WindowSize
    <3>1. CASE c \in X
      <4>1. PICK i \in 1 .. n : c = a + i
        <5>1. c - a \in 1 .. n /\ c = a + (c - a)
          BY <1>1, <1>18, <3>1
        <5> QED BY <5>1
      <4>2. Pos(b, c) - ackedPosition <= WindowSize
        BY <1>18, <3>1, <4>1 DEF Fits
      <4>3. ackedPosition \in Nat /\ readPosition \in Nat /\ ackedPosition <= readPosition /\ WindowSize \in Nat
        BY PositionsOrdered, EndFacts
      <4>4. Pos(b, c) \in Nat
        <5>1. i \in 0 .. n
          OBVIOUS
        <5> QED BY <1>4, <4>1, <5>1
      <4> QED BY <1>1, <4>1, <4>2, <4>3, <4>4
    <3>2. CASE c \notin X
      <4>1. c \in confirming \/ future[c] = "ok"
        <5>1. c \in Entries /\ (c \in confirming' => c \in confirming)
          BY <1>18, <3>2 DEF Entries
        <5> QED BY <2>2, <5>1 DEF AcceptsNext, Pending
      <4>2. c <= a /\ Pos(b, c) <= readPosition + WindowSize
        BY <1>22, <4>1
      <4> QED BY <1>1, <1>2, <4>2, EndFacts
    <3> QED BY <3>1, <3>2
  <2>3. End \in confirming' \/ fut[End] = "ok" => End \in confirming \/ future[End] = "ok"
    <3>1. End \notin a + 1 .. b /\ End \in Entries
      BY <1>2, EndFacts
    <3> QED BY <1>1, <1>18, <3>1 DEF AcceptsNext, Pending
  <2> QED BY <1>5, <2>1, <2>2, <2>3 DEF ConfirmedWhenRead
<1>24. PromisesOwned' /\ future'[End] = future[End]
  <2>1. future' = fut /\ closeCalled' = closeCalled
    BY DEF AcceptsNext, AcceptPackets
  <2>2. End \in Entries /\ End \notin a + 1 .. a + n /\ fut[End] = future[End]
    BY <1>1, <1>2, EndFacts DEF AcceptsNext, Pending
  <2>3. Waiting \subseteq Blocks /\ Blocks \subseteq Entries
    BY DEF TypeOK, Waiting, Entries
  <2>4. ASSUME NEW c \in Waiting' \cup (confirming' \cap Blocks) PROVE fut[c] = "pending"
    <3>1. CASE c \in a + 1 .. a + n
      BY <3>1 DEF AcceptsNext, Pending
    <3>2. CASE c \notin a + 1 .. a + n
      <4>1. c \in Waiting \cup (confirming \cap Blocks) /\ c \in Entries
        BY <1>1, <1>18, <2>3, <2>4, <3>2 DEF AcceptsNext, Pending
      <4>2. future[c] = "pending"
        BY <4>1 DEF PromisesOwned
      <4> QED BY <3>2, <4>1, <4>2 DEF AcceptsNext, Pending
    <3> QED BY <3>1, <3>2
  <2>5. ASSUME NEW f \in Entries PROVE fut[f] # "twice"
    <3>1. CASE f \in a + 1 .. a + n
      BY <3>1 DEF AcceptsNext, Pending
    <3>2. CASE f \notin a + 1 .. a + n
      BY <3>2 DEF AcceptsNext, Pending, PromisesOwned
    <3> QED BY <3>1, <3>2
  <2>6. ASSUME NEW j \in 1 .. C + n, confirmationQueue'[j].promise # NoPromise
        PROVE  fut[confirmationQueue'[j].promise] = "pending" /\ confirmationQueue'[j].promise \notin confirming'
    <3>1. CASE j \in 1 .. C
      <4>1. PICK c \in Nat : c = confirmationQueue[j].promise /\ c = confirmationQueue'[j].promise /\ c \in 1 .. a
        <5>1. confirmationQueue[j].promise = (a - C) + j /\ (a - C) + j \in 1 .. a
          BY <1>12, <1>14, <1>15, <2>6, <3>1
        <5> QED BY <1>2, <1>14, <3>1, <5>1
      <4>2. future[c] = "pending" /\ c \notin confirming
        BY <1>12, <2>6, <3>1, <4>1 DEF PromisesOwned
      <4>3. c \in Entries /\ c \notin a + 1 .. a + n
        BY <1>2, <4>1, EndFacts
      <4>4. fut[c] = "pending" /\ c \notin confirming'
        BY <1>1, <1>18, <4>2, <4>3 DEF AcceptsNext, Pending
      <4> QED BY <4>1, <4>4
    <3>2. CASE j \in C + 1 .. C + n
      <4>1. PICK i \in 1 .. n : j = C + i /\ confirmationQueue'[j] = ext[i]
        <5>1. j - C \in 1 .. n /\ j = C + (j - C)
          BY <1>12, <3>2
        <5> QED BY <1>14, <3>2, <5>1
      <4>2. ~ Fits(Pos(b, a + i)) /\ confirmationQueue'[j].promise = a + i
        BY <1>13, <2>6, <4>1
      <4>3. a + i \notin X /\ a + i \in a + 1 .. a + n
        BY <1>18, <4>2
      <4>4. a + i \notin confirming
        <5>1. a + i \in Blocks /\ ~ (a + i <= a)
          BY <1>3
        <5> QED BY <1>22, <5>1
      <4>5. fut[a + i] = "pending" /\ a + i \notin confirming'
        BY <1>18, <4>3, <4>4 DEF AcceptsNext, Pending
      <4> QED BY <4>2, <4>5
    <3> QED BY <1>12, <3>1, <3>2
  <2>7. \A c \in Blocks : fut[c] = "none" <=> c > written'
    BY DEF AcceptsNext, Pending
  <2>8. fut[End] = "none" <=> closeCalled = "no"
    BY <2>2 DEF PromisesOwned
  <2>9. PromisesOwned'
    BY <1>14, <2>1, <2>4, <2>5, <2>6, <2>7, <2>8 DEF PromisesOwned
  <2> QED BY <2>1, <2>2, <2>9
<1>25. accepted' = Run(a + n, 0, a + n) /\ Len(accepted') = a + n
  BY <1>1, <1>5
<1> QED BY <1>9, <1>10, <1>11, <1>14, <1>17, <1>19, <1>20, <1>21, <1>23, <1>24, <1>25

\* What holds of the queue and of the input stream, if a step leaves both alone.
LEMMA QueueStays ==
    ASSUME IInv, UNCHANGED <<accepted, closeCalled, dataQueue, writePosition, sentPosition, payloadNumber>>,
           UNCHANGED <<inVars, payloads, pendingPayloads>>
    PROVE  /\ QueueIsRest' /\ PayloadsAreCuts' /\ ReadIsPrefix' /\ ReadWaits' /\ UnreadFits'
           /\ Total' = Total /\ Sent' = Sent
<1> USE DEF IInv
<1>1. UNCHANGED <<inWindow, queue, promise, inError, inClosed, readPosition, readFuture, got>>
  BY DEF inVars
<1>2. Total' = Total /\ Sent' = Sent
  BY DEF Total, Sent
<1>3. QueueIsRest'
  BY <1>2 DEF QueueIsRest
<1>4. PayloadsAreCuts'
  BY <1>1, <1>2 DEF PayloadsAreCuts, CutsAt, Holds
<1>5. ReadIsPrefix'
  BY <1>1, <1>2 DEF ReadIsPrefix
<1>6. ReadWaits' /\ UnreadFits'
  BY <1>1, <1>2 DEF ReadWaits, UnreadFits
<1> QED BY <1>2, <1>3, <1>4, <1>5, <1>6

\* Blocks that wait come after those that were accepted.
LEMMA WaitingLater ==
    ASSUME IInv, NEW c \in Waiting
    PROVE  /\ c \in Blocks /\ c > outWindow.next /\ c > Len(accepted) /\ c <= written
           /\ codec = "some" /\ c \in Nat /\ written \in Nat /\ outWindow.next \in Nat
<1> USE DEF IInv
<1>1. compressing \subseteq Blocks /\ (\A p \in outWindow.held : p.data \in Blocks) /\ outWindow.next \in Nat
  BY DEF TypeOK
<1>2. codec \in {"none", "some"} /\ written \in 0 .. N
  BY DEF TypeOK
<1>3. /\ compressing \subseteq outWindow.next + 1 .. written
      /\ \A p \in outWindow.held : p.data \in outWindow.next + 1 .. written
      /\ codec = "none" => compressing = {} /\ outWindow.held = {}
      /\ Len(accepted) <= outWindow.next \/ codec = "none"
  BY DEF InOrder
<1>4. c \in Blocks /\ c \in outWindow.next + 1 .. written /\ codec # "none"
  BY <1>1, <1>3 DEF Waiting
<1>5. Len(accepted) \in 0 .. N
  BY Lengths
<1>6. Len(accepted) <= outWindow.next
  BY <1>3, <1>4
<1> QED BY <1>1, <1>2, <1>4, <1>5, <1>6, EndFacts

\* Promises that wait to be confirmed are those of accepted blocks.
LEMMA UnconfirmedAccepted ==
    ASSUME IInv, NEW j \in 1 .. Len(confirmationQueue), confirmationQueue[j].promise # NoPromise
    PROVE  /\ confirmationQueue[j].promise \in 1 .. Len(accepted) /\ confirmationQueue[j].promise \in Blocks
           /\ confirmationQueue[j].promise \notin Waiting
<1> USE DEF IInv
<1>1. PICK t \in Nat : t = Total - Len(confirmationQueue)
  BY Lengths
<1>2. confirmationQueue[j].promise = t + j /\ t + j <= Len(accepted)
  BY <1>1 DEF ConfirmationsMatch
<1>3. Len(accepted) \in 0 .. N /\ j \in Nat /\ j >= 1
  BY Lengths
<1>4. t + j \in 1 .. Len(accepted) /\ t + j \in Blocks
  BY <1>2, <1>3, EndFacts
<1>5. ASSUME t + j \in Waiting PROVE FALSE
  <2>1. t + j > Len(accepted)
    BY <1>5, WaitingLater
  <2> QED BY <1>2, <1>3, <2>1
<1> QED BY <1>2, <1>4, <1>5

\* OnWindowPacketsReady of a stream that was closed or aborted.
RefusesBlocks(B, fut) ==
    /\ future' = Settle(fut, B, "failed")
    /\ UNCHANGED <<queueVars, pulls, confirming, closeCalled, outError, outClosed, sentPosition, ackedPosition>>
    /\ UNCHANGED <<payloadNumber, inVars, payloads, pendingPayloads, feedbacks>>
    /\ Pending(fut, B)

\* Such a step preserves the invariant but for the order of blocks.
LEMMA RefuseStep ==
    ASSUME IInv, NEW B \in SUBSET Blocks, \A c \in B : c > Len(accepted), Waiting' \cap B = {},
           NEW fut \in [Entries -> Futures], RefusesBlocks(B, fut)
    PROVE  /\ QueueIsRest' /\ ConfirmationsMatch' /\ PromisesOwned' /\ ConfirmedWhenRead'
           /\ PayloadsAreCuts' /\ ReadIsPrefix' /\ ReadWaits' /\ UnreadFits' /\ PullNotForgotten'
           /\ future' \in [Entries -> Futures] /\ future'[End] = future[End]
<1> USE DEF IInv
<1>1. /\ UNCHANGED <<dataQueue, confirmationQueue, writePosition, accepted, pulls, confirming, closeCalled, outError>>
      /\ UNCHANGED <<outClosed, sentPosition, ackedPosition, payloadNumber, payloads, pendingPayloads, feedbacks>>
      /\ UNCHANGED <<inVars, readPosition, inClosed>>
  BY DEF RefusesBlocks, queueVars, inVars
<1>2. /\ QueueIsRest' /\ PayloadsAreCuts' /\ ReadIsPrefix' /\ ReadWaits' /\ UnreadFits'
      /\ Total' = Total
  BY <1>1, QueueStays
<1>3. /\ \A c \in Blocks : fut[c] = "none" <=> c > written'
      /\ \A c \in B : fut[c] = "pending"
      /\ \A f \in Entries \ B : fut[f] = future[f]
      /\ Waiting' \subseteq Waiting
  BY DEF RefusesBlocks, Pending
<1>4. B \subseteq Entries /\ Blocks \subseteq Entries /\ End \in Entries /\ End \notin B
  BY EndFacts DEF Entries
<1>5. /\ future' \in [Entries -> Futures]
      /\ \A f \in B : future'[f] = "failed"
      /\ \A f \in Entries \ B : future'[f] = future[f]
  <2>1. future' = [f \in Entries |-> IF f \notin B THEN fut[f] ELSE IF fut[f] = "pending" THEN "failed" ELSE "twice"]
    BY DEF RefusesBlocks, Settle
  <2> QED BY <1>3, <1>4, <2>1 DEF Futures
<1>6. ConfirmationsMatch'
  BY <1>1, <1>2 DEF ConfirmationsMatch
<1>7. \A c \in confirming \cap Blocks : c \notin B
  BY Lengths, EndFacts DEF ConfirmedWhenRead
<1>8. PromisesOwned'
  <2>1. \A c \in Blocks : future'[c] = "none" <=> c > written'
    BY <1>3, <1>4, <1>5
  <2>2. future'[End] = "none" <=> closeCalled = "no"
    BY <1>4, <1>5 DEF PromisesOwned
  <2>3. ASSUME NEW c \in Waiting' \cup (confirming \cap Blocks) PROVE future'[c] = "pending"
    <3>1. c \in Waiting \cup (confirming \cap Blocks) /\ c \notin B
      BY <1>3, <1>7
    <3>2. c \in Entries
      BY <1>4, <3>1, WaitingLater
    <3> QED BY <1>5, <3>1, <3>2 DEF PromisesOwned
  <2>4. ASSUME NEW j \in 1 .. Len(confirmationQueue), confirmationQueue[j].promise # NoPromise
        PROVE  future'[confirmationQueue[j].promise] = "pending" /\ confirmationQueue[j].promise \notin confirming
    <3>1. PICK c \in Blocks : c = confirmationQueue[j].promise /\ c \in 1 .. Len(accepted)
      BY <2>4, UnconfirmedAccepted
    <3>2. future[c] = "pending" /\ c \notin confirming
      BY <2>4, <3>1 DEF PromisesOwned
    <3>3. c \notin B
      BY <3>1, Lengths
    <3> QED BY <1>4, <1>5, <3>1, <3>2, <3>3
  <2>5. \A f \in Entries : future'[f] # "twice"
    BY <1>5 DEF PromisesOwned
  <2> QED BY <1>1, <2>1, <2>2, <2>3, <2>4, <2>5 DEF PromisesOwned
<1>9. ConfirmedWhenRead'
  <2>1. \A f \in Entries : future'[f] = "ok" => future[f] = "ok"
    BY <1>5
  <2> QED BY <1>1, <1>4, <2>1 DEF ConfirmedWhenRead
<1>10. PullNotForgotten'
  BY <1>1 DEF PullNotForgotten, CanPullMore
<1>11. future'[End] = future[End]
  BY <1>4, <1>5
<1> QED BY <1>2, <1>5, <1>6, <1>8, <1>9, <1>10, <1>11

\* Nothing changes but the output stream.
OnlyOutput == UNCHANGED <<inVars, timeouts, netVars, request, serverVars>>

\* What that leaves alone.
LEMMA OnlyOutputLeaves ==
    ASSUME OnlyOutput
    PROVE  /\ UNCHANGED <<inVars, inWindow, queue, promise, inError, inClosed, readPosition, readFuture, got>>
           /\ UNCHANGED <<inRead, inAbort, owed, maxWindowSize, timeouts, bus, payloads, feedbacks, cancelation>>
           /\ UNCHANGED <<reply, request, server, pendingPayloads, lost>>
BY DEF OnlyOutput, inVars, netVars, serverVars

\* The type invariant after a step of the output stream.
LEMMA OutputTypes ==
    ASSUME IInv, OnlyOutput,
           codec' \in {"none", "some"}, written' \in 0 .. N, compressing' \subseteq Blocks,
           outWindow' \in [next : Nat, held : SUBSET [seq : Nat, data : Blocks]],
           dataQueue' \in Seq(Entries), accepted' \in Seq(Blocks), confirmationQueue' \in Seq(Confirmations),
           {closeCalled', outError', outClosed'} \subseteq YesNo,
           {writePosition', sentPosition', ackedPosition', payloadNumber', pulls'} \subseteq Nat,
           future' \in [Entries -> Futures], confirming' \subseteq Entries
    PROVE  TypeOK'
<1>1. /\ UNCHANGED <<inVars, inWindow, queue, promise, inError, inClosed, readPosition, readFuture, got>>
      /\ UNCHANGED <<inRead, inAbort, owed, maxWindowSize, timeouts, bus, payloads, feedbacks, cancelation>>
      /\ UNCHANGED <<reply, request, server, pendingPayloads, lost>>
  BY OnlyOutputLeaves
<1> QED BY <1>1 DEF IInv, TypeOK, Futures

\* What the type invariant says of the output stream.
LEMMA OutputTyped ==
    ASSUME IInv
    PROVE  /\ codec \in {"none", "some"} /\ written \in 0 .. N /\ compressing \subseteq Blocks
           /\ outWindow \in [next : Nat, held : SUBSET [seq : Nat, data : Blocks]]
           /\ dataQueue \in Seq(Entries) /\ accepted \in Seq(Blocks) /\ confirmationQueue \in Seq(Confirmations)
           /\ {closeCalled, outError, outClosed} \subseteq YesNo
           /\ {writePosition, sentPosition, ackedPosition, payloadNumber, pulls} \subseteq Nat
           /\ future \in [Entries -> Futures] /\ confirming \subseteq Entries
BY DEF IInv, TypeOK, Futures

\* More blocks may be accepted, unless the stream was closed.
Grows ==
    /\ closeCalled' = closeCalled /\ future'[End] = future[End]
    /\ accepted' = accepted \/ (closeCalled = "no" /\ Len(accepted') >= Len(accepted))

\* Write without a codec.
LEMMA WritePlainStep ==
    ASSUME IInv, Write, OnlyOutput, codec = "none"
    PROVE  IInv' /\ Grows
<1> USE DEF IInv
<1>1. PICK b \in Nat : b = written + 1
  BY OutputTyped
<1>2. PICK fut : fut = [future EXCEPT ![b] = "pending"]
  OBVIOUS
<1>3. /\ written < N /\ written' = b /\ OnWindowPacketsReady(<<b>>, fut) /\ UNCHANGED compressing
      /\ UNCHANGED <<codec, outWindow, closeCalled, outError, outClosed, sentPosition, ackedPosition, payloadNumber>>
  BY <1>1, <1>2 DEF Write
<1>4. b \in Blocks /\ b \in 1 .. N /\ b \in Entries /\ Blocks \subseteq Entries /\ written \in Nat
  BY <1>1, <1>3, OutputTyped, EndFacts DEF Entries
<1>5. fut \in [Entries -> Futures] /\ fut[b] = "pending" /\ \A f \in Entries \ {b} : fut[f] = future[f]
  BY <1>2, <1>4, OutputTyped DEF Futures
<1>6. Pending(fut, {b})
  <2>1. Waiting' = Waiting
    BY <1>3 DEF Waiting
  <2>2. ASSUME NEW c \in Blocks PROVE fut[c] = "none" <=> c > written'
    <3>1. c \in Nat
      BY EndFacts
    <3>2. CASE c = b
      BY <1>3, <1>5, <3>1, <3>2
    <3>3. CASE c # b
      <4>1. fut[c] = future[c] /\ (future[c] = "none" <=> c > written)
        BY <1>4, <1>5, <3>3 DEF PromisesOwned
      <4> QED BY <1>1, <1>3, <1>4, <3>1, <3>3, <4>1
    <3> QED BY <3>2, <3>3
  <2> QED BY <1>5, <2>1, <2>2 DEF Pending
<1>7. /\ UNCHANGED <<inVars, payloads, pendingPayloads, feedbacks>>
  BY OnlyOutputLeaves
<1>8. /\ outWindow' \in [next : Nat, held : SUBSET [seq : Nat, data : Blocks]]
      /\ {closeCalled', outError', outClosed'} \subseteq YesNo /\ written' \in 0 .. N /\ compressing' \subseteq Blocks
      /\ {sentPosition', ackedPosition', payloadNumber'} \subseteq Nat /\ codec' \in {"none", "some"}
  BY <1>3, <1>4, OutputTyped
<1>9. /\ codec = "none" => compressing = {} /\ outWindow.held = {}
      /\ outWindow.next <= written /\ IsFiniteSet(outWindow.held) /\ outWindow.next \in Nat
  BY OutputTyped DEF InOrder
<1>10. CASE AcceptPackets(<<b>>, fut)
  <2>1. PICK a \in Nat : a = Len(accepted) /\ a = written /\ b = a + 1 /\ a + 1 <= N
    <3>1. closeCalled = "no" /\ outError = "no"
      BY <1>10 DEF AcceptPackets
    <3>2. Len(accepted) = written
      BY <3>1 DEF InOrder
    <3> QED BY <1>1, <1>4, <3>2
  <2>2. <<b>> = Run(a + 1, a, 1)
    <3>1. a + 1 \in 0 .. N /\ <<b>> \in Seq(Entries) /\ Len(<<b>>) = 1
      BY <1>4, <2>1
    <3>2. ASSUME NEW i \in 1 .. 1 PROVE <<b>>[i] = Entry(a + 1, a + i)
      BY <2>1 DEF Entry
    <3> QED BY <3>1, <3>2, RunEqual
  <2>3. a + 1 .. a + 1 = {b}
    BY <2>1
  <2>4. AcceptsNext(a, 1, <<b>>, fut)
    BY <1>3, <1>6, <1>7, <1>10, <2>1, <2>2, <2>3 DEF AcceptsNext
  <2>5. /\ accepted' = Run(a + 1, 0, a + 1) /\ Len(accepted') = a + 1
        /\ QueueIsRest' /\ ConfirmationsMatch' /\ PromisesOwned' /\ ConfirmedWhenRead'
        /\ PayloadsAreCuts' /\ ReadIsPrefix' /\ ReadWaits' /\ UnreadFits' /\ PullNotForgotten'
        /\ accepted' \in Seq(Blocks) /\ dataQueue' \in Seq(Entries) /\ confirming' \subseteq Entries
        /\ confirmationQueue' \in Seq(Confirmations) /\ writePosition' \in Nat /\ pulls' \in Nat
        /\ future'[End] = future[End]
    BY <2>1, <2>4, AcceptStep
  <2>6. future' \in [Entries -> Futures]
    BY <1>5, <1>10 DEF AcceptPackets
  <2>7. TypeOK'
    BY <1>8, <2>5, <2>6, OutputTypes
  <2>8. InOrder'
    BY <1>3, <1>9, <2>1, <2>5 DEF InOrder
  <2>9. Grows
    BY <1>3, <1>10, <2>1, <2>5 DEF Grows, AcceptPackets
  <2> QED BY <2>5, <2>7, <2>8, <2>9
<1>11. CASE RefusePackets(<<b>>, fut)
  <2>1. {<<b>>[i] : i \in DOMAIN <<b>>} = {b}
    OBVIOUS
  <2>2. /\ closeCalled = "yes" \/ outError = "yes"
        /\ future' = Settle(fut, {b}, "failed") /\ UNCHANGED <<queueVars, pulls, confirming>>
    BY <1>11, <2>1 DEF RefusePackets
  <2>3. RefusesBlocks({b}, fut)
    BY <1>3, <1>6, <1>7, <2>2 DEF RefusesBlocks
  <2>4. \A c \in {b} : c > Len(accepted)
    BY <1>1, <1>4, Lengths DEF InOrder
  <2>5. Waiting' \cap {b} = {}
    BY <1>3, <1>9 DEF Waiting
  <2>6. {b} \in SUBSET Blocks
    BY <1>4
  <2>7. /\ QueueIsRest' /\ ConfirmationsMatch' /\ PromisesOwned' /\ ConfirmedWhenRead'
        /\ PayloadsAreCuts' /\ ReadIsPrefix' /\ ReadWaits' /\ UnreadFits' /\ PullNotForgotten'
        /\ future' \in [Entries -> Futures] /\ future'[End] = future[End]
    BY <1>5, <2>3, <2>4, <2>5, <2>6, RefuseStep
  <2>8. UNCHANGED <<dataQueue, confirmationQueue, writePosition, accepted, pulls, confirming>>
    BY <2>2 DEF queueVars
  <2>9. TypeOK'
    BY <1>8, <2>7, <2>8, OutputTyped, OutputTypes
  <2>10. InOrder'
    <3>1. /\ accepted = Run(Len(accepted), 0, Len(accepted)) /\ Len(accepted) <= written
          /\ compressing = {} /\ outWindow.held = {}
      BY <1>9 DEF InOrder
    <3>2. Len(accepted) <= b /\ outWindow.next <= b
      BY <1>1, <1>4, <1>9, <3>1, Lengths
    <3>3. UNCHANGED <<accepted, codec, outWindow, compressing, closeCalled, outError>> /\ written' = b
      BY <1>3, <2>8
    <3> QED BY <1>9, <2>2, <3>1, <3>2, <3>3 DEF InOrder
  <2>11. Grows
    BY <1>3, <2>7, <2>8 DEF Grows
  <2> QED BY <2>7, <2>9, <2>10, <2>11
<1> QED BY <1>3, <1>10, <1>11 DEF OnWindowPacketsReady

\* Write with a codec: the block waits to be compressed.
LEMMA WriteCodecStep ==
    ASSUME IInv, Write, OnlyOutput, codec = "some"
    PROVE  IInv' /\ Grows
<1> USE DEF IInv
<1>1. PICK b \in Nat : b = written + 1
  BY OutputTyped
<1>2. /\ written < N /\ written' = b /\ compressing' = compressing \cup {b}
      /\ future' = [future EXCEPT ![b] = "pending"]
      /\ UNCHANGED <<queueVars, pulls, confirming>>
      /\ UNCHANGED <<codec, outWindow, closeCalled, outError, outClosed, sentPosition, ackedPosition, payloadNumber>>
  BY <1>1 DEF Write
<1>3. b \in Blocks /\ b \in 1 .. N /\ b \in Entries /\ Blocks \subseteq Entries /\ written \in Nat
  BY <1>1, <1>2, OutputTyped, EndFacts DEF Entries
<1>4. /\ future' \in [Entries -> Futures] /\ future'[b] = "pending"
      /\ \A f \in Entries \ {b} : future'[f] = future[f]
  BY <1>2, <1>3, OutputTyped DEF Futures
<1>5. UNCHANGED <<dataQueue, confirmationQueue, writePosition, accepted>>
  BY <1>2 DEF queueVars
<1>6. /\ UNCHANGED <<inVars, payloads, pendingPayloads, feedbacks, readPosition, inClosed>>
  BY OnlyOutputLeaves
<1>7. QueueIsRest' /\ PayloadsAreCuts' /\ ReadIsPrefix' /\ ReadWaits' /\ UnreadFits' /\ Total' = Total
  BY <1>2, <1>5, <1>6, QueueStays
<1>8. TypeOK'
  BY <1>2, <1>3, <1>4, <1>5, OutputTyped, OutputTypes
<1>9. InOrder'
  <2>1. /\ accepted = Run(Len(accepted), 0, Len(accepted)) /\ Len(accepted) <= outWindow.next
        /\ Len(accepted) <= written /\ outWindow.next <= written /\ IsFiniteSet(outWindow.held)
        /\ closeCalled = "no" /\ outError = "no" => Len(accepted) = outWindow.next
        /\ compressing \subseteq outWindow.next + 1 .. written
    BY DEF InOrder
  <2>2. outWindow.next \in Nat /\ Len(accepted) \in Nat
    BY OutputTyped
  <2>3. Len(accepted) <= b /\ outWindow.next <= b /\ compressing \cup {b} \subseteq outWindow.next + 1 .. b
    BY <1>1, <1>3, <2>1, <2>2
  <2>4. ASSUME NEW p \in outWindow.held
        PROVE  p.seq = p.data - 1 /\ p.data \in (outWindow.next + 1 .. b) \ (compressing \cup {b})
    <3>1. p.seq = p.data - 1 /\ p.data \in outWindow.next + 1 .. written /\ p.data \notin compressing
      BY DEF InOrder
    <3> QED BY <1>1, <1>3, <2>2, <3>1
  <2> QED BY <1>2, <1>5, <2>1, <2>3, <2>4 DEF InOrder
<1>10. ConfirmationsMatch'
  BY <1>5, <1>7 DEF ConfirmationsMatch
<1>11. PromisesOwned'
  <2>1. ASSUME NEW c \in Blocks PROVE future'[c] = "none" <=> c > b
    <3>1. c \in Nat
      BY EndFacts
    <3>2. CASE c = b
      BY <1>4, <3>1, <3>2
    <3>3. CASE c # b
      <4>1. future'[c] = future[c] /\ (future[c] = "none" <=> c > written)
        BY <1>3, <1>4, <3>3 DEF PromisesOwned
      <4> QED BY <1>1, <1>3, <3>1, <3>3, <4>1
    <3> QED BY <3>2, <3>3
  <2>2. End \in Entries /\ End # b
    BY <1>3, EndFacts
  <2>3. future'[End] = "none" <=> closeCalled = "no"
    BY <1>4, <2>2 DEF PromisesOwned
  <2>4. Waiting' = Waiting \cup {b}
    BY <1>2 DEF Waiting
  <2>5. ASSUME NEW c \in Waiting \cup {b} \cup (confirming \cap Blocks) PROVE future'[c] = "pending"
    <3>1. CASE c = b
      BY <1>4, <3>1
    <3>2. CASE c # b
      <4>1. c \in Entries
        BY <1>3, <2>5, WaitingLater
      <4>2. future[c] = "pending"
        BY <2>5, <3>2 DEF PromisesOwned
      <4> QED BY <1>4, <3>2, <4>1, <4>2
    <3> QED BY <3>1, <3>2
  <2>6. ASSUME NEW j \in 1 .. Len(confirmationQueue), confirmationQueue[j].promise # NoPromise
        PROVE  future'[confirmationQueue[j].promise] = "pending" /\ confirmationQueue[j].promise \notin confirming
    <3>1. PICK c \in Blocks : c = confirmationQueue[j].promise
      BY <2>6, UnconfirmedAccepted
    <3>2. future[c] = "pending" /\ c \notin confirming
      BY <2>6, <3>1 DEF PromisesOwned
    <3> QED BY <1>3, <1>4, <3>1, <3>2
  <2>7. \A f \in Entries : future'[f] # "twice"
    BY <1>4 DEF PromisesOwned
  <2> QED BY <1>2, <1>5, <2>1, <2>3, <2>4, <2>5, <2>6, <2>7 DEF PromisesOwned
<1>12. ConfirmedWhenRead'
  <2>1. \A f \in Entries : future'[f] = "ok" => future[f] = "ok"
    BY <1>4
  <2>2. End \in Entries
    BY EndFacts
  <2> QED BY <1>2, <1>3, <1>5, <1>6, <2>1, <2>2 DEF ConfirmedWhenRead
<1>13. PullNotForgotten'
  BY <1>2, <1>5 DEF PullNotForgotten, CanPullMore
<1>14. Grows
  <2>1. future'[End] = future[End]
    BY <1>3, <1>4, EndFacts
  <2> QED BY <1>2, <1>5, <2>1 DEF Grows
<1> QED BY <1>7, <1>8, <1>9, <1>10, <1>11, <1>12, <1>13, <1>14

\* The pool has compressed a block.
LEMMA CompressedStep ==
    ASSUME IInv, NEW b \in Blocks, Compressed(b), OnlyOutput
    PROVE  IInv' /\ Grows
<1> USE DEF IInv
<1>1. PICK m \in Nat : m = outWindow.next
  BY OutputTyped
<1>2. PICK bs : bs = Released(outWindow, b - 1, b)
  OBVIOUS
<1>3. /\ b \in compressing /\ compressing' = compressing \ {b} /\ outWindow' = AddPacket(outWindow, b - 1, b)
      /\ OnWindowPacketsReady(bs, future)
      /\ UNCHANGED <<codec, written, closeCalled, outError, outClosed, sentPosition, ackedPosition, payloadNumber>>
  BY <1>2 DEF Compressed
<1>4. b \in Waiting /\ codec = "some" /\ b \in m + 1 .. written /\ written \in 0 .. N /\ m <= written
  <2>1. b \in Waiting
    BY <1>3 DEF Waiting
  <2>2. codec = "some" /\ written \in 0 .. N
    BY <2>1, WaitingLater, OutputTyped
  <2> QED BY <1>1, <1>3, <2>1, <2>2 DEF InOrder
<1>5. PICK H : H = outWindow.held \cup {Packet(b - 1, b)}
  OBVIOUS
<1>6. /\ \A p \in outWindow.held : p \in [seq : Nat, data : Blocks] /\ p.seq \in Nat
      /\ IsFiniteSet(outWindow.held) /\ b - 1 \in Nat
  BY <1>4, OutputTyped, EndFacts DEF InOrder
<1>7. \A p \in outWindow.held : p.seq = p.data - 1 /\ p.data \in m + 1 .. written /\ p.data \notin compressing
  BY <1>1 DEF InOrder
<1>8. \A p \in H : /\ p.seq = p.data - 1 /\ p.data \in m + 1 .. written /\ p \in [seq : Nat, data : Blocks]
                   /\ p.data \in Waiting
                   /\ p.data \in compressing => p.data = b
  <2>1. ASSUME NEW p \in outWindow.held PROVE p.data \in Waiting
    BY DEF Waiting
  <2>2. PICK q : q = Packet(b - 1, b)
    OBVIOUS
  <2>3. q.seq = b - 1 /\ q.data = b /\ q \in [seq : Nat, data : Blocks]
    BY <1>6, <2>2 DEF Packet
  <2>4. H = outWindow.held \cup {q}
    BY <1>5, <2>2
  <2> QED BY <1>4, <1>6, <1>7, <2>1, <2>3, <2>4
<1>9. PICK n \in Nat :
         /\ n >= m
         /\ outWindow' = [next |-> n, held |-> {p \in H : p.seq >= n}]
         /\ IsFiniteSet({p \in H : p.seq >= n})
         /\ bs = [i \in 1 .. n - m |-> bs[i]]
         /\ \A i \in 1 .. n - m : \E p \in H : p.seq = m + i - 1 /\ bs[i] = p.data
  <2>1. PICK s \in Nat : s = b - 1
    BY <1>6
  <2>a. PICK w : w = outWindow
    OBVIOUS
  <2>2. IsWindow(w)
    BY <1>1, <1>6, <2>a DEF IsWindow
  <2>3. H = w.held \cup {Packet(s, b)}
    BY <1>5, <2>1, <2>a
  <2>4. PICK n \in Nat : AddsTo(w, s, b, H, n)
    BY <2>2, <2>3, WindowAdds
  <2>5. AddPacket(w, s, b) = outWindow' /\ Released(w, s, b) = bs /\ w.next = m
    BY <1>1, <1>2, <1>3, <2>1, <2>a
  <2> QED BY <2>4, <2>5 DEF AddsTo
<1>10. PICK k \in Nat : k = n - m /\ n = m + k
  <2>1. n - m \in Nat /\ n = m + (n - m)
    BY <1>9
  <2> QED BY <2>1
<1>11. ASSUME NEW i \in 1 .. k
       PROVE  bs[i] = m + i /\ m + i \in Waiting /\ m + i \in m + 1 .. written /\ (m + i \in compressing => m + i = b)
  <2>1. PICK p \in H : p.seq = m + i - 1 /\ bs[i] = p.data
    BY <1>9, <1>10
  <2>2. p.data = m + i
    <3>1. p.seq = p.data - 1 /\ p.data \in Nat
      BY <1>4, <1>8
    <3> QED BY <2>1, <3>1
  <2> QED BY <1>8, <2>1, <2>2
<1>12. n <= written
  <2>1. CASE k = 0
    BY <1>4, <1>10, <2>1
  <2>2. CASE k # 0
    <3>1. k \in 1 .. k
      BY <2>2
    <3> QED BY <1>10, <1>11, <3>1
  <2> QED BY <2>1, <2>2
<1>13. \A c \in m + 1 .. n : c \in Waiting /\ (c \in compressing => c = b) /\ \E i \in 1 .. k : c = bs[i]
  <2> TAKE c \in m + 1 .. n
  <2>1. PICK i \in 1 .. k : c = m + i
    <3>1. c - m \in 1 .. k /\ c = m + (c - m)
      BY <1>10
    <3> QED BY <3>1
  <2> QED BY <1>11, <2>1
<1>14. ASSUME NEW c \in Waiting' PROVE c \in Waiting /\ c \in n + 1 .. written
  <2>1. CASE c \in compressing'
    <3>1. c \in compressing /\ c # b /\ c \in Waiting
      BY <1>3, <2>1 DEF Waiting
    <3>2. c \in m + 1 .. written
      BY <1>1, <3>1 DEF InOrder
    <3>3. c \notin m + 1 .. n
      BY <1>13, <3>1
    <3> QED BY <1>9, <1>12, <3>1, <3>2, <3>3
  <2>2. CASE c \notin compressing'
    <3>1. PICK p \in outWindow'.held : c = p.data
      BY <1>14, <2>2 DEF Waiting
    <3>2. p \in H /\ p.seq >= n
      BY <1>9, <3>1
    <3>3. p.seq = c - 1 /\ c \in m + 1 .. written /\ c \in Waiting
      BY <1>8, <3>1, <3>2
    <3> QED BY <3>2, <3>3
  <2> QED BY <2>1, <2>2
<1>15. /\ outWindow' \in [next : Nat, held : SUBSET [seq : Nat, data : Blocks]]
       /\ outWindow'.next = n /\ outWindow'.held = {p \in H : p.seq >= n}
  BY <1>8, <1>9
<1>16. /\ {closeCalled', outError', outClosed'} \subseteq YesNo /\ written' \in 0 .. N /\ compressing' \subseteq Blocks
       /\ {sentPosition', ackedPosition', payloadNumber'} \subseteq Nat /\ codec' \in {"none", "some"}
  BY <1>3, OutputTyped
<1>17. /\ outWindow'.next <= written' /\ IsFiniteSet(outWindow'.held)
       /\ compressing' \subseteq outWindow'.next + 1 .. written'
       /\ \A p \in outWindow'.held :
            p.seq = p.data - 1 /\ p.data \in (outWindow'.next + 1 .. written') \ compressing'
       /\ codec' = "some"
  <2>1. compressing' \subseteq n + 1 .. written
    BY <1>14 DEF Waiting
  <2>2. ASSUME NEW p \in outWindow'.held
        PROVE  p.seq = p.data - 1 /\ p.data \in (n + 1 .. written) \ compressing'
    <3>1. p.data \in n + 1 .. written
      BY <1>14 DEF Waiting
    <3>2. p \in H
      BY <1>15
    <3> QED BY <1>3, <1>8, <3>1, <3>2
  <2> QED BY <1>3, <1>4, <1>9, <1>12, <1>15, <2>1, <2>2
<1>18. UNCHANGED <<inVars, payloads, pendingPayloads, feedbacks>>
  BY OnlyOutputLeaves
<1>19. ASSUME NEW S, S = m + 1 .. n PROVE Pending(future, S)
  <2>1. \A c \in S : future[c] = "pending"
    BY <1>13, <1>19 DEF PromisesOwned
  <2>2. \A c \in Blocks : future[c] = "none" <=> c > written'
    BY <1>3 DEF PromisesOwned
  <2> QED BY <1>14, <2>1, <2>2 DEF Pending
<1>20. bs = Run(n, m, k) /\ n \in 0 .. N /\ Len(bs) = k /\ DOMAIN bs = 1 .. k
  <2>1. n \in 0 .. N
    BY <1>4, <1>12, EndFacts
  <2>2. bs = [i \in 1 .. k |-> bs[i]]
    BY <1>9, <1>10
  <2>3. \A i \in 1 .. k : bs[i] = Entry(n, m + i)
    BY <1>10, <1>11 DEF Entry
  <2>4. bs = Run(n, m, k)
    BY <2>2, <2>3 DEF Run
  <2>5. DOMAIN bs = 1 .. k
    BY <2>2
  <2>6. Len(bs) = k
    BY <2>1, <2>4, RunType
  <2> QED BY <2>1, <2>4, <2>5, <2>6
<1>21. CASE AcceptPackets(bs, future)
  <2>1. m = Len(accepted) /\ closeCalled = "no" /\ outError = "no"
    BY <1>1, <1>4, <1>21 DEF AcceptPackets, InOrder
  <2>2. m + 1 .. m + k = m + 1 .. n /\ m + k <= N /\ bs = Run(m + k, m, k)
    BY <1>10, <1>20
  <2>3. Pending(future, m + 1 .. m + k)
    BY <1>19, <2>2
  <2>4. AcceptsNext(m, k, bs, future)
    BY <1>3, <1>18, <1>21, <2>1, <2>2, <2>3 DEF AcceptsNext
  <2>5. /\ accepted' = Run(m + k, 0, m + k) /\ Len(accepted') = m + k
        /\ QueueIsRest' /\ ConfirmationsMatch' /\ PromisesOwned' /\ ConfirmedWhenRead'
        /\ PayloadsAreCuts' /\ ReadIsPrefix' /\ ReadWaits' /\ UnreadFits' /\ PullNotForgotten'
        /\ accepted' \in Seq(Blocks) /\ dataQueue' \in Seq(Entries) /\ confirming' \subseteq Entries
        /\ confirmationQueue' \in Seq(Confirmations) /\ writePosition' \in Nat /\ pulls' \in Nat
        /\ future'[End] = future[End]
    BY <2>2, <2>4, AcceptStep
  <2>6. future' \in [Entries -> Futures]
    BY <1>21, OutputTyped DEF AcceptPackets
  <2>7. TypeOK'
    BY <1>15, <1>16, <2>5, <2>6, OutputTypes
  <2>8. Len(accepted') = n /\ accepted' = Run(n, 0, n) /\ n <= written'
    BY <1>3, <1>10, <1>12, <2>5
  <2>9. InOrder'
    BY <1>15, <1>17, <2>8 DEF InOrder
  <2>10. Grows
    BY <1>3, <2>1, <2>5 DEF Grows
  <2> QED BY <2>5, <2>7, <2>9, <2>10
<1>22. CASE RefusePackets(bs, future)
  <2> DEFINE B == m + 1 .. n
  <2>1. {bs[i] : i \in DOMAIN bs} = B
    <3>1. \A i \in 1 .. k : bs[i] \in B
      BY <1>10, <1>11
    <3> QED BY <1>13, <1>20, <3>1
  <2>2. /\ closeCalled = "yes" \/ outError = "yes"
        /\ future' = Settle(future, B, "failed") /\ UNCHANGED <<queueVars, pulls, confirming>>
    BY <1>22, <2>1 DEF RefusePackets
  <2>3. Pending(future, B)
    BY <1>19
  <2>4. B \in SUBSET Blocks /\ Waiting' \cap B = {}
    BY <1>4, <1>9, <1>12, <1>14, EndFacts
  <2>5. \A c \in B : c > Len(accepted)
    <3>1. Len(accepted) <= m /\ Len(accepted) \in Nat
      BY <1>1, <1>4, Lengths DEF InOrder
    <3> QED BY <3>1
  <2> HIDE DEF B
  <2>6. RefusesBlocks(B, future)
    BY <1>3, <1>18, <2>2, <2>3 DEF RefusesBlocks
  <2>7. future \in [Entries -> Futures]
    BY OutputTyped
  <2>8. /\ QueueIsRest' /\ ConfirmationsMatch' /\ PromisesOwned' /\ ConfirmedWhenRead'
        /\ PayloadsAreCuts' /\ ReadIsPrefix' /\ ReadWaits' /\ UnreadFits' /\ PullNotForgotten'
        /\ future' \in [Entries -> Futures] /\ future'[End] = future[End]
    BY <2>4, <2>5, <2>6, <2>7, RefuseStep
  <2>9. UNCHANGED <<dataQueue, confirmationQueue, writePosition, accepted, pulls, confirming>>
    BY <2>2 DEF queueVars
  <2>10. TypeOK'
    BY <1>15, <1>16, <2>8, <2>9, OutputTyped, OutputTypes
  <2>11. Len(accepted) <= n /\ Len(accepted) <= written /\ accepted = Run(Len(accepted), 0, Len(accepted))
    <3>1. Len(accepted) <= m /\ Len(accepted) \in Nat /\ accepted = Run(Len(accepted), 0, Len(accepted))
      BY <1>1, <1>4, Lengths DEF InOrder
    <3> QED BY <1>4, <1>9, <3>1
  <2>12. InOrder'
    BY <1>3, <1>15, <1>17, <2>2, <2>9, <2>11 DEF InOrder
  <2>13. Grows
    BY <1>3, <2>8, <2>9 DEF Grows
  <2> QED BY <2>8, <2>10, <2>12, <2>13
<1> QED BY <1>3, <1>21, <1>22 DEF OnWindowPacketsReady

\* Close.
LEMMA CloseStep ==
    ASSUME IInv, Close, OnlyOutput
    PROVE  IInv'
<1> USE DEF IInv
<1>1. PICK a \in Nat : a = Len(accepted)
  BY Lengths
<1>2. /\ closeCalled = "no" /\ outError = "no" /\ closeCalled' = "yes"
      /\ future' = [future EXCEPT ![End] = "pending"]
      /\ dataQueue' = Append(dataQueue, End) /\ writePosition' = writePosition + SizeOf(End)
      /\ confirmationQueue' = Append(confirmationQueue, [position |-> writePosition', promise |-> NoPromise])
      /\ pulls' = PullsAfter(dataQueue', sentPosition', ackedPosition')
      /\ UNCHANGED <<codec, written, compressing, outWindow, outError, outClosed, sentPosition>>
      /\ UNCHANGED <<ackedPosition, payloadNumber, confirming, accepted>>
  BY DEF Close
<1>3. /\ a \in 0 .. N /\ Total = a /\ Total' = a + 1 /\ a + 1 \in Nat /\ Entry(a, a + 1) = End
      /\ Len(accepted') = a
  BY <1>1, <1>2, Lengths, EndFacts DEF Total, Entry
<1>4. PICK L \in Nat : L = Len(dataQueue) /\ Sent + L = a /\ Sent \in Nat
  BY <1>3, Lengths
<1>5. /\ dataQueue' = Run(a, Sent, L + 1) /\ Len(dataQueue') = L + 1 /\ dataQueue' \in Seq(Entries)
      /\ Sent' = Sent
  <2>1. Append(Run(a, Sent, L), Entry(a, Sent + L + 1)) = Run(a, Sent, L + 1)
    BY <1>3, <1>4, RunAppend
  <2>2. dataQueue = Run(a, Sent, L)
    BY <1>1, <1>4 DEF QueueIsRest
  <2>3. dataQueue' = Run(a, Sent, L + 1)
    BY <1>2, <1>3, <1>4, <2>1, <2>2
  <2>4. L + 1 \in Nat /\ a \in 0 .. N /\ Sent \in Nat
    BY <1>3, <1>4
  <2>5. Run(a, Sent, L + 1) \in Seq(Entries) /\ Len(Run(a, Sent, L + 1)) = L + 1
    BY <2>4, RunType
  <2>6. Len(dataQueue') = L + 1
    BY <2>3, <2>5
  <2>7. Sent' = Sent
    BY <1>3, <1>4, <2>6 DEF Sent
  <2> QED BY <2>3, <2>5, <2>6, <2>7
<1>6. writePosition' = Pos(a, a + 1) /\ writePosition' \in Nat
  <2>1. Pos(a, a) \in Nat /\ Pos(a, a + 1) = Pos(a, a) + SizeOf(Entry(a, a + 1))
    BY <1>1, <1>3, PosNext
  <2>2. writePosition = Pos(a, a) /\ SizeOf(End) = 1
    BY <1>1, <1>3, EndFacts DEF QueueIsRest
  <2> QED BY <1>2, <1>3, <2>1, <2>2
<1>7. /\ UNCHANGED <<inVars, payloads, pendingPayloads, feedbacks, readPosition, inClosed>>
  BY OnlyOutputLeaves
<1>8. /\ PayloadsAreCuts' /\ ReadIsPrefix' /\ UnreadFits' /\ ReadWaits' /\ sentPosition' = Pos(a, Sent)
  <2>1. a \in Len(accepted) .. N /\ a = Len(accepted) /\ UNCHANGED <<payloadNumber, sentPosition>>
    BY <1>1, <1>2, <1>3, EndFacts
  <2> QED BY <1>3, <1>5, <1>7, <2>1, StreamGrows
<1>9. QueueIsRest'
  <2>1. L + 1 <= a + 1
    BY <1>4
  <2> QED BY <1>3, <1>5, <1>6, <1>8, <2>1 DEF QueueIsRest
<1>10. PullNotForgotten' /\ pulls' \in Nat
  <2>1. pulls \in Nat
    BY OutputTyped
  <2> QED BY <1>2, <2>1, PullAsked
<1>11. PICK C \in Nat : C = Len(confirmationQueue) /\ a - C \in Nat
  BY <1>3, Lengths
<1>12. PICK e : e = [position |-> writePosition', promise |-> NoPromise]
  OBVIOUS
<1>13. e \in Confirmations /\ e.position = Pos(a, a + 1) /\ e.promise = NoPromise
  BY <1>6, <1>12 DEF Confirmations
<1>14. /\ confirmationQueue' \in Seq(Confirmations) /\ Len(confirmationQueue') = C + 1
       /\ confirmationQueue'[C + 1] = e /\ \A j \in 1 .. C : confirmationQueue'[j] = confirmationQueue[j]
  <2>1. confirmationQueue \in Seq(Confirmations) /\ confirmationQueue' = Append(confirmationQueue, e)
    BY <1>2, <1>12, OutputTyped
  <2> QED BY <1>11, <1>13, <2>1
<1>15. future' \in [Entries -> Futures] /\ future'[End] = "pending" /\ \A f \in Blocks : future'[f] = future[f]
  BY <1>2, OutputTyped, EndFacts DEF Futures
<1>16. TypeOK'
  BY <1>2, <1>5, <1>6, <1>10, <1>14, <1>15, OutputTyped, OutputTypes DEF YesNo
<1>17. InOrder'
  BY <1>2 DEF InOrder
<1>18. ConfirmationsMatch'
  <2>1. Total' - Len(confirmationQueue') = a - C /\ a - C >= 0
    BY <1>3, <1>11, <1>14
  <2>2. ASSUME NEW j \in 1 .. C + 1
        PROVE  /\ confirmationQueue'[j].position = Pos(a, (a - C) + j)
               /\ confirmationQueue'[j].promise # NoPromise =>
                    confirmationQueue'[j].promise = (a - C) + j /\ (a - C) + j <= a
    <3>1. CASE j \in 1 .. C
      BY <1>1, <1>3, <1>11, <1>14, <3>1 DEF ConfirmationsMatch
    <3>2. CASE j = C + 1
      <4>1. (a - C) + j = a + 1
        BY <1>11, <3>2
      <4> QED BY <1>13, <1>14, <3>2, <4>1
    <3> QED BY <1>11, <3>1, <3>2
  <2> QED BY <1>3, <1>14, <2>1, <2>2 DEF ConfirmationsMatch
<1>19. PromisesOwned'
  <2>1. Waiting' = Waiting /\ Waiting \subseteq Blocks
    BY <1>2, OutputTyped DEF Waiting
  <2>2. \A c \in Waiting \cup (confirming \cap Blocks) : future'[c] = "pending"
    BY <1>15, <2>1 DEF PromisesOwned
  <2>3. ASSUME NEW j \in 1 .. C + 1, confirmationQueue'[j].promise # NoPromise
        PROVE  future'[confirmationQueue'[j].promise] = "pending" /\ confirmationQueue'[j].promise \notin confirming
    <3>1. j \in 1 .. C /\ confirmationQueue'[j] = confirmationQueue[j]
      BY <1>11, <1>13, <1>14, <2>3
    <3>2. PICK c \in Blocks : c = confirmationQueue[j].promise
      BY <1>11, <2>3, <3>1, UnconfirmedAccepted
    <3>3. future[c] = "pending" /\ c \notin confirming
      BY <1>11, <2>3, <3>1, <3>2 DEF PromisesOwned
    <3> QED BY <1>15, <3>1, <3>2, <3>3
  <2>4. \A f \in Entries : future'[f] # "twice"
    BY <1>15 DEF PromisesOwned, Entries
  <2>5. \A c \in Blocks : future'[c] = "none" <=> c > written'
    BY <1>2, <1>15 DEF PromisesOwned
  <2>6. closeCalled' # "no"
    BY <1>2
  <2> QED BY <1>2, <1>14, <1>15, <2>1, <2>2, <2>3, <2>4, <2>5, <2>6 DEF PromisesOwned
<1>20. ConfirmedWhenRead'
  BY <1>2, <1>7, <1>15 DEF ConfirmedWhenRead
<1> QED BY <1>8, <1>9, <1>10, <1>16, <1>17, <1>18, <1>19, <1>20

\* A confirmed promise is set.
LEMMA ConfirmStep ==
    ASSUME IInv, NEW f \in Entries, Confirm(f), OnlyOutput
    PROVE  IInv' /\ (f # End => future'[End] = future[End]) /\ (future[End] = "ok" => future'[End] = "ok")
<1> USE DEF IInv
<1>1. /\ f \in confirming /\ confirming' = confirming \ {f}
      /\ future' = IF f = End THEN TrySettle(future, {f}, "ok") ELSE Settle(future, {f}, "ok")
      /\ UNCHANGED <<codec, written, compressing, outWindow, dataQueue, confirmationQueue, writePosition>>
      /\ UNCHANGED <<accepted, closeCalled, outError, outClosed, sentPosition, ackedPosition, payloadNumber, pulls>>
  BY DEF Confirm, queueVars
<1>2. /\ UNCHANGED <<inVars, payloads, pendingPayloads, feedbacks, readPosition, inClosed>>
  BY OnlyOutputLeaves
<1>3. QueueIsRest' /\ PayloadsAreCuts' /\ ReadIsPrefix' /\ ReadWaits' /\ UnreadFits' /\ Total' = Total
  BY <1>1, <1>2, QueueStays
<1>4. future \in [Entries -> Futures] /\ DOMAIN future = Entries /\ Blocks \subseteq Entries /\ End \in Entries
  BY OutputTyped, EndFacts DEF Entries
<1>5. /\ future' \in [Entries -> Futures] /\ \A g \in Entries \ {f} : future'[g] = future[g]
      /\ future'[f] # "twice" /\ (future'[f] = "none" <=> future[f] = "none")
      /\ future'[f] = "ok" \/ future'[f] = future[f]
  <2>1. CASE f = End
    <3>1. future' = TrySettle(future, {f}, "ok")
      BY <1>1, <2>1
    <3>2. future' = [g \in Entries |-> IF g \notin {h \in {f} : future[h] = "pending"} THEN future[g]
                                      ELSE IF future[g] = "pending" THEN "ok" ELSE "twice"]
      BY <1>4, <3>1 DEF TrySettle, Settle
    <3> QED BY <1>4, <3>2 DEF PromisesOwned, Futures
  <2>2. CASE f # End
    <3>1. future' = [g \in Entries |-> IF g \notin {f} THEN future[g]
                                      ELSE IF future[g] = "pending" THEN "ok" ELSE "twice"]
      BY <1>1, <1>4, <2>2 DEF Settle
    <3>2. future[f] = "pending"
      BY <1>1, <2>2 DEF PromisesOwned, Entries
    <3> QED BY <1>4, <3>1, <3>2 DEF Futures
  <2> QED BY <2>1, <2>2
<1>6. TypeOK'
  BY <1>1, <1>5, OutputTyped, OutputTypes
<1>7. InOrder'
  BY <1>1 DEF InOrder
<1>8. ConfirmationsMatch'
  BY <1>1, <1>3 DEF ConfirmationsMatch
<1>9. f \notin Waiting
  <2>1. f \in Blocks => f <= Len(accepted)
    BY <1>1 DEF ConfirmedWhenRead
  <2>2. f \in Waiting => f \in Blocks /\ f > Len(accepted)
    BY WaitingLater
  <2> QED BY <2>1, <2>2, Lengths, EndFacts
<1>10. PromisesOwned'
  <2>1. Waiting' = Waiting /\ Waiting \subseteq Blocks
    BY <1>1, OutputTyped DEF Waiting
  <2>2. ASSUME NEW c \in Waiting \cup (confirming' \cap Blocks) PROVE future'[c] = "pending"
    <3>1. c # f /\ c \in Entries
      BY <1>1, <1>4, <1>9, <2>1
    <3> QED BY <1>1, <1>5, <3>1 DEF PromisesOwned
  <2>3. ASSUME NEW j \in 1 .. Len(confirmationQueue), confirmationQueue[j].promise # NoPromise
        PROVE  future'[confirmationQueue[j].promise] = "pending" /\ confirmationQueue[j].promise \notin confirming'
    <3>1. PICK c \in Blocks : c = confirmationQueue[j].promise
      BY <2>3, UnconfirmedAccepted
    <3>2. future[c] = "pending" /\ c \notin confirming
      BY <2>3, <3>1 DEF PromisesOwned
    <3>3. c # f
      BY <1>1, <3>2
    <3> QED BY <1>1, <1>4, <1>5, <3>1, <3>2, <3>3
  <2>4. \A g \in Entries : future'[g] # "twice"
    BY <1>5 DEF PromisesOwned
  <2>5. \A g \in Entries : future'[g] = "none" <=> future[g] = "none"
    BY <1>5
  <2>6. \A c \in Blocks : future'[c] = "none" <=> c > written
    BY <1>4, <2>5 DEF PromisesOwned
  <2>7. future'[End] = "none" <=> closeCalled = "no"
    BY <1>4, <2>5 DEF PromisesOwned
  <2> QED BY <1>1, <2>1, <2>2, <2>3, <2>4, <2>6, <2>7 DEF PromisesOwned
<1>11. ConfirmedWhenRead'
  <2>1. \A g \in Entries : g \in confirming' \/ future'[g] = "ok" => g \in confirming \/ future[g] = "ok"
    BY <1>1, <1>5
  <2> QED BY <1>1, <1>2, <1>4, <2>1 DEF ConfirmedWhenRead
<1>12. PullNotForgotten'
  BY <1>1 DEF PullNotForgotten, CanPullMore
<1>13. (f # End => future'[End] = future[End]) /\ (future[End] = "ok" => future'[End] = "ok")
  BY <1>4, <1>5
<1> QED BY <1>3, <1>6, <1>7, <1>8, <1>10, <1>11, <1>12, <1>13

\* Abort of the output stream.
LEMMA DoAbortStep ==
    ASSUME IInv, DoAbort, TypeOK', UNCHANGED <<inVars, payloads, pendingPayloads, feedbacks>>
    PROVE  IInv' /\ (future'[End] = "ok" <=> future[End] = "ok")
<1> USE DEF IInv
<1>1. /\ outError' = "yes" /\ confirmationQueue' = <<>> /\ future' = TrySettle(future, Unconfirmed, "failed")
      /\ UNCHANGED <<codec, written, compressing, outWindow, dataQueue, closeCalled, outClosed, writePosition>>
      /\ UNCHANGED <<sentPosition, ackedPosition, payloadNumber, pulls, confirming, accepted>>
  BY DEF DoAbort
<1>2. QueueIsRest' /\ PayloadsAreCuts' /\ ReadIsPrefix' /\ ReadWaits' /\ UnreadFits' /\ Total' = Total
  BY <1>1, QueueStays
<1>3. future \in [Entries -> Futures] /\ DOMAIN future = Entries /\ Blocks \subseteq Entries /\ End \in Entries
  BY OutputTyped, EndFacts DEF Entries
<1>4. \A g \in Entries : /\ g \notin Unconfirmed => future'[g] = future[g]
                         /\ future'[g] = "failed" \/ future'[g] = future[g]
                         /\ future'[g] = "none" <=> future[g] = "none"
                         /\ future[g] = "ok" => future'[g] = "ok"
  <2>1. PICK U : U = Unconfirmed
    OBVIOUS
  <2>2. future' = [g \in Entries |-> IF g \notin {h \in U : future[h] = "pending"} THEN future[g]
                                    ELSE IF future[g] = "pending" THEN "failed" ELSE "twice"]
    BY <1>1, <1>3, <2>1 DEF TrySettle, Settle
  <2> QED BY <2>1, <2>2
<1>5. \A c \in Waiting \cup (confirming \cap Blocks) : c \notin Unconfirmed
  <2> SUFFICES ASSUME NEW c \in Waiting \cup (confirming \cap Blocks), c \in Unconfirmed PROVE FALSE
    OBVIOUS
  <2>1. c \in Blocks
    BY OutputTyped DEF Waiting
  <2>2. c # End
    BY <2>1, EndFacts
  <2>3. PICK j \in DOMAIN confirmationQueue : c = confirmationQueue[j].promise /\ c # NoPromise
    BY <2>2 DEF Unconfirmed
  <2>4. j \in 1 .. Len(confirmationQueue)
    BY OutputTyped
  <2>5. c \notin Waiting
    BY <2>3, <2>4, UnconfirmedAccepted
  <2>6. c \notin confirming
    BY <2>3, <2>4 DEF PromisesOwned
  <2> QED BY <2>5, <2>6
<1>6. InOrder'
  BY <1>1 DEF InOrder
<1>7. ConfirmationsMatch'
  <2>1. Len(confirmationQueue') = 0
    BY <1>1
  <2>2. Total - 0 >= 0 /\ 1 .. 0 = {}
    BY Lengths
  <2> QED BY <1>1, <1>2, <2>1, <2>2 DEF ConfirmationsMatch
<1>8. PromisesOwned'
  <2>1. Waiting' = Waiting /\ Waiting \subseteq Blocks
    BY <1>1, OutputTyped DEF Waiting
  <2>2. \A c \in Waiting \cup (confirming \cap Blocks) : future'[c] = "pending"
    BY <1>3, <1>4, <1>5, <2>1 DEF PromisesOwned
  <2>3. \A g \in Entries : future'[g] # "twice"
    BY <1>4 DEF PromisesOwned
  <2>4. \A c \in Blocks : future'[c] = "none" <=> c > written
    BY <1>3, <1>4 DEF PromisesOwned
  <2>5. future'[End] = "none" <=> closeCalled = "no"
    BY <1>3, <1>4 DEF PromisesOwned
  <2>6. 1 .. Len(confirmationQueue') = {}
    BY <1>1
  <2> QED BY <1>1, <2>1, <2>2, <2>3, <2>4, <2>5, <2>6 DEF PromisesOwned
<1>9. future'[End] = "ok" <=> future[End] = "ok"
  BY <1>3, <1>4
<1>10. ConfirmedWhenRead'
  <2>1. \A g \in Entries : future'[g] = "ok" => future[g] = "ok"
    BY <1>4
  <2>2. UNCHANGED <<readPosition, inClosed>>
    BY DEF inVars
  <2> QED BY <1>1, <1>3, <2>1, <2>2 DEF ConfirmedWhenRead
<1>11. PullNotForgotten'
  BY <1>1 DEF PullNotForgotten
<1> QED BY <1>2, <1>6, <1>7, <1>8, <1>9, <1>10, <1>11

\* What remains of a sequence without its first k elements.
LEMMA RestOf ==
    ASSUME NEW S, NEW q \in Seq(S), NEW k \in Nat, NEW m \in Nat, Len(q) = k + m,
           NEW r, r = SubSeq(q, k + 1, Len(q))
    PROVE  r \in Seq(S) /\ Len(r) = m /\ \A j \in 1 .. m : r[j] = q[k + j] /\ k + j \in 1 .. Len(q)
<1>1. k + 1 \in 1 .. Len(q) + 1 /\ Len(q) + 1 - (k + 1) = m
  OBVIOUS
<1>2. \A j \in 1 .. m : k + 1 + j - 1 = k + j /\ k + j \in 1 .. Len(q)
  OBVIOUS
<1>3. Len(r) = m
  BY <1>1
<1>4. r \in Seq(S)
  BY <1>1
<1>5. ASSUME NEW j \in 1 .. m PROVE r[j] = q[k + j]
  <2>1. j \in 1 .. Len(q) + 1 - (k + 1)
    BY <1>1
  <2>2. r[j] = q[k + 1 + j - 1]
    BY <1>1, <2>1
  <2>3. k + 1 + j - 1 = k + j
    BY <1>2
  <2> QED BY <2>2, <2>3
<1> QED BY <1>2, <1>3, <1>4, <1>5

\* Feedback moves the window.
LEMMA FeedbackStep ==
    ASSUME IInv, NEW position \in feedbacks, HandleFeedback(position), feedbacks' = feedbacks \ {position},
           UNCHANGED <<inVars, timeouts, bus, payloads, cancelation, reply, request, serverVars>>
    PROVE  IInv' /\ UNCHANGED future
<1> USE DEF IInv
<1>1. PICK a \in 0 .. N : a = Len(accepted)
  BY Lengths
<1>2. PICK C \in Nat : C = Len(confirmationQueue)
  BY Lengths
<1>3. PICK t \in Nat : t = Total - C /\ Total \in Nat /\ t + C = Total
  <2>1. Total - C \in Nat /\ Total \in Nat
    BY <1>2, Lengths
  <2> QED BY <2>1
<1>4. /\ position \in Nat /\ position <= readPosition /\ readPosition \in Nat /\ WindowSize \in Nat
  BY PositionsOrdered, EndFacts DEF ConfirmedWhenRead, TypeOK
<1>5. PICK K : K = {i \in 1 .. C : confirmationQueue[i].position <= position + WindowSize}
  OBVIOUS
<1>6. PICK k \in 0 .. C : k = Cardinality(K) /\ K = 1 .. k
  <2>1. \A j \in 1 .. C : confirmationQueue[j].position = Pos(a, t + j) /\ Pos(a, t + j) \in Nat
    <3> TAKE j \in 1 .. C
    <3>1. t + j \in Nat
      OBVIOUS
    <3>2. Pos(a, t + j) \in Nat
      BY <3>1, PosNext
    <3> QED BY <1>1, <1>2, <1>3, <3>2 DEF ConfirmationsMatch
  <2>2. ASSUME NEW i \in K, NEW j \in 1 .. i PROVE j \in K
    <3>1. i \in 1 .. C /\ j \in 1 .. C
      BY <1>5
    <3>2. t + i \in Nat /\ t + j \in Nat /\ t + j <= t + i
      BY <3>1
    <3>3. Pos(a, t + j) <= Pos(a, t + i)
      BY <3>2, PosOrder
    <3>4. Pos(a, t + i) <= position + WindowSize
      BY <1>5, <2>1, <3>1
    <3>5. Pos(a, t + j) <= position + WindowSize
      BY <1>4, <2>1, <3>1, <3>3, <3>4
    <3> QED BY <1>5, <2>1, <3>1, <3>5
  <2>3. K \in SUBSET (1 .. C)
    BY <1>5
  <2>4. Cardinality(K) \in 0 .. C /\ K = 1 .. Cardinality(K)
    BY <2>2, <2>3, DownSet
  <2> QED BY <2>4
<1>7. PICK P : P = {confirmationQueue[i].promise : i \in 1 .. k} \ {NoPromise}
  OBVIOUS
<1>8. PICK E : E = {f \in {End} : closeCalled = "yes" /\ position = writePosition}
  OBVIOUS
<1>9. /\ outError = "no" /\ ackedPosition' = position
      /\ confirmationQueue' = SubSeq(confirmationQueue, k + 1, C)
      /\ confirming' = confirming \cup P \cup E
      /\ outClosed' = (IF closeCalled = "yes" /\ position = writePosition THEN "yes" ELSE outClosed)
      /\ pulls' = PullsAfter(dataQueue', sentPosition', ackedPosition')
      /\ UNCHANGED <<codec, written, compressing, outWindow, dataQueue, closeCalled, outError>>
      /\ UNCHANGED <<writePosition, sentPosition, payloadNumber, future, accepted>>
  <2>1. DOMAIN confirmationQueue = 1 .. C
    BY <1>2, OutputTyped
  <2> QED BY <1>2, <1>5, <1>6, <1>7, <1>8, <2>1 DEF HandleFeedback
<1>10. QueueIsRest' /\ PayloadsAreCuts' /\ ReadIsPrefix' /\ ReadWaits' /\ UnreadFits' /\ Total' = Total
  <2>1. UNCHANGED <<inVars, payloads, pendingPayloads>>
    BY DEF serverVars
  <2> QED BY <1>9, <2>1, QueueStays
<1>11. \A j \in 1 .. C : confirmationQueue[j].position = Pos(a, t + j) /\
         (confirmationQueue[j].promise # NoPromise => confirmationQueue[j].promise = t + j /\ t + j <= a)
  BY <1>1, <1>2, <1>3 DEF ConfirmationsMatch
<1>12. PICK m \in Nat : m = C - k /\ C = k + m
  <2>1. C - k \in Nat /\ C = k + (C - k)
    BY <1>6
  <2> QED BY <2>1
<1>13. /\ confirmationQueue' \in Seq(Confirmations) /\ Len(confirmationQueue') = m
       /\ \A j \in 1 .. m : confirmationQueue'[j] = confirmationQueue[k + j] /\ k + j \in 1 .. C
  <2>1. PICK q \in Seq(Confirmations) : q = confirmationQueue
    BY OutputTyped
  <2>2. k \in Nat /\ Len(q) = k + m
    BY <1>2, <1>12, <2>1
  <2>3. PICK r : r = SubSeq(q, k + 1, Len(q))
    OBVIOUS
  <2>4. r \in Seq(Confirmations) /\ Len(r) = m /\ \A j \in 1 .. m : r[j] = q[k + j] /\ k + j \in 1 .. Len(q)
    BY <2>2, <2>3, RestOf
  <2>5. confirmationQueue' = r /\ Len(q) = C
    BY <1>2, <1>9, <2>1, <2>3
  <2> QED BY <2>1, <2>4, <2>5
<1>14. \A c \in P : /\ c \in Blocks /\ c <= a /\ Pos(a, c) <= readPosition + WindowSize /\ future[c] = "pending"
                    /\ c \in 1 .. t + k
  <2> TAKE c \in P
  <2>1. PICK i \in 1 .. k : c = confirmationQueue[i].promise /\ c # NoPromise
    BY <1>7
  <2>a. i \in K
    BY <1>6
  <2>b. K \subseteq 1 .. C
    BY <1>5
  <2>2. i \in 1 .. C /\ i \in K
    BY <2>a, <2>b
  <2>3. c = t + i /\ t + i <= a /\ confirmationQueue[i].position = Pos(a, c)
    BY <1>11, <2>1, <2>2
  <2>4. c \in Blocks /\ c \in 1 .. t + k
    BY <1>6, <2>1, <2>3, EndFacts
  <2>5. Pos(a, c) <= position + WindowSize
    BY <1>5, <2>2, <2>3
  <2>6. Pos(a, c) \in Nat
    <3>1. c \in Nat
      BY <2>3
    <3> QED BY <3>1, PosNext
  <2>7. Pos(a, c) <= readPosition + WindowSize
    BY <1>4, <2>5, <2>6
  <2>8. future[c] = "pending"
    BY <1>2, <2>1, <2>2 DEF PromisesOwned
  <2> QED BY <2>3, <2>4, <2>7, <2>8
<1>15. closeCalled = "yes" /\ position = writePosition => inClosed = "yes"
  <2> SUFFICES ASSUME closeCalled = "yes", position = writePosition PROVE inClosed = "yes"
    OBVIOUS
  <2>1. Len(got) = Total
    BY <1>4, PositionsOrdered
  <2>2. Total = a + 1
    BY <1>1, Lengths
  <2> QED BY <1>1, <2>1, <2>2 DEF ReadIsPrefix
<1>16. PullNotForgotten' /\ pulls' \in Nat
  <2>1. pulls \in Nat
    BY OutputTyped
  <2> QED BY <1>9, <2>1, PullAsked
<1>17. P \subseteq Blocks /\ Blocks \subseteq Entries /\ End \in Entries /\ End \notin Blocks /\ E \subseteq {End}
  BY <1>8, <1>14, EndFacts DEF Entries
<1>18. TypeOK'
  <2>1. confirming' \subseteq Entries
    BY <1>9, <1>17, OutputTyped
  <2>2. outClosed' \in YesNo /\ outError \in YesNo /\ closeCalled \in YesNo
    BY <1>9, OutputTyped DEF YesNo
  <2>3. /\ UNCHANGED <<maxWindowSize, inWindow, queue, promise, inError, inClosed, readPosition, readFuture, inRead>>
        /\ UNCHANGED <<owed, inAbort, got, server, pendingPayloads, lost>>
    BY DEF inVars, serverVars
  <2>4. feedbacks' \subseteq Nat
    BY DEF TypeOK
  <2> QED BY <1>4, <1>9, <1>13, <1>16, <2>1, <2>2, <2>3, <2>4 DEF TypeOK
<1>19. InOrder'
  BY <1>9 DEF InOrder
<1>20. ConfirmationsMatch'
  <2>1. PICK u \in Nat : u = t + k
    BY <1>6
  <2>2. Total' - Len(confirmationQueue') = u
    <3>1. Total' = t + C
      BY <1>3, <1>10
    <3>2. Len(confirmationQueue') = m
      BY <1>13
    <3>3. t \in Nat /\ k \in Nat /\ t + C - m = u
      BY <1>12, <2>1
    <3> QED BY <3>1, <3>2, <3>3
  <2>3. ASSUME NEW j \in 1 .. m
        PROVE  /\ confirmationQueue'[j].position = Pos(a, u + j)
               /\ confirmationQueue'[j].promise # NoPromise =>
                    confirmationQueue'[j].promise = u + j /\ u + j <= a
    <3>1. u + j = t + (k + j)
      BY <2>1, <1>6
    <3> QED BY <1>11, <1>13, <3>1
  <2>4. Len(accepted') = a
    BY <1>1, <1>9
  <2> QED BY <1>13, <2>1, <2>2, <2>3, <2>4 DEF ConfirmationsMatch
<1>21. PromisesOwned'
  <2>1. Waiting' = Waiting
    BY <1>9 DEF Waiting
  <2>2. \A c \in Waiting \cup (confirming' \cap Blocks) : future[c] = "pending"
    BY <1>9, <1>14, <1>17 DEF PromisesOwned
  <2>3. ASSUME NEW j \in 1 .. m, confirmationQueue'[j].promise # NoPromise
        PROVE  future[confirmationQueue'[j].promise] = "pending" /\ confirmationQueue'[j].promise \notin confirming'
    <3>1. PICK i \in 1 .. C : i = k + j /\ confirmationQueue'[j] = confirmationQueue[i]
      BY <1>13
    <3>2. PICK c \in Blocks : c = confirmationQueue[i].promise /\ c # NoPromise
      BY <1>2, <2>3, <3>1, UnconfirmedAccepted
    <3>3. future[c] = "pending" /\ c \notin confirming
      BY <1>2, <3>2 DEF PromisesOwned
    <3>4. c = t + i
      BY <1>11, <3>2
    <3>5. c \notin 1 .. t + k
      <4>1. c = t + (k + j) /\ k \in Nat /\ j \in Nat /\ j >= 1
        BY <3>1, <3>4
      <4> QED BY <4>1
    <3>6. c \notin P /\ c \notin E
      BY <1>14, <1>17, <3>5
    <3> QED BY <1>9, <3>1, <3>2, <3>3, <3>6
  <2> QED BY <1>9, <1>13, <2>1, <2>2, <2>3 DEF PromisesOwned
<1>22. ConfirmedWhenRead'
  <2>1. UNCHANGED <<readPosition, inClosed>> /\ feedbacks' \subseteq feedbacks /\ Len(accepted') = a
    BY <1>1, <1>9 DEF inVars
  <2>2. ASSUME NEW c \in Blocks, c \in confirming' \/ future[c] = "ok"
        PROVE  c <= a /\ Pos(a, c) <= readPosition + WindowSize
    <3>1. CASE c \in P
      BY <1>14, <3>1
    <3>2. CASE c \notin P
      BY <1>1, <1>9, <1>17, <2>2, <3>2 DEF ConfirmedWhenRead
    <3> QED BY <3>1, <3>2
  <2>3. End \in confirming' \/ outClosed' = "yes" \/ future[End] = "ok" => inClosed = "yes"
    BY <1>8, <1>9, <1>15, <1>17 DEF ConfirmedWhenRead
  <2> QED BY <1>4, <1>9, <2>1, <2>2, <2>3 DEF ConfirmedWhenRead
<1> QED BY <1>9, <1>10, <1>16, <1>18, <1>19, <1>20, <1>21, <1>22

\* TryPull takes as many entries as the window admits, and no fewer.
LEMMA PullCounts ==
    ASSUME IInv
    PROVE  /\ PullCount \in 0 .. Len(dataQueue)
           /\ outError = "yes" => PullCount = 0
           /\ PullCount > 0 => CanPullMore(dataQueue, PullCount, sentPosition, ackedPosition)
           /\ outError = "no" /\ PullCount < Len(dataQueue) =>
                ~ CanPullMore(dataQueue, PullCount + 1, sentPosition, ackedPosition)
<1>1. PICK L \in Nat : L = Len(dataQueue)
  BY Lengths
<1>2. outError \in {"yes", "no"}
  BY Lengths
<1>3. CASE outError = "yes"
  BY <1>1, <1>3 DEF PullCount
<1>4. CASE outError = "no"
  <2>1. PICK T : T = {n \in 0 .. L : \A i \in 1 .. n : CanPullMore(dataQueue, i, sentPosition, ackedPosition)}
    OBVIOUS
  <2>2. T \in SUBSET (0 .. L) /\ 0 \in T
    BY <2>1
  <2>3. Max(T) \in T /\ \A k \in T : k <= Max(T)
    BY <2>2, LargestNat
  <2>4. PICK n \in T : n = PullCount /\ \A k \in T : k <= n
    BY <1>1, <1>4, <2>1, <2>3 DEF PullCount
  <2>5. n \in 0 .. L /\ \A i \in 1 .. n : CanPullMore(dataQueue, i, sentPosition, ackedPosition)
    BY <2>1
  <2>6. n > 0 => CanPullMore(dataQueue, n, sentPosition, ackedPosition)
    <3>1. n > 0 => n \in 1 .. n
      BY <2>5
    <3> QED BY <2>5, <3>1
  <2>7. ASSUME n < L, CanPullMore(dataQueue, n + 1, sentPosition, ackedPosition) PROVE FALSE
    <3>1. \A i \in 1 .. n + 1 : i \in 1 .. n \/ i = n + 1
      BY <2>5
    <3>2. n + 1 \in 0 .. L
      BY <2>5, <2>7
    <3>3. n + 1 \in T
      BY <2>1, <2>5, <2>7, <3>1, <3>2
    <3>4. n + 1 <= n
      BY <2>4, <3>3
    <3> QED BY <2>5, <3>4
  <2> QED BY <1>1, <1>4, <2>4, <2>5, <2>6, <2>7
<1> QED BY <1>2, <1>3, <1>4

\* A payload is pulled and sent.
LEMMA PullStep ==
    ASSUME IInv, Pull
    PROVE  IInv'
<1> USE DEF IInv
<1>1. PICK n \in Nat : n = PullCount
  BY PullCounts, Lengths
<1>2. PICK a \in 0 .. N : a = Len(accepted)
  BY Lengths
<1>3. PICK L \in Nat : L = Len(dataQueue) /\ n \in 0 .. L
  BY <1>1, PullCounts, Lengths
<1>4. PICK S \in Nat : S = Sent /\ S + L = Total /\ Total \in Nat
  BY <1>3, Lengths
<1>5. PICK sp \in Nat : sp = payloadNumber
  BY OutputTyped
<1>6. /\ pulls > 0 /\ pulls' = pulls - 1 /\ sentPosition' = sentPosition + Bytes(dataQueue, n)
      /\ dataQueue' = SubSeq(dataQueue, n + 1, L)
      /\ payloadNumber' = (IF n = 0 THEN sp ELSE sp + 1)
      /\ UNCHANGED <<codec, written, compressing, outWindow, confirmationQueue, closeCalled, outError>>
      /\ UNCHANGED <<outClosed, writePosition, ackedPosition, future, confirming, accepted>>
  BY <1>1, <1>3, <1>5 DEF Pull, TryPull
<1>7. /\ UNCHANGED <<maxWindowSize, inWindow, queue, promise, inError, inClosed, readPosition, readFuture, inRead>>
      /\ UNCHANGED <<owed, inAbort, got, timeouts, bus, feedbacks, cancelation, reply, request>>
      /\ UNCHANGED <<server, pendingPayloads, lost>>
  BY DEF Pull, inVars, serverVars
<1>8. dataQueue = Run(a, S, L) /\ sentPosition = Pos(a, S) /\ writePosition = Pos(a, S + L)
  BY <1>2, <1>3, <1>4 DEF QueueIsRest
<1>9. PICK r \in Nat : r = L - n /\ n + r = L
  <2>1. L - n \in Nat /\ n + (L - n) = L
    BY <1>3
  <2> QED BY <2>1
<1>10. /\ dataQueue' = Run(a, S + n, r) /\ Len(dataQueue') = r /\ dataQueue' \in Seq(Entries)
       /\ SubSeq(dataQueue, 1, n) = Run(a, S, n)
  <2>1. n \in 0 .. L
    BY <1>3
  <2>2. SubSeq(Run(a, S, L), n + 1, L) = Run(a, S + n, L - n) /\ SubSeq(Run(a, S, L), 1, n) = Run(a, S, n)
    BY <2>1, RunSubSeq
  <2>3. S + n \in Nat
    OBVIOUS
  <2>4. Len(Run(a, S + n, r)) = r /\ Run(a, S + n, r) \in Seq(Entries)
    BY <2>3, RunType
  <2>5. dataQueue' = Run(a, S + n, r)
    BY <1>6, <1>8, <1>9, <2>2
  <2> QED BY <1>8, <2>2, <2>4, <2>5
<1>11. Total' = Total /\ Sent' = S + n
  <2>1. Total' = Total
    BY <1>6 DEF Total
  <2>2. Sent' = Total' - Len(dataQueue')
    BY DEF Sent
  <2>3. Total = S + L
    BY <1>4
  <2>4. Len(dataQueue') = r
    BY <1>10
  <2>5. S + L - r = S + n
    BY <1>9
  <2> QED BY <2>1, <2>2, <2>3, <2>4, <2>5
<1>12. \A k \in 0 .. L : Pos(a, S + k) = sentPosition + Bytes(dataQueue, k) /\ Pos(a, S + k) \in Nat
  <2> TAKE k \in 0 .. L
  <2>1. Pos(a, S + k) \in Nat /\ Pos(a, S + k) = Pos(a, S) + Bytes(Run(a, S, L), k)
    BY RunBytes
  <2> QED BY <1>8, <2>1
<1>13. sentPosition' = Pos(a, S + n) /\ sentPosition' \in Nat
  BY <1>3, <1>6, <1>12
<1>14. QueueIsRest'
  <2>1. r <= Total
    BY <1>4, <1>9
  <2>2. writePosition = Pos(a, Total)
    BY <1>4, <1>8
  <2> QED BY <1>2, <1>6, <1>10, <1>11, <1>13, <2>1, <2>2 DEF QueueIsRest
<1>15. /\ ackedPosition \in Nat /\ readPosition \in Nat /\ sentPosition \in Nat
       /\ ackedPosition <= readPosition /\ readPosition <= sentPosition
       /\ WindowSize \in Nat /\ sentPosition \in Nat
       /\ readPosition = sentPosition => Len(got) = S
  BY <1>4, PositionsOrdered, EndFacts
<1>16. UnreadFits'
  <2>1. CASE n = 0
    <3>1. Sent' = Sent /\ sentPosition' = sentPosition
      BY <1>4, <1>8, <1>11, <1>13, <2>1
    <3> QED BY <1>7, <3>1 DEF UnreadFits
  <2>2. CASE n > 0
    <3>1. \/ sentPosition - ackedPosition + Bytes(dataQueue, n) <= WindowSize
          \/ n = 1 /\ sentPosition = ackedPosition
      BY <1>1, <2>2, PullCounts DEF CanPullMore
    <3>2. CASE n = 1 /\ sentPosition = ackedPosition
      <4>1. Len(got) = S
        BY <1>15, <3>2
      <4>2. Sent' - Len(got') <= 1
        BY <1>7, <1>11, <3>2, <4>1
      <4> QED BY <4>2 DEF UnreadFits
    <3>3. CASE sentPosition - ackedPosition + Bytes(dataQueue, n) <= WindowSize
      <4>1. PICK B : B = Bytes(dataQueue, n) /\ sentPosition' = sentPosition + B /\ B \in Int
        <5>1. Bytes(dataQueue, n) \in Nat
          <6>1. Bytes(Run(a, S, L), n) \in Nat
            BY <1>3, RunBytes
          <6> QED BY <1>8, <6>1
        <5> QED BY <1>6, <5>1
      <4>2. sentPosition' - readPosition' <= WindowSize
        BY <1>7, <1>15, <3>3, <4>1
      <4> QED BY <4>2 DEF UnreadFits
    <3> QED BY <3>1, <3>2, <3>3
  <2> QED BY <2>1, <2>2
<1>17. PullNotForgotten'
  <2> SUFFICES ASSUME outError' = "no", dataQueue' # <<>>,
                      CanPullMore(dataQueue', 1, sentPosition', ackedPosition')
               PROVE  FALSE
    BY DEF PullNotForgotten, CanPullMore
  <2>1. r # 0
    <3>1. Run(a, S + n, 0) = <<>>
      <4>1. S + n \in Nat /\ 0 \in Nat
        OBVIOUS
      <4>2. Run(a, S + n, 0) \in Seq(Entries) /\ Len(Run(a, S + n, 0)) = 0
        BY <4>1, RunType
      <4> QED BY <4>2
    <3> QED BY <1>10, <3>1
  <2>2. n + 1 \in 0 .. L /\ n < L
    BY <1>9, <2>1
  <2>3. ~ CanPullMore(dataQueue, n + 1, sentPosition, ackedPosition)
    BY <1>1, <1>3, <1>6, <2>2, PullCounts
  <2>4. PICK d \in Nat : d = S + n
    OBVIOUS
  <2>5. Pos(a, d + 1) = sentPosition' + Bytes(dataQueue', 1)
    <3>1. 1 \in 0 .. r
      BY <2>1
    <3>2. Pos(a, d + 1) = Pos(a, d) + Bytes(Run(a, d, r), 1)
      BY <3>1, RunBytes
    <3> QED BY <1>10, <1>13, <2>4, <3>2
  <2>6. Pos(a, d + 1) = sentPosition + Bytes(dataQueue, n + 1) /\ Pos(a, d + 1) \in Nat
    <3>1. Pos(a, S + (n + 1)) = sentPosition + Bytes(dataQueue, n + 1) /\ Pos(a, S + (n + 1)) \in Nat
      BY <1>12, <2>2
    <3>2. S + (n + 1) = d + 1
      BY <2>4
    <3> QED BY <3>1, <3>2
  <2>7. CASE sentPosition' = ackedPosition'
    <3>1. Pos(a, d) <= Pos(a, S)
      BY <1>6, <1>8, <1>13, <1>15, <2>4, <2>7
    <3>2. d <= S
      BY <3>1, PosOrder
    <3>3. n = 0 /\ n + 1 = 1
      BY <2>4, <3>2
    <3>4. sentPosition = ackedPosition
      BY <1>6, <1>8, <1>13, <2>7, <3>3
    <3> QED BY <2>3, <3>3, <3>4 DEF CanPullMore
  <2>8. CASE sentPosition' - ackedPosition' + Bytes(dataQueue', 1) <= WindowSize
    <3>1. Bytes(dataQueue', 1) \in Nat /\ Bytes(dataQueue, n + 1) \in Nat
      <4>1. 1 \in 0 .. r
        BY <2>1
      <4>2. Bytes(Run(a, d, r), 1) \in Nat
        BY <4>1, RunBytes
      <4>3. Bytes(Run(a, S, L), n + 1) \in Nat
        BY <2>2, RunBytes
      <4> QED BY <1>8, <1>10, <2>4, <4>2, <4>3
    <3>2. sentPosition - ackedPosition + Bytes(dataQueue, n + 1) <= WindowSize
      <4>1. PICK x \in Nat, y \in Nat : x = Bytes(dataQueue', 1) /\ y = Bytes(dataQueue, n + 1)
        BY <3>1
      <4>2. sentPosition' + x = sentPosition + y
        BY <2>5, <2>6, <4>1
      <4>3. sentPosition' - ackedPosition + x <= WindowSize
        BY <1>6, <2>8, <4>1
      <4>4. PICK z \in Nat, u \in Nat, v \in Nat, w \in Nat :
              z = sentPosition' /\ u = sentPosition /\ v = ackedPosition /\ w = WindowSize
        BY <1>13, <1>15
      <4>6. z + x = u + y /\ z - v + x <= w
        BY <4>2, <4>3, <4>4
      <4>7. u - v + y <= w
        BY <4>6
      <4>5. sentPosition - ackedPosition + y <= WindowSize
        BY <4>4, <4>7
      <4> QED BY <4>1, <4>5
    <3> QED BY <2>3, <3>2 DEF CanPullMore
  <2> QED BY <2>7, <2>8 DEF CanPullMore
<1>18. PICK new \in SUBSET Payloads :
         /\ payloads' \subseteq payloads \cup new
         /\ \A p \in new : n # 0 /\ p.seq = sp /\ p.blocks = Run(a, S, n)
  <2>1. CASE n = 0
    <3>1. payloads' \subseteq payloads \cup {}
      BY <1>1, <2>1 DEF Pull, PulledPayload
    <3>2. {} \in SUBSET Payloads /\ \A p \in {} : FALSE
      OBVIOUS
    <3> QED BY <3>1, <3>2
  <2>2. CASE n # 0
    <3>1. PICK p : p = [seq |-> sp, blocks |-> Run(a, S, n)]
      OBVIOUS
    <3>2. payloads' \subseteq payloads \cup {p}
      BY <1>1, <1>5, <1>10, <2>2, <3>1 DEF Pull, PulledPayload
    <3>3. Run(a, S, n) \in Seq(Entries)
      BY RunType
    <3>4. p \in Payloads /\ p.seq = sp /\ p.blocks = Run(a, S, n)
      BY <3>1, <3>3 DEF Payloads
    <3>5. {p} \in SUBSET Payloads
      BY <3>4
    <3> QED BY <2>2, <3>2, <3>4, <3>5
  <2> QED BY <2>1, <2>2
<1>19. TypeOK'
  <2>1. payloads' \cup pendingPayloads' \subseteq Payloads
    BY <1>7, <1>18 DEF TypeOK
  <2>2. payloadNumber' \in Nat /\ pulls' \in Nat
    BY <1>5, <1>6, OutputTyped
  <2> QED BY <1>6, <1>7, <1>10, <1>13, <2>1, <2>2 DEF TypeOK
<1>20. PayloadsAreCuts'
  <2>1. PICK cut \in [0 .. sp -> 0 .. S] :
          /\ cut[0] = 0 /\ cut[sp] = S
          /\ \A s, t \in 0 .. sp : s <= t => cut[s] <= cut[t]
          /\ \A p \in payloads \cup pendingPayloads : Holds(cut, p.seq, p.blocks)
          /\ \A p \in inWindow.held : Holds(cut, p.seq, p.data)
          /\ inWindow.next <= sp
          /\ cut[inWindow.next] = Len(got) + Len(queue)
    BY <1>4, <1>5 DEF PayloadsAreCuts, CutsAt
  <2>2. PICK np \in Nat : np = payloadNumber' /\ sp <= np /\ np <= sp + 1 /\ (n = 0 <=> np = sp)
    BY <1>6
  <2>3. PICK c : c = [s \in 0 .. np |-> IF s <= sp THEN cut[s] ELSE S + n]
    OBVIOUS
  <2>4. \A s \in 0 .. sp : c[s] = cut[s] /\ cut[s] \in 0 .. S /\ s \in 0 .. np
    BY <2>1, <2>2, <2>3
  <2>5. \A s \in 0 .. np : s \in 0 .. sp \/ (n # 0 /\ s = np /\ s = sp + 1 /\ c[s] = S + n)
    BY <2>2, <2>3
  <2>6. c \in [0 .. np -> 0 .. S + n]
    <3>1. \A s \in 0 .. np : c[s] \in 0 .. S + n
      BY <2>4, <2>5
    <3> QED BY <2>3, <3>1
  <2>7. c[0] = 0 /\ c[np] = S + n
    <3>1. 0 \in 0 .. sp /\ np \in 0 .. np /\ sp \in 0 .. sp
      BY <2>2
    <3>2. CASE np = sp
      BY <2>1, <2>2, <2>4, <3>1, <3>2
    <3>3. CASE np # sp
      <4>1. np = sp + 1
        BY <2>2, <3>3
      <4>2. np \notin 0 .. sp
        BY <4>1
      <4> QED BY <2>1, <2>4, <2>5, <3>1, <4>2
    <3> QED BY <3>2, <3>3
  <2>8. ASSUME NEW s \in 0 .. np, NEW t \in 0 .. np, s <= t PROVE c[s] <= c[t]
    <3>1. CASE t \in 0 .. sp
      <4>1. s \in 0 .. sp
        BY <2>8, <3>1
      <4> QED BY <2>1, <2>4, <2>8, <3>1, <4>1
    <3>2. CASE t \notin 0 .. sp
      <4>1. c[t] = S + n
        BY <2>5, <3>2
      <4>2. c[s] \in 0 .. S + n
        BY <2>6
      <4> QED BY <4>1, <4>2
    <3> QED BY <3>1, <3>2
  <2>9. ASSUME NEW s \in Nat, NEW q, Holds(cut, s, q)
        PROVE  s < np /\ q = Run(a, c[s], c[s + 1] - c[s])
    <3>1. s < sp /\ q = Run(a, cut[s], cut[s + 1] - cut[s])
      BY <1>2, <1>5, <2>9 DEF Holds
    <3>2. s \in 0 .. sp /\ s + 1 \in 0 .. sp /\ s < np
      BY <2>2, <3>1
    <3> QED BY <2>4, <3>1, <3>2
  <2>10. ASSUME NEW p \in new PROVE p.seq < np /\ p.blocks = Run(a, c[p.seq], c[p.seq + 1] - c[p.seq])
    <3>1. n # 0 /\ p.seq = sp /\ p.blocks = Run(a, S, n)
      BY <1>18
    <3>2. np = sp + 1
      BY <2>2, <3>1
    <3>3. sp \in 0 .. sp
      OBVIOUS
    <3>4. c[sp] = S /\ c[sp + 1] = S + n
      BY <2>1, <2>4, <2>7, <3>2, <3>3
    <3>5. (S + n) - S = n
      OBVIOUS
    <3> QED BY <3>1, <3>2, <3>4, <3>5
  <2>11. \A p \in payloads' \cup pendingPayloads' :
           p.seq < np /\ p.blocks = Run(a, c[p.seq], c[p.seq + 1] - c[p.seq])
    <3>1. \A p \in payloads \cup pendingPayloads : p.seq \in Nat
      BY DEF TypeOK, Payloads
    <3> QED BY <1>7, <1>18, <2>1, <2>9, <2>10, <3>1
  <2>12. \A p \in inWindow'.held : p.seq < np /\ p.data = Run(a, c[p.seq], c[p.seq + 1] - c[p.seq])
    <3>1. \A p \in inWindow.held : p.seq \in Nat
      BY DEF TypeOK
    <3> QED BY <1>7, <2>1, <2>9, <3>1
  <2>13. inWindow'.next <= np /\ c[inWindow'.next] = Len(got') + Len(queue')
    <3>1. inWindow.next \in Nat
      BY DEF TypeOK
    <3>2. inWindow.next \in 0 .. sp /\ inWindow.next <= np
      BY <2>1, <2>2, <3>1
    <3> QED BY <1>7, <2>1, <2>4, <3>2
  <2>14. CutsAt(c)'
    BY <1>11, <2>2, <2>7, <2>8 DEF CutsAt
  <2>15. Len(accepted') = a
    BY <1>2, <1>6
  <2> QED BY <1>11, <2>2, <2>6, <2>11, <2>12, <2>13, <2>14, <2>15 DEF PayloadsAreCuts, Holds
<1>21. ReadIsPrefix'
  <2>1. Len(got) + Len(queue) <= S + n
    BY <1>4, Lengths
  <2> QED BY <1>6, <1>7, <1>11, <2>1 DEF ReadIsPrefix
<1>22. InOrder' /\ ReadWaits'
  BY <1>6, <1>7 DEF InOrder, ReadWaits
<1>23. ConfirmationsMatch'
  BY <1>6, <1>11 DEF ConfirmationsMatch
<1>24. PromisesOwned'
  BY <1>6 DEF PromisesOwned, Waiting
<1>25. ConfirmedWhenRead'
  BY <1>6, <1>7 DEF ConfirmedWhenRead
<1> QED BY <1>14, <1>16, <1>17, <1>19, <1>20, <1>21, <1>22, <1>23, <1>24, <1>25

-----------------------------------------------------------------------------
(* The input stream.                                                       *)

\* The l entries that follow those that were read are there to be read.
Readable(q, l) == q = Run(Len(accepted), Len(got), l) /\ Len(got) + l <= Sent

\* The next entry is read.
TakesNext ==
    /\ Len(got) < Total
    /\ got' = Append(got, Entry(Len(accepted), Len(got) + 1))
    /\ inClosed = "no" /\ inClosed' = IF Len(got) < Len(accepted) THEN "no" ELSE "yes"

\* Taking an entry moves the read position to its end.
LEMMA PopFacts ==
    ASSUME IInv, NEW q, NEW l \in Nat, Readable(q, l), q # <<>>, Pop(q), UNCHANGED accepted
    PROVE  /\ Len(got') = Len(got) + 1 /\ Len(queue') = l - 1 /\ l \in Nat \ {0}
           /\ got' = Run(Len(accepted), 0, Len(got) + 1)
           /\ queue' = Run(Len(accepted), Len(got) + 1, l - 1)
           /\ readPosition' = Pos(Len(accepted), Len(got) + 1)
           /\ readPosition' >= readPosition /\ readPosition' \in Nat
           /\ inClosed' = "yes" <=> Len(got) + 1 > Len(accepted)
           /\ got' \in Seq(Entries) /\ queue' \in Seq(Entries) /\ inClosed' \in YesNo
           /\ TakesNext
<1> USE DEF IInv
<1>1. PICK a \in 0 .. N : a = Len(accepted)
  BY Lengths
<1>2. PICK g \in Nat : g = Len(got)
  BY Lengths
<1>3. q = Run(a, g, l) /\ g + l <= Sent /\ Sent \in Nat /\ Total \in Nat /\ Sent <= Total
  BY <1>1, <1>2, Lengths DEF Readable
<1>4. /\ q \in Seq(Entries) /\ Len(q) = l /\ \A i \in 1 .. l : q[i] = Entry(a, g + i)
  <2>1. /\ Run(a, g, l) \in Seq(Entries) /\ Len(Run(a, g, l)) = l
        /\ \A i \in 1 .. l : Run(a, g, l)[i] = Entry(a, g + i)
    BY RunType
  <2> QED BY <1>3, <2>1
<1>5. l # 0
  BY <1>4
<1>6. PICK m \in Nat : l = m + 1
  <2>1. l - 1 \in Nat /\ l = (l - 1) + 1
    BY <1>5
  <2> QED BY <2>1
<1>7. 1 \in 1 .. l /\ 1 \in 0 .. l /\ g + 1 \in Nat /\ l - 1 = m /\ g < Total
  BY <1>3, <1>6
<1>8. Head(q) = Entry(a, g + 1)
  <2>1. Head(q) = q[1]
    BY <1>4, <1>5
  <2> QED BY <1>4, <1>7, <2>1
<1>9. Tail(q) = Run(a, g + 1, m)
  <2>1. Tail(q) = SubSeq(q, 2, Len(q))
    BY <1>4, <1>5
  <2>2. SubSeq(Run(a, g, l), 1 + 1, l) = Run(a, g + 1, l - 1)
    BY <1>7, RunSubSeq
  <2> QED BY <1>3, <1>4, <1>7, <2>1, <2>2
<1>10. Append(got, Entry(a, g + 1)) = Run(a, 0, g + 1)
  <2>1. got = Run(a, 0, g)
    BY <1>1, <1>2 DEF ReadIsPrefix
  <2>2. Append(Run(a, 0, g), Entry(a, 0 + g + 1)) = Run(a, 0, g + 1)
    BY RunAppend
  <2>3. 0 + g + 1 = g + 1
    OBVIOUS
  <2> QED BY <2>1, <2>2, <2>3
<1>11. got' = Run(a, 0, g + 1) /\ queue' = Run(a, g + 1, m) /\ got' = Append(got, Entry(a, g + 1))
  BY <1>8, <1>9, <1>10 DEF Pop
<1>12. /\ Run(a, 0, g + 1) \in Seq(Entries) /\ Len(Run(a, 0, g + 1)) = g + 1
       /\ Run(a, g + 1, m) \in Seq(Entries) /\ Len(Run(a, g + 1, m)) = m
  BY <1>7, RunType
<1>13. /\ readPosition' = Pos(a, g + 1) /\ readPosition' >= readPosition /\ readPosition' \in Nat
  <2>1. /\ Pos(a, g) \in Nat /\ SizeOf(Entry(a, g + 1)) \in Nat
        /\ Pos(a, g + 1) = Pos(a, g) + SizeOf(Entry(a, g + 1))
    BY PosNext
  <2>2. readPosition = Pos(a, g)
    BY <1>1, <1>2 DEF ReadIsPrefix
  <2>3. readPosition' = readPosition + SizeOf(Entry(a, g + 1))
    BY <1>8 DEF Pop
  <2> QED BY <2>1, <2>2, <2>3
<1>14. inClosed = "no"
  <2>a. inClosed \in {"yes", "no"}
    BY DEF TypeOK, YesNo
  <2>b. Total = a \/ Total = a + 1
    BY <1>1, Lengths
  <2>1. Total <= a + 1 /\ inClosed \in {"yes", "no"}
    BY <2>a, <2>b
  <2>2. ~ (g > a)
    BY <1>3, <1>7, <2>1
  <2> QED BY <1>1, <1>2, <2>1, <2>2 DEF ReadIsPrefix
<1>15. inClosed' = IF g < a THEN "no" ELSE "yes"
  <2>1. inClosed' = IF Entry(a, g + 1) = End THEN "yes" ELSE "no"
    BY <1>8, <1>14 DEF Pop
  <2>2. Entry(a, g + 1) = End <=> ~ (g < a)
    BY EndFacts DEF Entry
  <2> QED BY <2>1, <2>2
<1>16. inClosed' \in YesNo /\ (inClosed' = "yes" <=> g + 1 > a)
  BY <1>15 DEF YesNo
<1>17. TakesNext
  BY <1>1, <1>2, <1>7, <1>11, <1>14, <1>15 DEF TakesNext
<1> QED BY <1>1, <1>2, <1>5, <1>7, <1>11, <1>12, <1>13, <1>16, <1>17

\* A step of the input stream that keeps its own part of the invariant.
LEMMA InputStep ==
    ASSUME IInv, TypeOK', UNCHANGED <<outVars, feedbacks>>, ReadIsPrefix', PayloadsAreCuts', ReadWaits',
           readPosition' >= readPosition, Len(got') >= Len(got), inClosed = "yes" => inClosed' = "yes"
    PROVE  IInv'
<1> USE DEF IInv
<1>1. /\ UNCHANGED <<codec, written, compressing, outWindow, dataQueue, confirmationQueue, writePosition, accepted>>
      /\ UNCHANGED <<closeCalled, outError, outClosed, sentPosition, ackedPosition, payloadNumber, pulls, future>>
      /\ UNCHANGED <<confirming, feedbacks>>
  BY DEF outVars, queueVars
<1>2. Total' = Total /\ Sent' = Sent /\ Sent \in Nat
  BY <1>1, Lengths DEF Total, Sent
<1>3. /\ ackedPosition \in Nat /\ readPosition \in Nat /\ sentPosition \in Nat /\ readPosition' \in Nat
      /\ WindowSize \in Nat /\ Len(got) \in Nat /\ Len(got') \in Nat /\ ackedPosition <= readPosition
  <2>1. readPosition' \in Nat /\ got' \in Seq(Entries)
    BY DEF TypeOK
  <2>2. Len(got') \in Nat
    BY <2>1
  <2> QED BY <2>1, <2>2, PositionsOrdered, EndFacts, Lengths
<1>4. InOrder'
  BY <1>1 DEF InOrder
<1>5. QueueIsRest'
  BY <1>1, <1>2 DEF QueueIsRest
<1>6. ConfirmationsMatch'
  BY <1>1, <1>2 DEF ConfirmationsMatch
<1>7. PromisesOwned'
  BY <1>1 DEF PromisesOwned, Waiting
<1>8. UnreadFits'
  <2>1. CASE sentPosition - readPosition <= WindowSize
    <3>1. sentPosition - readPosition' <= WindowSize
      <4>1. PICK s \in Nat, r \in Nat, z \in Nat, w \in Nat :
              s = sentPosition /\ r = readPosition /\ z = readPosition' /\ w = WindowSize /\ z >= r
        BY <1>3
      <4>2. s - r <= w
        BY <2>1, <4>1
      <4>a. z >= r
        BY <4>1
      <4>3. s - z <= w
        BY <4>2, <4>a
      <4> QED BY <4>1, <4>3
    <3> QED BY <1>1, <3>1 DEF UnreadFits
  <2>2. CASE Sent - Len(got) <= 1
    <3>1. Sent - Len(got') <= 1
      BY <1>2, <1>3, <2>2
    <3> QED BY <1>2, <3>1 DEF UnreadFits
  <2> QED BY <2>1, <2>2 DEF UnreadFits
<1>9. PullNotForgotten'
  BY <1>1 DEF PullNotForgotten, CanPullMore
<1>10. ConfirmedWhenRead'
  <2>1. PICK a \in 0 .. N : a = Len(accepted)
    BY Lengths
  <2>2. ASSUME NEW c \in Blocks, c \in confirming \/ future[c] = "ok"
        PROVE  c <= a /\ Pos(a, c) <= readPosition' + WindowSize
    <3>1. c <= a /\ Pos(a, c) <= readPosition + WindowSize
      BY <2>1, <2>2 DEF ConfirmedWhenRead
    <3>2. c \in Nat
      BY EndFacts
    <3>3. Pos(a, c) \in Nat
      BY <3>2, PosNext
    <3> QED BY <1>3, <3>1, <3>3
  <2>3. ASSUME NEW position \in feedbacks PROVE position <= readPosition'
    <3>1. position <= readPosition /\ position \in Nat
      BY DEF ConfirmedWhenRead, TypeOK
    <3> QED BY <1>3, <3>1
  <2>4. ackedPosition <= readPosition'
    BY <1>3
  <2>5. End \in confirming \/ outClosed = "yes" \/ future[End] = "ok" => inClosed' = "yes"
    BY DEF ConfirmedWhenRead
  <2> QED BY <1>1, <2>1, <2>2, <2>3, <2>4, <2>5 DEF ConfirmedWhenRead
<1> QED BY <1>4, <1>5, <1>6, <1>7, <1>8, <1>9, <1>10

\* The entries in the queue can be read.
LEMMA QueueReadable == ASSUME IInv PROVE Readable(queue, Len(queue)) /\ Len(queue) \in Nat
BY Lengths DEF IInv, ReadIsPrefix, Readable

\* When entries that can be read are in the queue, or all but the one that was
\* taken, the input stream has the beginning of the stream.
LEMMA PrefixAfter ==
    ASSUME IInv, NEW q, NEW l \in Nat, Readable(q, l), UNCHANGED outVars, IsFiniteSet(inWindow'.held),
           \/ q # <<>> /\ Pop(q)
           \/ queue' = q /\ UNCHANGED <<got, readPosition, inClosed>>
    PROVE  /\ ReadIsPrefix' /\ Len(got') + Len(queue') = Len(got) + l
           /\ readPosition' >= readPosition /\ Len(got') >= Len(got) /\ (inClosed = "yes" => inClosed' = "yes")
           /\ got' \in Seq(Entries) /\ queue' \in Seq(Entries) /\ inClosed' \in YesNo /\ readPosition' \in Nat
           /\ TakesNext \/ UNCHANGED <<got, inClosed>>
<1> USE DEF IInv
<1>1. UNCHANGED <<accepted, closeCalled, dataQueue>>
  BY DEF outVars, queueVars
<1>2. Total' = Total /\ Sent' = Sent
  BY <1>1 DEF Total, Sent
<1>3. PICK g \in Nat : g = Len(got)
  BY Lengths
<1>4. PICK a \in 0 .. N : a = Len(accepted)
  BY Lengths
<1>5. q = Run(a, g, l) /\ g + l <= Sent
  BY <1>3, <1>4 DEF Readable
<1>6. CASE q # <<>> /\ Pop(q)
  <2>1. /\ Len(got') = g + 1 /\ Len(queue') = l - 1 /\ l \in Nat \ {0}
        /\ got' = Run(a, 0, g + 1) /\ queue' = Run(a, g + 1, l - 1) /\ readPosition' = Pos(a, g + 1)
        /\ readPosition' >= readPosition /\ readPosition' \in Nat
        /\ inClosed' = "yes" <=> g + 1 > a
        /\ got' \in Seq(Entries) /\ queue' \in Seq(Entries) /\ inClosed' \in YesNo
        /\ TakesNext
    BY <1>1, <1>3, <1>4, <1>6, PopFacts
  <2>2. (g + 1) + (l - 1) = g + l /\ g + 1 >= g
    BY <2>1
  <2>3. ReadIsPrefix'
    BY <1>1, <1>2, <1>4, <1>5, <2>1, <2>2 DEF ReadIsPrefix
  <2>4. Len(got') + Len(queue') = g + l
    BY <2>1, <2>2
  <2>5. inClosed # "yes"
    BY <2>1 DEF TakesNext
  <2> QED BY <1>3, <2>1, <2>2, <2>3, <2>4, <2>5
<1>7. CASE queue' = q /\ UNCHANGED <<got, readPosition, inClosed>>
  <2>1. q \in Seq(Entries) /\ Len(q) = l
    <3>1. Run(a, g, l) \in Seq(Entries) /\ Len(Run(a, g, l)) = l
      BY RunType
    <3> QED BY <1>5, <3>1
  <2>2. ReadIsPrefix'
    BY <1>1, <1>2, <1>3, <1>4, <1>5, <1>7, <2>1 DEF ReadIsPrefix
  <2>3. readPosition \in Nat /\ inClosed \in YesNo /\ got \in Seq(Entries)
    BY DEF TypeOK
  <2> QED BY <1>3, <1>7, <2>1, <2>2, <2>3
<1> QED BY <1>6, <1>7

\* What a step leaves alone that only touches the input stream.
LEMMA InputOnlyLeaves ==
    ASSUME UNCHANGED <<outVars, timeouts, bus, feedbacks, cancelation, reply, request, serverVars>>
    PROVE  /\ UNCHANGED <<codec, written, compressing, outWindow, dataQueue, confirmationQueue, writePosition>>
           /\ UNCHANGED <<accepted, closeCalled, outError, outClosed, sentPosition, ackedPosition, payloadNumber>>
           /\ UNCHANGED <<pulls, future, confirming, timeouts, bus, feedbacks, cancelation, reply, request>>
           /\ UNCHANGED <<server, pendingPayloads, lost>>
BY DEF outVars, queueVars, serverVars

\* The type invariant after a step of the input stream.
LEMMA InputTypes ==
    ASSUME IInv, UNCHANGED <<outVars, timeouts, bus, feedbacks, cancelation, reply, request, serverVars>>,
           payloads' \subseteq payloads, UNCHANGED maxWindowSize,
           inWindow' \in [next : Nat, held : SUBSET [seq : Nat, data : Seq(Entries)]],
           queue' \in Seq(Entries), got' \in Seq(Entries), promise' \in {"none", "armed"},
           readFuture' \in {"none", "pending", "value", "error", "twice"},
           {inError', inClosed', inRead', inAbort'} \subseteq YesNo, {readPosition', owed'} \subseteq Nat
    PROVE  TypeOK'
BY InputOnlyLeaves DEF IInv, TypeOK

\* The handler reads.
LEMMA ReadStep ==
    ASSUME IInv, HandlerReads
    PROVE  IInv' /\ (TakesNext \/ UNCHANGED <<got, inClosed>>)
<1> USE DEF IInv
<1>1. /\ UNCHANGED <<outVars, timeouts, bus, payloads, feedbacks, cancelation, reply, request, serverVars>>
      /\ UNCHANGED <<maxWindowSize, inWindow, inError, owed, inAbort, payloads, pendingPayloads>>
      /\ readFuture \in {"none", "value"}
  BY DEF HandlerReads, Read, netVars, serverVars
<1>2. /\ UNCHANGED <<payloadNumber, accepted, dataQueue, closeCalled>>
  BY <1>1 DEF outVars, queueVars
<1>3. /\ inWindow \in [next : Nat, held : SUBSET [seq : Nat, data : Seq(Entries)]]
      /\ {inError, inClosed, inRead, inAbort} \subseteq YesNo /\ promise \in {"none", "armed"} /\ owed \in Nat
      /\ IsFiniteSet(inWindow.held)
  BY DEF TypeOK, ReadIsPrefix
<1>4. Readable(queue, Len(queue)) /\ Len(queue) \in Nat
  BY QueueReadable
<1>5. /\ \/ queue # <<>> /\ Pop(queue)
         \/ queue' = queue /\ UNCHANGED <<got, readPosition, inClosed>>
      /\ inRead' \in {inRead, "yes"} /\ promise' \in {promise, "armed"}
      /\ readFuture' \in {"error", "pending", "value"}
  BY DEF HandlerReads, Read
<1>6. /\ ReadIsPrefix' /\ Len(got') + Len(queue') = Len(got) + Len(queue)
      /\ readPosition' >= readPosition /\ Len(got') >= Len(got) /\ (inClosed = "yes" => inClosed' = "yes")
      /\ got' \in Seq(Entries) /\ queue' \in Seq(Entries) /\ inClosed' \in YesNo /\ readPosition' \in Nat
      /\ TakesNext \/ UNCHANGED <<got, inClosed>>
  <2>1. IsFiniteSet(inWindow'.held) /\ UNCHANGED outVars
    BY <1>1, <1>3
  <2> QED BY <1>4, <1>5, <2>1, PrefixAfter
<1>7. TypeOK'
  <2>1. /\ inWindow' \in [next : Nat, held : SUBSET [seq : Nat, data : Seq(Entries)]]
        /\ {inError', inClosed', inRead', inAbort'} \subseteq YesNo /\ promise' \in {"none", "armed"} /\ owed' \in Nat
        /\ readFuture' \in {"none", "pending", "value", "error", "twice"}
    BY <1>1, <1>3, <1>5, <1>6 DEF YesNo
  <2> QED BY <1>1, <1>6, <2>1, InputTypes
<1>8. PayloadsAreCuts'
  <2>1. Total' = Total /\ Sent' = Sent
    BY <1>2 DEF Total, Sent
  <2> QED BY <1>1, <1>2, <1>6, <2>1 DEF PayloadsAreCuts, CutsAt, Holds
<1>9. ReadWaits'
  <2>1. readFuture' # "twice"
    BY <1>5
  <2>2. ~ (promise = "armed" /\ inError = "no")
    BY <1>1 DEF ReadWaits
  <2>3. promise' = "armed" /\ inError' = "no" => readFuture' = "pending"
    BY <2>2 DEF HandlerReads, Read
  <2> QED BY <2>1, <2>3 DEF ReadWaits
<1>10. UNCHANGED <<outVars, feedbacks>>
  BY <1>1
<1>11. IInv'
  BY <1>6, <1>7, <1>8, <1>9, <1>10, InputStep
<1> QED BY <1>6, <1>11

\* A run of t is one of k, and one of e that begins with s.
Meets(a, g, k, e, s, t) ==
    a \in 0 .. N /\ g \in Nat /\ k \in Nat /\ e \in Nat /\ s = g + k /\ t = k + e

\* See RunConcat.
LEMMA RunMeets ==
    ASSUME NEW a, NEW g, NEW k, NEW e, NEW s, NEW t, Meets(a, g, k, e, s, t)
    PROVE  Run(a, g, k) \o Run(a, s, e) = Run(a, g, t)
<1>1. a \in 0 .. N /\ g \in Nat /\ k \in Nat /\ e \in Nat /\ s = g + k /\ t = k + e
  BY DEF Meets
<1>2. Run(a, g, k) \o Run(a, g + k, e) = Run(a, g, k + e)
  BY <1>1, RunConcat
<1> QED BY <1>1, <1>2

\* Payload p makes w of the window and q of the queue.
Arrival(p, w, q) ==
    /\ w = AddPacket(inWindow, p.seq, p.blocks)
    /\ q = queue \o FlattenSeq(Released(inWindow, p.seq, p.blocks))

\* With a payload, the window releases the entries that are next, and nothing
\* else.
LEMMA Arrives ==
    ASSUME IInv, NEW p \in payloads, NEW w, NEW q, Arrival(p, w, q)
    PROVE  \E l \in Nat :
             /\ Readable(q, l)
             /\ w \in [next : Nat, held : SUBSET [seq : Nat, data : Seq(Entries)]] /\ IsFiniteSet(w.held)
             /\ \E cut \in [0 .. payloadNumber -> 0 .. Sent] :
                  /\ CutsAt(cut)
                  /\ \A r \in payloads \cup pendingPayloads : Holds(cut, r.seq, r.blocks)
                  /\ \A r \in w.held : Holds(cut, r.seq, r.data)
                  /\ w.next <= payloadNumber
                  /\ cut[w.next] = Len(got) + l
<1> USE DEF IInv
<1>1. PICK cut \in [0 .. payloadNumber -> 0 .. Sent] :
        /\ CutsAt(cut)
        /\ \A r \in payloads \cup pendingPayloads : Holds(cut, r.seq, r.blocks)
        /\ \A r \in inWindow.held : Holds(cut, r.seq, r.data)
        /\ inWindow.next <= payloadNumber
        /\ cut[inWindow.next] = Len(got) + Len(queue)
  BY DEF PayloadsAreCuts
<1>2. PICK a \in 0 .. N : a = Len(accepted)
  BY Lengths
<1>3. PICK g \in Nat : g = Len(got)
  BY Lengths
<1>4. PICK l0 \in Nat : l0 = Len(queue)
  BY Lengths
<1>5. PICK u \in Nat : u = payloadNumber
  BY OutputTyped
<1>6. PICK v \in Nat : v = inWindow.next /\ v <= u
  BY <1>1, <1>5 DEF TypeOK
<1>7. PICK H : H = inWindow.held \cup {Packet(p.seq, p.blocks)}
  OBVIOUS
<1>8. p.seq \in Nat /\ p.blocks \in Seq(Entries)
  BY DEF TypeOK, Payloads
<1>9. \A r \in H : /\ r \in [seq : Nat, data : Seq(Entries)]
                   /\ Holds(cut, r.seq, r.data)
                   /\ r.seq \in Nat /\ r.seq < u /\ r.data = Run(a, cut[r.seq], cut[r.seq + 1] - cut[r.seq])
  <2>1. PICK x : x = Packet(p.seq, p.blocks)
    OBVIOUS
  <2>2. x.seq = p.seq /\ x.data = p.blocks /\ x \in [seq : Nat, data : Seq(Entries)]
    BY <1>8, <2>1 DEF Packet
  <2>3. Holds(cut, x.seq, x.data)
    BY <1>1, <2>2
  <2>4. ASSUME NEW r \in inWindow.held PROVE r \in [seq : Nat, data : Seq(Entries)] /\ Holds(cut, r.seq, r.data)
    BY <1>1 DEF TypeOK
  <2>5. \A r \in H : r \in [seq : Nat, data : Seq(Entries)] /\ Holds(cut, r.seq, r.data)
    BY <1>7, <2>1, <2>2, <2>3, <2>4
  <2>6. ASSUME NEW r \in H
        PROVE  r.seq \in Nat /\ r.seq < u /\ r.data = Run(a, cut[r.seq], cut[r.seq + 1] - cut[r.seq])
    BY <1>2, <1>5, <2>5 DEF Holds
  <2> QED BY <2>5, <2>6
<1>10. PICK rel : rel = Released(inWindow, p.seq, p.blocks)
  OBVIOUS
<1>11. PICK n \in Nat :
         /\ n >= v
         /\ w = [next |-> n, held |-> {r \in H : r.seq >= n}]
         /\ IsFiniteSet({r \in H : r.seq >= n})
         /\ rel = [i \in 1 .. n - v |-> rel[i]]
         /\ \A i \in 1 .. n - v : \E r \in H : r.seq = v + i - 1 /\ rel[i] = r.data
  <2>1. PICK s \in Nat : s = p.seq
    BY <1>8
  <2>2. PICK x : x = inWindow
    OBVIOUS
  <2>3. PICK b : b = p.blocks
    OBVIOUS
  <2>4. IsWindow(x)
    BY <2>2 DEF IsWindow, TypeOK, ReadIsPrefix
  <2>5. H = x.held \cup {Packet(s, b)}
    BY <1>7, <2>1, <2>2, <2>3
  <2>6. PICK n \in Nat : AddsTo(x, s, b, H, n)
    BY <2>4, <2>5, WindowAdds
  <2>7. AddPacket(x, s, b) = w /\ Released(x, s, b) = rel /\ x.next = v
    BY <1>6, <1>10, <2>1, <2>2, <2>3 DEF Arrival
  <2> QED BY <2>6, <2>7 DEF AddsTo
<1>12. PICK k \in Nat : k = n - v /\ n = v + k
  <2>1. n - v \in Nat /\ n = v + (n - v)
    BY <1>11
  <2> QED BY <2>1
<1>13. ASSUME NEW i \in 1 .. k
       PROVE  v + i \in 0 .. u /\ rel[i] = Run(a, cut[v + (i - 1)], cut[v + i] - cut[v + (i - 1)])
  <2>1. PICK r \in H : r.seq = v + i - 1 /\ rel[i] = r.data
    BY <1>11, <1>12
  <2>2. r.seq \in Nat /\ r.seq < u /\ r.data = Run(a, cut[r.seq], cut[r.seq + 1] - cut[r.seq])
    BY <1>9
  <2>3. r.seq = v + (i - 1) /\ r.seq + 1 = v + i /\ v + i \in 0 .. u
    BY <2>1, <2>2
  <2> QED BY <2>1, <2>2, <2>3
<1>14. n <= u
  <2>1. CASE k = 0
    BY <1>6, <1>12, <2>1
  <2>2. CASE k # 0
    <3>1. k \in 1 .. k
      BY <2>2
    <3>2. v + k \in 0 .. u
      BY <1>13, <3>1
    <3> QED BY <1>12, <3>2
  <2> QED BY <2>1, <2>2
<1>15. \A i \in 0 .. k : v + i \in 0 .. u /\ cut[v + i] \in 0 .. Sent /\ cut[v + i] \in Nat
  <2> TAKE i \in 0 .. k
  <2>1. v + i \in 0 .. u
    BY <1>12, <1>14
  <2>2. Sent \in Nat
    BY Lengths
  <2>3. cut[v + i] \in 0 .. Sent
    BY <1>1, <1>5, <2>1
  <2> QED BY <2>1, <2>2, <2>3
<1>16. \A s, t \in 0 .. u : s <= t => cut[s] <= cut[t]
  BY <1>1, <1>5 DEF CutsAt
<1>17. PICK c : c = [i \in 0 .. k |-> cut[v + i]]
  OBVIOUS
<1>18. c \in [0 .. k -> Nat] /\ \A i \in 0 .. k : c[i] = cut[v + i]
  BY <1>15, <1>17
<1>19. ASSUME NEW i \in 0 .. k, NEW j \in 0 .. k, i <= j PROVE c[i] <= c[j]
  <2>a. v + i \in 0 .. u /\ v + j \in 0 .. u
    BY <1>15
  <2>b. i \in Nat /\ j \in Nat /\ i <= j
    BY <1>19
  <2>c. v + i <= v + j
    BY <2>b
  <2>1. v + i \in 0 .. u /\ v + j \in 0 .. u /\ v + i <= v + j
    BY <2>a, <2>c
  <2>2. cut[v + i] <= cut[v + j]
    BY <1>16, <2>1
  <2> QED BY <1>18, <2>2
<1>20. rel = [i \in 1 .. k |-> Run(a, c[i - 1], c[i] - c[i - 1])]
  <2>1. ASSUME NEW i \in 1 .. k PROVE rel[i] = Run(a, c[i - 1], c[i] - c[i - 1])
    <3>1. i \in 0 .. k /\ i - 1 \in 0 .. k
      OBVIOUS
    <3>2. c[i] = cut[v + i] /\ c[i - 1] = cut[v + (i - 1)]
      BY <1>18, <3>1
    <3> QED BY <1>13, <3>2
  <2>2. rel = [i \in 1 .. k |-> rel[i]]
    BY <1>11, <1>12
  <2> QED BY <2>1, <2>2
<1>21. FlattenSeq(rel) = Run(a, c[0], c[k] - c[0])
  BY <1>18, <1>19, <1>20, RunFlatten
<1>22. PICK e \in Nat : e = c[k] - c[0] /\ c[0] = g + l0 /\ c[k] = cut[n] /\ cut[n] = g + (l0 + e) /\ cut[n] <= Sent
  <2>1. 0 \in 0 .. k /\ k \in 0 .. k /\ v + 0 = v /\ 0 <= k
    OBVIOUS
  <2>2. c[0] = g + l0
    BY <1>1, <1>3, <1>4, <1>6, <1>18, <2>1
  <2>3. c[0] <= c[k] /\ c[0] \in Nat /\ c[k] \in Nat
    BY <1>18, <1>19, <2>1
  <2>4. c[k] = cut[n] /\ cut[n] \in 0 .. Sent /\ Sent \in Nat
    BY <1>12, <1>15, <1>18, <2>1, Lengths
  <2>5. c[k] - c[0] \in Nat /\ c[k] = c[0] + (c[k] - c[0])
    BY <2>3
  <2> QED BY <2>2, <2>4, <2>5
<1>23. q = Run(a, g, l0 + e)
  <2>1. queue = Run(a, g, l0)
    BY <1>2, <1>3, <1>4 DEF ReadIsPrefix
  <2>2. FlattenSeq(rel) = Run(a, g + l0, e)
    BY <1>21, <1>22
  <2>3. PICK x, y : x = queue /\ y = FlattenSeq(rel)
    OBVIOUS
  <2>4. x = Run(a, g, l0) /\ y = Run(a, g + l0, e)
    BY <2>1, <2>2, <2>3
  <2>5. q = x \o y
    BY <1>10, <2>3 DEF Arrival
  <2>6. PICK s, t : s = g + l0 /\ t = l0 + e
    OBVIOUS
  <2>7. Meets(a, g, l0, e, s, t)
    BY <2>6 DEF Meets
  <2>8. Run(a, g, l0) \o Run(a, s, e) = Run(a, g, t)
    BY <2>7, RunMeets
  <2> QED BY <2>4, <2>5, <2>6, <2>8
<1>24. PICK l \in Nat : l = l0 + e
  OBVIOUS
<1>25. Readable(q, l)
  BY <1>2, <1>3, <1>22, <1>23, <1>24 DEF Readable
<1>26. w.next = n /\ w.held = {r \in H : r.seq >= n}
  BY <1>11
<1>27. w \in [next : Nat, held : SUBSET [seq : Nat, data : Seq(Entries)]] /\ IsFiniteSet(w.held)
  BY <1>9, <1>11, <1>26
<1>28. (\A r \in w.held : Holds(cut, r.seq, r.data)) /\ w.next <= payloadNumber /\ cut[w.next] = Len(got) + l
  BY <1>3, <1>5, <1>9, <1>14, <1>22, <1>24, <1>26
<1> QED BY <1>1, <1>25, <1>27, <1>28

\* DoEnqueuePayload takes a payload.
LEMMA EnqueueStep ==
    ASSUME IInv, NEW p \in payloads, Accept(p), payloads' = payloads \ {p},
           UNCHANGED <<outVars, timeouts, bus, feedbacks, cancelation, reply, request, serverVars>>
    PROVE  IInv' /\ (TakesNext \/ UNCHANGED <<got, inClosed>>)
<1> USE DEF IInv
<1>1. PICK w, q : Arrival(p, w, q)
  BY DEF Arrival
<1>2. /\ inError = "no" /\ inWindow' = w
      /\ \/ /\ Answers(q) /\ Pop(q) /\ promise' = "none" /\ readFuture' = SetRead("value") /\ owed' = owed + 1
         \/ /\ queue' = q /\ UNCHANGED <<promise, readFuture, readPosition, inClosed, got, owed>>
      /\ UNCHANGED <<maxWindowSize, inError, inRead, inAbort>>
  BY <1>1 DEF Accept, Arrival, Alive
<1>3. PICK l \in Nat :
        /\ Readable(q, l)
        /\ w \in [next : Nat, held : SUBSET [seq : Nat, data : Seq(Entries)]] /\ IsFiniteSet(w.held)
        /\ \E cut \in [0 .. payloadNumber -> 0 .. Sent] :
             /\ CutsAt(cut)
             /\ \A r \in payloads \cup pendingPayloads : Holds(cut, r.seq, r.blocks)
             /\ \A r \in w.held : Holds(cut, r.seq, r.data)
             /\ w.next <= payloadNumber
             /\ cut[w.next] = Len(got) + l
  BY <1>1, Arrives
<1>4. /\ UNCHANGED <<payloadNumber, accepted, dataQueue, closeCalled, pendingPayloads>>
  BY InputOnlyLeaves
<1>5. /\ ReadIsPrefix' /\ Len(got') + Len(queue') = Len(got) + l
      /\ readPosition' >= readPosition /\ Len(got') >= Len(got) /\ (inClosed = "yes" => inClosed' = "yes")
      /\ got' \in Seq(Entries) /\ queue' \in Seq(Entries) /\ inClosed' \in YesNo /\ readPosition' \in Nat
      /\ TakesNext \/ UNCHANGED <<got, inClosed>>
  <2>1. IsFiniteSet(inWindow'.held) /\ UNCHANGED outVars
    BY <1>2, <1>3
  <2>2. \/ q # <<>> /\ Pop(q)
        \/ queue' = q /\ UNCHANGED <<got, readPosition, inClosed>>
    BY <1>2 DEF Answers
  <2>3. Readable(q, l)
    BY <1>3
  <2> QED BY <2>1, <2>2, <2>3, PrefixAfter
<1>6. /\ promise' = "armed" /\ inError' = "no" => readFuture' = "pending"
      /\ readFuture' # "twice" /\ readFuture' \in {"none", "pending", "value", "error"}
      /\ promise' \in {"none", "armed"} /\ owed' \in Nat
  <2>1. /\ promise = "armed" /\ inError = "no" => readFuture = "pending"
        /\ readFuture # "twice" /\ readFuture \in {"none", "pending", "value", "error", "twice"}
        /\ promise \in {"none", "armed"} /\ owed \in Nat
    BY DEF ReadWaits, TypeOK
  <2>2. CASE Answers(q) /\ promise' = "none" /\ readFuture' = SetRead("value") /\ owed' = owed + 1
    <3>1. readFuture' = "value"
      BY <1>2, <2>1, <2>2 DEF Answers, SetRead
    <3> QED BY <2>1, <2>2, <3>1
  <2>3. CASE UNCHANGED <<promise, readFuture, owed>>
    BY <1>2, <2>1, <2>3
  <2> QED BY <1>2, <2>2, <2>3
<1>7. TypeOK'
  <2>1. {inError', inClosed', inRead', inAbort'} \subseteq YesNo
    BY <1>2, <1>5 DEF TypeOK
  <2>2. /\ inWindow' \in [next : Nat, held : SUBSET [seq : Nat, data : Seq(Entries)]]
        /\ readFuture' \in {"none", "pending", "value", "error", "twice"} /\ payloads' \subseteq payloads
    BY <1>2, <1>3, <1>6
  <2> QED BY <1>2, <1>5, <1>6, <2>1, <2>2, InputTypes
<1>8. PayloadsAreCuts'
  <2>1. Total' = Total /\ Sent' = Sent
    BY <1>4 DEF Total, Sent
  <2> QED BY <1>2, <1>3, <1>4, <1>5, <2>1 DEF PayloadsAreCuts, CutsAt, Holds
<1>9. ReadWaits'
  BY <1>6 DEF ReadWaits
<1>10. UNCHANGED <<outVars, feedbacks>>
  OBVIOUS
<1>11. IInv'
  BY <1>5, <1>7, <1>8, <1>9, <1>10, InputStep
<1> QED BY <1>5, <1>11

-----------------------------------------------------------------------------
(* All steps.                                                              *)

\* The types of what Minor leaves open.
MinorTypes ==
    /\ UNCHANGED maxWindowSize /\ owed' \in Nat
    /\ {inRead', inAbort', cancelation', reply', lost', timeouts'} \subseteq YesNo
    /\ bus' \in {"up", "dead"}
    /\ request' \in {"active", "finalized", "finished"}
    /\ server' \in {"unknown", "registered", "finished"}

\* What the reader has seen, and whether the writer knows, stays as it is.
SeenStays ==
    /\ UNCHANGED <<accepted, got, inClosed, closeCalled>>
    /\ future'[End] = "ok" <=> future[End] = "ok"

\* Minor steps.
LEMMA MinorKeeps == ASSUME IInv, Minor, MinorTypes PROVE IInv' /\ SeenStays
<1>1. /\ UNCHANGED <<codec, written, compressing, outWindow, dataQueue, confirmationQueue, writePosition, accepted>>
      /\ UNCHANGED <<closeCalled, outError, outClosed, sentPosition, ackedPosition, payloadNumber, pulls, future>>
      /\ UNCHANGED <<confirming, inWindow, queue, got, readPosition, inClosed, promise, maxWindowSize>>
  BY DEF Minor, MinorTypes, outVars, queueVars
<1>2. /\ payloads' \cup pendingPayloads' \subseteq Payloads /\ feedbacks' \subseteq Nat
  BY DEF IInv, TypeOK, Minor
<1>3. inError' \in YesNo /\ readFuture' \in {"none", "pending", "value", "error", "twice"}
  BY DEF IInv, TypeOK, Minor, YesNo, SetRead
<1>4. TypeOK'
  BY <1>1, <1>2, <1>3 DEF IInv, TypeOK, MinorTypes
<1>5. SeenStays
  BY <1>1 DEF SeenStays
<1> QED BY <1>4, <1>5, MinorStep

\* The types MinorTypes is about, before the step.
LEMMA MinorTyped ==
    ASSUME IInv
    PROVE  /\ owed \in Nat /\ {inRead, inAbort, cancelation, reply, lost, timeouts} \subseteq YesNo
           /\ bus \in {"up", "dead"} /\ request \in {"active", "finalized", "finished"}
           /\ server \in {"unknown", "registered", "finished"} /\ "yes" \in YesNo /\ "no" \in YesNo
BY DEF IInv, TypeOK, YesNo

\* Minor steps of the client.
LEMMA ClientMinor ==
    ASSUME IInv, Cancel \/ ReceiveReply \/ Terminate \/ TimeOut
    PROVE  IInv' /\ SeenStays
<1>1. CASE Cancel
  <2>1. Minor
    BY <1>1 DEF Cancel, Minor, inVars, serverVars
  <2>2. MinorTypes
    BY <1>1, MinorTyped DEF Cancel, MinorTypes, inVars, serverVars
  <2> QED BY <2>1, <2>2, MinorKeeps
<1>2. CASE ReceiveReply
  <2>1. Minor
    BY <1>2 DEF ReceiveReply, Minor, inVars, serverVars
  <2>2. MinorTypes
    BY <1>2, MinorTyped DEF ReceiveReply, MinorTypes, inVars, serverVars
  <2> QED BY <2>1, <2>2, MinorKeeps
<1>3. CASE Terminate
  <2>1. Minor
    BY <1>3 DEF Terminate, Minor, inVars, netVars, serverVars
  <2>2. MinorTypes
    BY <1>3, MinorTyped DEF Terminate, MinorTypes, inVars, netVars, serverVars
  <2> QED BY <2>1, <2>2, MinorKeeps
<1>4. CASE TimeOut
  <2>1. Minor
    BY <1>4 DEF TimeOut, Minor, inVars, netVars, serverVars
  <2>2. MinorTypes
    BY <1>4, MinorTyped DEF TimeOut, MinorTypes, inVars, netVars, serverVars
  <2> QED BY <2>1, <2>2, MinorKeeps
<1> QED BY <1>1, <1>2, <1>3, <1>4

\* Minor steps of the service.
LEMMA ServiceMinor ==
    ASSUME IInv, RegisterRequest \/ LeaseExpires \/ Disconnect \/ \E p \in payloads : KeepPayload(p)
    PROVE  IInv' /\ SeenStays
<1>1. CASE RegisterRequest
  <2>1. Minor
    BY <1>1 DEF RegisterRequest, Minor, inVars
  <2>2. MinorTypes
    BY <1>1, MinorTyped DEF RegisterRequest, MinorTypes, inVars
  <2> QED BY <2>1, <2>2, MinorKeeps
<1>2. CASE LeaseExpires
  <2>1. Minor
    BY <1>2 DEF LeaseExpires, Minor, inVars, netVars
  <2>2. MinorTypes
    BY <1>2, MinorTyped DEF LeaseExpires, MinorTypes, inVars, netVars
  <2> QED BY <2>1, <2>2, MinorKeeps
<1>3. CASE Disconnect
  <2>1. Minor
    BY <1>3 DEF Disconnect, Minor, inVars, serverVars
  <2>2. MinorTypes
    BY <1>3, MinorTyped DEF Disconnect, MinorTypes, inVars, serverVars
  <2> QED BY <2>1, <2>2, MinorKeeps
<1>4. ASSUME NEW p \in payloads, KeepPayload(p) PROVE IInv' /\ SeenStays
  <2>1. Minor
    BY <1>4 DEF KeepPayload, Minor, inVars
  <2>2. MinorTypes
    BY <1>4, MinorTyped DEF KeepPayload, MinorTypes, inVars
  <2> QED BY <2>1, <2>2, MinorKeeps
<1> QED BY <1>1, <1>2, <1>3, <1>4

\* Minor steps of the input stream.
LEMMA InputMinor ==
    ASSUME IInv, SendFeedback \/ FeedbackFails \/ ReadTimerFires \/ AbortReads \/ CancelContext \/ Reply
    PROVE  IInv' /\ SeenStays
<1>1. CASE SendFeedback
  <2>1. Minor
    BY <1>1 DEF SendFeedback, ReadReturns, LateCallback, GetFeedback, Minor, serverVars
  <2>2. owed' \in Nat
    BY <1>1, MinorTyped DEF SendFeedback, ReadReturns, LateCallback
  <2>3. MinorTypes
    BY <1>1, <2>2, MinorTyped DEF SendFeedback, ReadReturns, LateCallback, MinorTypes, serverVars
  <2> QED BY <2>1, <2>3, MinorKeeps
<1>2. CASE FeedbackFails
  <2>1. Minor
    BY <1>2 DEF FeedbackFails, Minor, netVars, serverVars
  <2>2. MinorTypes
    BY <1>2, MinorTyped DEF FeedbackFails, MinorTypes, netVars, serverVars
  <2> QED BY <2>1, <2>2, MinorKeeps
<1>3. CASE ReadTimerFires
  <2>1. Minor
    BY <1>3 DEF ReadTimerFires, FireReadTimer, Minor, netVars, serverVars
  <2>2. MinorTypes
    BY <1>3, MinorTyped DEF ReadTimerFires, FireReadTimer, MinorTypes, netVars, serverVars
  <2> QED BY <2>1, <2>2, MinorKeeps
<1>4. CASE AbortReads
  <2>1. Minor
    BY <1>4 DEF AbortReads, AbortInput, DoAbortInput, Minor, netVars, serverVars
  <2>2. MinorTypes
    BY <1>4, MinorTyped DEF AbortReads, AbortInput, DoAbortInput, MinorTypes, netVars, serverVars
  <2> QED BY <2>1, <2>2, MinorKeeps
<1>5. CASE CancelContext
  <2>1. Minor
    BY <1>5 DEF CancelContext, AbortInputUnlessClosed, DoAbortInput, Minor, inVars, serverVars
  <2>2. MinorTypes
    BY <1>5, MinorTyped DEF CancelContext, AbortInputUnlessClosed, DoAbortInput, MinorTypes, inVars, serverVars
  <2> QED BY <2>1, <2>2, MinorKeeps
<1>6. CASE Reply
  <2>1. Minor
    BY <1>6 DEF Reply, AbortInputUnlessClosed, DoAbortInput, Minor, inVars
  <2>2. MinorTypes
    BY <1>6, MinorTyped DEF Reply, AbortInputUnlessClosed, DoAbortInput, MinorTypes, inVars
  <2> QED BY <2>1, <2>2, MinorKeeps
<1> QED BY <1>1, <1>2, <1>3, <1>4, <1>5, <1>6

\* A payload that is refused, or comes too late.
LEMMA PayloadMinor ==
    ASSUME IInv, NEW p \in payloads,
           \/ EnqueuePayload(p) /\ ~ Accept(p)
           \/ DecompressionFails(p)
    PROVE  IInv' /\ SeenStays
<1>1. /\ payloads' = payloads \ {p}
      /\ (\E fails \in {TRUE, FALSE} : Refuse(p, fails)) \/ UNCHANGED inVars
      /\ UNCHANGED <<outVars, timeouts, bus, feedbacks, cancelation, reply, request, serverVars>>
  BY DEF EnqueuePayload, DoEnqueuePayload, DecompressionFails
<1>2. /\ UNCHANGED <<maxWindowSize, inWindow, queue, promise, inError, inClosed, readPosition, readFuture>>
      /\ UNCHANGED <<inRead, owed, got>>
      /\ inAbort' = "yes" \/ inAbort' = inAbort
  BY <1>1 DEF Refuse, inVars
<1>3. Minor
  BY <1>1, <1>2 DEF Minor, serverVars
<1>4. MinorTypes
  BY <1>1, <1>2, MinorTyped DEF MinorTypes, serverVars
<1> QED BY <1>3, <1>4, MinorKeeps

\* Steps that leave the output stream as it is although they are its own:
\* feedback that is no news, and aborts that come too late.
LEMMA OutputMinor ==
    ASSUME IInv, UNCHANGED <<outVars, inVars, timeouts, bus, payloads, cancelation, reply, serverVars>>,
           feedbacks' \subseteq feedbacks, request' \in {request, "finished"}
    PROVE  IInv' /\ SeenStays
<1>1. Minor
  BY DEF Minor, inVars, serverVars
<1>2. MinorTypes
  BY MinorTyped DEF MinorTypes, inVars, serverVars
<1> QED BY <1>1, <1>2, MinorKeeps

\* What a step is to the abstract stream.
StreamStep ==
    \/ SeenStays
    \/ Grows /\ UNCHANGED <<got, inClosed>>
    \/ /\ closeCalled = "no" /\ closeCalled' = "yes" /\ UNCHANGED <<accepted, got, inClosed>>
       /\ future'[End] = "ok" <=> future[End] = "ok"
    \/ TakesNext /\ UNCHANGED <<accepted, closeCalled, future>>
    \/ /\ End \in confirming /\ UNCHANGED <<accepted, got, inClosed, closeCalled>>
       /\ future[End] = "ok" => future'[End] = "ok"

\* Steps of the client.
LEMMA ClientKeeps ==
    ASSUME IInv, ClientCalls \/ ClientSteps
    PROVE  IInv' /\ StreamStep
<1>1. OnlyOutput /\ UNCHANGED <<got, inClosed>>
  BY DEF ClientCalls, ClientSteps, OnlyOutput, inVars
<1>2. CASE Write
  <2>1. codec \in {"none", "some"}
    BY OutputTyped
  <2>2. IInv' /\ Grows
    BY <1>1, <1>2, <2>1, WritePlainStep, WriteCodecStep
  <2> QED BY <1>1, <2>2 DEF StreamStep
<1>3. CASE Close
  <2>1. IInv'
    BY <1>1, <1>3, CloseStep
  <2>2. /\ closeCalled = "no" /\ closeCalled' = "yes" /\ UNCHANGED accepted
        /\ future' = [future EXCEPT ![End] = "pending"]
    BY <1>3 DEF Close
  <2>3. future[End] # "ok" /\ future'[End] # "ok"
    BY <2>2, OutputTyped, EndFacts DEF IInv, PromisesOwned
  <2> QED BY <1>1, <2>1, <2>2, <2>3 DEF StreamStep
<1>4. ASSUME NEW b \in Blocks, Compressed(b) PROVE IInv' /\ StreamStep
  <2>1. IInv' /\ Grows
    BY <1>1, <1>4, CompressedStep
  <2> QED BY <1>1, <2>1 DEF StreamStep
<1>5. ASSUME NEW f \in Entries, Confirm(f) PROVE IInv' /\ StreamStep
  <2>1. IInv' /\ (f # End => future'[End] = future[End]) /\ (future[End] = "ok" => future'[End] = "ok")
    BY <1>1, <1>5, ConfirmStep
  <2>2. f \in confirming /\ UNCHANGED <<accepted, closeCalled>>
    BY <1>5 DEF Confirm, queueVars
  <2>3. CASE f = End
    BY <1>1, <2>1, <2>2, <2>3 DEF StreamStep
  <2>4. CASE f # End
    BY <1>1, <2>1, <2>2, <2>4 DEF StreamStep, SeenStays
  <2> QED BY <2>3, <2>4
<1> QED BY <1>2, <1>3, <1>4, <1>5 DEF ClientCalls, ClientSteps, Entries

\* Steps of the client's channel and of timers.
LEMMA ChannelKeeps ==
    ASSUME IInv, Pull \/ AbortWrites \/ Finish \/ \E position \in feedbacks : ReceiveFeedback(position)
    PROVE  IInv' /\ StreamStep
<1>1. CASE Pull
  <2>1. IInv'
    BY <1>1, PullStep
  <2>2. SeenStays
    BY <1>1 DEF Pull, TryPull, SeenStays, inVars
  <2> QED BY <2>1, <2>2 DEF StreamStep
<1>2. ASSUME DoAbort, UNCHANGED <<inVars, timeouts, netVars, serverVars>>,
             request' \in {"active", "finalized", "finished"}
      PROVE  IInv' /\ StreamStep
  <2>1. /\ UNCHANGED <<maxWindowSize, inWindow, queue, promise, inError, inClosed, readPosition, readFuture, inRead>>
        /\ UNCHANGED <<owed, inAbort, got, timeouts, bus, payloads, feedbacks, cancelation, reply>>
        /\ UNCHANGED <<server, pendingPayloads, lost, inVars>>
    BY <1>2 DEF inVars, netVars, serverVars
  <2>2. /\ outError' = "yes" /\ confirmationQueue' = <<>> /\ future' = TrySettle(future, Unconfirmed, "failed")
        /\ UNCHANGED <<codec, written, compressing, outWindow, dataQueue, closeCalled, outClosed, writePosition>>
        /\ UNCHANGED <<sentPosition, ackedPosition, payloadNumber, pulls, confirming, accepted>>
    BY <1>2 DEF DoAbort
  <2>3. future' \in [Entries -> Futures]
    <3>1. DOMAIN future = Entries /\ future \in [Entries -> Futures]
      BY OutputTyped
    <3>2. PICK U : U = Unconfirmed
      OBVIOUS
    <3>3. future' = [g \in Entries |-> IF g \notin {h \in U : future[h] = "pending"} THEN future[g]
                                      ELSE IF future[g] = "pending" THEN "failed" ELSE "twice"]
      BY <2>2, <3>1, <3>2 DEF TrySettle, Settle
    <3> QED BY <3>1, <3>3 DEF Futures
  <2>4. <<>> \in Seq(Confirmations) /\ "yes" \in YesNo
    BY DEF YesNo
  <2>5. TypeOK'
    BY <1>2, <2>1, <2>2, <2>3, <2>4 DEF IInv, TypeOK, Futures
  <2>6. IInv' /\ (future'[End] = "ok" <=> future[End] = "ok")
    BY <1>2, <2>1, <2>5, DoAbortStep
  <2>7. SeenStays
    BY <2>1, <2>2, <2>6 DEF SeenStays
  <2> QED BY <2>6, <2>7 DEF StreamStep
<1>3. CASE AbortWrites
  <2>1. UNCHANGED <<inVars, timeouts, netVars, request, serverVars>> /\ (DoAbort \/ UNCHANGED outVars)
    BY <1>3 DEF AbortWrites, AbortOutput
  <2>2. request' \in {"active", "finalized", "finished"}
    BY <2>1, MinorTyped
  <2>3. CASE DoAbort
    BY <1>2, <2>1, <2>2, <2>3
  <2>4. CASE UNCHANGED outVars
    BY <2>1, <2>4, OutputMinor DEF netVars, StreamStep
  <2> QED BY <2>1, <2>3, <2>4
<1>4. CASE Finish
  <2>1. UNCHANGED <<inVars, timeouts, netVars, serverVars>> /\ (DoAbort \/ UNCHANGED outVars) /\ request' = "finished"
    BY <1>4 DEF Finish, AbortOutputUnlessClosed
  <2>2. CASE DoAbort
    BY <1>2, <2>1, <2>2
  <2>3. CASE UNCHANGED outVars
    BY <2>1, <2>3, OutputMinor DEF netVars, StreamStep
  <2> QED BY <2>1, <2>2, <2>3
<1>5. ASSUME NEW position \in feedbacks, ReceiveFeedback(position) PROVE IInv' /\ StreamStep
  <2>1. /\ feedbacks' = feedbacks \ {position}
        /\ HandleFeedback(position) \/ UNCHANGED outVars
        /\ UNCHANGED <<inVars, timeouts, bus, payloads, cancelation, reply, request, serverVars>>
    BY <1>5 DEF ReceiveFeedback
  <2>2. CASE HandleFeedback(position)
    <3>1. IInv' /\ UNCHANGED future
      BY <2>1, <2>2, FeedbackStep
    <3>2. UNCHANGED <<accepted, closeCalled, got, inClosed>>
      BY <2>1, <2>2 DEF HandleFeedback, inVars
    <3> QED BY <3>1, <3>2 DEF StreamStep, SeenStays
  <2>3. CASE UNCHANGED outVars
    BY <2>1, <2>3, OutputMinor DEF StreamStep
  <2> QED BY <2>1, <2>2, <2>3
<1> QED BY <1>1, <1>3, <1>4, <1>5

\* Steps of the handler, and payloads that arrive.
LEMMA HandlerKeeps ==
    ASSUME IInv, HandlerReads \/ \E p \in payloads : EnqueuePayload(p) \/ DecompressionFails(p)
    PROVE  IInv' /\ StreamStep
<1>1. ASSUME UNCHANGED outVars, TakesNext \/ UNCHANGED <<got, inClosed>> PROVE StreamStep
  <2>1. UNCHANGED <<accepted, closeCalled, future>>
    BY <1>1 DEF outVars, queueVars
  <2> QED BY <1>1, <2>1 DEF StreamStep, SeenStays
<1>2. CASE HandlerReads
  <2>1. UNCHANGED outVars
    BY <1>2 DEF HandlerReads
  <2> QED BY <1>1, <1>2, <2>1, ReadStep
<1>3. ASSUME NEW p \in payloads, EnqueuePayload(p), Accept(p) PROVE IInv' /\ StreamStep
  <2>1. /\ payloads' = payloads \ {p}
        /\ UNCHANGED <<outVars, timeouts, bus, feedbacks, cancelation, reply, request, serverVars>>
    BY <1>3 DEF EnqueuePayload
  <2>2. UNCHANGED outVars
    BY <2>1
  <2> QED BY <1>1, <1>3, <2>1, <2>2, EnqueueStep
<1>4. ASSUME NEW p \in payloads, (EnqueuePayload(p) /\ ~ Accept(p)) \/ DecompressionFails(p) PROVE IInv' /\ StreamStep
  BY <1>4, PayloadMinor DEF StreamStep
<1> QED BY <1>2, <1>3, <1>4

\* Every step preserves the invariant, and is a step of the abstract stream or
\* none.
LEMMA StepKeeps == ASSUME IInv, [Next]_vars PROVE IInv' /\ StreamStep
<1>1. CASE UNCHANGED vars
  <2>1. UNCHANGED <<outVars, inVars, timeouts, bus, payloads, feedbacks, cancelation, reply, request, serverVars>>
    BY <1>1 DEF vars, netVars
  <2>2. feedbacks' \subseteq feedbacks /\ request' \in {request, "finished"}
    BY <2>1
  <2> QED BY <2>1, <2>2, OutputMinor DEF StreamStep
<1>2. CASE Steps
  <2>1. CASE ReceiveReply \/ Terminate
    BY <2>1, ClientMinor DEF StreamStep
  <2>2. CASE SendFeedback \/ AbortReads \/ CancelContext
    BY <2>2, InputMinor DEF StreamStep
  <2>3. CASE \E p \in payloads : KeepPayload(p)
    BY <2>3, ServiceMinor DEF StreamStep
  <2> QED BY <1>2, <2>1, <2>2, <2>3, ClientKeeps, ChannelKeeps, HandlerKeeps DEF Steps
<1>3. CASE Environment
  <2>1. CASE Cancel \/ TimeOut
    BY <2>1, ClientMinor DEF StreamStep
  <2>2. CASE RegisterRequest \/ LeaseExpires \/ Disconnect
    BY <2>2, ServiceMinor DEF StreamStep
  <2>3. CASE FeedbackFails \/ ReadTimerFires \/ Reply
    BY <2>3, InputMinor DEF StreamStep
  <2> QED BY <1>3, <2>1, <2>2, <2>3, ClientKeeps, ChannelKeeps, HandlerKeeps DEF Environment
<1> QED BY <1>1, <1>2, <1>3 DEF Next

\* The invariant holds initially.
LEMMA InvariantInit == ASSUME Init PROVE IInv
<1>1. /\ codec \in {"none", "some"} /\ written = 0 /\ compressing = {} /\ outWindow = [next |-> 0, held |-> {}]
      /\ dataQueue = <<>> /\ confirmationQueue = <<>> /\ closeCalled = "no" /\ outError = "no" /\ outClosed = "no"
      /\ writePosition = 0 /\ sentPosition = 0 /\ ackedPosition = 0 /\ payloadNumber = 0 /\ pulls = 0
      /\ future = [f \in Entries |-> "none"] /\ confirming = {} /\ accepted = <<>>
      /\ maxWindowSize \in MaxWindowSizes /\ inWindow = [next |-> 0, held |-> {}] /\ queue = <<>>
      /\ promise = "none" /\ inError = "no" /\ inClosed = "no" /\ readPosition = 0 /\ readFuture = "none"
      /\ inRead = "no" /\ owed = 0 /\ inAbort = "no" /\ got = <<>>
      /\ timeouts \in {"yes", "no"} /\ bus = "up" /\ payloads = {} /\ feedbacks = {} /\ cancelation = "no"
      /\ reply = "no" /\ request = "active" /\ server = "unknown" /\ pendingPayloads = {} /\ lost = "no"
  BY DEF Init, OutInit, InInit, EmptyWindow, Entries
<1>2. Len(accepted) = 0 /\ Len(dataQueue) = 0 /\ Len(confirmationQueue) = 0 /\ Len(got) = 0 /\ Len(queue) = 0
  BY <1>1
<1>3. Total = 0 /\ Sent = 0
  BY <1>1, <1>2 DEF Total, Sent
<1>4. Run(0, 0, 0) = <<>> /\ Pos(0, 0) = 0 /\ N \in Nat
  <2>1. 0 \in 0 .. N /\ 0 \in Nat /\ N \in Nat
    BY EndFacts
  <2>2. Run(0, 0, 0) \in Seq(Entries) /\ Len(Run(0, 0, 0)) = 0
    BY <2>1, RunType
  <2> QED BY <2>1, <2>2, PosZero
<1>5. TypeOK
  <2>1. <<>> \in Seq(Entries) /\ <<>> \in Seq(Blocks) /\ <<>> \in Seq(Confirmations)
    OBVIOUS
  <2> QED BY <1>1, <1>4, <2>1 DEF TypeOK, YesNo
<1>6. InOrder
  BY <1>1, <1>2, <1>4, FS_EmptySet DEF InOrder
<1>7. QueueIsRest
  BY <1>1, <1>2, <1>3, <1>4 DEF QueueIsRest
<1>8. ConfirmationsMatch
  BY <1>1, <1>2, <1>3 DEF ConfirmationsMatch
<1>9. PromisesOwned
  <2>1. \A b \in Blocks : future[b] = "none" /\ b > 0
    BY <1>1, EndFacts DEF Entries
  <2> QED BY <1>1, <1>2, <2>1, EndFacts DEF PromisesOwned, Waiting
<1>10. ConfirmedWhenRead
  <2>1. \A f \in Entries : future[f] # "ok"
    BY <1>1
  <2> QED BY <1>1, <2>1, EndFacts DEF ConfirmedWhenRead, Entries
<1>11. PayloadsAreCuts
  <2>1. PICK cut : cut = [s \in 0 .. 0 |-> 0]
    OBVIOUS
  <2>2. cut \in [0 .. payloadNumber -> 0 .. Sent] /\ cut[0] = 0
    BY <1>1, <1>3, <2>1
  <2>3. CutsAt(cut)
    BY <1>1, <1>3, <2>1, <2>2 DEF CutsAt
  <2> QED BY <1>1, <1>2, <2>2, <2>3 DEF PayloadsAreCuts
<1>12. ReadIsPrefix
  BY <1>1, <1>2, <1>3, <1>4, FS_EmptySet DEF ReadIsPrefix
<1>13. ReadWaits /\ UnreadFits /\ PullNotForgotten
  BY <1>1, <1>2, <1>3 DEF ReadWaits, UnreadFits, PullNotForgotten
<1> QED BY <1>5, <1>6, <1>7, <1>8, <1>9, <1>10, <1>11, <1>12, <1>13 DEF IInv

\* The inductive invariant: positions, queues, payloads and futures all tell of
\* one and the same stream of entries.
THEOREM Invariance == Spec => []IInv
<1>1. Init => IInv
  BY InvariantInit
<1>2. IInv /\ [Next]_vars => IInv'
  BY StepKeeps
<1> QED BY <1>1, <1>2, PTL DEF Spec

\* All variables keep to their types.
THEOREM TypeCorrect == Spec => []TypeOK
<1>1. IInv => TypeOK
  BY DEF IInv
<1> QED BY <1>1, Invariance, PTL

\* Neither sender nor writer runs ahead of the reader by more than the window
\* allows, and no feedback is about more than was read.
THEOREM WindowRespected == Spec => []WithinWindow
<1>1. ASSUME IInv PROVE WithinWindow
  <2>1. PICK a \in 0 .. N : a = Len(accepted)
    BY <1>1, Lengths
  <2>2. /\ sentPosition \in Nat /\ readPosition \in Nat /\ sentPosition >= readPosition /\ readPosition <= writePosition
        /\ readPosition = sentPosition => Len(got) = Sent
        /\ writePosition \in Nat /\ WindowSize \in Nat
    BY <1>1, PositionsOrdered, EndFacts
  <2>3. /\ Total \in Nat /\ Sent \in Nat /\ Len(got) \in Nat /\ Len(got) <= Sent /\ Len(dataQueue) \in Nat
        /\ Sent = Total - Len(dataQueue)
    BY <1>1, Lengths
  <2>4. sentPosition - readPosition <= WindowSize \/ Total - Len(dataQueue) - Len(got) = 1
    <3>1. sentPosition - readPosition <= WindowSize \/ Sent - Len(got) <= 1
      BY <1>1 DEF IInv, UnreadFits
    <3>2. CASE Len(got) = Sent
      <4>1. readPosition = sentPosition
        BY <1>1, <3>2 DEF IInv, ReadIsPrefix, QueueIsRest
      <4> QED BY <2>2, <4>1
    <3>3. CASE Len(got) # Sent
      BY <2>3, <3>1, <3>3
    <3> QED BY <3>2, <3>3
  <2>5. ASSUME NEW i \in DOMAIN accepted, future[accepted[i]] = "ok"
        PROVE  Bytes(accepted, i) <= readPosition + WindowSize
    <3>1. accepted = Run(a, 0, a) /\ accepted \in Seq(Blocks)
      BY <1>1, <2>1, OutputTyped DEF IInv, InOrder
    <3>2. i \in 1 .. a /\ i \in 0 .. a /\ a \in Nat /\ 0 \in Nat
      BY <2>1, <3>1
    <3>3. accepted[i] = i
      BY <3>1, <3>2, RunFromStart DEF Entry
    <3>4. i \in Blocks
      BY <3>2, EndFacts
    <3>5. Pos(a, i) <= readPosition + WindowSize
      BY <1>1, <2>1, <2>5, <3>3, <3>4 DEF IInv, ConfirmedWhenRead
    <3>6. Pos(a, 0) = 0 /\ Pos(a, 0 + i) = Pos(a, 0) + Bytes(Run(a, 0, a), i) /\ Bytes(Run(a, 0, a), i) \in Nat
      BY <3>2, RunBytes, PosZero
    <3>7. 0 + i = i
      BY <3>2
    <3>8. Pos(a, i) = Bytes(accepted, i)
      BY <3>1, <3>6, <3>7
    <3> QED BY <3>5, <3>8
  <2>6. \A position \in feedbacks : position <= readPosition
    BY <1>1 DEF IInv, ConfirmedWhenRead
  <2>7. Total = Len(accepted) + (IF closeCalled = "yes" THEN 1 ELSE 0)
    BY DEF Total
  <2> QED BY <2>2, <2>4, <2>5, <2>6, <2>7 DEF WithinWindow
<1> QED BY <1>1, Invariance, PTL

\* Whenever there is something to pull, a pull callback is on its way.
THEOREM PullOnItsWay == Spec => []PullNotForgotten
<1>1. IInv => PullNotForgotten
  BY DEF IInv
<1> QED BY <1>1, Invariance, PTL

\* No promise is set twice.
THEOREM SetOnce == Spec => []PromisesSetOnce
<1>1. IInv => PromisesSetOnce
  BY DEF IInv, PromisesOwned, ReadWaits, PromisesSetOnce
<1> QED BY <1>1, Invariance, PTL

-----------------------------------------------------------------------------
(* The abstract stream.                                                    *)

\* What the reader has received when it has not, and when it has, seen the
\* end.
LEMMA SeenWhenClosed ==
    ASSUME IInv
    PROVE  /\ inClosed \in {"yes", "no"} /\ closeCalled \in {"yes", "no"}
           /\ inClosed = "yes" => closeCalled = "yes" /\ Front(got) = accepted
<1>1. inClosed \in {"yes", "no"} /\ closeCalled \in {"yes", "no"}
  BY DEF IInv, TypeOK, YesNo
<1>2. ASSUME inClosed = "yes" PROVE closeCalled = "yes" /\ Front(got) = accepted
  <2>1. PICK a \in 0 .. N : a = Len(accepted)
    BY Lengths
  <2>2. Len(got) > a /\ Len(got) <= Total /\ Len(got) \in Nat
    BY <1>2, <2>1, Lengths DEF IInv, ReadIsPrefix
  <2>3. closeCalled = "yes"
    BY <1>1, <2>1, <2>2, Lengths
  <2>4. Total = a + 1
    BY <2>1, <2>3, Lengths
  <2>5. Len(got) = a + 1
    BY <2>2, <2>4
  <2>6. got = Run(a, 0, a + 1) /\ accepted = Run(a, 0, a)
    BY <2>1, <2>5 DEF IInv, ReadIsPrefix, InOrder
  <2>7. a \in 0 .. a + 1 /\ a + 1 \in Nat /\ 0 \in Nat /\ a + 1 - 1 = a
    OBVIOUS
  <2>8. SubSeq(Run(a, 0, a + 1), 1, a) = Run(a, 0, a)
    BY <2>7, RunSubSeq
  <2>9. Front(got) = SubSeq(got, 1, a)
    BY <2>5, <2>7 DEF Front
  <2> QED BY <2>3, <2>6, <2>8, <2>9
<1> QED BY <1>1, <1>2

\* Every step is a step of the abstract stream, or none.
LEMMA StepRefines ==
    ASSUME IInv, IInv', StreamStep
    PROVE  [Abstract!Next]_(Abstract!streamVars)
<1>1. /\ inClosed \in {"yes", "no"} /\ closeCalled \in {"yes", "no"}
      /\ inClosed = "yes" => closeCalled = "yes" /\ Front(got) = accepted
  BY SeenWhenClosed
<1>2. CASE SeenStays
  BY <1>2 DEF SeenStays, Abstract!streamVars
<1>3. CASE Grows /\ UNCHANGED <<got, inClosed>> /\ accepted' = accepted
  BY <1>3 DEF Grows, Abstract!streamVars
<1>4. CASE Grows /\ UNCHANGED <<got, inClosed>> /\ accepted' # accepted
  <2>1. /\ closeCalled = "no" /\ inClosed = "no" /\ Len(accepted') >= Len(accepted)
        /\ UNCHANGED <<got, inClosed, closeCalled>> /\ future'[End] = future[End]
    BY <1>1, <1>4 DEF Grows
  <2>2. PICK a \in Nat : a = Len(accepted) /\ accepted = Run(a, 0, a)
    BY Lengths DEF IInv, InOrder
  <2>3. PICK n \in Nat : n = Len(accepted') /\ accepted' = Run(n, 0, n) /\ n <= N
    <3>1. /\ accepted' \in Seq(Blocks) /\ accepted' = Run(Len(accepted'), 0, Len(accepted'))
          /\ Len(accepted') <= written' /\ written' \in 0 .. N
      BY DEF IInv, InOrder, TypeOK
    <3>2. Len(accepted') \in Nat /\ Len(accepted') <= N
      BY <3>1, EndFacts
    <3> QED BY <3>1, <3>2
  <2>4. n # a
    BY <1>4, <2>2, <2>3
  <2>5. n \in Len(accepted) + 1 .. N
    BY <2>1, <2>2, <2>3, <2>4, EndFacts
  <2>6. accepted' = [i \in 1 .. n |-> i]
    <3>1. Run(n, 0, n) = [i \in 1 .. n |-> Entry(n, 0 + i)]
      BY DEF Run
    <3>2. \A i \in 1 .. n : Entry(n, 0 + i) = i
      BY DEF Entry
    <3> QED BY <2>3, <3>1, <3>2
  <2>7. Abstract!Send
    BY <2>1, <2>5, <2>6 DEF Abstract!Send
  <2> QED BY <2>7 DEF Abstract!Next
<1>5. CASE /\ closeCalled = "no" /\ closeCalled' = "yes" /\ UNCHANGED <<accepted, got, inClosed>>
           /\ future'[End] = "ok" <=> future[End] = "ok"
  <2>1. inClosed = "no"
    BY <1>1, <1>5
  <2>2. Abstract!CloseStream
    BY <1>5, <2>1 DEF Abstract!CloseStream
  <2> QED BY <2>2 DEF Abstract!Next
<1>6. CASE TakesNext /\ UNCHANGED <<accepted, closeCalled, future>>
  <2>1. PICK a \in 0 .. N : a = Len(accepted)
    BY Lengths
  <2>2. PICK g \in Nat : g = Len(got) /\ g < Total
    BY <1>6, Lengths DEF TakesNext
  <2>3. /\ inClosed = "no" /\ inClosed' = (IF g < a THEN "no" ELSE "yes")
        /\ got' = Append(got, Entry(a, g + 1))
    BY <1>6, <2>1, <2>2 DEF TakesNext
  <2>4. accepted = Run(a, 0, a) /\ got = Run(a, 0, g) /\ got \in Seq(Entries)
    BY <2>1, <2>2 DEF IInv, InOrder, ReadIsPrefix, TypeOK
  <2>5. CASE g < a
    <3>1. g + 1 \in 1 .. a /\ a \in Nat
      BY <2>5
    <3>2. accepted[g + 1] = Entry(a, g + 1)
      BY <2>4, <3>1, RunFromStart
    <3>3. Abstract!Receive
      BY <1>6, <2>1, <2>2, <2>3, <2>5, <3>2 DEF Abstract!Receive
    <3> QED BY <3>3 DEF Abstract!Next
  <2>6. CASE ~ (g < a)
    <3>1. closeCalled = "yes" /\ g = a
      <4>1. closeCalled = "no" => Total = a
        BY <2>1, Lengths
      <4>2. closeCalled = "yes" => Total = a + 1
        BY <2>1, Lengths
      <4> QED BY <1>1, <2>2, <2>6, <4>1, <4>2
    <3>2. got = accepted
      BY <2>4, <3>1
    <3>3. inClosed' = "yes"
      BY <2>3, <2>6
    <3>4. Front(got') = got
      <4>1. PICK e \in Entries : e = Entry(a, g + 1)
        BY <2>1, EndFacts DEF Entry
      <4>2. Len(Append(got, e)) = g + 1 /\ g + 1 - 1 = g
        BY <2>2, <2>4
      <4>3. SubSeq(Append(got, e), 1, g) = got
        BY <2>2, <2>4
      <4> QED BY <2>3, <4>1, <4>2, <4>3 DEF Front
    <3>5. Abstract!SeeEnd
      BY <1>6, <2>3, <3>1, <3>2, <3>3, <3>4 DEF Abstract!SeeEnd
    <3> QED BY <3>5 DEF Abstract!Next
  <2> QED BY <2>5, <2>6
<1>7. CASE /\ End \in confirming /\ UNCHANGED <<accepted, got, inClosed, closeCalled>>
           /\ future[End] = "ok" => future'[End] = "ok"
  <2>1. inClosed = "yes"
    BY <1>7 DEF IInv, ConfirmedWhenRead
  <2>2. CASE future[End] # "ok" /\ future'[End] = "ok"
    <3>1. Abstract!ConfirmClose
      BY <1>7, <2>1, <2>2 DEF Abstract!ConfirmClose
    <3> QED BY <3>1 DEF Abstract!Next
  <2>3. CASE future[End] = "ok" <=> future'[End] = "ok"
    BY <1>7, <2>3 DEF Abstract!streamVars
  <2> QED BY <1>7, <2>2, <2>3
<1> QED BY <1>2, <1>3, <1>4, <1>5, <1>6, <1>7 DEF StreamStep

\* The two ends of the stream, with their windows, positions, queues and
\* messages, are one stream of blocks: every block arrives once and in order,
\* the end after all of them, and Close is confirmed when the end was seen.
THEOREM Refinement == Spec => ImplementsBlockStream
<1>1. Init => Abstract!Init
  <2> SUFFICES ASSUME Init PROVE Abstract!Init
    OBVIOUS
  <2>1. accepted = <<>> /\ got = <<>> /\ inClosed = "no" /\ closeCalled = "no" /\ future[End] = "none"
    BY EndFacts DEF Init, OutInit, InInit, Entries
  <2> QED BY <2>1 DEF Abstract!Init
<1>2. IInv /\ IInv' /\ [Next]_vars => [Abstract!Next]_(Abstract!streamVars)
  BY StepKeeps, StepRefines
<1> QED BY <1>1, <1>2, Invariance, PTL DEF Spec, ImplementsBlockStream, Abstract!Spec
=============================================================================
