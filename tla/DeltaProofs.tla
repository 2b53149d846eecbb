---------------------------- MODULE DeltaProofs -----------------------------
(***************************************************************************)
(* Sums along a queue, the order that insert() keeps, and the deltas that  *)
(* insertd(), unsleep() and the clock keep in the sleep queue.             *)
(***************************************************************************)
EXTENDS QueuesProofs, WellFoundedInduction

\* A nonempty set of natural numbers has a least element: the form in which the
\* proofs use induction.
LEMMA Least ==
  ASSUME NEW T, T \subseteq Nat, T # {}
  PROVE  \E m \in T : \A x \in T : m <= x
<1> DEFINE R == OpToRel(<, Nat)
<1>1. IsWellFoundedOn(R, Nat)
  BY NatLessThanWellFounded, Zenon
<1>2. PICK m \in T : \A y \in T : ~(<<y, m>> \in R)
  <2> HIDE DEF R
  <2> QED BY <1>1, WFMin, Zenon
<1>3. \A y \in T : ~(y < m)
  BY <1>2 DEF OpToRel
<1> QED BY <1>3

\* s is the sequence of the partial sums of f.
Sums(s, f, n) ==
  /\ s \in [0 .. n -> Int] /\ s[0] = 0
  /\ \A i \in 1 .. n : s[i] = s[i - 1] + f[i]

\* The recursion of SumTo() has one solution, the partial sums.
LEMMA SumIs ==
  ASSUME NEW n \in Nat, NEW f, NEW s, Sums(s, f, n)
  PROVE  SumTo(f, n) = s[n]
<1> DEFINE Is(g) == g = [i \in 0 .. n |-> IF i = 0 THEN 0 ELSE g[i - 1] + f[i]]
           sum == CHOOSE g : Is(g)
<1>1. Is(s)
  BY DEF Sums
<1>2. Is(sum)
  BY <1>1
<1>3. SumTo(f, n) = sum[n]
  BY DEF SumTo
<1> HIDE DEF sum
<1>4. \A j \in 0 .. n : sum[j] = s[j]
  <2> DEFINE T == {j \in 0 .. n : sum[j] # s[j]}
  <2> SUFFICES ASSUME T # {} PROVE FALSE
    OBVIOUS
  <2>1. T \subseteq Nat
    OBVIOUS
  <2>2. PICK m \in T : \A x \in T : m <= x
    <3> HIDE DEF T
    <3> QED BY <2>1, Least
  <2>3. m # 0
    BY <2>2, <1>2 DEF Sums
  <2>4. m - 1 \in 0 .. n /\ sum[m - 1] = s[m - 1]
    BY <2>2, <2>3
  <2> QED BY <2>2, <2>3, <2>4, <1>2 DEF Sums
<1> QED BY <1>3, <1>4

\* Integers have partial sums.
LEMMA SumsExist ==
  ASSUME NEW n \in Nat, NEW f, \A i \in 1 .. n : f[i] \in Int
  PROVE  \E s : Sums(s, f, n)
<1> DEFINE T == {j \in 0 .. n : ~\E s : Sums(s, f, j)}
<1> SUFFICES ASSUME T # {} PROVE FALSE
  OBVIOUS
<1>1. T \subseteq Nat
  OBVIOUS
<1>2. PICK m \in T : \A x \in T : m <= x
  <2> HIDE DEF T
  <2> QED BY <1>1, Least
<1>3. m # 0
  <2>1. Sums([i \in 0 .. 0 |-> 0], f, 0)
    BY DEF Sums
  <2> QED BY <1>2, <2>1
<1>4. m - 1 \in 0 .. n /\ m - 1 \notin T
  BY <1>2, <1>3
<1>5. PICK s : Sums(s, f, m - 1)
  BY <1>4
<1> DEFINE r == [i \in 0 .. m |-> IF i = m THEN s[m - 1] + f[m] ELSE s[i]]
<1>6. r \in [0 .. m -> Int] /\ r[0] = 0
  BY <1>2, <1>3, <1>5 DEF Sums
<1>7. ASSUME NEW i \in 1 .. m
      PROVE  r[i] = r[i - 1] + f[i]
  <2>1. i - 1 \in 0 .. m - 1 /\ r[i - 1] = s[i - 1]
    BY <1>2
  <2>2. CASE i = m
    BY <2>1, <2>2
  <2>3. CASE i # m
    BY <2>1, <2>3, <1>2, <1>5 DEF Sums
  <2> QED BY <2>2, <2>3
<1>8. Sums(r, f, m)
  BY <1>6, <1>7 DEF Sums
<1> QED BY <1>2, <1>8

\* FirstPlace() is the least of the places, or the end when there is none.
LEMMA FirstPlaceIs ==
  ASSUME NEW S, NEW q \in Seq(S), NEW P \in SUBSET (1 .. Len(q))
  PROVE  /\ FirstPlace(q, P) \in 1 .. Len(q) + 1
         /\ FirstPlace(q, P) \in P \/ FirstPlace(q, P) = Len(q) + 1
         /\ \A i \in P : FirstPlace(q, P) <= i
<1>1. FirstPlace(q, P) \in 1 .. Len(q) + 1 /\ Len(q) \in Nat
  BY FirstPlaceRange, QueueType
<1>2. PICK n : n = FirstPlace(q, P)
  OBVIOUS
<1>3. CASE P = {}
  BY <1>1, <1>3 DEF FirstPlace
<1>4. CASE P # {}
  <2>1. P \subseteq Nat
    BY <1>1
  <2>2. \E m \in P : \A i \in P : m <= i
    BY <1>4, <2>1, Least
  <2>3. n \in P /\ \A i \in P : n <= i
    BY <1>2, <2>2, Zenon DEF FirstPlace
  <2> QED BY <1>1, <1>2, <2>3
<1> QED BY <1>3, <1>4

(***************************************************************************)
(* The ready list: in descending order of key.                             *)
(***************************************************************************)
Ordered(q, k) ==
  /\ \A i \in 1 .. Len(q) : k[q[i]] \in Int
  /\ \A i, j \in 1 .. Len(q) : i < j => k[q[i]] >= k[q[j]]

\* insert() keeps a queue in descending order of its keys.
LEMMA InsertOrdered ==
  ASSUME NEW S, NEW q \in Seq(S), NEW t \in S, ~Contains(q, t),
         NEW k, DOMAIN k = S, NEW p \in Int, Ordered(q, k)
  PROVE  Ordered(insert(q, k, p, t), [k EXCEPT ![t] = p])
<1> DEFINE P == {i \in 1 .. Len(q) : k[q[i]] < p}
           k2 == [k EXCEPT ![t] = p]
<1> HIDE DEF k2
<1>1. PICK n : n = FirstPlace(q, P)
  OBVIOUS
<1>2. n \in 1 .. Len(q) + 1 /\ (n \in P \/ n = Len(q) + 1) /\ \A i \in P : n <= i
  BY <1>1, FirstPlaceIs
<1>3. PICK r : r = insert(q, k, p, t)
  OBVIOUS
<1>4. r = InsertAt(q, n, t)
  BY <1>1, <1>3 DEF insert
<1>5. /\ Len(q) \in Nat /\ Len(r) = Len(q) + 1
      /\ \A j \in 1 .. Len(q) + 1 :
           r[j] = IF j < n THEN q[j] ELSE IF j = n THEN t ELSE q[j - 1]
  <2>1. n \in 1 .. Len(q) + 1
    BY <1>2
  <2> HIDE DEF P
  <2> QED BY <1>4, <2>1, InsertAtElements, QueueType
<1>6. \A i \in 1 .. Len(q) : q[i] \in S /\ q[i] # t /\ k2[q[i]] = k[q[i]]
  BY QueueType DEF Contains, k2
<1>7. \A i \in 1 .. Len(q) : /\ i < n => k[q[i]] >= p
                             /\ i >= n => k[q[i]] < p
  <2> SUFFICES ASSUME NEW i \in 1 .. Len(q)
               PROVE  (i < n => k[q[i]] >= p) /\ (i >= n => k[q[i]] < p)
    OBVIOUS
  <2>1. k[q[i]] \in Int
    BY DEF Ordered
  <2>2. CASE i < n
    <3>1. i \notin P
      BY <1>2, <1>5, <2>2
    <3> QED BY <1>2, <2>1, <2>2, <3>1
  <2>3. CASE i >= n
    <3>1. n \in P /\ n \in 1 .. Len(q)
      BY <1>2, <1>5, <2>3
    <3>2. k[q[n]] < p /\ k[q[n]] >= k[q[i]] /\ k[q[n]] \in Int
      BY <1>5, <2>3, <3>1 DEF Ordered
    <3> QED BY <1>2, <2>1, <2>3, <3>2
  <2> QED BY <1>2, <1>5, <2>2, <2>3
<1> HIDE DEF P
<1>8. k2[t] = p
  BY DEF k2
<1>9. ASSUME NEW j \in 1 .. Len(r)
      PROVE  /\ k2[r[j]] \in Int
             /\ j < n => j \in 1 .. Len(q) /\ k2[r[j]] = k[q[j]] /\ k2[r[j]] >= p
             /\ j = n => k2[r[j]] = p
             /\ j > n => /\ j - 1 \in 1 .. Len(q) /\ k2[r[j]] = k[q[j - 1]]
                         /\ k2[r[j]] < p
  <2>1. CASE j < n
    <3>1. j \in 1 .. Len(q) /\ r[j] = q[j]
      BY <1>2, <1>5, <2>1
    <3>2. k2[q[j]] = k[q[j]]
      BY <1>6, <3>1
    <3>4. k[q[j]] >= p
      BY <1>7, <2>1, <3>1
    <3>3. k[q[j]] \in Int
      BY <3>1, Zenon DEF Ordered
    <3> QED BY <1>2, <1>5, <2>1, <3>1, <3>2, <3>3, <3>4
  <2>2. CASE j = n
    BY <1>2, <1>5, <1>8, <2>2
  <2>3. CASE j > n
    <3>1. j - 1 \in 1 .. Len(q) /\ r[j] = q[j - 1] /\ j - 1 >= n
      BY <1>2, <1>5, <2>3
    <3>2. k2[q[j - 1]] = k[q[j - 1]]
      BY <1>6, <3>1
    <3>4. k[q[j - 1]] < p
      BY <1>7, <3>1
    <3>3. k[q[j - 1]] \in Int
      BY <3>1, Zenon DEF Ordered
    <3> QED BY <1>2, <1>5, <2>3, <3>1, <3>2, <3>3, <3>4
  <2> QED BY <1>2, <1>5, <2>1, <2>2, <2>3
<1>10. ASSUME NEW i \in 1 .. Len(r), NEW j \in 1 .. Len(r), i < j
       PROVE  k2[r[i]] >= k2[r[j]]
  <2>1. CASE i < n /\ j < n
    BY <1>9, <1>10, <2>1 DEF Ordered
  <2>2. CASE i > n /\ j > n
    <3>1. /\ i - 1 \in 1 .. Len(q) /\ k2[r[i]] = k[q[i - 1]]
          /\ j - 1 \in 1 .. Len(q) /\ k2[r[j]] = k[q[j - 1]] /\ i - 1 < j - 1
      BY <1>5, <1>9, <1>10, <2>2
    <3> QED BY <3>1 DEF Ordered
  <2>3. CASE i <= n /\ j >= n
    BY <1>2, <1>5, <1>9, <1>10, <2>3
  <2> QED BY <1>2, <1>5, <1>10, <2>1, <2>2, <2>3
<1> QED BY <1>3, <1>9, <1>10 DEF Ordered, k2

\* Taking a thread off the queue keeps the order of the others.
LEMMA RemoveOrdered ==
  ASSUME NEW S, NEW q \in Seq(S), NEW k, NEW n \in 1 .. Len(q), Ordered(q, k)
  PROVE  Ordered(RemoveAt(q, n), k)
<1>1. PICK r : r = RemoveAt(q, n)
  OBVIOUS
<1>2. /\ Len(q) \in Nat /\ Len(r) = Len(q) - 1
      /\ \A j \in 1 .. Len(q) - 1 : r[j] = IF j < n THEN q[j] ELSE q[j + 1]
  BY <1>1, RemoveAtElements, QueueType
<1> DEFINE at(j) == IF j < n THEN j ELSE j + 1
<1>3. \A j \in 1 .. Len(r) : at(j) \in 1 .. Len(q) /\ r[j] = q[at(j)]
  BY <1>2
<1>4. \A i, j \in 1 .. Len(r) : i < j => at(i) < at(j)
  BY <1>2
<1> HIDE DEF at
<1> QED BY <1>1, <1>3, <1>4 DEF Ordered

\* So does getitem(), whether the thread is on the queue or not.
LEMMA GetitemOrdered ==
  ASSUME NEW S, NEW q \in Seq(S), NEW k, NEW t, Ordered(q, k)
  PROVE  Ordered(getitem(q, t), k)
<1>1. CASE Contains(q, t)
  <2>1. PICK n \in 1 .. Len(q) : getitem(q, t) = RemoveAt(q, n)
    BY <1>1 DEF getitem, Contains
  <2> QED BY <2>1, RemoveOrdered
<1>2. CASE ~Contains(q, t)
  BY <1>2 DEF getitem
<1> QED BY <1>1, <1>2

\* The first thread of an ordered queue has the greatest key, and dequeue() keeps
\* the order.
LEMMA TailOrdered ==
  ASSUME NEW S, NEW q \in Seq(S), NEW k, q # <<>>, Ordered(q, k)
  PROVE  /\ Ordered(Tail(q), k)
         /\ \A x : Contains(Tail(q), x) => k[x] <= k[Head(q)]
<1>1. PICK r : r = Tail(q)
  BY Zenon
<1>2. /\ Len(q) \in Nat \ {0} /\ Head(q) = q[1] /\ Len(r) = Len(q) - 1
      /\ \A j \in 1 .. Len(r) : r[j] = q[j + 1]
  BY <1>1, QueueType
<1> DEFINE at(j) == j + 1
<1>3. \A j \in 1 .. Len(r) : at(j) \in 1 .. Len(q) /\ 1 < at(j) /\ r[j] = q[at(j)]
  BY <1>2
<1>4. \A i, j \in 1 .. Len(r) : i < j => at(i) < at(j)
  BY <1>2
<1> HIDE DEF at
<1>5. Ordered(r, k)
  BY <1>3, <1>4 DEF Ordered
<1>6. \A j \in 1 .. Len(r) : k[r[j]] <= k[q[1]]
  <2>1. 1 \in 1 .. Len(q)
    BY <1>2
  <2> QED BY <2>1, <1>3 DEF Ordered
<1> QED BY <1>1, <1>2, <1>5, <1>6 DEF Contains

(***************************************************************************)
(* The sleep queue: the key of a thread is the time from the wakeup of the *)
(* thread in front of it to its own; d is the time that each has left.     *)
(***************************************************************************)
Deltas(q, k, d) ==
  /\ \A i \in 1 .. Len(q) : d[q[i]] \in Nat
  /\ \A i, j \in 1 .. Len(q) : i < j => d[q[i]] <= d[q[j]]
  /\ \A i \in 1 .. Len(q) :
       k[q[i]] = IF i = 1 THEN d[q[i]] ELSE d[q[i]] - d[q[i - 1]]

\* The keys of a delta list add up to the times.
LEMMA DeltaIs ==
  ASSUME NEW S, NEW q \in Seq(S), NEW k, NEW d, Deltas(q, k, d)
  PROVE  /\ \A i \in 1 .. Len(q) : Delta(q, k, i) = d[q[i]]
         /\ Delta(q, k, 0) = 0
<1>1. Len(q) \in Nat
  BY QueueType
<1>2. ASSUME NEW n \in 0 .. Len(q)
      PROVE  Delta(q, k, n) = IF n = 0 THEN 0 ELSE d[q[n]]
  <2> DEFINE f == [i \in 1 .. n |-> k[q[i]]]
             s == [i \in 0 .. n |-> IF i = 0 THEN 0 ELSE d[q[i]]]
  <2>1. n \in Nat /\ \A i \in 1 .. n : i \in 1 .. Len(q)
    BY <1>1
  <2>2. s \in [0 .. n -> Int] /\ s[0] = 0
    BY <2>1 DEF Deltas
  <2>3. ASSUME NEW i \in 1 .. n
        PROVE  s[i] = s[i - 1] + f[i]
    <3>1. i \in 1 .. Len(q) /\ s[i] = d[q[i]] /\ f[i] = k[q[i]] /\ d[q[i]] \in Nat
      BY <2>1 DEF Deltas
    <3>2. CASE i = 1
      BY <3>1, <3>2, <2>2 DEF Deltas
    <3>3. CASE i # 1
      <4>1. i - 1 \in 1 .. Len(q) /\ s[i - 1] = d[q[i - 1]] /\ d[q[i - 1]] \in Nat
        BY <2>1, <3>3, <1>1 DEF Deltas
      <4>2. k[q[i]] = d[q[i]] - d[q[i - 1]]
        BY <3>1, <3>3 DEF Deltas
      <4> QED BY <3>1, <4>1, <4>2
    <3> QED BY <3>2, <3>3
  <2>4. Sums(s, f, n)
    BY <2>2, <2>3 DEF Sums
  <2>5. SumTo(f, n) = s[n]
    <3> HIDE DEF f, s
    <3> QED BY <2>1, <2>4, SumIs
  <2> QED BY <2>1, <2>5 DEF Delta
<1> QED BY <1>1, <1>2

\* Keys of threads that are not on the queue do not matter.
LEMMA DeltasFrame ==
  ASSUME NEW q, NEW k, NEW d, Deltas(q, k, d), NEW k2, NEW d2,
         \A x : Contains(q, x) => k2[x] = k[x] /\ d2[x] = d[x]
  PROVE  Deltas(q, k2, d2)
<1>1. \A i \in 1 .. Len(q) : k2[q[i]] = k[q[i]] /\ d2[q[i]] = d[q[i]]
  BY DEF Contains
<1>2. \A i \in 1 .. Len(q) : i # 1 => i - 1 \in 1 .. Len(q)
  OBVIOUS
<1> QED BY <1>1, <1>2 DEF Deltas

\* dequeue() of a thread whose time is up.
LEMMA TailDeltas ==
  ASSUME NEW S, NEW q \in Seq(S), NEW k, NEW d, Deltas(q, k, d),
         q # <<>>, d[Head(q)] = 0
  PROVE  Deltas(Tail(q), k, d)
<1>1. PICK r : r = Tail(q)
  BY Zenon
<1>2. /\ Len(q) \in Nat \ {0} /\ Head(q) = q[1] /\ Len(r) = Len(q) - 1
      /\ \A j \in 1 .. Len(r) : r[j] = q[j + 1]
  BY <1>1, QueueType
<1>3. \A j \in 1 .. Len(r) : j + 1 \in 1 .. Len(q)
  BY <1>2
<1>4. ASSUME NEW j \in 1 .. Len(r)
      PROVE  /\ d[r[j]] \in Nat
             /\ k[r[j]] = IF j = 1 THEN d[r[j]] ELSE d[r[j]] - d[r[j - 1]]
  <2>1. /\ j + 1 \in 1 .. Len(q) /\ r[j] = q[j + 1] /\ j + 1 # 1 /\ (j + 1) - 1 = j
        /\ j \in 1 .. Len(q)
    BY <1>2, <1>3
  <2>2. d[r[j]] \in Nat /\ k[r[j]] = d[r[j]] - d[q[j]]
    <3>1. d[q[j + 1]] \in Nat /\ k[q[j + 1]] = d[q[j + 1]] - d[q[(j + 1) - 1]]
      BY <2>1 DEF Deltas
    <3> QED BY <2>1, <3>1
  <2>3. CASE j = 1
    BY <1>2, <2>2, <2>3
  <2>4. CASE j # 1
    <3>1. j - 1 \in 1 .. Len(r) /\ r[j - 1] = q[j]
      BY <1>2, <2>4
    <3> QED BY <2>2, <2>4, <3>1
  <2> QED BY <2>3, <2>4
<1>5. ASSUME NEW i \in 1 .. Len(r), NEW j \in 1 .. Len(r), i < j
      PROVE  d[r[i]] <= d[r[j]]
  <2>1. i + 1 \in 1 .. Len(q) /\ j + 1 \in 1 .. Len(q) /\ i + 1 < j + 1
    BY <1>3, <1>5
  <2>2. d[q[i + 1]] <= d[q[j + 1]]
    BY <2>1 DEF Deltas
  <2> QED BY <1>2, <2>2
<1> QED BY <1>1, <1>4, <1>5 DEF Deltas

\* insertd() puts a thread where its time belongs, and moves nobody else's.
LEMMA InsertdDeltas ==
  ASSUME NEW S, NEW q \in Seq(S), NoDuplicates(q), NEW t \in S, ~Contains(q, t),
         NEW k, DOMAIN k = S, NEW d, DOMAIN d = S, Deltas(q, k, d), NEW e \in Nat
  PROVE  /\ Deltas(insertd_queue(q, k, t, e), insertd_key(q, k, t, e),
                   [d EXCEPT ![t] = e])
         /\ DOMAIN insertd_key(q, k, t, e) = S
         /\ \A x \in S : ~Contains(q, x) /\ x # t => insertd_key(q, k, t, e)[x] = k[x]
<1>0. /\ \A i \in 1 .. Len(q) : Delta(q, k, i) = d[q[i]] /\ d[q[i]] \in Nat
      /\ Delta(q, k, 0) = 0
  <2>1. \A i \in 1 .. Len(q) : d[q[i]] \in Nat
    BY DEF Deltas
  <2> QED BY <2>1, DeltaIs
<1>1. Len(q) \in Nat /\ \A i \in 1 .. Len(q) : q[i] \in S /\ q[i] # t
  BY QueueType DEF Contains
<1>2. PICK P \in SUBSET (1 .. Len(q)) : P = {i \in 1 .. Len(q) : Delta(q, k, i) > e}
  BY Zenon
<1>3. PICK n : n = FirstPlace(q, P)
  OBVIOUS
<1>4. n \in 1 .. Len(q) + 1 /\ (n \in P \/ n = Len(q) + 1) /\ \A i \in P : n <= i
  BY <1>3, FirstPlaceIs
<1>5. Passed(q, k, e) = n - 1
  BY <1>2, <1>3 DEF Passed
<1> DEFINE before == IF n = 1 THEN 0 ELSE d[q[n - 1]]
<1>6. Delta(q, k, n - 1) = before /\ before \in Nat
  <2>1. CASE n = 1
    BY <1>0, <2>1
  <2>2. CASE n # 1
    <3>1. n - 1 \in 1 .. Len(q)
      BY <1>1, <1>4, <2>2
    <3>2. Delta(q, k, n - 1) = d[q[n - 1]] /\ d[q[n - 1]] \in Nat
      BY <1>0, <3>1
    <3> QED BY <2>2, <3>2
  <2> QED BY <2>1, <2>2
<1>7. PICK left : left = e - before /\ left \in Int
  BY <1>6
<1>8. PICK k2 : k2 = insertd_key(q, k, t, e)
  OBVIOUS
<1>9. k2 = IF n <= Len(q) THEN [k EXCEPT ![q[n]] = @ - left, ![t] = left]
                          ELSE [k EXCEPT ![t] = left]
  <2>1. n - 1 < Len(q) <=> n <= Len(q)
    BY <1>1, <1>4
  <2>2. (n - 1) + 1 = n
    BY <1>4
  <2> QED BY <1>5, <1>6, <1>7, <1>8, <2>1, <2>2 DEF insertd_key
<1>10. PICK r : r = InsertAt(q, n, t)
  OBVIOUS
<1>11. r = insertd_queue(q, k, t, e)
  <2>1. (n - 1) + 1 = n
    BY <1>4
  <2> QED BY <1>5, <1>10, <2>1 DEF insertd_queue
<1>12. /\ Len(r) = Len(q) + 1
       /\ \A j \in 1 .. Len(q) + 1 :
            r[j] = IF j < n THEN q[j] ELSE IF j = n THEN t ELSE q[j - 1]
  BY <1>4, <1>10, InsertAtElements
<1>13. \A i \in 1 .. Len(q) : d[q[i]] \in Nat /\ (i < n <=> d[q[i]] <= e)
  <2> SUFFICES ASSUME NEW i \in 1 .. Len(q)
               PROVE  d[q[i]] \in Nat /\ (i < n <=> d[q[i]] <= e)
    OBVIOUS
  <2>1. d[q[i]] \in Nat /\ (i \in P <=> d[q[i]] > e)
    BY <1>0, <1>2
  <2>2. CASE i < n
    BY <1>1, <1>4, <2>1, <2>2
  <2>3. CASE i >= n
    <3>1. n \in 1 .. Len(q) /\ n \in P
      BY <1>1, <1>4, <2>3
    <3>2. d[q[n]] > e /\ d[q[n]] \in Nat /\ d[q[n]] <= d[q[i]]
      <4>1. d[q[n]] > e /\ d[q[n]] \in Nat
        BY <1>0, <1>2, <3>1
      <4>2. CASE n = i
        BY <2>1, <4>1, <4>2
      <4>3. CASE n # i
        BY <1>4, <2>3, <3>1, <4>1, <4>3 DEF Deltas
      <4> QED BY <4>2, <4>3
    <3> QED BY <1>1, <1>4, <2>1, <2>3, <3>2
  <2> QED BY <1>1, <1>4, <2>2, <2>3
<1> DEFINE d2 == [d EXCEPT ![t] = e]
<1>14. d2[t] = e /\ \A i \in 1 .. Len(q) : d2[q[i]] = d[q[i]]
  BY <1>1
<1>15. /\ k2[t] = left
       /\ n \in 1 .. Len(q) => k2[q[n]] = k[q[n]] - left
       /\ \A i \in 1 .. Len(q) : i # n => k2[q[i]] = k[q[i]]
       /\ DOMAIN k2 = S
       /\ \A x \in S : ~Contains(q, x) /\ x # t => k2[x] = k[x]
  <2>1. CASE n \in 1 .. Len(q)
    <3>1. k2 = [k EXCEPT ![q[n]] = k[q[n]] - left, ![t] = left]
      BY <1>9, <2>1
    <3>2. \A i \in 1 .. Len(q) : i # n => q[i] # q[n]
      BY <2>1 DEF NoDuplicates
    <3>3. \A x : ~Contains(q, x) => x # q[n]
      BY <2>1 DEF Contains
    <3> QED BY <1>1, <2>1, <3>1, <3>2, <3>3
  <2>2. CASE n \notin 1 .. Len(q)
    <3>1. k2 = [k EXCEPT ![t] = left]
      BY <1>1, <1>4, <1>9, <2>2
    <3> QED BY <1>1, <2>2, <3>1
  <2> QED BY <2>1, <2>2
<1> HIDE DEF d2
<1>16. ASSUME NEW j \in 1 .. Len(r)
       PROVE  /\ d2[r[j]] \in Nat
              /\ j < n => j \in 1 .. Len(q) /\ r[j] = q[j] /\ d2[r[j]] = d[q[j]] /\ d[q[j]] <= e
              /\ j = n => r[j] = t /\ d2[r[j]] = e
              /\ j > n => /\ j - 1 \in 1 .. Len(q) /\ r[j] = q[j - 1]
                          /\ d2[r[j]] = d[q[j - 1]] /\ d[q[j - 1]] > e
  <2>1. CASE j < n
    <3>1. j \in 1 .. Len(q) /\ r[j] = q[j]
      BY <1>1, <1>4, <1>12, <2>1
    <3>2. d2[q[j]] = d[q[j]] /\ d[q[j]] \in Nat /\ d[q[j]] <= e
      BY <1>13, <1>14, <2>1, <3>1
    <3> QED BY <1>4, <2>1, <3>1, <3>2
  <2>2. CASE j = n
    <3>1. r[j] = t
      BY <1>1, <1>4, <1>12, <2>2
    <3> QED BY <1>4, <1>14, <2>2, <3>1
  <2>3. CASE j > n
    <3>1. j - 1 \in 1 .. Len(q) /\ r[j] = q[j - 1] /\ ~(j - 1 < n)
      BY <1>1, <1>4, <1>12, <2>3
    <3>2. d2[q[j - 1]] = d[q[j - 1]] /\ d[q[j - 1]] \in Nat /\ ~(d[q[j - 1]] <= e)
      BY <1>13, <1>14, <3>1
    <3> QED BY <1>4, <2>3, <3>1, <3>2
  <2> QED BY <1>1, <1>4, <1>12, <2>1, <2>2, <2>3
<1>17. ASSUME NEW i \in 1 .. Len(r), NEW j \in 1 .. Len(r), i < j
       PROVE  d2[r[i]] <= d2[r[j]]
  <2>1. CASE j < n
    BY <1>4, <1>1, <1>16, <1>17, <2>1 DEF Deltas
  <2>2. CASE i > n
    <3>1. /\ i - 1 \in 1 .. Len(q) /\ d2[r[i]] = d[q[i - 1]]
          /\ j - 1 \in 1 .. Len(q) /\ d2[r[j]] = d[q[j - 1]] /\ i - 1 < j - 1
      BY <1>4, <1>1, <1>12, <1>16, <1>17, <2>2
    <3> QED BY <3>1 DEF Deltas
  <2>3. CASE i <= n /\ j >= n
    <3>1. d2[r[i]] \in Nat /\ d2[r[i]] <= e
      BY <1>1, <1>4, <1>12, <1>16, <2>3
    <3>2. d2[r[j]] \in Nat /\ d2[r[j]] >= e
      BY <1>1, <1>4, <1>12, <1>16, <2>3
    <3> QED BY <3>1, <3>2
  <2> QED BY <1>1, <1>4, <1>12, <1>17, <2>1, <2>2, <2>3
<1>18. ASSUME NEW j \in 1 .. Len(r)
       PROVE  k2[r[j]] = IF j = 1 THEN d2[r[j]] ELSE d2[r[j]] - d2[r[j - 1]]
  <2>0. j # 1 => j - 1 \in 1 .. Len(r)
    OBVIOUS
  <2>1. CASE j < n
    <3>1. j \in 1 .. Len(q) /\ j # n
      BY <1>4, <1>16, <2>1
    <3>2. k2[r[j]] = IF j = 1 THEN d[q[j]] ELSE d[q[j]] - d[q[j - 1]]
      BY <1>15, <1>16, <2>1, <3>1 DEF Deltas
    <3>3. j # 1 => d2[r[j - 1]] = d[q[j - 1]]
      BY <1>4, <1>16, <2>0, <2>1
    <3> QED BY <1>16, <2>1, <3>2, <3>3
  <2>2. CASE j = n
    <3>1. k2[r[j]] = left /\ d2[r[j]] = e
      BY <1>15, <1>16, <2>2
    <3>2. j # 1 => d2[r[j - 1]] = d[q[j - 1]]
      BY <1>4, <1>16, <2>0, <2>2
    <3> QED BY <1>7, <2>2, <3>1, <3>2
  <2>3. CASE j = n + 1
    <3>1. /\ n \in 1 .. Len(q) /\ j - 1 = n /\ j # 1 /\ r[j] = q[n] /\ d2[r[j]] = d[q[n]]
          /\ d2[r[j - 1]] = e
      BY <1>1, <1>4, <1>12, <1>16, <2>0, <2>3
    <3>2. k2[r[j]] = k[q[n]] - left
      BY <1>15, <3>1
    <3>3. k[q[n]] = d[q[n]] - before /\ d[q[n]] \in Nat
      BY <1>6, <3>1 DEF Deltas
    <3> HIDE DEF before
    <3> QED BY <1>6, <1>7, <3>1, <3>2, <3>3
  <2>4. CASE j > n + 1
    <3>1. /\ j - 1 \in 1 .. Len(q) /\ j - 2 \in 1 .. Len(q) /\ j - 1 # n /\ j - 1 # 1
          /\ j # 1 /\ r[j] = q[j - 1] /\ d2[r[j]] = d[q[j - 1]]
          /\ (j - 1) - 1 = j - 2 /\ d2[r[j - 1]] = d[q[j - 2]]
      <4>1. /\ j - 1 \in 1 .. Len(r) /\ j - 1 > n /\ j > n /\ (j - 1) - 1 = j - 2 /\ j - 1 # 1
        BY <1>4, <1>12, <2>4
      <4>2. (j - 1) - 1 \in 1 .. Len(q) /\ d2[r[j - 1]] = d[q[(j - 1) - 1]]
        BY <1>16, <4>1
      <4> QED BY <1>4, <1>16, <2>4, <4>1, <4>2
    <3>2. k2[r[j]] = k[q[j - 1]]
      BY <1>15, <3>1
    <3>3. k[q[j - 1]] = d[q[j - 1]] - d[q[(j - 1) - 1]]
      BY <3>1 DEF Deltas
    <3> QED BY <3>1, <3>2, <3>3
  <2> QED BY <1>1, <1>4, <1>12, <2>1, <2>2, <2>3, <2>4
<1>19. Deltas(r, k2, d2)
  BY <1>16, <1>17, <1>18 DEF Deltas
<1> QED BY <1>8, <1>11, <1>15, <1>19 DEF d2

\* unsleep() takes a thread off the queue early and moves nobody else's time.
LEMMA UnsleepDeltas ==
  ASSUME NEW S, NEW q \in Seq(S), NoDuplicates(q), NEW t \in S, Contains(q, t),
         NEW k, DOMAIN k = S, NEW d, DOMAIN d = S, Deltas(q, k, d)
  PROVE  /\ Deltas(getitem(q, t), unsleep_key(q, k, t), [d EXCEPT ![t] = 0])
         /\ DOMAIN unsleep_key(q, k, t) = S
         /\ \A x \in S : ~Contains(q, x) => unsleep_key(q, k, t)[x] = k[x]
<1>1. Len(q) \in Nat /\ \A i \in 1 .. Len(q) : q[i] \in S
  BY QueueType
<1>2. PICK n : n = CHOOSE i \in 1 .. Len(q) : q[i] = t
  OBVIOUS
<1>3. n \in 1 .. Len(q) /\ q[n] = t
  BY <1>2 DEF Contains
<1>4. PICK r : r = RemoveAt(q, n)
  OBVIOUS
<1>5. r = getitem(q, t)
  BY <1>2, <1>4 DEF getitem
<1>6. /\ Len(r) = Len(q) - 1
      /\ \A j \in 1 .. Len(q) - 1 : r[j] = IF j < n THEN q[j] ELSE q[j + 1]
  BY <1>3, <1>4, RemoveAtElements
<1>7. PICK k2 : k2 = unsleep_key(q, k, t)
  OBVIOUS
<1>8. k2 = IF n < Len(q) THEN [k EXCEPT ![q[n + 1]] = @ + k[t]] ELSE k
  BY <1>2, <1>7 DEF unsleep_key
<1>9. \A i \in 1 .. Len(q) : i # n => q[i] # t
  BY <1>3 DEF NoDuplicates
<1>10. /\ n < Len(q) => k2[q[n + 1]] = k[q[n + 1]] + k[t]
       /\ \A i \in 1 .. Len(q) : i # n + 1 => k2[q[i]] = k[q[i]]
       /\ DOMAIN k2 = S
       /\ \A x \in S : ~Contains(q, x) => k2[x] = k[x]
  <2>1. CASE n < Len(q)
    <3>0. n + 1 \in 1 .. Len(q)
      BY <1>1, <1>3, <2>1
    <3>1. k2 = [k EXCEPT ![q[n + 1]] = k[q[n + 1]] + k[t]]
      BY <1>8, <2>1
    <3>2. \A i \in 1 .. Len(q) : i # n + 1 => q[i] # q[n + 1]
      BY <3>0 DEF NoDuplicates
    <3>3. \A x : ~Contains(q, x) => x # q[n + 1]
      BY <3>0 DEF Contains
    <3> QED BY <1>1, <2>1, <3>0, <3>1, <3>2, <3>3
  <2>2. CASE ~(n < Len(q))
    <3>1. k2 = k
      BY <1>8, <2>2
    <3> QED BY <2>2, <3>1
  <2> QED BY <2>1, <2>2
<1> DEFINE d2 == [d EXCEPT ![t] = 0]
           at(j) == IF j < n THEN j ELSE j + 1
<1>11. \A i \in 1 .. Len(q) : i # n => d2[q[i]] = d[q[i]]
  BY <1>1, <1>9
<1> HIDE DEF d2
<1>12. ASSUME NEW j \in 1 .. Len(r)
       PROVE  /\ at(j) \in 1 .. Len(q) /\ at(j) # n /\ r[j] = q[at(j)]
              /\ d2[r[j]] = d[q[at(j)]] /\ d2[r[j]] \in Nat
  <2>1. at(j) \in 1 .. Len(q) /\ at(j) # n /\ r[j] = q[at(j)]
    BY <1>1, <1>3, <1>6
  <2>2. d[q[at(j)]] \in Nat
    <3> HIDE DEF at
    <3> QED BY <2>1 DEF Deltas
  <2> HIDE DEF at
  <2> QED BY <1>11, <2>1, <2>2
<1>13. ASSUME NEW i \in 1 .. Len(r), NEW j \in 1 .. Len(r), i < j
       PROVE  d2[r[i]] <= d2[r[j]]
  <2>1. at(i) < at(j)
    BY <1>3, <1>13
  <2> HIDE DEF at
  <2> QED BY <1>12, <2>1 DEF Deltas
<1>14. ASSUME NEW j \in 1 .. Len(r)
       PROVE  k2[r[j]] = IF j = 1 THEN d2[r[j]] ELSE d2[r[j]] - d2[r[j - 1]]
  <2>1. CASE j < n
    <3>1. at(j) = j /\ j # n + 1 /\ (j # 1 => j - 1 \in 1 .. Len(r) /\ at(j - 1) = j - 1)
      BY <1>3, <1>1, <1>6, <2>1
    <3> HIDE DEF at
    <3>2. j \in 1 .. Len(q) /\ r[j] = q[j] /\ d2[r[j]] = d[q[j]]
      BY <1>12, <3>1
    <3>3. j # 1 => d2[r[j - 1]] = d[q[j - 1]]
      BY <1>12, <3>1
    <3>4. k2[q[j]] = k[q[j]]
      BY <1>10, <3>1, <3>2
    <3>5. k[q[j]] = IF j = 1 THEN d[q[j]] ELSE d[q[j]] - d[q[j - 1]]
      BY <3>2 DEF Deltas
    <3> QED BY <3>2, <3>3, <3>4, <3>5
  <2>2. CASE j = n
    <3>1. /\ at(j) = n + 1 /\ n < Len(q) /\ n + 1 # 1 /\ (n + 1) - 1 = n
          /\ (j # 1 => j - 1 \in 1 .. Len(r) /\ at(j - 1) = n - 1)
      BY <1>3, <1>1, <1>6, <2>2
    <3> HIDE DEF at
    <3>2. n + 1 \in 1 .. Len(q) /\ r[j] = q[n + 1] /\ d2[r[j]] = d[q[n + 1]]
          /\ d[q[n + 1]] \in Nat
      BY <1>12, <3>1
    <3>3. n # 1 => d2[r[j - 1]] = d[q[n - 1]] /\ d[q[n - 1]] \in Nat
      BY <1>12, <3>1, <2>2
    <3>4. k2[q[n + 1]] = k[q[n + 1]] + k[q[n]]
      BY <1>3, <1>10, <3>1
    <3>5. k[q[n + 1]] = d[q[n + 1]] - d[q[n]]
      <4>1. k[q[n + 1]] = d[q[n + 1]] - d[q[(n + 1) - 1]]
        BY <3>1, <3>2 DEF Deltas
      <4> QED BY <3>1, <4>1
    <3>6. d[q[n]] \in Nat /\ k[q[n]] = IF n = 1 THEN d[q[n]] ELSE d[q[n]] - d[q[n - 1]]
      BY <1>3 DEF Deltas
    <3> QED BY <1>3, <2>2, <3>2, <3>3, <3>4, <3>5, <3>6
  <2>3. CASE j > n
    <3>1. /\ at(j) = j + 1 /\ j + 1 # n + 1 /\ j # 1 /\ j + 1 # 1 /\ (j + 1) - 1 = j
          /\ j - 1 \in 1 .. Len(r) /\ at(j - 1) = j
      BY <1>3, <1>1, <1>6, <2>3
    <3> HIDE DEF at
    <3>2. j + 1 \in 1 .. Len(q) /\ r[j] = q[j + 1] /\ d2[r[j]] = d[q[j + 1]]
      BY <1>12, <3>1
    <3>3. d2[r[j - 1]] = d[q[j]]
      BY <1>12, <3>1
    <3>4. k2[q[j + 1]] = k[q[j + 1]]
      BY <1>10, <3>1, <3>2
    <3>5. k[q[j + 1]] = d[q[j + 1]] - d[q[(j + 1) - 1]]
      BY <3>1, <3>2 DEF Deltas
    <3> QED BY <3>1, <3>2, <3>3, <3>4, <3>5
  <2> QED BY <1>1, <1>3, <2>1, <2>2, <2>3
<1>15. Deltas(r, k2, d2)
  BY <1>12, <1>13, <1>14 DEF Deltas
<1> QED BY <1>5, <1>7, <1>10, <1>15 DEF d2

\* One tick: the first key and all times go down by one.
LEMMA TickDeltas ==
  ASSUME NEW S, NEW q \in Seq(S), NoDuplicates(q), q # <<>>,
         NEW k, DOMAIN k = S, NEW d, Deltas(q, k, d),
         \A i \in 1 .. Len(q) : d[q[i]] > 0,
         NEW d2, \A i \in 1 .. Len(q) : d2[q[i]] = d[q[i]] - 1
  PROVE  Deltas(q, [k EXCEPT ![Head(q)] = @ - 1], d2)
<1>1. /\ Len(q) \in Nat \ {0} /\ Head(q) = q[1] /\ 1 \in 1 .. Len(q)
      /\ \A i \in 1 .. Len(q) : q[i] \in S
  BY QueueType
<1> DEFINE k2 == [k EXCEPT ![Head(q)] = @ - 1]
<1>2. k2[q[1]] = k[q[1]] - 1
  BY <1>1
<1>3. \A i \in 1 .. Len(q) : i # 1 => k2[q[i]] = k[q[i]]
  <2>1. \A i \in 1 .. Len(q) : i # 1 => q[i] # q[1]
    BY <1>1 DEF NoDuplicates
  <2> QED BY <1>1, <2>1
<1> HIDE DEF k2
<1>4. \A i \in 1 .. Len(q) : d[q[i]] \in Nat /\ d2[q[i]] \in Nat
  BY DEF Deltas
<1>5. \A i, j \in 1 .. Len(q) : i < j => d2[q[i]] <= d2[q[j]]
  BY <1>4 DEF Deltas
<1>6. ASSUME NEW i \in 1 .. Len(q)
      PROVE  k2[q[i]] = IF i = 1 THEN d2[q[i]] ELSE d2[q[i]] - d2[q[i - 1]]
  <2>1. CASE i = 1
    BY <1>1, <1>2, <1>4, <2>1 DEF Deltas
  <2>2. CASE i # 1
    <3>1. i - 1 \in 1 .. Len(q)
      BY <2>2
    <3>2. k[q[i]] = d[q[i]] - d[q[i - 1]]
      BY <2>2 DEF Deltas
    <3> QED BY <1>3, <1>4, <2>2, <3>1, <3>2
  <2> QED BY <2>1, <2>2
<1>7. Deltas(q, k2, d2)
  BY <1>4, <1>5, <1>6 DEF Deltas
<1> QED BY <1>7 DEF k2

\* insertd() changes the keys of nobody but the new thread and those on the list,
\* whatever the keys are.
LEMMA InsertdKeys ==
  ASSUME NEW S, NEW q \in Seq(S), NEW t \in S, NEW k, DOMAIN k = S, NEW e
  PROVE  /\ DOMAIN insertd_key(q, k, t, e) = S
         /\ \A x \in S : ~Contains(q, x) /\ x # t => insertd_key(q, k, t, e)[x] = k[x]
<1>1. PICK P \in SUBSET (1 .. Len(q)) : P = {i \in 1 .. Len(q) : Delta(q, k, i) > e}
  BY Zenon
<1>2. PICK n \in 1 .. Len(q) + 1 : n = FirstPlace(q, P)
  BY FirstPlaceRange
<1>3. Passed(q, k, e) = n - 1 /\ Len(q) \in Nat
  BY <1>1, <1>2, QueueType DEF Passed
<1>4. n - 1 < Len(q) => Contains(q, q[n])
  BY <1>3 DEF Contains
<1>5. PICK m : m = Passed(q, k, e)
  OBVIOUS
<1>6. m < Len(q) => Contains(q, q[m + 1])
  BY <1>3, <1>4, <1>5
<1>7. PICK left : left = e - Delta(q, k, m)
  OBVIOUS
<1>8. insertd_key(q, k, t, e) = IF m < Len(q)
                                THEN [k EXCEPT ![q[m + 1]] = @ - left, ![t] = left]
                                ELSE [k EXCEPT ![t] = left]
  BY <1>5, <1>7 DEF insertd_key
<1>9. CASE m < Len(q)
  BY <1>6, <1>8, <1>9
<1>10. CASE ~(m < Len(q))
  BY <1>8, <1>10
<1> QED BY <1>9, <1>10

\* unsleep() changes the keys of nobody but those on the list.
LEMMA UnsleepKeys ==
  ASSUME NEW S, NEW q \in Seq(S), NEW t \in S, Contains(q, t), NEW k, DOMAIN k = S
  PROVE  /\ DOMAIN unsleep_key(q, k, t) = S
         /\ \A x \in S : ~Contains(q, x) => unsleep_key(q, k, t)[x] = k[x]
<1>1. PICK n : n = CHOOSE i \in 1 .. Len(q) : q[i] = t
  OBVIOUS
<1>2. n \in 1 .. Len(q) /\ Len(q) \in Nat
  BY <1>1, QueueType DEF Contains
<1>3. n < Len(q) => Contains(q, q[n + 1])
  BY <1>2 DEF Contains
<1>4. unsleep_key(q, k, t) = IF n < Len(q) THEN [k EXCEPT ![q[n + 1]] = @ + k[t]] ELSE k
  BY <1>1 DEF unsleep_key
<1> QED BY <1>3, <1>4

=============================================================================
