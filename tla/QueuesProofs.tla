---------------------------- MODULE QueuesProofs ----------------------------
(***************************************************************************)
(* What the queue operations do to the members of a queue, to the order of *)
(* its keys and to the sums of a delta list, for every queue and all keys: *)
(* the facts that the proofs about the kernel rest on.                     *)
(***************************************************************************)
EXTENDS Queues, FiniteSets, TLAPS

\* A function on 1 .. n is a queue of length n.
LEMMA QueueOf ==
  ASSUME NEW S, NEW n \in Nat, NEW f \in [1 .. n -> S]
  PROVE  f \in Seq(S) /\ Len(f) = n
OBVIOUS

\* A queue has a length, and a member of S at every place.
LEMMA QueueType ==
  ASSUME NEW S, NEW q \in Seq(S)
  PROVE  /\ Len(q) \in Nat
         /\ \A i \in 1 .. Len(q) : q[i] \in S
         /\ q = <<>> <=> Len(q) = 0
OBVIOUS

\* An insertion moves what is behind it by one place.
LEMMA InsertAtElements ==
  ASSUME NEW S, NEW q \in Seq(S), NEW e \in S, NEW n \in 1 .. Len(q) + 1
  PROVE  /\ InsertAt(q, n, e) \in Seq(S)
         /\ Len(InsertAt(q, n, e)) = Len(q) + 1
         /\ \A j \in 1 .. Len(q) + 1 :
              InsertAt(q, n, e)[j] = IF j < n THEN q[j]
                                     ELSE IF j = n THEN e ELSE q[j - 1]
<1>1. Len(q) \in Nat /\ \A i \in 1 .. Len(q) : q[i] \in S
  BY QueueType
<1>2. InsertAt(q, n, e) \in [1 .. Len(q) + 1 -> S]
  BY <1>1 DEF InsertAt
<1>3. Len(q) + 1 \in Nat
  BY <1>1
<1>4. InsertAt(q, n, e) \in Seq(S) /\ Len(InsertAt(q, n, e)) = Len(q) + 1
  BY <1>2, <1>3, QueueOf
<1>5. ASSUME NEW j \in 1 .. Len(q) + 1
      PROVE  InsertAt(q, n, e)[j] = IF j < n THEN q[j]
                                    ELSE IF j = n THEN e ELSE q[j - 1]
  BY DEF InsertAt
<1> QED BY <1>4, <1>5

\* An insertion adds the thread and nothing else, and keeps the queue free
\* of duplicates if the thread was not on it.
LEMMA InsertAtMembers ==
  ASSUME NEW S, NEW q \in Seq(S), NEW e \in S, NEW n \in 1 .. Len(q) + 1
  PROVE  /\ InsertAt(q, n, e) \in Seq(S)
         /\ InsertAt(q, n, e) # <<>>
         /\ Len(InsertAt(q, n, e)) = Len(q) + 1
         /\ \A x : Contains(InsertAt(q, n, e), x) <=> Contains(q, x) \/ x = e
         /\ NoDuplicates(q) /\ ~Contains(q, e) => NoDuplicates(InsertAt(q, n, e))
<1>0. PICK r : r = InsertAt(q, n, e)
  OBVIOUS
<1>1. /\ Len(q) \in Nat
      /\ r \in Seq(S) /\ Len(r) = Len(q) + 1
      /\ \A j \in 1 .. Len(q) + 1 :
           r[j] = IF j < n THEN q[j] ELSE IF j = n THEN e ELSE q[j - 1]
  <2>1. Len(q) \in Nat
    BY QueueType
  <2>2. InsertAt(q, n, e) \in Seq(S) /\ Len(InsertAt(q, n, e)) = Len(q) + 1
    BY InsertAtElements, Zenon
  <2>3. ASSUME NEW j \in 1 .. Len(q) + 1
        PROVE  r[j] = IF j < n THEN q[j] ELSE IF j = n THEN e ELSE q[j - 1]
    BY <1>0 DEF InsertAt
  <2> QED BY <1>0, <2>1, <2>2, <2>3
<1>2. ASSUME NEW x
      PROVE  Contains(r, x) <=> Contains(q, x) \/ x = e
  <2>1. ASSUME NEW i \in 1 .. Len(q), q[i] = x
        PROVE  Contains(r, x)
    <3>1. CASE i < n
      BY <3>1, <2>1, <1>1 DEF Contains
    <3>2. CASE i >= n
      <4>1. i + 1 \in 1 .. Len(r) /\ r[i + 1] = x
        BY <3>2, <2>1, <1>1
      <4> QED BY <4>1 DEF Contains
    <3> QED BY <3>1, <3>2, <1>1
  <2>2. n \in 1 .. Len(r) /\ r[n] = e
    BY <1>1
  <2>3. ASSUME NEW i \in 1 .. Len(r), r[i] = x
        PROVE  Contains(q, x) \/ x = e
    <3>1. CASE i < n
      BY <3>1, <2>3, <1>1 DEF Contains
    <3>2. CASE i > n
      <4>1. i - 1 \in 1 .. Len(q) /\ q[i - 1] = x
        BY <3>2, <2>3, <1>1
      <4> QED BY <4>1 DEF Contains
    <3>3. CASE i = n
      BY <3>3, <2>2, <2>3
    <3> QED BY <3>1, <3>2, <3>3, <1>1
  <2> QED BY <2>1, <2>2, <2>3 DEF Contains
<1>3. ASSUME NoDuplicates(q), ~Contains(q, e)
      PROVE  NoDuplicates(r)
  <2>1. SUFFICES ASSUME NEW i \in 1 .. Len(r), NEW j \in 1 .. Len(r), i # j
                 PROVE  r[i] # r[j]
    BY DEF NoDuplicates
  <2>2. \A k \in 1 .. Len(q) : q[k] # e
    BY <1>3 DEF Contains
  <2>3. CASE i = n \/ j = n
    <3>1. ASSUME NEW l \in 1 .. Len(r), l # n
          PROVE  r[l] # e
      <4>1. CASE l < n
        BY <4>1, <2>2, <1>1
      <4>2. CASE l > n
        <5>1. l - 1 \in 1 .. Len(q) /\ r[l] = q[l - 1]
          BY <4>2, <1>1
        <5> QED BY <5>1, <2>2
      <4> QED BY <4>1, <4>2, <3>1, <1>1
    <3>2. r[n] = e
      BY <1>1
    <3> QED BY <3>1, <3>2, <2>1, <2>3
  <2>4. CASE i # n /\ j # n
    <3>1. PICK k \in 1 .. Len(q) : r[i] = q[k] /\ k = (IF i < n THEN i ELSE i - 1)
      BY <2>4, <1>1
    <3>2. PICK l \in 1 .. Len(q) : r[j] = q[l] /\ l = (IF j < n THEN j ELSE j - 1)
      BY <2>4, <1>1
    <3>3. k # l
      BY <3>1, <3>2, <2>1, <2>4, <1>1
    <3> QED BY <3>1, <3>2, <3>3, <1>3 DEF NoDuplicates
  <2> QED BY <2>3, <2>4
<1>4. r # <<>>
  BY <1>1
<1> QED BY <1>0, <1>1, <1>2, <1>3, <1>4

\* A removal closes the gap.
LEMMA RemoveAtElements ==
  ASSUME NEW S, NEW q \in Seq(S), NEW n \in 1 .. Len(q)
  PROVE  /\ RemoveAt(q, n) \in Seq(S)
         /\ Len(RemoveAt(q, n)) = Len(q) - 1
         /\ \A j \in 1 .. Len(q) - 1 :
              RemoveAt(q, n)[j] = IF j < n THEN q[j] ELSE q[j + 1]
<1>1. Len(q) \in Nat /\ \A i \in 1 .. Len(q) : q[i] \in S
  BY QueueType
<1>2. RemoveAt(q, n) \in [1 .. Len(q) - 1 -> S]
  BY <1>1 DEF RemoveAt
<1>3. Len(q) - 1 \in Nat
  BY <1>1
<1>4. RemoveAt(q, n) \in Seq(S) /\ Len(RemoveAt(q, n)) = Len(q) - 1
  BY <1>2, <1>3, QueueOf
<1>5. ASSUME NEW j \in 1 .. Len(q) - 1
      PROVE  RemoveAt(q, n)[j] = IF j < n THEN q[j] ELSE q[j + 1]
  BY DEF RemoveAt
<1> QED BY <1>4, <1>5

\* A removal takes one thread off the queue and keeps all others.
LEMMA RemoveAtMembers ==
  ASSUME NEW S, NEW q \in Seq(S), NEW n \in 1 .. Len(q), NoDuplicates(q)
  PROVE  /\ RemoveAt(q, n) \in Seq(S)
         /\ Len(RemoveAt(q, n)) = Len(q) - 1
         /\ \A x : Contains(RemoveAt(q, n), x) <=> Contains(q, x) /\ x # q[n]
         /\ NoDuplicates(RemoveAt(q, n))
<1>0. PICK r : r = RemoveAt(q, n)
  OBVIOUS
<1>1. /\ Len(q) \in Nat
      /\ r \in Seq(S) /\ Len(r) = Len(q) - 1
      /\ \A j \in 1 .. Len(q) - 1 : r[j] = IF j < n THEN q[j] ELSE q[j + 1]
  BY <1>0, RemoveAtElements, QueueType
<1>2. ASSUME NEW x
      PROVE  Contains(r, x) <=> Contains(q, x) /\ x # q[n]
  <2>1. ASSUME NEW i \in 1 .. Len(q), q[i] = x, x # q[n]
        PROVE  Contains(r, x)
    <3>1. CASE i < n
      <4>1. i \in 1 .. Len(r) /\ r[i] = x
        BY <3>1, <2>1, <1>1
      <4> QED BY <4>1 DEF Contains
    <3>2. CASE i > n
      <4>1. i - 1 \in 1 .. Len(r) /\ r[i - 1] = x
        BY <3>2, <2>1, <1>1
      <4> QED BY <4>1 DEF Contains
    <3> QED BY <3>1, <3>2, <2>1, <1>1
  <2>2. ASSUME NEW i \in 1 .. Len(r), r[i] = x
        PROVE  Contains(q, x) /\ x # q[n]
    <3>1. PICK k \in 1 .. Len(q) : r[i] = q[k] /\ k # n
      <4>1. CASE i < n
        BY <4>1, <1>1
      <4>2. CASE i >= n
        <5>1. i + 1 \in 1 .. Len(q) /\ r[i] = q[i + 1] /\ i + 1 # n
          BY <4>2, <1>1
        <5> QED BY <5>1
      <4> QED BY <4>1, <4>2, <1>1
    <3> QED BY <3>1, <2>2, Zenon DEF Contains, NoDuplicates
  <2> QED BY <2>1, <2>2 DEF Contains
<1>3. NoDuplicates(r)
  <2>1. SUFFICES ASSUME NEW i \in 1 .. Len(r), NEW j \in 1 .. Len(r), i # j
                 PROVE  r[i] # r[j]
    BY DEF NoDuplicates
  <2>2. PICK k \in 1 .. Len(q) : r[i] = q[k] /\ k = (IF i < n THEN i ELSE i + 1)
    BY <1>1
  <2>3. PICK l \in 1 .. Len(q) : r[j] = q[l] /\ l = (IF j < n THEN j ELSE j + 1)
    BY <1>1
  <2>4. k # l
    BY <2>1, <2>2, <2>3, <1>1
  <2> QED BY <2>2, <2>3, <2>4 DEF NoDuplicates
<1> QED BY <1>0, <1>1, <1>2, <1>3

\* The elements of a concatenation.
LEMMA ConcatElements ==
  ASSUME NEW S, NEW a \in Seq(S), NEW b \in Seq(S)
  PROVE  /\ a \o b \in Seq(S)
         /\ Len(a \o b) = Len(a) + Len(b)
         /\ \A j \in 1 .. Len(a) + Len(b) :
              (a \o b)[j] = IF j <= Len(a) THEN a[j] ELSE b[j - Len(a)]
<1>1. a \o b \in Seq(S)
  OBVIOUS
<1>2. Len(a \o b) = Len(a) + Len(b)
  OBVIOUS
<1>3. ASSUME NEW j \in 1 .. Len(a) + Len(b)
      PROVE  (a \o b)[j] = IF j <= Len(a) THEN a[j] ELSE b[j - Len(a)]
  OBVIOUS
<1> QED BY <1>1, <1>2, <1>3

\* Sequences with the same elements are equal.
LEMMA SameElements ==
  ASSUME NEW S, NEW a \in Seq(S), NEW b \in Seq(S), Len(a) = Len(b),
         \A j \in 1 .. Len(a) : a[j] = b[j]
  PROVE  a = b
  OBVIOUS

\* A removal joins what is before the place and what is behind it.
LEMMA RemoveAtIs ==
  ASSUME NEW S, NEW q \in Seq(S), NEW n \in 1 .. Len(q)
  PROVE  RemoveAt(q, n) = SubSeq(q, 1, n - 1) \o SubSeq(q, n + 1, Len(q))
<1>1. Len(q) \in Nat /\ n \in Nat
  BY QueueType
<1>2. PICK a, b : a = SubSeq(q, 1, n - 1) /\ b = SubSeq(q, n + 1, Len(q))
  BY Zenon
<1>3. /\ a \in Seq(S) /\ Len(a) = n - 1
      /\ \A j \in 1 .. n - 1 : a[j] = q[j]
  BY <1>1, <1>2
<1>4. /\ b \in Seq(S) /\ Len(b) = Len(q) - n
      /\ \A j \in 1 .. Len(q) - n : b[j] = q[n + j]
  BY <1>1, <1>2
<1>5. PICK c : c = a \o b
  BY Zenon
<1>6. /\ c \in Seq(S) /\ Len(c) = Len(a) + Len(b)
      /\ \A j \in 1 .. Len(a) + Len(b) :
           c[j] = IF j <= Len(a) THEN a[j] ELSE b[j - Len(a)]
  <2>1. a \in Seq(S) /\ b \in Seq(S)
    BY <1>3, <1>4
  <2> QED BY <1>5, <2>1, ConcatElements, Zenon
<1>7. Len(a) + Len(b) = Len(q) - 1
  BY <1>1, <1>3, <1>4
<1>8. ASSUME NEW j \in 1 .. Len(q) - 1
      PROVE  c[j] = IF j < n THEN q[j] ELSE q[j + 1]
  <2>1. CASE j < n
    BY <1>1, <1>3, <1>6, <1>7, <2>1
  <2>2. CASE ~(j < n)
    <3>1. /\ j - (n - 1) \in 1 .. Len(q) - n /\ n + (j - (n - 1)) = j + 1
          /\ ~(j <= n - 1) /\ j \in 1 .. Len(a) + Len(b)
      BY <1>1, <1>7, <2>2
    <3>2. c[j] = b[j - (n - 1)]
      BY <1>3, <1>6, <3>1
    <3> QED BY <1>4, <2>2, <3>1, <3>2
  <2> QED BY <2>1, <2>2
<1>9. PICK r : r = RemoveAt(q, n)
  BY Zenon
<1>10. /\ r \in Seq(S) /\ Len(r) = Len(q) - 1
       /\ \A j \in 1 .. Len(q) - 1 : r[j] = IF j < n THEN q[j] ELSE q[j + 1]
  BY <1>9, RemoveAtElements
<1>11. r = c
  <2>1. /\ r \in Seq(S) /\ c \in Seq(S) /\ Len(r) = Len(c)
        /\ \A j \in 1 .. Len(r) : r[j] = c[j]
    BY <1>6, <1>7, <1>8, <1>10
  <2> QED BY <2>1, SameElements, Zenon
<1> QED BY <1>2, <1>5, <1>9, <1>11

\* getitem() takes exactly the thread it is given off a queue.
LEMMA GetitemMembers ==
  ASSUME NEW S, NEW q \in Seq(S), NEW t, NoDuplicates(q)
  PROVE  /\ getitem(q, t) \in Seq(S)
         /\ Len(getitem(q, t)) = IF Contains(q, t) THEN Len(q) - 1 ELSE Len(q)
         /\ \A x : Contains(getitem(q, t), x) <=> Contains(q, x) /\ x # t
         /\ NoDuplicates(getitem(q, t))
<1>1. CASE ~Contains(q, t)
  BY <1>1 DEF getitem
<1>2. CASE Contains(q, t)
  <2>1. PICK n : n = CHOOSE i \in 1 .. Len(q) : q[i] = t
    OBVIOUS
  <2>2. n \in 1 .. Len(q) /\ q[n] = t
    BY <1>2, <2>1 DEF Contains
  <2>3. getitem(q, t) = RemoveAt(q, n)
    BY <1>2, <2>1 DEF getitem
  <2>4. PICK r : r = RemoveAt(q, n)
    OBVIOUS
  <2>5. /\ r \in Seq(S) /\ Len(r) = Len(q) - 1 /\ NoDuplicates(r)
        /\ \A x : Contains(r, x) <=> Contains(q, x) /\ x # q[n]
    BY <2>2, <2>4, RemoveAtMembers, Zenon
  <2> QED BY <1>2, <2>2, <2>3, <2>4, <2>5
<1> QED BY <1>1, <1>2

\* dequeue() of a nonempty queue takes exactly the first thread off it.
LEMMA TailMembers ==
  ASSUME NEW S, NEW q \in Seq(S), q # <<>>, NoDuplicates(q)
  PROVE  /\ Head(q) \in S /\ Contains(q, Head(q))
         /\ Tail(q) \in Seq(S)
         /\ Len(Tail(q)) = Len(q) - 1
         /\ \A x : Contains(Tail(q), x) <=> Contains(q, x) /\ x # Head(q)
         /\ NoDuplicates(Tail(q))
<1>0. PICK r : r = Tail(q)
  BY Zenon
<1>1. /\ Len(q) \in Nat \ {0} /\ Head(q) \in S /\ Head(q) = q[1]
      /\ r \in Seq(S) /\ Len(r) = Len(q) - 1
      /\ \A j \in 1 .. Len(r) : r[j] = q[j + 1]
  BY <1>0, QueueType
<1>2. ASSUME NEW x
      PROVE  Contains(r, x) <=> Contains(q, x) /\ x # Head(q)
  <2>1. ASSUME NEW i \in 1 .. Len(q), q[i] = x, x # q[1]
        PROVE  Contains(r, x)
    <3>1. i - 1 \in 1 .. Len(r) /\ r[i - 1] = x
      BY <2>1, <1>1
    <3> QED BY <3>1 DEF Contains
  <2>2. ASSUME NEW i \in 1 .. Len(r), r[i] = x
        PROVE  Contains(q, x) /\ x # q[1]
    <3>1. i + 1 \in 1 .. Len(q) /\ q[i + 1] = x /\ i + 1 # 1 /\ 1 \in 1 .. Len(q)
      BY <2>2, <1>1
    <3> QED BY <3>1 DEF Contains, NoDuplicates
  <2> QED BY <2>1, <2>2, <1>1 DEF Contains
<1>3. NoDuplicates(r)
  <2>1. SUFFICES ASSUME NEW i \in 1 .. Len(r), NEW j \in 1 .. Len(r), i # j
                 PROVE  r[i] # r[j]
    BY DEF NoDuplicates
  <2>2. /\ i + 1 \in 1 .. Len(q) /\ j + 1 \in 1 .. Len(q) /\ i + 1 # j + 1
        /\ r[i] = q[i + 1] /\ r[j] = q[j + 1]
    BY <2>1, <1>1
  <2> QED BY <2>2 DEF NoDuplicates
<1>4. Contains(q, Head(q))
  BY <1>1 DEF Contains
<1> QED BY <1>0, <1>1, <1>2, <1>3, <1>4

\* enqueue() adds exactly the thread it is given.
LEMMA AppendMembers ==
  ASSUME NEW S, NEW q \in Seq(S), NEW e \in S
  PROVE  /\ Append(q, e) \in Seq(S)
         /\ Len(Append(q, e)) = Len(q) + 1
         /\ \A x : Contains(Append(q, e), x) <=> Contains(q, x) \/ x = e
         /\ NoDuplicates(q) /\ ~Contains(q, e) => NoDuplicates(Append(q, e))
<1>0. PICK r : r = Append(q, e)
  BY Zenon
<1>1. /\ Len(q) \in Nat
      /\ r \in Seq(S) /\ Len(r) = Len(q) + 1
      /\ \A j \in 1 .. Len(q) : r[j] = q[j]
      /\ r[Len(q) + 1] = e
  BY <1>0, QueueType
<1>2. ASSUME NEW x
      PROVE  Contains(r, x) <=> Contains(q, x) \/ x = e
  BY <1>1 DEF Contains
<1>3. ASSUME NoDuplicates(q), ~Contains(q, e)
      PROVE  NoDuplicates(r)
  BY <1>1, <1>3 DEF NoDuplicates, Contains
<1> QED BY <1>0, <1>1, <1>2, <1>3

\* FirstPlace() is a place of the queue or the end of it.
LEMMA FirstPlaceRange ==
  ASSUME NEW S, NEW q \in Seq(S), NEW P \in SUBSET (1 .. Len(q))
  PROVE  FirstPlace(q, P) \in 1 .. Len(q) + 1
<1>1. Len(q) \in Nat
  BY QueueType
<1>2. CASE \E n \in P : \A i \in P : n <= i
  <2>1. PICK n : n = FirstPlace(q, P)
    OBVIOUS
  <2>2. n \in P
    BY <1>2, <2>1, Zenon DEF FirstPlace
  <2>3. n \in 1 .. Len(q)
    BY <2>2
  <2> QED BY <1>1, <2>1, <2>3
<1>3. CASE ~\E n \in P : \A i \in P : n <= i
  BY <1>1, <1>3 DEF FirstPlace
<1> QED BY <1>2, <1>3

\* insert() adds exactly the thread it is given, whatever the keys are.
LEMMA InsertMembers ==
  ASSUME NEW S, NEW q \in Seq(S), NEW t \in S, NEW k, NEW p
  PROVE  /\ insert(q, k, p, t) \in Seq(S)
         /\ insert(q, k, p, t) # <<>>
         /\ \A x : Contains(insert(q, k, p, t), x) <=> Contains(q, x) \/ x = t
         /\ NoDuplicates(q) /\ ~Contains(q, t) => NoDuplicates(insert(q, k, p, t))
<1>1. PICK P \in SUBSET (1 .. Len(q)) : P = {i \in 1 .. Len(q) : k[q[i]] < p}
  BY Zenon
<1>2. PICK n \in 1 .. Len(q) + 1 : n = FirstPlace(q, P)
  BY FirstPlaceRange
<1>3. insert(q, k, p, t) = InsertAt(q, n, t)
  BY <1>1, <1>2 DEF insert
<1> QED BY <1>3, InsertAtMembers

\* insertd() adds exactly the thread it is given, whatever the keys are.
LEMMA InsertdMembers ==
  ASSUME NEW S, NEW q \in Seq(S), NEW t \in S, NEW k, NEW d
  PROVE  /\ insertd_queue(q, k, t, d) \in Seq(S)
         /\ \A x : Contains(insertd_queue(q, k, t, d), x) <=> Contains(q, x) \/ x = t
         /\ NoDuplicates(q) /\ ~Contains(q, t)
              => NoDuplicates(insertd_queue(q, k, t, d))
<1>1. PICK P \in SUBSET (1 .. Len(q)) :
        P = {i \in 1 .. Len(q) : Delta(q, k, i) > d}
  BY Zenon
<1>2. PICK n \in 1 .. Len(q) + 1 : n = FirstPlace(q, P)
  BY FirstPlaceRange
<1>3. Passed(q, k, d) + 1 = n
  BY <1>1, <1>2 DEF Passed
<1>4. insertd_queue(q, k, t, d) = InsertAt(q, n, t)
  BY <1>3 DEF insertd_queue
<1> QED BY <1>4, InsertAtMembers

-----------------------------------------------------------------------------
\* The facts about finite sets that the counts of threads rest on.  Where they are
\* a hypothesis of a lemma, the theorem that cites it takes them from
\* FiniteSetTheorems.
Counting ==
  /\ \A m, n \in Int : IsFiniteSet(m .. n)
  /\ Cardinality({}) = 0
  /\ \A x : IsFiniteSet({x}) /\ Cardinality({x}) = 1
  /\ \A S : IsFiniteSet(S) => Cardinality(S) \in Nat /\ (Cardinality(S) = 0 => S = {})
  /\ \A S : IsFiniteSet(S) => \A T \in SUBSET S : IsFiniteSet(T)
  /\ \A S, x : IsFiniteSet(S) /\ x \notin S => Cardinality(S \cup {x}) = Cardinality(S) + 1
  /\ \A S, x : IsFiniteSet(S) /\ x \in S => Cardinality(S \ {x}) = Cardinality(S) - 1

=============================================================================
