---------------------------- MODULE MemoryProofs ----------------------------
(***************************************************************************)
(* The free list stays sound, for every heap, frees of any address and all *)
(* sizes that, added to an address of the heap, stay in the address space: *)
(* memfree() lets the sum wrap around.  When clients free only what they   *)
(* own, every byte of the heap is free or has one owner, the total is what *)
(* is free, owners can free, and requests are refused only when no free    *)
(* run of bytes is long enough.                                            *)
(***************************************************************************)
EXTENDS Memory, DeltaProofs

\* A sum changes by what one of its terms changes.
LEMMA SumReplaced ==
  ASSUME NEW n \in Nat, NEW f, \A i \in 1 .. n : f[i] \in Int,
         NEW k \in 1 .. n, NEW g, g[k] \in Int,
         \A i \in 1 .. n : i # k => g[i] = f[i]
  PROVE  SumTo(g, n) = SumTo(f, n) - f[k] + g[k] /\ SumTo(f, n) \in Int
<1>1. PICK s : Sums(s, f, n)
  BY SumsExist, Zenon
<1>2. PICK r : r = [i \in 0 .. n |-> IF i < k THEN s[i] ELSE s[i] - f[k] + g[k]]
  BY Zenon
<1>3. /\ s \in [0 .. n -> Int] /\ s[0] = 0
      /\ \A i \in 1 .. n : s[i] = s[i - 1] + f[i]
  BY <1>1, Zenon DEF Sums
<1>4. f[k] \in Int
  BY Zenon
<1>5. r \in [0 .. n -> Int] /\ r[0] = 0
  <2>1. ASSUME NEW i \in 0 .. n PROVE s[i] \in Int /\ s[i] - f[k] + g[k] \in Int
    <3>1. s[i] \in Int /\ g[k] \in Int
      BY <1>3, Zenon
    <3> QED BY <1>4, <3>1
  <2>2. 0 \in 0 .. n /\ 0 < k
    OBVIOUS
  <2> QED BY <1>2, <1>3, <2>1, <2>2, Zenon
<1>6. ASSUME NEW i \in 1 .. n PROVE r[i] = r[i - 1] + g[i]
  <2>1. s[i] \in Int /\ s[i - 1] \in Int /\ s[i] = s[i - 1] + f[i] /\ f[i] \in Int
    BY <1>3
  <2>2. CASE i < k
    BY <1>2, <2>1, <2>2
  <2>3. CASE i = k
    BY <1>2, <1>4, <2>1, <2>3
  <2>4. CASE i > k
    BY <1>2, <1>4, <2>1, <2>4
  <2> QED BY <2>2, <2>3, <2>4
<1>7. Sums(r, g, n)
  BY <1>5, <1>6, Zenon DEF Sums
<1>8. SumTo(g, n) = r[n] /\ SumTo(f, n) = s[n]
  BY <1>1, <1>7, SumIs, Zenon
<1> QED BY <1>2, <1>3, <1>8

\* It loses a term that is removed ...
LEMMA SumRemoved ==
  ASSUME NEW n \in Nat, NEW f, \A i \in 1 .. n : f[i] \in Int,
         NEW k \in 1 .. n, NEW g,
         \A i \in 1 .. n - 1 : g[i] = IF i < k THEN f[i] ELSE f[i + 1]
  PROVE  SumTo(g, n - 1) = SumTo(f, n) - f[k] /\ SumTo(f, n) \in Int
<1>1. PICK s : Sums(s, f, n)
  BY SumsExist, Zenon
<1>2. PICK r : r = [i \in 0 .. n - 1 |-> IF i < k THEN s[i] ELSE s[i + 1] - f[k]]
  BY Zenon
<1>3. /\ s \in [0 .. n -> Int] /\ s[0] = 0
      /\ \A i \in 1 .. n : s[i] = s[i - 1] + f[i]
  BY <1>1, Zenon DEF Sums
<1>4. f[k] \in Int
  BY Zenon
<1>5. r \in [0 .. n - 1 -> Int] /\ r[0] = 0
  <2>1. ASSUME NEW i \in 0 .. n - 1 PROVE s[i] \in Int /\ s[i + 1] - f[k] \in Int
    <3>1. i \in 0 .. n /\ i + 1 \in 0 .. n
      OBVIOUS
    <3>2. s[i] \in Int /\ s[i + 1] \in Int
      BY <1>3, <3>1, Zenon
    <3> QED BY <1>4, <3>2
  <2>2. 0 \in 0 .. n - 1 /\ 0 < k
    OBVIOUS
  <2> QED BY <1>2, <1>3, <2>1, <2>2, Zenon
<1>6. ASSUME NEW i \in 1 .. n - 1 PROVE r[i] = r[i - 1] + g[i]
  <2>1. /\ s[i] \in Int /\ s[i - 1] \in Int /\ s[i + 1] \in Int
        /\ s[i] = s[i - 1] + f[i] /\ s[i + 1] = s[i] + f[i + 1]
        /\ f[i] \in Int /\ f[i + 1] \in Int
    BY <1>3
  <2>2. CASE i < k
    BY <1>2, <2>1, <2>2
  <2>3. CASE i = k
    <3>1. r[i] = s[i + 1] - f[k] /\ r[i - 1] = s[i - 1] /\ g[i] = f[i + 1]
      BY <1>2, <2>3
    <3> QED BY <1>4, <2>1, <2>3, <3>1
  <2>4. CASE i > k
    <3>1. r[i] = s[i + 1] - f[k] /\ r[i - 1] = s[i] - f[k] /\ g[i] = f[i + 1]
      BY <1>2, <2>4
    <3> QED BY <1>4, <2>1, <3>1
  <2> QED BY <2>2, <2>3, <2>4
<1>7. Sums(r, g, n - 1)
  BY <1>5, <1>6, Zenon DEF Sums
<1>8. SumTo(g, n - 1) = r[n - 1] /\ SumTo(f, n) = s[n]
  BY <1>1, <1>7, SumIs
<1>9. CASE k = n
  <2>1. r[n - 1] = s[n - 1] /\ s[n] = s[n - 1] + f[n] /\ s[n - 1] \in Int
    BY <1>2, <1>3, <1>9
  <2> QED BY <1>4, <1>8, <1>9, <2>1
<1>10. CASE k # n
  <2>1. r[n - 1] = s[n] - f[k] /\ s[n] \in Int
    BY <1>2, <1>3, <1>10
  <2> QED BY <1>8, <2>1, Zenon
<1> QED BY <1>9, <1>10, Zenon

\* ... and gains one that is inserted.
LEMMA SumInserted ==
  ASSUME NEW n \in Nat, NEW f, \A i \in 1 .. n : f[i] \in Int,
         NEW k \in 1 .. n + 1, NEW x \in Int, NEW g,
         \A i \in 1 .. n + 1 : g[i] = IF i < k THEN f[i] ELSE IF i = k THEN x ELSE f[i - 1]
  PROVE  SumTo(g, n + 1) = SumTo(f, n) + x /\ SumTo(f, n) \in Int
<1>1. \A i \in 1 .. n + 1 : g[i] \in Int
  OBVIOUS
<1>2. n + 1 \in Nat /\ (n + 1) - 1 = n
  OBVIOUS
<1>3. PICK m \in Nat : m = n + 1
  OBVIOUS
<1>4. \A i \in 1 .. m - 1 : f[i] = IF i < k THEN g[i] ELSE g[i + 1]
  BY <1>3
<1>5. SumTo(f, m - 1) = SumTo(g, m) - g[k] /\ SumTo(g, m) \in Int
  <2>1. k \in 1 .. m
    BY <1>3
  <2>2. \A i \in 1 .. m : g[i] \in Int
    BY <1>1, <1>3, Zenon
  <2> QED BY <1>3, <1>4, <2>1, <2>2, SumRemoved, SMTT(30)
<1>6. g[k] = x
  OBVIOUS
<1> QED BY <1>2, <1>3, <1>5, <1>6

\* Two terms may be added first.
LEMMA SumJoined ==
  ASSUME NEW n \in Nat, NEW f, \A i \in 1 .. n : f[i] \in Int,
         NEW k \in 1 .. n - 1, NEW h,
         \A i \in 1 .. n - 1 : h[i] = IF i < k THEN f[i]
                                      ELSE IF i = k THEN f[k] + f[k + 1] ELSE f[i + 1]
  PROVE  SumTo(h, n - 1) = SumTo(f, n)
<1>1. PICK g : g = [i \in 1 .. n |-> IF i = k THEN f[k] + f[k + 1] ELSE f[i]]
  BY Zenon
<1>2. f[k] \in Int /\ f[k + 1] \in Int
  OBVIOUS
<1>3. PICK c \in 1 .. n : c = k + 1
  OBVIOUS
<1>4. /\ k \in 1 .. n /\ g[k] = f[k] + f[c] /\ g[c] = f[c]
      /\ \A i \in 1 .. n : i # k => g[i] = f[i]
  BY <1>1, <1>3
<1>5. g[k] \in Int /\ \A i \in 1 .. n : g[i] \in Int
  BY <1>1, <1>2
<1>6. SumTo(g, n) = SumTo(f, n) - f[k] + g[k] /\ SumTo(f, n) \in Int
  BY <1>4, <1>5, SumReplaced, Zenon
<1>7. \A i \in 1 .. n - 1 : h[i] = IF i < c THEN g[i] ELSE g[i + 1]
  BY <1>1, <1>3
<1>8. SumTo(h, n - 1) = SumTo(g, n) - g[c]
  BY <1>5, <1>7, SumRemoved
<1> QED BY <1>2, <1>3, <1>4, <1>6, <1>8

-----------------------------------------------------------------------------

\* roundmb() makes a request a block of eight bytes or more, which ends in the
\* address space wherever in the heap it starts.
LEMMA RoundUp ==
  ASSUME NoWrap, NEW req \in Sizes, req # 0
  PROVE  roundmb(req) \in Nat /\ roundmb(req) >= 8 /\ maxaddr + roundmb(req) < UINT
<1>1. /\ req \in Nat /\ UINT \in Nat /\ maxaddr \in Nat
      /\ maxaddr + req + 7 < UINT
  BY MemoryAssumption DEF NoWrap
<1>2. (req + 7) % UINT = req + 7
  BY <1>1
<1>3. /\ ((req + 7) \div 8) * 8 \in Nat /\ ((req + 7) \div 8) * 8 >= 8
      /\ ((req + 7) \div 8) * 8 <= req + 7
  BY <1>1
<1>4. roundmb(req) = ((req + 7) \div 8) * 8
  BY <1>2, Zenon DEF roundmb
<1> QED BY <1>1, <1>3, <1>4

\* What memfree() takes for the top of a block is its top, below the end of memory.
LEMMA EndIsTop ==
  ASSUME NEW b, Top(b) \in Nat, Top(b) < UINT
  PROVE  End(b) = Top(b)
BY MemoryAssumption DEF End

Blocks == [addr : Nat, len : Nat]

\* A free list whose blocks are in order and apart.
Sound(q) ==
  /\ q \in Seq(Blocks)
  /\ \A i \in 1 .. Len(q) : q[i].len > 0
  /\ \A i, j \in 1 .. Len(q) : i < j => Top(q[i]) < q[j].addr

\* Block() is a block.
LEMMA BlockType ==
  ASSUME NEW a \in Nat, NEW n \in Nat
  PROVE  /\ Block(a, n) \in Blocks
         /\ Block(a, n).addr = a /\ Block(a, n).len = n
         /\ Top(Block(a, n)) = a + n
BY Zenon DEF Block, Blocks, Top

\* The places of a sound list hold blocks.
LEMMA SoundElements ==
  ASSUME NEW q, Sound(q)
  PROVE  /\ Len(q) \in Nat
         /\ \A i \in 1 .. Len(q) :
              /\ q[i] \in Blocks /\ q[i].addr \in Nat /\ q[i].len \in Nat
              /\ q[i].len > 0 /\ Top(q[i]) = q[i].addr + q[i].len
<1>1. Len(q) \in Nat /\ \A i \in 1 .. Len(q) : q[i] \in Blocks
  BY QueueType, Zenon DEF Sound
<1> QED BY <1>1, Zenon DEF Sound, Blocks, Top

\* What lies above a block lies above the blocks under it.
LEMMA BelowBelow ==
  ASSUME NEW x \in Blocks, NEW y \in Blocks, NEW z \in Nat,
         Top(x) <= y.addr, Top(y) < z
  PROVE  Top(x) < z
BY DEF Blocks, Top

\* A block can be taken off a sound list.
LEMMA RemoveSound ==
  ASSUME NEW q, Sound(q), NEW n \in 1 .. Len(q)
  PROVE  Sound(RemoveAt(q, n))
<1>0. PICK r : r = RemoveAt(q, n)
  BY Zenon
<1>1. /\ r \in Seq(Blocks) /\ Len(r) = Len(q) - 1
      /\ \A j \in 1 .. Len(q) - 1 : r[j] = IF j < n THEN q[j] ELSE q[j + 1]
  BY <1>0, RemoveAtElements, SMTT(40) DEF Sound
<1>2. Len(q) \in Nat
  BY SoundElements, Zenon
<1>3. ASSUME NEW i \in 1 .. Len(r)
      PROVE  r[i].len > 0
  BY <1>1, <1>2 DEF Sound
<1>4. ASSUME NEW i \in 1 .. Len(r), NEW j \in 1 .. Len(r), i < j
      PROVE  Top(r[i]) < r[j].addr
  <2>1. PICK k \in 1 .. Len(q), l \in 1 .. Len(q) : k < l /\ r[i] = q[k] /\ r[j] = q[l]
    <3>1. CASE j < n
      <4>1. i \in 1 .. Len(q) /\ j \in 1 .. Len(q) /\ r[i] = q[i] /\ r[j] = q[j]
        BY <1>1, <1>2, <1>4, <3>1
      <4> QED BY <1>4, <4>1, Zenon
    <3>2. CASE i < n /\ j >= n
      <4>1. /\ i \in 1 .. Len(q) /\ j + 1 \in 1 .. Len(q) /\ i < j + 1
            /\ r[i] = q[i] /\ r[j] = q[j + 1]
        BY <1>1, <1>2, <1>4, <3>2
      <4> QED BY <4>1, Zenon
    <3>3. CASE i >= n
      <4>1. /\ i + 1 \in 1 .. Len(q) /\ j + 1 \in 1 .. Len(q) /\ i + 1 < j + 1
            /\ r[i] = q[i + 1] /\ r[j] = q[j + 1]
        BY <1>1, <1>2, <1>4, <3>3
      <4> QED BY <4>1, Zenon
    <3> QED BY <1>1, <1>2, <3>1, <3>2, <3>3
  <2> QED BY <2>1, Zenon DEF Sound
<1>5. Sound(r)
  BY <1>1, <1>3, <1>4, Zenon DEF Sound
<1> QED BY <1>0, <1>5, Zenon

\* A block of a sound list can be replaced by one that keeps its distance.
LEMMA ReplaceSound ==
  ASSUME NEW q, Sound(q), NEW n \in 1 .. Len(q), NEW b \in Blocks, b.len > 0,
         \A j \in 1 .. Len(q) : j < n => Top(q[j]) < b.addr,
         \A j \in 1 .. Len(q) : j > n => Top(b) < q[j].addr
  PROVE  Sound([q EXCEPT ![n] = b])
<1>0. PICK r : r = [q EXCEPT ![n] = b]
  BY Zenon
<1>1. Len(q) \in Nat
  BY SoundElements, Zenon
<1>2. /\ r \in Seq(Blocks) /\ Len(r) = Len(q)
      /\ \A j \in 1 .. Len(q) : r[j] = IF j = n THEN b ELSE q[j]
  BY <1>0, <1>1 DEF Sound
<1>3. ASSUME NEW i \in 1 .. Len(r)
      PROVE  r[i].len > 0
  BY <1>2, Zenon DEF Sound
<1>4. ASSUME NEW i \in 1 .. Len(r), NEW j \in 1 .. Len(r), i < j
      PROVE  Top(r[i]) < r[j].addr
  <2>1. CASE i = n
    BY <1>1, <1>2, <1>4, <2>1
  <2>2. CASE j = n
    BY <1>1, <1>2, <1>4, <2>2
  <2>3. CASE i # n /\ j # n
    BY <1>1, <1>2, <1>4, <2>3 DEF Sound
  <2> QED BY <2>1, <2>2, <2>3, Zenon
<1>5. Sound(r)
  BY <1>2, <1>3, <1>4, Zenon DEF Sound
<1> QED BY <1>0, <1>5, Zenon

\* A list that is sound but for its n-th block, which may touch the next one.
Near(q, n) ==
  /\ q \in Seq(Blocks)
  /\ \A i \in 1 .. Len(q) : q[i].len > 0
  /\ \A i, j \in 1 .. Len(q) : i < j =>
       Top(q[i]) <= q[j].addr /\ (i # n => Top(q[i]) < q[j].addr)

\* A new block may touch the one behind it.
LEMMA InsertNear ==
  ASSUME NEW q, Sound(q), NEW n \in 1 .. Len(q) + 1, NEW b \in Blocks, b.len > 0,
         \A j \in 1 .. Len(q) : j < n => Top(q[j]) < b.addr,
         \A j \in 1 .. Len(q) : j >= n => Top(b) <= q[j].addr
  PROVE  Near(InsertAt(q, n, b), n) /\ n \in 1 .. Len(InsertAt(q, n, b))
<1>0. PICK r : r = InsertAt(q, n, b)
  BY Zenon
<1>1. /\ r \in Seq(Blocks) /\ Len(r) = Len(q) + 1
      /\ \A j \in 1 .. Len(q) + 1 :
           r[j] = IF j < n THEN q[j] ELSE IF j = n THEN b ELSE q[j - 1]
  <2>1. q \in Seq(Blocks)
    BY Zenon DEF Sound
  <2>2. InsertAt(q, n, b) \in Seq(Blocks) /\ Len(InsertAt(q, n, b)) = Len(q) + 1
    BY <2>1, InsertAtElements
  <2>3. ASSUME NEW j \in 1 .. Len(q) + 1
        PROVE  r[j] = IF j < n THEN q[j] ELSE IF j = n THEN b ELSE q[j - 1]
    BY <1>0, Zenon DEF InsertAt
  <2> QED BY <1>0, <2>2, <2>3, Zenon
<1>2. /\ Len(q) \in Nat /\ b.addr \in Nat /\ b.len \in Nat
      /\ Top(b) = b.addr + b.len
  BY SoundElements, Zenon DEF Blocks, Top
<1>3. \A i \in 1 .. Len(q) :
        /\ q[i].addr \in Nat /\ q[i].len \in Nat /\ q[i].len > 0
        /\ Top(q[i]) \in Nat
  BY SoundElements
<1>4. \A i, j \in 1 .. Len(q) : i < j => Top(q[i]) < q[j].addr
  BY Zenon DEF Sound
<1>5. ASSUME NEW i \in 1 .. Len(r)
      PROVE  r[i].len > 0
  <2>1. CASE i < n
    BY <1>1, <1>2, <1>3, <2>1
  <2>2. CASE i = n
    BY <1>1, <1>2, <2>2
  <2>3. CASE i > n
    <3>1. r[i] = q[i - 1] /\ i - 1 \in 1 .. Len(q)
      BY <1>1, <1>2, <2>3
    <3> QED BY <3>1, <1>3, Zenon
  <2> QED BY <1>1, <1>2, <2>1, <2>2, <2>3
<1>6. ASSUME NEW i \in 1 .. Len(r), NEW j \in 1 .. Len(r), i < j
      PROVE  Top(r[i]) <= r[j].addr /\ (i # n => Top(r[i]) < r[j].addr)
  <2>1. CASE j < n
    <3>1. r[i] = q[i] /\ r[j] = q[j] /\ i \in 1 .. Len(q) /\ j \in 1 .. Len(q)
      BY <1>1, <1>2, <1>6, <2>1
    <3> QED BY <3>1, <1>3, <1>4, <1>6
  <2>2. CASE j = n
    <3>1. r[i] = q[i] /\ r[j] = b /\ i \in 1 .. Len(q)
      BY <1>1, <1>2, <1>6, <2>2
    <3> QED BY <3>1, <1>2, <1>3, <1>6, <2>2
  <2>3. CASE i < n /\ j > n
    <3>1. /\ r[i] = q[i] /\ r[j] = q[j - 1] /\ i < j - 1
          /\ i \in 1 .. Len(q) /\ j - 1 \in 1 .. Len(q)
      BY <1>1, <1>2, <1>6, <2>3
    <3> QED BY <3>1, <1>3, <1>4
  <2>4. CASE i = n
    <3>1. r[i] = b /\ r[j] = q[j - 1] /\ j - 1 \in 1 .. Len(q) /\ j - 1 >= n
      BY <1>1, <1>2, <1>6, <2>4
    <3> QED BY <3>1, <2>4, Zenon
  <2>5. CASE i > n
    <3>1. PICK k, l : k = i - 1 /\ l = j - 1
      BY Zenon
    <3>2. /\ r[i] = q[k] /\ r[j] = q[l] /\ k < l
          /\ k \in 1 .. Len(q) /\ l \in 1 .. Len(q)
      BY <1>1, <1>2, <1>6, <2>5, <3>1
    <3> QED BY <3>2, <1>3, <1>4
  <2> QED BY <1>1, <1>2, <2>1, <2>2, <2>3, <2>4, <2>5
<1>7. Near(r, n)
  BY <1>1, <1>5, <1>6, Zenon DEF Near
<1>8. n \in 1 .. Len(r)
  BY <1>1, <1>2, Zenon
<1> QED BY <1>0, <1>7, <1>8, Zenon

\* So may a block that has grown.
LEMMA ReplaceNear ==
  ASSUME NEW q, Sound(q), NEW n \in 1 .. Len(q), NEW b \in Blocks, b.len > 0,
         b.addr = q[n].addr,
         \A j \in 1 .. Len(q) : j > n => Top(b) <= q[j].addr
  PROVE  /\ Near([q EXCEPT ![n] = b], n)
         /\ Len([q EXCEPT ![n] = b]) = Len(q)
<1>0. PICK r : r = [q EXCEPT ![n] = b]
  BY Zenon
<1>1. /\ Len(q) \in Nat /\ b.addr \in Nat /\ b.len \in Nat
      /\ \A i \in 1 .. Len(q) :
           q[i].addr \in Nat /\ q[i].len \in Nat /\ Top(q[i]) = q[i].addr + q[i].len
  BY SoundElements, Zenon DEF Blocks
<1>2. /\ r \in Seq(Blocks) /\ Len(r) = Len(q)
      /\ \A j \in 1 .. Len(q) : r[j] = IF j = n THEN b ELSE q[j]
  BY <1>0, <1>1 DEF Sound
<1>3. ASSUME NEW i \in 1 .. Len(r)
      PROVE  r[i].len > 0
  BY <1>2, Zenon DEF Sound
<1>4. ASSUME NEW i \in 1 .. Len(r), NEW j \in 1 .. Len(r), i < j
      PROVE  Top(r[i]) <= r[j].addr /\ (i # n => Top(r[i]) < r[j].addr)
  <2>1. CASE i = n
    BY <1>1, <1>2, <1>4, <2>1, Zenon
  <2>2. CASE i # n
    <3>0. i \in 1 .. Len(q) /\ j \in 1 .. Len(q)
      BY <1>2, Zenon
    <3>1. r[i] = q[i] /\ r[j].addr = q[j].addr
      BY <1>2, <2>2, <3>0, Zenon
    <3>2. Top(q[i]) < q[j].addr
      BY <1>4, <3>0, Zenon DEF Sound
    <3>3. Top(q[i]) \in Nat /\ q[j].addr \in Nat
      <4>1. q[i].addr \in Nat /\ q[i].len \in Nat /\ q[j].addr \in Nat
        BY <1>1, <3>0, Zenon
      <4>2. Top(q[i]) = q[i].addr + q[i].len
        BY <1>1, <3>0, Zenon
      <4> QED BY <4>1, <4>2, SMTT(40)
    <3> QED BY <3>1, <3>2, <3>3
  <2> QED BY <2>1, <2>2, Zenon
<1>5. Near(r, n)
  BY <1>2, <1>3, <1>4, Zenon DEF Near
<1> QED BY <1>0, <1>2, <1>5, Zenon

\* Joining the two makes the list sound.
LEMMA JoinNextSound ==
  ASSUME NEW q, NEW n, Near(q, n), n \in 1 .. Len(q),
         Top(q[n]) < UINT
  PROVE  Sound(JoinNext(q, n))
<1>1. /\ q \in Seq(Blocks) /\ Len(q) \in Nat
      /\ \A i \in 1 .. Len(q) :
           /\ q[i] \in Blocks /\ q[i].addr \in Nat /\ q[i].len \in Nat
           /\ q[i].len > 0 /\ Top(q[i]) = q[i].addr + q[i].len
  <2>1. Len(q) \in Nat /\ \A i \in 1 .. Len(q) : q[i] \in Blocks
    BY QueueType, Zenon DEF Near
  <2> QED BY <2>1, Zenon DEF Near, Blocks, Top
<1>e. End(q[n]) = Top(q[n])
  <2>1. Top(q[n]) \in Nat
    BY <1>1
  <2> QED BY <2>1, EndIsTop, Zenon
<1>0. \A i, j \in 1 .. Len(q) : i < j =>
        Top(q[i]) <= q[j].addr /\ (i # n => Top(q[i]) < q[j].addr)
  BY Zenon DEF Near
<1>2. CASE n < Len(q) /\ Top(q[n]) = q[n + 1].addr
  <2>1. PICK m \in Blocks : /\ m = Block(q[n].addr, q[n].len + q[n + 1].len)
                            /\ m.addr = q[n].addr
                            /\ m.len = q[n].len + q[n + 1].len
                            /\ Top(m) = Top(q[n + 1])
    <3>1. /\ q[n].addr \in Nat /\ q[n].len \in Nat /\ q[n + 1].len \in Nat
          /\ q[n].addr + q[n].len = q[n + 1].addr
          /\ Top(q[n + 1]) = q[n + 1].addr + q[n + 1].len
          /\ q[n].len + q[n + 1].len \in Nat
      BY <1>1, <1>2
    <3>2. PICK m : m = Block(q[n].addr, q[n].len + q[n + 1].len)
      BY Zenon
    <3>3. /\ m \in Blocks /\ m.addr = q[n].addr /\ m.len = q[n].len + q[n + 1].len
          /\ Top(m) = q[n].addr + (q[n].len + q[n + 1].len)
      BY <3>1, <3>2, BlockType, ZenonT(30)
    <3>4. Top(m) = Top(q[n + 1])
      BY <3>1, <3>3
    <3> QED BY <3>2, <3>3, <3>4, Zenon
  <2>2. PICK r : r = [q EXCEPT ![n] = m]
    BY Zenon
  <2>3. /\ r \in Seq(Blocks) /\ Len(r) = Len(q)
        /\ \A j \in 1 .. Len(q) : r[j] = IF j = n THEN m ELSE q[j]
    BY <1>1, <2>2
  <2>4. PICK s : s = RemoveAt(r, n + 1)
    BY Zenon
  <2>5. n + 1 \in 1 .. Len(r)
    BY <1>1, <1>2, <2>3
  <2>6. /\ s \in Seq(Blocks) /\ Len(s) = Len(r) - 1
        /\ \A j \in 1 .. Len(r) - 1 : s[j] = IF j < n + 1 THEN r[j] ELSE r[j + 1]
    BY <2>3, <2>4, <2>5, RemoveAtElements, Zenon
  <2>7. \A j \in 1 .. Len(q) - 1 :
           s[j] = IF j < n THEN q[j] ELSE IF j = n THEN m ELSE q[j + 1]
    BY <1>1, <2>3, <2>6
  <2>8. ASSUME NEW i \in 1 .. Len(s)
        PROVE  s[i].len > 0
    <3>1. CASE i < n
      BY <1>1, <2>3, <2>6, <2>7, <3>1
    <3>2. CASE i = n
      <4>1. s[i] = m /\ q[n].len \in Nat /\ q[n + 1].len \in Nat /\ q[n].len > 0
        BY <1>1, <1>2, <2>3, <2>6, <2>7, <3>2
      <4> QED BY <4>1, <2>1
    <3>3. CASE i > n
      <4>1. s[i] = q[i + 1] /\ i + 1 \in 1 .. Len(q)
        BY <1>1, <2>3, <2>6, <2>7, <3>3
      <4> QED BY <4>1, <1>1, Zenon
    <3> QED BY <1>1, <2>3, <2>6, <3>1, <3>2, <3>3
  <2>9. ASSUME NEW i \in 1 .. Len(s), NEW j \in 1 .. Len(s), i < j
        PROVE  Top(s[i]) < s[j].addr
    <3>1. CASE j < n
      <4>1. s[i] = q[i] /\ s[j] = q[j] /\ i \in 1 .. Len(q) /\ j \in 1 .. Len(q)
        BY <1>1, <2>3, <2>6, <2>7, <2>9, <3>1
      <4> QED BY <4>1, <1>0, <1>1, <2>9, <3>1
    <3>2. CASE j = n
      <4>1. s[i] = q[i] /\ s[j].addr = q[n].addr /\ i \in 1 .. Len(q) /\ i # n
        BY <1>1, <2>1, <2>3, <2>6, <2>7, <2>9, <3>2
      <4> QED BY <4>1, <1>0, <2>9, <3>2, Zenon
    <3>3. CASE i < n /\ j > n
      <4>1. PICK l : l = j + 1
        BY Zenon
      <4>2. /\ i \in 1 .. Len(q) - 1 /\ j \in 1 .. Len(q) - 1 /\ n \in Nat
        BY <1>1, <2>3, <2>6
      <4>3. i < l /\ i \in 1 .. Len(q) /\ l \in 1 .. Len(q) /\ i # n
        BY <1>1, <3>3, <4>1, <4>2
      <4>4. s[i] = q[i]
        BY <2>7, <3>3, <4>2, Zenon
      <4>5. s[j] = q[l]
        BY <2>7, <3>3, <4>1, <4>2
      <4> QED BY <4>3, <4>4, <4>5, <1>0, Zenon
    <3>4. CASE i = n
      <4>1. /\ s[i] = m /\ s[j] = q[j + 1] /\ n + 1 < j + 1
            /\ n + 1 \in 1 .. Len(q) /\ j + 1 \in 1 .. Len(q) /\ n + 1 # n
        BY <1>1, <1>2, <2>3, <2>6, <2>7, <2>9, <3>4
      <4>2. Top(q[n + 1]) < q[j + 1].addr
        BY <4>1, <1>0, Zenon
      <4> QED BY <4>1, <4>2, <2>1, Zenon
    <3>5. CASE i > n
      <4>1. /\ s[i] = q[i + 1] /\ s[j] = q[j + 1] /\ i + 1 < j + 1
            /\ i + 1 \in 1 .. Len(q) /\ j + 1 \in 1 .. Len(q) /\ i + 1 # n
        BY <1>1, <2>3, <2>6, <2>7, <2>9, <3>5
      <4> QED BY <4>1, <1>0, Zenon
    <3> QED BY <1>1, <2>3, <2>6, <3>1, <3>2, <3>3, <3>4, <3>5
  <2>10. Sound(s)
    BY <2>6, <2>8, <2>9, Zenon DEF Sound
  <2>11. JoinNext(q, n) = s
    BY <1>2, <1>e, <2>1, <2>2, <2>4, Zenon DEF JoinNext
  <2> QED BY <2>10, <2>11, Zenon
<1>3. CASE ~(n < Len(q) /\ Top(q[n]) = q[n + 1].addr)
  <2>1. ASSUME NEW i \in 1 .. Len(q), NEW j \in 1 .. Len(q), i < j
        PROVE  Top(q[i]) < q[j].addr
    <3>1. CASE i # n
      BY <2>1, <3>1, Zenon DEF Near
    <3>2. CASE i = n /\ j = n + 1
      <4>1. Top(q[i]) <= q[j].addr
        BY <1>0, <2>1, Zenon
      <4>2. Top(q[i]) # q[j].addr
        BY <1>1, <1>3, <2>1, <3>2
      <4>3. Top(q[i]) \in Nat /\ q[j].addr \in Nat
        BY <1>1
      <4> QED BY <4>1, <4>2, <4>3
    <3>3. CASE i = n /\ j > n + 1
      <4>1. /\ Top(q[n]) <= q[n + 1].addr
            /\ Top(q[n + 1]) < q[j].addr
            /\ q[n + 1].addr \in Nat /\ q[n + 1].len \in Nat
            /\ q[n].addr \in Nat /\ q[n].len \in Nat /\ q[j].addr \in Nat
            /\ Top(q[n]) = q[n].addr + q[n].len
            /\ Top(q[n + 1]) = q[n + 1].addr + q[n + 1].len
        BY <1>1, <2>1, <3>3 DEF Near
      <4>2. q[n] \in Blocks /\ q[n + 1] \in Blocks
        <5>1. n \in 1 .. Len(q) /\ n + 1 \in 1 .. Len(q)
          BY <1>1, <2>1, <3>3
        <5> QED BY <1>1, <5>1, Zenon
      <4>3. Top(q[n]) < q[j].addr
        BY <4>1, <4>2, BelowBelow, Zenon
      <4> QED BY <3>3, <4>3, Zenon
    <3> QED BY <1>1, <2>1, <3>1, <3>2, <3>3
  <2>2. Sound(q)
    BY <1>1, <2>1, Zenon DEF Sound
  <2>3. JoinNext(q, n) = q
    BY <1>3, <1>e, Zenon DEF JoinNext
  <2> QED BY <2>2, <2>3, Zenon
<1> QED BY <1>2, <1>3, Zenon

-----------------------------------------------------------------------------

\* The bytes of a block, and those of a list of blocks.
In(b, x) == b.addr <= x /\ x < Top(b)
Covers(q, x) == \E i \in 1 .. Len(q) : In(q[i], x)

\* The bytes that a list holds together.
Size(q) == SumTo([i \in 1 .. Len(q) |-> q[i].len], Len(q))

\* The list r is q without, or with, the n bytes at a.
Less(q, r, a, n) ==
  /\ \A x \in Int : Covers(r, x) <=> Covers(q, x) /\ ~(a <= x /\ x < a + n)
  /\ \A x \in Int : a <= x /\ x < a + n => Covers(q, x)
  /\ Size(r) = Size(q) - n
More(q, r, a, n) ==
  /\ \A x \in Int : Covers(r, x) <=> Covers(q, x) \/ (a <= x /\ x < a + n)
  /\ Size(r) = Size(q) + n

\* No byte is in two blocks of a sound list.
LEMMA OneBlock ==
  ASSUME NEW q, Sound(q), NEW i \in 1 .. Len(q), NEW j \in 1 .. Len(q), NEW x \in Int,
         In(q[i], x), In(q[j], x)
  PROVE  i = j
<1>0. ASSUME NEW k \in 1 .. Len(q) PROVE q[k].addr \in Nat /\ Top(q[k]) \in Nat
  <2>1. q[k].addr \in Nat /\ q[k].len \in Nat /\ Top(q[k]) = q[k].addr + q[k].len
    BY SoundElements, Zenon
  <2> QED BY <2>1
<1>1. /\ q[i].addr \in Nat /\ q[j].addr \in Nat /\ Top(q[i]) \in Nat /\ Top(q[j]) \in Nat
      /\ Len(q) \in Nat
  BY <1>0, SoundElements, Zenon
<1>2. CASE i < j
  <2>1. Top(q[i]) < q[j].addr
    BY <1>2, Zenon DEF Sound
  <2> QED BY <1>1, <2>1 DEF In
<1>3. CASE j < i
  <2>1. Top(q[j]) < q[i].addr
    BY <1>3, Zenon DEF Sound
  <2> QED BY <1>1, <2>1 DEF In
<1> QED BY <1>1, <1>2, <1>3

\* A whole block is taken off the list.
LEMMA TakeWhole ==
  ASSUME NEW q, Sound(q), NEW k \in 1 .. Len(q)
  PROVE  Less(q, RemoveAt(q, k), q[k].addr, q[k].len)
<1>1. PICK r : r = RemoveAt(q, k)
  BY Zenon
<1>2. /\ Len(r) = Len(q) - 1
      /\ \A j \in 1 .. Len(q) - 1 : r[j] = IF j < k THEN q[j] ELSE q[j + 1]
  BY <1>1, RemoveAtElements, SMTT(40) DEF Sound
<1>3. /\ Len(q) \in Nat /\ \A i \in 1 .. Len(q) : q[i].len \in Int
      /\ Top(q[k]) = q[k].addr + q[k].len
  BY SoundElements
<1>4. \A x \in Int : In(q[k], x) <=> q[k].addr <= x /\ x < q[k].addr + q[k].len
  BY <1>3, Zenon DEF In
<1>5. ASSUME NEW x \in Int
      PROVE  Covers(r, x) <=> Covers(q, x) /\ ~In(q[k], x)
  <2>1. ASSUME NEW j \in 1 .. Len(r), In(r[j], x)
        PROVE  Covers(q, x) /\ ~In(q[k], x)
    <3>1. PICK i \in 1 .. Len(q) : i # k /\ r[j] = q[i]
      BY <1>2, <1>3, SMTT(30)
    <3>2. i = k \/ ~In(q[k], x)
      BY <2>1, <3>1, OneBlock, Zenon
    <3> QED BY <2>1, <3>1, <3>2, Zenon DEF Covers
  <2>2. ASSUME NEW i \in 1 .. Len(q), In(q[i], x), ~In(q[k], x)
        PROVE  Covers(r, x)
    <3>1. PICK j \in 1 .. Len(r) : r[j] = q[i]
      <4>1. CASE i < k
        BY <1>2, <1>3, <4>1
      <4>2. CASE i > k
        <5>1. i - 1 \in 1 .. Len(r) /\ r[i - 1] = q[i]
          BY <1>2, <1>3, <4>2
        <5> QED BY <5>1, Zenon
      <4> QED BY <1>3, <2>2, <4>1, <4>2
    <3> QED BY <2>2, <3>1, Zenon DEF Covers
  <2> QED BY <2>1, <2>2, Zenon DEF Covers
<1>6. \A x \in Int : In(q[k], x) => Covers(q, x)
  BY Zenon DEF Covers
<1>7. Size(r) = Size(q) - q[k].len
  <2>1. PICK f : f = [i \in 1 .. Len(q) |-> q[i].len]
    BY Zenon
  <2>2. PICK g : g = [i \in 1 .. Len(r) |-> r[i].len]
    BY Zenon
  <2>3. \A i \in 1 .. Len(q) : f[i] \in Int
    BY <1>3, <2>1, Zenon
  <2>4. \A i \in 1 .. Len(q) - 1 : g[i] = IF i < k THEN f[i] ELSE f[i + 1]
    BY <1>2, <1>3, <2>1, <2>2
  <2>5. SumTo(g, Len(q) - 1) = SumTo(f, Len(q)) - f[k]
    BY <1>3, <2>3, <2>4, SumRemoved, Zenon
  <2> QED BY <1>2, <2>1, <2>2, <2>5, Zenon DEF Size
<1>8. Less(q, r, q[k].addr, q[k].len)
  BY <1>4, <1>5, <1>6, <1>7, Zenon DEF Less
<1> QED BY <1>1, <1>8, Zenon

\* A block of the list is replaced by another one.
LEMMA ReplaceBytes ==
  ASSUME NEW q, Sound(q), NEW k \in 1 .. Len(q), NEW b \in Blocks,
         NEW r, r = [q EXCEPT ![k] = b]
  PROVE  /\ \A x \in Int : Covers(r, x) <=> (Covers(q, x) /\ ~In(q[k], x)) \/ In(b, x)
         /\ Size(r) = Size(q) - q[k].len + b.len /\ Size(q) \in Int
<1>1. /\ Len(q) \in Nat /\ \A i \in 1 .. Len(q) : q[i].len \in Int
      /\ b.len \in Int
  BY SoundElements DEF Blocks
<1>2. /\ Len(r) = Len(q)
      /\ \A j \in 1 .. Len(q) : r[j] = IF j = k THEN b ELSE q[j]
  BY <1>1 DEF Sound
<1>3. ASSUME NEW x \in Int
      PROVE  Covers(r, x) <=> (Covers(q, x) /\ ~In(q[k], x)) \/ In(b, x)
  <2>1. ASSUME NEW j \in 1 .. Len(r), In(r[j], x)
        PROVE  (Covers(q, x) /\ ~In(q[k], x)) \/ In(b, x)
    <3>1. CASE j = k
      BY <1>2, <2>1, <3>1, Zenon
    <3>2. CASE j # k
      <4>1. j \in 1 .. Len(q) /\ In(q[j], x)
        BY <1>2, <2>1, <3>2, Zenon
      <4>2. ~In(q[k], x)
        BY <3>2, <4>1, OneBlock, Zenon
      <4> QED BY <4>1, <4>2, Zenon DEF Covers
    <3> QED BY <3>1, <3>2, Zenon
  <2>2. ASSUME NEW i \in 1 .. Len(q), In(q[i], x), ~In(q[k], x)
        PROVE  Covers(r, x)
    <3>1. i \in 1 .. Len(r) /\ r[i] = q[i]
      BY <1>2, <2>2, Zenon
    <3> QED BY <2>2, <3>1, Zenon DEF Covers
  <2>3. ASSUME In(b, x)
        PROVE  Covers(r, x)
    <3>1. k \in 1 .. Len(r) /\ r[k] = b
      BY <1>2, Zenon
    <3> QED BY <2>3, <3>1, Zenon DEF Covers
  <2> QED BY <2>1, <2>2, <2>3, Zenon DEF Covers
<1>4. Size(r) = Size(q) - q[k].len + b.len /\ Size(q) \in Int
  <2>1. PICK f : f = [i \in 1 .. Len(q) |-> q[i].len]
    BY Zenon
  <2>2. PICK g : g = [i \in 1 .. Len(r) |-> r[i].len]
    BY Zenon
  <2>3. /\ \A i \in 1 .. Len(q) : f[i] \in Int
        /\ \A i \in 1 .. Len(q) : i # k => g[i] = f[i]
        /\ g[k] = b.len /\ f[k] = q[k].len
    BY <1>1, <1>2, <2>1, <2>2
  <2>4. g[k] \in Int
    BY <1>1, <2>3, Zenon
  <2>5. SumTo(g, Len(q)) = SumTo(f, Len(q)) - f[k] + g[k] /\ SumTo(f, Len(q)) \in Int
    BY <1>1, <2>3, <2>4, SumReplaced, Zenon
  <2> QED BY <1>2, <2>1, <2>2, <2>3, <2>5, Zenon DEF Size
<1> QED BY <1>3, <1>4, Zenon

\* memget() takes the low end of a block, stkget() the high end.
LEMMA TakeEnd ==
  ASSUME NEW q, Sound(q), NEW k \in 1 .. Len(q), NEW n \in Nat, n < q[k].len
  PROVE  /\ Less(q, [q EXCEPT ![k] = Block(q[k].addr + n, q[k].len - n)], q[k].addr, n)
         /\ Less(q, [q EXCEPT ![k] = Block(q[k].addr, q[k].len - n)], Top(q[k]) - n, n)
<1>1. PICK a \in Nat, l \in Nat : a = q[k].addr /\ l = q[k].len /\ Top(q[k]) = a + l
  BY SoundElements, Zenon
<1>2. a + n \in Nat /\ l - n \in Nat /\ n < l
  BY <1>1
<1>3. ASSUME NEW b \in Blocks, NEW c \in Int, b.len = l - n,
             \A x \in Int : In(b, x) <=> In(q[k], x) /\ ~(c <= x /\ x < c + n),
             \A x \in Int : c <= x /\ x < c + n => In(q[k], x)
      PROVE  Less(q, [q EXCEPT ![k] = b], c, n)
  <2>1. PICK r : r = [q EXCEPT ![k] = b]
    BY Zenon
  <2>2. /\ \A x \in Int : Covers(r, x) <=> (Covers(q, x) /\ ~In(q[k], x)) \/ In(b, x)
        /\ Size(r) = Size(q) - q[k].len + b.len /\ Size(q) \in Int
    BY <2>1, ReplaceBytes, Zenon
  <2>3. \A x \in Int : In(q[k], x) => Covers(q, x)
    BY Zenon DEF Covers
  <2>4. Size(r) = Size(q) - n
    BY <1>1, <1>3, <2>2
  <2>5. \A x \in Int : Covers(r, x) <=> Covers(q, x) /\ ~(c <= x /\ x < c + n)
    BY <1>3, <2>2, <2>3, Zenon
  <2>6. \A x \in Int : c <= x /\ x < c + n => Covers(q, x)
    BY <1>3, <2>3, Zenon
  <2> QED BY <2>1, <2>4, <2>5, <2>6, Zenon DEF Less
<1>4. Less(q, [q EXCEPT ![k] = Block(a + n, l - n)], a, n)
  <2>1. PICK b : b = Block(a + n, l - n)
    BY Zenon
  <2>2. b \in Blocks /\ b.addr = a + n /\ b.len = l - n /\ Top(b) = (a + n) + (l - n)
    BY <1>2, <2>1, BlockType
  <2>3. \A x \in Int : In(b, x) <=> a + n <= x /\ x < a + l
    BY <1>2, <2>2 DEF In
  <2>4. \A x \in Int : In(q[k], x) <=> a <= x /\ x < a + l
    BY <1>1, Zenon DEF In
  <2>5. \A x \in Int : In(b, x) <=> In(q[k], x) /\ ~(a <= x /\ x < a + n)
    BY <1>2, <2>3, <2>4
  <2>6. \A x \in Int : a <= x /\ x < a + n => In(q[k], x)
    BY <1>2, <2>4
  <2>7. a \in Int
    OBVIOUS
  <2>8. Less(q, [q EXCEPT ![k] = b], a, n)
    BY <1>3, <2>2, <2>5, <2>6, <2>7, Zenon
  <2> QED BY <2>1, <2>8, Zenon
<1>5. Less(q, [q EXCEPT ![k] = Block(a, l - n)], Top(q[k]) - n, n)
  <2>1. PICK b : b = Block(a, l - n)
    BY Zenon
  <2>2. b \in Blocks /\ b.addr = a /\ b.len = l - n /\ Top(b) = a + (l - n)
    BY <1>2, <2>1, BlockType
  <2>3. PICK c \in Int : c = a + (l - n)
    BY <1>2
  <2>9. c = Top(q[k]) - n /\ c + n = a + l
    <3>1. (a + l) - n = c /\ c + n = a + l
      BY <2>3
    <3> QED BY <1>1, <3>1, Zenon
  <2>4. \A x \in Int : In(b, x) <=> a <= x /\ x < c
    BY <2>2, <2>3, Zenon DEF In
  <2>5. \A x \in Int : In(q[k], x) <=> a <= x /\ x < c + n
    BY <1>1, <2>9, Zenon DEF In
  <2>6. \A x \in Int : In(b, x) <=> In(q[k], x) /\ ~(c <= x /\ x < c + n)
    BY <1>2, <2>3, <2>4, <2>5, <2>9
  <2>7. \A x \in Int : c <= x /\ x < c + n => In(q[k], x)
    BY <1>2, <2>3, <2>5, <2>9
  <2>8. Less(q, [q EXCEPT ![k] = b], c, n)
    BY <1>3, <2>2, <2>6, <2>7, Zenon
  <2> QED BY <2>1, <2>8, <2>9, Zenon
<1> QED BY <1>1, <1>4, <1>5, Zenon

\* memfree() makes a block grow at its top ...
LEMMA GiveTop ==
  ASSUME NEW q, Sound(q), NEW k \in 1 .. Len(q), NEW n \in Nat
  PROVE  More(q, [q EXCEPT ![k] = Block(q[k].addr, q[k].len + n)], Top(q[k]), n)
<1>1. PICK a \in Nat, l \in Nat : a = q[k].addr /\ l = q[k].len /\ Top(q[k]) = a + l
  BY SoundElements, Zenon
<1>2. PICK b : b = Block(a, l + n)
  BY Zenon
<1>3. b \in Blocks /\ b.addr = a /\ b.len = l + n /\ Top(b) = a + (l + n)
  <2>1. l + n \in Nat
    OBVIOUS
  <2> QED BY <1>2, <2>1, BlockType, Zenon
<1>4. PICK r : r = [q EXCEPT ![k] = b]
  BY Zenon
<1>5. /\ \A x \in Int : Covers(r, x) <=> (Covers(q, x) /\ ~In(q[k], x)) \/ In(b, x)
      /\ Size(r) = Size(q) - q[k].len + b.len /\ Size(q) \in Int
  BY <1>3, <1>4, ReplaceBytes, Zenon
<1>6. \A x \in Int : In(q[k], x) => Covers(q, x)
  BY Zenon DEF Covers
<1>7. \A x \in Int : In(b, x) <=> In(q[k], x) \/ (a + l <= x /\ x < (a + l) + n)
  <2>1. \A x \in Int : In(b, x) <=> a <= x /\ x < (a + l) + n
    BY <1>3 DEF In
  <2>2. \A x \in Int : In(q[k], x) <=> a <= x /\ x < a + l
    BY <1>1, Zenon DEF In
  <2> QED BY <2>1, <2>2
<1>8. \A x \in Int : Covers(r, x) <=> Covers(q, x) \/ (a + l <= x /\ x < (a + l) + n)
  BY <1>5, <1>6, <1>7, Zenon
<1>9. Size(r) = Size(q) + n
  BY <1>1, <1>3, <1>5
<1> QED BY <1>1, <1>2, <1>4, <1>8, <1>9, Zenon DEF More

\* ... or inserts a new one.
LEMMA GiveNew ==
  ASSUME NEW q, Sound(q), NEW k \in 1 .. Len(q) + 1, NEW p \in Nat, NEW n \in Nat
  PROVE  More(q, InsertAt(q, k, Block(p, n)), p, n)
<1>1. PICK b \in Blocks : b = Block(p, n) /\ b.addr = p /\ b.len = n /\ Top(b) = p + n
  BY BlockType, Zenon
<1>2. PICK r : r = InsertAt(q, k, b)
  BY Zenon
<1>3. /\ Len(r) = Len(q) + 1
      /\ \A j \in 1 .. Len(q) + 1 : r[j] = IF j < k THEN q[j]
                                           ELSE IF j = k THEN b ELSE q[j - 1]
  BY <1>2, InsertAtElements, SMTT(40) DEF Sound
<1>4. Len(q) \in Nat /\ \A i \in 1 .. Len(q) : q[i].len \in Int
  BY SoundElements
<1>5. ASSUME NEW x \in Int
      PROVE  Covers(r, x) <=> Covers(q, x) \/ In(b, x)
  <2>1. ASSUME NEW j \in 1 .. Len(r), In(r[j], x)
        PROVE  Covers(q, x) \/ In(b, x)
    <3>1. r[j] = b \/ \E i \in 1 .. Len(q) : r[j] = q[i]
      <4>1. CASE j > k
        <5>1. j - 1 \in 1 .. Len(q) /\ r[j] = q[j - 1]
          BY <1>3, <1>4, <4>1
        <5> QED BY <5>1, Zenon
      <4>2. CASE j <= k
        BY <1>3, <1>4, <4>2
      <4> QED BY <1>3, <1>4, <4>1, <4>2
    <3> QED BY <2>1, <3>1, Zenon DEF Covers
  <2>2. ASSUME NEW i \in 1 .. Len(q), In(q[i], x)
        PROVE  Covers(r, x)
    <3>1. PICK j \in 1 .. Len(r) : r[j] = q[i]
      <4>1. CASE i < k
        BY <1>3, <1>4, <4>1
      <4>2. CASE i >= k
        <5>1. i + 1 \in 1 .. Len(r) /\ r[i + 1] = q[i]
          BY <1>3, <1>4, <4>2
        <5> QED BY <5>1, Zenon
      <4> QED BY <1>4, <4>1, <4>2
    <3> QED BY <2>2, <3>1, Zenon DEF Covers
  <2>3. ASSUME In(b, x)
        PROVE  Covers(r, x)
    <3>1. k \in 1 .. Len(r) /\ r[k] = b
      BY <1>3, <1>4
    <3> QED BY <2>3, <3>1, Zenon DEF Covers
  <2> QED BY <2>1, <2>2, <2>3, Zenon DEF Covers
<1>6. Size(r) = Size(q) + n
  <2>1. PICK f : f = [i \in 1 .. Len(q) |-> q[i].len]
    BY Zenon
  <2>2. PICK g : g = [i \in 1 .. Len(r) |-> r[i].len]
    BY Zenon
  <2>3. \A i \in 1 .. Len(q) : f[i] \in Int
    BY <1>4, <2>1, Zenon
  <2>4. \A i \in 1 .. Len(q) + 1 : g[i] = IF i < k THEN f[i]
                                          ELSE IF i = k THEN n ELSE f[i - 1]
    BY <1>1, <1>3, <1>4, <2>1, <2>2
  <2>5. SumTo(g, Len(q) + 1) = SumTo(f, Len(q)) + n
    <3>1. PICK m \in Nat : m = Len(q)
      BY <1>4, Zenon
    <3>2. n \in Int /\ k \in 1 .. m + 1
      BY <3>1
    <3>3. \A i \in 1 .. m : f[i] \in Int
      BY <2>3, <3>1, Zenon
    <3>4. \A i \in 1 .. m + 1 : g[i] = IF i < k THEN f[i]
                                        ELSE IF i = k THEN n ELSE f[i - 1]
      BY <2>4, <3>1, Zenon
    <3>5. SumTo(g, m + 1) = SumTo(f, m) + n
      BY <3>2, <3>3, <3>4, SumInserted
    <3> QED BY <3>1, <3>5, Zenon
  <2> QED BY <1>3, <2>1, <2>2, <2>5, Zenon DEF Size
<1>7. \A x \in Int : In(b, x) <=> p <= x /\ x < p + n
  BY <1>1, Zenon DEF In
<1> QED BY <1>1, <1>2, <1>5, <1>6, <1>7, Zenon DEF More

\* Joining two blocks that touch moves no byte.
LEMMA JoinBytes ==
  ASSUME NEW q, NEW n, Near(q, n), n \in 1 .. Len(q),
         Top(q[n]) < UINT, NEW r, r = JoinNext(q, n)
  PROVE  /\ \A x \in Int : Covers(r, x) <=> Covers(q, x)
         /\ Size(r) = Size(q)
<1>1. /\ q \in Seq(Blocks) /\ Len(q) \in Nat
      /\ \A i \in 1 .. Len(q) :
           /\ q[i] \in Blocks /\ q[i].addr \in Nat /\ q[i].len \in Nat
           /\ q[i].len > 0 /\ Top(q[i]) = q[i].addr + q[i].len
  <2>1. Len(q) \in Nat /\ \A i \in 1 .. Len(q) : q[i] \in Blocks
    BY QueueType, Zenon DEF Near
  <2> QED BY <2>1, Zenon DEF Near, Blocks, Top
<1>e. End(q[n]) = Top(q[n])
  <2>1. Top(q[n]) \in Nat
    BY <1>1
  <2> QED BY <2>1, EndIsTop, Zenon
<1>2. CASE ~(n < Len(q) /\ Top(q[n]) = q[n + 1].addr)
  BY <1>2, <1>e, Zenon DEF JoinNext
<1>3. CASE n < Len(q) /\ Top(q[n]) = q[n + 1].addr
  <2>1. n \in 1 .. Len(q) /\ n + 1 \in 1 .. Len(q)
    BY <1>1, <1>3
  <2>2. PICK a \in Nat, l \in Nat, k \in Nat :
          /\ a = q[n].addr /\ l = q[n].len /\ Top(q[n]) = a + l
          /\ k = q[n + 1].len /\ q[n + 1].addr = a + l
          /\ Top(q[n + 1]) = (a + l) + k
    BY <1>1, <1>3, <2>1, Zenon
  <2>3. PICK m : m = Block(a, l + k)
    BY Zenon
  <2>4. m \in Blocks /\ m.addr = a /\ m.len = l + k /\ Top(m) = a + (l + k)
    <3>1. l + k \in Nat
      OBVIOUS
    <3> QED BY <2>3, <3>1, BlockType, Zenon
  <2>5. PICK p : p = [q EXCEPT ![n] = m]
    BY Zenon
  <2>6. /\ p \in Seq(Blocks) /\ Len(p) = Len(q)
        /\ \A i \in 1 .. Len(q) : p[i] = IF i = n THEN m ELSE q[i]
    BY <1>1, <2>1, <2>4, <2>5
  <2>7. r = RemoveAt(p, n + 1)
    BY <1>3, <1>e, <2>2, <2>3, <2>5, Zenon DEF JoinNext
  <2>8. /\ Len(r) = Len(q) - 1
        /\ \A j \in 1 .. Len(q) - 1 : r[j] = IF j < n + 1 THEN p[j] ELSE p[j + 1]
    <3>1. PICK c \in 1 .. Len(p) : c = n + 1
      BY <2>1, <2>6, Zenon
    <3>2. /\ Len(r) = Len(p) - 1
          /\ \A j \in 1 .. Len(p) - 1 : r[j] = IF j < c THEN p[j] ELSE p[j + 1]
      BY <2>6, <2>7, <3>1, RemoveAtElements
    <3> QED BY <2>6, <3>1, <3>2, Zenon
  <2>9. \A x \in Int : In(m, x) <=> In(q[n], x) \/ In(q[n + 1], x)
    <3>1. \A x \in Int : In(m, x) <=> a <= x /\ x < (a + l) + k
      BY <2>4 DEF In
    <3>2. \A x \in Int : In(q[n], x) <=> a <= x /\ x < a + l
      BY <2>2, Zenon DEF In
    <3>3. \A x \in Int : In(q[n + 1], x) <=> a + l <= x /\ x < (a + l) + k
      BY <2>2, Zenon DEF In
    <3> QED BY <3>1, <3>2, <3>3
  <2>10. ASSUME NEW x \in Int
         PROVE  Covers(r, x) <=> Covers(q, x)
    <3>1. ASSUME NEW j \in 1 .. Len(r), In(r[j], x)
          PROVE  Covers(q, x)
      <4>1. CASE j = n
        <5>1. In(m, x)
          BY <1>1, <2>1, <2>6, <2>8, <3>1, <4>1
        <5> QED BY <2>1, <2>9, <5>1, Zenon DEF Covers
      <4>2. CASE j < n
        <5>1. j \in 1 .. Len(q) /\ r[j] = q[j]
          BY <1>1, <2>1, <2>6, <2>8, <4>2
        <5> QED BY <3>1, <5>1, Zenon DEF Covers
      <4>3. CASE j > n
        <5>1. j + 1 \in 1 .. Len(q) /\ r[j] = q[j + 1]
          BY <1>1, <2>1, <2>6, <2>8, <4>3
        <5> QED BY <3>1, <5>1, Zenon DEF Covers
      <4> QED BY <1>1, <2>1, <2>8, <4>1, <4>2, <4>3
    <3>2. ASSUME NEW i \in 1 .. Len(q), In(q[i], x)
          PROVE  Covers(r, x)
      <4>1. CASE i \in {n, n + 1}
        <5>1. In(m, x) /\ n \in 1 .. Len(r) /\ r[n] = m
          BY <1>1, <1>3, <2>1, <2>6, <2>8, <2>9, <3>2, <4>1
        <5> QED BY <5>1, Zenon DEF Covers
      <4>2. CASE i < n
        <5>1. i \in 1 .. Len(r) /\ r[i] = q[i]
          BY <1>1, <2>1, <2>6, <2>8, <4>2
        <5> QED BY <3>2, <5>1, Zenon DEF Covers
      <4>3. CASE i > n + 1
        <5>1. i - 1 \in 1 .. Len(r) /\ r[i - 1] = q[i]
          BY <1>1, <2>1, <2>6, <2>8, <4>3
        <5> QED BY <3>2, <5>1, Zenon DEF Covers
      <4> QED BY <1>1, <2>1, <4>1, <4>2, <4>3
    <3> QED BY <3>1, <3>2, Zenon DEF Covers
  <2>11. Size(r) = Size(q)
    <3>1. PICK f : f = [i \in 1 .. Len(q) |-> q[i].len]
      BY Zenon
    <3>2. PICK h : h = [i \in 1 .. Len(r) |-> r[i].len]
      BY Zenon
    <3>3. \A i \in 1 .. Len(q) : f[i] = q[i].len /\ f[i] \in Int
      BY <1>1, <3>1
    <3>4. ASSUME NEW i \in 1 .. Len(q) - 1
          PROVE  h[i] = IF i < n THEN f[i]
                        ELSE IF i = n THEN f[n] + f[n + 1] ELSE f[i + 1]
      <4>1. h[i] = r[i].len /\ i \in 1 .. Len(q) /\ i + 1 \in 1 .. Len(q)
        BY <1>1, <2>8, <3>2
      <4>2. CASE i < n
        <5>1. r[i] = q[i]
          BY <1>1, <2>1, <2>6, <2>8, <4>2
        <5> QED BY <3>3, <4>1, <4>2, <5>1, Zenon
      <4>3. CASE i = n
        <5>1. r[i] = m
          BY <1>1, <2>1, <2>6, <2>8, <4>3
        <5>2. f[n] = l /\ f[n + 1] = k
          BY <2>1, <2>2, <3>3, Zenon
        <5> QED BY <2>4, <4>1, <4>3, <5>1, <5>2
      <4>4. CASE i > n
        <5>1. r[i] = q[i + 1]
          BY <1>1, <2>1, <2>6, <2>8, <4>4
        <5> QED BY <2>1, <3>3, <4>1, <4>4, <5>1
      <4> QED BY <2>1, <4>2, <4>3, <4>4
    <3>5. PICK N \in Nat : N = Len(q) /\ n \in 1 .. N - 1
      BY <1>1, <2>1
    <3>6. SumTo(h, N - 1) = SumTo(f, N)
      BY <3>3, <3>4, <3>5, SumJoined, Zenon
    <3> QED BY <2>8, <3>1, <3>2, <3>5, <3>6, Zenon DEF Size
  <2> QED BY <2>10, <2>11, Zenon
<1> QED BY <1>2, <1>3, Zenon

-----------------------------------------------------------------------------

\* FirstPlace() in front of the end of a list is one of the places.
LEMMA FirstPlaceIn ==
  ASSUME NEW S, NEW q \in Seq(S), NEW P \in SUBSET (1 .. Len(q)),
         FirstPlace(q, P) <= Len(q)
  PROVE  FirstPlace(q, P) \in P
<1>1. CASE \E n \in P : \A i \in P : n <= i
  BY <1>1, Zenon DEF FirstPlace
<1>2. CASE ~\E n \in P : \A i \in P : n <= i
  <2>1. FirstPlace(q, P) = Len(q) + 1 /\ Len(q) \in Nat
    BY <1>2, QueueType, Zenon DEF FirstPlace
  <2> QED BY <2>1
<1> QED BY <1>1, <1>2, Zenon

\* memget() keeps the list sound.
LEMMA MemgetKeeps ==
  ASSUME NoWrap, Sound(memlist), NEW req \in Sizes, memget(req)
  PROVE  Sound(memlist')
<1>1. PICK n : n = roundmb(req)
  BY Zenon
<1>2. PICK i : i = FirstPlace(memlist, Fits(n))
  BY Zenon
<1>3. /\ req # 0 /\ i <= Len(memlist)
      /\ memlist' = IF memlist[i].len = n THEN RemoveAt(memlist, i)
                    ELSE [memlist EXCEPT ![i] =
                            Block(memlist[i].addr + n, memlist[i].len - n)]
  BY <1>1, <1>2, Zenon DEF memget
<1>4. n \in Nat /\ n >= 8
  BY <1>1, <1>3, RoundUp, Zenon
<1>5. i \in 1 .. Len(memlist) /\ memlist[i].len >= n
  <2>1. Fits(n) \in SUBSET (1 .. Len(memlist))
    BY Zenon DEF Fits
  <2>2. i \in Fits(n)
    BY <1>2, <1>3, <2>1, FirstPlaceIn, Zenon DEF Sound
  <2> QED BY <2>2, Zenon DEF Fits
<1>6. /\ memlist[i].addr \in Nat /\ memlist[i].len \in Nat
      /\ Top(memlist[i]) = memlist[i].addr + memlist[i].len
  BY <1>5, SoundElements, Zenon
<1>7. CASE memlist[i].len = n
  BY <1>3, <1>5, <1>7, RemoveSound, Zenon
<1>8. CASE memlist[i].len # n
  <2>1. PICK b : b = Block(memlist[i].addr + n, memlist[i].len - n)
    BY Zenon
  <2>2. memlist[i].addr + n \in Nat /\ memlist[i].len - n \in Nat
    BY <1>4, <1>5, <1>6
  <2>3. /\ b \in Blocks /\ b.addr = memlist[i].addr + n
        /\ b.len = memlist[i].len - n
        /\ Top(b) = (memlist[i].addr + n) + (memlist[i].len - n)
    <3>1. PICK l : l = memlist[i].len - n
      BY Zenon
    <3>2. PICK a : a = memlist[i].addr + n
      BY Zenon
    <3>3. a \in Nat /\ l \in Nat /\ b = Block(a, l)
      BY <2>1, <2>2, <3>1, <3>2, Zenon
    <3>4. b \in Blocks /\ b.addr = a /\ b.len = l /\ Top(b) = a + l
      BY <3>3, BlockType, Zenon
    <3> QED BY <3>1, <3>2, <3>4, Zenon
  <2>4. b.len > 0 /\ Top(b) = Top(memlist[i])
    BY <1>4, <1>5, <1>6, <1>8, <2>3
  <2>5. ASSUME NEW j \in 1 .. Len(memlist), j < i
        PROVE  Top(memlist[j]) < b.addr
    <3>1. Top(memlist[j]) < memlist[i].addr
      BY <1>5, <2>5, Zenon DEF Sound
    <3>2. Top(memlist[j]) \in Nat
      BY SoundElements
    <3> QED BY <1>4, <1>6, <2>3, <3>1, <3>2
  <2>6. ASSUME NEW j \in 1 .. Len(memlist), j > i
        PROVE  Top(b) < memlist[j].addr
    <3>1. Len(memlist) \in Nat
      BY SoundElements, Zenon
    <3>2. i < j
      BY <1>5, <2>6, <3>1, Zenon
    <3> QED BY <1>5, <2>4, <3>2, Zenon DEF Sound
  <2>7. Sound([memlist EXCEPT ![i] = b])
    BY <1>5, <2>3, <2>4, <2>5, <2>6, ReplaceSound, Zenon
  <2> QED BY <1>3, <1>8, <2>1, <2>7, Zenon
<1> QED BY <1>7, <1>8, Zenon

\* So does stkget().
LEMMA StkgetKeeps ==
  ASSUME NoWrap, Sound(memlist), NEW req \in Sizes, stkget(req)
  PROVE  Sound(memlist')
<1>1. PICK n : n = roundmb(req)
  BY Zenon
<1>2. PICK i \in Fits(n) :
        /\ req # 0
        /\ memlist' = IF memlist[i].len = n THEN RemoveAt(memlist, i)
                      ELSE [memlist EXCEPT ![i] =
                              Block(memlist[i].addr, memlist[i].len - n)]
  BY <1>1, Zenon DEF stkget
<1>3. n \in Nat /\ n >= 8
  BY <1>1, <1>2, RoundUp, Zenon
<1>4. i \in 1 .. Len(memlist) /\ memlist[i].len >= n
  BY <1>2, Zenon DEF Fits
<1>5. /\ memlist[i].addr \in Nat /\ memlist[i].len \in Nat
      /\ Top(memlist[i]) = memlist[i].addr + memlist[i].len
      /\ Len(memlist) \in Nat
  BY <1>4, SoundElements, Zenon
<1>6. CASE memlist[i].len = n
  BY <1>2, <1>4, <1>6, RemoveSound, Zenon
<1>7. CASE memlist[i].len # n
  <2>1. PICK b : b = Block(memlist[i].addr, memlist[i].len - n)
    BY Zenon
  <2>2. memlist[i].len - n \in Nat
    BY <1>3, <1>4, <1>5
  <2>3. /\ b \in Blocks /\ b.addr = memlist[i].addr
        /\ b.len = memlist[i].len - n
        /\ Top(b) = memlist[i].addr + (memlist[i].len - n)
    BY <1>5, <2>1, <2>2, BlockType, Zenon
  <2>4. b.len > 0 /\ Top(b) < Top(memlist[i]) /\ Top(b) \in Nat
    BY <1>3, <1>4, <1>5, <1>7, <2>3
  <2>5. ASSUME NEW j \in 1 .. Len(memlist), j < i
        PROVE  Top(memlist[j]) < b.addr
    BY <1>4, <2>3, <2>5, Zenon DEF Sound
  <2>6. ASSUME NEW j \in 1 .. Len(memlist), j > i
        PROVE  Top(b) < memlist[j].addr
    <3>1. i < j
      BY <1>4, <1>5, <2>6, Zenon
    <3>2. Top(memlist[i]) < memlist[j].addr
      BY <1>4, <3>1, Zenon DEF Sound
    <3>3. memlist[j].addr \in Nat
      BY SoundElements, Zenon
    <3> QED BY <1>5, <2>4, <3>2, <3>3
  <2>7. Sound([memlist EXCEPT ![i] = b])
    BY <1>4, <2>3, <2>4, <2>5, <2>6, ReplaceSound, Zenon
  <2> QED BY <1>2, <1>7, <2>1, <2>7, Zenon
<1> QED BY <1>6, <1>7, Zenon

\* No block reaches the end of the address space.
Bounded(q) == \A x \in Int : Covers(q, x) => x + 1 < UINT

\* So what memfree() takes for their tops are their tops.
LEMMA BoundedTops ==
  ASSUME NEW q, Sound(q), Bounded(q), NEW i \in 1 .. Len(q)
  PROVE  Top(q[i]) < UINT /\ End(q[i]) = Top(q[i])
<1>1. PICK t \in Nat : /\ t = Top(q[i]) /\ q[i].addr \in Nat /\ q[i].len \in Nat
                       /\ q[i].len > 0 /\ t = q[i].addr + q[i].len
  BY SoundElements
<1>2. t - 1 \in Int /\ q[i].addr <= t - 1 /\ t - 1 < t /\ (t - 1) + 1 = t
  BY <1>1
<1>3. Covers(q, t - 1)
  BY <1>1, <1>2, Zenon DEF Covers, In
<1>4. t < UINT
  BY <1>2, <1>3, Zenon DEF Bounded
<1> QED BY <1>1, <1>4, EndIsTop, Zenon

\* And memfree(), whatever it is given; the bytes it is given become free.
LEMMA MemfreeKeeps ==
  ASSUME NoWrap, Sound(memlist), Bounded(memlist), NEW p \in Nat, NEW req \in Sizes,
         memfree(p, req)
  PROVE  Sound(memlist') /\ Bounded(memlist') /\ More(memlist, memlist', p, roundmb(req))
<1>1. PICK n : n = roundmb(req)
  BY Zenon
<1>2. PICK k : k = Place(p)
  BY Zenon
<1>a. /\ req # 0 /\ p >= memheap /\ p <= maxaddr /\ TopBefore(p) <= p
      /\ k <= Len(memlist) => (p + n) % UINT <= memlist[k].addr
      /\ memlist' = JoinNext(JoinPrev(p, n),
                             IF TopBefore(p) = p THEN k - 1 ELSE k)
  BY <1>1, <1>2, Zenon DEF memfree, accepts
<1>b. n \in Nat /\ n >= 8 /\ maxaddr + n < UINT
  BY <1>1, <1>a, RoundUp, Zenon
<1>4. n \in Nat /\ n >= 8 /\ p + n < UINT /\ (p + n) % UINT = p + n
  BY <1>a, <1>b, MemoryAssumption
<1>3. /\ req # 0 /\ p >= memheap /\ TopBefore(p) <= p
      /\ k <= Len(memlist) => p + n <= memlist[k].addr
      /\ memlist' = JoinNext(JoinPrev(p, n),
                             IF TopBefore(p) = p THEN k - 1 ELSE k)
  BY <1>4, <1>a, Zenon
<1>5. k \in 1 .. Len(memlist) + 1
  <2>1. {i \in 1 .. Len(memlist) : memlist[i].addr >= p}
          \in SUBSET (1 .. Len(memlist))
    BY Zenon
  <2> QED BY <1>2, <2>1, FirstPlaceRange, Zenon DEF Place, Sound
<1>6. /\ Len(memlist) \in Nat /\ memheap \in Nat /\ memheap > 0
      /\ \A i \in 1 .. Len(memlist) :
           /\ memlist[i].addr \in Nat /\ memlist[i].len \in Nat
           /\ memlist[i].len > 0 /\ Top(memlist[i]) \in Nat
           /\ Top(memlist[i]) = memlist[i].addr + memlist[i].len
  BY SoundElements, MemoryAssumption
<1>c. k # 1 => TopBefore(p) = Top(memlist[k - 1])
  <2>1. ASSUME k # 1 PROVE k - 1 \in 1 .. Len(memlist)
    BY <1>5, <1>6, <2>1
  <2> QED BY <1>2, <2>1, BoundedTops, Zenon DEF TopBefore
<1>7. \A i, j \in 1 .. Len(memlist) : i < j => Top(memlist[i]) < memlist[j].addr
  BY Zenon DEF Sound
\* What lies behind place k is above the freed block.
<1>8. ASSUME NEW j \in 1 .. Len(memlist), j >= k
      PROVE  p + n <= memlist[j].addr
  <2>1. k \in 1 .. Len(memlist) /\ p + n <= memlist[k].addr
    BY <1>3, <1>5, <1>6, <1>8
  <2>2. CASE j = k
    BY <2>1, <2>2, Zenon
  <2>3. CASE j # k
    <3>1. k < j
      BY <1>5, <1>6, <1>8, <2>3
    <3>2. Top(memlist[k]) < memlist[j].addr
      BY <1>7, <2>1, <3>1, Zenon
    <3>3. /\ memlist[k].addr \in Nat /\ memlist[k].len \in Nat
          /\ Top(memlist[k]) = memlist[k].addr + memlist[k].len
          /\ memlist[j].addr \in Nat
      BY <1>6, <2>1, Zenon
    <3> QED BY <1>4, <2>1, <3>2, <3>3
  <2> QED BY <2>2, <2>3, Zenon
<1>9. ASSUME TopBefore(p) = p
      PROVE  Sound(memlist') /\ More(memlist, memlist', p, n)
  <2>1. k # 1
    BY <1>2, <1>3, <1>6, <1>9 DEF TopBefore
  <2>2. PICK i \in 1 .. Len(memlist) : i = k - 1
    BY <1>5, <1>6, <2>1
  <2>3. Top(memlist[i]) = p
    BY <1>9, <1>c, <2>1, <2>2, Zenon
  <2>4. PICK b : b = Block(memlist[i].addr, memlist[i].len + n)
    BY Zenon
  <2>5. memlist[i].addr \in Nat /\ memlist[i].len + n \in Nat
    BY <1>4, <1>6
  <2>6. /\ b \in Blocks /\ b.addr = memlist[i].addr
        /\ b.len = memlist[i].len + n
        /\ Top(b) = memlist[i].addr + (memlist[i].len + n)
    <3>1. PICK l : l = memlist[i].len + n
      BY Zenon
    <3>2. PICK a : a = memlist[i].addr
      BY Zenon
    <3>3. a \in Nat /\ l \in Nat /\ b = Block(a, l)
      BY <2>4, <2>5, <3>1, <3>2, Zenon
    <3>4. b \in Blocks /\ b.addr = a /\ b.len = l /\ Top(b) = a + l
      BY <3>3, BlockType, Zenon
    <3> QED BY <3>1, <3>2, <3>4, Zenon
  <2>7. b.len > 0 /\ Top(b) = p + n
    <3>1. /\ memlist[i].addr \in Nat /\ memlist[i].len \in Nat
          /\ memlist[i].len > 0 /\ memlist[i].addr + memlist[i].len = p
      BY <1>6, <2>3, Zenon
    <3> QED BY <1>4, <2>6, <3>1
  <2>8. ASSUME NEW j \in 1 .. Len(memlist), j > i
        PROVE  Top(b) <= memlist[j].addr
    <3>1. j >= k
      BY <1>5, <1>6, <2>2, <2>8
    <3> QED BY <1>8, <2>7, <3>1, Zenon
  <2>9. PICK q : q = [memlist EXCEPT ![i] = b]
    BY Zenon
  <2>10. Near(q, i) /\ Len(q) = Len(memlist)
    BY <2>6, <2>7, <2>8, <2>9, ReplaceNear, Zenon
  <2>a. i \in 1 .. Len(q) /\ Top(q[i]) < UINT
    <3>1. q[i] = b
      BY <2>2, <2>9 DEF Sound
    <3> QED BY <1>4, <2>2, <2>7, <2>10, <3>1, Zenon
  <2>11. Sound(JoinNext(q, i))
    BY <2>2, <2>10, <2>a, JoinNextSound, Zenon
  <2>12. JoinPrev(p, n) = q
    BY <1>2, <1>9, <2>2, <2>4, <2>9, Zenon DEF JoinPrev
  <2>13. More(memlist, q, p, n)
    <3>1. PICK l : l = memlist
      BY Zenon
    <3>2. More(l, [l EXCEPT ![i] = Block(l[i].addr, l[i].len + n)], Top(l[i]), n)
      BY <1>4, <2>2, <3>1, GiveTop, Zenon
    <3> QED BY <2>3, <2>4, <2>9, <3>1, <3>2, Zenon
  <2>14. PICK r : r = JoinNext(q, i)
    BY Zenon
  <2>15. (\A x \in Int : Covers(r, x) <=> Covers(q, x)) /\ Size(r) = Size(q)
    BY <2>2, <2>10, <2>14, <2>a, JoinBytes, Zenon
  <2>16. More(memlist, r, p, n)
    BY <2>13, <2>15, Zenon DEF More
  <2> QED BY <1>3, <1>9, <2>2, <2>11, <2>12, <2>14, <2>16, Zenon
<1>10. ASSUME TopBefore(p) # p
       PROVE  Sound(memlist') /\ More(memlist, memlist', p, n)
  <2>1. PICK b : b = Block(p, n)
    BY Zenon
  <2>2. b \in Blocks /\ b.addr = p /\ b.len = n /\ Top(b) = p + n
    BY <1>4, <2>1, BlockType, Zenon
  <2>3. b.len > 0
    BY <1>4, <2>2
  <2>4. ASSUME NEW j \in 1 .. Len(memlist), j < k
        PROVE  Top(memlist[j]) < b.addr
    <3>1. PICK i \in 1 .. Len(memlist) : i = k - 1 /\ j <= i /\ k # 1
      BY <1>5, <1>6, <2>4
    <3>2. Top(memlist[i]) < p
      <4>1. TopBefore(p) = Top(memlist[i])
        BY <1>c, <3>1, Zenon
      <4> QED BY <1>3, <1>6, <1>10, <4>1
    <3>3. CASE j = i
      BY <2>2, <3>2, <3>3, Zenon
    <3>4. CASE j # i
      <4>1. j < i
        BY <1>6, <3>1, <3>4
      <4>2. Top(memlist[j]) < memlist[i].addr
        BY <1>7, <4>1, Zenon
      <4> QED BY <1>6, <2>2, <3>2, <4>2, SMTT(40)
    <3> QED BY <3>3, <3>4, Zenon
  <2>5. ASSUME NEW j \in 1 .. Len(memlist), j >= k
        PROVE  Top(b) <= memlist[j].addr
    BY <1>8, <2>2, <2>5, Zenon
  <2>6. PICK q : q = InsertAt(memlist, k, b)
    BY Zenon
  <2>7. Near(q, k) /\ k \in 1 .. Len(q)
    BY <1>5, <2>2, <2>3, <2>4, <2>5, <2>6, InsertNear, Zenon
  <2>a. Top(q[k]) < UINT
    <3>1. q[k] = b
      BY <1>5, <1>6, <2>6 DEF InsertAt
    <3> QED BY <1>4, <2>2, <3>1, Zenon
  <2>8. Sound(JoinNext(q, k))
    BY <2>7, <2>a, JoinNextSound, Zenon
  <2>9. JoinPrev(p, n) = q
    BY <1>2, <1>10, <2>1, <2>6, Zenon DEF JoinPrev
  <2>10. More(memlist, q, p, n)
    <3>1. PICK l : l = memlist
      BY Zenon
    <3>2. More(l, InsertAt(l, k, Block(p, n)), p, n)
      BY <1>4, <1>5, <3>1, GiveNew, Zenon
    <3> QED BY <2>1, <2>6, <3>1, <3>2, Zenon
  <2>11. PICK r : r = JoinNext(q, k)
    BY Zenon
  <2>12. (\A x \in Int : Covers(r, x) <=> Covers(q, x)) /\ Size(r) = Size(q)
    BY <2>7, <2>11, <2>a, JoinBytes, Zenon
  <2>13. More(memlist, r, p, n)
    BY <2>10, <2>12, Zenon DEF More
  <2> QED BY <1>3, <1>10, <2>8, <2>9, <2>11, <2>13, Zenon
<1>11. Sound(memlist') /\ More(memlist, memlist', p, n)
  BY <1>9, <1>10, Zenon
<1>12. Bounded(memlist')
  <2>1. \A x \in Int : Covers(memlist', x) => Covers(memlist, x) \/ (p <= x /\ x < p + n)
    BY <1>11, Zenon DEF More
  <2>2. \A x \in Int : x < p + n => x + 1 < UINT
    BY <1>4, MemoryAssumption
  <2> QED BY <2>1, <2>2, Zenon DEF Bounded
<1> QED BY <1>1, <1>11, <1>12, Zenon

\* Init is sound, and every step keeps the list sound and in the address space and
\* the clients' memory typed.
IInv ==
  /\ Sound(memlist) /\ Bounded(memlist)
  /\ owned \subseteq [ptr : Nat, req : Sizes, stk : BOOLEAN]

\* What is taken leaves a list in the address space.
LEMMA LessBounded ==
  ASSUME NEW q, NEW r, NEW a, NEW n, Less(q, r, a, n), Bounded(q)
  PROVE  Bounded(r)
BY Zenon DEF Less, Bounded

\* A pointer that stkget() returned leads stkfree() back to the block's start.
LEMMA BaseNat ==
  ASSUME NoWrap, NEW o \in owned, IInv, accepts(Base(o), o.req)
  PROVE  Base(o) \in Nat
<1>1. o \in [ptr : Nat, req : Sizes, stk : BOOLEAN]
  BY Zenon DEF IInv
<1>2. o.ptr \in Nat /\ o.req \in Sizes /\ o.req # 0 /\ Base(o) >= memheap
  BY <1>1, Zenon DEF accepts
<1>3. roundmb(o.req) \in Nat
  BY <1>2, RoundUp, Zenon
<1>4. Base(o) \in Int
  BY <1>2, <1>3 DEF Base
<1> QED BY <1>2, <1>4, MemoryAssumption

\* memget() hands out bytes that were free.
LEMMA MemgetTakes ==
  ASSUME NoWrap, IInv, NEW req \in Sizes, memget(req)
  PROVE  \E o : /\ owned' = owned \cup {o} /\ o.req = req /\ req # 0 /\ Base(o) \in Nat
                /\ Less(memlist, memlist', Base(o), roundmb(req))
                /\ total' = total - roundmb(req)
<1>1. PICK n : n = roundmb(req)
  BY Zenon
<1>2. PICK i : i = FirstPlace(memlist, Fits(n))
  BY Zenon
<1>3. /\ req # 0 /\ i <= Len(memlist) /\ total' = total - n
      /\ memlist' = IF memlist[i].len = n THEN RemoveAt(memlist, i)
                    ELSE [memlist EXCEPT ![i] =
                            Block(memlist[i].addr + n, memlist[i].len - n)]
      /\ owned' = owned \cup {[ptr |-> memlist[i].addr, req |-> req, stk |-> FALSE]}
  BY <1>1, <1>2, Zenon DEF memget
<1>4. n \in Nat /\ n >= 8
  BY <1>1, <1>3, RoundUp, Zenon
<1>5. i \in 1 .. Len(memlist) /\ memlist[i].len >= n
  <2>1. Fits(n) \in SUBSET (1 .. Len(memlist))
    BY Zenon DEF Fits
  <2>2. i \in Fits(n)
    BY <1>2, <1>3, <2>1, FirstPlaceIn, Zenon DEF IInv, Sound
  <2> QED BY <2>2, Zenon DEF Fits
<1>6. memlist[i].addr \in Nat /\ memlist[i].len \in Nat
  BY <1>5, SoundElements, Zenon DEF IInv
<1>7. Less(memlist, memlist', memlist[i].addr, n)
  <2>1. PICK q : q = memlist /\ Sound(q)
    BY Zenon DEF IInv
  <2>2. CASE q[i].len = n
    <3>1. Less(q, RemoveAt(q, i), q[i].addr, q[i].len)
      BY <1>5, <2>1, TakeWhole, Zenon
    <3> QED BY <1>3, <2>1, <2>2, <3>1, Zenon
  <2>3. CASE q[i].len # n
    <3>1. n < q[i].len
      BY <1>4, <1>5, <1>6, <2>1, <2>3
    <3>2. Less(q, [q EXCEPT ![i] = Block(q[i].addr + n, q[i].len - n)], q[i].addr, n)
      BY <1>4, <1>5, <2>1, <3>1, TakeEnd, Zenon
    <3> QED BY <1>3, <2>1, <2>3, <3>2, Zenon
  <2> QED BY <2>2, <2>3, Zenon
<1>8. PICK o : o = [ptr |-> memlist[i].addr, req |-> req, stk |-> FALSE]
  BY Zenon
<1>9. o.req = req /\ Base(o) = memlist[i].addr
  BY <1>8, Zenon DEF Base
<1> QED BY <1>1, <1>3, <1>6, <1>7, <1>8, <1>9, Zenon

\* So does stkget(), and stkfree() finds where they start.
LEMMA StkgetTakes ==
  ASSUME NoWrap, IInv, NEW req \in Sizes, stkget(req)
  PROVE  \E o : /\ owned' = owned \cup {o} /\ o.req = req /\ req # 0 /\ Base(o) \in Nat
                /\ Less(memlist, memlist', Base(o), roundmb(req))
                /\ total' = total - roundmb(req)
<1>1. PICK n : n = roundmb(req)
  BY Zenon
<1>2. PICK i \in Fits(n) :
        /\ req # 0 /\ total' = total - n
        /\ memlist' = IF memlist[i].len = n THEN RemoveAt(memlist, i)
                      ELSE [memlist EXCEPT ![i] =
                              Block(memlist[i].addr, memlist[i].len - n)]
        /\ owned' = owned \cup {[ptr |-> Top(memlist[i]) - 4, req |-> req, stk |-> TRUE]}
  BY <1>1, Zenon DEF stkget
<1>3. n \in Nat /\ n >= 8
  BY <1>1, <1>2, RoundUp, Zenon
<1>4. i \in 1 .. Len(memlist) /\ memlist[i].len >= n
  BY <1>2, Zenon DEF Fits
<1>5. /\ memlist[i].addr \in Nat /\ memlist[i].len \in Nat /\ Top(memlist[i]) \in Nat
      /\ Top(memlist[i]) = memlist[i].addr + memlist[i].len
  BY <1>4, SoundElements DEF IInv
<1>6. Less(memlist, memlist', Top(memlist[i]) - n, n)
  <2>1. PICK q : q = memlist /\ Sound(q)
    BY Zenon DEF IInv
  <2>2. CASE q[i].len = n
    <3>1. Less(q, RemoveAt(q, i), q[i].addr, q[i].len)
      BY <1>4, <2>1, TakeWhole, Zenon
    <3>2. Top(q[i]) - n = q[i].addr
      BY <1>5, <2>1, <2>2
    <3> QED BY <1>2, <2>1, <2>2, <3>1, <3>2, Zenon
  <2>3. CASE q[i].len # n
    <3>1. n < q[i].len
      BY <1>3, <1>4, <1>5, <2>1, <2>3
    <3>2. Less(q, [q EXCEPT ![i] = Block(q[i].addr, q[i].len - n)], Top(q[i]) - n, n)
      BY <1>3, <1>4, <2>1, <3>1, TakeEnd, Zenon
    <3> QED BY <1>2, <2>1, <2>3, <3>2, Zenon
  <2> QED BY <2>2, <2>3, Zenon
<1>7. PICK o : o = [ptr |-> Top(memlist[i]) - 4, req |-> req, stk |-> TRUE]
  BY Zenon
<1>8. o.req = req /\ Base(o) = (Top(memlist[i]) - 4) - n + 4
  BY <1>1, <1>7, Zenon DEF Base
<1>9. Base(o) = Top(memlist[i]) - n /\ Base(o) \in Nat
  <2>1. n \in Nat /\ n <= Top(memlist[i])
    BY <1>3, <1>4, <1>5
  <2>2. ASSUME NEW z \in Nat, n <= z PROVE (z - 4) - n + 4 = z - n /\ z - n \in Nat
    BY <2>1, <2>2
  <2> QED BY <1>5, <1>8, <2>1, <2>2, Zenon
<1> QED BY <1>1, <1>2, <1>6, <1>7, <1>8, <1>9, Zenon

\* The inductive step.
LEMMA NextIInv ==
  ASSUME NoWrap, IInv, [Next]_vars
  PROVE  IInv'
<1>1. ASSUME NEW req \in Sizes, memget(req)
      PROVE  IInv'
  <2>1. Sound(memlist') /\ Bounded(memlist')
    BY <1>1, MemgetKeeps, MemgetTakes, LessBounded, Zenon DEF IInv
  <2>2. PICK i : i = FirstPlace(memlist, Fits(roundmb(req)))
    BY Zenon
  <2>3. i <= Len(memlist) /\ owned' = owned \cup
          {[ptr |-> memlist[i].addr, req |-> req, stk |-> FALSE]}
    BY <1>1, <2>2, Zenon DEF memget
  <2>4. Fits(roundmb(req)) \in SUBSET (1 .. Len(memlist))
    BY Zenon DEF Fits
  <2>5. i \in 1 .. Len(memlist)
    BY <2>2, <2>3, <2>4, FirstPlaceIn, Zenon DEF IInv, Sound
  <2>6. memlist[i].addr \in Nat
    BY <2>5, SoundElements, Zenon DEF IInv
  <2>7. [ptr |-> memlist[i].addr, req |-> req, stk |-> FALSE]
          \in [ptr : Nat, req : Sizes, stk : BOOLEAN]
    BY <2>6, Zenon
  <2>8. owned' \subseteq [ptr : Nat, req : Sizes, stk : BOOLEAN]
    BY <2>3, <2>7, Zenon DEF IInv
  <2> QED BY <2>1, <2>8, Zenon DEF IInv
<1>2. ASSUME NEW req \in Sizes, stkget(req)
      PROVE  IInv'
  <2>1. Sound(memlist') /\ Bounded(memlist')
    BY <1>2, StkgetKeeps, StkgetTakes, LessBounded, Zenon DEF IInv
  <2>2. PICK i \in Fits(roundmb(req)) : req # 0 /\ owned' = owned \cup
          {[ptr |-> Top(memlist[i]) - 4, req |-> req, stk |-> TRUE]}
    BY <1>2, Zenon DEF stkget
  <2>3. i \in 1 .. Len(memlist) /\ memlist[i].len >= roundmb(req)
    BY <2>2, Zenon DEF Fits
  <2>4. roundmb(req) \in Nat /\ roundmb(req) >= 8
    BY <2>2, RoundUp, Zenon
  <2>5. /\ memlist[i].addr \in Nat /\ memlist[i].len \in Nat
        /\ Top(memlist[i]) = memlist[i].addr + memlist[i].len
    BY <2>3, SoundElements, Zenon DEF IInv
  <2>6. Top(memlist[i]) - 4 \in Nat
    BY <2>3, <2>4, <2>5
  <2>7. [ptr |-> Top(memlist[i]) - 4, req |-> req, stk |-> TRUE]
          \in [ptr : Nat, req : Sizes, stk : BOOLEAN]
    BY <2>6, Zenon
  <2>8. owned' \subseteq [ptr : Nat, req : Sizes, stk : BOOLEAN]
    BY <2>2, <2>7, Zenon DEF IInv
  <2> QED BY <2>1, <2>8, Zenon DEF IInv
<1>3. ASSUME NEW o \in owned, Free(o)
      PROVE  IInv'
  <2>1. memfree(Base(o), o.req) /\ owned' = owned \ {o}
    BY <1>3, Zenon DEF Free
  <2>2. accepts(Base(o), o.req)
    BY <2>1, Zenon DEF memfree
  <2>3. Base(o) \in Nat /\ o.req \in Sizes
    BY <2>2, BaseNat, Zenon DEF IInv
  <2>4. Sound(memlist') /\ Bounded(memlist')
    BY <2>1, <2>3, MemfreeKeeps, Zenon DEF IInv
  <2> QED BY <2>1, <2>4, Zenon DEF IInv
<1>4. ASSUME NEW p \in Strays, NEW req \in Sizes, StrayFree(p, req)
      PROVE  IInv'
  <2>1. p \in Nat
    BY MemoryAssumption, Zenon
  <2>2. Sound(memlist') /\ Bounded(memlist')
    BY <1>4, <2>1, MemfreeKeeps, Zenon DEF IInv, StrayFree
  <2> QED BY <1>4, <2>2, Zenon DEF IInv, StrayFree
<1>5. CASE UNCHANGED vars
  BY <1>5, Zenon DEF IInv, vars
<1> QED BY <1>1, <1>2, <1>3, <1>4, <1>5, Zenon DEF Next

\* The whole heap is one block at first.
LEMMA InitIInv ==
  ASSUME Init
  PROVE  IInv
<1>1. PICK b : b = Block(memheap, maxaddr - memheap)
  BY Zenon
<1>2. /\ maxaddr - memheap \in Nat /\ maxaddr - memheap > 0 /\ memheap \in Nat
      /\ memheap + (maxaddr - memheap) = maxaddr /\ maxaddr \in Nat /\ maxaddr < UINT
  BY MemoryAssumption
<1>3. b \in Blocks /\ b.len > 0 /\ Top(b) = maxaddr
  BY <1>1, <1>2, BlockType, Zenon
<1>4. memlist = <<b>> /\ owned = {}
  BY <1>1, Zenon DEF Init
<1>5. memlist \in Seq(Blocks) /\ Len(memlist) = 1 /\ memlist[1] = b
  BY <1>3, <1>4
<1>6. Sound(memlist)
  BY <1>3, <1>5 DEF Sound
<1>7. Bounded(memlist)
  <2>1. \A x \in Int : Covers(memlist, x) => x < maxaddr
    BY <1>3, <1>5 DEF Covers, In
  <2>2. \A x \in Int : x < maxaddr => x + 1 < UINT
    BY <1>2, MemoryAssumption
  <2> QED BY <2>1, <2>2, Zenon DEF Bounded
<1> QED BY <1>4, <1>6, <1>7, Zenon DEF IInv

\* The free list is always in order of address, and its blocks are not empty
\* and never overlap or touch, whatever address clients free: for every heap and
\* all sizes that, added to an address of the heap, do not wrap around.
THEOREM FreeListAlwaysSound ==
  ASSUME NoWrap
  PROVE  Spec => []FreeListSound
<1>1. IInv => FreeListSound
  BY Zenon DEF IInv, Sound, FreeListSound
<1>2. Init => IInv
  BY InitIInv, Zenon
<1>3. IInv /\ [Next]_vars => IInv'
  BY NextIInv, Zenon
<1> QED BY <1>1, <1>2, <1>3, PTL DEF Spec

-----------------------------------------------------------------------------

\* The client that o belongs to holds byte x.
Held(o, x) == Base(o) <= x /\ x < Base(o) + roundmb(o.req)

\* What memory is, byte by byte, for clients that free only what they own.
Divided ==
  /\ \A x \in Int : (Covers(memlist, x) \/ \E o \in owned : Held(o, x))
                      <=> memheap <= x /\ x < maxaddr
  /\ \A o \in owned, x \in Int : Held(o, x) => ~Covers(memlist, x)
  /\ \A o, u \in owned, x \in Int : Held(o, x) /\ Held(u, x) => o = u
  /\ \A o \in owned : o.req # 0 /\ Base(o) \in Nat
  /\ total = Size(memlist) /\ Size(memlist) \in Int

\* Handing out free bytes keeps memory divided.
LEMMA TakeDivides ==
  ASSUME Divided, NEW o, owned' = owned \cup {o}, o.req # 0, Base(o) \in Nat,
         NEW n \in Nat, n = roundmb(o.req), Less(memlist, memlist', Base(o), n),
         total' = total - n
  PROVE  Divided'
<1>1. /\ \A x \in Int : Covers(memlist', x) <=> Covers(memlist, x) /\ ~Held(o, x)
      /\ \A x \in Int : Held(o, x) => Covers(memlist, x)
      /\ Size(memlist') = Size(memlist) - n
  BY Zenon DEF Less, Held
<1>2. \A u, x : Held(u, x)' <=> Held(u, x)
  BY Zenon DEF Held, Base
<1>3. ASSUME NEW x \in Int
      PROVE  (Covers(memlist', x) \/ \E u \in owned' : Held(u, x))
               <=> memheap <= x /\ x < maxaddr
  BY <1>1, Zenon DEF Divided
<1>4. ASSUME NEW u \in owned', NEW x \in Int, Held(u, x)
      PROVE  ~Covers(memlist', x)
  BY <1>1, <1>4, Zenon DEF Divided
<1>5. ASSUME NEW u \in owned', NEW v \in owned', NEW x \in Int, Held(u, x), Held(v, x)
      PROVE  u = v
  BY <1>1, <1>5 DEF Divided
<1>6. \A u \in owned' : u.req # 0 /\ Base(u) \in Nat
  BY Zenon DEF Divided
<1>7. total' = Size(memlist') /\ Size(memlist') \in Int
  BY <1>1 DEF Divided
<1> QED BY <1>2, <1>3, <1>4, <1>5, <1>6, <1>7 DEF Divided, Held, Base

\* So does giving a client's bytes back.
LEMMA GiveDivides ==
  ASSUME Divided, NEW o \in owned, owned' = owned \ {o},
         NEW n \in Nat, n = roundmb(o.req), More(memlist, memlist', Base(o), n),
         total' = total + n
  PROVE  Divided'
<1>1. /\ \A x \in Int : Covers(memlist', x) <=> Covers(memlist, x) \/ Held(o, x)
      /\ Size(memlist') = Size(memlist) + n
  BY Zenon DEF More, Held
<1>2. ASSUME NEW x \in Int
      PROVE  (Covers(memlist', x) \/ \E u \in owned' : Held(u, x))
               <=> memheap <= x /\ x < maxaddr
  BY <1>1, Zenon DEF Divided
<1>3. ASSUME NEW u \in owned', NEW x \in Int, Held(u, x)
      PROVE  ~Covers(memlist', x)
  BY <1>1, <1>3, Zenon DEF Divided
<1>4. \A u, v \in owned', x \in Int : Held(u, x) /\ Held(v, x) => u = v
  BY Zenon DEF Divided
<1>5. \A u \in owned' : u.req # 0 /\ Base(u) \in Nat
  BY Zenon DEF Divided
<1>6. total' = Size(memlist') /\ Size(memlist') \in Int
  BY <1>1 DEF Divided
<1> QED BY <1>2, <1>3, <1>4, <1>5, <1>6, Zenon DEF Divided, Held, Base

\* The inductive step, for clients that free only what they own.
LEMMA NextDivided ==
  ASSUME NoWrap, Strays = {}, IInv, Divided, [Next]_vars
  PROVE  Divided'
<1>1. ASSUME NEW req \in Sizes, memget(req) \/ stkget(req)
      PROVE  Divided'
  <2>1. PICK o : /\ owned' = owned \cup {o} /\ o.req = req /\ req # 0 /\ Base(o) \in Nat
                 /\ Less(memlist, memlist', Base(o), roundmb(req))
                 /\ total' = total - roundmb(req)
    BY <1>1, MemgetTakes, StkgetTakes, Zenon
  <2>2. roundmb(req) \in Nat
    BY <2>1, RoundUp, Zenon
  <2> QED BY <2>1, <2>2, TakeDivides, Zenon
<1>2. ASSUME NEW o \in owned, Free(o)
      PROVE  Divided'
  <2>1. /\ memfree(Base(o), o.req) /\ owned' = owned \ {o}
        /\ total' = total + roundmb(o.req)
    BY <1>2, Zenon DEF Free, memfree
  <2>2. o.req \in Sizes /\ o.req # 0 /\ Base(o) \in Nat
    BY Zenon DEF IInv, Divided
  <2>3. More(memlist, memlist', Base(o), roundmb(o.req))
    BY <2>1, <2>2, MemfreeKeeps, Zenon DEF IInv
  <2>4. roundmb(o.req) \in Nat
    BY <2>2, RoundUp, Zenon
  <2> QED BY <2>1, <2>3, <2>4, GiveDivides, Zenon
<1>3. CASE UNCHANGED vars
  BY <1>3, Zenon DEF Divided, vars, Held, Base
<1> QED BY <1>1, <1>2, <1>3, Zenon DEF Next

\* The whole heap is free at first.
LEMMA InitDivided ==
  ASSUME Init
  PROVE  Divided
<1>1. PICK b : b = Block(memheap, maxaddr - memheap)
  BY Zenon
<1>2. PICK h \in Nat, m \in Nat, l \in Nat :
        h = memheap /\ m = maxaddr /\ l = maxaddr - memheap /\ h + l = m
  BY MemoryAssumption
<1>3. b.addr = h /\ b.len = l /\ Top(b) = m
  BY <1>1, <1>2, BlockType
<1>4. /\ memlist = <<b>> /\ owned = {} /\ total = l
  BY <1>1, <1>2, Zenon DEF Init
<1>5. Len(memlist) = 1 /\ memlist[1] = b /\ 1 .. 1 = {1}
  BY <1>4
<1>6. \A x \in Int : Covers(memlist, x) <=> memheap <= x /\ x < maxaddr
  BY <1>2, <1>3, <1>5, Zenon DEF Covers, In
<1>7. Size(memlist) = l
  <2>1. PICK f : f = [i \in 1 .. Len(memlist) |-> memlist[i].len]
    BY Zenon
  <2>2. f[1] = l
    BY <1>3, <1>5, <2>1, Zenon
  <2>3. PICK s : s = [i \in 0 .. 1 |-> IF i = 0 THEN 0 ELSE l]
    BY Zenon
  <2>4. Sums(s, f, 1) /\ s[1] = l
    BY <2>2, <2>3 DEF Sums
  <2>5. SumTo(f, 1) = l
    BY <2>4, SumIs, Zenon
  <2> QED BY <1>5, <2>1, <2>5, Zenon DEF Size
<1> QED BY <1>4, <1>6, <1>7 DEF Divided

\* The sets of bytes of the properties, byte by byte.
LEMMA BytesAre ==
  ASSUME NoWrap, IInv, Divided
  PROVE  /\ FreeBytes \subseteq Int /\ \A x \in Int : x \in FreeBytes <=> Covers(memlist, x)
         /\ \A o \in owned : /\ OwnedBytes(o) \subseteq Int
                             /\ \A x \in Int : x \in OwnedBytes(o) <=> Held(o, x)
<1>1. ASSUME NEW i \in 1 .. Len(memlist)
      PROVE  /\ Bytes(memlist[i].addr, memlist[i].len) \subseteq Int
             /\ \A x \in Int : x \in Bytes(memlist[i].addr, memlist[i].len)
                                 <=> In(memlist[i], x)
  <2>1. PICK a \in Nat, l \in Nat :
          a = memlist[i].addr /\ l = memlist[i].len /\ Top(memlist[i]) = a + l
    BY SoundElements, Zenon DEF IInv
  <2> QED BY <2>1 DEF Bytes, In
<1>2. /\ FreeBytes \subseteq Int /\ \A x \in Int : x \in FreeBytes <=> Covers(memlist, x)
  BY <1>1, Zenon DEF FreeBytes, Covers
<1>3. ASSUME NEW o \in owned
      PROVE  /\ OwnedBytes(o) \subseteq Int
             /\ \A x \in Int : x \in OwnedBytes(o) <=> Held(o, x)
  <2>1. Base(o) \in Nat /\ roundmb(o.req) \in Nat
    BY RoundUp, Zenon DEF Divided, IInv
  <2> QED BY <2>1 DEF OwnedBytes, Bytes, Held
<1> QED BY <1>2, <1>3, Zenon

\* No memory is handed out twice and none is lost.
LEMMA DividedPartitions ==
  ASSUME NoWrap, IInv, Divided
  PROVE  HeapPartitioned
<1>1. PICK F : F = FreeBytes
  BY Zenon
<1>2. /\ F \subseteq Int /\ \A x \in Int : x \in F <=> Covers(memlist, x)
      /\ \A o \in owned : /\ OwnedBytes(o) \subseteq Int
                          /\ \A x \in Int : x \in OwnedBytes(o) <=> Held(o, x)
  BY <1>1, BytesAre, Zenon
<1>3. \A x : x \in Bytes(memheap, maxaddr - memheap)
               <=> x \in Int /\ memheap <= x /\ x < maxaddr
  <2>1. PICK h \in Nat, m \in Nat : h = memheap /\ m = maxaddr
    BY MemoryAssumption, Zenon
  <2> QED BY <2>1 DEF Bytes
<1>4. F \cup UNION {OwnedBytes(o) : o \in owned} = Bytes(memheap, maxaddr - memheap)
  <2>1. PICK U : U = UNION {OwnedBytes(o) : o \in owned}
    BY Zenon
  <2>2. \A x : x \in U <=> \E o \in owned : x \in OwnedBytes(o)
    BY <2>1, Zenon
  <2>3. \A x \in Int : x \in U <=> \E o \in owned : Held(o, x)
    BY <1>2, <2>2, Zenon
  <2>4. \A x \in Int : x \in F \cup U <=> memheap <= x /\ x < maxaddr
    BY <1>2, <2>3, Zenon DEF Divided
  <2>5. \A x : x \in F \cup U => x \in Int
    BY <1>2, <2>2, Zenon
  <2>6. \A x : x \in F \cup U <=> x \in Bytes(memheap, maxaddr - memheap)
    BY <1>3, <2>4, <2>5, Zenon
  <2> QED BY <2>1, <2>6, Zenon
<1>5. \A o \in owned : OwnedBytes(o) \cap F = {}
  BY <1>2, Zenon DEF Divided
<1>6. \A o, u \in owned : o # u => OwnedBytes(o) \cap OwnedBytes(u) = {}
  BY <1>2, Zenon DEF Divided
<1> QED BY <1>1, <1>4, <1>5, <1>6, Zenon DEF HeapPartitioned

\* The owner of a block can give it back.
LEMMA DividedFrees ==
  ASSUME NoWrap, IInv, Divided
  PROVE  OwnerCanFree
<1> SUFFICES ASSUME NEW o \in owned PROVE accepts(Base(o), o.req)
  BY Zenon DEF OwnerCanFree
<1>1. PICK p \in Nat, n \in Nat : p = Base(o) /\ n = roundmb(o.req) /\ n >= 8 /\ o.req # 0
  BY RoundUp, Zenon DEF Divided, IInv
<1>2. \A x \in Int : Held(o, x) <=> p <= x /\ x < p + n
  BY <1>1, Zenon DEF Held
<1>3. PICK h \in Nat, m \in Nat : h = memheap /\ m = maxaddr
  BY MemoryAssumption, Zenon
<1>4. \A x \in Int : p <= x /\ x < p + n => h <= x /\ x < m /\ ~Covers(memlist, x)
  BY <1>2, <1>3, Zenon DEF Divided
<1>5. h <= p /\ p <= m
  BY <1>1, <1>4
<1>6. PICK k : k = Place(p)
  BY Zenon
<1>7. PICK P : P = {i \in 1 .. Len(memlist) : memlist[i].addr >= p}
  BY Zenon
<1>8. /\ k \in 1 .. Len(memlist) + 1
      /\ k \in P \/ k = Len(memlist) + 1
      /\ \A i \in P : k <= i
  <2>1. P \in SUBSET (1 .. Len(memlist)) /\ memlist \in Seq(Blocks)
    BY <1>7, Zenon DEF IInv, Sound
  <2>2. k = FirstPlace(memlist, P)
    BY <1>6, <1>7, Zenon DEF Place
  <2> QED BY <2>1, <2>2, FirstPlaceIs, Zenon
<1>9. /\ Len(memlist) \in Nat
      /\ \A i \in 1 .. Len(memlist) :
           /\ memlist[i].addr \in Nat /\ Top(memlist[i]) \in Nat
           /\ memlist[i].addr < Top(memlist[i])
  BY SoundElements DEF IInv
<1>10. \A i \in 1 .. Len(memlist), x \in Int : In(memlist[i], x) => Covers(memlist, x)
  BY Zenon DEF Covers
<1>11. TopBefore(p) <= p
  <2>1. CASE k = 1
    BY <1>6, <2>1 DEF TopBefore
  <2>2. CASE k # 1
    <3>1. PICK i \in 1 .. Len(memlist) : i = k - 1
      BY <1>8, <1>9, <2>2
    <3>2. ~(k <= i)
      BY <1>8, <1>9, <3>1
    <3>3. ~(memlist[i].addr >= p)
      BY <1>7, <1>8, <3>2, Zenon
    <3>4. ~In(memlist[i], p)
      BY <1>1, <1>4, <1>10
    <3>5. TopBefore(p) = Top(memlist[i])
      <4>1. End(memlist[i]) = Top(memlist[i])
        BY <3>1, BoundedTops, Zenon DEF IInv
      <4> QED BY <1>6, <2>2, <3>1, <4>1, Zenon DEF TopBefore
    <3> QED BY <1>9, <3>3, <3>4, <3>5 DEF In
  <2> QED BY <2>1, <2>2, Zenon
<1>12. k <= Len(memlist) => p + n <= memlist[k].addr
  <2> SUFFICES ASSUME k <= Len(memlist) PROVE p + n <= memlist[k].addr
    BY Zenon
  <2>1. k \in 1 .. Len(memlist) /\ memlist[k].addr >= p
    BY <1>7, <1>8, <1>9
  <2>2. PICK a \in Nat : a = memlist[k].addr
    BY <1>9, <2>1, Zenon
  <2>3. In(memlist[k], a)
    BY <1>9, <2>1, <2>2 DEF In
  <2>4. ~(p <= a /\ a < p + n)
    BY <1>4, <1>10, <2>1, <2>2, <2>3
  <2> QED BY <2>1, <2>2, <2>4
<1>13. (p + n) % UINT = p + n
  <2>1. maxaddr + n < UINT
    BY <1>1, RoundUp, Zenon DEF IInv
  <2> QED BY <1>1, <1>3, <1>5, <2>1, MemoryAssumption
<1> QED BY <1>1, <1>3, <1>5, <1>6, <1>11, <1>12, <1>13, Zenon DEF accepts

\* Free bytes in a row are bytes of one block.
LEMMA DividedFits ==
  ASSUME NoWrap, IInv, Divided
  PROVE  NoFalseRefusal
<1> SUFFICES ASSUME NEW req \in Sizes \ {0}, NEW a \in memheap .. maxaddr,
                    Bytes(a, roundmb(req)) \subseteq FreeBytes
             PROVE  Fits(roundmb(req)) # {}
  BY Zenon DEF NoFalseRefusal
<1>1. PICK n \in Nat : n = roundmb(req) /\ n >= 8
  BY RoundUp, Zenon
<1>2. a \in Int
  BY MemoryAssumption
<1>3. \A x \in Int : a <= x /\ x < a + n => Covers(memlist, x)
  <2>1. \A x \in Int : a <= x /\ x < a + n => x \in Bytes(a, n)
    BY <1>2 DEF Bytes
  <2> QED BY <1>1, <2>1, BytesAre, Zenon
<1>4. PICK i \in 1 .. Len(memlist) : In(memlist[i], a)
  <2>1. a <= a /\ a < a + n
    BY <1>1, <1>2
  <2> QED BY <1>2, <1>3, <2>1, Zenon DEF Covers
<1>5. /\ \A j \in 1 .. Len(memlist) :
           /\ memlist[j].addr \in Nat /\ memlist[j].len \in Nat /\ Top(memlist[j]) \in Nat
           /\ Top(memlist[j]) = memlist[j].addr + memlist[j].len
      /\ Len(memlist) \in Nat
  BY SoundElements DEF IInv
<1>6. PICK t \in Nat : t = Top(memlist[i]) /\ memlist[i].addr <= a /\ a < t
  BY <1>4, <1>5, Zenon DEF In
<1>7. ~Covers(memlist, t)
  <2> SUFFICES ASSUME NEW j \in 1 .. Len(memlist), In(memlist[j], t) PROVE FALSE
    BY Zenon DEF Covers
  <2>1. memlist[j].addr <= t /\ t < Top(memlist[j])
    BY Zenon DEF In
  <2>2. CASE i < j
    <3>1. Top(memlist[i]) < memlist[j].addr
      BY <2>2, Zenon DEF IInv, Sound
    <3> QED BY <1>5, <1>6, <2>1, <3>1
  <2>3. CASE j < i
    <3>1. Top(memlist[j]) < memlist[i].addr
      BY <2>3, Zenon DEF IInv, Sound
    <3> QED BY <1>2, <1>5, <1>6, <2>1, <3>1
  <2>4. CASE i = j
    BY <1>6, <2>1, <2>4
  <2> QED BY <1>5, <2>2, <2>3, <2>4
<1>8. a + n <= t
  <2>1. t \in Int /\ a <= t
    BY <1>2, <1>6
  <2> QED BY <1>1, <1>2, <1>3, <1>7, <2>1
<1>9. memlist[i].len >= n
  BY <1>1, <1>2, <1>5, <1>6, <1>8
<1> QED BY <1>1, <1>9, Zenon DEF Fits

\* For clients that free only what they own, and sizes that do not wrap around in
\* the sums of memfree(): memget() and stkget() never hand out a byte twice, memfree() and
\* stkfree() lose none and never refuse the owner, memlist.length is right, and a
\* request is refused only when there are not that many free bytes in a row.
THEOREM MemoryAlwaysSound ==
  ASSUME NoWrap, Strays = {}
  PROVE  Spec => []MemorySound
<1>1. Init => IInv /\ Divided
  BY InitIInv, InitDivided, Zenon
<1>2. IInv /\ Divided /\ [Next]_vars => (IInv /\ Divided)'
  BY NextIInv, NextDivided, Zenon
<1>3. IInv /\ Divided => MemorySound
  <2> SUFFICES ASSUME IInv, Divided PROVE MemorySound
    BY Zenon
  <2>1. TotalIsSum
    BY Zenon DEF Divided, TotalIsSum, Size
  <2> QED BY <2>1, DividedPartitions, DividedFrees, DividedFits, Zenon DEF MemorySound
<1> QED BY <1>1, <1>2, <1>3, PTL DEF Spec

=============================================================================
