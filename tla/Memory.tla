------------------------------- MODULE Memory -------------------------------
(***************************************************************************)
(* The kernel's heap (src/system/memget.c, memfree.c, stkget.c): a list of *)
(* free blocks in order of address.  Every call runs with interrupts       *)
(* disabled and is one step.                                               *)
(***************************************************************************)
EXTENDS Queues

CONSTANTS
  memheap, maxaddr,   \* the heap, in bytes
  Sizes,              \* the sizes that clients ask for
  Strays,             \* addresses of frees of memory the caller does not own
  UINT,               \* 2^32 in the code
  MaxOwned            \* bound: how many regions clients hold at once

\* The rounding of nulluser(); the heap does not reach the end of memory.
ASSUME MemoryAssumption ==
  /\ memheap \in Nat /\ maxaddr \in Nat
  /\ memheap % 8 = 0 /\ maxaddr % 8 = 0
  /\ 0 < memheap /\ memheap < maxaddr
  /\ UINT \in Nat /\ UINT % 8 = 0 /\ maxaddr < UINT
  /\ Sizes \subseteq 0 .. UINT - 1
  /\ Strays \subseteq Nat

VARIABLES
  memlist,    \* the free blocks in list order
  total,      \* memlist.length
  owned       \* what clients hold: pointer, size asked for, and which call

vars == <<memlist, total, owned>>

roundmb(n) == (((n + 7) % UINT) \div 8) * 8

Block(a, n) == [addr |-> a, len |-> n]
Top(b) == b.addr + b.len

\* The top of a block as memfree() computes it.
End(b) == Top(b) % UINT

Init ==
  /\ memlist = <<Block(memheap, maxaddr - memheap)>>
  /\ total = maxaddr - memheap
  /\ owned = {}

Fits(n) == {i \in 1 .. Len(memlist) : memlist[i].len >= n}

\* memget(): the low end of the first block that is big enough.
memget(req) ==
  LET n == roundmb(req)
      i == FirstPlace(memlist, Fits(n))
      b == memlist[i]
  IN /\ req # 0 /\ Cardinality(owned) < MaxOwned
     /\ i <= Len(memlist)
     /\ memlist' = IF b.len = n THEN RemoveAt(memlist, i)
                   ELSE [memlist EXCEPT ![i] = Block(b.addr + n, b.len - n)]
     /\ total' = total - n
     /\ owned' = owned \cup {[ptr |-> b.addr, req |-> req, stk |-> FALSE]}

\* stkget(): the high end of the last block that is big enough; the pointer
\* is to the topmost word.
stkget(req) ==
  LET n == roundmb(req) IN
  \E i \in Fits(n) :
    /\ req # 0 /\ Cardinality(owned) < MaxOwned
    /\ \A j \in Fits(n) : j <= i
    /\ memlist' = IF memlist[i].len = n THEN RemoveAt(memlist, i)
                  ELSE [memlist EXCEPT ![i] = Block(@.addr, @.len - n)]
    /\ total' = total - n
    /\ owned' = owned \cup
         {[ptr |-> Top(memlist[i]) - 4, req |-> req, stk |-> TRUE]}

\* Where a block at p belongs in the list.
Place(p) == FirstPlace(memlist, {i \in 1 .. Len(memlist) : memlist[i].addr >= p})

\* The top of the block in front of p.
TopBefore(p) == IF Place(p) = 1 THEN 0 ELSE End(memlist[Place(p) - 1])

\* Mutant: does not look at the block behind.
accepts_front(p, req) ==
  req # 0 /\ p >= memheap /\ p <= maxaddr /\ TopBefore(p) <= p

\* memfree() refuses what is outside of the heap or overlaps a free block.  The sum
\* of address and size wraps around.
accepts(p, req) ==
  /\ req # 0 /\ p >= memheap /\ p <= maxaddr
  /\ TopBefore(p) <= p
  /\ Place(p) <= Len(memlist) => (p + roundmb(req)) % UINT <= memlist[Place(p)].addr

\* The list with the block, joined to the one in front of it ...
JoinPrev(p, n) ==
  IF TopBefore(p) = p THEN 
    [memlist EXCEPT ![Place(p) - 1] = Block(@.addr, @.len + n)]
  ELSE InsertAt(memlist, Place(p), Block(p, n))

\* Mutant: blocks are not joined.
JoinNext_not(q, i) == q

\* ... and the list q with its i-th block joined to the one behind it.
JoinNext(q, i) ==
  IF i < Len(q) /\ End(q[i]) = q[i + 1].addr
  THEN RemoveAt([q EXCEPT ![i] = Block(@.addr, @.len + q[i + 1].len)], i + 1)
  ELSE q

\* Mutant: counts the size that was asked for.
memfree_unrounded(p, req) ==
  LET i == IF TopBefore(p) = p THEN Place(p) - 1 ELSE Place(p) IN
  /\ accepts(p, req)
  /\ memlist' = JoinNext(JoinPrev(p, roundmb(req)), i)
  /\ total' = total + req

memfree(p, req) ==
  LET i == IF TopBefore(p) = p THEN Place(p) - 1 ELSE Place(p) IN
  /\ accepts(p, req)
  /\ memlist' = JoinNext(JoinPrev(p, roundmb(req)), i)
  /\ total' = total + roundmb(req)

\* Where the memory of o starts: stkfree() computes it from the topmost word.
Base(o) == IF o.stk THEN o.ptr - roundmb(o.req) + 4 ELSE o.ptr

\* The owner gives memory back: memfree(), or stkfree() for a stack.
Free(o) == memfree(Base(o), o.req) /\ owned' = owned \ {o}

\* A stray call of memfree(): a second free, or a wrong address or size.
StrayFree(p, req) == memfree(p, req) /\ UNCHANGED owned

Next ==
  \/ \E req \in Sizes : memget(req) \/ stkget(req)
  \/ \E o \in owned : Free(o)
  \/ \E p \in Strays, req \in Sizes : StrayFree(p, req)

Spec == Init /\ [][Next]_vars

-----------------------------------------------------------------------------

TypeOK ==
  /\ memlist \in Seq([addr : Nat, len : Nat])
  /\ total \in Int
  /\ owned \subseteq [ptr : Nat, req : Sizes, stk : BOOLEAN]

\* Nothing of the size of a request reaches around the end of the address space.
\* memfree() does not look for that: it takes such a block for one that ends below
\* the next free one, and puts it on the list.
NoWrap == \A n \in Sizes : maxaddr + n + 7 < UINT

\* The free list is in order of address, no block is empty, and no two blocks
\* overlap or even touch: adjacent blocks have been joined.  While NoWrap holds,
\* memfree() keeps it so whatever address and size it is called with.
FreeListSound ==
  /\ \A i \in 1 .. Len(memlist) : memlist[i].len > 0
  /\ \A i, j \in 1 .. Len(memlist) : i < j => Top(memlist[i]) < memlist[j].addr

\* memlist.length is the sum of the free blocks, as test_memory checks.
TotalIsSum ==
  total = SumTo([i \in 1 .. Len(memlist) |-> memlist[i].len], Len(memlist))

Bytes(a, n) == a .. a + n - 1
FreeBytes == UNION {Bytes(memlist[i].addr, memlist[i].len) :
                      i \in 1 .. Len(memlist)}
OwnedBytes(o) == Bytes(Base(o), roundmb(o.req))

\* Every byte of the heap is free or has one owner, for clients that free only
\* what they own: no memory is handed out twice and none is lost.
HeapPartitioned ==
  /\ FreeBytes \cup UNION {OwnedBytes(o) : o \in owned}
       = Bytes(memheap, maxaddr - memheap)
  /\ \A o \in owned : OwnedBytes(o) \cap FreeBytes = {}
  /\ \A o, u \in owned : o # u => OwnedBytes(o) \cap OwnedBytes(u) = {}

\* memfree() never refuses the owner of a block.
OwnerCanFree == \A o \in owned : accepts(Base(o), o.req)

\* A request is refused only if no run of free bytes is long enough, however
\* the frees were ordered that produced it.
NoFalseRefusal ==
  \A req \in Sizes \ {0} :
    Fits(roundmb(req)) = {} => \A a \in memheap .. maxaddr :
                                 ~(Bytes(a, roundmb(req)) \subseteq FreeBytes)

\* The four together, for clients that free only what they own.
MemorySound == HeapPartitioned /\ TotalIsSum /\ OwnerCanFree /\ NoFalseRefusal

=============================================================================
