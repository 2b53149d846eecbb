------------------------------- MODULE Region -------------------------------
(***************************************************************************)
(* The user heap (src/mem), built in when UHEAP_SIZE is defined: regions   *)
(* of whole pages that belong to threads (memRegion*.c), malloc() and      *)
(* free() on the free list of the calling thread, and the page table that  *)
(* says which thread may touch a page (safe*.c, tlbMissHandler.c).  Every  *)
(* call runs with interrupts disabled or on state of the caller alone, so  *)
(* it is one step; kill() comes at any time.                               *)
(*                                                                         *)
(* Addresses are physical ones (masked with PMEM_MASK), in bytes.  A list  *)
(* of regions is a sequence: struct memregion k of regtab, linked by prev  *)
(* and next, stands for the page it is named after, that of its start.     *)
(***************************************************************************)
EXTENDS Integers, Sequences, FiniteSets

CONSTANTS
  Thread,               \* numbers from 1; 0 is the null thread
  PAGE_SIZE,
  UINT,                 \* sizes are taken modulo UINT (2^32)
  start_, end_, memheap,   \* _start, &_end and memheap of the kernel
  table,                \* where the page table is
  userheap, UHEAP_SIZE, maxaddr,
  Sizes,                \* what may be asked for
  Transfers,            \* whether a region may be handed over, once
  MaxOwned              \* bound: blocks a thread has at a time

VARIABLES
  regfreelist,          \* [start, length], in the order of addresses
  regalloclist,         \* [start, length, tid]
  pgtbl,                \* asid of each page, Nobody when it is not mapped
  memlist,              \* free list of each thread
  total,                \* its memlist.length
  owned,                \* ghost: blocks a thread has, with the size it asked for
  alive,
  log                   \* ghost: see Init

vars == <<regfreelist, regalloclist, pgtbl, memlist, total, owned, alive, log>>

Nobody == -1
MB == 8                 \* sizeof(struct memblock)

truncpage(x) == x - (x % PAGE_SIZE)
roundpage(x) == truncpage((PAGE_SIZE - 1 + x) % UINT)
roundmb(x) == LET y == (7 + x) % UINT IN y - (y % MB)

End(b) == b.start + b.length
Block(a, n) == [start |-> a, length |-> n]

-----------------------------------------------------------------------------
(* The page table *)

\* safeInit(): entries of the page table.  (memget() is asked for whole pages of them,
\* rounded down.)
nents == roundpage(maxaddr) \div PAGE_SIZE

Pages(a, n) ==
  (truncpage(a) \div PAGE_SIZE) .. (truncpage(a) + roundpage(n)) \div PAGE_SIZE - 1

Touched(b) == b.start \div PAGE_SIZE .. (End(b) - 1) \div PAGE_SIZE

\* Whether safeMap() and safeUnmap() do something for page p.
safeMap_ok(tab, p) == tab[p] = Nobody
safeUnmap_ok(tab, p) == tab[p] # Nobody

\* Pages of a range, up to the first that is already mapped (not mapped).
safeMapRange(tab, a, n, tid) ==
  [p \in DOMAIN tab |->
     IF p \in Pages(a, n) /\ \A q \in Pages(a, n) : q <= p => safeMap_ok(tab, q)
     THEN tid ELSE tab[p]]
safeUnmapRange(tab, a, n) ==
  [p \in DOMAIN tab |->
     IF p \in Pages(a, n) /\ \A q \in Pages(a, n) : q <= p => safeUnmap_ok(tab, q)
     THEN Nobody ELSE tab[p]]

\* Where a range starts in the last page of the one before, nothing of it is mapped.
safeKmapInit(tab) ==
  LET t1 == safeMapRange(tab, 0, PAGE_SIZE, 0)
      t2 == safeMapRange(t1, start_, end_ - start_, 0)
      t3 == safeMapRange(t2, end_, memheap - end_, 0)
      t4 == safeMapRange(t3, memheap, memheap - end_, 0)
  IN safeMapRange(safeUnmapRange(t4, table, nents * 8), table, nents * 8, 0)

-----------------------------------------------------------------------------
(* Regions *)

\* The size is rounded before the start is: with a start inside a page, the region
\* reaches beyond the heap.
HeapStart == roundpage(userheap)
HeapSize == truncpage(userheap + UHEAP_SIZE) - userheap
max_regions == HeapSize \div PAGE_SIZE

memRegionDiscover(a) == (truncpage(a) - HeapStart) \div PAGE_SIZE

Before(list, a) == Cardinality({i \in DOMAIN list : list[i].start < a})
Put(list, i, r) == SubSeq(list, 1, i) \o <<r>> \o SubSeq(list, i + 1, Len(list))
memRegionRemove(list, i) == SubSeq(list, 1, i - 1) \o SubSeq(list, i + 1, Len(list))

\* Joins the i-th with the one behind it when they touch.
Join(list, i) ==
  IF i \in 1 .. Len(list) - 1 /\ End(list[i]) = list[i + 1].start
  THEN memRegionRemove([list EXCEPT ![i].length = @ + list[i + 1].length], i + 1)
  ELSE list

\* The one behind first, then the one before.
memRegionCoalesce(list, i) == Join(Join(list, i), i - 1)

memRegionInsert(list, r) ==
  LET i == Before(list, r.start) IN memRegionCoalesce(Put(list, i, r), i + 1)
InsertAlloc(list, r) == Put(list, Before(list, r.start), r)

\* memRegionAlloc() takes the first region that is longer; one of the very length is
\* passed over.
memRegionAlloc(nbytes) == {i \in DOMAIN regfreelist : regfreelist[i].length > nbytes}
memRegionSplit(r, nbytes) == Block(r.start + nbytes, r.length - nbytes)
memRegionValid(a) == {i \in DOMAIN regalloclist : regalloclist[i].start = truncpage(a)}
First(is) == CHOOSE i \in is : \A j \in is : i <= j

-----------------------------------------------------------------------------
(* Free lists of threads *)

\* malloc(): what is left of the list when nbytes are cut off its i-th block.
Cut(list, i, nbytes) ==
  IF list[i].length = nbytes THEN memRegionRemove(list, i)
  ELSE [list EXCEPT ![i] = Block(@.start + nbytes, @.length - nbytes)]

\* free(): a block that overlaps with what is free already is refused.
Refused(list, b) ==
  LET i == Before(list, b.start) IN
  \/ i > 0 /\ End(list[i]) > b.start
  \/ i < Len(list) /\ End(b) > list[i + 1].start
Freed(list, b) ==
  IF Refused(list, b) THEN list
  ELSE LET i == Before(list, b.start) IN memRegionCoalesce(Put(list, i, b), i + 1)

Sum(list) ==
  LET sum[i \in 0 .. Len(list)] == IF i = 0 THEN 0 ELSE sum[i - 1] + list[i].length
  IN sum[Len(list)]

-----------------------------------------------------------------------------

NoBlock == Block(0, 0)

Init ==
  /\ regfreelist = <<Block(HeapStart, HeapSize)>>
  /\ regalloclist = <<>>
  /\ pgtbl = safeKmapInit([p \in 0 .. nents |-> Nobody])
  /\ memlist = [t \in Thread |-> <<>>]
  /\ total = [t \in Thread |-> 0]
  /\ owned = [t \in Thread |-> {}]
  /\ alive = Thread
  /\ log = [freed |-> {},          \* threads that have called free()
            moved |-> FALSE,       \* a region was transferred
            faults |-> {},         \* threads killed for touching what they own
            slot |-> 0,            \* highest struct memregion used
            again |-> [t \in Thread |-> NoBlock],  \* freed, and still looks allocated
            twice |-> FALSE]       \* a second free() changed a list

Own(t, a, nbytes, n) ==
  owned' = [owned EXCEPT ![t] = @ \union {[b |-> Block(a, nbytes), asked |-> n]}]
Forget(t) == [log EXCEPT !.again[t] = NoBlock]

\* malloc() from the free list of the thread.  The page table is left as it is.
malloc(t, n) ==
  LET nbytes == (roundmb(n) + MB) % UINT
      fit == {i \in DOMAIN memlist[t] : memlist[t][i].length >= nbytes}
  IN /\ t \in alive /\ n # 0 /\ Cardinality(owned[t]) < MaxOwned /\ fit # {}
     /\ memlist' = [memlist EXCEPT ![t] = Cut(@, First(fit), nbytes)]
     /\ total' = [total EXCEPT ![t] = @ - nbytes]
     /\ Own(t, memlist[t][First(fit)].start, nbytes, n)
     /\ log' = Forget(t)
     /\ UNCHANGED <<regfreelist, regalloclist, pgtbl, alive>>

\* malloc() with a new region: memRegionAlloc() and memRegionSplit(), free() of what
\* is too much (which unmaps its page), and then the pages are mapped.
malloc_region(t, n) ==
  LET nbytes == (roundmb(n) + MB) % UINT
      size == roundpage(nbytes)
      first == First(memRegionAlloc(size))
      old == regfreelist[first]
      more == Block(old.start + nbytes, size - nbytes)
  IN /\ t \in alive /\ n # 0 /\ Cardinality(owned[t]) < MaxOwned
     /\ \A i \in DOMAIN memlist[t] : memlist[t][i].length < nbytes
     /\ memRegionAlloc(size) # {}
     /\ regfreelist' = memRegionInsert(memRegionRemove(regfreelist, first),
                                       memRegionSplit(old, size))
     /\ regalloclist' =
          InsertAlloc(regalloclist, [start |-> old.start, length |-> size, tid |-> t])
     /\ IF more.length > 0
        THEN /\ memlist' = [memlist EXCEPT ![t] = Freed(@, more)]
             /\ total' = [total EXCEPT ![t] = IF Refused(memlist[t], more) THEN @
                                              ELSE @ + more.length]
        ELSE UNCHANGED <<memlist, total>>
     /\ pgtbl' = safeMapRange(IF more.length > 0
                              THEN safeUnmapRange(pgtbl, more.start, more.length)
                              ELSE pgtbl, old.start, nbytes, t)
     /\ Own(t, old.start, nbytes, n)
     /\ log' = [Forget(t) EXCEPT !.slot = IF memRegionDiscover(old.start + size) > @
                                          THEN memRegionDiscover(old.start + size) ELSE @]
     /\ UNCHANGED alive

\* free() of a block that malloc() gave this thread.  The header of a block that is
\* joined with the one before it is not written.
free(t, o) ==
  LET list == memlist[t]
      joined == Before(list, o.b.start) > 0 /\ End(list[Before(list, o.b.start)]) = o.b.start
  IN /\ t \in alive /\ o \in owned[t]
     /\ pgtbl' = safeUnmapRange(pgtbl, o.b.start, o.b.length)
     /\ memlist' = [memlist EXCEPT ![t] = Freed(@, o.b)]
     /\ total' = [total EXCEPT ![t] = IF Refused(list, o.b) THEN @ ELSE @ + o.b.length]
     /\ owned' = [owned EXCEPT ![t] = @ \ {o}]
     /\ log' = [log EXCEPT !.freed = @ \union {t},
                           !.again[t] = IF joined THEN o.b ELSE NoBlock]
     /\ UNCHANGED <<regfreelist, regalloclist, alive>>

\* free() once more of such a block, before the thread calls malloc() again.
free_again(t) ==
  LET b == log.again[t] IN
  /\ t \in alive /\ b # NoBlock
  /\ pgtbl' = safeUnmapRange(pgtbl, b.start, b.length)
  /\ memlist' = [memlist EXCEPT ![t] = Freed(@, b)]
  /\ total' = [total EXCEPT ![t] = IF Refused(memlist[t], b) THEN @ ELSE @ + b.length]
  /\ log' = [Forget(t) EXCEPT !.twice = @ \/ ~Refused(memlist[t], b)]
  /\ UNCHANGED <<regfreelist, regalloclist, owned, alive>>

\* memRegionReclaim(): the regions of a thread, one after the other.
memRegionReclaim(t) ==
  LET loop[i \in 0 .. Len(regalloclist)] ==
        IF i = 0 THEN [free |-> regfreelist, tab |-> pgtbl]
        ELSE LET r == regalloclist[i] IN
             IF r.tid # t THEN loop[i - 1]
             ELSE [free |-> memRegionInsert(loop[i - 1].free, Block(r.start, r.length)),
                   tab |-> safeUnmapRange(loop[i - 1].tab, r.start, r.length)]
      over == loop[Len(regalloclist)]
  IN /\ regfreelist' = over.free /\ pgtbl' = over.tab
     /\ regalloclist' = SelectSeq(regalloclist, LAMBDA r : r.tid # t)

kill(t) ==
  /\ t \in alive
  /\ memRegionReclaim(t)
  /\ alive' = alive \ {t}
  /\ owned' = [owned EXCEPT ![t] = {}]
  /\ log' = [Forget(t) EXCEPT !.freed = @ \ {t}]
  /\ UNCHANGED <<memlist, total>>

\* tlbMissHandler() kills a thread that touches a page which is not mapped to it;
\* here, one of its own.
tlbMissHandler(t) ==
  /\ t \in alive
  /\ \E o \in owned[t] : \E p \in Touched(o.b) : pgtbl[p] # t
  /\ memRegionReclaim(t)
  /\ alive' = alive \ {t}
  /\ owned' = [owned EXCEPT ![t] = {}]
  /\ log' = [Forget(t) EXCEPT !.freed = @ \ {t},
                              !.faults = @ \union IF t \in log.freed THEN {} ELSE {t}]
  /\ UNCHANGED <<memlist, total>>

\* create() gives the identifier to another thread.
create(t) ==
  /\ t \notin alive
  /\ alive' = alive \union {t}
  /\ memlist' = [memlist EXCEPT ![t] = <<>>]
  /\ total' = [total EXCEPT ![t] = 0]
  /\ UNCHANGED <<regfreelist, regalloclist, pgtbl, owned, log>>

\* memRegionTransfer(): the blocks in the region are the other thread's from now on;
\* page table and free lists do not know.
memRegionTransfer(t, u) ==
  /\ Transfers /\ ~log.moved /\ {t, u} \subseteq alive /\ t # u
  /\ \E o \in owned[t] : \E i \in memRegionValid(o.b.start) :
       LET r == regalloclist[i]
           inside == {p \in owned[t] : p.b.start >= r.start /\ End(p.b) <= End(r)}
       IN /\ r.tid = t
          /\ regalloclist' = [regalloclist EXCEPT ![i].tid = u]
          /\ owned' = [owned EXCEPT ![t] = @ \ inside, ![u] = @ \union inside]
  /\ log' = [log EXCEPT !.moved = TRUE]
  /\ UNCHANGED <<regfreelist, pgtbl, memlist, total, alive>>

Next ==
  \/ \E t \in Thread, n \in Sizes : malloc(t, n) \/ malloc_region(t, n)
  \/ \E t \in Thread : \E o \in owned[t] : free(t, o)
  \/ \E t \in Thread : free_again(t) \/ kill(t) \/ tlbMissHandler(t) \/ create(t)
  \/ \E t, u \in Thread : memRegionTransfer(t, u)

-----------------------------------------------------------------------------

TypeOK ==
  /\ \A i \in DOMAIN regfreelist : regfreelist[i].length \in 0 .. HeapSize
  /\ \A i \in DOMAIN regalloclist : regalloclist[i].tid \in Thread
  /\ \A p \in DOMAIN pgtbl : pgtbl[p] \in Thread \union {0, Nobody}
  /\ \A t \in Thread : total[t] \in Nat /\ \A o \in owned[t] : o.asked \in Sizes

Range(list) == {list[i] : i \in DOMAIN list}
Regions == Range(regfreelist)
           \union {Block(r.start, r.length) : r \in Range(regalloclist)}
Apart(a, b) == End(a) <= b.start \/ End(b) <= a.start

\* The regions cover the heap without gap or overlap, whoever allocates and dies;
\* free neighbours are joined, so a request is refused only if no run of free pages
\* is longer.
RegionsCover ==
  /\ \A a, b \in Regions : a # b => Apart(a, b)
  /\ Sum(regfreelist) + Sum(regalloclist) = HeapSize
  /\ \A i \in 1 .. Len(regfreelist) - 1 : End(regfreelist[i]) < regfreelist[i + 1].start
  /\ alive = {} => regfreelist = <<Block(HeapStart, HeapSize)>>

\* Blocks that threads have, and blocks of their free lists, never overlap, lie in
\* regions of that thread, and memlist.length is what is free -- as long as no
\* region is transferred.
BlocksApart ==
  ~log.moved =>
    LET Has(t) == {o.b : o \in owned[t]} \union Range(memlist[t]) IN
    \A t \in alive :
      /\ \A a, b \in Has(t) : a # b => Apart(a, b)
      /\ \A a \in Has(t) : \A p \in Touched(a) :
           \E r \in Range(regalloclist) : r.tid = t /\ p \in Touched(r)
      /\ total[t] = Sum(memlist[t])

\* A thread that has not called free() can touch all it has: malloc() mapped it.
\* (free() unmaps whole pages, also those that hold other blocks, and malloc() from
\* the free list maps nothing.)
TouchesItsOwn ==
  ~log.moved =>
    /\ log.faults = {}
    /\ \A t \in alive \ log.freed : \A o \in owned[t] :
         \A p \in Touched(o.b) : pgtbl[p] = t

\* No page stays mapped for a thread that does not have the region, so that memory
\* of the dead is out of reach of whoever gets their identifier.
NoStaleMapping ==
  ~log.moved =>
    \A p \in DOMAIN pgtbl :
      pgtbl[p] > 0 =>
        \E r \in Range(regalloclist) : r.tid = pgtbl[p] /\ p \in Touched(r)

\* What malloc() gives has room for what was asked for, except for sizes that wrap
\* when they are rounded.
LargeEnough ==
  \A t \in Thread : \A o \in owned[t] : o.b.length >= o.asked + MB \/ o.asked + 7 >= UINT

\* free() of a block that is free already changes no list.
SecondFreeHarmless == ~log.twice

\* The region table has a struct for every region, provided the heap starts at a
\* page; if not, the rest behind the last page gets one beyond the table.
RegionsInTable == userheap % PAGE_SIZE = 0 => log.slot < max_regions

\* Pages that are given to threads lie in the heap, wherever it starts.
GivenInHeap ==
  \A r \in Range(regalloclist) : r.start >= userheap /\ End(r) <= userheap + UHEAP_SIZE
=============================================================================
