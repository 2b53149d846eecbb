------------------------------- MODULE BufPool -------------------------------
(***************************************************************************)
(* Buffer pools (src/system/bfpalloc.c, bfpfree.c, bufget.c, buffree.c).   *)
(* A pool is a run of heap cells, one per buffer, with a list of the free  *)
(* ones that is linked through the buffers and a semaphore that counts     *)
(* them.  A step is a section that the code runs with interrupts disabled  *)
(* or a piece between two such sections.                                   *)
(***************************************************************************)
EXTENDS SemaphoreCalls

CONSTANTS
  NPOOL,
  Cells,            \* number of heap cells
  Nbufs, Bufsizes,  \* arguments of bfpalloc()
  POOL_MAX_BUFSIZE, POOL_MIN_BUFSIZE, POOL_MAX_NBUFS,
  UINT,             \* 2^32 in the code
  SYSERR,           \* as a pointer
  FreeInUse,        \* TRUE: pools are freed while others use them
  HeapShort         \* TRUE: memget() may fail

VARIABLES
  state, bufsize, nbuf, head, next, freebuf,  \* columns of bfptab
  link, poolid,     \* next and poolid of the buffer in a cell
  heap,             \* the cells that memget() can hand out
  held,             \* buffers that clients own
  asked,            \* size that was asked for, per pool
  pc, pool, buf     \* per thread: next step, pool id, bufptr

bfptab == <<state, bufsize, nbuf, head, next, freebuf, asked>>
memory == <<link, poolid, heap>>
vars == <<semvars, bfptab, memory, held, pc, pool, buf>>

Pool == 0 .. NPOOL - 1
Cell == 1 .. Cells
\* What a pointer to a buffer can be; the last buffer of a pool points behind it.
Pointer == 1 .. Cells + 1 \cup {SYSERR}

AllocSteps == {"alloc_build", "alloc_signal"}
UseSteps == {"get_wait", "get_take", "get_mark", "free_link", "free_signal"}

isbadpool(p) == p \notin Pool \/ state[p] = "BFPFREE"

roundword(b) == (((b + 3) % UINT) \div 4) * 4

\* The buffers of pool p.
Buffers(p) == IF head[p] = SYSERR THEN {} ELSE head[p] .. head[p] + nbuf[p] - 1

Using(p, steps) == \E t \in Thread : pc[t] \in steps /\ pool[t] = p

\* Pools whose id bfpalloc() has returned.
Known(p) == ~isbadpool(p) /\ freebuf[p] # BADSEM /\ ~Using(p, AllocSteps)

Call(t, step, p, b) ==
  /\ pc' = [pc EXCEPT ![t] = step]
  /\ pool' = [pool EXCEPT ![t] = p]
  /\ buf' = [buf EXCEPT ![t] = b]

Go(t, step) == Call(t, step, pool[t], buf[t])

Return(t) == Call(t, "idle", 0, SYSERR)

At(t, step) == pc[t] = step /\ ~Blocked(t)

Init ==
  /\ live = [s \in Sem |-> FALSE] /\ value = [s \in Sem |-> 0]
  /\ waiting = [s \in Sem |-> <<>>]
  /\ state = [p \in Pool |-> "BFPFREE"]
  /\ bufsize = [p \in Pool |-> 0] /\ nbuf = [p \in Pool |-> 0]
  /\ head = [p \in Pool |-> SYSERR] /\ next = [p \in Pool |-> SYSERR]
  /\ freebuf = [p \in Pool |-> BADSEM] /\ asked = [p \in Pool |-> 0]
  /\ link = [c \in Cell |-> SYSERR] /\ poolid = [c \in Cell |-> 0]
  /\ heap = Cell /\ held = {}
  /\ pc = [t \in Thread |-> "idle"]
  /\ pool = [t \in Thread |-> 0] /\ buf = [t \in Thread |-> SYSERR]

-----------------------------------------------------------------------------
(* bfpalloc() *)

\* Tests of the arguments and the section that takes a table entry.  The
\* entry stays taken when there is no semaphore for it.
bfpalloc(t) ==
  \E n \in Nbufs, size \in Bufsizes :
  LET total == (roundword(size) + 8) % UINT
      open == {p \in Pool : state[p] = "BFPFREE"}
      id == CHOOSE p \in open : \A q \in open : p <= q
  IN /\ pc[t] = "idle"
     /\ total <= POOL_MAX_BUFSIZE /\ total >= POOL_MIN_BUFSIZE
     /\ n <= POOL_MAX_NBUFS /\ n >= 1
     /\ open # {}
     /\ state' = [state EXCEPT ![id] = "BFPUSED"]
     /\ \E s \in Sem \cup {BADSEM} :
          /\ semcreate(s, 0)
          /\ freebuf' = [freebuf EXCEPT ![id] = s]
          /\ \/ /\ s = BADSEM
                /\ UNCHANGED <<pc, pool, buf, bufsize, nbuf, asked>>
             \/ /\ s # BADSEM
                /\ Call(t, "alloc_build", id, SYSERR)
                /\ nbuf' = [nbuf EXCEPT ![id] = n]
                /\ bufsize' = [bufsize EXCEPT ![id] = total]
                /\ asked' = [asked EXCEPT ![id] = size]
     /\ UNCHANGED <<head, next, memory, held>>

\* The links of n buffers from a on.
Chained(a, n) ==
  [c \in Cell |-> IF c \in a .. a + n - 1 THEN c + 1 ELSE link[c]]

\* memget() and the loop.  The result of memget() is not tested; what the loop
\* then writes is outside the heap.
alloc_build(t) ==
  /\ At(t, "alloc_build")
  /\ LET p == pool[t] IN
     \/ \E a \in Cell :
          /\ a .. a + nbuf[p] - 1 \subseteq heap
          /\ heap' = heap \ (a .. a + nbuf[p] - 1)
          /\ head' = [head EXCEPT ![p] = a]
          /\ next' = [next EXCEPT ![p] = a]
          /\ link' = Chained(a, nbuf[p])
          /\ poolid' = [c \in Cell |->
               IF c \in a .. a + nbuf[p] - 1 THEN p ELSE poolid[c]]
     \/ /\ HeapShort
        /\ head' = [head EXCEPT ![p] = SYSERR]
        /\ next' = [next EXCEPT ![p] = SYSERR]
        /\ UNCHANGED memory
  /\ Go(t, "alloc_signal")
  /\ UNCHANGED <<semvars, state, bufsize, nbuf, freebuf, asked, held>>

alloc_signal(t) ==
  /\ At(t, "alloc_signal")
  /\ signaln(freebuf[pool[t]], nbuf[pool[t]])
  /\ Return(t)
  /\ UNCHANGED <<bfptab, memory, held>>

-----------------------------------------------------------------------------
(* bufget() *)

bufget(t) ==
  \E p \in Pool :
    /\ pc[t] = "idle" /\ Known(p)
    /\ FreeInUse \/ ~Using(p, {"pool_free"})
    /\ Call(t, "get_wait", p, SYSERR)
    /\ UNCHANGED <<semvars, bfptab, memory, held>>

\* Where the pointer b leads.
Follow(b) == IF b \in Cell THEN link[b] ELSE SYSERR

Take(t) ==
  /\ Call(t, "get_mark", pool[t], next[pool[t]])
  /\ next' = [next EXCEPT ![pool[t]] = Follow(next[pool[t]])]
  /\ UNCHANGED <<state, bufsize, nbuf, head, freebuf, asked, memory, held>>

\* A thread that does not have to wait takes the buffer in the same section.
get_wait(t) ==
  LET s == freebuf[pool[t]] IN
  /\ At(t, "get_wait")
  /\ wait(t, s)
  /\ IF isbadsem(s) \/ value[s] > 0 THEN Take(t)
     ELSE Go(t, "get_take") /\ UNCHANGED <<bfptab, memory, held>>

get_take(t) == At(t, "get_take") /\ Take(t) /\ UNCHANGED semvars

\* The buffer points to itself while a client has it.
get_mark(t) ==
  /\ At(t, "get_mark")
  /\ link' = [c \in Cell |-> IF c = buf[t] THEN c ELSE link[c]]
  /\ held' = held \cup {buf[t]}
  /\ Return(t)
  /\ UNCHANGED <<semvars, bfptab, poolid, heap>>

-----------------------------------------------------------------------------
(* buffree(): of a buffer that a client owns.                              *)

accepts(b) == b \in Cell /\ ~isbadpool(poolid[b]) /\ link[b] = b

buffree(t) ==
  \E b \in held :
    /\ pc[t] = "idle" /\ accepts(b)
    /\ Call(t, "free_link", poolid[b], b)
    /\ held' = held \ {b}
    /\ UNCHANGED <<semvars, bfptab, memory>>

\* Mutant: loses the rest of the list.
free_link_alone(t) ==
  /\ At(t, "free_link")
  /\ link' = [link EXCEPT ![buf[t]] = Cells + 1]
  /\ next' = [next EXCEPT ![pool[t]] = buf[t]]
  /\ Go(t, "free_signal")
  /\ UNCHANGED <<semvars, state, bufsize, nbuf, head, freebuf, asked, poolid,
                 heap, held>>

free_link(t) ==
  /\ At(t, "free_link")
  /\ link' = [link EXCEPT ![buf[t]] = next[pool[t]]]
  /\ next' = [next EXCEPT ![pool[t]] = buf[t]]
  /\ Go(t, "free_signal")
  /\ UNCHANGED <<semvars, state, bufsize, nbuf, head, freebuf, asked, poolid,
                 heap, held>>

free_signal(t) ==
  /\ At(t, "free_signal")
  /\ signaln(freebuf[pool[t]], 1)
  /\ Return(t)
  /\ UNCHANGED <<bfptab, memory, held>>

-----------------------------------------------------------------------------
(* bfpfree() *)

bfpfree(t) ==
  \E p \in Pool :
    /\ pc[t] = "idle" /\ Known(p)
    /\ FreeInUse \/ (~Using(p, UseSteps \cup {"pool_free"})
                     /\ Buffers(p) \cap held = {})
    /\ Call(t, "pool_free", p, SYSERR)
    /\ UNCHANGED <<semvars, bfptab, memory, held>>

\* memfree() refuses memory that is free already or not in the heap; then the
\* semaphore is kept.
pool_free(t) ==
  LET p == pool[t] IN
  /\ At(t, "pool_free")
  /\ state' = [state EXCEPT ![p] = "BFPFREE"]
  /\ \/ /\ head[p] # SYSERR /\ Buffers(p) \cap heap = {}
        /\ heap' = heap \cup Buffers(p)
        /\ semfree(freebuf[p])
     \/ /\ head[p] = SYSERR \/ Buffers(p) \cap heap # {}
        /\ UNCHANGED <<heap, semvars>>
  /\ Return(t)
  /\ UNCHANGED <<bufsize, nbuf, head, next, freebuf, asked, link, poolid, held>>

\* A thread that waits for a buffer is killed.
kill(t) ==
  /\ pc[t] = "get_take" /\ Blocked(t)
  /\ KillWaiting(t)
  /\ Return(t)
  /\ UNCHANGED <<bfptab, memory, held>>

-----------------------------------------------------------------------------

Continue(t) ==
  \/ alloc_build(t) \/ alloc_signal(t)
  \/ get_wait(t) \/ get_take(t) \/ get_mark(t)
  \/ free_link(t) \/ free_signal(t) \/ pool_free(t)

Next ==
  \E t \in Thread :
    \/ bfpalloc(t) \/ bufget(t) \/ buffree(t) \/ bfpfree(t)
    \/ Continue(t) \/ kill(t)

Spec == Init /\ [][Next]_vars

\* Threads of one priority share the processor (Kernel's RoundRobin).
FairSpec == Spec /\ \A t \in Thread : WF_vars(Continue(t))

-----------------------------------------------------------------------------

TypeOK ==
  /\ live \in [Sem -> BOOLEAN] /\ value \in [Sem -> Nat]
  /\ waiting \in [Sem -> Seq(Thread)]
  /\ state \in [Pool -> {"BFPFREE", "BFPUSED"}]
  /\ bufsize \in [Pool -> Nat] /\ nbuf \in [Pool -> Nat]
  /\ asked \in [Pool -> Nat]
  /\ head \in [Pool -> Pointer] /\ next \in [Pool -> Pointer]
  /\ freebuf \in [Pool -> Sem \cup {BADSEM}]
  /\ link \in [Cell -> Pointer] /\ poolid \in [Cell -> Pool]
  /\ heap \subseteq Cell /\ held \subseteq Cell
  /\ pc \in [Thread -> {"idle", "pool_free"} \cup AllocSteps \cup UseSteps]
  /\ pool \in [Thread -> Pool] /\ buf \in [Thread -> Pointer]

\* Pools that clients may use.
Open(p) == Known(p) /\ ~Using(p, {"pool_free"})

\* Buffers of p that a client has, is being given or is giving back.
Out(p) ==
  (Buffers(p) \cap held) \cup
  {buf[t] : t \in {u \in Thread : pool[u] = p /\ pc[u] \in {"get_mark", "free_link"}}}

\* The first n buffers of p's free list.
FreeList(p, n) ==
  LET at[i \in Nat] == IF i = 1 THEN next[p] ELSE Follow(at[i - 1])
  IN {at[i] : i \in 1 .. n}

Free(p) == nbuf[p] - Cardinality(Out(p))

\* Every buffer of an open pool is on the free list once or with one client:
\* bufget() never hands out a buffer that somebody has, or something that is
\* no buffer, and buffree() loses none, in every interleaving of them.
BuffersPartitioned ==
  \A p \in Pool : Open(p) =>
    /\ Out(p) \subseteq Buffers(p)
    /\ FreeList(p, Free(p)) = Buffers(p) \ Out(p)

\* The semaphore counts the free list: what it offers, has already granted to
\* a thread that has not run yet, or will be told of by a thread in buffree().
CountsFree ==
  \A p \in Pool : Open(p) =>
    Free(p) = value[freebuf[p]]
      + Cardinality({t \in Thread : At(t, "get_take") /\ pool[t] = p})
      + Cardinality({t \in Thread : pc[t] = "free_signal" /\ pool[t] = p})

\* The memory of a pool belongs to it alone and is not free.
PoolsApart ==
  \A p \in Pool : Open(p) =>
    /\ Buffers(p) \cap heap = {}
    /\ \A q \in Pool \ {p} : Open(q) => Buffers(p) \cap Buffers(q) = {}

\* buffree() refuses a buffer that is on the free list or on its way out, so a
\* client that returns a buffer a second time does no harm.
SecondFreeRefused ==
  \A p \in Pool : Open(p) =>
    \A b \in Buffers(p) :
      (b \notin held /\ ~\E t \in Thread : pc[t] = "free_link" /\ buf[t] = b)
        => ~accepts(b)

\* A thread waits for a buffer of a pool that has one.
StuckGetter(t) ==
  \E p \in Pool : Open(p) /\ Free(p) > 0 /\ Waits(t, freebuf[p])

=============================================================================
