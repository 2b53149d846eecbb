-------------------------------- MODULE Route --------------------------------
(***************************************************************************)
(* The route table (network/route) and the network interfaces              *)
(* (network/net) that its entries name: netUp() and netDown(), which run   *)
(* with interrupts disabled, and rtAdd(), rtDefault(), rtRemove() called by *)
(* threads, of which the first two fill an entry in with interrupts        *)
(* enabled after rtAlloc() has reserved it.                                *)
(*                                                                         *)
(* An address is the set of its one bits, a mask likewise: netaddrmask()   *)
(* is the intersection, and the length of a mask counts its bits.          *)
(***************************************************************************)
EXTENDS Naturals, FiniteSets

CONSTANTS
  Thread, RT_NENTRY,
  NNETIF, NET_NTHR, \* interfaces, and receive threads of each
  Dev,              \* devices an interface can be started on
  Bits,             \* bit positions of an address
  Masks,            \* masks that are used
  NULL

VARIABLES
  rttab,            \* 0 .. RT_NENTRY - 1 -> entry
  netiftab,         \* 0 .. NNETIF - 1 -> interface
  thr,              \* what each thread is doing, and whether the interface it adds a
                    \* route to went down meanwhile (gone)
  stale             \* entries that name an interface that went down and kept them

vars == <<rttab, netiftab, thr, stale>>

Entry == 0 .. RT_NENTRY - 1
Netif == 0 .. NNETIF - 1
Addrs == SUBSET Bits

netaddrmask(a, mask) == a \cap mask
netaddrequal(a, b) == a = b

FreeEntry == [state |-> "RT_FREE", dst |-> {}, mask |-> {}, masklen |-> 0,
              gateway |-> NULL, nif |-> NULL]
FreeNetif == [state |-> "NET_FREE", dev |-> NULL]
Idle == [pc |-> "idle", e |-> NULL, new |-> FreeEntry, gone |-> FALSE]

Init ==
  /\ rttab = [i \in Entry |-> FreeEntry]
  /\ netiftab = [n \in Netif |-> FreeNetif]
  /\ thr = [t \in Thread |-> Idle] /\ stale = {}

Used(tab, i) == tab[i].state = "RT_USED"

-----------------------------------------------------------------------------
(* The route table.                                                         *)

\* The first free entry of tab, NULL if there is none; rtAlloc() marks it RT_PEND.
rtAlloc(tab) ==
  IF \A i \in Entry : tab[i].state # "RT_FREE" THEN NULL
  ELSE CHOOSE i \in Entry : /\ tab[i].state = "RT_FREE"
                            /\ \A j \in Entry : j < i => tab[j].state # "RT_FREE"

\* The entry that rtAdd() makes, and the one of rtDefault().
Populated(dst, gate, mask, nif) ==
  [state |-> "RT_USED", dst |-> netaddrmask(dst, mask), mask |-> mask,
   masklen |-> Cardinality(mask), gateway |-> gate, nif |-> nif]

HasDefault(tab) == \E i \in Entry : Used(tab, i) /\ netaddrequal(tab[i].mask, {})

\* tab after rtAlloc() and the filling in, as netUp() does it under disable().
Added(tab, new) == IF rtAlloc(tab) = NULL THEN tab ELSE [tab EXCEPT ![rtAlloc(tab)] = new]

rtAdd(tab, dst, mask, nif) == Added(tab, Populated(dst, NULL, mask, nif))
rtDefault(tab, gate, nif) ==
  IF HasDefault(tab) THEN tab ELSE Added(tab, Populated({}, gate, {}, nif))

\* (Nobody reads the other fields of a free entry.)
Cleared(tab, S) == [i \in Entry |-> IF i \in S THEN FreeEntry ELSE tab[i]]

\* Entries that are pending are passed over.
rtClear(tab, nif) == Cleared(tab, {i \in Entry : Used(tab, i) /\ tab[i].nif = nif})

\* The longest mask wins, and the first entry among equals: the loop keeps what it has
\* unless the next match is strictly longer.
rtLookup(tab, addr) ==
  LET match(i) == Used(tab, i) /\ netaddrequal(netaddrmask(addr, tab[i].mask), tab[i].dst)
      best[i \in 0 .. RT_NENTRY] ==
        IF i = 0 THEN NULL
        ELSE LET b == best[i - 1]
             IN IF match(i - 1) /\ (b = NULL \/ tab[b].masklen < tab[i - 1].masklen)
                THEN i - 1 ELSE b
  IN best[RT_NENTRY]

-----------------------------------------------------------------------------
(* Threads.                                                                 *)

Up(n) == netiftab[n].state = "NET_ALLOC"

\* rtAdd() and rtDefault() of a thread: the scan for a default route, ...
rt_check(t) ==
  /\ thr[t].pc = "idle"
  /\ \E n \in Netif, gate \in {Bits} :
       /\ Up(n) /\ ~HasDefault(rttab)
       /\ thr' = [thr EXCEPT ![t].pc = "alloc", ![t].new = Populated({}, gate, {}, n)]
  /\ UNCHANGED <<rttab, netiftab, stale>>

rt_add(t) ==
  /\ thr[t].pc = "idle"
  /\ \E n \in Netif, dst \in Addrs, mask \in Masks :
       /\ Up(n)
       /\ thr' = [thr EXCEPT ![t].pc = "alloc", ![t].new = Populated(dst, NULL, mask, n)]
  /\ UNCHANGED <<rttab, netiftab, stale>>

\* ... rtAlloc(), ...
rt_alloc(t) ==
  /\ thr[t].pc = "alloc"
  /\ LET i == rtAlloc(rttab)
     IN \/ i = NULL /\ thr' = [thr EXCEPT ![t] = Idle] /\ UNCHANGED rttab
        \/ /\ i # NULL
           /\ rttab' = [rttab EXCEPT ![i].state = "RT_PEND"]
           /\ thr' = [thr EXCEPT ![t].pc = "populate", ![t].e = i]
  /\ UNCHANGED <<netiftab, stale>>

\* ... and the entry, whose state is written last.  Nobody looks whether the interface
\* is still up.
rt_populate(t) ==
  /\ thr[t].pc = "populate"
  /\ rttab' = [rttab EXCEPT ![thr[t].e] = thr[t].new]
  /\ thr' = [thr EXCEPT ![t] = Idle]
  /\ stale' = IF thr[t].gone THEN stale \cup {thr[t].e} ELSE stale
  /\ UNCHANGED netiftab

\* Entries of tab that are in use, of those in S.
Left(tab, S) == {i \in S : Used(tab, i)}

rtRemove ==
  /\ \E dst \in Addrs :
       rttab' = Cleared(rttab, {i \in Entry : Used(rttab, i)
                                              /\ netaddrequal(dst, rttab[i].dst)})
  /\ stale' = Left(rttab', stale)
  /\ UNCHANGED <<netiftab, thr>>

\* The interface a device is used by, NULL if none.
netLookup(dev) ==
  IF \E n \in Netif : Up(n) /\ netiftab[n].dev = dev
  THEN CHOOSE n \in Netif : Up(n) /\ netiftab[n].dev = dev ELSE NULL

\* The first free interface, NULL if none.
netAlloc ==
  IF \A n \in Netif : Up(n) THEN NULL
  ELSE CHOOSE n \in Netif : ~Up(n) /\ \A m \in Netif : m < n => Up(m)

\* A device that does not answer the control calls leaves the interface free again.
\* (Of the interface only its device and its routes are kept: no addresses, and no
\* receive threads.)
netUp(dev, ip, mask, gate) ==
  /\ netLookup(dev) = NULL /\ netAlloc # NULL
  /\ LET n == netAlloc
         connected == rtAdd(rttab, ip, mask, n)
     IN \/ UNCHANGED <<rttab, netiftab>>
        \/ /\ netiftab' = [netiftab EXCEPT ![n] = [state |-> "NET_ALLOC", dev |-> dev]]
           /\ rttab' = IF gate = NULL THEN connected ELSE rtDefault(connected, gate, n)
  /\ UNCHANGED <<thr, stale>>

\* The bzero() of netDown() uses the loop's index, NET_NTHR, which is not the
\* interface: another interface is cleared, with its routes and threads in place, or
\* memory behind the table, which is not part of the model.
Wiped == {NET_NTHR} \cap Netif

\* The interface n goes down and the table is tab.
TakenDown(n, tab) ==
  /\ rttab' = tab
  /\ netiftab' = [m \in Netif |->
       CASE m = n -> [netiftab[n] EXCEPT !.state = "NET_FREE"]
         [] m \in Wiped \ {n} -> FreeNetif
         [] OTHER -> netiftab[m]]
  /\ stale' = Left(tab, stale \cup {i \in Entry : tab[i].nif \in Wiped \ {n}})
  /\ thr' = [t \in Thread |-> [thr[t] EXCEPT !.gone =
       @ \/ (thr[t].pc # "idle" /\ thr[t].new.nif \in Wiped \cup {n})]]

\* Mutant: the routes stay.
netDown_routes(dev) ==
  /\ netLookup(dev) # NULL /\ TakenDown(netLookup(dev), rttab)

\* The routes go, apart from entries that are pending.
netDown(dev) ==
  /\ netLookup(dev) # NULL /\ TakenDown(netLookup(dev), rtClear(rttab, netLookup(dev)))

Next ==
  \/ \E t \in Thread : rt_check(t) \/ rt_add(t) \/ rt_alloc(t) \/ rt_populate(t)
  \/ rtRemove
  \/ \E dev \in Dev : \/ \E ip \in Addrs, mask \in Masks, gate \in {NULL, Bits} :
                           netUp(dev, ip, mask, gate)
                      \/ netDown(dev)

-----------------------------------------------------------------------------
(* Properties.                                                              *)

TypeOK ==
  /\ \A i \in Entry : rttab[i].state \in {"RT_FREE", "RT_PEND", "RT_USED"}
  /\ \A n \in Netif : netiftab[n].state \in {"NET_FREE", "NET_ALLOC"}
  /\ \A t \in Thread : thr[t].pc \in {"idle", "alloc", "populate"}

\* A pending entry is being filled in by exactly one thread, and no thread fills in
\* an entry that is free or in use: rtAlloc() keeps threads apart though they write
\* with interrupts enabled.
EntryReserved ==
  /\ \A i \in Entry : rttab[i].state = "RT_PEND" <=> \E t \in Thread : thr[t].e = i
  /\ \A t, u \in Thread : thr[t].e # NULL /\ thr[t].e = thr[u].e => t = u

\* rtLookup() finds a route whenever one matches, and no route that matches has a
\* longer mask, whatever the order of the entries.
LongestMatch ==
  \A addr \in Addrs :
    LET M == {i \in Entry : Used(rttab, i)
                            /\ \A b \in rttab[i].mask : b \in addr <=> b \in rttab[i].dst}
        found == rtLookup(rttab, addr)
    IN IF M = {} THEN found = NULL
       ELSE found \in M /\ \A i \in M : Cardinality(rttab[i].mask) <= rttab[found].masklen

\* A route in use names an interface that is up: netDown() leaves no route behind but
\* those of the interface that it clears by mistake and those that a thread was about
\* to fill in.
RoutesLive == \A i \in Entry \ stale : Used(rttab, i) => Up(rttab[i].nif)

\* No two interfaces use one device.
OneInterface ==
  \A m, n \in Netif : Up(m) /\ Up(n) /\ netiftab[m].dev = netiftab[n].dev => m = n

=============================================================================
