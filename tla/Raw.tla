--------------------------------- MODULE Raw ---------------------------------
(***************************************************************************)
(* Raw sockets (src/device/raw).  rawRecv() runs in the receive threads of *)
(* the network interfaces, with interrupts enabled: they are preempted     *)
(* between any two accesses to the socket, but only by one another, since  *)
(* the other threads have a lower priority.  The other calls keep          *)
(* interrupts disabled and let go of the processor in wait().              *)
(***************************************************************************)
EXTENDS SemaphoreCalls

CONSTANTS
  NRAW, RAW_IBLEN,
  Receivers,        \* receive threads; the other threads are clients
  NULL,
  Pkts,             \* packet buffers with the packets they carry: records
                    \* id, src, dst, proto
  Protos, LocalIps, RemoteIps,   \* arguments of rawOpen()
  Flags             \* flags that clients set and clear

VARIABLES
  rawtab,
  free,             \* packet buffers that are free
  thr               \* per thread: next step, socket, packet, index or count

vars == <<semvars, rawtab, free, thr>>

Dev == 0 .. NRAW - 1
Slot == 0 .. RAW_IBLEN - 1
Clients == Thread \ Receivers

Cleared ==
  [state |-> "RAW_FREE", proto |-> 0, localip |-> NULL, remoteip |-> NULL,
   in |-> [i \in Slot |-> NULL], icount |-> 0, istart |-> 0, isema |-> BADSEM,
   flags |-> {}]

Idle == [pc |-> "idle", dev |-> 0, pkt |-> NULL, n |-> 0]

Init ==
  /\ rawtab = [d \in Dev |-> Cleared] /\ free = Pkts
  /\ thr = [t \in Thread |-> Idle]
  /\ live = [s \in Sem |-> FALSE] /\ value = [s \in Sem |-> 0]
  /\ waiting = [s \in Sem |-> <<>>]

At(t, step) == thr[t].pc = step /\ ~Blocked(t)

Goto(t, step, d, p, n) ==
  thr' = [thr EXCEPT ![t] = [pc |-> step, dev |-> d, pkt |-> p, n |-> n]]

Return(t) == thr' = [thr EXCEPT ![t] = Idle]

\* Clients run when no receive thread does.
MayRun(t) == t \in Receivers \/ \A r \in Receivers : thr[r].pc = "idle"

-----------------------------------------------------------------------------

\* Without a semaphore the call fails and the socket stays allocated.
rawOpen(d, localip, remoteip, proto) ==
  /\ rawtab[d].state = "RAW_FREE"
  /\ \E s \in Sem \cup {BADSEM} :
       /\ semcreate(s, 0)
       /\ rawtab' = [rawtab EXCEPT ![d] =
            [@ EXCEPT !.state = "RAW_ALLOC", !.proto = proto, !.localip = localip,
                      !.remoteip = remoteip, !.istart = 0, !.icount = 0, !.isema = s,
                      !.flags = IF s = BADSEM THEN @ ELSE {}]]
  /\ UNCHANGED <<free, thr>>

Queued(u) == [i \in 1 .. u.icount |-> u.in[(u.istart + i - 1) % RAW_IBLEN]]
QueuedSet(u) == {Queued(u)[i] : i \in 1 .. u.icount}

\* Closed when no client is in a call on the socket.
rawClose(d) ==
  /\ rawtab[d].state = "RAW_ALLOC" /\ ~isbadsem(rawtab[d].isema)
  /\ \A t \in Clients : thr[t].pc # "idle" => thr[t].dev # d
  /\ semfree(rawtab[d].isema)
  /\ free' = free \cup QueuedSet(rawtab[d])
  /\ rawtab' = [rawtab EXCEPT ![d] = Cleared]
  /\ UNCHANGED thr

rawControl(d) ==
  /\ rawtab[d].state = "RAW_ALLOC"
  /\ \E f \in Flags :
       \/ rawtab' = [rawtab EXCEPT ![d].flags = @ \ {f}]
       \/ rawtab' = [rawtab EXCEPT ![d].flags = @ \cup {f}]
  /\ UNCHANGED <<semvars, free, thr>>

-----------------------------------------------------------------------------
(* rawRecv() *)

\* The patterns of rawDemux(), best first.
Fits(d, p, l) ==
  LET u == rawtab[d] IN
  /\ u.state = "RAW_ALLOC"
  /\ u.proto = IF l = 1 THEN 0 ELSE p.proto
  /\ CASE l = 4 -> u.remoteip = p.src /\ u.localip = p.dst
       [] l = 3 -> \/ u.remoteip = p.src /\ u.localip = NULL
                   \/ u.localip = p.dst /\ u.remoteip = NULL
       [] OTHER -> u.remoteip = NULL /\ u.localip = NULL

\* The loop over the sockets: best[i] after i of them.
rawDemux(p) ==
  LET best[i \in 0 .. NRAW] ==
        IF i = 0 THEN [dev |-> NULL, level |-> 0]
        ELSE LET better == {l \in best[i - 1].level + 1 .. 4 : Fits(i - 1, p, l)} IN
             IF better = {} THEN best[i - 1]
             ELSE [dev |-> i - 1, level |-> CHOOSE l \in better : \A m \in better : m <= l]
  IN best[NRAW].dev

\* netRecv() has put a packet into a buffer.  A packet without a socket is
\* answered with an ICMP message and freed; one without room is freed.
rawRecv(t) ==
  /\ t \in Receivers /\ thr[t].pc = "idle"
  /\ \E p \in free :
       /\ rawDemux(p) # NULL
       /\ rawtab[rawDemux(p)].icount < RAW_IBLEN
       /\ free' = free \ {p}
       /\ Goto(t, "recv_put", rawDemux(p), p,
               (rawtab[rawDemux(p)].istart + rawtab[rawDemux(p)].icount) % RAW_IBLEN)
  /\ UNCHANGED <<semvars, rawtab>>

recv_put(t) ==
  /\ At(t, "recv_put")
  /\ rawtab' = [rawtab EXCEPT ![thr[t].dev].in[thr[t].n] = thr[t].pkt]
  /\ Goto(t, "recv_count", thr[t].dev, thr[t].pkt, rawtab[thr[t].dev].icount)
  /\ UNCHANGED <<semvars, free>>

\* icount++ writes back what was read before.
recv_count(t) ==
  /\ At(t, "recv_count")
  /\ rawtab' = [rawtab EXCEPT ![thr[t].dev].icount = thr[t].n + 1]
  /\ Goto(t, "recv_signal", thr[t].dev, NULL, 0)
  /\ UNCHANGED <<semvars, free>>

recv_signal(t) ==
  /\ At(t, "recv_signal")
  /\ signal(rawtab[thr[t].dev].isema)
  /\ Return(t)
  /\ UNCHANGED <<rawtab, free>>

-----------------------------------------------------------------------------
(* rawRead() and rawSend() *)

\* What follows wait().  The flag IACCEPT binds the socket to the sender.
TakePacket(t, d) ==
  LET u == rawtab[d]
      p == u.in[u.istart]
      bind == "IACCEPT" \in u.flags /\ p # NULL
  IN /\ Goto(t, "read_free", d, p, 0)
     /\ rawtab' = [rawtab EXCEPT ![d] =
          [u EXCEPT !.remoteip = IF bind THEN p.src ELSE @,
                    !.flags = @ \ {"IACCEPT"},
                    !.in = [@ EXCEPT ![u.istart] = NULL],
                    !.icount = @ - 1, !.istart = (@ + 1) % RAW_IBLEN]]
     /\ UNCHANGED free

rawRead(t, d) ==
  /\ t \in Clients /\ thr[t].pc = "idle" /\ MayRun(t)
  /\ rawtab[d].state = "RAW_ALLOC" /\ ~isbadsem(rawtab[d].isema)
  /\ wait(t, rawtab[d].isema)
  /\ IF value[rawtab[d].isema] > 0 THEN TakePacket(t, d)
     ELSE Goto(t, "read_take", d, NULL, 0) /\ UNCHANGED <<rawtab, free>>

read_take(t) ==
  At(t, "read_take") /\ MayRun(t) /\ TakePacket(t, thr[t].dev) /\ UNCHANGED semvars

\* memcpy() and netFreebuf(), which takes no notice of NULL.
read_free(t) ==
  /\ At(t, "read_free") /\ MayRun(t)
  /\ free' = free \cup ({thr[t].pkt} \ {NULL})
  /\ Return(t)
  /\ UNCHANGED <<semvars, rawtab>>

\* What a socket must know of the other end before it sends.
CanSend(u) ==
  /\ u.state = "RAW_ALLOC" /\ u.remoteip # NULL
  /\ IF "OHDR" \in u.flags THEN u.localip # NULL ELSE u.proto # 0

\* A buffer is taken, sent and freed, whatever netSend() or ipv4Send() say.
rawSend(t, d) ==
  /\ t \in Clients /\ thr[t].pc = "idle" /\ MayRun(t) /\ CanSend(rawtab[d])
  /\ \E p \in free : free' = free \ {p} /\ Goto(t, "read_free", d, p, 0)
  /\ UNCHANGED <<semvars, rawtab>>

-----------------------------------------------------------------------------

Continue(t) ==
  \/ recv_put(t) \/ recv_count(t) \/ recv_signal(t)
  \/ read_take(t) \/ read_free(t)

Next ==
  \/ \E d \in Dev :
       /\ \A r \in Receivers : thr[r].pc = "idle"
       /\ \/ \E l \in LocalIps, r \in RemoteIps, q \in Protos : rawOpen(d, l, r, q)
          \/ rawClose(d) \/ rawControl(d)
  \/ \E t \in Thread :
       \/ rawRecv(t) \/ Continue(t)
       \/ \E d \in Dev : rawRead(t, d) \/ rawSend(t, d)

Spec == Init /\ [][Next]_vars

-----------------------------------------------------------------------------

Using(d, steps) ==
  {t \in Thread : thr[t].dev = d /\ thr[t].pc \in steps /\ ~Blocked(t)}

\* "Count of input packets ready": the semaphore of a socket counts the queued
\* packets, up to a signal under way and readers that were let in.
PacketsCounted ==
  \A d \in Dev : rawtab[d].isema \in Sem =>
    value[rawtab[d].isema] + Cardinality(Using(d, {"read_take", "recv_signal"}))
      = rawtab[d].icount

Hands(t) == {thr[t].pkt} \ {NULL}

\* A packet buffer is free, queued on one socket or in the hands of one thread, and
\* none gets lost: rawRecv() queues or frees each, rawRead() and rawClose() free it.
BuffersOnce ==
  /\ free \cup UNION {Hands(t) : t \in Thread}
       \cup UNION {QueuedSet(rawtab[d]) : d \in Dev} = Pkts
  /\ Cardinality(Pkts) = Cardinality(free)
       + Cardinality({t \in Thread : Hands(t) # {}})
       + Cardinality({<<d, i>> \in Dev \X (1 .. RAW_IBLEN) : i <= rawtab[d].icount})

\* "most completely matched socket, NULL if no match": rawDemux() finds the first of
\* the sockets that match best.
DemuxIsBest ==
  \A p \in Pkts :
    LET level(d) == CHOOSE l \in 0 .. 4 :
                      /\ l = 0 \/ Fits(d, p, l)
                      /\ \A m \in l + 1 .. 4 : ~Fits(d, p, m)
        d == rawDemux(p)
    IN IF d = NULL THEN \A e \in Dev : level(e) = 0
       ELSE level(d) > 0 /\ \A e \in Dev : IF e < d THEN level(e) < level(d)
                                           ELSE level(e) <= level(d)

TypeOK ==
  /\ free \subseteq Pkts
  /\ \A d \in Dev :
       /\ rawtab[d].state \in {"RAW_FREE", "RAW_ALLOC"}
       /\ rawtab[d].icount \in 0 .. RAW_IBLEN /\ rawtab[d].istart \in Slot
       /\ rawtab[d].in \in [Slot -> Pkts \cup {NULL}]

=============================================================================
