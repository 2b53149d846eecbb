--------------------------------- MODULE Udp ---------------------------------
(***************************************************************************)
(* UDP sockets (src/device/udp).  udpRecv() runs in the receive threads of *)
(* the network interfaces and queues a datagram for the socket that fits   *)
(* it best; udpRead() takes it from there.  Both leave their sections with *)
(* interrupts disabled before they use the socket again, so a close or     *)
(* another call can come between.  The buffers of a socket are what        *)
(* BufPool shows them to be: a number, counted by a semaphore.             *)
(***************************************************************************)
EXTENDS SemaphoreCalls, SequencesExt

CONSTANTS
  NUDP, UDP_MAX_PKTS, UDP_MAX_DATALEN,
  UDP_PSTART, UDP_PMAX, UDP_PORT_TRACEROUTE,
  Zero,             \* semaphore 0: what a cleared isem stands for
  PoolSem,          \* PoolSem[d]: the semaphore of the buffer pool of socket d
  Pool0,            \* the semaphore of pool 0, that of the network's packets: what a
                    \* cleared inPool stands for
  Spare,            \* buffers of pool 0 that are free
  NULL,
  Pkts,             \* datagrams: records src, spt, dst, dpt
  LocalPts, RemotePts, LocalIps, RemoteIps,  \* arguments of udpOpen() and
                    \* udpControl(): ports (0: none) and addresses (NULL: none)
  Rebind,           \* TRUE: clients change the addresses of sockets
  Flags,            \* flags that clients set and clear
  CloseInUse,       \* TRUE: sockets are closed while calls on them are going on
  PoolFails         \* TRUE: bfpalloc() may fail

VARIABLES
  udptab,
  nextport,         \* static in allocPort()
  thr               \* per thread: next step, socket, datagram

vars == <<semvars, udptab, nextport, thr>>

SYSERR == -1

Dev == 0 .. NUDP - 1
Slot == 0 .. UDP_MAX_PKTS - 1

\* bzero() of a control block.
Cleared ==
  [state |-> "UDP_FREE", localpt |-> 0, remotept |-> 0, localip |-> NULL,
   remoteip |-> NULL, flags |-> {}, in |-> [i \in Slot |-> NULL], icount |-> 0,
   istart |-> 0, isem |-> Zero, inPool |-> Pool0]

Init ==
  /\ udptab = [d \in Dev |-> Cleared]
  /\ nextport = 0
  /\ thr = [t \in Thread |-> [pc |-> "idle", dev |-> 0, pkt |-> NULL]]
  /\ live = [s \in Sem |-> s \in {Zero, Pool0}]
  /\ value = [s \in Sem |-> IF s = Pool0 THEN Spare ELSE 0]
  /\ waiting = [s \in Sem |-> <<>>]

At(t, step) == thr[t].pc = step /\ ~Blocked(t)

Goto(t, step, d, p) == thr' = [thr EXCEPT ![t] = [pc |-> step, dev |-> d, pkt |-> p]]

Return(t) == Goto(t, "idle", 0, NULL)

\* A thread runs with interrupts disabled, and nothing else does.
Masked == \E t \in Thread : thr[t].pc = "masked"

InCall(d) == \E t \in Thread : thr[t].pc # "idle" /\ thr[t].dev = d

-----------------------------------------------------------------------------
(* udpAlloc(), udpOpen(), udpClose(), udpControl() *)

udpAlloc ==
  LET free == {d \in Dev : udptab[d].state = "UDP_FREE"} IN
  /\ free # {}
  /\ udptab' = [udptab EXCEPT ![CHOOSE d \in free : \A e \in free : d <= e].state =
                  "UDP_ALLOC"]
  /\ UNCHANGED <<semvars, nextport, thr>>

Span == UDP_PMAX - UDP_PSTART

\* The port (less UDP_PSTART) that allocPort() settles on.  After a collision the
\* loop goes on with socket 1.
allocPort(tab) ==
  LET taken(d, n) == tab[d].localpt = n + UDP_PSTART
                     \/ n + UDP_PSTART = UDP_PORT_TRACEROUTE
      hits(n, from) == \E d \in Dev : d >= from /\ taken(d, n)
      try[k \in 1 .. 2 * Span] ==
        LET n == (nextport + k) % Span IN
        IF hits(n, IF k = 1 THEN 0 ELSE 1) /\ k < 2 * Span THEN try[k + 1] ELSE n
  IN try[1]

\* Without a local address the call fails, and the socket stays open.
udpOpen(d, localip, remoteip, localpt, remotept) ==
  /\ udptab[d].state # "UDP_OPEN"
  /\ CloseInUse \/ ~InCall(d)
  /\ nextport' = (IF localpt = 0 THEN allocPort(udptab) ELSE nextport)
  /\ \E s \in (Sem \ Range(PoolSem)) \cup {BADSEM}, ok \in BOOLEAN :
       LET opened == [udptab[d] EXCEPT !.state = "UDP_OPEN", !.icount = 0,
                                       !.istart = 0, !.isem = s]
       IN /\ ok \/ PoolFails
          /\ IF localip = NULL
             THEN /\ ok /\ udptab' = [udptab EXCEPT ![d] = opened]
                  /\ semcreate(s, 0)
             ELSE /\ udptab' = [udptab EXCEPT ![d] =
                       [opened EXCEPT !.localip = localip, !.remoteip = remoteip,
                          !.localpt = IF localpt = 0 THEN nextport' + UDP_PSTART
                                      ELSE localpt,
                          !.remotept = remotept, !.flags = {},
                          !.inPool = IF ok THEN PoolSem[d] ELSE BADSEM]]
                  /\ s = BADSEM => \A u \in Sem \ Range(PoolSem) : live[u]
                  /\ s # BADSEM => ~live[s]
                  /\ LET new == {u \in Sem : u = s \/ (ok /\ u = PoolSem[d])} IN
                     /\ live' = [u \in Sem |-> live[u] \/ u \in new]
                     /\ value' = [u \in Sem |-> IF u \notin new THEN value[u]
                                     ELSE IF u = s THEN 0 ELSE UDP_MAX_PKTS]
                     /\ UNCHANGED waiting
  /\ UNCHANGED thr

\* bfpfree() and semfree(), which release whoever waits.  A socket that was not
\* opened, or whose open failed, takes pool 0 and semaphore 0 with it.  Bound: no
\* close while stray signals have raised a semaphore above UDP_MAX_PKTS.
udpClose(d) ==
  /\ \A s \in Sem : value[s] <= UDP_MAX_PKTS
  /\ CloseInUse \/ ~InCall(d)
  /\ LET gone == {udptab[d].isem, udptab[d].inPool} IN
     /\ live' = [s \in Sem |-> live[s] /\ s \notin gone]
     /\ value' = [s \in Sem |-> IF s \in gone THEN 0 ELSE value[s]]
     /\ waiting' = [s \in Sem |-> IF s \in gone THEN <<>> ELSE waiting[s]]
  /\ udptab' = [udptab EXCEPT ![d] = Cleared]
  /\ UNCHANGED <<nextport, thr>>

\* UDP_CTRL_ACCEPT stores the port before it refuses the address.
ctrl_accept(d) ==
  /\ Rebind
  /\ \E p \in LocalPts, a \in LocalIps :
       udptab' = [udptab EXCEPT ![d].localpt = p,
                    ![d].localip = IF a = NULL THEN @ ELSE a]
  /\ UNCHANGED <<semvars, nextport, thr>>

ctrl_bind(d) ==
  /\ Rebind
  /\ \E p \in RemotePts, a \in RemoteIps :
       udptab' = [udptab EXCEPT ![d].remotept = p, ![d].remoteip = a]
  /\ UNCHANGED <<semvars, nextport, thr>>

ctrl_flag(d) ==
  /\ \E f \in Flags :
       \/ udptab' = [udptab EXCEPT ![d].flags = @ \ {f}]
       \/ udptab' = [udptab EXCEPT ![d].flags = @ \cup {f}]
  /\ UNCHANGED <<semvars, nextport, thr>>

-----------------------------------------------------------------------------
(* udpRecv() of a datagram whose checksum is right.  Its netFreebuf() is   *)
(* the return.                                                             *)

\* What level socket d matches datagram p at.
Full(d, p) ==
  /\ udptab[d].localpt = p.dpt /\ udptab[d].remotept = p.spt
  /\ udptab[d].remoteip = p.src /\ udptab[d].localip = p.dst
PortsOnly(d, p) ==
  /\ udptab[d].localpt = p.dpt /\ udptab[d].remotept = p.spt
  /\ udptab[d].localip = p.dst /\ udptab[d].remoteip = NULL
Local(d, p) ==
  /\ udptab[d].localpt = p.dpt /\ udptab[d].remotept = 0
  /\ udptab[d].localip = p.dst /\ udptab[d].remoteip = NULL

\* The loop over the sockets: best[i] after i of them.
udpDemux(p) ==
  LET best[i \in 0 .. NUDP] ==
        IF i = 0 THEN [dev |-> NULL, level |-> 0]
        ELSE LET b == best[i - 1]
                 d == i - 1
                 up(l) == [dev |-> d, level |-> l]
             IN IF udptab[d].state = "UDP_FREE" THEN b
                ELSE IF b.level < 3 /\ Full(d, p) THEN up(3)
                ELSE IF b.level < 2 /\ PortsOnly(d, p) THEN up(2)
                ELSE IF b.level < 1 /\ Local(d, p) THEN up(1)
                ELSE b
  IN best[NUDP].dev

\* Mutant: the datagram is put first.
Stored_first(u, b) == [u EXCEPT !.in = [@ EXCEPT ![u.istart] = b], !.icount = @ + 1]

\* A buffer in the ring: a datagram, and the pool that the buffer is from.
Stored(u, b) ==
  [u EXCEPT !.in = [@ EXCEPT ![(u.istart + u.icount) % UDP_MAX_PKTS] = b],
            !.icount = @ + 1]

\* The flag "bind first" is cleared by the datagram that it binds to.
Bound(u, p) ==
  IF "BINDFIRST" \in u.flags
  THEN [u EXCEPT !.remotept = p.spt, !.localip = p.dst, !.remoteip = p.src,
                 !.flags = @ \ {"BINDFIRST"}]
  ELSE u

\* The section: demultiplex, test for room, bind, get a buffer and store; bufget()
\* lets go of the processor when readers still have the buffers.  Without a pool
\* the call returns with interrupts disabled.
udpRecv(t) ==
  \E p \in Pkts :
    LET d == udpDemux(p)
        b == Bound(udptab[d], p)
        buf == [pkt |-> p, pool |-> b.inPool]
    IN /\ thr[t].pc = "idle"
       /\ d # NULL /\ udptab[d].icount < UDP_MAX_PKTS
       /\ wait(t, b.inPool)
       /\ IF b.inPool = BADSEM
          THEN udptab' = [udptab EXCEPT ![d] = b] /\ Goto(t, "masked", d, NULL)
          ELSE IF value[b.inPool] > 0
          THEN udptab' = [udptab EXCEPT ![d] = Stored(b, buf)]
               /\ Goto(t, "recv_signal", d, NULL)
          ELSE udptab' = [udptab EXCEPT ![d] = b] /\ Goto(t, "recv_store", d, buf)
       /\ UNCHANGED nextport

\* netRecv() goes on with interrupts disabled, to the read() of the next packet.
recv_over(t) ==
  /\ thr[t].pc = "masked"
  /\ Return(t)
  /\ UNCHANGED <<semvars, udptab, nextport>>

recv_store(t) ==
  LET d == thr[t].dev IN
  /\ At(t, "recv_store")
  /\ udptab' = [udptab EXCEPT ![d] = Stored(udptab[d], thr[t].pkt)]
  /\ Goto(t, "recv_signal", d, NULL)
  /\ UNCHANGED <<semvars, nextport>>

\* Mutant: the reader is not told.
recv_signal_not(t) ==
  At(t, "recv_signal") /\ Return(t) /\ UNCHANGED <<semvars, udptab, nextport>>

recv_signal(t) ==
  /\ At(t, "recv_signal")
  /\ signal(udptab[thr[t].dev].isem)
  /\ Return(t)
  /\ UNCHANGED <<udptab, nextport>>

-----------------------------------------------------------------------------
(* udpRead() *)

udpRead(t, d) ==
  /\ thr[t].pc = "idle"
  /\ udptab[d].state = "UDP_OPEN" /\ udptab[d].localip # NULL
  /\ ~("NOBLOCK" \in udptab[d].flags /\ udptab[d].icount < 1)
  /\ Goto(t, "read_wait", d, NULL)
  /\ UNCHANGED <<semvars, udptab, nextport>>

\* What wait() returns is not looked at.
read_wait(t) ==
  /\ At(t, "read_wait")
  /\ wait(t, udptab[thr[t].dev].isem)
  /\ Goto(t, "read_take", thr[t].dev, NULL)
  /\ UNCHANGED <<udptab, nextport>>

read_take(t) ==
  LET d == thr[t].dev
      b == udptab[d].in[udptab[d].istart]
  IN /\ At(t, "read_take")
     /\ IF b = NULL THEN Return(t) /\ UNCHANGED udptab
        ELSE /\ Goto(t, "read_free", d, b)
             /\ udptab' = [udptab EXCEPT ![d].istart = (@ + 1) % UDP_MAX_PKTS,
                                         ![d].icount = @ - 1]
     /\ UNCHANGED <<semvars, nextport>>

\* memcpy() and buffree()
read_free(t) ==
  /\ At(t, "read_free")
  /\ signal(thr[t].pkt.pool)
  /\ Return(t)
  /\ UNCHANGED <<udptab, nextport>>

-----------------------------------------------------------------------------
(* udpWrite(): what it returns, and the lengths that it sends.  udpSend()  *)
(* fails for the data that begin at the places in Fails.                   *)

udpWrite(u, len, Fails) ==
  LET loop[n \in 0 .. len] ==   \* with n left
        LET k == IF n > UDP_MAX_DATALEN THEN UDP_MAX_DATALEN ELSE n IN
        IF n = 0 THEN [ret |-> 0, sent |-> <<>>]
        ELSE IF len - n \in Fails THEN [ret |-> SYSERR, sent |-> <<>>]
        ELSE [loop[n - k] EXCEPT !.sent = <<k>> \o @]
  IN IF u.remotept = 0 \/ u.remoteip = NULL THEN [ret |-> SYSERR, sent |-> <<>>]
     ELSE loop[len]

-----------------------------------------------------------------------------

Continue(t) ==
  \/ recv_store(t) \/ recv_signal(t)
  \/ read_wait(t) \/ read_take(t) \/ read_free(t)

\* Nothing is modelled of what follows when pool 0 is gone.
Next ==
  \/ \E t \in Thread : recv_over(t)
  \/ /\ ~Masked /\ live[Pool0]
     /\ \/ udpAlloc
        \/ \E d \in Dev :
             \/ \E l \in LocalIps, r \in RemoteIps, lp \in LocalPts, rp \in RemotePts :
                  udpOpen(d, l, r, lp, rp)
             \/ udpClose(d) \/ ctrl_accept(d) \/ ctrl_bind(d) \/ ctrl_flag(d)
             \/ \E t \in Thread : udpRead(t, d)
        \/ \E t \in Thread : udpRecv(t) \/ Continue(t)

Spec == Init /\ [][Next]_vars

-----------------------------------------------------------------------------

TypeOK ==
  \A d \in Dev :
    /\ udptab[d].state \in {"UDP_FREE", "UDP_ALLOC", "UDP_OPEN"}
    /\ udptab[d].icount \in 0 .. UDP_MAX_PKTS /\ udptab[d].istart \in Slot
    /\ udptab[d].isem \in Sem \cup {BADSEM}
    /\ udptab[d].in \in [Slot -> [pkt : Pkts, pool : {Pool0, PoolSem[d]}] \cup {NULL}]
    /\ udptab[d].localpt \in 0 .. UDP_PMAX - 1

Using(d, steps) == {t \in Thread : thr[t].dev = d /\ At(t, thr[t].pc) /\ thr[t].pc \in steps}

Usable(d) ==
  udptab[d].state = "UDP_OPEN" /\ udptab[d].inPool = PoolSem[d] /\ udptab[d].isem # BADSEM

\* The semaphore of a socket counts its queued datagrams, up to signals under way
\* and readers that were let in, and the buffers of its pool are all accounted for:
\* free, granted to a receiver, queued, or with a reader.
SocketCounted ==
  \A d \in Dev : Usable(d) =>
    /\ udptab[d].icount = value[udptab[d].isem]
         + Cardinality(Using(d, {"read_take", "recv_signal"}))
    /\ UDP_MAX_PKTS = value[PoolSem[d]] + udptab[d].icount
         + Cardinality(Using(d, {"recv_store", "read_free"}))

\* Even when sockets are closed and opened under calls that are going on, no
\* datagram is queued without a signal for it.
NoneForgotten ==
  \A d \in Dev : Usable(d) =>
    udptab[d].icount <= value[udptab[d].isem]
      + Cardinality(Using(d, {"read_take", "recv_signal"}))

Level(d, p) ==
  IF udptab[d].state = "UDP_FREE" THEN 0
  ELSE IF Full(d, p) THEN 3 ELSE IF PortsOnly(d, p) THEN 2
  ELSE IF Local(d, p) THEN 1 ELSE 0

\* "most completely matched socket, NULL if no match": udpDemux() finds the first of
\* the sockets that match best, whatever order they were opened and bound in.
DemuxIsBest ==
  \A p \in Pkts :
    LET d == udpDemux(p) IN
    IF d = NULL THEN \A e \in Dev : Level(e, p) = 0
    ELSE /\ Level(d, p) > 0
         /\ \A e \in Dev : IF e < d THEN Level(e, p) < Level(d, p)
                           ELSE Level(e, p) <= Level(d, p)

\* udpWrite() sends what it is given in datagrams that are not empty and not longer
\* than UDP_MAX_DATALEN: all of it, or, when it returns SYSERR, what comes before the
\* datagram that could not be sent, and nothing when the socket has no remote end.
WritesAll ==
  \A d \in Dev, len \in 0 .. 2 * UDP_MAX_DATALEN + 1 :
    \A Fails \in {{}} \cup {{n} : n \in 0 .. len} :
      LET w == udpWrite(udptab[d], len, Fails)
          all == FoldSeq(+, 0, w.sent)
      IN /\ \A i \in 1 .. Len(w.sent) : w.sent[i] \in 1 .. UDP_MAX_DATALEN
         /\ w.ret # SYSERR => all = len
         /\ w.ret = SYSERR =>
              \/ all = 0 /\ (udptab[d].remotept = 0 \/ udptab[d].remoteip = NULL)
              \/ all \in Fails /\ all < len

Datagram(b) == IF b = NULL THEN NULL ELSE b.pkt

C == INSTANCE Channels WITH
  Box <- Dev,
  Msg <- Pkts,
  capacity <- [d \in Dev |-> IF Usable(d) THEN UDP_MAX_PKTS ELSE 0],
  queue <- [d \in Dev |->
     [i \in 1 .. IF Usable(d) THEN udptab[d].icount ELSE 0 |->
        Datagram(udptab[d].in[(udptab[d].istart + i - 1) % UDP_MAX_PKTS])]]

\* A socket is a bounded first-in first-out channel of datagrams.
ChannelStep == [C!Next]_(C!vars)

=============================================================================
