--------------------------------- MODULE Ip ---------------------------------
(***************************************************************************)
(* The way of a packet through network/net, network/ipv4, network/icmp,    *)
(* network/emulate and the forwarding half of network/route: the receive   *)
(* threads of an interface, the route daemon and the ICMP daemon, and      *)
(* threads that send echo requests, over one pool of packet buffers.       *)
(*                                                                         *)
(* A buffer is only counted; what is in it is the record of the packet.    *)
(* The tables of routes and interfaces are those of Route, here a function *)
(* that gives the route to an address.  ARP is only seen through what      *)
(* arpLookup() returns, UDP, TCP, RAW and arpRecv() through the buffers     *)
(* they keep and give back.                                                *)
(***************************************************************************)
EXTENDS Naturals, Sequences, FiniteSetsExt

CONSTANTS
  Receivers,        \* threads in netRecv(), NET_NTHR of them
  Clients,          \* threads that call icmpEchoRequest()
  NET_POOLSIZE, RT_NQUEUE, ICMP_NQUEUE,
  Pkts,             \* frames that come in
  Routes,           \* address -> what rtLookup() finds for it
  MTU, LINKHDRLEN,
  NULL,
  Faults            \* "stray": frames come in that netRecv() has no use for,
                    \* "down": the interface may be stopped

VARIABLES
  pool,             \* buffers in netpool
  rtqueue,          \* mailbox of the route daemon
  icmpqueue,        \* mailbox of the ICMP daemon
  waiting,          \* receive threads in wait() of mailboxSend(icmpqueue), in order
  above,            \* buffers that UDP, TCP, RAW or ARP hold
  nif,              \* the interface, and what became of buffers
  thr               \* what each thread is doing

vars == <<pool, rtqueue, icmpqueue, waiting, above, nif, thr>>

IPv4_HDR_LEN == 20
ICMP_DEF_DATALEN == 64
ICMP_HEADER_LEN == 4
ECHO_LEN == 28      \* sizeof(struct icmpEcho)
IPv4_TTL == 64

Threads == Receivers \cup Clients \cup {"rtDaemon", "icmpDaemon"}

\* A thread: where it is, the packet it works on, the buffers it holds, and the
\* messages and packets that it still has to send.
Idle == [pc |-> "idle", pkt |-> NULL, bufs |-> 0, todo |-> <<>>]

\* up: the interface is allocated.  wire: the last frame that was written to it,
\* NULL if none.  match: icmpDaemon() has found an interface before.  History: how many
\* buffers nobody gives back any more (lost), whether one was taken from the pool since
\* icmpDaemon() freed its packet (reused), and whether it freed one of another
\* thread (twice).
Up == [up |-> TRUE, wire |-> NULL, match |-> FALSE, lost |-> 0, reused |-> FALSE,
       twice |-> FALSE]

Init ==
  /\ pool = NET_POOLSIZE
  /\ rtqueue = <<>> /\ icmpqueue = <<>> /\ waiting = <<>>
  /\ above = 0 /\ nif = Up
  /\ thr = [t \in Threads |-> Idle]

At(t, step) == thr[t].pc = step

\* rtLookup(): the routes of an interface go with it.
rtLookup(dst) == IF nif.up THEN Routes[dst] ELSE NULL

\* bufget() waits for a buffer.
Take ==
  /\ pool > 0 /\ pool' = pool - 1
  /\ nif' = [nif EXCEPT !.reused = @ \/ At("icmpDaemon", "freed")]

Held(S) == MapThenSumSet(LAMBDA t : thr[t].bufs, S)

-----------------------------------------------------------------------------
(* Coming in: netRecv(), ipv4Recv(), icmpRecv(), rtRecv().                  *)

netGetbuf(r) ==
  /\ At(r, "idle") /\ Take
  /\ thr' = [thr EXCEPT ![r] = [Idle EXCEPT !.pc = "read", !.bufs = 1]]
  /\ UNCHANGED <<rtqueue, icmpqueue, waiting, above>>

\* A checksum, version or length that is wrong.
ipv4RecvValid(p) == p.valid

\* Addressed to an interface, or to the broadcast address of one.
ipv4RecvDemux(p) == p.dst = "us"


\* The packet goes to the route daemon unless its mailbox is full; the count and
\* the send are under one disable(), so the send finds room.
rtRecv(p) ==
  /\ UNCHANGED <<icmpqueue, waiting, above>>
  /\ \/ /\ Len(rtqueue) >= RT_NQUEUE
        /\ pool' = pool + 1 /\ UNCHANGED rtqueue
     \/ /\ Len(rtqueue) < RT_NQUEUE
        /\ rtqueue' = Append(rtqueue, p) /\ UNCHANGED pool

\* The stages of the network emulator hand the packet on: dropPercent is 0 and the
\* other stages are stubs.
emuCorrupt(p) == rtRecv(p)
emuReorder(p) == emuCorrupt(p)
emuDuplicate(p) == emuReorder(p)
emuDelay(p) == emuDuplicate(p)
emuDrop(p) == emuDelay(p)
netemu(p) == emuDrop(p)

\* An echo request goes to the daemon, and the receive thread waits when the mailbox
\* is full.  An echo reply goes to the ring of a ping command (see Ping) or is freed
\* like everything else.
icmpRecv(r, p) ==
  \/ /\ p.type = "ICMP_ECHO" /\ Len(icmpqueue) < ICMP_NQUEUE
     /\ icmpqueue' = Append(icmpqueue, p)
     /\ UNCHANGED <<pool, rtqueue, waiting, above>>
     /\ thr' = [thr EXCEPT ![r] = Idle]
  \/ /\ p.type = "ICMP_ECHO" /\ Len(icmpqueue) >= ICMP_NQUEUE
     /\ waiting' = Append(waiting, r)
     /\ UNCHANGED <<pool, rtqueue, icmpqueue, above>>
     /\ thr' = [thr EXCEPT ![r].pc = "icmp_wait", ![r].pkt = p]
  \/ /\ p.type = "ICMP_ECHOREPLY"
     /\ above' = above + 1
     /\ UNCHANGED <<pool, rtqueue, icmpqueue, waiting>>
     /\ thr' = [thr EXCEPT ![r] = Idle]
  \/ /\ p.type \notin {"ICMP_ECHO", "ICMP_ECHOREPLY"}
     /\ pool' = pool + 1
     /\ UNCHANGED <<rtqueue, icmpqueue, waiting, above>>
     /\ thr' = [thr EXCEPT ![r] = Idle]

\* Fragments for this host are not put together but dropped.
ipv4Recv(r, p) ==
  \/ /\ ~ipv4RecvValid(p) \/ (ipv4RecvDemux(p) /\ p.fragment)
     /\ pool' = pool + 1
     /\ UNCHANGED <<rtqueue, icmpqueue, waiting, above>>
     /\ thr' = [thr EXCEPT ![r] = Idle]
  \/ /\ ipv4RecvValid(p) /\ ~ipv4RecvDemux(p)
     /\ rtRecv(p) \/ netemu(p)
     /\ thr' = [thr EXCEPT ![r] = Idle]
  \/ /\ ipv4RecvValid(p) /\ ipv4RecvDemux(p) /\ ~p.fragment /\ p.type = "other"
     /\ above' = above + 1
     /\ UNCHANGED <<pool, rtqueue, icmpqueue, waiting>>
     /\ thr' = [thr EXCEPT ![r] = Idle]
  \/ /\ ipv4RecvValid(p) /\ ipv4RecvDemux(p) /\ ~p.fragment /\ p.type # "other"
     /\ icmpRecv(r, p)

\* The frame of the device: the loop goes back for a new buffer whatever becomes of
\* this one.  The buffer of a read that fails, of a frame for another station and
\* of one of unknown type is not given back.
netRecv(r) ==
  /\ At(r, "read")
  /\ \/ (\E p \in Pkts : ipv4Recv(r, p)) /\ UNCHANGED nif
     \/ /\ above' = above + 1
        /\ UNCHANGED <<pool, rtqueue, icmpqueue, waiting, nif>>
        /\ thr' = [thr EXCEPT ![r] = Idle]
     \/ /\ "stray" \in Faults
        /\ nif' = [nif EXCEPT !.lost = @ + 1]
        /\ UNCHANGED <<pool, rtqueue, icmpqueue, waiting, above>>
        /\ thr' = [thr EXCEPT ![r] = Idle]

\* The receive threads are killed wherever they are, with their buffers, and the
\* routes are cleared (see Route for the tables).
netDown ==
  /\ "down" \in Faults /\ nif.up
  /\ nif' = [nif EXCEPT !.up = FALSE, !.lost = @ + Held(Receivers)]
  /\ thr' = [t \in Threads |->
       IF t \in Receivers THEN [Idle EXCEPT !.pc = "killed"] ELSE thr[t]]
  /\ waiting' = <<>>
  /\ UNCHANGED <<pool, rtqueue, icmpqueue, above>>

\* UDP, TCP, RAW, ARP or a ping command frees a buffer (see Udp, Raw, Arp, Ping).
above_free ==
  /\ above > 0
  /\ above' = above - 1 /\ pool' = pool + 1
  /\ UNCHANGED <<rtqueue, icmpqueue, waiting, nif, thr>>

-----------------------------------------------------------------------------
(* Going out: ipv4SendFrag() and netSend().                                 *)

\* The frames that ipv4SendFrag() makes of a packet of len octets whose header has
\* ihl: what part of the data is copied into each, the fields of its header, and how
\* many old link headers precede it.  The later ones are taken whole while the rest
\* is at most MTU + IPv4_HDR_LEN, which is more than the interface carries.  A flag and
\* an offset have no bit in common, so that their & is 0, and outpkt->curr, which
\* netSend() moves over the link header, is not moved back for the next fragment.
RoundUp(n) == ((n + 7) \div 8) * 8
RoundDown(n) == (n \div 8) * 8

ipv4SendFrag(len, ihl) ==
  LET first == RoundDown(MTU - ihl)
      data == len - ihl
      fr[from \in 0 .. data] ==
        LET rem == data - from
            d == IF from = 0 THEN first
                 ELSE IF RoundUp(rem) > MTU + IPv4_HDR_LEN
                      THEN RoundDown(MTU - IPv4_HDR_LEN) ELSE rem
        IN IF rem = 0 THEN <<>> ELSE <<[from |-> from, len |-> d]>> \o fr[from + d]
      cut == IF len <= MTU THEN <<[from |-> 0, len |-> data]>> ELSE fr[0]
  IN [i \in DOMAIN cut |->
        [from |-> cut[i].from, len |-> cut[i].len, froff |-> 0, mf |-> FALSE,
         linkhdrs |-> IF i <= 2 THEN 0 ELSE i - 2]]

\* What a daemon has to do for the packet it took: the list of messages and packets.
Op(kind, to, len, ttl) == [kind |-> kind, to |-> to, len |-> len, ttl |-> ttl]
ErrorLen == IPv4_HDR_LEN + ICMP_DEF_DATALEN + 4 + ICMP_HEADER_LEN + IPv4_HDR_LEN

icmpDestUnreach(p) == Op("icmp", p.src, ErrorLen, IPv4_TTL)
icmpRedirect(p) == Op("icmp", p.src, ErrorLen, IPv4_TTL)
icmpTimeExceeded(p) == Op("icmp", p.src, ErrorLen, IPv4_TTL)

\* rtSend(): the redirect does not keep the packet from being forwarded as well, and
\* the time to live is an octet that is counted down before it is tested.
rtSend(p) ==
  LET ttl == (p.ttl + 255) % 256
      redirect == IF rtLookup(p.dst).same THEN <<icmpRedirect(p)>> ELSE <<>>
  IN IF rtLookup(p.dst) = NULL THEN <<icmpDestUnreach(p)>>
     ELSE redirect \o IF ttl = 0 THEN <<icmpTimeExceeded(p)>>
                      ELSE <<Op("forward", p.dst, p.len, ttl)>>

\* icmpEchoReply(): the request's own buffer goes back as it is.  pkt->len still
\* counts the link and IP headers of the request, and ipv4Send() adds another.
icmpEchoReply(p) == Op("reply", p.src, LINKHDRLEN + p.len + IPv4_HDR_LEN, IPv4_TTL)

icmpEchoRequest(dst) ==
  Op("icmp", dst, ECHO_LEN + ICMP_HEADER_LEN + IPv4_HDR_LEN, IPv4_TTL)

Frame(op) == [kind |-> op.kind, to |-> op.to, ttl |-> op.ttl,
              parts |-> ipv4SendFrag(op.len, IPv4_HDR_LEN), len |-> op.len]

\* One message of icmpSend(): a buffer of its own is taken for it, ...
icmp_getbuf(t) ==
  /\ At(t, "send") /\ thr[t].todo # <<>> /\ Head(thr[t].todo).kind = "icmp"
  /\ Take
  /\ thr' = [thr EXCEPT ![t].pc = "icmp", ![t].bufs = @ + 1]
  /\ UNCHANGED <<rtqueue, icmpqueue, waiting, above>>

\* ... it goes out if there is a route and ARP finds the next hop, and the buffer
\* is freed.
icmpSend(t) ==
  /\ At(t, "icmp")
  /\ LET op == Head(thr[t].todo)
     IN \/ rtLookup(op.to) # NULL /\ nif' = [nif EXCEPT !.wire = Frame(op)]
        \/ UNCHANGED nif
  /\ pool' = pool + 1
  /\ thr' = [thr EXCEPT ![t].pc = "send", ![t].bufs = @ - 1, ![t].todo = Tail(@)]
  /\ UNCHANGED <<rtqueue, icmpqueue, waiting, above>>

\* The packet itself, in one frame: the result of netSend() is the caller's, unless the
\* frame is the first of several.  A packet that is too long and must not be fragmented
\* is answered twice, here and by rtSend(), which takes SYSERR for an unreachable host.
\* rtSend() has looked up the route, ipv4Send() does it for a reply.
send_packet(t) ==
  /\ At(t, "send") /\ thr[t].todo # <<>> /\ Head(thr[t].todo).kind # "icmp"
  /\ LET op == Head(thr[t].todo)
         p == thr[t].pkt
         found == op.kind = "forward" \/ rtLookup(op.to) # NULL
         df == op.kind = "forward" /\ p.df
         Written == nif.up /\ nif' = [nif EXCEPT !.wire = Frame(op)]
         failed(n) ==
           [thr EXCEPT ![t].todo = Tail(@) \o
              IF op.kind = "reply" THEN <<>> ELSE [i \in 1 .. n |-> icmpDestUnreach(p)]]
     IN \/ /\ op.len <= MTU /\ found
           /\ Written /\ thr' = [thr EXCEPT ![t].todo = Tail(@)]
        \/ /\ op.len <= MTU \/ ~found
           /\ UNCHANGED nif /\ thr' = failed(1)
        \/ /\ op.len > MTU /\ found /\ df
           /\ UNCHANGED nif /\ thr' = failed(2)
        \/ /\ op.len > MTU /\ found /\ ~df
           /\ Written \/ UNCHANGED nif
           /\ thr' = [thr EXCEPT ![t].pc = "fragment"]
  /\ UNCHANGED <<pool, rtqueue, icmpqueue, waiting, above>>

\* The fragments after the first are made in one more buffer.
fragment_getbuf(t) ==
  /\ At(t, "fragment") /\ Take
  /\ thr' = [thr EXCEPT ![t].pc = "fragments", ![t].bufs = @ + 1]
  /\ UNCHANGED <<rtqueue, icmpqueue, waiting, above>>

fragment_free(t) ==
  /\ At(t, "fragments")
  /\ pool' = pool + 1
  /\ thr' = [thr EXCEPT ![t].pc = "send", ![t].bufs = @ - 1, ![t].todo = Tail(@)]
  /\ UNCHANGED <<rtqueue, icmpqueue, waiting, above, nif>>

-----------------------------------------------------------------------------
(* The daemons.                                                             *)

rtDaemon ==
  /\ At("rtDaemon", "idle") /\ rtqueue # <<>>
  /\ rtqueue' = Tail(rtqueue)
  /\ thr' = [thr EXCEPT !["rtDaemon"] =
       [pc |-> "send", pkt |-> Head(rtqueue), bufs |-> 1, todo |-> rtSend(Head(rtqueue))]]
  /\ UNCHANGED <<pool, icmpqueue, waiting, above, nif>>

\* mailboxReceive() lets the first waiting sender put its packet.  match keeps the
\* interface of an earlier packet; a packet that matches none, because its interface
\* is stopped, is freed, and freed again on the way round the loop.
icmpDaemon ==
  /\ At("icmpDaemon", "idle") /\ icmpqueue # <<>>
  /\ nif' = [nif EXCEPT !.match = @ \/ nif.up]
  /\ pool' = IF nif'.match THEN pool ELSE pool + 1
  /\ LET d == IF nif'.match
              THEN [pc |-> "send", pkt |-> Head(icmpqueue), bufs |-> 1,
                    todo |-> <<icmpEchoReply(Head(icmpqueue))>>]
              ELSE [Idle EXCEPT !.pc = "freed"]
     IN \/ /\ waiting = <<>>
           /\ icmpqueue' = Tail(icmpqueue) /\ UNCHANGED waiting
           /\ thr' = [thr EXCEPT !["icmpDaemon"] = d]
        \/ /\ waiting # <<>>
           /\ icmpqueue' = Append(Tail(icmpqueue), thr[Head(waiting)].pkt)
           /\ waiting' = Tail(waiting)
           /\ thr' = [thr EXCEPT !["icmpDaemon"] = d, ![Head(waiting)] = Idle]
  /\ UNCHANGED <<rtqueue, above>>

\* buffree() refuses a buffer that is in the pool, and frees one that was taken again.
icmp_free_again ==
  /\ At("icmpDaemon", "freed")
  /\ thr' = [thr EXCEPT !["icmpDaemon"] = Idle]
  /\ \/ UNCHANGED pool /\ nif' = [nif EXCEPT !.reused = FALSE]
     \/ nif.reused /\ pool' = pool + 1 /\ nif' = [nif EXCEPT !.twice = TRUE]
  /\ UNCHANGED <<rtqueue, icmpqueue, waiting, above>>

\* The packet is freed when everything is sent.
daemon_free(t) ==
  /\ t \in {"rtDaemon", "icmpDaemon"}
  /\ At(t, "send") /\ thr[t].todo = <<>>
  /\ pool' = pool + 1
  /\ thr' = [thr EXCEPT ![t] = Idle]
  /\ UNCHANGED <<rtqueue, icmpqueue, waiting, above, nif>>

\* A thread sends an echo request.
echo_request(c) ==
  /\ At(c, "idle")
  /\ \E dst \in DOMAIN Routes :
       thr' = [thr EXCEPT ![c] = [Idle EXCEPT !.pc = "send",
                                               !.todo = <<icmpEchoRequest(dst)>>]]
  /\ UNCHANGED <<pool, rtqueue, icmpqueue, waiting, above, nif>>

echo_done(c) ==
  /\ At(c, "send") /\ thr[c].todo = <<>>
  /\ thr' = [thr EXCEPT ![c] = Idle]
  /\ UNCHANGED <<pool, rtqueue, icmpqueue, waiting, above, nif>>

Sending(t) ==
  icmp_getbuf(t) \/ icmpSend(t) \/ send_packet(t) \/ fragment_getbuf(t) \/ fragment_free(t)

\* What follows when a buffer has two owners is not modelled.
Next ==
  /\ ~nif.twice
  /\ \/ \E r \in Receivers : netGetbuf(r) \/ netRecv(r)
     \/ \E t \in Threads : Sending(t) \/ daemon_free(t)
     \/ \E c \in Clients : echo_request(c) \/ echo_done(c)
     \/ rtDaemon \/ icmpDaemon \/ icmp_free_again \/ above_free \/ netDown

\* What a daemon does without waiting for a buffer, and what it does when there is
\* one again.
Work(t) ==
  \/ t = "rtDaemon" /\ rtDaemon
  \/ t = "icmpDaemon" /\ (icmpDaemon \/ icmp_free_again)
  \/ icmpSend(t) \/ send_packet(t) \/ fragment_free(t) \/ daemon_free(t)
GetsBuffer(t) == icmp_getbuf(t) \/ fragment_getbuf(t)

-----------------------------------------------------------------------------
(* Properties.                                                              *)

TypeOK ==
  /\ pool \in 0 .. NET_POOLSIZE /\ above \in 0 .. NET_POOLSIZE
  /\ Len(rtqueue) <= RT_NQUEUE /\ Len(icmpqueue) <= ICMP_NQUEUE
  /\ \A t \in Threads : thr[t].bufs \in 0 .. 2

\* Every buffer of netpool is in the pool, in a queue, above IP, or in the hands of
\* one thread, and none is given back twice, but for what netRecv() and netDown()
\* lose: the buffer of a read that fails, of a frame for another station and of one of
\* unknown type, and those of the receive threads that are killed.  The exception is
\* icmpDaemon(), which frees a packet twice when its interface is gone and another
\* thread takes the buffer in between.
BuffersAccounted ==
  nif.twice \/
  pool + above + Len(rtqueue) + Len(icmpqueue) + Held(Threads) + nif.lost = NET_POOLSIZE

\* What is forwarded has lived one hop less and is not dead; a packet that the
\* interface carries goes out whole and undisturbed; and of a longer one
\* ipv4SendFrag() copies every octet into one fragment, in order, on multiples of
\* eight.  (Not that the receiver can put them together: the offset and the flag of
\* each are 0, and old link headers precede the third and later ones.)
FramesSound ==
  LET wire == nif.wire
      parts == wire.parts
  IN wire # NULL =>
       /\ wire.kind = "forward" => \E p \in Pkts : p.dst = wire.to /\ p.len = wire.len
                                                   /\ wire.ttl \in 1 .. p.ttl - 1
       /\ wire.len <= MTU => Len(parts) = 1 /\ parts[1].linkhdrs = 0
       /\ \A i \in 1 .. Len(parts) :
            /\ parts[i].from % 8 = 0
            /\ parts[i].from + parts[i].len =
                 IF i = Len(parts) THEN wire.len - IPv4_HDR_LEN ELSE parts[i + 1].from
       /\ parts[1].from = 0

\* A receive thread is stuck in mailboxSend(), or a packet is stuck with a daemon.
Stuck(t) == IF t \in Receivers THEN At(t, "icmp_wait") ELSE ~At(t, "idle")

\* Buffers are left for all that receive threads, the route daemon and its queue keep,
\* and one more.
Enough == NET_POOLSIZE - nif.lost > Cardinality(Receivers) + RT_NQUEUE + 1

=============================================================================
