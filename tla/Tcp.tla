--------------------------------- MODULE Tcp ---------------------------------
(***************************************************************************)
(* A TCP connection (src/device/tcp): two hosts that both run this code,   *)
(* an application thread and the timer thread on each, and between them a  *)
(* network that loses, repeats and reorders segments.  A handler holds the *)
(* mutex of its transmission control block from beginning to end and is    *)
(* one step here, until a call releases the mutex twice.  Handlers are operators that take and return             *)
(* m = [c: the control block, out: the segments sent, th: the application  *)
(* thread, keep: see Purge, fail: tcpSend() fails].                        *)
(***************************************************************************)
EXTENDS Integers, Sequences, FiniteSets, FiniteSetsExt

CONSTANTS
  SeqBits,          \* width of a tcpseq (32)
  Iss,              \* Iss[e]: what tcpIss() returns on host e
  TCP_IBLEN, TCP_OBLEN, TCP_INIT_MSS, TCP_HDR_LEN, NET_MAX_PKTLEN,
  TCP_RXT_MAXCOUNT,
  TCP_NEVENTS,      \* 3 * NTCP, without the head
  Opens,            \* Opens[e]: how the application on e opens: records mode, spec
  Bytes,            \* Bytes[e]: bound on the octets the application on e writes
  Lens,             \* lengths it reads and writes at a time
  MaxInFlight,      \* bound on the segments in the network; others get lost
  MaxPermits,       \* bound on what stray signals may raise a semaphore to
  Opened,           \* TRUE: begin with the connection established
  Closers,          \* the hosts whose application closes
  Fails,            \* subset of BOOLEAN: may tcpSend() fail?
  Resets            \* the states in which an RST that fits may come from elsewhere

VARIABLES
  tcptab,           \* per host: the control block
  net,              \* segments under way
  fired,            \* per host: the event the timer thread has taken off its list
  thr,              \* per host: the application thread
  written, got      \* per host: octets accepted by tcpWrite(), returned by tcpRead()

vars == <<tcptab, net, fired, thr, written, got>>

End == {"a", "b"}
Peer(e) == IF e = "a" THEN "b" ELSE "a"
Event == {"RXT", "PERSIST", "TIMEWT"}
Semaphore == {"openclose", "readers", "writers"}

-----------------------------------------------------------------------------
(* Sequence numbers *)

SEQS == 2 ^ SeqBits
TCP_MAXSEQ == SEQS - 1

\* The signed difference is negative.
seqlt(a, b) == (a - b) % SEQS >= SEQS \div 2

seqlte(a, b) == a = b \/ seqlt(a, b)

seqadd(a, b) == ((a + b) % SEQS) % TCP_MAXSEQ

\* The difference, unless the two numbers lie in different halves.
tcpSeqdiff(first, second) ==
  LET half == TCP_MAXSEQ \div 2 IN
  IF (first < half /\ second > half) \/ (second < half /\ first > half)
  THEN (TCP_MAXSEQ - first + second) % SEQS
  ELSE (first - second) % SEQS

-----------------------------------------------------------------------------
(* The control block *)

\* After bzero() in tcpInit(); mutex is the count of that semaphore while no handler runs.
Cleared ==
  [mutex |-> 1, state |-> "CLOSED", opentype |-> "PASSIVE", remote |-> FALSE, up |-> FALSE,
   sem |-> [s \in Semaphore |-> 0], ev |-> [t \in Event |-> 0],
   rcvnxt |-> 0, rcvwnd |-> 0, rcvfin |-> 0, rcvflg |-> {}, istart |-> 0,
   icount |-> 0, inxt |-> 0, in |-> [i \in 0 .. TCP_IBLEN - 1 |-> 0],
   imark |-> {}, snduna |-> 0, sndnxt |-> 0, sndwnd |-> 0, sndwl1 |-> 0,
   sndwl2 |-> 0, iss |-> 0, sndfin |-> 0, sndmss |-> 0, sndflg |-> {},
   rxtcount |-> 0, ostart |-> 0, ocount |-> 0,
   out |-> [i \in 0 .. TCP_OBLEN - 1 |-> 0]]

\* imark, in and out keep what they hold.
tcpSetup(c, iss) ==
  [c EXCEPT !.up = TRUE,
     !.sem = [openclose |-> 0, readers |-> 0, writers |-> 1],
     !.istart = 0, !.inxt = 0, !.icount = 0, !.ostart = 0, !.ocount = 0,
     !.iss = iss, !.snduna = iss, !.sndnxt = iss, !.sndwl2 = iss,
     !.sndmss = TCP_INIT_MSS, !.sndflg = {}, !.rxtcount = 0, !.rcvflg = {}]

rcvmss == TCP_INIT_MSS - TCP_HDR_LEN

\* signal(): wakes the application thread if it waits there.
Signal(m, s) ==
  [m EXCEPT !.c.sem[s] = IF @ < MaxPermits THEN @ + 1 ELSE @,
            !.th.at = IF m.c.sem[s] < 0 THEN "go" ELSE @]

Flag(m, f) == [m EXCEPT !.c.sndflg = @ \cup f]
Unflag(m, f) == [m EXCEPT !.c.sndflg = @ \ f]

Scheduled(c) == c.ev["RXT"] + c.ev["PERSIST"] + c.ev["TIMEWT"]

\* tcpTimerSched(); without a free record nothing is scheduled.
Sched(m, t) ==
  [m EXCEPT !.c.ev[t] = IF Scheduled(m.c) < TCP_NEVENTS THEN @ + 1 ELSE @]

\* tcpTimerPurge(): of two events that follow each other on the list the second
\* stays linked (see TcpTimer); keep is that second one, if there is one.
Purge(m, types) ==
  [m EXCEPT !.c.ev = [t \in Event |->
     IF t \notin types THEN m.c.ev[t]
     ELSE IF t = m.keep /\ m.c.ev[t] > 0
             /\ (m.c.ev[t] > 1 \/ \E u \in types \ {t} : m.c.ev[u] > 0)
          THEN 1 ELSE 0]]

tcpFree(m) ==
  IF m.c.state = "CLOSED" THEN m
  ELSE [m EXCEPT !.c = [Cleared EXCEPT !.ev = Purge(m, Event).c.ev, !.mutex = m.c.mutex],
                 !.th.at = IF @ = "blocked" THEN "go" ELSE @]

-----------------------------------------------------------------------------
(* Sending *)

\* The window to advertise, and the end of the window that goes with it.
tcpSendWindow(c) ==
  LET window == TCP_IBLEN - c.icount
      unused == tcpSeqdiff(c.rcvwnd, c.rcvnxt)
      offer == IF window * 4 < TCP_IBLEN \/ window < rcvmss THEN 0 ELSE window
  IN IF c.state = "CLOSED" THEN <<0, c.rcvwnd>>
     ELSE IF c.state \in {"LISTEN", "SYNSENT", "SYNRECV"}
          THEN <<window, seqadd(c.rcvnxt, window)>>
     ELSE IF offer > unused THEN <<offer, seqadd(c.rcvnxt, offer)>>
     ELSE <<unused, c.rcvwnd>>

\* SYN and FIN count in len, but are no data.  A segment too long for a buffer
\* is not sent.
tcpSend(m, ctrl, seqnum, start, len) ==
  LET datalen == len - Cardinality(ctrl \cap {"SYN", "FIN"})
      window == tcpSendWindow(m.c)
      seg == [ctrl |-> ctrl, seqnum |-> seqnum, acknum |-> m.c.rcvnxt,
              window |-> window[1],
              data |-> [i \in 1 .. datalen |-> m.c.out[(start + i - 1) % TCP_OBLEN]]]
  IN IF TCP_HDR_LEN + datalen > NET_MAX_PKTLEN THEN [m EXCEPT !.ok = FALSE]
     ELSE [m EXCEPT !.c.rcvwnd = window[2], !.ok = ~m.fail,
                    !.out = IF m.fail THEN @ ELSE @ \cup {seg}]

tcpSendAck(m) ==
  tcpSend(Unflag(m, {"SNDACK"}), {"ACK"}, m.c.sndnxt, 0, 0)

tcpSendSyn(m) ==
  LET ack == {"SNDACK"} \cap m.c.sndflg
      n == tcpSend(Unflag(m, ack), {"SYN"} \cup {"ACK" : f \in ack}, m.c.sndnxt, 0, 1)
  IN IF ~n.ok THEN n
     ELSE Sched(Flag([n EXCEPT !.c.sndnxt = (@ + 1) % SEQS], {"SYN"}), "RXT")

Timed(m) == IF m.c.ev["RXT"] = 0 THEN Sched(m, "RXT") ELSE m

\* tosend octets from sndnxt on: full segments, and a last one with the FIN if it is
\* within the window.
SendSegments(m, wndused, tosend, fin) ==
  LET c == m.c
      full == IF tosend > c.sndmss THEN (tosend - 1) \div c.sndmss ELSE 0
      seg(n, k, ctrl, len) == tcpSend(n, ctrl, seqadd(c.sndnxt, k * c.sndmss),
                                      c.ostart + wndused + k * c.sndmss, len)
      parts[k \in 0 .. full] ==
        IF k = 0 THEN m ELSE seg(parts[k - 1], k - 1, {"ACK"}, c.sndmss)
  IN Timed(Unflag([seg(parts[full], full, {"ACK"} \cup fin, tosend - full * c.sndmss)
                     EXCEPT !.c.sndnxt = seqadd(@, tosend)],
                  {"SNDDATA"} \cup IF tosend > 0 THEN {"SNDACK"} ELSE {}))

\* Pending data and the FIN, as far as the window of the receiver goes.
SendPending(m, wndused, pending) ==
  LET c == m.c IN
  IF seqlte(seqadd(c.snduna, c.sndwnd), c.sndnxt) THEN m
  ELSE IF pending = wndused
       THEN IF seqlt(c.snduna, c.sndnxt) THEN Timed(m) ELSE m
  ELSE IF pending <= c.sndwnd
       THEN SendSegments(m, wndused, pending - wndused, {"FIN"} \cap c.sndflg)
  ELSE SendSegments(m, wndused, c.sndwnd - wndused, {})

tcpSendData(m) ==
  LET c == m.c
      fin == "FIN" \in c.sndflg
  IN IF \/ c.sndmss = 0 \/ (fin /\ seqlt(c.sndfin, c.sndnxt))
        \/ c.rxtcount > 0 \/ "PERSIST" \in c.sndflg THEN m
     ELSE IF c.sndwnd = 0 THEN Sched(Flag(m, {"PERSIST"}), "PERSIST")
     ELSE SendPending(m, tcpSeqdiff(c.sndnxt, c.snduna), c.ocount + IF fin THEN 1 ELSE 0)

\* What is due is sent.
DataDue(m) == IF "SNDDATA" \in m.c.sndflg THEN tcpSendData(m) ELSE m
AckDue(m) == IF "SNDACK" \in m.c.sndflg THEN tcpSendAck(m) ELSE m

\* The timer: SYN, data and FIN that are pending are sent again.
tcpSendRxt(m) ==
  LET c == m.c
      syn == "SYN" \in c.sndflg /\ c.snduna = c.iss
      fin == "FIN" \in c.sndflg /\ seqlte(c.snduna, c.sndfin)
               /\ seqlt(c.sndfin, c.sndnxt)
      pending == tcpSeqdiff(c.sndnxt, c.snduna)
      again == Sched([m EXCEPT !.c.rxtcount = @ + 1], "RXT")
  IN IF ~seqlt(c.snduna, c.sndnxt) \/ "PERSIST" \in c.sndflg THEN m
     ELSE IF c.rxtcount = TCP_RXT_MAXCOUNT THEN tcpFree(m)
     ELSE IF syn
          THEN tcpSend(again, {"SYN"} \cup {f \in {"ACK"} : "SYN" \in c.rcvflg},
                       c.snduna, 0, 1)
     ELSE IF pending > c.sndmss
          THEN tcpSend(again, {"ACK"}, c.snduna, c.ostart, c.sndmss)
     ELSE tcpSend(again, {"ACK"} \cup {f \in {"FIN"} : fin}, c.snduna, c.ostart, pending)

\* The probe of a window of zero.
tcpSendPersist(m) ==
  IF m.c.ocount <= 0 THEN Unflag(m, {"PERSIST"})
  ELSE tcpSend(Sched(m, "PERSIST"), {"ACK"}, m.c.snduna, m.c.ostart,
               Min({m.c.ocount, m.c.sndmss}))

-----------------------------------------------------------------------------
(* Receiving *)

\* The option that comes with a SYN; its octets are put together the wrong way
\* round.
tcpRecvOpts(c, seg) ==
  IF "SYN" \notin seg.ctrl THEN c
  ELSE [c EXCEPT !.sndmss =
          ((TCP_INIT_MSS % 256) * 256 + TCP_INIT_MSS \div 256 - TCP_HDR_LEN) % 2 ^ 16]

tcpRecvValid(c, seg) ==
  LET seglen == Len(seg.data) + Cardinality(seg.ctrl \cap {"SYN", "FIN"})
      availwnd == tcpSeqdiff(c.rcvwnd, c.rcvnxt)
      inside(n) == seqlte(c.rcvnxt, n) /\ seqlt(n, c.rcvwnd)
  IN IF availwnd = 0 THEN seglen = 0 /\ seg.seqnum = c.rcvnxt
     ELSE \/ inside(seg.seqnum)
          \/ seglen > 0 /\ inside(seqadd(seg.seqnum, seglen - 1))

\* What was received before is taken once more.
Overlap_not(c, seg) ==
  IF seqlt(seg.seqnum, c.rcvnxt) THEN [offset |-> 0, skip |-> 0, start |-> c.inxt]
  ELSE LET offset == tcpSeqdiff(seg.seqnum, c.rcvnxt)
       IN [offset |-> offset, skip |-> 0, start |-> (c.inxt + offset) % TCP_IBLEN]

\* How much of seg has been received before, or how far ahead it is.
Overlap(c, seg) ==
  IF seqlt(seg.seqnum, c.rcvnxt)
  THEN LET offset == tcpSeqdiff(c.rcvnxt, seg.seqnum)
       IN [offset |-> offset, skip |-> offset, start |-> c.inxt]
  ELSE LET offset == tcpSeqdiff(seg.seqnum, c.rcvnxt)
       IN [offset |-> offset, skip |-> 0, start |-> (c.inxt + offset) % TCP_IBLEN]

\* How many octets after the first n in the ring are there without a gap, up to the
\* FIN.
FinAt(c, k) == "FIN" \in c.rcvflg /\ seqadd(c.rcvnxt, k) = c.rcvfin
More(c, n) ==
  Max({k \in 0 .. Max({0, TCP_IBLEN - c.icount - n}) :
         \A i \in 0 .. k - 1 : /\ (c.inxt + n + i) % TCP_IBLEN \in c.imark
                               /\ i > 0 => ~FinAt(c, n + i)})

\* n octets in sequence have arrived, and more behind them are for the readers too.
\* The result also tells how many octets were in seg, and whether there is a FIN.
Taken(m, n, more, fin) ==
  LET taken == Flag([m EXCEPT !.c.icount = @ + n + more,
                       !.c.inxt = (@ + n + more) % TCP_IBLEN,
                       !.c.rcvnxt = seqadd(@, n + more)], {"SNDACK"})
  IN <<IF m.c.sem["readers"] < 1 THEN Signal(taken, "readers") ELSE taken, n,
       fin \/ (more > 0 /\ FinAt(m.c, n + more))>>

\* n octets of seg go into the ring.
Place(m, seg, over, n) ==
  LET slot(i) == (over.start + i) % TCP_IBLEN IN
  [m EXCEPT !.c.in = [j \in DOMAIN @ |->
                        LET hits == {i \in 0 .. n - 1 : slot(i) = j} IN
                        IF hits = {} THEN @[j] ELSE seg.data[over.skip + Max(hits) + 1]],
            !.c.imark = @ \cup {slot(i) : i \in 0 .. n - 1}]

\* More than the window holds is cut off, the FIN with it.
StoreFrom(m, seg, over, window) ==
  LET len == Len(seg.data) - over.skip
      n == IF len > window THEN window ELSE len
      fin == len <= window /\ "FIN" \in seg.ctrl
      placed == Place(m, seg, over, n)
  IN IF over.start # m.c.inxt THEN <<placed, n, fin>>
     ELSE Taken(placed, n, More(placed.c, n), fin)

StoreOver(m, seg, over) ==
  StoreFrom(m, seg, over, (tcpSeqdiff(m.c.rcvwnd, m.c.rcvnxt) - over.offset) % SEQS)

Store(m, seg) == StoreOver(m, seg, Overlap(m.c, seg))

\* A FIN that is next; the readers have been told.
FinState(m) ==
  LET next == [m EXCEPT !.c.rcvnxt = seqadd(@, 1)]
      wait2msl(n) == Sched(Purge(n, Event), "TIMEWT")
  IN CASE m.c.state \in {"SYNRECV", "ESTAB"} -> [next EXCEPT !.c.state = "CLOSEWT"]
       [] m.c.state = "FINWT1" ->
            IF seqlt(m.c.sndfin, m.c.snduna)
            THEN [Purge(Sched(next, "TIMEWT"), Event) EXCEPT !.c.state = "TIMEWT"]
            ELSE [next EXCEPT !.c.state = "CLOSING"]
       [] m.c.state = "FINWT2" -> wait2msl(next)
       [] m.c.state = "TIMEWT" -> wait2msl(m)
       [] OTHER -> m

FinNext(m) ==
  Flag(FinState(IF m.c.sem["readers"] < 0 THEN Signal(m, "readers") ELSE m), {"SNDACK"})

FinCheck(m) == IF m.c.rcvnxt = m.c.rcvfin THEN FinNext(m) ELSE m

Fin(m, finnum) ==
  FinCheck(IF "FIN" \in m.c.rcvflg THEN m
           ELSE [m EXCEPT !.c.rcvfin = finnum, !.c.rcvflg = @ \cup {"FIN"}])

FinDue(st, seg) == IF st[3] THEN Fin(st[1], seqadd(seg.seqnum, st[2])) ELSE st[1]

tcpRecvData(m, seg) ==
  LET takes == Len(seg.data) > 0 /\ m.c.state \in {"ESTAB", "FINWT1", "FINWT2"}
  IN AckDue(DataDue(FinDue(IF takes THEN Store(m, seg)
                           ELSE <<m, Len(seg.data), "FIN" \in seg.ctrl>>, seg)))

\* Writers are not told of the room.
AckNew_quiet(m, acknum) ==
  LET c == m.c
      amt == tcpSeqdiff(acknum, c.snduna)
      freed == [m EXCEPT !.c.ostart = (@ + amt) % TCP_OBLEN, !.c.ocount = @ - amt,
                         !.c.snduna = acknum, !.c.rxtcount = 0]
      purged == Purge(freed, {"RXT"})
  IN Flag(IF seqlt(acknum, c.sndnxt) THEN Sched(purged, "RXT") ELSE purged, {"SNDDATA"})

\* Acknowledged octets leave the ring; SYN and FIN have no place in it.
AckNew(m, acknum) ==
  LET c == m.c
      amt == tcpSeqdiff(acknum, c.snduna)
               - (IF "SYN" \in c.sndflg /\ c.snduna = c.iss THEN 1 ELSE 0)
               - (IF "FIN" \in c.sndflg /\ seqlt(c.sndfin, acknum) THEN 1 ELSE 0)
      freed == [m EXCEPT !.c.ostart = (@ + amt) % TCP_OBLEN, !.c.ocount = @ - amt,
                         !.c.snduna = acknum, !.c.rxtcount = 0]
      told == IF freed.c.ocount < TCP_OBLEN THEN Signal(freed, "writers") ELSE freed
      purged == Purge(told, {"RXT"})
  IN Flag(IF seqlt(acknum, c.sndnxt) THEN Sched(purged, "RXT") ELSE purged, {"SNDDATA"})

\* The window of the other side, unless seg is older than the last one used.
AckWindow(m, seg) ==
  LET c == m.c
      new == [m EXCEPT !.c.sndwnd = seg.window, !.c.sndwl1 = seg.seqnum,
                       !.c.sndwl2 = seg.acknum]
      grown == ~seqlte(seqadd(seg.acknum, seg.window), seqadd(c.sndwl2, c.sndwnd))
  IN IF ~(seqlt(c.sndwl1, seg.seqnum)
          \/ (c.sndwl1 = seg.seqnum /\ seqlte(c.sndwl2, seg.acknum))) THEN m
     ELSE IF grown THEN Flag(Unflag(Purge(new, {"PERSIST"}), {"PERSIST"}), {"SNDDATA"})
     ELSE new

AckAhead(m, seg) == IF seqlt(m.c.sndnxt, seg.acknum) THEN Flag(m, {"SNDACK"}) ELSE m

tcpRecvAck(m, seg) ==
  AckAhead(AckWindow(IF /\ seqlt(m.c.snduna, seg.acknum)
                        /\ seqlte(seg.acknum, m.c.sndnxt)
                     THEN AckNew(m, seg.acknum) ELSE m, seg), seg)

\* The ACK in every state after the SYNs, n being what tcpRecvAck() makes of m;
\* reset: the connection is to be deleted.
AckState(m, n) ==
  LET acked(k) == seqlte(k.c.sndfin, k.c.snduna)
      closed(k) == Signal([k EXCEPT !.c.state = "FINWT2"], "openclose")
  IN CASE m.c.state \in {"ESTAB", "CLOSEWT", "SYNRECV"} -> n
       [] m.c.state = "FINWT1" -> IF acked(n) THEN closed(n) ELSE n
       [] m.c.state = "FINWT2" ->
            IF n.c.ev["RXT"] = 0 THEN Signal(n, "openclose") ELSE n
       [] m.c.state = "CLOSING" -> IF acked(n) THEN Sched(closed(n), "TIMEWT") ELSE n
       [] m.c.state = "LASTACK" ->
            IF acked(m) THEN [Signal(m, "openclose") EXCEPT !.reset = TRUE] ELSE m
       [] m.c.state = "TIMEWT" -> Sched(Purge(m, Event), "TIMEWT")

OtherAck(m, seg) ==
  AckState(m, tcpRecvAck(IF m.c.state = "SYNRECV"
                         THEN Signal([m EXCEPT !.c.state = "ESTAB"], "openclose") ELSE m, seg))

\* The data of a segment, unless the connection has ended.
DataOf(m, seg) == IF m.reset THEN m ELSE tcpRecvData(m, seg)

tcpRecvOther(m, seg) ==
  LET good == seqlte(m.c.snduna, seg.acknum) /\ seqlte(seg.acknum, m.c.sndnxt)
  IN IF ~tcpRecvValid(m.c, seg) THEN IF "RST" \in seg.ctrl THEN m ELSE tcpSendAck(m)
     ELSE IF "RST" \in seg.ctrl
          THEN IF m.c.state # "SYNRECV" THEN [m EXCEPT !.reset = TRUE]
               ELSE LET p == Purge([m EXCEPT !.c.rxtcount = 0], {"RXT"}) IN
                    IF m.c.opentype = "PASSIVE" THEN [p EXCEPT !.c.state = "LISTEN"]
                    ELSE [p EXCEPT !.reset = TRUE]
     ELSE IF "SYN" \in seg.ctrl THEN [Flag(m, {"SNDRST"}) EXCEPT !.reset = TRUE]
     ELSE IF "ACK" \notin seg.ctrl THEN m
     ELSE IF m.c.state = "SYNRECV" /\ ~good THEN Flag(m, {"SNDRST"})
     ELSE DataOf(OtherAck(m, seg), seg)

\* What both SYNs do.
SynSeen(m, seg) ==
  Flag([m EXCEPT !.c.rcvnxt = seqadd(seg.seqnum, 1),
                 !.c.rcvwnd = seqadd(seg.seqnum, TCP_INIT_MSS),
                 !.c.rcvflg = @ \cup {"SYN"}, !.c.sndwnd = seg.window,
                 !.c.sndwl1 = seg.seqnum], {"SNDACK"})

tcpRecvListen(m, seg) ==
  IF "RST" \in seg.ctrl THEN m
  ELSE IF "ACK" \in seg.ctrl THEN Flag(m, {"SNDRST"})
  ELSE IF "SYN" \in seg.ctrl
       THEN tcpRecvData([AckDue(tcpSendSyn(SynSeen([m EXCEPT !.c.remote = TRUE], seg)))
                           EXCEPT !.c.state = "SYNRECV"], seg)
  ELSE m

SynAcked(m, accept, seg) ==
  Purge([m EXCEPT !.c.snduna = IF accept THEN seg.acknum ELSE @,
                  !.c.sndwl2 = IF accept THEN seg.acknum ELSE @,
                  !.c.rxtcount = 0], {"RXT"})

\* Established, if our SYN has been acknowledged; otherwise both have sent one.
SynState(m) ==
  IF seqlt(m.c.iss, m.c.snduna)
  THEN Flag(Signal([m EXCEPT !.c.state = "ESTAB"], "openclose"), {"SNDDATA"})
  ELSE tcpSend([m EXCEPT !.c.state = "SYNRECV"], {"SYN", "ACK"}, m.c.iss, 0, 1)

Unacked(m) == IF seqlt(m.c.snduna, m.c.sndnxt) THEN Sched(m, "RXT") ELSE m

tcpRecvSynsent(m, seg) ==
  LET c == m.c
      ack == "ACK" \in seg.ctrl
      bad == ack /\ (seqlte(seg.acknum, c.iss) \/ seqlt(c.sndnxt, seg.acknum))
      accept == ack /\ seqlte(c.snduna, seg.acknum) /\ seqlte(seg.acknum, c.sndnxt)
  IN IF bad THEN IF "RST" \in seg.ctrl THEN m ELSE Flag(m, {"SNDRST"})
     ELSE IF "RST" \in seg.ctrl THEN [m EXCEPT !.reset = accept]
     ELSE IF "SYN" \notin seg.ctrl THEN m
     ELSE tcpRecvData(SynState(Unacked(SynAcked(SynSeen(m, seg), accept, seg))), seg)

\* A reset that is sent goes to this host itself: it is addressed like the segment
\* it answers.
Deleted(m) == IF m.reset THEN tcpFree(m) ELSE m
RecvIn(m, seg) ==
  CASE m.c.state = "LISTEN" -> tcpRecvListen(m, seg)
    [] m.c.state = "SYNSENT" -> tcpRecvSynsent(m, seg)
    [] OTHER -> tcpRecvOther(m, seg)

tcpRecv(m, seg) ==
  IF m.c.state = "CLOSED" THEN m
  ELSE Deleted(RecvIn([m EXCEPT !.c = tcpRecvOpts(@, seg)], seg))

-----------------------------------------------------------------------------
(* The steps *)

\* The control block on e after the three segments of an undisturbed opening, "a"
\* being the active side.
Established(e) ==
  LET a == e = "a" IN
  [tcpSetup(Cleared, Iss[e]) EXCEPT !.state = "ESTAB", !.remote = TRUE,
     !.opentype = IF a THEN "ACTIVE" ELSE "PASSIVE",
     !.snduna = Iss[e] + 1, !.sndnxt = Iss[e] + 1, !.rcvnxt = Iss[Peer(e)] + 1,
     !.rcvwnd = Iss[Peer(e)] + 1 + TCP_IBLEN, !.rcvflg = {"SYN"},
     !.sndwnd = TCP_IBLEN, !.sndwl1 = Iss[Peer(e)] + IF a THEN 0 ELSE 1,
     !.sndwl2 = Iss[e] + 1, !.sndflg = {"SYN", "SNDDATA"},
     !.sem["writers"] = IF a THEN 1 ELSE 2,
     !.sndmss = tcpRecvOpts(Cleared, [ctrl |-> {"SYN"}]).sndmss]

Init ==
  /\ tcptab = [e \in End |-> IF Opened THEN Established(e) ELSE Cleared]
  /\ net = {}
  /\ fired = [e \in End |-> "none"]
  /\ thr = [e \in End |-> [at |-> IF Opened THEN "idle" ELSE "start",
                           sem |-> "openclose", call |-> "open", left |-> 0]]
  /\ written = [e \in End |-> 0] /\ got = [e \in End |-> <<>>]

\* The handler on e leads to m.  Segments that do not fit get lost.
Done(e, m, under) ==
  LET sent == {[to |-> Peer(e), seg |-> s] : s \in m.out} IN
  /\ tcptab' = [tcptab EXCEPT ![e] = m.c]
  /\ thr' = [thr EXCEPT ![e] = m.th]
  /\ net' = IF Cardinality(under \cup sent) > MaxInFlight THEN under ELSE under \cup sent

\* A handler on e begins.
Begin(e, keep, fail) ==
  [c |-> tcptab[e], th |-> thr[e], out |-> {}, ok |-> TRUE, reset |-> FALSE,
   keep |-> keep, fail |-> fail]

Keeps(e) ==
  {"none"} \cup {t \in Event : tcptab[e].ev[t] > 0 /\ Scheduled(tcptab[e]) > 1}

Called(m, call, sem, left) ==
  [m EXCEPT !.th = [at |-> "wait", call |-> call, sem |-> sem, left |-> left]]

Returned(m) == [m EXCEPT !.th.at = "idle", !.th.left = 0]

\* tcpOpenActive() without a peer gives an error that tcpOpen() takes for success.
tcpOpen(e, o) ==
  /\ thr[e].at = "start"
  /\ \E fail \in Fails :
       LET b == Begin(e, "none", fail)
           m == [b EXCEPT !.c = [tcpSetup(@, Iss[e]) EXCEPT !.opentype = o.mode,
                                                           !.remote = o.spec]]
           syn == tcpSendSyn(m)
           waits(n) == Called(n, "open", "openclose", 0)
       IN Done(e, CASE o.mode = "PASSIVE" -> waits([m EXCEPT !.c.state = "LISTEN"])
                    [] o.mode = "ACTIVE" /\ ~o.spec -> waits(m)
                    [] o.mode = "ACTIVE" /\ o.spec ->
                         IF syn.ok THEN waits([syn EXCEPT !.c.state = "SYNSENT"])
                         ELSE Returned(tcpFree(syn)), net)
  /\ UNCHANGED <<fired, written, got>>

\* wait() on a semaphore of the connection.  Once the control block is cleared it
\* is a wait for semaphore 0, which may be anybody's.
Wait(e) ==
  /\ thr[e].at = "wait"
  /\ IF tcptab[e].up
     THEN /\ tcptab' = [tcptab EXCEPT ![e].sem[thr[e].sem] = @ - 1]
          /\ thr' = [thr EXCEPT ![e].at = IF tcptab[e].sem[thr[e].sem] > 0 THEN "go"
                                          ELSE "blocked"]
     ELSE /\ \E at \in {"go", "lost"} : thr' = [thr EXCEPT ![e].at = at]
          /\ UNCHANGED tcptab
  /\ UNCHANGED <<net, fired, written, got>>

\* open and close are over.
Return(e) ==
  /\ thr[e].at = "go" /\ thr[e].call \in {"open", "close"}
  /\ thr' = [thr EXCEPT ![e].at = IF thr[e].call = "open" THEN "idle" ELSE "closed"]
  /\ UNCHANGED <<tcptab, net, fired, written, got>>

\* stateCheck() of tcpRead()
NothingToRead(c) ==
  \/ c.state \in {"CLOSED", "CLOSING", "LASTACK", "TIMEWT"}
  \/ c.state = "CLOSEWT" /\ c.icount = 0

tcpRead(e, len) ==
  /\ thr[e].at = "idle" /\ ~NothingToRead(tcptab[e])
  /\ Done(e, Called(Begin(e, "none", FALSE), "read", "readers", len), net)
  /\ UNCHANGED <<fired, written, got>>

\* What is there, up to the length asked for; then the next wait().  An end of
\* the stream is an error, whatever was read before.
read_some(e) ==
  /\ thr[e].at = "go" /\ thr[e].call = "read"
  /\ LET b == Begin(e, "none", FALSE)
         n == Min({b.c.icount, b.th.left})
         slot(i) == (b.c.istart + i) % TCP_IBLEN
         m == [b EXCEPT !.c.imark = @ \ {slot(i) : i \in 0 .. n - 1},
                        !.c.istart = (@ + n) % TCP_IBLEN, !.c.icount = @ - n]
         k == IF m.c.icount > 0 /\ m.c.sem["readers"] < 1 THEN Signal(m, "readers") ELSE m
     IN IF NothingToRead(b.c)
        THEN /\ Done(e, Returned(b), net)
             /\ UNCHANGED <<fired, written, got>>
        ELSE /\ Done(e, IF b.th.left = n THEN Returned(k)
                        ELSE Called(k, "read", "readers", b.th.left - n), net)
             /\ got' = [got EXCEPT ![e] = @ \o [i \in 1 .. n |-> b.c.in[slot(i - 1)]]]
             /\ UNCHANGED <<fired, written>>

\* stateCheck() of tcpWrite(): a listening socket with a peer opens actively, and
\* its SYN is sent twice.
writeCheck(m) ==
  LET active == tcpSendSyn([m EXCEPT !.c.state = "SYNSENT"]) IN
  IF m.c.state = "LISTEN" /\ m.c.remote
  THEN IF active.ok THEN tcpSendSyn(active) ELSE active
  ELSE m

\* The mutex is signalled once more than it was waited for: two handlers may run.
Released(m) == [m EXCEPT !.c.mutex = @ + 1]

NoMoreWrites == {"CLOSED", "LISTEN", "FINWT1", "FINWT2", "CLOSING", "LASTACK", "TIMEWT"}

\* stateCheck() and tcpWrite() both release the mutex when the connection cannot be
\* written to.
tcpWrite(e, len) ==
  /\ thr[e].at = "idle" /\ written[e] + len <= Bytes[e]
  /\ LET m == writeCheck(Begin(e, "none", FALSE)) IN
     Done(e, IF tcptab[e].state \in NoMoreWrites THEN Released(m)
             ELSE Called(m, "write", "writers", len), net)
  /\ UNCHANGED <<fired, written, got>>

write_some(e) ==
  /\ thr[e].at = "go" /\ thr[e].call = "write"
  /\ LET b == Begin(e, "none", FALSE)
         n == Min({TCP_OBLEN - b.c.ocount, b.th.left})
         slot(i) == (b.c.ostart + b.c.ocount + i) % TCP_OBLEN
         m == [b EXCEPT !.c.out = [j \in DOMAIN @ |->
                          IF \E i \in 0 .. n - 1 : slot(i) = j
                          THEN written[e] + 1 + CHOOSE i \in 0 .. n - 1 : slot(i) = j
                          ELSE @[j]],
                        !.c.ocount = @ + n]
         k == IF m.c.ocount < TCP_OBLEN THEN Signal(m, "writers") ELSE m
         o == IF k.c.state \in {"ESTAB", "CLOSEWT"} THEN tcpSendData(k) ELSE k
     IN IF b.c.state \in NoMoreWrites
        THEN /\ Done(e, Returned(IF b.c.up THEN Signal(writeCheck(b), "writers")
                                 ELSE writeCheck(b)), net)
             /\ UNCHANGED <<fired, written, got>>
        ELSE /\ Done(e, IF b.th.left = n THEN Returned(o)
                        ELSE Called(o, "write", "writers", b.th.left - n), net)
             /\ written' = [written EXCEPT ![e] = @ + n]
             /\ UNCHANGED <<fired, got>>

\* Readers and writers are let go, then the control block goes.  tcpFree() releases
\* the mutex, and tcpClose() does so again before it waits on what was openclose.
CloseEarly(m) ==
  LET go(n, sem) == IF n.c.sem[sem] < 0 THEN Signal(n, sem) ELSE n
      w == IF m.c.state = "SYNSENT" THEN go(m, "writers") ELSE m
  IN Released(tcpFree(go(w, "readers")))

\* The FIN takes its number, and goes out if the window allows it.
CloseWith(m, state, flags) ==
  LET n == Flag([m EXCEPT !.c.sndfin = seqadd(m.c.snduna, m.c.ocount), !.c.state = state],
                {"FIN"} \cup flags)
  IN DataDue(n)

tcpClose(e) ==
  /\ thr[e].at = "idle" /\ e \in Closers
  /\ \E keep \in Keeps(e), fail \in Fails :
       LET m == Begin(e, keep, fail)
           waits(n) == Called(n, "close", "openclose", 0)
           over(n) == [n EXCEPT !.th.at = "closed"]
       IN Done(e, CASE m.c.state \in {"SYNSENT", "LISTEN"} -> waits(CloseEarly(m))
                    [] m.c.state = "SYNRECV" ->
                         waits(IF m.c.ocount = 0 THEN CloseWith(m, "FINWT1", {"SNDDATA"})
                               ELSE CloseWith(m, "SYNRECV", {}))
                    [] m.c.state = "ESTAB" -> waits(CloseWith(m, "FINWT1", {"SNDDATA"}))
                    [] m.c.state = "CLOSEWT" -> waits(CloseWith(m, "LASTACK", {"SNDDATA"}))
                    [] OTHER -> over(m), net)
  /\ UNCHANGED <<fired, written, got>>

\* Another thread closes while the application waits for the connection to open.
close_early(e) ==
  /\ thr[e].at = "blocked" /\ thr[e].call = "open"
  /\ tcptab[e].state \in {"SYNSENT", "LISTEN"}
  /\ \E keep \in Keeps(e) : Done(e, CloseEarly(Begin(e, keep, FALSE)), net)
  /\ UNCHANGED <<fired, written, got>>

\* A segment arrives, and may arrive again.
Receive(e, p, again) ==
  /\ p.to = e
  /\ \E keep \in Keeps(e), fail \in Fails :
       Done(e, tcpRecv(Begin(e, keep, fail), p.seg), IF again THEN net ELSE net \ {p})
  /\ UNCHANGED <<fired, written, got>>

Lose(p) ==
  /\ net' = net \ {p}
  /\ UNCHANGED <<tcptab, fired, thr, written, got>>

\* An RST that fits, from a host that does not know the connection.
Reset(e) ==
  /\ tcptab[e].state \in Resets
  /\ \E keep \in Keeps(e) :
       Done(e, tcpRecv(Begin(e, keep, FALSE),
                       [ctrl |-> {"RST", "ACK"}, seqnum |-> tcptab[e].rcvnxt,
                        acknum |-> tcptab[e].sndnxt, window |-> 0, data |-> <<>>]), net)
  /\ UNCHANGED <<fired, written, got>>

\* The timer thread takes an event off its list (which it never does with the clock of
\* this build, see TcpTimer) ...
Expire(e, t) ==
  /\ fired[e] = "none" /\ tcptab[e].ev[t] > 0
  /\ fired' = [fired EXCEPT ![e] = t]
  /\ tcptab' = [tcptab EXCEPT ![e].ev[t] = @ - 1]
  /\ UNCHANGED <<net, thr, written, got>>

\* ... and acts on it, whatever has happened to the connection since.
tcpTimerTrigger(e) ==
  /\ fired[e] # "none"
  /\ \E keep \in Keeps(e), fail \in Fails :
       LET m == Begin(e, keep, fail) IN
       Done(e, CASE fired[e] = "TIMEWT" -> tcpFree(m)
                 [] fired[e] = "RXT" -> tcpSendRxt(m)
                 [] fired[e] = "PERSIST" -> tcpSendPersist(m), net)
  /\ fired' = [fired EXCEPT ![e] = "none"]
  /\ UNCHANGED <<written, got>>

\* Handlers exclude each other.
Exclusive == \A e \in End : tcptab[e].mutex = 1

\* The numbers of the octets that e sends, as the two sides know them, the window of
\* the receiver included, lie in one half of the sequence space.
InOneHalf(e) ==
  LET c == tcptab[e]
      p == tcptab[Peer(e)]
      known == (IF c.up THEN {c.iss, c.snduna, c.sndnxt} ELSE {})
               \cup (IF "SYN" \in p.rcvflg THEN {p.rcvnxt, p.rcvwnd} ELSE {})
      half == TCP_MAXSEQ \div 2
  IN (\A n \in known : n <= half) \/ (\A n \in known : n >= half)

\* What handlers do to each other when they overlap, and what becomes of a connection
\* whose sequence numbers tcpSeqdiff() cannot subtract, is not modelled.
Next ==
  /\ Exclusive /\ \A e \in End : InOneHalf(e)
  /\ \/ \E e \in End : \/ \E o \in Opens[e] : tcpOpen(e, o)
                       \/ Wait(e) \/ Return(e) \/ read_some(e) \/ write_some(e)
                       \/ \E len \in Lens : tcpRead(e, len) \/ tcpWrite(e, len)
                       \/ tcpClose(e) \/ close_early(e)
                       \/ \E p \in net, again \in BOOLEAN : Receive(e, p, again)
                       \/ Reset(e)
                       \/ \E t \in Event : Expire(e, t)
                       \/ tcpTimerTrigger(e)
     \/ \E p \in net : Lose(p)

Spec == Init /\ [][Next]_vars

-----------------------------------------------------------------------------
(* Properties *)

TypeOK ==
  /\ \A e \in End :
       /\ tcptab[e].icount \in 0 .. TCP_IBLEN /\ tcptab[e].ocount \in 0 .. TCP_OBLEN
       /\ {tcptab[e].snduna, tcptab[e].sndnxt, tcptab[e].rcvnxt, tcptab[e].rcvwnd} \subseteq 0 .. TCP_MAXSEQ
       /\ thr[e].at \in {"start", "wait", "blocked", "go", "idle", "closed", "lost"}
       /\ fired[e] \in Event \cup {"none"}
       /\ written[e] \in 0 .. Bytes[e]
  /\ Cardinality(net) <= MaxInFlight

\* What tcpRead() returns is what tcpWrite() on the other side was given, from the
\* first octet on, once and in order; and so is what waits in the two rings.  It holds
\* up to the moment when the mutex has been released twice or the numbers of a stream
\* are no longer in one half of the sequence space, as after 2^31 octets.
StreamIntact ==
  \A e \in End : LET c == tcptab[e] IN
    /\ Len(got[e]) <= written[Peer(e)]
    /\ \A i \in DOMAIN got[e] : got[e][i] = i
    /\ \A i \in 0 .. c.icount - 1 : c.in[(c.istart + i) % TCP_IBLEN] = Len(got[e]) + i + 1
    /\ \A i \in 0 .. c.ocount - 1 :
         c.out[(c.ostart + i) % TCP_OBLEN] = written[e] - c.ocount + i + 1

\* Nobody expects an octet beyond those the other side was given and its FIN; a
\* probe of the window may be ahead of sndnxt.
NothingInvented ==
  \A e \in End : LET c == tcptab[e]  p == tcptab[Peer(e)] IN
    "SYN" \in c.rcvflg /\ p.up =>
      seqlte(c.rcvnxt, seqadd(p.iss, 1 + written[Peer(e)]
                                       + Cardinality({"FIN"} \cap p.sndflg)))

\* Nobody waits for octets that are there, or for room that is there.
NobodyForgotten ==
  \A e \in End : thr[e].at = "blocked" =>
    /\ thr[e].sem = "readers" => tcptab[e].icount = 0
    /\ thr[e].sem = "writers" => tcptab[e].ocount = TCP_OBLEN

\* The number of the FIN that was received is the number of the FIN that was sent.
FinNumber ==
  \A e \in End : LET c == tcptab[e]  p == tcptab[Peer(e)] IN
    "FIN" \in c.rcvflg /\ p.up => "FIN" \in p.sndflg /\ c.rcvfin = p.sndfin

=============================================================================
