------------------------------ MODULE MCNetwork ------------------------------
(***************************************************************************)
(* The network, for TLC: UDP and raw sockets, ARP, routes and interfaces,  *)
(* the way of packets through IP, ping, TCP connections and their timers.  *)
(* A behaviour is about one of them: part says which one.  The components  *)
(* share the variables, which stand for the tables and queues of the one   *)
(* that part names; those it has no use for stay 0.                        *)
(***************************************************************************)
EXTENDS Naturals, TLC

CONSTANTS BADSEM, NULL, Parts

VARIABLES part, tab, q1, q2, q3, q4, q5, thr

allvars == <<part, tab, q1, q2, q3, q4, q5, thr>>

Datagram(s, sp, dp) == [src |-> s, spt |-> sp, dst |-> "h", dpt |-> dp]

\* One socket, readers and receivers.
Udp1 == INSTANCE Udp WITH
  udptab <- tab, nextport <- q1, live <- q2, value <- q3, waiting <- q4,
  NUDP <- 1, UDP_MAX_PKTS <- 2, UDP_MAX_DATALEN <- 4,
  UDP_PSTART <- 2, UDP_PMAX <- 6, UDP_PORT_TRACEROUTE <- 3,
  Thread <- {"t1", "t2", "t3"}, Sem <- {"s0", "s1", "p0", "n"}, Zero <- "s0",
  PoolSem <- (0 :> "p0"), Pool0 <- "n", Spare <- 1,
  Pkts <- {Datagram("a", 1, 1), Datagram("b", 1, 1)},
  LocalPts <- {1}, LocalIps <- {"h", NULL}, RemotePts <- {0}, RemoteIps <- {NULL},
  Rebind <- FALSE, Flags <- {"NOBLOCK"}, CloseInUse <- FALSE, PoolFails <- FALSE

\* One socket that is closed and opened under the calls.
Udp2 == INSTANCE Udp WITH
  udptab <- tab, nextport <- q1, live <- q2, value <- q3, waiting <- q4,
  NUDP <- 1, UDP_MAX_PKTS <- 1, UDP_MAX_DATALEN <- 2,
  UDP_PSTART <- 2, UDP_PMAX <- 6, UDP_PORT_TRACEROUTE <- 3,
  Thread <- {"t1", "t2"}, Sem <- {"s0", "s1", "p0", "n"}, Zero <- "s0",
  PoolSem <- (0 :> "p0"), Pool0 <- "n", Spare <- 1, Pkts <- {Datagram("a", 1, 1)},
  LocalPts <- {0, 1}, LocalIps <- {"h"}, RemotePts <- {1}, RemoteIps <- {"a"},
  Rebind <- FALSE, Flags <- {}, CloseInUse <- TRUE, PoolFails <- TRUE

\* Two sockets that are bound and rebound.
Udp3 == INSTANCE Udp WITH
  udptab <- tab, nextport <- q1, live <- q2, value <- q3, waiting <- q4,
  NUDP <- 2, UDP_MAX_PKTS <- 1, UDP_MAX_DATALEN <- 2,
  UDP_PSTART <- 2, UDP_PMAX <- 4, UDP_PORT_TRACEROUTE <- 3,
  Thread <- {"t1"}, Sem <- {"s0", "s1", "s2", "p0", "p1", "n"}, Zero <- "s0",
  PoolSem <- (0 :> "p0" @@ 1 :> "p1"), Pool0 <- "n", Spare <- 1,
  Pkts <- {Datagram("a", 1, 1), Datagram("b", 1, 1)},
  LocalPts <- {1}, LocalIps <- {"h"}, RemotePts <- {1}, RemoteIps <- {NULL, "a"},
  Rebind <- TRUE, Flags <- {"BINDFIRST"}, CloseInUse <- FALSE, PoolFails <- FALSE

Packet(i, s, q) == [id |-> i, src |-> s, dst |-> "h", proto |-> q]

Raw1 == INSTANCE Raw WITH
  rawtab <- tab, free <- q1, live <- q2, value <- q3, waiting <- q4,
  NRAW <- 1, RAW_IBLEN <- 2, Thread <- {"r1", "t1", "t2"}, Receivers <- {"r1"},
  Sem <- {"s1"}, Pkts <- {Packet(1, "a", 1), Packet(2, "b", 1), Packet(3, "a", 1)},
  Protos <- {1}, LocalIps <- {NULL}, RemoteIps <- {NULL, "a"}, Flags <- {"IACCEPT"}

Raw2 == INSTANCE Raw WITH
  rawtab <- tab, free <- q1, live <- q2, value <- q3, waiting <- q4,
  NRAW <- 2, RAW_IBLEN <- 1, Thread <- {"r1", "t1"}, Receivers <- {"r1"},
  Sem <- {"s1"}, Pkts <- {Packet(1, "a", 1), Packet(2, "b", 2)},
  Protos <- {0, 1}, LocalIps <- {NULL, "h"}, RemoteIps <- {NULL, "a"}, Flags <- {"OHDR"}

Answer(a, h, m, r) == [spa |-> a, sha |-> h, mine |-> m, rqst |-> r]

\* Two threads that look up one address, which changes its hardware.
Arp1 == INSTANCE Arp WITH
  arptab <- tab, arpqueue <- q1, msg <- q2, said <- q3,
  Thread <- {"t1", "t2"}, Receivers <- {"r"}, ARP_NENTRY <- 1, ARP_NTHRWAIT <- 2,
  ARP_MAX_LOOKUP <- 2, ARP_NQUEUE <- 1, ARP_TTL_UNRESOLVED <- 0, ARP_TTL_RESOLVED <- 0,
  Praddrs <- {"a"},
  Pkts <- {Answer("a", 1, TRUE, FALSE), Answer("a", 2, FALSE, FALSE)},
  OtherMsgs <- TRUE, Preempt <- FALSE

\* Two entries and a waiting list that fills up.
Arp2 == INSTANCE Arp WITH
  arptab <- tab, arpqueue <- q1, msg <- q2, said <- q3,
  Thread <- {"t1", "t2"}, Receivers <- {"r"}, ARP_NENTRY <- 2, ARP_NTHRWAIT <- 1,
  ARP_MAX_LOOKUP <- 1, ARP_NQUEUE <- 1, ARP_TTL_UNRESOLVED <- 0, ARP_TTL_RESOLVED <- 0,
  Praddrs <- {"a", "b"},
  Pkts <- {Answer("a", 1, TRUE, FALSE), Answer("b", 2, FALSE, FALSE)},
  OtherMsgs <- FALSE, Preempt <- FALSE

\* Threads run during send().
Arp3 == INSTANCE Arp WITH
  arptab <- tab, arpqueue <- q1, msg <- q2, said <- q3,
  Thread <- {"t1", "t2"}, Receivers <- {"r"}, ARP_NENTRY <- 1, ARP_NTHRWAIT <- 1,
  ARP_MAX_LOOKUP <- 1, ARP_NQUEUE <- 1, ARP_TTL_UNRESOLVED <- 0, ARP_TTL_RESOLVED <- 0,
  Praddrs <- {"a"},
  Pkts <- {Answer("a", 1, FALSE, FALSE), Answer("b", 2, TRUE, TRUE)},
  OtherMsgs <- FALSE, Preempt <- TRUE

\* Two threads that add routes while an interface goes up and down.
Route1 == INSTANCE Route WITH
  rttab <- tab, netiftab <- q1, stale <- q2,
  Thread <- {"t1", "t2"}, RT_NENTRY <- 3, NNETIF <- 1, NET_NTHR <- 5, Dev <- {"e0"},
  Bits <- {1}, Masks <- {{1}}

\* Longer addresses, two interfaces.
Route2 == INSTANCE Route WITH
  rttab <- tab, netiftab <- q1, stale <- q2,
  Thread <- {"t1"}, RT_NENTRY <- 2, NNETIF <- 2, NET_NTHR <- 1, Dev <- {"e0", "e1"},
  Bits <- {1, 2}, Masks <- {{1}, {1, 2}}

To(dst, type, ttl, len, df) ==
  [valid |-> TRUE, fragment |-> FALSE, src |-> "s", dst |-> dst, type |-> type,
   ttl |-> ttl, len |-> len, df |-> df]
Ways == "s" :> [same |-> FALSE] @@ "n" :> NULL @@ "d" :> [same |-> FALSE]
          @@ "e" :> [same |-> TRUE]
Transit == {To("us", "ICMP_ECHO", 9, 60, FALSE), To("n", "other", 9, 60, FALSE),
  To("d", "other", 9, 300, FALSE), To("d", "other", 2, 300, TRUE),
  To("e", "other", 1, 60, FALSE)}
Odd == {To("us", "ICMP_ECHOREPLY", 9, 60, FALSE), To("us", "ICMP_REDIRECT", 9, 60, FALSE),
  To("us", "other", 9, 60, FALSE), [To("us", "other", 9, 60, FALSE) EXCEPT !.fragment = TRUE],
  [To("d", "other", 9, 60, FALSE) EXCEPT !.valid = FALSE]}

\* Packets for this host and through it.
Ip1 == INSTANCE Ip WITH
  pool <- tab, rtqueue <- q1, icmpqueue <- q2, waiting <- q3, above <- q4, nif <- q5,
  Receivers <- {"r1", "r2"}, Clients <- {}, NET_POOLSIZE <- 6, RT_NQUEUE <- 1,
  ICMP_NQUEUE <- 1, MTU <- 120, LINKHDRLEN <- 14, Routes <- Ways, Pkts <- Transit,
  Faults <- {}

\* Packets of every other kind, and a thread that sends.
Ip2 == INSTANCE Ip WITH
  pool <- tab, rtqueue <- q1, icmpqueue <- q2, waiting <- q3, above <- q4, nif <- q5,
  Receivers <- {"r1"}, Clients <- {"c1"}, NET_POOLSIZE <- 4, RT_NQUEUE <- 1,
  ICMP_NQUEUE <- 1, MTU <- 120, LINKHDRLEN <- 14, Routes <- Ways,
  Pkts <- Odd \cup {To("d", "other", 1, 60, FALSE)}, Faults <- {}

\* Frames for other stations as well, and the interface goes down.
Ip3 == INSTANCE Ip WITH
  pool <- tab, rtqueue <- q1, icmpqueue <- q2, waiting <- q3, above <- q4, nif <- q5,
  Receivers <- {"r1", "r2"}, Clients <- {}, NET_POOLSIZE <- 5, RT_NQUEUE <- 1,
  ICMP_NQUEUE <- 1, MTU <- 120, LINKHDRLEN <- 14, Routes <- Ways,
  Pkts <- {To("us", "ICMP_ECHO", 9, 60, FALSE), To("n", "other", 9, 60, FALSE),
           To("d", "other", 9, 330, FALSE)},
  Faults <- {"stray", "down"}

Ping1 == INSTANCE Ping WITH
  echotab <- tab, msg <- q1, pool <- q2,
  Thread <- {"t1", "t2"}, NPINGQUEUE <- 2, NPINGHOLD <- 3, NET_POOLSIZE <- 4,
  Count <- 2, BADTID <- NULL, Fails <- FALSE

\* Requests that cannot be sent.
Ping2 == INSTANCE Ping WITH
  echotab <- tab, msg <- q1, pool <- q2,
  Thread <- {"t1", "t2"}, NPINGQUEUE <- 2, NPINGHOLD <- 2, NET_POOLSIZE <- 2,
  Count <- 1, BADTID <- NULL, Fails <- TRUE

Actively == [mode |-> "ACTIVE", spec |-> TRUE]
Passively == [mode |-> "PASSIVE", spec |-> FALSE]

\* Connections that are opened, by one side or both, and reset.
TcpOpen == INSTANCE Tcp WITH
  tcptab <- tab, net <- q1, fired <- q2, written <- q3, got <- q4,
  SeqBits <- 5, Iss <- [a |-> 1, b |-> 4], TCP_IBLEN <- 2, TCP_OBLEN <- 2,
  TCP_INIT_MSS <- 2, TCP_HDR_LEN <- 1, NET_MAX_PKTLEN <- 3, TCP_RXT_MAXCOUNT <- 1,
  TCP_NEVENTS <- 3,
  Opens <- [a |-> {Actively, [Actively EXCEPT !.spec = FALSE]},
            b |-> {Passively, Actively}],
  Bytes <- [a |-> 0, b |-> 0], Lens <- {1}, MaxInFlight <- 2, MaxPermits <- 1,
  Opened <- FALSE, Closers <- {}, Fails <- {FALSE}, Resets <- {"SYNSENT", "ESTAB"}

\* Two octets on their way; the window behind them ends in the other half of the
\* sequence numbers.
TcpData == INSTANCE Tcp WITH
  tcptab <- tab, net <- q1, fired <- q2, written <- q3, got <- q4,
  SeqBits <- 5, Iss <- [a |-> 11, b |-> 4], TCP_IBLEN <- 2, TCP_OBLEN <- 2,
  TCP_INIT_MSS <- 2, TCP_HDR_LEN <- 1, NET_MAX_PKTLEN <- 3, TCP_RXT_MAXCOUNT <- 1,
  TCP_NEVENTS <- 3, Opens <- [a |-> {Actively}, b |-> {Passively}],
  Bytes <- [a |-> 2, b |-> 0], Lens <- {1}, MaxInFlight <- 2, MaxPermits <- 1,
  Opened <- TRUE, Closers <- {}, Fails <- {FALSE}, Resets <- {}

\* Two octets through rings that hold one: windows of zero.
TcpRoom == INSTANCE Tcp WITH
  tcptab <- tab, net <- q1, fired <- q2, written <- q3, got <- q4,
  SeqBits <- 5, Iss <- [a |-> 1, b |-> 4], TCP_IBLEN <- 1, TCP_OBLEN <- 1,
  TCP_INIT_MSS <- 2, TCP_HDR_LEN <- 1, NET_MAX_PKTLEN <- 3, TCP_RXT_MAXCOUNT <- 1,
  TCP_NEVENTS <- 3, Opens <- [a |-> {Actively}, b |-> {Passively}],
  Bytes <- [a |-> 2, b |-> 0], Lens <- {1}, MaxInFlight <- 2, MaxPermits <- 1,
  Opened <- TRUE, Closers <- {}, Fails <- {FALSE}, Resets <- {}

\* Both sides close, after an octet.
TcpClose == INSTANCE Tcp WITH
  tcptab <- tab, net <- q1, fired <- q2, written <- q3, got <- q4,
  SeqBits <- 5, Iss <- [a |-> 1, b |-> 4], TCP_IBLEN <- 1, TCP_OBLEN <- 1,
  TCP_INIT_MSS <- 2, TCP_HDR_LEN <- 1, NET_MAX_PKTLEN <- 3, TCP_RXT_MAXCOUNT <- 1,
  TCP_NEVENTS <- 3, Opens <- [a |-> {Actively}, b |-> {Passively}],
  Bytes <- [a |-> 1, b |-> 0], Lens <- {1}, MaxInFlight <- 1, MaxPermits <- 1,
  Opened <- TRUE, Closers <- {"a", "b"}, Fails <- {FALSE}, Resets <- {}

\* The same with room for two octets.
TcpFin == INSTANCE Tcp WITH
  tcptab <- tab, net <- q1, fired <- q2, written <- q3, got <- q4,
  SeqBits <- 5, Iss <- [a |-> 1, b |-> 4], TCP_IBLEN <- 2, TCP_OBLEN <- 2,
  TCP_INIT_MSS <- 2, TCP_HDR_LEN <- 1, NET_MAX_PKTLEN <- 3, TCP_RXT_MAXCOUNT <- 1,
  TCP_NEVENTS <- 3, Opens <- [a |-> {Actively}, b |-> {Passively}],
  Bytes <- [a |-> 1, b |-> 0], Lens <- {1}, MaxInFlight <- 1, MaxPermits <- 1,
  Opened <- TRUE, Closers <- {"a", "b"}, Fails <- {FALSE}, Resets <- {}

\* The timer events of two connections, purged one at a time, with the clock that
\* calcElapsed() is right for.
Timer1 == INSTANCE TcpTimer WITH
  tcptimertab <- tab, nextevt <- q1, timer <- q2, left <- q3,
  TCP_NEVENTS <- 4, Tcb <- {"c1", "c2"}, Type <- {"RXT"}, Times <- {1, 3},
  CLKTICKS_PER_SEC <- 1000, Ticks <- {1, 2}, Apart <- TRUE

\* With the clock of this build.
Timer3 == INSTANCE TcpTimer WITH
  tcptimertab <- tab, nextevt <- q1, timer <- q2, left <- q3,
  TCP_NEVENTS <- 4, Tcb <- {"c1", "c2"}, Type <- {"RXT"}, Times <- {1, 3},
  CLKTICKS_PER_SEC <- 10, Ticks <- {1, 2}, Apart <- TRUE

\* As many purged at once as there are.
Timer2 == INSTANCE TcpTimer WITH
  tcptimertab <- tab, nextevt <- q1, timer <- q2, left <- q3,
  TCP_NEVENTS <- 4, Tcb <- {"c1"}, Type <- {"RXT", "PERSIST"}, Times <- {1, 2},
  CLKTICKS_PER_SEC <- 10, Ticks <- {2}, Apart <- FALSE

-----------------------------------------------------------------------------

Init ==
  /\ part \in Parts
  /\ CASE part = "udp" -> Udp1!Init
       [] part = "udpclose" -> Udp2!Init
       [] part = "udpbind" -> Udp3!Init
       [] part = "raw" -> Raw1!Init
       [] part = "rawbind" -> Raw2!Init
       [] part = "arp" -> Arp1!Init
       [] part = "arptab" -> Arp2!Init
       [] part = "arpsend" -> Arp3!Init
       [] part = "route" -> Route1!Init
       [] part = "routes" -> Route2!Init
       [] part = "ip" -> Ip1!Init
       [] part = "ipodd" -> Ip2!Init
       [] part = "ipstray" -> Ip3!Init
       [] part = "ping" -> Ping1!Init
       [] part = "pingfail" -> Ping2!Init
       [] part = "tcpopen" -> TcpOpen!Init
       [] part = "tcpdata" -> TcpData!Init
       [] part = "tcproom" -> TcpRoom!Init
       [] part = "tcpclose" -> TcpClose!Init
       [] part = "tcpfin" -> TcpFin!Init
       [] part = "timer" -> Timer1!Init
       [] part = "timerpurge" -> Timer2!Init
       [] part = "timerbuild" -> Timer3!Init
  /\ part \in {"arp", "arptab", "arpsend"} => q4 = 0
  /\ part \in {"route", "routes"} => q3 = 0 /\ q4 = 0
  /\ part \in {"ping", "pingfail"} => q3 = 0 /\ q4 = 0
  /\ part \in {"timer", "timerpurge", "timerbuild"} => q4 = 0 /\ thr = 0
  /\ part \notin {"ip", "ipodd", "ipstray"} => q5 = 0

SocketStep ==
  /\ \/ part = "udp" /\ Udp1!Next
     \/ part = "udpclose" /\ Udp2!Next
     \/ part = "udpbind" /\ Udp3!Next
     \/ part = "raw" /\ Raw1!Next
     \/ part = "rawbind" /\ Raw2!Next
  /\ UNCHANGED q5

ArpStep ==
  /\ \/ part = "arp" /\ Arp1!Next
     \/ part = "arptab" /\ Arp2!Next
     \/ part = "arpsend" /\ Arp3!Next
  /\ UNCHANGED <<q4, q5>>

RouteStep ==
  /\ \/ part = "route" /\ Route1!Next
     \/ part = "routes" /\ Route2!Next
  /\ UNCHANGED <<q3, q4, q5>>

IpStep ==
  \/ part = "ip" /\ Ip1!Next
  \/ part = "ipodd" /\ Ip2!Next
  \/ part = "ipstray" /\ Ip3!Next

PingStep ==
  /\ \/ part = "ping" /\ Ping1!Next
     \/ part = "pingfail" /\ Ping2!Next
  /\ UNCHANGED <<q3, q4, q5>>

TcpStep ==
  /\ \/ part = "tcpopen" /\ TcpOpen!Next
     \/ part = "tcpdata" /\ TcpData!Next
     \/ part = "tcproom" /\ TcpRoom!Next
     \/ part = "tcpclose" /\ TcpClose!Next
     \/ part = "tcpfin" /\ TcpFin!Next
  /\ UNCHANGED q5

TimerStep ==
  /\ \/ part = "timer" /\ Timer1!Next
     \/ part = "timerpurge" /\ Timer2!Next
     \/ part = "timerbuild" /\ Timer3!Next
  /\ UNCHANGED <<q4, q5, thr>>

Next ==
  /\ \/ SocketStep \/ ArpStep \/ RouteStep \/ IpStep \/ PingStep \/ TcpStep \/ TimerStep
  /\ UNCHANGED part

Spec == Init /\ [][Next]_allvars

-----------------------------------------------------------------------------

\* The variables of every component have their types.
Types ==
  CASE part = "udp" -> Udp1!TypeOK
    [] part = "udpbind" -> Udp3!TypeOK
    [] part = "raw" -> Raw1!TypeOK
    [] part = "rawbind" -> Raw2!TypeOK
    [] part = "arp" -> Arp1!TypeOK
    [] part = "arptab" -> Arp2!TypeOK
    [] part = "route" -> Route1!TypeOK
    [] part = "ip" -> Ip1!TypeOK
    [] part = "ping" -> Ping1!TypeOK
    [] part = "tcpopen" -> TcpOpen!TypeOK
    [] part = "tcpdata" -> TcpData!TypeOK
    [] part = "tcproom" -> TcpRoom!TypeOK
    [] part = "tcpclose" -> TcpClose!TypeOK
    [] OTHER -> TRUE

\* The semaphore of an open socket counts its queued datagrams or packets and no
\* buffer gets lost, however receive threads and readers interleave; when sockets are
\* closed and opened under them, still none is queued without a signal.  A datagram
\* goes to the socket that fits it best; a write is sent as a whole, or up to the
\* datagram that could not be sent.
SocketsSound ==
  /\ part = "udp" => Udp1!SocketCounted
  /\ part = "udpclose" => Udp2!NoneForgotten /\ Udp2!WritesAll
  /\ part = "udpbind" => Udp3!SocketCounted /\ Udp3!DemuxIsBest
  /\ part = "raw" => Raw1!PacketsCounted /\ Raw1!BuffersOnce
  /\ part = "rawbind" => Raw2!PacketsCounted /\ Raw2!DemuxIsBest

\* A UDP socket is a bounded first-in first-out channel of datagrams.
SocketsAreChannels == [][part = "udp" => Udp1!ChannelStep]_allvars

\* The ARP table has one entry for an address, with the hardware address that was
\* announced last; and when threads run in the middle of arpFree() and arpNotify(),
\* still one that was announced for the address.
AddressesSound ==
  /\ part = "arp" => Arp1!OneEntry /\ Arp1!LatestAddress
  /\ part = "arptab" => Arp2!OneEntry /\ Arp2!LatestAddress
  /\ part = "arpsend" => Arp3!AddressAnnounced

\* A route entry is filled in by the one thread that reserved it, routes name
\* interfaces that are up, and rtLookup() finds the longest match.
RoutesSound ==
  /\ part = "route" => Route1!EntryReserved /\ Route1!RoutesLive /\ Route1!OneInterface
  /\ part = "routes" => Route2!EntryReserved /\ Route2!RoutesLive
                        /\ Route2!LongestMatch /\ Route2!OneInterface


\* What one application reads is what the other one wrote, whatever the network
\* loses, repeats and reorders and whichever timers expire, through windows of zero
\* and during a close; and nothing is acknowledged that was never sent.  This is while
\* the sequence numbers stay in one half of their space, since tcpSeqdiff() is wrong
\* across it, and until tcpWrite() or tcpClose() has released the mutex twice.
StreamsIntact ==
  /\ part = "tcpopen" => TcpOpen!NothingInvented
  /\ part = "tcpdata" => TcpData!StreamIntact /\ TcpData!NothingInvented
  /\ part = "tcproom" => TcpRoom!StreamIntact /\ TcpRoom!NothingInvented
  /\ part = "tcpclose" => TcpClose!StreamIntact /\ TcpClose!NothingInvented

\* No application waits on a connection for octets or room that are there; and a
\* timer event is due when the time that calcElapsed() counts has passed, whatever
\* else is scheduled, purged or triggered, which with the clock of this build is never.
ConnectionsTimely ==
  /\ part = "tcpdata" => TcpData!NobodyForgotten
  /\ part = "tcproom" => TcpRoom!NobodyForgotten
  /\ part = "tcpclose" => TcpClose!NobodyForgotten
  /\ part = "timer" => Timer1!EventsOnTime
  /\ part = "timerbuild" => Timer3!EventsOnTime /\ Timer3!NeverDue

\* The number that tcpRecvData() notes for the FIN is the number the FIN was sent with.
FinNumber == part = "tcpfin" => TcpFin!FinNumber

\* tcpTimerPurge() removes all the events that it is asked to remove.
PurgedIsGone == part = "timerpurge" => Timer2!PurgedIsGone

=============================================================================
