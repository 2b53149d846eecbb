------------------------------- MODULE MCLive -------------------------------
(***************************************************************************)
(* Liveness of what blocks threads: mailboxes, buffer pools, the serial    *)
(* driver, the Ethernet loopback, the packets in IP and ARP lookups, one   *)
(* of them in each behaviour.                                              *)
(***************************************************************************)
EXTENDS Naturals, Sequences, FiniteSets, TLC

CONSTANTS SYSERR, GARBAGE, NONE, NULL, Parts

VARIABLES
  part,
  live, value, waiting, pc,
  state, count,
  sender, receiver, max, start, msgs, nextmbx, box, arg,
  bufsize, nbuf, head, next, freebuf, link, poolid, heap, held, asked, pool, buf,
  iflags, istart, icount, in, oflags, ostart, ocount, out, oidle, tx, txris, rx,
  owner, todo, left,
  flags, index, sem, buffer, hsem, hold, free, mem, lost, opened, pkt, got,
  tab, q1, q2, q3, q4, q5, thr   \* as in MCNetwork

Two == {"t1", "t2"}
Three == {"t1", "t2", "t3"}
UINT == 65536

Box == INSTANCE Mailbox WITH
  Thread <- Three, Sem <- {"tab", "s1", "s2"}, BADSEM <- SYSERR,
  NMAILBOX <- 1, mboxtabsem <- "tab", Counts <- {1, 2}, Msgs <- {1},
  FreeInUse <- FALSE, AllocTogether <- FALSE

Pool == INSTANCE BufPool WITH
  Thread <- Three, Sem <- {"s1"}, BADSEM <- SYSERR,
  NPOOL <- 1, Cells <- 2, Nbufs <- {1, 2}, Bufsizes <- {5},
  POOL_MAX_BUFSIZE <- 2048, POOL_MIN_BUFSIZE <- 8, POOL_MAX_NBUFS <- 8192,
  FreeInUse <- FALSE, HeapShort <- FALSE

Line == INSTANCE Uart WITH
  Thread <- Two, Sem <- {"i", "o"}, BADSEM <- SYSERR, isema <- "i", osema <- "o",
  UART_IBLEN <- 1, UART_OBLEN <- 1, Chars <- {1}, MaxLen <- 2,
  IFlags <- {"ECHO"}, OFlags <- {}, LateWriters <- FALSE

Eth == INSTANCE EthLoop WITH
  Thread <- Two, Sem <- {"f", "s1", "s2"}, BADSEM <- SYSERR, freebuf <- "f",
  ELOOP_NBUF <- 2, Buf <- {1, 2}, Pkts <- {1}, Flags <- {"HOLDNXT", "DROPNXT"},
  HoldTwice <- FALSE, MaxHeld <- 1

To(dst, type, len) ==
  [valid |-> TRUE, fragment |-> FALSE, src |-> "s", dst |-> dst, type |-> type,
   ttl |-> 9, len |-> len, df |-> FALSE]

Net == INSTANCE Ip WITH
  pool <- tab, rtqueue <- q1, icmpqueue <- q2, waiting <- q3, above <- q4, nif <- q5,
  Receivers <- {"r1", "r2"}, Clients <- {}, NET_POOLSIZE <- 6, RT_NQUEUE <- 1,
  ICMP_NQUEUE <- 1, MTU <- 120, LINKHDRLEN <- 14,
  Routes <- ("s" :> [same |-> FALSE] @@ "n" :> NULL @@ "e" :> [same |-> TRUE]),
  Pkts <- {To("us", "ICMP_ECHO", 60), To("n", "other", 60), To("e", "other", 300)},
  Faults <- {"stray"}

Res == INSTANCE Arp WITH
  arptab <- tab, arpqueue <- q1, msg <- q2, said <- q3,
  Thread <- Two, Receivers <- {"r"}, ARP_NENTRY <- 1, ARP_NTHRWAIT <- 2,
  ARP_MAX_LOOKUP <- 2, ARP_NQUEUE <- 1, ARP_TTL_UNRESOLVED <- 0, ARP_TTL_RESOLVED <- 0,
  Praddrs <- {"a"},
  Pkts <- {[spa |-> "a", sha |-> 1, mine |-> FALSE, rqst |-> FALSE],
           [spa |-> "b", sha |-> 2, mine |-> TRUE, rqst |-> FALSE]},
  OtherMsgs <- FALSE, Preempt <- FALSE

boxvars == <<sender, receiver, max, start, msgs, nextmbx, box, arg>>
poolvars == <<bufsize, nbuf, head, next, freebuf, link, poolid, heap, held, asked,
  pool, buf>>
uartvars == <<iflags, istart, icount, in, oflags, ostart, ocount, out, oidle, tx,
  txris, rx, owner, todo, left>>
ethvars == <<flags, index, sem, buffer, hsem, hold, free, mem, lost, opened, pkt, got>>
netvars == <<tab, q1, q2, q3, q4, q5, thr>>
semvars == <<live, value, waiting, pc, state, count>>
vars == <<part, semvars, boxvars, poolvars, uartvars, ethvars, netvars>>

NoBoxes ==
  /\ sender = 0 /\ receiver = 0 /\ max = 0 /\ start = 0 /\ msgs = 0
  /\ nextmbx = 0 /\ box = 0 /\ arg = 0
NoPools ==
  /\ bufsize = 0 /\ nbuf = 0 /\ head = 0 /\ next = 0 /\ freebuf = 0 /\ link = 0
  /\ poolid = 0 /\ heap = 0 /\ held = 0 /\ asked = 0 /\ pool = 0 /\ buf = 0
NoUart ==
  /\ iflags = 0 /\ istart = 0 /\ icount = 0 /\ in = 0 /\ oflags = 0 /\ ostart = 0
  /\ ocount = 0 /\ out = 0 /\ oidle = 0 /\ tx = 0 /\ txris = 0 /\ rx = 0 /\ owner = 0
  /\ todo = 0 /\ left = 0
NoEth ==
  /\ flags = 0 /\ index = 0 /\ sem = 0 /\ buffer = 0 /\ hsem = 0 /\ hold = 0
  /\ free = 0 /\ mem = 0 /\ lost = 0 /\ opened = 0 /\ pkt = 0 /\ got = 0

NoNet == tab = 0 /\ q1 = 0 /\ q2 = 0 /\ q3 = 0 /\ q4 = 0 /\ q5 = 0 /\ thr = 0
OnlyNet ==
  /\ live = 0 /\ value = 0 /\ waiting = 0 /\ pc = 0 /\ state = 0 /\ count = 0
  /\ NoBoxes /\ NoPools /\ NoUart /\ NoEth

Init ==
  /\ part \in Parts
  /\ \/ part = "mailbox" /\ Box!Init /\ NoPools /\ NoUart /\ NoEth /\ NoNet
     \/ part = "pool" /\ Pool!Init /\ NoBoxes /\ NoUart /\ NoEth /\ NoNet /\ count = 0
     \/ part = "uart" /\ Line!Init /\ NoBoxes /\ NoPools /\ NoEth /\ NoNet
        /\ state = 0 /\ count = 0
     \/ part = "eth" /\ Eth!Init /\ NoBoxes /\ NoPools /\ NoUart /\ NoNet
     \/ part = "ip" /\ Net!Init /\ OnlyNet
     \/ part = "arp" /\ Res!Init /\ OnlyNet /\ q4 = 0 /\ q5 = 0

BoxStep(A) ==
  part = "mailbox" /\ A /\ UNCHANGED <<part, poolvars, uartvars, ethvars, netvars>>
PoolStep(A) ==
  part = "pool" /\ A /\ UNCHANGED <<part, count, boxvars, uartvars, ethvars, netvars>>
UartStep(A) ==
  part = "uart" /\ A
  /\ UNCHANGED <<part, state, count, boxvars, poolvars, ethvars, netvars>>
EthStep(A) ==
  part = "eth" /\ A /\ UNCHANGED <<part, boxvars, poolvars, uartvars, netvars>>
NetStep(A) ==
  part = "ip" /\ A /\ UNCHANGED <<part, semvars, boxvars, poolvars, uartvars, ethvars>>
ArpStep(A) ==
  part = "arp" /\ A
  /\ UNCHANGED <<part, semvars, boxvars, poolvars, uartvars, ethvars, q4, q5>>

Next ==
  \/ BoxStep(Box!Next) \/ PoolStep(Pool!Next)
  \/ UartStep(Line!Next) \/ EthStep(Eth!Next)
  \/ NetStep(Net!Next) \/ ArpStep(Res!Next)

\* What is fair in each part: threads go on, the hardware and the clock work, and
\* buffers come back.  Since part does not change, the fairness of one action of
\* every part is the fairness of their disjunction.
Steady(t) ==
  \/ BoxStep(Box!Continue(t)) \/ PoolStep(Pool!Continue(t))
  \/ t \in Two /\ EthStep(Eth!Continue(t))
  \/ t = "t1" /\ (UartStep(Line!Transmit) \/ NetStep(Net!Work("rtDaemon")))
  \/ t = "t2" /\ NetStep(Net!Work("icmpDaemon"))
  \/ t = "t3" /\ NetStep(Net!above_free)

\* What may be held up again and again, and comes about once it is not: interrupts
\* that stay pending while they are disabled, the threads that this keeps out, and
\* buffers that others may take first.
Insistent(t) ==
  \/ t = "t1" /\ (UartStep(Line!tx_interrupt) \/ NetStep(Net!GetsBuffer("rtDaemon")))
  \/ t = "t2" /\ (UartStep(Line!rx_interrupt) \/ NetStep(Net!GetsBuffer("icmpDaemon")))
  \/ t = "t1" /\ ArpStep(Res!tick)

FairSpec ==
  /\ Init /\ [][Next]_vars
  /\ \A t \in Three : WF_vars(Steady(t))
  /\ \A t \in Two : /\ SF_vars(Insistent(t))
                    /\ SF_vars(UartStep(Line!Continue(t)) \/ ArpStep(Res!Continue(t)))

-----------------------------------------------------------------------------

\* A receiver does not wait forever while its mailbox holds a message, nor a sender
\* while it has room, nor anybody for the table of mailboxes, nor for a buffer of a
\* pool that has one.
ServicesServe ==
  \A t \in Three :
    []<>~\/ part = "mailbox" /\
              (Box!StuckReceiver(t) \/ Box!StuckSender(t) \/ Box!Waits(t, "tab"))
         \/ part = "pool" /\ Pool!StuckGetter(t)

\* A thread that waits for room in the serial output goes on, and one that waits
\* for input while there is some; ethloopRead() does not wait forever while packets
\* are queued, nor ethloopWrite() with all buffers at rest, unless all of them have
\* gone with packets that were to be dropped.
DriversServe ==
  \A t \in Two :
    []<>~\/ part = "uart" /\ (Line!Waits(t, "o") \/ Line!StuckReader(t))
         \/ part = "eth" /\ (Eth!StuckReader(t) \/ Eth!StuckWriter(t))


=============================================================================
