-------------------------------- MODULE Snoop --------------------------------
(***************************************************************************)
(* Packet capture: src/network/snoop and the shell command xsh_snoop.c.    *)
(* A command opens a capture, which hangs it on network interfaces, and    *)
(* starts a thread that prints what it finds in the mailbox of the capture.*)
(* The threads that send and receive packets call snoopCapture() with      *)
(* interrupts enabled: they take the pointer from the interface, and wait  *)
(* for a buffer and for room in the mailbox, while the command may close   *)
(* the capture.  The structure is a local variable of the command; what a  *)
(* late thread finds in it is taken to be what the command left there.     *)
(*                                                                         *)
(* A packet is a record: len, the number of its layers that are there      *)
(* (1: Ethernet header, 2: the header of ARP or IPv4, 3: all of it), etype,*)
(* proto, src, dst, and pralen, the length of its protocol addresses.      *)
(* Mailboxes are what Mailbox shows them to be: bounded channels.          *)
(***************************************************************************)
EXTENDS Integers, Sequences, FiniteSets, TLC

CONSTANTS
  Receiver,       \* threads that receive or send packets
  Cmd,            \* shell commands, one capture each
  Nif,            \* network interfaces
  Buf,            \* buffers of the network pool
  SNOOP_QLEN,
  Packets,        \* packets there are
  ArgLists,       \* arguments of the commands
  MaxPackets,     \* bound: packets that pass in a behaviour
  Fails           \* calls that may fail: "mailboxAlloc", "create"

VARIABLES
  netif,          \* netiftab: whether an interface is up, and its capture (0: NULL)
  cap,            \* struct snoop of each command, with its mailbox
  cmd,            \* the commands: next step and the capture's count, dump, verbose
  prt,            \* their threads: next step, packets to go, buffer in hand
  rcv,            \* receivers: next step, packet, capture, buffer, counter loaded
  pool,           \* free buffers
  buf,            \* what buffers hold
  log             \* what was done: see Init

vars == <<netif, cap, cmd, prt, rcv, pool, buf, log>>

NONE == 0         \* NULL pointers

-----------------------------------------------------------------------------
(* xsh_snoop(): arguments.  An argument is a record: its text s, and the    *)
(* number or address v it stands for.                                      *)

Default ==
  [count |-> 0, caplen |-> 3, dump |-> "NONE", verbose |-> 0, type |-> "ALL",
   srcaddr |-> NONE, srcport |-> 0, dstaddr |-> NONE, dstport |-> 0, dev |-> "ALL",
   fails |-> FALSE]

Types == {"ALL", "ARP", "IPv4", "UDP", "TCP", "ICMP"}

\* Options that take the next argument, and the field it goes to.
Takes ==
  ("-c" :> "count") @@ ("-s" :> "caplen") @@ ("-i" :> "dev") @@ ("-t" :> "type") @@
  ("-da" :> "dstaddr") @@ ("-dp" :> "dstport") @@ ("-sa" :> "srcaddr") @@ ("-sp" :> "srcport")

\* The others: the field they set, and to what.
Sets ==
  ("-d" :> [dump |-> "HEX"]) @@ ("-dd" :> [dump |-> "CHAR"]) @@
  ("-v" :> [verbose |-> 1]) @@ ("-vv" :> [verbose |-> 2])

\* The body of the loop for argument w; p.field is the field that w is for.
Option(p, w) ==
  IF p.opt.fails THEN p
  ELSE IF p.field # "" THEN
    [opt |-> [p.opt EXCEPT ![p.field] = IF p.field \in {"dev", "type"} THEN w.s ELSE w.v],
     field |-> ""]
  ELSE IF w.s \in DOMAIN Sets THEN [p EXCEPT !.opt = Sets[w.s] @@ @]
  ELSE IF w.s \in DOMAIN Takes THEN [p EXCEPT !.field = Takes[w.s]]
  ELSE [p EXCEPT !.opt.fails = TRUE]

\* Behind the loop.  A missing operand is an error; that of -t is reported, but
\* the command goes on with whatever the pointer behind the last argument shows.
Missing(p) ==
  IF p.field = "" \/ p.opt.fails THEN {p.opt}
  ELSE IF p.field = "type" THEN {[p.opt EXCEPT !.type = t] : t \in (Types \ {"ALL"}) \union {"?"}}
  ELSE {[p.opt EXCEPT !.fails = TRUE]}

Parsed(args) ==
  LET loop[a \in 0 .. Len(args)] ==
        IF a = 0 THEN [opt |-> Default, field |-> ""] ELSE Option(loop[a - 1], args[a])
  IN {[o EXCEPT !.fails = @ \/ o.type \notin Types] : o \in Missing(loop[Len(args)])}

Closed == [opt |-> Default, ncap |-> 0, nmatch |-> 0, novrn |-> 0, queue |-> "none", msgs |-> <<>>]
NoPacket == [n |-> 0, p |-> NONE]
Idle == [pc |-> "idle", pkt |-> NoPacket, cap |-> NONE, buf |-> NONE, n |-> 0]

Init ==
  /\ netif \in [Nif -> [up : BOOLEAN, capture : {NONE}]]
  /\ cap = [c \in Cmd |-> Closed]
  /\ cmd = [c \in Cmd |-> "idle"]
  /\ prt = [c \in Cmd |-> [pc |-> "none", todo |-> 0, buf |-> NONE]]
  /\ rcv = [r \in Receiver |-> Idle]
  /\ pool = Buf /\ buf = [b \in Buf |-> NoPacket]
  /\ log = [n |-> 0,                            \* packets so far
            seen |-> [c \in Cmd |-> 0],         \* calls of snoopCapture()
            met |-> {},                         \* captures with two callers at once
            late |-> {},                        \* captures closed under a caller
            failed |-> {},                      \* commands whose snoopOpen() failed
            printed |-> [c \in Cmd |-> <<>>]]   \* what the threads printed

-----------------------------------------------------------------------------
(* snoopFilter() *)

NoFilter(o) ==
  o.type = "ALL" /\ o.srcaddr = NONE /\ o.srcport = 0 /\ o.dstaddr = NONE /\ o.dstport = 0

\* The headers are there and of a kind the filter knows.
Valid(p) == p.etype \in {"ARP", "IPv4"} /\ p.len >= 2

TypeMatches(type, p) ==
  \/ type \in {"ALL", p.etype}
  \/ p.etype = "IPv4" /\ p.proto \in {"UDP", "TCP", "ICMP"} /\ type = p.proto

AddrMatches(addr, p, field) == addr = NONE \/ (p.pralen = 4 /\ field = addr)

\* Whatever port is asked for, no packet is found to have it.
PortMatches(o) == o.srcport = 0 /\ o.dstport = 0

snoopFilter(o, p) ==
  \/ NoFilter(o)
  \/ /\ Valid(p) /\ TypeMatches(o.type, p)
     /\ AddrMatches(o.srcaddr, p, p.src) /\ AddrMatches(o.dstaddr, p, p.dst)
     /\ PortMatches(o)

-----------------------------------------------------------------------------
(* snoopCapture(), called by netRecv() and netSend() *)

At(r, step) == rcv[r].pc = step
Step(r, step) == rcv' = [rcv EXCEPT ![r].pc = step]
Inside(c) == {r \in Receiver : rcv[r].pc # "idle" /\ rcv[r].cap = c}

\* The caller finds a capture on the interface; cap->ncap is loaded.
snoopCapture(r) ==
  /\ At(r, "idle") /\ log.n < MaxPackets
  /\ \E i \in Nif, p \in Packets :
       /\ netif[i].up /\ netif[i].capture # NONE
       /\ LET c == netif[i].capture IN
          /\ rcv' = [rcv EXCEPT ![r] = [pc |-> "ncap", pkt |-> [n |-> log.n + 1, p |-> p],
                                        cap |-> c, buf |-> NONE, n |-> cap[c].ncap]]
          /\ log' = [log EXCEPT !.n = @ + 1, !.seen[c] = @ + 1,
                                !.met = @ \union IF Inside(c) # {} THEN {c} ELSE {}]
  /\ UNCHANGED <<netif, cap, cmd, prt, pool, buf>>

\* cap->ncap is stored, and the filter asked.
capture_filter(r) ==
  /\ At(r, "ncap")
  /\ LET c == rcv[r].cap IN
     /\ cap' = [cap EXCEPT ![c].ncap = rcv[r].n + 1]
     /\ rcv' = [rcv EXCEPT ![r] = IF snoopFilter(cap[c].opt, @.pkt.p)
                                  THEN [@ EXCEPT !.pc = "nmatch", !.n = cap[c].nmatch]
                                  ELSE Idle]
  /\ UNCHANGED <<netif, cmd, prt, pool, buf, log>>

capture_match(r) ==
  /\ At(r, "nmatch")
  /\ cap' = [cap EXCEPT ![rcv[r].cap].nmatch = rcv[r].n + 1]
  /\ Step(r, "getbuf")
  /\ UNCHANGED <<netif, cmd, prt, pool, buf, log>>

\* netGetbuf() waits for a buffer; the packet is copied.
capture_getbuf(r) ==
  /\ At(r, "getbuf")
  /\ \E b \in pool :
       /\ pool' = pool \ {b}
       /\ buf' = [buf EXCEPT ![b] = rcv[r].pkt]
       /\ rcv' = [rcv EXCEPT ![r].pc = "count", ![r].buf = b]
  /\ UNCHANGED <<netif, cap, cmd, prt, log>>

\* mailboxCount() of a mailbox that was freed is SYSERR, less than any length.
capture_count(r) ==
  /\ At(r, "count")
  /\ LET c == rcv[r].cap IN
     rcv' = [rcv EXCEPT ![r] = IF cap[c].queue = "alloc" /\ Len(cap[c].msgs) >= SNOOP_QLEN
                               THEN [@ EXCEPT !.pc = "novrn", !.n = cap[c].novrn]
                               ELSE [@ EXCEPT !.pc = "send"]]
  /\ UNCHANGED <<netif, cap, cmd, prt, pool, buf, log>>

\* The queue is full: netFreebuf(), and cap->novrn is stored.
capture_overrun(r) ==
  /\ At(r, "novrn")
  /\ pool' = pool \union {rcv[r].buf}
  /\ cap' = [cap EXCEPT ![rcv[r].cap].novrn = rcv[r].n + 1]
  /\ rcv' = [rcv EXCEPT ![r] = Idle]
  /\ UNCHANGED <<netif, cmd, prt, buf, log>>

\* mailboxSend() waits for room, and fails once the mailbox is free.
capture_send(r) ==
  /\ At(r, "send")
  /\ LET c == rcv[r].cap IN
     \/ /\ cap[c].queue # "alloc"
        /\ pool' = pool \union {rcv[r].buf}
        /\ UNCHANGED cap
     \/ /\ cap[c].queue = "alloc" /\ Len(cap[c].msgs) < SNOOP_QLEN
        /\ cap' = [cap EXCEPT ![c].msgs = Append(@, rcv[r].buf)]
        /\ UNCHANGED pool
  /\ rcv' = [rcv EXCEPT ![r] = Idle]
  /\ UNCHANGED <<netif, cmd, prt, buf, log>>

-----------------------------------------------------------------------------
(* The thread that prints: snoop(), snoopRead(), snoopPrint() *)

\* snoopPrint(): what is printed of packet p of which n layers were captured.
\* The rest of the buffer is zero, so that a header that was not captured is one
\* of no known type.
Summary(p, n) ==
  IF n < 1 \/ p.etype \notin {"ARP", "IPv4"} THEN "" ELSE IF n < 2 THEN p.etype
  ELSE IF p.etype = "ARP" THEN "arp" ELSE p.proto

snoopPrintEthernet(verbose) == IF verbose = 2 THEN <<"Ethernet">> ELSE <<>>
snoopPrintArp(verbose) == IF verbose >= 1 THEN <<"ARP">> ELSE <<>>
snoopPrintIpv4(verbose) == IF verbose >= 1 THEN <<"IPv4">> ELSE <<>>
snoopPrintTcp(verbose) == IF verbose >= 1 THEN <<"TCP">> ELSE <<>>
snoopPrintUdp(verbose) == IF verbose >= 1 THEN <<"UDP">> ELSE <<>>

Headers(p, n, verbose) ==
  snoopPrintEthernet(verbose) \o
    (IF n < 1 THEN <<>>
     ELSE IF p.etype = "ARP" THEN snoopPrintArp(verbose)
     ELSE IF p.etype = "IPv4"
     THEN snoopPrintIpv4(verbose) \o
            (IF n < 2 THEN <<>>
             ELSE IF p.proto = "TCP" THEN snoopPrintTcp(verbose)
             ELSE IF p.proto = "UDP" THEN snoopPrintUdp(verbose) ELSE <<>>)
     ELSE <<>>)

Shorter(m, n) == IF m < n THEN m ELSE n

snoopPrint(pkt, o) ==
  LET n == Shorter(pkt.p.len, o.caplen) IN
  [n |-> pkt.n, summary |-> Summary(pkt.p, n),
   headers |-> IF o.verbose = 0 THEN <<>> ELSE Headers(pkt.p, n, o.verbose),
   dump |-> IF o.dump = "NONE" THEN 0 ELSE pkt.p.len]

snoopRead(c) ==
  /\ prt[c].pc = "read" /\ cap[c].msgs # <<>>
  /\ prt' = [prt EXCEPT ![c].pc = "print", ![c].buf = Head(cap[c].msgs)]
  /\ cap' = [cap EXCEPT ![c].msgs = Tail(@)]
  /\ UNCHANGED <<netif, cmd, rcv, pool, buf, log>>

\* snoopPrint(), netFreebuf() and the test of the loop.
print_free(c) ==
  /\ prt[c].pc = "print"
  /\ pool' = pool \union {prt[c].buf}
  /\ log' = [log EXCEPT !.printed[c] = Append(@, snoopPrint(buf[prt[c].buf], cap[c].opt))]
  /\ prt' = [prt EXCEPT ![c] = [pc |-> IF @.todo = 1 THEN "over" ELSE "read",
                                todo |-> IF @.todo > 0 THEN @.todo - 1 ELSE 0, buf |-> NONE]]
  /\ UNCHANGED <<netif, cap, cmd, rcv, buf>>

-----------------------------------------------------------------------------
(* xsh_snoop(), snoopOpen(), snoopClose() *)

Goto(c, step) == cmd' = [cmd EXCEPT ![c] = step]

xsh_snoop(c) ==
  /\ cmd[c] = "idle"
  /\ \E args \in ArgLists : \E o \in Parsed(args) :
       /\ cap' = [cap EXCEPT ![c].opt = o]
       /\ Goto(c, IF o.fails THEN "done" ELSE "open")
  /\ UNCHANGED <<netif, prt, rcv, pool, buf, log>>

\* Statistics are reset and the mailbox is allocated.
open_mailbox(c) ==
  /\ cmd[c] = "open"
  /\ \/ /\ cap' = [cap EXCEPT ![c].queue = "alloc"]
        /\ Goto(c, "attach")
     \/ /\ "mailboxAlloc" \in Fails
        /\ Goto(c, "done") /\ UNCHANGED cap
  /\ UNCHANGED <<netif, prt, rcv, pool, buf, log>>

\* The interfaces a capture goes to: all that are up, or the one of the device.
\* A capture that another command has there is replaced.
Chosen(dev) == {i \in Nif : netif[i].up /\ dev \in {"ALL", i}}

\* Without an interface the call fails, and the mailbox stays allocated.
snoopOpen(c) ==
  /\ cmd[c] = "attach"
  /\ netif' = [i \in Nif |-> IF i \in Chosen(cap[c].opt.dev)
                             THEN [netif[i] EXCEPT !.capture = c] ELSE netif[i]]
  /\ Goto(c, IF Chosen(cap[c].opt.dev) = {} THEN "done" ELSE "start")
  /\ log' = [log EXCEPT !.failed = @ \union IF Chosen(cap[c].opt.dev) = {} THEN {c} ELSE {}]
  /\ UNCHANGED <<cap, prt, rcv, pool, buf>>

start_thread(c) ==
  /\ cmd[c] = "start"
  /\ \/ /\ prt' = [prt EXCEPT ![c] = [pc |-> "read", todo |-> cap[c].opt.count, buf |-> NONE]]
        /\ Goto(c, "wait")
     \/ /\ "create" \in Fails
        /\ Goto(c, "close") /\ UNCHANGED prt
  /\ UNCHANGED <<netif, cap, rcv, pool, buf, log>>

\* Without a count the command waits for Enter and kills the thread, whatever it
\* is at; with one it waits until the thread has ended.
stop_thread(c) ==
  /\ cmd[c] = "wait"
  /\ \/ cap[c].opt.count = 0 /\ prt' = [prt EXCEPT ![c].pc = "killed"]
     \/ cap[c].opt.count # 0 /\ prt[c].pc = "over" /\ UNCHANGED prt
  /\ Goto(c, "close")
  /\ UNCHANGED <<netif, cap, rcv, pool, buf, log>>

\* As it would be if only the interface that was asked for were looked at.
close_detach_named(c) ==
  /\ cmd[c] = "close"
  /\ netif' = [i \in Nif |-> IF netif[i].capture = c /\ cap[c].opt.dev = i
                             THEN [netif[i] EXCEPT !.capture = NONE] ELSE netif[i]]
  /\ log' = [log EXCEPT !.late = @ \union IF Inside(c) # {} THEN {c} ELSE {}]
  /\ Goto(c, "drain")
  /\ UNCHANGED <<cap, prt, rcv, pool, buf>>

close_detach(c) ==
  /\ cmd[c] = "close"
  /\ netif' = [i \in Nif |-> IF netif[i].capture = c
                             THEN [netif[i] EXCEPT !.capture = NONE] ELSE netif[i]]
  /\ log' = [log EXCEPT !.late = @ \union IF Inside(c) # {} THEN {c} ELSE {}]
  /\ Goto(c, "drain")
  /\ UNCHANGED <<cap, prt, rcv, pool, buf>>

\* Queued packets are freed one by one until mailboxCount() is 0.
close_drain(c) ==
  /\ cmd[c] = "drain"
  /\ IF cap[c].msgs = <<>> THEN Goto(c, "free") /\ UNCHANGED <<cap, pool>>
     ELSE /\ pool' = pool \union {Head(cap[c].msgs)}
          /\ cap' = [cap EXCEPT ![c].msgs = Tail(@)]
          /\ UNCHANGED cmd
  /\ UNCHANGED <<netif, prt, rcv, buf, log>>

snoopClose(c) ==
  /\ cmd[c] = "free"
  /\ cap' = [cap EXCEPT ![c].queue = "free"]
  /\ Goto(c, "done")
  /\ UNCHANGED <<netif, prt, rcv, pool, buf, log>>

Next ==
  \/ \E r \in Receiver :
       \/ snoopCapture(r) \/ capture_filter(r) \/ capture_match(r) \/ capture_getbuf(r)
       \/ capture_count(r) \/ capture_overrun(r) \/ capture_send(r)
  \/ \E c \in Cmd :
       \/ snoopRead(c) \/ print_free(c)
       \/ xsh_snoop(c) \/ open_mailbox(c) \/ snoopOpen(c) \/ start_thread(c) \/ stop_thread(c)
       \/ close_detach(c) \/ close_drain(c) \/ snoopClose(c)

-----------------------------------------------------------------------------

TypeOK ==
  /\ DOMAIN netif = Nif /\ \A i \in Nif : netif[i].capture \in Cmd \union {NONE}
  /\ \A c \in Cmd :
       /\ cmd[c] \in {"idle", "open", "attach", "start", "wait", "close", "drain", "free", "done"}
       /\ prt[c].pc \in {"none", "read", "print", "over", "killed"}
       /\ cap[c].queue \in {"none", "alloc", "free"} /\ Len(cap[c].msgs) <= SNOOP_QLEN
  /\ \A r \in Receiver :
       rcv[r].pc \in {"idle", "ncap", "nmatch", "getbuf", "count", "novrn", "send"}
  /\ pool \subseteq Buf

\* A buffer is in one place: in the pool, with a caller of snoopCapture(), queued
\* once in one mailbox, or with one thread that prints.
Holders(b) ==
  {<<"receiver", r>> : r \in {r \in Receiver : rcv[r].buf = b}} \union
  {<<"printer", c>> : c \in {c \in Cmd : prt[c].buf = b}} \union
  UNION {{<<"queue", c, n>> : n \in {n \in DOMAIN cap[c].msgs : cap[c].msgs[n] = b}} : c \in Cmd}

OnePlace == \A b \in Buf : Cardinality(Holders(b)) = IF b \in pool THEN 0 ELSE 1

\* snoopClose() gives every buffer back unless a caller was in snoopCapture() when
\* the capture was taken off the interfaces: it can queue a packet between the
\* last mailboxCount() and mailboxFree(), which drops the queue.
DrainedAtClose ==
  \A c \in Cmd : cap[c].queue = "free" /\ cap[c].msgs # <<>> => c \in log.late


\* No interface keeps a capture whose command has gone, so that no new caller can
\* meet it; the mailbox of a command that has gone is allocated only if its
\* snoopOpen() failed.
NothingDangles ==
  \A c \in Cmd : cmd[c] = "done" =>
    /\ \A i \in Nif : netif[i].capture # c
    /\ (cap[c].queue = "alloc") <=> (c \in log.failed)

\* Statistics: the counters never exceed what has happened, and they are exact
\* unless two threads have been in snoopCapture() for the capture at once.
Midway(c, steps) == Cardinality({r \in Inside(c) : rcv[r].pc \in steps})

StatisticsExact ==
  \A c \in Cmd :
    LET stored == log.seen[c] - Midway(c, {"ncap"})
        matched == cap[c].nmatch - Midway(c, {"getbuf", "count", "novrn", "send"})
    IN /\ cap[c].ncap <= stored
       /\ c \notin log.met => cap[c].ncap = stored
       /\ c \notin log.met /\ cap[c].queue = "alloc" /\ cmd[c] # "drain" /\ cmd[c] # "free" =>
            matched = Len(log.printed[c]) + Len(cap[c].msgs) + cap[c].novrn
                        + (IF prt[c].buf # NONE THEN 1 ELSE 0)

\* What the filter is to let through: packets of the type that was asked for, from
\* and to the addresses that were asked for.  A filter with a port lets nothing
\* through, though the usage text says that ports matter to UDP and TCP only.
Wanted(o, p) ==
  \/ NoFilter(o)
  \/ /\ p.len >= 2
     /\ CASE o.type = "ALL" -> p.etype \in {"ARP", "IPv4"}
          [] o.type \in {"ARP", "IPv4"} -> p.etype = o.type
          [] OTHER -> p.etype = "IPv4" /\ p.proto = o.type
     /\ o.srcaddr # NONE => p.pralen = 4 /\ p.src = o.srcaddr
     /\ o.dstaddr # NONE => p.pralen = 4 /\ p.dst = o.dstaddr

\* A thread prints only packets its command asked for, in the order in which they
\* came unless two callers met, and names what it prints correctly if the whole
\* packet was captured.
PrintsWhatWasAsked ==
  \A c \in Cmd :
    /\ \A k \in DOMAIN cap[c].msgs :
         LET p == buf[cap[c].msgs[k]].p IN Wanted(cap[c].opt, p) /\ PortMatches(cap[c].opt)
    /\ c \notin log.met =>
         \A j, k \in DOMAIN log.printed[c] :
           j < k => log.printed[c][j].n < log.printed[c][k].n
    /\ prt[c].pc = "print" =>
         LET p == buf[prt[c].buf].p
             out == snoopPrint(buf[prt[c].buf], cap[c].opt)
         IN cap[c].opt.caplen >= p.len /\ p.len >= 2 =>
              /\ (out.summary = p.proto) <=> (p.etype = "IPv4")
              /\ (out.summary = "") <=> p.etype \notin {"ARP", "IPv4"}
              /\ (out.headers # <<>>) <=>
                   \/ cap[c].opt.verbose = 2
                   \/ cap[c].opt.verbose = 1 /\ p.etype \in {"ARP", "IPv4"}
=============================================================================
