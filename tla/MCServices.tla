----------------------------- MODULE MCServices -----------------------------
(***************************************************************************)
(* What runs on the kernel, for TLC: the heap and the user heap, mailboxes *)
(* and buffer pools, the Telnet and the web server, the shell and its      *)
(* commands, the C library.  A behaviour is about one of them: part says   *)
(* which one, and the variables of the others stay as they are.  heap is   *)
(* this module's own Memory and stray another one, mailbox and mailtab are *)
(* two instances of Mailbox, pool and pools of BufPool, and so on; s1 to   *)
(* s11 are variables of several services.                                  *)
(***************************************************************************)
EXTENDS Memory

CONSTANTS SYSERR, GARBAGE, Parts

VARIABLES
  part,
  live, value, waiting, state, pc,
  sender, receiver, max, count, start, msgs, nextmbx, box, arg,
  bufsize, nbuf, head, next, freebuf, link, poolid, heap, held, asked, pool, buf,
  s1, s2, s3, s4, s5, s6, s7, s8, s9, s10, s11

HeapRequests == {0, 1, 8, 12, 24}

\* Addresses are freed that nobody was given.
Stray == INSTANCE Memory WITH
  maxaddr <- 48, Sizes <- {0, 8, 12}, Strays <- {8, 16, 28, 32, 40, 48}, MaxOwned <- 2,
  memlist <- s1, total <- s2, owned <- s3

Box1 == INSTANCE Mailbox WITH
  Thread <- {"t1", "t2", "t3"}, Sem <- {"tab", "s1", "s2"}, BADSEM <- SYSERR,
  NMAILBOX <- 1, mboxtabsem <- "tab", Counts <- {0, 2}, Msgs <- {1, 2},
  FreeInUse <- FALSE, AllocTogether <- FALSE

Box2 == INSTANCE Mailbox WITH
  Thread <- {"t1", "t2"}, Sem <- {"tab", "s1", "s2", "s3"}, BADSEM <- SYSERR,
  NMAILBOX <- 2, mboxtabsem <- "tab", Counts <- {0, 1}, Msgs <- {1},
  FreeInUse <- FALSE, AllocTogether <- FALSE

Pool1 == INSTANCE BufPool WITH
  Thread <- {"t1", "t2", "t3"}, Sem <- {"s1"}, BADSEM <- SYSERR,
  NPOOL <- 1, Cells <- 3, Nbufs <- {0, 1, 3}, Bufsizes <- {5},
  POOL_MAX_BUFSIZE <- 2048, POOL_MIN_BUFSIZE <- 8, POOL_MAX_NBUFS <- 8192,
  FreeInUse <- FALSE, HeapShort <- FALSE

Pool2 == INSTANCE BufPool WITH
  Thread <- {"t1", "t2"}, Sem <- {"s1", "s2"}, BADSEM <- SYSERR,
  NPOOL <- 2, Cells <- 2, Nbufs <- {2}, Bufsizes <- {4},
  POOL_MAX_BUFSIZE <- 2048, POOL_MIN_BUFSIZE <- 8, POOL_MAX_NBUFS <- 8192,
  FreeInUse <- FALSE, HeapShort <- TRUE

\* The keys that edit and end a line; and two sessions with what is written in them.
Telnet1 == INSTANCE Telnet WITH
  TELNET_IBLEN <- 8, TELNET_OBLEN <- 3, Keys <- {"BS", "^U", "NL", "EOT"},
  Chars <- {}, MaxKeys <- 2, MaxWrites <- 0, MaxSessions <- 1,
  Tcps <- {"c1"},
  tnt <- s1, user <- s2, up <- s3, down <- s4, flushing <- s5, client <- s6,
  server <- s7, tcps <- s8, wrote <- s9, seen <- s10, sent <- s11

Telnet2 == INSTANCE Telnet WITH
  TELNET_IBLEN <- 8, TELNET_OBLEN <- 3, Keys <- {"a"}, Chars <- {"IAC", "NL"},
  MaxKeys <- 0, MaxWrites <- 2, MaxSessions <- 2, Tcps <- {"c1", "c2"},
  tnt <- s1, user <- s2, up <- s3, down <- s4, flushing <- s5, client <- s6,
  server <- s7, tcps <- s8, wrote <- s9, seen <- s10, sent <- s11

Request(m, u, c) ==
  [method |-> m, version |-> TRUE, uri |-> u, content |-> c, boundary |-> c]
WebRequests ==
  {Request("GET", "shell", FALSE), Request("GET", "index", FALSE),
   Request("POST", "config", TRUE), Request("HEAD", "shell", FALSE),
   Request("bad", "none", FALSE)}

\* One device that a shell writes to; and the XWeb server with its devices.
Http1 == INSTANCE Http WITH
  Sem <- {"zero", "max", "active", "close"}, Thread <- {"sh", "kl", "ks", "sv"},
  HTTP_RBLEN <- 5, HTTP_WBLEN <- 4, HTTP_MAX_HDRS <- 2, Requests <- WebRequests,
  Writes <- {<<"c">>, <<"c", "c", "c", "c", "c">>}, MaxWrites <- 2, MaxReads <- 2,
  MaxOpens <- 1, Server <- FALSE, BADSEM <- SYSERR,
  web <- s1, rqst <- s2, sent <- s3, heap <- s4, pc <- s5, log <- s6

Http2 == INSTANCE Http WITH
  Sem <- {"zero", "max", "active", "close"}, Thread <- {"sh", "kl", "ks", "sv"},
  HTTP_RBLEN <- 5, HTTP_WBLEN <- 4, HTTP_MAX_HDRS <- 2, Requests <- WebRequests,
  Writes <- {<<"c">>, <<"c", "c", "c", "c", "c">>}, MaxWrites <- 2, MaxReads <- 2,
  MaxOpens <- 5, Server <- TRUE, BADSEM <- SYSERR,
  web <- s1, rqst <- s2, sent <- s3, heap <- s4, pc <- s5, log <- s6

\* Words and numbers among the arguments of snoop, and packets.
Word(s) == [s |-> s, v |-> 0]
Number(v) == [s |-> "", v |-> v]
Packet(l, e, p, s) ==
  [len |-> l, etype |-> e, proto |-> p, src |-> s, dst |-> 2, pralen |-> 4]
AnyPackets == {Packet(3, "IPv4", "UDP", 1), Packet(3, "ARP", "", 3), Packet(1, "other", "", 1)}
FewPackets == {Packet(3, "IPv4", "UDP", 1), Packet(1, "other", "", 1)}
SnoopOnce == {<<Word("-c"), Number(1)>>, <<Word("-t"), Word("UDP")>>}
SnoopArgs ==
  {<<Word("-c"), Number(1)>>, <<Word("-t"), Word("UDP"), Word("-v")>>, <<Word("-t")>>,
   <<Word("-i"), Word("e0"), Word("-sa"), Number(1), Word("-vv")>>, <<Word("-c")>>,
   <<Word("-x")>>, <<Word("-d"), Word("-s"), Number(1)>>}

\* Two callers at once; every option; and two captures.
Snoop1 == INSTANCE Snoop WITH
  Receiver <- {"r1", "r2"}, Cmd <- {1}, Nif <- {"e0"}, Buf <- {1, 2}, SNOOP_QLEN <- 1,
  Packets <- FewPackets, ArgLists <- SnoopOnce, MaxPackets <- 2, Fails <- {},
  netif <- s1, cap <- s2, cmd <- s3, prt <- s4, rcv <- s5, pool <- s6, buf <- s7, log <- s8

Snoop2 == INSTANCE Snoop WITH
  Receiver <- {"r1"}, Cmd <- {1}, Nif <- {"e0", "e1"}, Buf <- {1, 2}, SNOOP_QLEN <- 1,
  Packets <- AnyPackets, ArgLists <- SnoopArgs, MaxPackets <- 2,
  Fails <- {"mailboxAlloc", "create"},
  netif <- s1, cap <- s2, cmd <- s3, prt <- s4, rcv <- s5, pool <- s6, buf <- s7, log <- s8

Snoop3 == INSTANCE Snoop WITH
  Receiver <- {"r1"}, Cmd <- {1, 2}, Nif <- {"e0", "e1"}, Buf <- {1}, SNOOP_QLEN <- 1,
  Packets <- FewPackets, ArgLists <- {<<Word("-c"), Number(1)>>}, MaxPackets <- 1, Fails <- {},
  netif <- s1, cap <- s2, cmd <- s3, prt <- s4, rcv <- s5, pool <- s6, buf <- s7, log <- s8

\* The telnet client with a server that negotiates, and nc.
Calls == {"netLookup", "tcpAlloc", "open", "create"}
Client1 == INSTANCE Client WITH
  Prog <- "telnet", MaxOffers <- 2, MaxKeys <- 1, Keys <- {"BS", "LF", "QUIT"}, Fails <- {},
  ArgLists <- {<<"addr">>},
  Offers <- {<<"t">>, <<"IAC", "WILL", "ECHO">>, <<"IAC", "WONT", "ECHO">>, <<"IAC", "WILL">>,
             <<"IAC", "DO", "SGA">>, <<"IAC", "DONT", "SGA">>, <<"IAC", "AYT">>,
             <<"IAC", "IAC">>},
  cmd <- s1, wrk <- s2, dev <- s3, tty <- s4, log <- s5

Client2 == INSTANCE Client WITH
  Prog <- "telnet", MaxOffers <- 1, MaxKeys <- 1, Keys <- {"QUIT"}, Fails <- Calls,
  ArgLists <- {<<>>, <<"--help">>, <<"addr">>, <<"port">>, <<"badaddr">>, <<"addr", "port">>,
               <<"addr", "0">>, <<"addr", "port", "port">>},
  Offers <- {<<"t">>, <<"IAC", "EC">>},
  cmd <- s1, wrk <- s2, dev <- s3, tty <- s4, log <- s5

Client3 == INSTANCE Client WITH
  Prog <- "nc", MaxOffers <- 2, MaxKeys <- 2, Keys <- {"LF"}, Fails <- Calls,
  ArgLists <- {<<>>, <<"--help">>, <<"addr", "port">>, <<"-l", "addr", "port">>,
               <<"-s", "addr", "addr", "port">>, <<"badaddr", "port">>, <<"-l", "-x">>},
  Offers <- {<<"t">>}, cmd <- s1, wrk <- s2, dev <- s3, tty <- s4, log <- s5

\* voip, with numbers of packets that wrap.
Voip1 == INSTANCE Voip WITH
  ArgLists <- {<<>>, <<"--help">>, <<"-s", "addr">>, <<"serial">>, <<"-p", "22020">>,
               <<"-p", "bad", "22020", "localhost">>, <<"-s", "bad">>, <<"addr">>,
               <<"localhost", "-s">>},
  UINT <- 4, MaxSent <- 3, MaxPlayed <- 3, MaxRestarts <- 1, MaxAir <- 2,
  Fails <- {"open", "udpAlloc", "udpOpen", "netLookup", "netUp"},
  cmd <- s1, held <- s2, snd <- s3, air <- s4, rcv <- s5, log <- s6

\* The shell: a few lines one after another, and every short line by itself.
Shell1 == INSTANCE Shell WITH
  Lines <- {<<"c", "&", "NL">>, <<"c", " ", "e", "NL">>, <<"c", ">", "d", "<", "d", "NL">>,
            <<"c", "<", "d", " ", "e", "NL">>, <<"k", " ", "1", "NL">>, <<"!", "1", "NL">>,
            <<"!", "!", "NL">>, <<"x", "NL">>, <<"!", "9", "NL">>},
  Child <- {1, 2}, Devices <- {<<"d">>}, SHELL_MAXTOK <- 4, HISTORY_LENGTH <- 2,
  MaxLines <- 3, CreateFails <- FALSE,
  sh <- s1, tok <- s2, thr <- s3, msg <- s4, history <- s5, log <- s6

Shell2 == INSTANCE Shell WITH
  Lines <- {l \o <<"NL">> : l \in UNION {[1 .. n -> {"c", " ", "q", ">", "&"}] : n \in 0 .. 4}},
  Child <- {1}, Devices <- {<<"d">>}, SHELL_MAXTOK <- 3, HISTORY_LENGTH <- 2,
  MaxLines <- 1, CreateFails <- TRUE,
  sh <- s1, tok <- s2, thr <- s3, msg <- s4, history <- s5, log <- s6

\* Commands: two shells that configure the network, and one that runs all others.
Commands1 == INSTANCE Commands WITH
  Shells <- {1, 2}, NNETIF <- 2, NET_NTHR <- 1, RT_NENTRY <- 3, NTELNET <- 2, SYSERR <- -1,
  NetDevs <- {"ETH0", "ETH1"}, MaxCommands <- 4,
  Typed <- {<<"netup">>, <<"netup", "ETH1", "a", "m", "b">>, <<"netdown", "ETH0">>,
            <<"netdown", "ETH1">>, <<"route">>, <<"route", "add", "b", "a", "m", "ETH0">>,
            <<"route", "del", "default">>, <<"route", "add", "bad", "a", "m", "ETH0">>},
  netif <- s1, rt <- s2, sys <- s3, run <- s4, log <- s5

Commands2 == INSTANCE Commands WITH
  Shells <- {1}, NNETIF <- 1, NET_NTHR <- 1, RT_NENTRY <- 2, NTELNET <- 2, SYSERR <- -1,
  NetDevs <- {"ETH0", "ETH1"}, MaxCommands <- 3,
  Typed <- {<<"date", "x">>, <<"netstat">>, <<"tcpstat", "--help">>, <<"udpstat">>, <<"arp">>,
            <<"rdate", "a">>, <<"clear", "--help">>, <<"gpiostat">>, <<"flashstat">>,
            <<"vlanstat">>, <<"ps">>, <<"help", "bad">>, <<"ethstat", "-t", "0">>,
            <<"sleep", "-1">>, <<"led", "dmz", "on">>, <<"led", "x", "on">>,
            <<"led", "dmz", "off">>, <<"nvram", "set", "ipaddr", "a">>,
            <<"nvram", "unset", "ipaddr">>, <<"nvram", "get", "ipaddr">>,
            <<"nvram", "commit">>, <<"nvram", "--help">>, <<"nvram", "list">>,
            <<"nvram", "set", "ipaddr", "">>, <<"user", "13">>, <<"user", "14">>, <<"user">>,
            <<"telnetserver">>, <<"telnetserver", "-h">>, <<"telnetserver", "-p">>,
            <<"telnetserver", "-p", "23", "-d", "ETH0">>, <<"netup", "ETH0", "a", "bad", "b">>,
            <<"netup", "CONSOLE">>, <<"netup", "--help">>, <<"netup">>, <<"netdown", "--help">>,
            <<"netdown">>, <<"netdown", "ETH0">>, <<"route", "--help">>},
  netif <- s1, rt <- s2, sys <- s3, run <- s4, log <- s5

\* The user heap of threads that die: one of whole pages, and one that starts inside
\* a page, where a region is handed over.
Region1 == INSTANCE Region WITH
  Thread <- {1, 2}, PAGE_SIZE <- 32, UINT <- 1024, start_ <- 32, end_ <- 40, memheap <- 64,
  table <- 96, userheap <- 160, UHEAP_SIZE <- 96, maxaddr <- 256, Sizes <- {9, 40, 1020},
  MaxOwned <- 2, Transfers <- FALSE, regfreelist <- s1, regalloclist <- s2, pgtbl <- s3,
  memlist <- s4, total <- s5, owned <- s6, alive <- s7, log <- s8

Region2 == INSTANCE Region WITH
  Thread <- {1, 2}, PAGE_SIZE <- 32, UINT <- 1024, start_ <- 32, end_ <- 40, memheap <- 64,
  table <- 96, userheap <- 168, UHEAP_SIZE <- 88, maxaddr <- 256, Sizes <- {1, 24},
  MaxOwned <- 1, Transfers <- TRUE, regfreelist <- s1, regalloclist <- s2, pgtbl <- s3,
  memlist <- s4, total <- s5, owned <- s6, alive <- s7, log <- s8

\* The C library, with longs of 16 bits.
LongArg(n) == [n |-> n, s |-> <<>>, null |-> FALSE]
StringArg(s) == [n |-> 0, s |-> s, null |-> s = <<>>]
Conversions ==
  {[fmt |-> <<65, 37>> \o flags \o width \o <<f, 66>>, args |-> <<LongArg(n)>>] :
     flags \in {<<>>, <<45>>, <<48>>, <<45, 48>>}, width \in {<<>>, <<56>>, <<57, 57>>},
     f \in {99, 100, 117, 111, 88, 120, 98},
     n \in {0, 7, 10, 2047, 2048, 30000, 32767, -32768, -32767, -25536, -1}}
  \union {[fmt |-> <<37>> \o left \o <<42>> \o most \o <<115>>,
            args |-> <<LongArg(width), StringArg(s)>>] :
     left \in {<<>>, <<45>>}, width \in {-1, 0, 5}, most \in {<<>>, <<46, 50>>},
     s \in {<<>>, <<65>>, <<65, 66, 67>>, <<65, 66, 67, 68, 69, 70>>}}
  \union {[fmt |-> f, args |-> <<>>] :
     f \in {<<65, 66>>, <<65, 37>>, <<37, 37, 66>>, <<37, 122>>, <<37, 45, 48, 49>>}}

Lib1 == INSTANCE Lib WITH
  Functions <- {"strnlen", "strchr", "strrchr", "strstr", "strncmp", "strncpy", "strncat",
                "memcmp", "memchr", "memset", "bzero", "memcpy", "atoi", "qsort", "sprintf"},
  Strings <- UNION {[1 .. n -> 1 .. 2] : n \in 0 .. 3}, Chars <- {0, 1, 2}, Counts <- 0 .. 3,
  Memories <- [1 .. 3 -> 0 .. 1], Arrays <- UNION {[1 .. n -> 1 .. n] : n \in 0 .. 4},
  Numerals <- {<<32, 45, 49, 50>>, <<9, 43, 49, 65>>, <<45, 45, 49>>, <<51, 50, 55, 54, 56>>},
  Prints <- Conversions, Rubbish <- {<<>>, <<63>>}, W <- 65536, CHUNK <- 10000,
  D10 <- 5, D8 <- 6, D16 <- 4, D2 <- 16, STRLEN <- 12, MAXSTR <- 80,
  call <- s1, res <- s2, qs <- s3, pr <- s4

semvars == <<live, value, waiting>>
threadvars == <<live, value, waiting, state, pc>>
boxvars == <<sender, receiver, max, count, start, msgs, nextmbx, box, arg>>
poolvars == <<bufsize, nbuf, head, next, freebuf, link, poolid, heap, held, asked,
  pool, buf>>
last3 == <<s9, s10, s11>>
last5 == <<s7, s8, last3>>
serviceVars == <<s1, s2, s3, s4, s5, s6, last5>>
allvars == <<part, vars, threadvars, boxvars, poolvars, serviceVars>>

NoSems == live = 0 /\ value = 0 /\ waiting = 0
NoThreads == NoSems /\ state = 0 /\ pc = 0
NoBoxes ==
  /\ sender = 0 /\ receiver = 0 /\ max = 0 /\ count = 0 /\ start = 0 /\ msgs = 0
  /\ nextmbx = 0 /\ box = 0 /\ arg = 0
NoPools ==
  /\ bufsize = 0 /\ nbuf = 0 /\ head = 0 /\ next = 0 /\ freebuf = 0 /\ link = 0
  /\ poolid = 0 /\ heap = 0 /\ held = 0 /\ asked = 0 /\ pool = 0 /\ buf = 0

NoLast3 == s9 = 0 /\ s10 = 0 /\ s11 = 0
NoLast5 == s7 = 0 /\ s8 = 0 /\ NoLast3
NoServices ==
  /\ s1 = 0 /\ s2 = 0 /\ s3 = 0 /\ s4 = 0 /\ s5 = 0 /\ s6 = 0 /\ NoLast5

PartsInit ==
  /\ part \in Parts
  /\ Init
  /\ \/ /\ NoServices
        /\ \/ part = "heap" /\ NoThreads /\ NoBoxes /\ NoPools
           \/ part = "mailbox" /\ Box1!Init /\ NoPools
           \/ part = "mailtab" /\ Box2!Init /\ NoPools
           \/ part = "pool" /\ Pool1!Init /\ NoBoxes
           \/ part = "pools" /\ Pool2!Init /\ NoBoxes
     \/ /\ NoBoxes /\ NoPools /\ state = 0 /\ pc = 0
        /\ \/ part = "telnet1" /\ Telnet1!Init /\ NoSems
           \/ part = "telnet2" /\ Telnet2!Init /\ NoSems
           \/ part = "http1" /\ Http1!Init /\ NoLast5
           \/ part = "http2" /\ Http2!Init /\ NoLast5
           \/ NoSems /\ NoLast3 /\ \/ part = "snoop1" /\ Snoop1!Init
                                   \/ part = "snoop2" /\ Snoop2!Init
                                   \/ part = "snoop3" /\ Snoop3!Init
                                   \/ part = "region1" /\ Region1!Init
                                   \/ part = "region2" /\ Region2!Init
           \/ /\ NoSems /\ NoLast5
              /\ \/ part = "voip" /\ Voip1!Init
                 \/ part = "shell1" /\ Shell1!Init
                 \/ part = "shell2" /\ Shell2!Init
                 \/ /\ s6 = 0
                    /\ \/ part = "client1" /\ Client1!Init
                       \/ part = "client2" /\ Client2!Init
                       \/ part = "client3" /\ Client3!Init
                       \/ part = "commands1" /\ Commands1!Init
                       \/ part = "commands2" /\ Commands2!Init
                       \/ part = "lib" /\ Lib1!Init /\ s5 = 0
                       \/ part = "stray" /\ Stray!Init /\ s4 = 0 /\ s5 = 0

HeapStep ==
  /\ part = "heap" /\ Next
  /\ UNCHANGED <<threadvars, boxvars, poolvars, serviceVars>>

BoxStep ==
  /\ \/ part = "mailbox" /\ Box1!Next
     \/ part = "mailtab" /\ Box2!Next
  /\ UNCHANGED <<vars, poolvars, serviceVars>>

PoolStep ==
  /\ \/ part = "pool" /\ Pool1!Next
     \/ part = "pools" /\ Pool2!Next
  /\ UNCHANGED <<vars, boxvars, serviceVars>>

ServerStep ==
  /\ \/ /\ \/ part = "telnet1" /\ Telnet1!Next
           \/ part = "telnet2" /\ Telnet2!Next
        /\ UNCHANGED semvars
     \/ /\ \/ part = "http1" /\ Http1!Next
           \/ part = "http2" /\ Http2!Next
        /\ UNCHANGED last5
  /\ UNCHANGED <<vars, state, pc, boxvars, poolvars>>

CommandStep ==
  /\ \/ /\ \/ part = "snoop1" /\ Snoop1!Next
           \/ part = "snoop2" /\ Snoop2!Next
           \/ part = "snoop3" /\ Snoop3!Next
           \/ part = "region1" /\ Region1!Next
           \/ part = "region2" /\ Region2!Next
        /\ UNCHANGED last3
     \/ /\ \/ part = "voip" /\ Voip1!Next
           \/ part = "shell1" /\ Shell1!Next
           \/ part = "shell2" /\ Shell2!Next
        /\ UNCHANGED last5
     \/ /\ \/ part = "client1" /\ Client1!Next
           \/ part = "client2" /\ Client2!Next
           \/ part = "client3" /\ Client3!Next
           \/ part = "commands1" /\ Commands1!Next
           \/ part = "commands2" /\ Commands2!Next
           \/ part = "lib" /\ Lib1!Next /\ UNCHANGED s5
           \/ part = "stray" /\ Stray!Next /\ UNCHANGED <<s4, s5>>
        /\ UNCHANGED <<s6, last5>>
  /\ UNCHANGED <<vars, threadvars, boxvars, poolvars>>

PartsNext ==
  (HeapStep \/ BoxStep \/ PoolStep \/ ServerStep \/ CommandStep) /\ UNCHANGED part

PartsSpec == PartsInit /\ [][PartsNext]_allvars

-----------------------------------------------------------------------------

\* The variables of every service have their types.  Not so in pools: bfpalloc()
\* does not check memget(), and works with SYSERR as an address when it fails.
Types ==
  CASE part = "heap" -> TypeOK
    [] part = "stray" -> Stray!TypeOK
    [] part = "lib" -> Lib1!TypeOK
    [] part = "mailbox" -> Box1!TypeOK
    [] part = "mailtab" -> Box2!TypeOK
    [] part = "pool" -> Pool1!TypeOK
    [] part = "telnet1" -> Telnet1!TypeOK
    [] part = "http1" -> Http1!TypeOK
    [] part = "snoop1" -> Snoop1!TypeOK
    [] part = "client1" -> Client1!TypeOK
    [] part = "voip" -> Voip1!TypeOK
    [] part = "shell1" -> Shell1!TypeOK
    [] part = "commands1" -> Commands1!TypeOK
    [] part = "region1" -> Region1!TypeOK
    [] OTHER -> TRUE

\* The free list survives memfree() of addresses that nobody was given.  The user heap:
\* its regions cover it, blocks lie apart and in it, a thread reaches what malloc() gave
\* it until it calls free(), and nothing of the dead is left in the page table.
HeapSound ==
  /\ part = "stray" => Stray!FreeListSound
  /\ part = "region1" => /\ Region1!RegionsCover /\ Region1!BlocksApart
                         /\ Region1!TouchesItsOwn /\ Region1!NoStaleMapping
                         /\ Region1!LargeEnough /\ Region1!SecondFreeHarmless
                         /\ Region1!RegionsInTable /\ Region1!GivenInHeap
  /\ part = "region2" => /\ Region2!RegionsCover /\ Region2!BlocksApart
                         /\ Region2!TouchesItsOwn /\ Region2!NoStaleMapping
                         /\ Region2!GivenInHeap

\* Whatever senders, receivers, owners and kills interleave, the semaphores of a
\* mailbox count its used and unused places, one thread at a time edits the table,
\* and threads that allocate one after another are given what they set up.
MailboxSound ==
  /\ part = "mailbox" => Box1!SlotsAccounted
  /\ part = "mailtab" => Box2!SlotsAccounted /\ Box2!OneEditor /\ Box2!ReturnsOwn

\* A mailbox is a bounded first-in first-out channel: mailboxReceive() returns every
\* message once, in the order in which mailboxSend() took them.
MailboxesAreChannels == [][part = "mailbox" => Box1!ChannelStep]_allvars

\* A buffer of a pool is in the free list or with one thread, the semaphore counts
\* the free ones, buffree() refuses a buffer that is free already, and pools share
\* no memory.
PoolsSound ==
  /\ part = "pool" =>
       Pool1!BuffersPartitioned /\ Pool1!CountsFree /\ Pool1!SecondFreeRefused
  /\ part = "pools" => Pool2!PoolsApart


\* The shell waits for the command it started and gives it the arguments typed; two
\* shells that configure the network leave no route without its interface and no
\* device with two interfaces.  A capture has every packet in one place and leaves
\* nothing behind when it is closed; a client gives back what it took, shows what the
\* server sent and sends what was typed; voip never plays what is older than what it
\* played before.  The functions of the C library do what they promise.  The exceptions
\* each property names are the code's own.
ProgramsSound ==
  /\ part = "shell1" => /\ Shell1!WaitsForCommand /\ Shell1!WaitsInVainOnlyIfLost
                        /\ Shell1!ArgumentsAsTyped /\ Shell1!RecallsAsListed
  /\ part = "shell2" => Shell2!TokensRight /\ Shell2!ArgumentsAsTyped
  /\ part = "commands1" => /\ Commands1!RoutesLead /\ Commands1!OneInterface
                           /\ Commands1!RefusedChangesNothing
  /\ part = "commands2" => /\ Commands2!RoutesLead /\ Commands2!ListingFollows
                           /\ Commands2!RefusedChangesNothing /\ Commands2!ServersApart
  /\ part = "snoop1" => /\ Snoop1!OnePlace /\ Snoop1!DrainedAtClose /\ Snoop1!NothingDangles
                        /\ Snoop1!StatisticsExact
  /\ part = "snoop2" => Snoop2!PrintsWhatWasAsked /\ Snoop2!DrainedAtClose
  /\ part = "snoop3" => Snoop3!OnePlace /\ Snoop3!NothingDangles
  /\ part = "client1" => /\ Client1!HangsOnlyOnKilled /\ Client1!ShowsTheText
                         /\ Client1!TypedArrives /\ Client1!EchoAgreed
  /\ part = "client2" => Client2!NothingLeft
  /\ part = "client3" => Client3!NothingLeft /\ Client3!HangsOnlyOnKilled /\ Client3!ShowsTheText
  /\ part = "voip" => /\ Voip1!NeverBackwards /\ Voip1!DropsOnlyOld /\ Voip1!HeardOnce
                      /\ Voip1!FailureKeeps
  /\ part = "lib" => /\ Lib1!StringsRight /\ Lib1!MemoryRight /\ Lib1!Partitioned
                     /\ Lib1!Sorts /\ Lib1!PrintsRight

=============================================================================
