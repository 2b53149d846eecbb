------------------------------ MODULE MCDrivers ------------------------------
(***************************************************************************)
(* The device drivers, for TLC: the serial driver, the loopback and the    *)
(* Ethernet loopback, two Ethernet drivers, the flash driver, the line     *)
(* discipline of the terminal.  A behaviour is about one of them: part     *)
(* says which one and with which constants, and the variables of the       *)
(* others stay as they are.  d1 to d8 are variables of several drivers.    *)
(***************************************************************************)
EXTENDS Naturals, Sequences, FiniteSets

CONSTANTS BADSEM, NONE, NULL, Parts

VARIABLES
  part,
  live, value, waiting, pc, todo, left,
  iflags, istart, icount, in, oflags, ostart, ocount, out, oidle, tx, txris, rx,
  owner,
  state, index, flags, sem, buffer, got,
  i, log,
  count, hsem, hold, free, mem, lost, opened, pkt,
  d1, d2, d3, d4, d5, d6, d7, d8

Two == {"t1", "t2"}
Three == {"t1", "t2", "t3"}
UINT == 65536

Uart1 == INSTANCE Uart WITH
  Thread <- Two, Sem <- {"i", "o"}, isema <- "i", osema <- "o",
  UART_IBLEN <- 2, UART_OBLEN <- 2, Chars <- {1, 2}, MaxLen <- 1,
  IFlags <- {}, OFlags <- {}, LateWriters <- FALSE

Uart2 == INSTANCE Uart WITH
  Thread <- Two, Sem <- {"i", "o"}, isema <- "i", osema <- "o",
  UART_IBLEN <- 1, UART_OBLEN <- 1, Chars <- {1}, MaxLen <- 2,
  IFlags <- {"ECHO", "NOBLOCK"}, OFlags <- {"NOBLOCK"}, LateWriters <- FALSE

Uart3 == INSTANCE Uart WITH
  Thread <- Three, Sem <- {"i", "o"}, isema <- "i", osema <- "o",
  UART_IBLEN <- 1, UART_OBLEN <- 2, Chars <- {1}, MaxLen <- 2,
  IFlags <- {}, OFlags <- {}, LateWriters <- TRUE

Loop1 == INSTANCE Loopback WITH
  Thread <- Two, Sem <- {"s1"}, LOOP_BUFFER <- 2, Chars <- {1, 2}, NUL <- 0,
  MaxLen <- 2, MaxWritten <- 3, SetNonblock <- TRUE

Loop2 == INSTANCE Loopback WITH
  Thread <- Three, Sem <- {"s1"}, LOOP_BUFFER <- 2, Chars <- {1, 2}, NUL <- 0,
  MaxLen <- 1, MaxWritten <- 4, SetNonblock <- FALSE

Eth1 == INSTANCE EthLoop WITH
  Thread <- Three, Sem <- {"f", "s1", "s2"}, freebuf <- "f", ELOOP_NBUF <- 2,
  Buf <- {1, 2}, Pkts <- {1, 2}, Flags <- {}, HoldTwice <- FALSE, MaxHeld <- 1

Eth2 == INSTANCE EthLoop WITH
  Thread <- Three, Sem <- {"f", "s1", "s2"}, freebuf <- "f", ELOOP_NBUF <- 2,
  Buf <- {1, 2}, Pkts <- {1}, Flags <- {"HOLDNXT", "DROPNXT"}, HoldTwice <- FALSE,
  MaxHeld <- 1

Eth3 == INSTANCE EthLoop WITH
  Thread <- Two, Sem <- {"f", "s1", "s2"}, freebuf <- "f", ELOOP_NBUF <- 2,
  Buf <- {1, 2}, Pkts <- {1}, Flags <- {"HOLDNXT", "DROPNXT", "DROPALL"},
  HoldTwice <- FALSE, MaxHeld <- 1

Eth4 == INSTANCE EthLoop WITH
  Thread <- Two, Sem <- {"f", "s1", "s2"}, freebuf <- "f", ELOOP_NBUF <- 2,
  Buf <- {1, 2}, Pkts <- {1}, Flags <- {"HOLDNXT"},
  HoldTwice <- TRUE, MaxHeld <- 1

Nic1 == INSTANCE Ether WITH
  Thread <- {"r1", "w1"}, Sem <- {"in", "out"}, Readers <- {"r1"}, Writers <- {"w1"},
  ETH_IBLEN <- 2, ETH_RX_RING_ENTRIES <- 2, ETH_TX_RING_ENTRIES <- 1, MaxRx <- 5,
  MaxTx <- 2, eth <- d1, nic <- d2, mem <- d3, thr <- d4, log <- d5

Nic2 == INSTANCE Ether WITH
  Thread <- {"w1", "w2"}, Sem <- {"in", "out"}, Readers <- {}, Writers <- {"w1", "w2"},
  ETH_IBLEN <- 1, ETH_RX_RING_ENTRIES <- 1, ETH_TX_RING_ENTRIES <- 2, MaxRx <- 0,
  MaxTx <- 5, eth <- d1, nic <- d2, mem <- d3, thr <- d4, log <- d5

LanSem == {<<"in", 0>>, <<"in", 1>>, <<"out", 0>>}

Lan1 == INSTANCE Vlan WITH
  Thread <- {"r1"}, Sem <- LanSem, Readers <- {"r1"}, Writers <- {},
  DeviceOf <- [r1 |-> 1], NETHER <- 2, ETH_IBLEN <- 1, ETH_RX_RING_ENTRIES <- 3,
  ETH_TX_RING_ENTRIES <- 1, MaxRx <- 4, MaxTx <- 0, Errors <- TRUE,
  eth <- d1, nic <- d2, mem <- d3, thr <- d4, log <- d5, ring <- d6

Lan2 == INSTANCE Vlan WITH
  Thread <- {"w1", "w2"}, Sem <- LanSem, Readers <- {}, Writers <- {"w1", "w2"},
  DeviceOf <- [w1 |-> 0, w2 |-> 1], NETHER <- 2, ETH_IBLEN <- 1,
  ETH_RX_RING_ENTRIES <- 3, ETH_TX_RING_ENTRIES <- 3, MaxRx <- 0, MaxTx <- 6,
  Errors <- FALSE,
  eth <- d1, nic <- d2, mem <- d3, thr <- d4, log <- d5, ring <- d6

Region(n, s) == [nblocks |-> n, block_size |-> s]
Erase4 == [start |-> 4, size |-> 2]
Name1 == {<<"a">>}
Name2 == {<<"a">>, <<"a", "b">>}

\* Two users of the cache, and erase blocks of two sizes.
Flash1 == INSTANCE Flash WITH
  Thread <- Two, Sem <- {"lock"}, lock <- "lock", Users <- Two, Committers <- {},
  Regions <- <<Region(2, 1), Region(3, 2)>>, MAX_LIVE_BLOCKS <- 2, CFE_MAX_BLOCK <- 0,
  KERNEL_MAX_BLOCK <- 1, NVRAM_MIN_BLOCK <- 7, commands <- "INTEL_SCS", Values <- {"x"},
  Blocks <- {1, 3, 4}, Locked <- {Erase4}, Hard <- {}, Loose <- {Erase4}, Names <- {},
  Strings <- {}, Hash <- <<>>, Opens <- FALSE, MaxSets <- 0, MaxCommits <- 0, MaxCrashes <- 0,
  flash <- d1, chip <- d2, nv <- d3, arg <- d4, log <- d5, pc <- d6

\* A user next to the settings, and their commits.
Flash2 == INSTANCE Flash WITH
  Thread <- Two, Sem <- {"lock"}, lock <- "lock", Users <- {"t1"}, Committers <- {"t2"},
  Regions <- <<Region(4, 2)>>, MAX_LIVE_BLOCKS <- 2, CFE_MAX_BLOCK <- 0,
  KERNEL_MAX_BLOCK <- 1, NVRAM_MIN_BLOCK <- 7, commands <- "INTEL_SCS", Values <- {"x"},
  Blocks <- {4, 6}, Locked <- {Erase4}, Hard <- {}, Loose <- {}, Names <- Name1,
  Strings <- {<<"1">>}, Hash <- [n \in Name1 |-> 0], Opens <- FALSE, MaxSets <- 1,
  MaxCommits <- 1, MaxCrashes <- 1,
  flash <- d1, chip <- d2, nv <- d3, arg <- d4, log <- d5, pc <- d6

\* The device is opened and closed, and one erase block cannot be unlocked.
Flash3 == INSTANCE Flash WITH
  Thread <- Two, Sem <- {"lock"}, lock <- "lock", Users <- Two, Committers <- {},
  Regions <- <<Region(4, 2)>>, MAX_LIVE_BLOCKS <- 1, CFE_MAX_BLOCK <- 0,
  KERNEL_MAX_BLOCK <- 1, NVRAM_MIN_BLOCK <- 7, commands <- "INTEL_SCS", Values <- {"x"},
  Blocks <- {4, 6}, Locked <- {Erase4}, Hard <- {Erase4}, Loose <- {}, Names <- {}, Strings <- {},
  Hash <- <<>>, Opens <- TRUE, MaxSets <- 0, MaxCommits <- 0, MaxCrashes <- 0,
  flash <- d1, chip <- d2, nv <- d3, arg <- d4, log <- d5, pc <- d6

\* A chip with the commands of AMD.
Flash4 == INSTANCE Flash WITH
  Thread <- Two, Sem <- {"lock"}, lock <- "lock", Users <- {"t1"}, Committers <- {},
  Regions <- <<Region(4, 2)>>, MAX_LIVE_BLOCKS <- 1, CFE_MAX_BLOCK <- 0,
  KERNEL_MAX_BLOCK <- 1, NVRAM_MIN_BLOCK <- 7, commands <- "AMD_SCS", Values <- {"x"},
  Blocks <- {4, 6}, Locked <- {}, Hard <- {}, Loose <- {}, Names <- {}, Strings <- {},
  Hash <- <<>>, Opens <- FALSE, MaxSets <- 0, MaxCommits <- 0, MaxCrashes <- 0,
  flash <- d1, chip <- d2, nv <- d3, arg <- d4, log <- d5, pc <- d6

\* The table of settings, with names of which one begins with the other.
Flash5 == INSTANCE Flash WITH
  Thread <- Two, Sem <- {"lock"}, lock <- "lock", Users <- {}, Committers <- {"t2"},
  Regions <- <<Region(4, 2)>>, MAX_LIVE_BLOCKS <- 2, CFE_MAX_BLOCK <- 0,
  KERNEL_MAX_BLOCK <- 1, NVRAM_MIN_BLOCK <- 7, commands <- "INTEL_SCS", Values <- {"x"},
  Blocks <- {}, Locked <- {}, Hard <- {}, Loose <- {}, Names <- Name2,
  Strings <- {<<"1">>, <<"2">>}, Hash <- [n \in Name2 |-> 0], Opens <- FALSE,
  MaxSets <- 3, MaxCommits <- 1, MaxCrashes <- 1,
  flash <- d1, chip <- d2, nv <- d3, arg <- d4, log <- d5, pc <- d6

Tty1 == INSTANCE Tty WITH
  TTY_IBLEN <- 4, Typed <- {"a", "b", "BS", "NL", "CR", "EOT", "RIGHT", "LEFT"},
  Lens <- {1, 4}, IFlags <- {"IRAW"}, Shell <- FALSE, HISTORY_LENGTH <- 1,
  tty <- d1, pc <- d2, len <- d3, left <- d4, text <- d5, history <- d6,
  historyIndex <- d7, saved <- d8

Tty2 == INSTANCE Tty WITH
  TTY_IBLEN <- 3, Typed <- {"a", "!", "CR", "EOT", "UP", "DOWN", "LEFT"},
  Lens <- {3}, IFlags <- {}, Shell <- TRUE, HISTORY_LENGTH <- 2,
  tty <- d1, pc <- d2, len <- d3, left <- d4, text <- d5, history <- d6,
  historyIndex <- d7, saved <- d8

iovars == <<todo, left>>
uartvars == <<iflags, istart, icount, in, oflags, ostart, ocount, out, oidle, tx,
  txris, rx, owner>>
bothvars == <<state, index, flags, sem, buffer, got>>
loopvars == <<i, log>>
ethvars == <<count, hsem, hold, free, mem, lost, opened, pkt>>
semvars == <<live, value, waiting>>
oldvars == <<pc, iovars, uartvars, bothvars, loopvars, ethvars>>
devvars == <<d1, d2, d3, d4, d5, d6, d7, d8>>
allvars == <<part, semvars, oldvars, devvars>>

NoIo == todo = 0 /\ left = 0
NoUart ==
  /\ iflags = 0 /\ istart = 0 /\ icount = 0 /\ in = 0 /\ oflags = 0 /\ ostart = 0
  /\ ocount = 0 /\ out = 0 /\ oidle = 0 /\ tx = 0 /\ txris = 0 /\ rx = 0 /\ owner = 0
NoBoth == state = 0 /\ index = 0 /\ flags = 0 /\ sem = 0 /\ buffer = 0 /\ got = 0
NoLoop == i = 0 /\ log = 0
NoEth ==
  /\ count = 0 /\ hsem = 0 /\ hold = 0 /\ free = 0 /\ mem = 0 /\ lost = 0 /\ opened = 0 /\ pkt = 0
NoDev ==
  /\ d1 = 0 /\ d2 = 0 /\ d3 = 0 /\ d4 = 0 /\ d5 = 0 /\ d6 = 0 /\ d7 = 0 /\ d8 = 0
NoOld == pc = 0 /\ NoIo /\ NoUart /\ NoBoth /\ NoLoop /\ NoEth
NoSem == live = 0 /\ value = 0 /\ waiting = 0
Last2 == d7 = 0 /\ d8 = 0

Init ==
  /\ part \in Parts
  /\ \/ /\ NoBoth /\ NoLoop /\ NoEth /\ NoDev
        /\ \/ part = "uart1" /\ Uart1!Init
           \/ part = "uart2" /\ Uart2!Init
           \/ part = "uart3" /\ Uart3!Init
     \/ /\ NoUart /\ NoEth /\ NoDev
        /\ \/ part = "loop1" /\ Loop1!Init
           \/ part = "loop2" /\ Loop2!Init
     \/ /\ NoIo /\ NoUart /\ NoLoop /\ NoDev
        /\ \/ part = "eth1" /\ Eth1!Init
           \/ part = "eth2" /\ Eth2!Init
           \/ part = "eth3" /\ Eth3!Init
           \/ part = "eth4" /\ Eth4!Init
     \/ /\ NoOld /\ Last2
        /\ \/ part = "nic1" /\ Nic1!Init /\ d6 = 0
           \/ part = "nic2" /\ Nic2!Init /\ d6 = 0
           \/ part = "lan1" /\ Lan1!Init
           \/ part = "lan2" /\ Lan2!Init
           \/ part = "flash1" /\ Flash1!Init
           \/ part = "flash2" /\ Flash2!Init
           \/ part = "flash3" /\ Flash3!Init
           \/ part = "flash4" /\ Flash4!Init
           \/ part = "flash5" /\ Flash5!Init
     \/ /\ NoOld /\ NoSem
        /\ \/ part = "tty1" /\ Tty1!Init
           \/ part = "tty2" /\ Tty2!Init

UartStep ==
  /\ \/ part = "uart1" /\ Uart1!Next
     \/ part = "uart2" /\ Uart2!Next
     \/ part = "uart3" /\ Uart3!Next
  /\ UNCHANGED <<part, bothvars, loopvars, ethvars, devvars>>

LoopStep ==
  /\ \/ part = "loop1" /\ Loop1!Next
     \/ part = "loop2" /\ Loop2!Next
  /\ UNCHANGED <<part, uartvars, ethvars, devvars>>

EthStep ==
  /\ \/ part = "eth1" /\ Eth1!Next
     \/ part = "eth2" /\ Eth2!Next
     \/ part = "eth3" /\ Eth3!Next
     \/ part = "eth4" /\ Eth4!Next
  /\ UNCHANGED <<part, iovars, uartvars, loopvars, devvars>>

DevStep ==
  /\ \/ /\ \/ part = "nic1" /\ Nic1!Next
           \/ part = "nic2" /\ Nic2!Next
        /\ UNCHANGED d6
     \/ part = "lan1" /\ Lan1!Next
     \/ part = "lan2" /\ Lan2!Next
     \/ part = "flash1" /\ Flash1!Next
     \/ part = "flash2" /\ Flash2!Next
     \/ part = "flash3" /\ Flash3!Next
     \/ part = "flash4" /\ Flash4!Next
     \/ part = "flash5" /\ Flash5!Next
  /\ UNCHANGED <<part, oldvars, d7, d8>>

TtyStep ==
  /\ \/ part = "tty1" /\ Tty1!Next
     \/ part = "tty2" /\ Tty2!Next
  /\ UNCHANGED <<part, semvars, oldvars>>

Next == UartStep \/ LoopStep \/ EthStep \/ DevStep \/ TtyStep

Spec == Init /\ [][Next]_allvars

-----------------------------------------------------------------------------

\* The variables of the drivers have their types.
Types ==
  /\ part = "uart1" => Uart1!TypeOK
  /\ part = "uart2" => Uart2!TypeOK
  /\ part = "loop1" => Loop1!TypeOK
  /\ part = "eth1" => Eth1!TypeOK
  /\ part = "eth2" => Eth2!TypeOK
  /\ part = "nic1" => Nic1!TypeOK
  /\ part = "lan1" => Lan1!TypeOK
  /\ part = "flash1" => Flash1!TypeOK
  /\ part = "tty1" => Tty1!TypeOK

\* The serial driver, the loopback and the Ethernet loopback are bounded first-in
\* first-out channels: uartWrite() to the wire, the wire to uartRead(),
\* loopbackPutc() to loopbackGetc() unless a reader is waiting, ethloopWrite() to
\* ethloopRead().
FirstInFirstOut ==
  [][/\ part = "uart1" => Uart1!ChannelStep
     /\ part = "uart2" => Uart2!ChannelStep
     /\ part = "loop1" => Loop1!ReadInOrder
     /\ part = "loop2" => Loop2!ReadInOrder
     /\ part = "eth1" => Eth1!ChannelStep]_allvars

\* isema and osema count the rings and oidle says whether the transmitter is at
\* work, however late a writer runs; no character stays behind in the ring of an
\* idle transmitter, when it does not.
UartSound ==
  /\ part = "uart2" => Uart2!RingsCounted /\ Uart2!NothingStranded
  /\ part = "uart3" => Uart3!RingsCounted /\ Uart3!IdleFlagRight

\* "Write a buffer to the UART.": nor does it when a writer runs late.
NeverStranded == part = "uart3" => Uart3!NothingStranded

\* The loopback's semaphore counts the characters that were written and not read,
\* and never offers more than the buffer holds, however many threads read and write,
\* as long as nobody writes while a reader waits or is inside loopbackGetc().
LoopbackSound ==
  /\ part = "loop1" => Loop1!FillCounted
  /\ part = "loop2" => Loop2!FillCounted

\* A packet buffer of the Ethernet loopback is in one place and none is lost but with
\* a packet that was to be dropped; sem counts the queued packets and hsem the held
\* one, as long as no second packet is put on hold.
EthLoopSound ==
  /\ part = "eth2" => Eth2!OnePlace /\ Eth2!NoneLost
  /\ part = "eth3" => Eth3!NoneLost /\ Eth3!HeldCounted
  /\ part = "eth4" => Eth4!QueueCounted

\* The Ethernet drivers: a buffer is in one place; frames go to the device that
\* they are for and leave the queue in the order in which they came; frames leave
\* the transmit ring in the order in which they were written.  What can go wrong
\* does so only when the code's own limits are met: the handler runs out of
\* buffers only while a reader copies one, the AG71xx stops receiving only after
\* an overrun and loses a frame only if a writer waits for a buffer while another
\* writes, the BCM4713 misses a frame only if it comes while others are served.
EthernetSound ==
  /\ part = "nic1" => /\ Nic1!ReceiveBuffersKept /\ Nic1!TrapOnlyInCopy
                      /\ Nic1!QueueCounted /\ Nic1!InOrder
                      /\ Nic1!DeafOnlyAfterOverrun /\ Nic1!TransmitKept
  /\ part = "nic2" => Nic2!TransmitKept
  /\ part = "lan1" => /\ Lan1!BuffersKept /\ Lan1!RightDevice /\ Lan1!QueueCounted
                      /\ Lan1!Announced /\ Lan1!TrapOnlyInCopy
  /\ part = "lan2" => Lan2!SentInOrder


\* The terminal: the ring holds the line that is shown, a read returns at most one
\* line, and the history of the shell can be recalled.
TerminalSound ==
  /\ part = "tty1" => Tty1!RingIsLine /\ Tty1!OneLine
  /\ part = "tty2" => Tty2!RingIsLine /\ Tty2!HistoryRecallable

=============================================================================
