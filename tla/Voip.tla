-------------------------------- MODULE Voip --------------------------------
(***************************************************************************)
(* The voip command (src/shell/xsh_voip.c): audio from the second serial   *)
(* port goes out in UDP packets, and the audio of the packets that come in *)
(* goes to the port.  With -s the packets are numbered; the receiver drops *)
(* what is late and fills gaps with what it has.  The network loses,       *)
(* repeats and reorders packets, and the other side may start anew.        *)
(***************************************************************************)
EXTENDS Integers, Sequences, FiniteSets

CONSTANTS
  ArgLists,        \* arguments of the command
  UINT,            \* numbers of packets are taken modulo UINT (2^32)
  MaxSent, MaxPlayed, MaxRestarts, MaxAir,   \* bounds
  Fails            \* calls that may fail

VARIABLES
  cmd,             \* the command: next step, mode and check, result
  held,            \* what it has taken: devices, and what it has shut down
  snd,             \* the sender on the other side: voip->seq and the chunk read
  air,             \* packets on the way, and those in the UDP device
  rcv,             \* the receiver: seq, the packet in *voip, time since it played
  log              \* chunks in the order they were played

vars == <<cmd, held, snd, air, rcv, log>>

SERIAL == "serial"
LOCAL_ == "localhost"
IP == "IP"

-----------------------------------------------------------------------------
(* Arguments: "-s", "-p", "serial", "localhost", "22020" (the usual port, and *)
(* a number that dot2ipv4() takes), "addr", "bad".                          *)

\* p.ports are the operands of -p still to come.
option(p, a, left) ==
  IF p.error THEN p
  ELSE IF p.ports > 0 THEN [p EXCEPT !.ports = @ - 1, !.single = @ /\ a = "22020"]
  ELSE CASE a = "-s" -> [p EXCEPT !.seq = TRUE]
         [] a = "-p" -> IF left >= 2 THEN [p EXCEPT !.ports = 2, !.single = TRUE]
                        ELSE [p EXCEPT !.error = TRUE]
         [] a = "serial" -> [p EXCEPT !.mode = SERIAL]
         [] a = "localhost" -> [p EXCEPT !.mode = LOCAL_]
         [] a \in {"addr", "22020"} -> [p EXCEPT !.mode = IP]
         [] OTHER -> [p EXCEPT !.error = TRUE]

options(args) ==
  LET loop[n \in 0 .. Len(args)] ==
        IF n = 0
        THEN [mode |-> SERIAL, seq |-> FALSE, single |-> TRUE, ports |-> 0, error |-> FALSE]
        ELSE option(loop[n - 1], args[n], Len(args) - n)
  IN loop[Len(args)]

-----------------------------------------------------------------------------

\* A packet: its number, and the audio it carries (chunks are counted from 1).
Packet(s, c) == [seq |-> s, chunk |-> c]

Init ==
  /\ cmd = [pc |-> "idle", mode |-> SERIAL, seq |-> FALSE, single |-> TRUE, result |-> ""]
  /\ held = {}
  /\ snd = [seq |-> 0, chunk |-> 1, restarts |-> 0]
  /\ air = [net |-> {}, udp |-> <<>>]
  /\ \E late \in BOOLEAN : rcv = [seq |-> 0, pkt |-> Packet(0, 0), late |-> late]
  /\ log = [played |-> <<>>,       \* what went to the serial port
            tidy |-> TRUE,         \* no packet came late, twice or out of order
            dropped |-> {},        \* chunks that were dropped as old
            wrapped |-> FALSE]     \* the sender's numbers have started anew

Return(r) == cmd' = [cmd EXCEPT !.pc = "done", !.result = r]
Goto(step) == cmd' = [cmd EXCEPT !.pc = step]

xsh_voip ==
  /\ cmd.pc = "idle"
  /\ \E args \in ArgLists :
       LET p == options(args) IN
       cmd' = IF args = <<"--help">> THEN [cmd EXCEPT !.pc = "done", !.result = "OK"]
              ELSE IF args = <<>> \/ p.error
              THEN [cmd EXCEPT !.pc = "done", !.result = "SYSERR"]
              ELSE [pc |-> "serial1", mode |-> p.mode, seq |-> p.seq, single |-> p.single,
                    result |-> ""]
  /\ UNCHANGED <<held, snd, air, rcv, log>>

\* The shell on the second port is killed and its terminal closed.  MODE_SERIAL has
\* only a thread to start.
kill_shell1 ==
  /\ cmd.pc = "serial1"
  /\ held' = held \union {"SHELL1 killed", "TTY1 closed"}
  /\ IF cmd.mode = SERIAL THEN cmd' = [cmd EXCEPT !.pc = "loop", !.result = "OK"]
     ELSE Goto("interface")
  /\ UNCHANGED <<snd, air, rcv, log>>

\* MODE_LOCAL brings the loopback up, MODE_IP looks for an interface.
interface ==
  /\ cmd.pc = "interface"
  /\ \/ /\ cmd.mode = LOCAL_
        /\ \/ Goto("udp") /\ held' = held \union {"ELOOP up"}
           \/ {"open", "netUp"} \cap Fails # {} /\ Return("SYSERR") /\ UNCHANGED held
     \/ /\ cmd.mode = IP
        /\ \/ Goto("udp")
           \/ "netLookup" \in Fails /\ Return("SYSERR")
        /\ UNCHANGED held
  /\ UNCHANGED <<snd, air, rcv, log>>

udpAlloc ==
  /\ cmd.pc = "udp"
  /\ LET wanted == IF cmd.single THEN {"udpRx"} ELSE {"udpRx", "udpTx"} IN
     \E got \in SUBSET wanted :
       /\ held' = held \union got
       /\ IF got = wanted THEN Goto("open") ELSE "udpAlloc" \in Fails /\ Return("SYSERR")
  /\ UNCHANGED <<snd, air, rcv, log>>

\* Open the device or the two, and start the threads that fit check.
open_udp ==
  /\ cmd.pc = "open"
  /\ \/ /\ cmd' = [cmd EXCEPT !.pc = "talk", !.result = "OK"]
        /\ held' = held \union {"open"}
     \/ "udpOpen" \in Fails /\ Return("SYSERR") /\ UNCHANGED held
     \/ /\ "udpOpen" \in Fails /\ ~cmd.single /\ Return("SYSERR")
        /\ held' = held \union {"open"}
  /\ UNCHANGED <<snd, air, rcv, log>>

-----------------------------------------------------------------------------
(* The other side, which was started with the same options *)

\* One chunk of audio, one packet.
basic_send ==
  /\ cmd.pc = "talk" /\ ~cmd.seq /\ snd.chunk <= MaxSent
  /\ Cardinality(air.net) < MaxAir
  /\ air' = [air EXCEPT !.net = @ \union {Packet(0, snd.chunk)}]
  /\ snd' = [snd EXCEPT !.chunk = @ + 1]
  /\ UNCHANGED <<cmd, held, rcv, log>>

seq_send ==
  /\ cmd.pc = "talk" /\ cmd.seq /\ snd.chunk <= MaxSent
  /\ Cardinality(air.net) < MaxAir
  /\ air' = [air EXCEPT !.net = @ \union {Packet(snd.seq, snd.chunk)}]
  /\ snd' = [snd EXCEPT !.seq = (@ + 1) % UINT, !.chunk = @ + 1]
  /\ log' = [log EXCEPT !.wrapped = @ \/ snd.seq + 1 = UINT]
  /\ UNCHANGED <<cmd, held, rcv>>

\* The other side is started anew: seq_send() begins with 0.
sender_restart ==
  /\ cmd.pc = "talk" /\ cmd.seq /\ snd.restarts < MaxRestarts
  /\ snd' = [snd EXCEPT !.seq = 0, !.restarts = @ + 1]
  /\ log' = [log EXCEPT !.wrapped = TRUE]
  /\ UNCHANGED <<cmd, held, air, rcv>>

\* external: the network delivers a packet, keeps a copy of it, or loses it.
network ==
  /\ cmd.pc = "talk"
  /\ \E p \in air.net :
       \/ /\ Len(air.udp) < MaxAir
          /\ \E again \in BOOLEAN :
               /\ air' = [net |-> IF again THEN air.net ELSE air.net \ {p},
                          udp |-> Append(air.udp, p)]
               /\ log' = [log EXCEPT !.tidy = @ /\ ~again
                                              /\ \A q \in air.net : q.chunk >= p.chunk]
       \/ air' = [air EXCEPT !.net = @ \ {p}] /\ UNCHANGED log
  /\ UNCHANGED <<cmd, held, snd, rcv>>

-----------------------------------------------------------------------------
(* The receiver *)

Play(c) == log' = [log EXCEPT !.played = Append(@, c)]

\* The serial port alone: what is read from it is written to it.
serial_loop ==
  /\ cmd.pc = "loop" /\ snd.chunk <= MaxSent
  /\ snd' = [snd EXCEPT !.chunk = @ + 1]
  /\ Play(snd.chunk)
  /\ UNCHANGED <<cmd, held, air, rcv>>

basic_receive ==
  /\ cmd.pc = "talk" /\ ~cmd.seq /\ air.udp # <<>> /\ Len(log.played) < MaxPlayed
  /\ Play(Head(air.udp).chunk)
  /\ air' = [air EXCEPT !.udp = Tail(@)]
  /\ UNCHANGED <<cmd, held, snd, rcv>>

\* The number tells that the packet was played, or given up.
Old(p, seq) == p.seq < seq

\* read() puts the packet in *voip before its number is looked at.
seq_receive ==
  /\ cmd.pc = "talk" /\ cmd.seq /\ air.udp # <<>> /\ Len(log.played) < MaxPlayed
  /\ LET p == Head(air.udp) IN
     IF Old(p, rcv.seq)
     THEN /\ rcv' = [rcv EXCEPT !.pkt = p]
          /\ log' = [log EXCEPT !.dropped = @ \union {p.chunk}]
     ELSE /\ rcv' = [seq |-> (p.seq + 1) % UINT, pkt |-> p, late |-> FALSE]
          /\ Play(p.chunk)
  /\ air' = [air EXCEPT !.udp = Tail(@)]
  /\ UNCHANGED <<cmd, held, snd>>

\* SEQ_BUF_SIZE / 8 milliseconds have passed since something was played.  (time and
\* ticks are not initialised: that may be so from the start.)
tick ==
  /\ cmd.pc = "talk" /\ cmd.seq /\ ~rcv.late
  /\ rcv' = [rcv EXCEPT !.late = TRUE]
  /\ UNCHANGED <<cmd, held, snd, air, log>>

\* Nothing to read in time: what *voip holds is played again.  voip->len is 0 as
\* long as nothing was read.
seq_repeat ==
  /\ cmd.pc = "talk" /\ cmd.seq /\ rcv.late /\ air.udp = <<>> /\ Len(log.played) < MaxPlayed
  /\ rcv' = [rcv EXCEPT !.late = FALSE]
  /\ IF rcv.pkt.chunk = 0 THEN UNCHANGED log ELSE Play(rcv.pkt.chunk)
  /\ UNCHANGED <<cmd, held, snd, air>>

Next ==
  \/ xsh_voip \/ kill_shell1 \/ interface \/ udpAlloc \/ open_udp
  \/ serial_loop \/ basic_send \/ seq_send \/ sender_restart \/ network
  \/ basic_receive \/ seq_receive \/ tick \/ seq_repeat

-----------------------------------------------------------------------------

TypeOK ==
  /\ cmd.pc \in {"idle", "serial1", "interface", "udp", "open", "loop", "talk", "done"}
  /\ held \subseteq {"SHELL1 killed", "TTY1 closed", "ELOOP up", "udpRx", "udpTx", "open"}
  /\ rcv.seq \in 0 .. UINT - 1

\* With or without numbers, audio is never played backwards as long as no packet comes
\* late or twice: a chunk is followed by itself, when the next one is late, or by a
\* later one.  (When one did come late, *voip holds it, and the next gap is filled
\* with it although later audio was played.)
NeverBackwards ==
  log.tidy =>
    \A n \in 1 .. Len(log.played) - 1 : log.played[n] <= log.played[n + 1]

\* A chunk is dropped as old only when a later one, or itself, was played -- until
\* the numbers start anew, at 2^32 or with the other side: from then on everything
\* is old until the numbers have caught up.
DropsOnlyOld ==
  cmd.seq /\ ~log.wrapped =>
    \A c \in log.dropped : \E n \in 1 .. Len(log.played) : log.played[n] >= c

\* Without a gap every chunk is played at most once from a packet: numbers make
\* repeated packets harmless.  Two equal chunks with another between them can only
\* be the filling of a gap with a late packet.
HeardOnce ==
  cmd.seq /\ ~log.wrapped =>
    \A n \in 1 .. Len(log.played) - 1 :
      log.played[n + 1] < log.played[n] => log.played[n + 1] \in log.dropped

\* A command whose arguments are refused touches nothing.  One that fails later
\* has shut down the shell of the second port, and keeps the loopback interface
\* and the UDP devices it had, one of them open when it was the other that could not
\* be opened.
FailureKeeps ==
  cmd.pc = "done" /\ cmd.result = "SYSERR" =>
    \/ held = {}
    \/ /\ {"SHELL1 killed", "TTY1 closed"} \subseteq held
       /\ "ELOOP up" \in held => cmd.mode = LOCAL_
       /\ cmd.mode = LOCAL_ /\ {"udpRx", "udpTx"} \cap held # {} => "ELOOP up" \in held
       /\ "open" \in held => ~cmd.single /\ {"udpRx", "udpTx"} \subseteq held
=============================================================================
