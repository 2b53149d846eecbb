-------------------------------- MODULE Client --------------------------------
(***************************************************************************)
(* The network clients of the shell, telnet and nc (src/shell/xsh_telnet.c *)
(* and xsh_nc.c).  A command opens a TCP device and starts two threads,    *)
(* one from the device to the terminal and one from the terminal to the    *)
(* device.  When one of them ends it kills both, wherever they are, and    *)
(* closes the device.  The TCP device is what Tcp makes of it: two streams *)
(* of octets, and a mutex that every call on it holds for a while.         *)
(***************************************************************************)
EXTENDS Integers, Sequences, FiniteSets

CONSTANTS
  Prog,         \* "telnet" or "nc"
  ArgLists,     \* arguments of the command
  Offers,       \* what the other side may send at a time: sequences of octets
  Keys,         \* what the user may type (telnet: characters, nc: lines)
  MaxOffers, MaxKeys,    \* bounds
  Fails         \* calls that may fail: "netLookup", "tcpAlloc", "open", "create"

VARIABLES
  cmd,          \* the command: its next step
  wrk,          \* the two threads: next step, and locals of telnetRecv()
  dev,          \* the TCP device: state, who has the mutex, octets to read
  tty,          \* flags of the terminal: TTY_ECHO, TTY_IRAW
  log           \* what happened: see Init

vars == <<cmd, wrk, dev, tty, log>>

Worker == {"recv", "send"}

-----------------------------------------------------------------------------
(* Arguments.  An argument is one of "--help", "-l", "-s", "-x" (another    *)
(* option), "addr", "badaddr" (a digit, but no address), "port", "0", "name".*)

Digit(a) == a \in {"addr", "badaddr", "port", "0"}

\* dot2ipv4() takes any number of octets, also one.
Address(a) == a \in {"addr", "port", "0"}

\* The loop of xsh_telnet().  host.len is not initialised: with old = TRUE it is
\* not 0, and the first argument is taken for the port.
telnet_option(p, a) ==
  IF p.result # "" THEN p
  ELSE IF a = "--help" THEN [p EXCEPT !.result = "help"]
  ELSE IF ~p.host
  THEN IF Address(a) THEN [p EXCEPT !.host = TRUE] ELSE [p EXCEPT !.result = "error"]
  ELSE IF ~p.port THEN IF Digit(a) /\ a # "0" THEN [p EXCEPT !.port = TRUE]
                       ELSE [p EXCEPT !.result = "error"]
  ELSE [p EXCEPT !.result = "error"]

telnet_args(args, old) ==
  LET loop[n \in 0 .. Len(args)] ==
        IF n = 0 THEN [host |-> old, port |-> FALSE, result |-> ""]
        ELSE telnet_option(loop[n - 1], args[n])
      Checked(p) == IF p.result # "" THEN p.result ELSE IF p.host THEN "run" ELSE "error"
  IN Checked(loop[Len(args)])

\* The loop of xsh_nc(); p.opt is set when the argument belongs to -s.
nc_option(p, a) ==
  IF p.error THEN p
  ELSE IF p.opt THEN IF Digit(a) THEN [p EXCEPT !.opt = FALSE, !.src = @ \/ Address(a)]
                     ELSE [p EXCEPT !.error = TRUE]
  ELSE IF a = "-l" THEN [p EXCEPT !.listen = TRUE]
  ELSE IF a = "-s" THEN [p EXCEPT !.opt = TRUE]
  ELSE IF a \in {"-x", "--help"} THEN [p EXCEPT !.error = TRUE]
  ELSE IF ~p.listen /\ ~p.dst THEN IF Digit(a) THEN [p EXCEPT !.dst = Address(a)]
                                   ELSE [p EXCEPT !.error = TRUE]
  ELSE IF p.listen /\ ~p.src THEN IF Digit(a) THEN [p EXCEPT !.src = Address(a)]
                                  ELSE [p EXCEPT !.error = TRUE]
  ELSE IF ~p.port THEN IF Digit(a) THEN [p EXCEPT !.port = a # "0"]
                       ELSE [p EXCEPT !.error = TRUE]
  ELSE p

nc_args(args) ==
  LET loop[n \in 0 .. Len(args)] ==
        IF n = 0 THEN [listen |-> FALSE, dst |-> FALSE, src |-> FALSE, port |-> FALSE,
                       opt |-> FALSE, error |-> FALSE]
        ELSE nc_option(loop[n - 1], args[n])
      Checked(p) == IF p.error \/ p.opt \/ ~p.src \/ ~p.port \/ (~p.listen /\ ~p.dst)
                    THEN "error" ELSE "run"
  IN IF args = <<"--help">> THEN "help" ELSE Checked(loop[Len(args)])

-----------------------------------------------------------------------------

\* high: the upper octets of ch are not 0; out: what is to be written, call by call.
None == [pc |-> "none", high |-> FALSE, echo |-> "NO_ECHO", sgaRemote |-> FALSE,
         sgaLocal |-> FALSE, out |-> <<>>]

Init ==
  /\ cmd = "idle"
  /\ wrk = [w \in Worker |-> None]
  /\ dev = [state |-> "free", mutex |-> "", in |-> <<>>, eof |-> FALSE, reset |-> FALSE]
  /\ tty \in [echo : BOOLEAN, raw : BOOLEAN]
  /\ log = [offers |-> 0, keys |-> 0,
            got |-> <<>>,          \* octets telnetRecv() or ncRecv() has read
            shown |-> <<>>,        \* what it has printed
            typed |-> <<>>,        \* what the user has typed
            sent |-> <<>>,         \* octets written to the device
            repeated |-> FALSE,    \* an offer was repeated
            withdrawn |-> FALSE,   \* WONT ECHO was received
            leaked |-> FALSE]      \* the command ended with its device allocated

-----------------------------------------------------------------------------
(* The command *)

Goto(step) == cmd' = step

xsh_telnet ==
  /\ Prog = "telnet" /\ cmd = "idle"
  /\ \E args \in ArgLists, old \in BOOLEAN :
       Goto(IF telnet_args(args, old) = "run" THEN "lookup" ELSE "done")
  /\ UNCHANGED <<wrk, dev, tty, log>>

xsh_nc ==
  /\ Prog = "nc" /\ cmd = "idle"
  /\ \E args \in ArgLists : Goto(IF nc_args(args) = "run" THEN "alloc" ELSE "done")
  /\ UNCHANGED <<wrk, dev, tty, log>>

netLookup ==
  /\ cmd = "lookup"
  /\ \/ Goto("alloc")
     \/ "netLookup" \in Fails /\ Goto("done")
  /\ UNCHANGED <<wrk, dev, tty, log>>

tcpAlloc ==
  /\ cmd = "alloc"
  /\ \/ Goto("open") /\ dev' = [dev EXCEPT !.state = "alloc"]
     \/ "tcpAlloc" \in Fails /\ Goto("done") /\ UNCHANGED dev
  /\ UNCHANGED <<wrk, tty, log>>

\* When the connection fails nc closes the device; telnet returns.
open_device ==
  /\ cmd = "open"
  /\ \/ Goto("create") /\ dev' = [dev EXCEPT !.state = "open"] /\ UNCHANGED log
     \/ /\ "open" \in Fails
        /\ Goto("done")
        /\ dev' = IF Prog = "nc" THEN [dev EXCEPT !.state = "free"] ELSE dev
        /\ log' = [log EXCEPT !.leaked = Prog = "telnet"]
  /\ UNCHANGED <<wrk, tty>>

\* Either create() may fail; then both are killed and the device closed.  The
\* local ch of telnetRecv() is not initialised: only its lowest octet is read
\* from the device, and the others may be anything.
create_threads ==
  /\ cmd = "create"
  /\ \/ /\ \E h \in BOOLEAN :
             wrk' = [w \in Worker |->
                       [None EXCEPT !.pc = "read", !.high = h /\ w = "recv" /\ Prog = "telnet"]]
        /\ tty' = IF Prog = "telnet" THEN [echo |-> TRUE, raw |-> FALSE] ELSE tty
        /\ Goto("wait")
     \/ "create" \in Fails /\ Goto("close") /\ UNCHANGED <<wrk, tty>>
  /\ UNCHANGED <<dev, log>>

\* receive() until one of the threads has ended; then sleep() and both kills.
kill_threads ==
  /\ cmd = "wait"
  /\ \E w \in Worker : wrk[w].pc = "over"
  /\ wrk' = [w \in Worker |-> [wrk[w] EXCEPT !.pc = IF @ = "over" THEN "over" ELSE "killed"]]
  /\ Goto("close")
  /\ UNCHANGED <<dev, tty, log>>

\* close() returns, and the device is free.
Closed ==
  /\ dev' = [dev EXCEPT !.state = "free", !.in = <<>>]
  /\ Goto(IF Prog = "telnet" /\ wrk["recv"].pc # "none" THEN "restore" ELSE "done")

\* tcpClose() waits for the mutex.  A connection that was reset is closed; else a FIN
\* is sent ...
close_device ==
  /\ cmd = "close" /\ dev.mutex = ""
  /\ \/ dev.reset /\ Closed
     \/ ~dev.reset /\ Goto("finwait") /\ dev' = [dev EXCEPT !.state = "closing"]
  /\ UNCHANGED <<wrk, tty, log>>

\* ... and tcpClose() waits for openclose, until the other side acknowledges the FIN
\* or resets the connection, if it ever does.
close_acked ==
  /\ cmd = "finwait" /\ Closed
  /\ UNCHANGED <<wrk, tty, log>>

restore_tty ==
  /\ cmd = "restore"
  /\ tty' = [echo |-> TRUE, raw |-> FALSE]
  /\ Goto("done")
  /\ UNCHANGED <<wrk, dev, log>>

-----------------------------------------------------------------------------
(* Calls on the device: a thread takes the mutex to enter, and gives it back*)
(* in the step that does the work of the call.                             *)

Reading == {"read", "command", "WILL", "DO", "WONT", "DONT"}
Readable == dev.in # <<>> \/ dev.eof

tcp_enter(w) ==
  /\ dev.mutex = "" /\ dev.state = "open"
  /\ \/ w = "recv" /\ wrk[w].pc \in Reading /\ Readable
     \/ wrk[w].pc = "write"
  /\ dev' = [dev EXCEPT !.mutex = w]
  /\ UNCHANGED <<cmd, wrk, tty, log>>

Holds(w, step) == dev.mutex = w /\ wrk[w].pc = step

\* The octet read; a read at the end of the stream is SYSERR.
Octet == Head(dev.in)
AtEnd == dev.in = <<>>
Took == /\ ~AtEnd
        /\ dev' = [dev EXCEPT !.mutex = "", !.in = Tail(@)]

\* write() of the first of out: it fails after a reset.
Wrote(w) ==
  /\ dev' = [dev EXCEPT !.mutex = ""]
  /\ log' = [log EXCEPT !.sent = IF dev.reset THEN @ ELSE @ \o Head(wrk[w].out)]

sendOption(command, option) == <<"IAC", command, option>>

\* read() and getc() at the end of the stream: the thread returns, unless the
\* option of a WILL was read, which is not tested.
read_end ==
  /\ AtEnd /\ dev' = [dev EXCEPT !.mutex = ""]
  /\ \/ /\ \E step \in Reading \ {"WILL"} : Holds("recv", step)
        /\ wrk' = [wrk EXCEPT !["recv"].pc = "over"]
     \/ /\ Holds("recv", "WILL")
        /\ wrk' = [wrk EXCEPT !["recv"].pc = "write",
                              !["recv"].out = <<sendOption("DONT", "IAC")>>]
  /\ UNCHANGED <<cmd, tty, log>>

ncRecv ==
  /\ Prog = "nc" /\ Holds("recv", "read") /\ Took
  /\ log' = [log EXCEPT !.got = Append(@, Octet), !.shown = Append(@, Octet)]
  /\ UNCHANGED <<cmd, wrk, tty>>

-----------------------------------------------------------------------------
(* telnetRecv() *)

Recv == wrk["recv"]
Local(r) == wrk' = [wrk EXCEPT !["recv"] = r]

\* The octet is printed unless it is IAC and the rest of ch is 0.
telnetRecv ==
  /\ Prog = "telnet" /\ Holds("recv", "read") /\ Took
  /\ IF Octet = "IAC" /\ ~Recv.high
     THEN /\ Local([Recv EXCEPT !.pc = "command"])
          /\ log' = [log EXCEPT !.got = Append(@, Octet)]
     ELSE /\ log' = [log EXCEPT !.got = Append(@, Octet), !.shown = Append(@, Octet)]
          /\ UNCHANGED wrk
  /\ UNCHANGED <<cmd, tty>>

\* The switch on the octet behind IAC.
recv_command ==
  /\ Holds("recv", "command") /\ Took
  /\ Local(IF Octet \in {"WILL", "DO", "WONT", "DONT"} THEN [Recv EXCEPT !.pc = Octet]
           ELSE IF Octet = "AYT" THEN [Recv EXCEPT !.pc = "write", !.out = <<<<"NUL">>>>]
           ELSE [Recv EXCEPT !.pc = "read"])
  /\ log' = [log EXCEPT !.got = Append(@, Octet),
                        !.shown = IF Octet \in {"IAC", "EC"} THEN Append(@, Octet) ELSE @]
  /\ UNCHANGED <<cmd, tty>>

\* What telnetRecv() answers to an option, and what it then believes; ans = <<>>
\* when it does not answer.
Answer(r, option, ans) ==
  [r EXCEPT !.pc = IF ans = <<>> THEN "read" ELSE "write", !.high = FALSE,
            !.out = IF ans = <<>> THEN <<>> ELSE <<sendOption(ans[1], option)>>]

will(r, option) ==
  IF option = "ECHO" /\ r.echo = "NO_ECHO"
  THEN Answer([r EXCEPT !.echo = "OTHER_ECHOES"], option, <<"DO">>)
  ELSE IF option = "SGA" /\ ~r.sgaRemote
  THEN Answer([r EXCEPT !.sgaRemote = TRUE], option, <<"DO">>)
  ELSE Answer(r, option, <<"DONT">>)

do(r, option) ==
  IF option = "SGA" /\ ~r.sgaLocal
  THEN Answer([r EXCEPT !.sgaLocal = TRUE], option, <<"WILL">>)
  ELSE Answer(r, option, <<"WONT">>)

\* Both WONT and DONT call echoNegotiation() with DONT: it changes nothing.
echoNegotiation(r, command) ==
  IF r.echo = "OTHER_ECHOES" /\ command = "WONT"
  THEN Answer([r EXCEPT !.echo = "NO_ECHO"], "ECHO", <<"DONT">>)
  ELSE IF r.echo = "NO_ECHO" /\ command = "WILL"
  THEN Answer([r EXCEPT !.echo = "OTHER_ECHOES"], "ECHO", <<"DO">>)
  ELSE IF command = "DO" THEN Answer(r, "ECHO", <<"WONT">>)
  ELSE Answer(r, "ECHO", <<>>)

wont(r, option) ==
  IF option = "ECHO" THEN echoNegotiation(r, "DONT")
  ELSE IF option = "SGA" /\ r.sgaRemote
  THEN Answer([r EXCEPT !.sgaRemote = FALSE], option, <<"DONT">>)
  ELSE Answer(r, option, <<>>)

dont(r, option) ==
  IF option = "ECHO" THEN echoNegotiation(r, "DONT")
  ELSE IF option = "SGA" /\ r.sgaLocal
  THEN Answer([r EXCEPT !.sgaLocal = FALSE], option, <<"WONT">>)
  ELSE Answer(r, option, <<>>)

\* An offer that is in force already is repeated.
Repeats(r, command, option) ==
  \/ command = "WILL" /\ option = "ECHO" /\ r.echo = "OTHER_ECHOES"
  \/ command = "WILL" /\ option = "SGA" /\ r.sgaRemote
  \/ command = "DO" /\ option = "SGA" /\ r.sgaLocal

\* The terminal shows what the server echoes, or echoes itself.
Echoing(r) == [echo |-> r.echo = "NO_ECHO", raw |-> r.echo # "NO_ECHO"]

recv_option ==
  /\ \E command \in {"WILL", "DO", "WONT", "DONT"} :
       /\ Holds("recv", command) /\ Took
       /\ Local(CASE command = "WILL" -> will(Recv, Octet) [] command = "DO" -> do(Recv, Octet)
                  [] command = "WONT" -> wont(Recv, Octet) [] command = "DONT" -> dont(Recv, Octet))
       /\ tty' = IF command = "WONT" /\ Octet = "ECHO" /\ wont(Recv, Octet).echo = "NO_ECHO"
                 THEN [echo |-> TRUE, raw |-> FALSE] ELSE tty
       /\ log' = [log EXCEPT !.got = Append(@, Octet),
                             !.repeated = @ \/ Repeats(Recv, command, Octet),
                             !.withdrawn = @ \/ (command = "WONT" /\ Octet = "ECHO")]
  /\ UNCHANGED cmd

\* sendOption() or putc(); behind DO ECHO the terminal is set.
recv_answer ==
  /\ Holds("recv", "write") /\ Wrote("recv")
  /\ Local([Recv EXCEPT !.pc = "read", !.out = <<>>])
  /\ tty' = IF Head(Recv.out) = sendOption("DO", "ECHO") THEN Echoing(Recv) ELSE tty
  /\ UNCHANGED cmd

-----------------------------------------------------------------------------
(* telnetSend() and ncSend() *)

Writes(key) ==
  CASE key = "BS" -> <<sendOption("EC", "NUL")>>
    [] key = "EL" -> <<sendOption("EL", "NUL")>>
    [] key = "LF" -> <<<<"CR">>, <<"LF">>>>
    [] OTHER -> <<<<key>>>>

telnetSend ==
  /\ wrk["send"].pc = "read" /\ log.keys < MaxKeys
  /\ \E key \in Keys :
       /\ log' = [log EXCEPT !.keys = @ + 1, !.typed = IF key = "QUIT" THEN @ ELSE Append(@, key)]
       /\ wrk' = [wrk EXCEPT !["send"].pc = IF key = "QUIT" THEN "over" ELSE "write",
                             !["send"].out = IF key = "QUIT" THEN <<>>
                                             ELSE IF Prog = "nc" THEN <<<<key>>>> ELSE Writes(key)]
  /\ UNCHANGED <<cmd, dev, tty>>

\* write() or putc(): what fails at the last call ends the thread.
send_write ==
  /\ Holds("send", "write") /\ Wrote("send")
  /\ LET rest == Tail(wrk["send"].out) IN
     wrk' = [wrk EXCEPT !["send"].out = rest,
               !["send"].pc = IF rest # <<>> THEN "write"
                              ELSE IF dev.reset /\ Len(Head(wrk["send"].out)) = 1 THEN "over"
                              ELSE "read"]
  /\ UNCHANGED <<cmd, tty>>

-----------------------------------------------------------------------------
(* The other side.  external: a server on the network *)

server_sends ==
  /\ dev.state = "open" /\ ~dev.eof /\ log.offers < MaxOffers
  /\ \E o \in Offers : dev' = [dev EXCEPT !.in = @ \o o]
  /\ log' = [log EXCEPT !.offers = @ + 1]
  /\ UNCHANGED <<cmd, wrk, tty>>

server_closes ==
  /\ dev.state = "open" /\ ~dev.eof
  /\ \E r \in BOOLEAN : dev' = [dev EXCEPT !.eof = TRUE, !.reset = r]
  /\ UNCHANGED <<cmd, wrk, tty, log>>

Next ==
  \/ xsh_telnet \/ xsh_nc \/ netLookup \/ tcpAlloc \/ open_device \/ create_threads
  \/ kill_threads \/ close_device \/ close_acked \/ restore_tty
  \/ \E w \in Worker : tcp_enter(w)
  \/ read_end \/ ncRecv \/ telnetRecv \/ recv_command \/ recv_option \/ recv_answer
  \/ telnetSend \/ send_write \/ server_sends \/ server_closes

-----------------------------------------------------------------------------

TypeOK ==
  /\ cmd \in {"idle", "lookup", "alloc", "open", "create", "wait", "close", "finwait", "restore",
             "done"}
  /\ \A w \in Worker : wrk[w].pc \in Reading \union {"none", "write", "over", "killed"}
  /\ dev.state \in {"free", "alloc", "open", "closing"} /\ dev.mutex \in Worker \union {""}
  /\ tty.echo \in BOOLEAN /\ tty.raw \in BOOLEAN

\* Whatever path a command takes, it leaves nothing behind: no thread that runs
\* and no device in use, except that telnet keeps the device when the connection
\* cannot be opened.  The terminal echoes again behind a session.
NothingLeft ==
  cmd = "done" =>
    /\ \A w \in Worker : wrk[w].pc \in {"none", "over", "killed"}
    /\ (dev.state = "alloc") <=> log.leaked
    /\ dev.state \notin {"open", "closing"}
    /\ Prog = "telnet" /\ wrk["recv"].pc # "none" => tty = [echo |-> TRUE, raw |-> FALSE]

\* A command waits for the mutex in close() only if a thread held it when it was
\* killed, and then for ever: the command kills without regard to where the threads
\* are.  Once past the mutex it waits for the other side alone, and no thread of the
\* session is left on the device that is closing.
HangsOnlyOnKilled ==
  /\ cmd = "close" /\ dev.mutex # "" => wrk[dev.mutex].pc = "killed"
  /\ cmd = "finwait" => /\ dev.mutex = "" /\ ~dev.reset
                        /\ \A w \in Worker : wrk[w].pc \in {"none", "over", "killed"}

\* The text of a stream of octets: commands are left out, IAC IAC is one IAC and
\* IAC EC a backspace.
Text(s) ==
  LET At(n) == IF n <= Len(s) THEN s[n] ELSE ""
      from[n \in 1 .. Len(s) + 3] ==
        IF n > Len(s) THEN <<>>
        ELSE IF s[n] # "IAC" THEN <<s[n]>> \o from[n + 1]
        ELSE IF At(n + 1) \in {"IAC", "EC"} THEN <<s[n + 1]>> \o from[n + 2]
        ELSE IF At(n + 1) \in {"WILL", "DO", "WONT", "DONT"} THEN from[n + 3]
        ELSE from[n + 2]
  IN from[1]

\* The user sees the text of what the server has sent, in order and without the
\* options, unless the uninitialised octets of ch were not 0: then the commands
\* are shown and never obeyed.
ShowsTheText ==
  wrk["recv"].pc = "read" => log.shown = IF Prog = "nc" \/ Recv.high THEN log.got ELSE Text(log.got)

\* What the server makes of the octets it gets.
Keystrokes(s) ==
  LET At(n) == IF n <= Len(s) THEN s[n] ELSE ""
      from[n \in 1 .. Len(s) + 3] ==
        IF n > Len(s) THEN <<>>
        ELSE IF s[n] \in {"CR", "NUL"} THEN from[n + 1]
        ELSE IF s[n] # "IAC" THEN <<s[n]>> \o from[n + 1]
        ELSE IF At(n + 1) = "EC" THEN <<"BS">> \o from[n + 2]
        ELSE IF At(n + 1) = "EL" THEN <<"EL">> \o from[n + 2]
        ELSE from[n + 3]
  IN from[1]

\* The server gets what the user typed, in order, although the answers to options
\* are written to the same device by the other thread.
TypedArrives ==
  wrk["send"].pc = "read" /\ ~dev.reset => Keystrokes(log.sent) = log.typed

\* What the server believes of ECHO: it echoes from DO ECHO on, until DONT ECHO or
\* its own WONT.
ServerEchoes ==
  LET Says(c) == {n \in 1 .. Len(log.sent) - 2 :
                    log.sent[n] = "IAC" /\ log.sent[n + 1] = c /\ log.sent[n + 2] = "ECHO"}
  IN \E n \in Says("DO") : \A m \in Says("DONT") : m < n

\* Both sides agree on who echoes, and the terminal is set to it, whenever no
\* offer is on the way -- as long as no offer is repeated, which telnetRecv()
\* refuses although it is in force, and the server has not withdrawn its echo,
\* which echoNegotiation() overlooks.
EchoAgreed ==
  /\ wrk["recv"].pc = "read" /\ ~log.repeated /\ ~log.withdrawn /\ ~dev.reset =>
       (Recv.echo = "OTHER_ECHOES") <=> ServerEchoes
  /\ Prog = "telnet" /\ cmd = "wait" /\ wrk["recv"].pc = "read" => tty = Echoing(Recv)
=============================================================================
