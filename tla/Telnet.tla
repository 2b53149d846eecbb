------------------------------- MODULE Telnet -------------------------------
(***************************************************************************)
(* The telnet pseudo device, src/device/telnet, with its server thread,    *)
(* and the shell's telnet client, src/shell/xsh_telnet.c, at the other end *)
(* of the connection.  The connection (TCP) is external: two FIFO streams. *)
(* user is the thread the server starts on the device; it reads lines and  *)
(* writes characters, and the server thread flushes the output buffer      *)
(* every now and then.  A killer thread per session waits to close the     *)
(* devices when the server is halted.                                      *)
(*                                                                         *)
(* An element of a stream is a pair: <<"D", c>> a data octet, <<command,   *)
(* option>> the three octets IAC command option, <<"EC", "">> the two      *)
(* octets IAC EC.                                                          *)
(***************************************************************************)
EXTENDS Naturals, Sequences

CONSTANTS
  TELNET_IBLEN, TELNET_OBLEN,  \* sizes of the two buffers
  Keys,         \* what is typed at the client
  Chars,        \* what the user thread writes
  MaxKeys, MaxWrites,  \* how much of it in one session
  MaxSessions,  \* sessions the server goes through
  Tcps          \* TCP devices

VARIABLES
  tnt,          \* the entry of telnettab
  user,         \* the thread on the device: pc, willSga of its telnetRead(), what
                \* it has yet to write, whether it waits inside telnetFlush(), and
                \* whether it was left with interrupts disabled
  up, down,     \* the connection, from and to the client
  flushing,     \* the server thread waits inside telnetFlush()
  client,       \* the client: pc, its option state, and how much was typed
  server,       \* the server thread: pc, its TCP device, sessions, killers
  tcps,         \* TCP devices in use
  wrote, seen,  \* what was given to telnetWrite(), what the client has printed
  sent          \* options sent in this session, by the server and by the client;
                \* whether a flush was overtaken by a write or another flush

device == <<tnt, user, flushing>>
streams == <<up, down>>
ghosts == <<wrote, seen, sent>>
vars == <<tnt, user, up, down, flushing, client, server, tcps, wrote, seen, sent>>

NULL == "none"

\* struct telnet after bzero(), which makes killswitch the semaphore 0.
Cleared ==
  [state |-> "FREE", killswitch |-> "zero", phw |-> NULL, echo |-> "START", flags |-> {}, ieof |-> FALSE,
   idelim |-> FALSE, isem |-> 1, in |-> <<>>, out |-> <<>>]

Gone == [pc |-> "none", willSga |-> FALSE, todo |-> <<>>, flush |-> FALSE,
         masked |-> FALSE]
NoneSent == [server |-> 0, client |-> 0, mixed |-> FALSE]
Away == [pc |-> "away", echo |-> "NO_ECHO", sgaRemote |-> FALSE, sgaLocal |-> FALSE,
         typed |-> 0]

Init ==
  /\ tnt = [Cleared EXCEPT !.state = "ALLOC", !.killswitch = "init"]
  /\ user = Gone /\ up = <<>> /\ down = <<>> /\ flushing = FALSE
  /\ client = Away /\ tcps = {}
  /\ server = [pc |-> "alloc", tcp |-> NULL, sessions |-> 0, killers |-> {}]
  /\ wrote = <<>> /\ seen = <<>> /\ sent = NoneSent

Data(s) == [i \in 1 .. Len(s) |-> <<"D", s[i]>>]

-----------------------------------------------------------------------------
(***************************************************************************)
(* Output                                                                  *)
(***************************************************************************)

\* The octets telnetWrite() puts into the buffer for a character.
Octets(ch) ==
  CASE ch = "NL" -> <<"CR", "NL">>
    [] ch = "IAC" -> <<"IAC", "IAC">>
    [] OTHER -> <<ch>>

\* telnetEcho(): what it writes for a character.
telnetEcho(ch) ==
  CASE ch = "BS" -> <<"BS", " ", "BS">>
    [] ch = "CR" -> <<"CR", "NL">>
    [] ch \in {"NL", "NUL", "EOT"} -> <<>>
    [] OTHER -> <<ch>>

\* The user thread has nothing left to write.
Free == user.todo = <<>>

\* The user thread writes a character.
user_write(ch) ==
  /\ user.pc = "idle" /\ Free /\ Len(wrote) < MaxWrites
  /\ user' = [user EXCEPT !.todo = <<ch>>]
  /\ UNCHANGED <<tnt, streams, flushing, client, server, tcps, ghosts>>

\* telnetWrite() of one character: a flush first if two octets might not fit, and
\* one after a newline.  On a device that was closed it fails, and so does the rest.
telnetWrite ==
  /\ ~Free /\ ~user.flush /\ Head(user.todo) # "FLUSH"
  /\ LET ch == Head(user.todo) IN
       \/ /\ tnt.phw = NULL
          /\ user' = [user EXCEPT !.todo = <<>>]
          /\ UNCHANGED <<tnt, wrote, sent>>
       \/ /\ tnt.phw # NULL /\ Len(tnt.out) >= TELNET_OBLEN - 1
          /\ user' = [user EXCEPT !.todo = <<"FLUSH">> \o @]
          /\ UNCHANGED <<tnt, wrote, sent>>
       \/ /\ tnt.phw # NULL /\ Len(tnt.out) < TELNET_OBLEN - 1
          /\ tnt' = [tnt EXCEPT !.out = @ \o Octets(ch)]
          /\ user' = [user EXCEPT !.todo =
                         (IF ch = "NL" THEN <<"FLUSH">> ELSE <<>>) \o Tail(@)]
          /\ wrote' = Append(wrote, ch)
          /\ sent' = [sent EXCEPT !.mixed = @ \/ flushing]
  /\ UNCHANGED <<streams, flushing, client, server, tcps, seen>>

\* The write of telnetFlush() to the connection may wait before the buffer is
\* emptied, and takes no notice of osem; a connection that is closing takes nothing
\* and the write returns an error that is not SYSERR.
SendOut ==
  /\ down' = IF tnt.phw \in tcps THEN down \o Data(tnt.out) ELSE down
  /\ sent' = [sent EXCEPT !.mixed = @ \/ flushing \/ user.flush]

\* telnetFlush() by the user thread.  When the device has been closed it returns
\* with interrupts disabled, and telnetWrite() without a signal.
user_flush ==
  /\ ~Free /\ ~user.flush /\ Head(user.todo) = "FLUSH"
  /\ \/ /\ tnt.state # "OPEN"
        /\ user' = [user EXCEPT !.todo = <<>>, !.masked = TRUE]
        /\ UNCHANGED <<down, sent>>
     \/ /\ tnt.state = "OPEN" /\ tnt.out = <<>>
        /\ user' = [user EXCEPT !.todo = Tail(@)]
        /\ UNCHANGED <<down, sent>>
     \/ /\ tnt.state = "OPEN" /\ tnt.out # <<>>
        /\ SendOut
        /\ user' = [user EXCEPT !.flush = TRUE]
  /\ UNCHANGED <<tnt, up, flushing, client, server, tcps, wrote, seen>>

user_flushed ==
  /\ user.flush
  /\ user' = [user EXCEPT !.flush = FALSE, !.todo = Tail(@)]
  /\ tnt' = [tnt EXCEPT !.out = <<>>]
  /\ UNCHANGED <<streams, flushing, client, server, tcps, ghosts>>

\* telnetFlush() by the server thread, every now and then.
server_flush ==
  /\ server.pc = "session" /\ ~flushing /\ tnt.state = "OPEN" /\ tnt.out # <<>>
  /\ SendOut
  /\ flushing' = TRUE
  /\ UNCHANGED <<tnt, user, up, client, server, tcps, wrote, seen>>

server_flushed ==
  /\ flushing
  /\ flushing' = FALSE
  /\ tnt' = [tnt EXCEPT !.out = <<>>]
  /\ UNCHANGED <<user, streams, client, server, tcps, ghosts>>

-----------------------------------------------------------------------------
(***************************************************************************)
(* Input: telnetRead() by the user thread                                  *)
(***************************************************************************)

Answer(echo, flag, opts) == [echo |-> echo, flag |-> flag, opts |-> opts]


\* The echo option: new state, ECHO flag, and the options sent in answer.
telnetEchoNegotiate(command) ==
  LET e == tnt.echo
      f == "ECHO" \in tnt.flags
      opt(c) == <<c, "ECHO">>
  IN CASE e = "SENT_DO" /\ command = "WILL" -> Answer("OTHER_ECHOES", FALSE, <<>>)
       [] e = "SENT_DO" /\ command = "WONT" -> Answer("SENT_WILL", f, <<opt("WILL")>>)
       [] e = "SENT_DO" /\ command = "DO" -> Answer(e, f, <<opt("WONT")>>)
       [] e = "SENT_WILL" /\ command = "DO" -> Answer("SELF_ECHOES", TRUE, <<>>)
       [] e = "SENT_WILL" /\ command = "DONT" -> Answer("NO_ECHO", FALSE, <<>>)
       [] e = "SENT_WILL" /\ command = "WILL" -> Answer(e, f, <<opt("DONT")>>)
       [] e = "SELF_ECHOES" /\ command = "DONT" ->
            Answer("NO_ECHO", FALSE, <<opt("WONT")>>)
       [] e = "SELF_ECHOES" /\ command = "WILL" -> Answer(e, f, <<opt("DONT")>>)
       [] e = "OTHER_ECHOES" /\ command = "WONT" ->
            Answer("SENT_WILL", f, <<opt("DONT"), opt("WILL")>>)
       [] e = "OTHER_ECHOES" /\ command = "DO" -> Answer(e, f, <<opt("WONT")>>)
       [] e = "NO_ECHO" /\ command = "DO" ->
            Answer("SELF_ECHOES", TRUE, <<opt("WILL")>>)
       [] e = "NO_ECHO" /\ command = "WILL" -> Answer(e, f, <<opt("DONT")>>)
       [] OTHER -> Answer(e, f, <<>>)

telnetRead ==
  /\ user.pc = "idle" /\ Free /\ tnt.phw # NULL
  /\ IF tnt.ieof THEN tnt' = [tnt EXCEPT !.ieof = FALSE] /\ UNCHANGED user
     ELSE UNCHANGED tnt
       /\ user' = [user EXCEPT !.willSga = FALSE,
            !.pc = IF tnt.isem = 0 THEN "stuck"
                   ELSE IF tnt.in = <<>> THEN "read" ELSE "fill"]
  /\ UNCHANGED <<streams, flushing, client, server, tcps, ghosts>>

Reading == user.pc \in {"read", "cr"} /\ Free /\ up # <<>>
Arrived == Head(up)

\* A data octet.  The octet after CR completes the line if it is NL or NUL;
\* otherwise NUL is put between the two.  Echo goes out whatever the flags say: the
\* test in the code is followed by an empty statement.
read_data ==
  /\ Reading /\ Arrived[1] = "D"
  /\ LET ch == Arrived[2]
         late == user.pc = "cr"
         delim == IF late THEN ch \in {"NL", "NUL"} ELSE ch = "NL"
         in1 == CASE late /\ ~delim -> tnt.in \o <<"NUL", ch>>
                  [] ~late /\ ch = "BS" ->
                       SubSeq(tnt.in, 1, IF tnt.in = <<>> THEN 0 ELSE Len(tnt.in) - 1)
                  [] ~late /\ ch \in {"NUL", "EOT"} -> tnt.in
                  [] OTHER -> Append(tnt.in, ch)
         echo == IF ~late /\ ch = "BS" /\ tnt.in = <<>> THEN <<>> ELSE telnetEcho(ch)
     IN /\ tnt' = [tnt EXCEPT !.in = in1,
                     !.idelim = delim \/ (~late /\ ch = "EOT"),
                     !.ieof = @ \/ (~late /\ ch = "EOT")]
        /\ user' = [user EXCEPT
             !.todo = IF echo = <<>> THEN <<>> ELSE Append(echo, "FLUSH"),
             !.pc = CASE ~late /\ ch = "CR" -> "cr"
               [] delim \/ (~late /\ ch = "EOT") \/ Len(in1) >= TELNET_IBLEN -> "fill"
               [] OTHER -> "read"]
  /\ up' = Tail(up)
  /\ UNCHANGED <<down, flushing, client, server, tcps, ghosts>>

Opts(s) == down' = down \o s /\ sent' = [sent EXCEPT !.server = @ + Len(s)]

\* An option: suppress-go-ahead is agreed to, echo is negotiated, others refused.
read_option ==
  /\ Reading /\ user.pc = "read" /\ Arrived[1] \in {"WILL", "WONT", "DO", "DONT"}
  /\ LET cmd == Arrived[1]
         opt == Arrived[2]
         a == telnetEchoNegotiate(cmd)
     IN IF opt = "ECHO" THEN
          /\ tnt' = [tnt EXCEPT !.echo = a.echo,
               !.flags = IF a.flag THEN @ \union {"ECHO"} ELSE @ \ {"ECHO"}]
          /\ Opts(a.opts) /\ UNCHANGED user
        ELSE IF opt = "SGA" /\ cmd = "WILL" THEN
          /\ Opts(IF user.willSga THEN <<>> ELSE << <<"WILL", "SGA">> >>)
          /\ user' = [user EXCEPT !.willSga = TRUE] /\ UNCHANGED tnt
        ELSE IF opt = "SGA" /\ cmd = "DO" THEN
          /\ Opts(<< <<"WILL", "SGA">> >>)
          /\ tnt' = [tnt EXCEPT !.flags = @ \union {"SGA"}] /\ UNCHANGED user
        ELSE
          /\ Opts(CASE cmd = "WILL" -> << <<"DONT", opt>> >>
                    [] cmd = "DO" -> << <<"WONT", opt>> >>
                    [] OTHER -> <<>>)
          /\ UNCHANGED <<tnt, user>>
  /\ up' = Tail(up)
  /\ UNCHANGED <<flushing, client, server, tcps, wrote, seen>>

\* Erase character and erase line.  The latter stops at a newline, and begins with
\* the place behind the line, where an older line may have left one.
read_command ==
  /\ Reading /\ user.pc = "read" /\ Arrived[1] \in {"EC", "EL"}
  /\ \E in1 \in IF Arrived[1] = "EL" THEN {<<>>, tnt.in}
                ELSE {SubSeq(tnt.in, 1, IF tnt.in = <<>> THEN 0 ELSE Len(tnt.in) - 1)} :
       tnt' = [tnt EXCEPT !.in = in1]
  /\ up' = Tail(up)
  /\ UNCHANGED <<user, down, flushing, client, server, tcps, ghosts>>

\* The connection is lost: telnetRead() returns and keeps isem.
read_fails ==
  /\ user.pc \in {"read", "cr"} /\ Free /\ up = <<>> /\ client.pc = "gone"
  /\ tnt' = [tnt EXCEPT !.isem = 0] /\ user' = [user EXCEPT !.pc = "idle"]
  /\ UNCHANGED <<streams, flushing, client, server, tcps, ghosts>>

\* The line goes to the caller.
read_fill ==
  /\ user.pc = "fill" /\ Free
  /\ tnt' = [tnt EXCEPT !.in = <<>>, !.idelim = FALSE]
  /\ user' = [user EXCEPT !.pc = "idle"]
  /\ UNCHANGED <<streams, flushing, client, server, tcps, ghosts>>

-----------------------------------------------------------------------------
(***************************************************************************)
(* The client                                                              *)
(***************************************************************************)

ClientSends(s) ==
  /\ up' = up \o s
  /\ sent' = [sent EXCEPT !.client = @ + Len(s)]

\* The client's state machine for the echo option; telnetRecv() calls it with DONT
\* for WONT as well as for DONT, for which it has no case.
echoNegotiation(state, command) ==
  CASE state = "OTHER_ECHOES" /\ command = "WONT" -> <<"NO_ECHO", << <<"DONT", "ECHO">> >> >>
    [] state = "OTHER_ECHOES" /\ command = "DO" -> <<state, << <<"WONT", "ECHO">> >> >>
    [] state = "NO_ECHO" /\ command = "DO" -> <<state, << <<"WONT", "ECHO">> >> >>
    [] state = "NO_ECHO" /\ command = "WILL" -> <<"OTHER_ECHOES", << <<"DO", "ECHO">> >> >>
    [] OTHER -> <<state, <<>> >>

\* telnetRecv(): an option from the server.
recv_option ==
  /\ client.pc = "on" /\ down # <<>> /\ Head(down)[1] # "D"
  /\ LET cmd == Head(down)[1]
         opt == Head(down)[2]
         n == echoNegotiation(client.echo, "DONT")
     IN CASE cmd = "WILL" /\ opt = "ECHO" /\ client.echo = "NO_ECHO" ->
               /\ client' = [client EXCEPT !.echo = "OTHER_ECHOES"]
               /\ ClientSends(<< <<"DO", "ECHO">> >>)
          [] cmd = "WILL" /\ opt = "SGA" /\ ~client.sgaRemote ->
               /\ client' = [client EXCEPT !.sgaRemote = TRUE]
               /\ ClientSends(<< <<"DO", "SGA">> >>)
          [] cmd = "WILL" /\ ~(opt = "ECHO" /\ client.echo = "NO_ECHO")
                          /\ ~(opt = "SGA" /\ ~client.sgaRemote) ->
               ClientSends(<< <<"DONT", opt>> >>) /\ UNCHANGED client
          [] cmd = "DO" ->
               LET agree == opt = "SGA" /\ ~client.sgaLocal IN
                 /\ client' = [client EXCEPT !.sgaLocal = @ \/ agree]
                 /\ ClientSends(<< <<IF agree THEN "WILL" ELSE "WONT", opt>> >>)
          [] cmd \in {"WONT", "DONT"} /\ opt = "ECHO" ->
               client' = [client EXCEPT !.echo = n[1]] /\ ClientSends(n[2])
          [] cmd \in {"WONT", "DONT"} /\ opt # "ECHO" ->
               LET on == IF cmd = "WONT" THEN client.sgaRemote ELSE client.sgaLocal IN
                 /\ client' = IF cmd = "WONT" THEN [client EXCEPT !.sgaRemote = FALSE]
                              ELSE [client EXCEPT !.sgaLocal = FALSE]
                 /\ ClientSends(IF opt = "SGA" /\ on
                                THEN << <<IF cmd = "WONT" THEN "DONT" ELSE "WONT", opt>> >>
                                ELSE <<>>)
  /\ down' = Tail(down)
  /\ UNCHANGED <<tnt, user, flushing, server, tcps, wrote, seen>>

\* telnetRecv(): a character; IAC comes twice and is printed once.
recv_char ==
  /\ client.pc = "on" /\ down # <<>> /\ Head(down)[1] = "D"
  /\ LET iac == Head(down)[2] = "IAC" IN
       /\ iac => Len(down) >= 2
       /\ seen' = Append(seen, Head(down)[2])
       /\ down' = SubSeq(down, IF iac THEN 3 ELSE 2, Len(down))
  /\ UNCHANGED <<tnt, user, up, flushing, client, server, tcps, wrote, sent>>

\* telnetSend(): a key.  Erasing is sent as a command, with a NUL as its option,
\* which the server takes for a character; a newline as CR NL.
send_key(k) ==
  /\ client.pc = "on" /\ client.typed < MaxKeys
  /\ client' = [client EXCEPT !.typed = @ + 1]
  /\ up' = up \o CASE k = "BS" -> << <<"EC", "">>, <<"D", "NUL">> >>
                   [] k = "^U" -> << <<"EL", "">>, <<"D", "NUL">> >>
                   [] k = "NL" -> Data(<<"CR", "NL">>)
                   [] OTHER -> Data(<<k>>)
  /\ UNCHANGED <<device, down, server, tcps, ghosts>>

\* The client ends; what it has sent still arrives.
client_quit ==
  /\ client.pc = "on" /\ client' = [client EXCEPT !.pc = "gone"]
  /\ down' = <<>> /\ seen' = <<>> /\ wrote' = <<>>
  /\ UNCHANGED <<device, up, server, tcps, sent>>

-----------------------------------------------------------------------------
(***************************************************************************)
(* The server thread                                                       *)
(***************************************************************************)

\* The server ends: it closes the telnet device.
Ends ==
  /\ tnt' = Cleared
  /\ server' = [server EXCEPT !.pc = "done", !.tcp = NULL]

\* No interface, or no TCP device.
server_fails ==
  /\ server.pc = "alloc" /\ server.sessions < MaxSessions
  /\ Ends
  /\ UNCHANGED <<user, flushing, streams, client, tcps, ghosts>>

Killer(t) == [tcp |-> t, sem |-> tnt.killswitch, at |-> "wait"]

\* A TCP device and the killer, if it can be created; then the passive open, which
\* waits for a client.
server_alloc ==
  /\ server.pc = "alloc" /\ server.sessions < MaxSessions
  /\ \E t \in Tcps \ tcps : \E k \in SUBSET {Killer(t)} :
       /\ tcps' = tcps \union {t}
       /\ server' = [server EXCEPT !.pc = "listen", !.tcp = t, !.killers = @ \union k]
  /\ UNCHANGED <<device, streams, client, ghosts>>

\* The server ends with its session: both devices are closed and the killer killed.
GivesUp ==
  /\ tnt' = Cleared /\ tcps' = tcps \ {server.tcp}
  /\ server' = [server EXCEPT !.pc = "done", !.tcp = NULL, !.killers = @ \ {Killer(server.tcp)}]

\* open() of the TCP device fails.
open_fails ==
  /\ server.pc = "listen" /\ GivesUp
  /\ UNCHANGED <<user, flushing, streams, client, ghosts>>

telnetOpen ==
  [tnt EXCEPT !.state = "OPEN", !.phw = server.tcp, !.echo = "SENT_WILL", !.flags = {},
     !.ieof = FALSE, !.idelim = FALSE, !.isem = 1, !.in = <<>>, !.out = <<>>]

\* A client connects: the telnet device is opened on the connection and the first
\* options are sent.
server_accept ==
  /\ server.pc = "listen" /\ tnt.state \in {"FREE", "ALLOC"}
  /\ client' = [Away EXCEPT !.pc = "on"]
  /\ tnt' = telnetOpen
  /\ down' = << <<"WILL", "ECHO">>, <<"DO", "SGA">> >> /\ up' = <<>>
  /\ sent' = [NoneSent EXCEPT !.server = 2]
  /\ server' = [server EXCEPT !.pc = "create", !.sessions = @ + 1]
  /\ UNCHANGED <<user, flushing, tcps, wrote, seen>>

\* A thread is started on the device.
server_create ==
  /\ server.pc = "create"
  /\ user' = [Gone EXCEPT !.pc = "idle"]
  /\ server' = [server EXCEPT !.pc = "session"]
  /\ UNCHANGED <<tnt, flushing, streams, client, tcps, ghosts>>

\* The connection is closed under the client.
Disconnect ==
  /\ client' = IF client.pc = "on" THEN [client EXCEPT !.pc = "gone"] ELSE client
  /\ up' = <<>> /\ down' = <<>> /\ wrote' = <<>> /\ seen' = <<>>

\* The thread cannot be created.
create_fails ==
  /\ server.pc = "create" /\ GivesUp /\ Disconnect
  /\ UNCHANGED <<user, flushing, sent>>

user_exit ==
  /\ user.pc = "idle" /\ Free
  /\ user' = [Gone EXCEPT !.pc = "exited"]
  /\ UNCHANGED <<tnt, flushing, streams, client, server, tcps, ghosts>>

\* The thread has ended: the connection is closed, or the server gives up, ...
close_tcp ==
  /\ server.pc = "session" /\ user.pc = "exited" /\ ~flushing
  /\ \/ GivesUp
     \/ /\ tcps' = tcps \ {server.tcp} /\ server' = [server EXCEPT !.pc = "close"]
        /\ UNCHANGED tnt
  /\ user' = Gone /\ Disconnect
  /\ UNCHANGED <<flushing, sent>>

\* ... then the device, and the next session begins.  The killer is left.
close_telnet ==
  /\ server.pc = "close"
  /\ tnt' = Cleared
  /\ server' = [server EXCEPT !.pc = "alloc", !.tcp = NULL]
  /\ client' = Away /\ sent' = NoneSent
  /\ UNCHANGED <<user, flushing, streams, tcps, wrote, seen>>

\* "telnetserver -h": the server thread is killed and the semaphore of the device
\* is freed, which wakes the killers that wait for it.
halt ==
  /\ server.pc \notin {"alloc", "done", "dead"}
  /\ server' = [server EXCEPT !.pc = "dead",
       !.killers = {IF k.sem = tnt.killswitch THEN [k EXCEPT !.at = "tcp"] ELSE k : k \in @}]
  /\ tnt' = [tnt EXCEPT !.killswitch = "new"]
  /\ flushing' = FALSE
  /\ UNCHANGED <<user, streams, client, tcps, ghosts>>

\* A killer closes the TCP device that it was given, ...
killer_tcp(k) ==
  /\ k.at = "tcp"
  /\ server' = [server EXCEPT !.killers = (@ \ {k}) \union {[k EXCEPT !.at = "telnet"]}]
  /\ tcps' = tcps \ {k.tcp}
  /\ Disconnect
  /\ UNCHANGED <<device, sent>>

\* ... then the telnet device, whatever the thread on it is doing.
killer_telnet(k) ==
  /\ k.at = "telnet"
  /\ server' = [server EXCEPT !.killers = @ \ {k}]
  /\ tnt' = Cleared
  /\ UNCHANGED <<user, flushing, streams, client, tcps, ghosts>>

-----------------------------------------------------------------------------

Next ==
  \/ telnetWrite \/ user_flush \/ user_flushed \/ server_flush \/ server_flushed
  \/ telnetRead \/ read_data \/ read_option \/ read_command \/ read_fill
  \/ read_fails \/ client_quit \/ recv_option \/ recv_char
  \/ server_fails \/ server_alloc \/ open_fails \/ server_accept \/ server_create
  \/ create_fails \/ user_exit \/ close_tcp \/ close_telnet \/ halt
  \/ \E k \in server.killers : killer_tcp(k) \/ killer_telnet(k)
  \/ \E k \in Keys : send_key(k)
  \/ \E ch \in Chars : user_write(ch)

Spec == Init /\ [][Next]_vars

-----------------------------------------------------------------------------

TypeOK ==
  /\ tnt.state \in {"FREE", "ALLOC", "OPEN"} /\ tnt.idelim \in BOOLEAN
  /\ Len(tnt.out) <= TELNET_OBLEN
  /\ user.pc \in {"none", "idle", "read", "cr", "fill", "stuck", "exited"}
  /\ client.echo \in {"NO_ECHO", "OTHER_ECHOES"}
  /\ tcps \subseteq Tcps

Texts(s) == SelectSeq(s, LAMBDA x : x[1] = "D")
Shown(s) == \* what a client prints for the octets s
  LET f[i \in 0 .. Len(s)] ==
        IF i = 0 THEN [text |-> <<>>, iac |-> FALSE]
        ELSE IF f[i - 1].iac THEN [f[i - 1] EXCEPT !.iac = FALSE]
        ELSE [text |-> Append(f[i - 1].text, s[i]), iac |-> s[i] = "IAC"]
  IN f[Len(s)].text

\* Whatever is typed and whenever buffers are flushed, the client prints what was
\* given to telnetWrite(), once and in order, with newlines as CR LF and an octet
\* 255 not taken for a command: escape, buffer and options on the way do not mix.
\* The exception is telnetFlush(), which does not take osem: what is written while
\* it waits for the connection is lost, and what is flushed then is sent twice.
OutputIntact ==
  LET all[i \in 0 .. Len(wrote)] == IF i = 0 THEN <<>> ELSE all[i - 1] \o Octets(wrote[i])
      wire == Texts(down)
      kept == IF flushing \/ user.flush THEN <<>> ELSE tnt.out
  IN ~sent.mixed /\ client.pc = "on" /\ server.pc # "dead" =>
       seen \o Shown([i \in 1 .. Len(wire) |-> wire[i][2]] \o kept)
         = Shown(all[Len(wrote)])

\* The output buffer never runs over, though the server's flush does not take osem.
OutputFits == Len(tnt.out) <= TELNET_OBLEN

\* Server and client stop talking about options after a few, and then agree: the
\* server echoes if and only if the client leaves it to the server.
NegotiationEnds ==
  /\ sent.server <= 4 /\ sent.client <= 4
  /\ (client.pc = "on" /\ server.pc = "session" /\ Texts(up) = up /\ Texts(down) = down) =>
       (tnt.echo = "SELF_ECHOES" /\ client.echo = "OTHER_ECHOES" /\ "ECHO" \in tnt.flags)

\* The thread on the device hangs in telnetRead() only if the connection was lost
\* while it read, and telnetFlush() leaves it with interrupts disabled only if the
\* server was halted while it wrote.
HarmedOnlyIfLost ==
  /\ user.pc = "stuck" => client.pc = "gone"
  /\ user.masked => server.pc = "dead"

\* From session to session, a TCP device is in use exactly while the server has it,
\* and the telnet device is open exactly while there is a session, on that device.
SessionsApart ==
  server.pc # "dead" =>
    /\ tcps = IF server.tcp = NULL \/ server.pc = "close" THEN {} ELSE {server.tcp}
    /\ tnt.state = "OPEN" <=> server.pc \in {"create", "session", "close"}
    /\ tnt.state = "OPEN" => tnt.phw = server.tcp

\* A halt closes the devices of the session that is running: the killers of the ones
\* before, which nobody kills, stay asleep.
KillsOwn == \A k \in server.killers : k.at # "wait" => k.tcp = server.tcp

=============================================================================
