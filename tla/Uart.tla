-------------------------------- MODULE Uart --------------------------------
(***************************************************************************)
(* The interrupt-driven serial driver (src/device/uart-pl011): threads in  *)
(* uartWrite() and uartRead() on one side, uartInterrupt() on the other,   *)
(* with a ring buffer and a semaphore for each direction.  The calls run   *)
(* with interrupts disabled and let go of the processor only in wait();    *)
(* their loops are steps during which owner keeps everybody else out.      *)
(***************************************************************************)
EXTENDS SemaphoreCalls

CONSTANTS
  UART_IBLEN, UART_OBLEN,
  isema, osema,     \* the semaphores that uartInit() creates
  Chars, MaxLen,    \* what is written, and at most how much at a time
  IFlags, OFlags,   \* flags that clients set and clear
  UINT,             \* 2^32 in the code
  NONE,             \* no character, no thread
  LateWriters       \* TRUE: a writer that got room may run later than the
                    \* next interrupt, because other threads go first

VARIABLES
  iflags, istart, icount, in,            \* input half of struct uart
  oflags, ostart, ocount, out, oidle,    \* output half
  tx, txris, rx,    \* hardware: character on its way out, transmit interrupt,
                    \* character received (which is the receive interrupt)
  owner,            \* thread that runs with interrupts disabled
  pc, todo, left    \* per thread: next step, characters to write, number to read

input == <<iflags, istart, icount, in>>
output == <<oflags, ostart, ocount, out, oidle>>
hardware == <<tx, txris, rx>>
vars == <<semvars, input, output, hardware, owner, pc, todo, left>>

semcount(s) == value[s] - Len(waiting[s])

Init ==
  /\ live = [s \in Sem |-> TRUE] /\ waiting = [s \in Sem |-> <<>>]
  /\ value = [s \in Sem |-> IF s = osema THEN UART_OBLEN ELSE 0]
  /\ iflags = {} /\ istart = 0 /\ icount = 0
  /\ in = [i \in 0 .. UART_IBLEN - 1 |-> NONE]
  /\ oflags = {} /\ ostart = 0 /\ ocount = 0
  /\ out = [i \in 0 .. UART_OBLEN - 1 |-> NONE] /\ oidle = TRUE
  /\ tx = NONE /\ txris = FALSE /\ rx = NONE
  /\ owner = NONE
  /\ pc = [t \in Thread |-> "idle"]
  /\ todo = [t \in Thread |-> <<>>] /\ left = [t \in Thread |-> 0]

-----------------------------------------------------------------------------
(* The hardware, as the driver uses it.                                    *)

\* The character in the data register goes out.
Transmit ==
  /\ tx # NONE
  /\ tx' = NONE /\ txris' = TRUE
  /\ UNCHANGED <<semvars, input, output, rx, owner, pc, todo, left>>

\* A character comes in.
Arrive ==
  /\ rx = NONE
  /\ \E c \in Chars : rx' = c
  /\ UNCHANGED <<semvars, input, output, tx, txris, owner, pc, todo, left>>

-----------------------------------------------------------------------------
(* uartInterrupt(): one cause at a time, the transmitter first.            *)

At(t, step) == pc[t] = step /\ ~Blocked(t)

Interruptible ==
  owner = NONE /\ (LateWriters \/ ~\E t \in Thread : At(t, "write_put"))

\* Mutant: one slot too early.
SendNext_early ==
  /\ tx' = out[(ostart + 1) % UART_OBLEN]
  /\ ocount' = ocount - 1
  /\ ostart' = (ostart + 1) % UART_OBLEN
  /\ UNCHANGED oidle
  /\ signaln(osema, 1)

\* PL011_FIFO_LEN is 1.
SendNext ==
  /\ tx' = out[ostart]
  /\ ocount' = ocount - 1
  /\ ostart' = (ostart + 1) % UART_OBLEN
  /\ UNCHANGED oidle
  /\ signaln(osema, 1)

\* Mutant: the transmitter never becomes idle.
tx_interrupt_busy ==
  /\ Interruptible /\ txris
  /\ txris' = FALSE
  /\ \/ ocount > 0 /\ SendNext
     \/ ocount = 0 /\ UNCHANGED <<tx, ostart, ocount, oidle, semvars>>
  /\ UNCHANGED <<input, oflags, out, rx, owner, pc, todo, left>>

tx_interrupt ==
  /\ Interruptible /\ txris
  /\ txris' = FALSE
  /\ \/ ocount > 0 /\ SendNext
     \/ ocount = 0 /\ oidle' = TRUE /\ UNCHANGED <<tx, ostart, ocount, semvars>>
  /\ UNCHANGED <<input, oflags, out, rx, owner, pc, todo, left>>

\* Mutant: does not look whether there is room.
rx_interrupt_over ==
  /\ Interruptible /\ ~txris /\ rx # NONE
  /\ rx' = NONE
  /\ in' = [in EXCEPT ![(istart + icount) % UART_IBLEN] = rx]
  /\ icount' = icount + 1
  /\ signaln(isema, 1)
  /\ UNCHANGED <<iflags, istart, output, tx, txris, owner, pc, todo, left>>

rx_interrupt ==
  /\ Interruptible /\ ~txris /\ rx # NONE
  /\ rx' = NONE
  /\ \/ /\ icount < UART_IBLEN
        /\ in' = [in EXCEPT ![(istart + icount) % UART_IBLEN] = rx]
        /\ icount' = icount + 1
        /\ signaln(isema, 1)
     \/ icount >= UART_IBLEN /\ UNCHANGED <<in, icount, semvars>>
  /\ UNCHANGED <<iflags, istart, output, tx, txris, owner, pc, todo, left>>

-----------------------------------------------------------------------------
(* uartWrite(), uartRead() and uartControl()                               *)

Idle(t) == pc[t] = "idle" /\ owner = NONE

\* The test that a non-blocking call makes first compares as unsigned.
Short(flags, s, n) == "NOBLOCK" \in flags /\ semcount(s) % UINT < n

uartWrite(t) ==
  /\ Idle(t)
  /\ \E n \in 1 .. MaxLen : \E buf \in [1 .. n -> Chars] :
       ~Short(oflags, osema, n) /\ todo' = [todo EXCEPT ![t] = buf]
  /\ pc' = [pc EXCEPT ![t] = IF "NOBLOCK" \in oflags THEN "whole" ELSE "loop"]
  /\ owner' = t
  /\ UNCHANGED <<semvars, input, output, hardware, left>>

uartRead(t) ==
  /\ Idle(t)
  /\ \E n \in 1 .. MaxLen :
       ~Short(iflags, isema, n) /\ left' = [left EXCEPT ![t] = n]
  /\ pc' = [pc EXCEPT ![t] = "loop"]
  /\ owner' = t
  /\ UNCHANGED <<semvars, input, output, hardware, todo>>

uartControl(t) ==
  /\ Idle(t)
  /\ \/ \E f \in IFlags : iflags' \in {iflags \cup {f}, iflags \ {f}}
        /\ UNCHANGED oflags
     \/ \E f \in OFlags : oflags' \in {oflags \cup {f}, oflags \ {f}}
        /\ UNCHANGED iflags
  /\ UNCHANGED <<semvars, istart, icount, in, ostart, ocount, out, oidle,
                 hardware, owner, pc, todo, left>>

InLoop(t) == owner = t /\ pc[t] \in {"loop", "whole"}
Writing(t) == InLoop(t) /\ todo[t] # <<>>
Reading(t) == InLoop(t) /\ todo[t] = <<>> /\ left[t] > 0

\* A non-blocking call stops when there is no space, or no input, left.
write_break(t) ==
  /\ Writing(t) /\ "NOBLOCK" \in oflags /\ semcount(osema) < 1
  /\ todo' = [todo EXCEPT ![t] = <<>>]
  /\ UNCHANGED <<semvars, input, output, hardware, owner, pc, left>>

write_direct(t) ==
  /\ Writing(t) /\ ~("NOBLOCK" \in oflags /\ semcount(osema) < 1)
  /\ oidle /\ oidle' = FALSE
  /\ tx' = Head(todo[t])
  /\ todo' = [todo EXCEPT ![t] = Tail(@)]
  /\ UNCHANGED <<semvars, input, oflags, ostart, ocount, out, txris, rx, owner,
                 pc, left>>

\* The character goes into the ring.
Put(t) ==
  /\ out' = [out EXCEPT ![(ostart + ocount) % UART_OBLEN] = Head(todo[t])]
  /\ ocount' = ocount + 1
  /\ todo' = [todo EXCEPT ![t] = Tail(@)]
  /\ UNCHANGED <<input, oflags, ostart, oidle, hardware, left>>

\* Mutant: uses the ring although the transmitter is idle.
write_wait_idle(t) ==
  /\ Writing(t) /\ ~("NOBLOCK" \in oflags /\ semcount(osema) < 1)
  /\ wait(t, osema)
  /\ value[osema] > 0 /\ Put(t) /\ UNCHANGED <<owner, pc>>

write_wait(t) ==
  /\ Writing(t) /\ ~("NOBLOCK" \in oflags /\ semcount(osema) < 1)
  /\ ~oidle
  /\ wait(t, osema)
  /\ \/ value[osema] > 0 /\ Put(t) /\ UNCHANGED <<owner, pc>>
     \/ /\ value[osema] = 0
        /\ owner' = NONE
        /\ pc' = [pc EXCEPT ![t] = "write_put"]
        /\ UNCHANGED <<input, output, hardware, todo, left>>

\* Behind the wait(), when it is the thread's turn again.
write_put(t) ==
  /\ owner = NONE /\ At(t, "write_put")
  /\ Put(t)
  /\ owner' = t
  /\ pc' = [pc EXCEPT ![t] = "loop"]
  /\ UNCHANGED semvars

read_break(t) ==
  /\ Reading(t) /\ "NOBLOCK" \in iflags /\ semcount(isema) < 1
  /\ left' = [left EXCEPT ![t] = 0]
  /\ UNCHANGED <<semvars, input, output, hardware, owner, pc, todo>>

\* A character leaves the ring; with echo, uartPutc() writes it.
Get(t) ==
  /\ icount' = icount - 1
  /\ istart' = (istart + 1) % UART_IBLEN
  /\ left' = [left EXCEPT ![t] = @ - 1]
  /\ todo' = [todo EXCEPT ![t] = IF "ECHO" \in iflags THEN <<in[istart]>> ELSE <<>>]
  /\ UNCHANGED <<iflags, in, output, hardware>>

read_wait(t) ==
  /\ Reading(t) /\ ~("NOBLOCK" \in iflags /\ semcount(isema) < 1)
  /\ wait(t, isema)
  /\ \/ value[isema] > 0 /\ Get(t) /\ UNCHANGED <<owner, pc>>
     \/ /\ value[isema] = 0
        /\ owner' = NONE
        /\ pc' = [pc EXCEPT ![t] = "read_get"]
        /\ UNCHANGED <<input, output, hardware, todo, left>>

read_get(t) ==
  /\ owner = NONE /\ At(t, "read_get")
  /\ Get(t)
  /\ owner' = t
  /\ pc' = [pc EXCEPT ![t] = "loop"]
  /\ UNCHANGED semvars

return(t) ==
  /\ InLoop(t) /\ todo[t] = <<>> /\ left[t] = 0
  /\ owner' = NONE
  /\ pc' = [pc EXCEPT ![t] = "idle"]
  /\ UNCHANGED <<semvars, input, output, hardware, todo, left>>

-----------------------------------------------------------------------------

Continue(t) ==
  \/ write_break(t) \/ write_direct(t) \/ write_wait(t) \/ write_put(t)
  \/ read_break(t) \/ read_wait(t) \/ read_get(t) \/ return(t)

Next ==
  \/ Transmit \/ Arrive \/ tx_interrupt \/ rx_interrupt
  \/ \E t \in Thread : uartWrite(t) \/ uartRead(t) \/ uartControl(t) \/ Continue(t)

Spec == Init /\ [][Next]_vars

\* The hardware sends what it is given.  A pending interrupt is taken when
\* interrupts are enabled again and again, and a ready thread gets the processor
\* (Kernel's RoundRobin), though both may be held up by others.
FairSpec ==
  /\ Spec
  /\ WF_vars(Transmit)
  /\ SF_vars(tx_interrupt) /\ SF_vars(rx_interrupt)
  /\ \A t \in Thread : SF_vars(Continue(t))

-----------------------------------------------------------------------------

TypeOK ==
  /\ value \in [Sem -> Nat] /\ waiting \in [Sem -> Seq(Thread)]
  /\ iflags \subseteq IFlags /\ oflags \subseteq OFlags
  /\ istart \in 0 .. UART_IBLEN - 1 /\ icount \in 0 .. UART_IBLEN
  /\ ostart \in 0 .. UART_OBLEN - 1 /\ ocount \in 0 .. UART_OBLEN
  /\ in \in [0 .. UART_IBLEN - 1 -> Chars \cup {NONE}]
  /\ out \in [0 .. UART_OBLEN - 1 -> Chars \cup {NONE}]
  /\ oidle \in BOOLEAN /\ txris \in BOOLEAN
  /\ tx \in Chars \cup {NONE} /\ rx \in Chars \cup {NONE}
  /\ owner \in Thread \cup {NONE}
  /\ pc \in [Thread -> {"idle", "loop", "whole", "write_put", "read_get"}]
  /\ todo \in [Thread -> Seq(Chars)] /\ left \in [Thread -> 0 .. MaxLen]

\* The two semaphores agree with the rings: osema counts the free slots and
\* isema the characters, less what is already promised to a thread that has not
\* run yet.
RingsCounted ==
  /\ value[osema] + Cardinality({t \in Thread : At(t, "write_put")}) + ocount
       = UART_OBLEN
  /\ value[isema] + Cardinality({t \in Thread : At(t, "read_get")}) = icount

\* The driver knows what the transmitter does: it is busy, or its interrupt is
\* pending, exactly when oidle is false.  So a character is never written over
\* one that has not gone out, and the next interrupt is never missed.
IdleFlagRight == oidle <=> (tx = NONE /\ ~txris)

\* "Write a buffer to the UART": no character stays in the ring with the
\* transmitter idle, where no interrupt would fetch it and the next character
\* written would overtake it.
NothingStranded == ocount > 0 => ~oidle

\* A thread waits for input while there is some.
StuckReader(t) == Waits(t, isema) /\ icount > 0

-----------------------------------------------------------------------------
(* What is on its way: the input ring, and the output ring behind the      *)
(* character in the data register.                                         *)

Ring(buffer, start, count, size) ==
  [i \in 1 .. count |-> buffer[(start + i - 1) % size]]

Outgoing ==
  (IF tx = NONE THEN <<>> ELSE <<tx>>) \o Ring(out, ostart, ocount, UART_OBLEN)

C == INSTANCE Channels WITH
  Box <- {"in", "out"},
  Msg <- Chars,
  capacity <- [b \in {"in", "out"} |->
                 IF b = "in" THEN UART_IBLEN ELSE UART_OBLEN + 1],
  queue <- [b \in {"in", "out"} |->
              IF b = "in" THEN Ring(in, istart, icount, UART_IBLEN) ELSE Outgoing]

\* Input and output are bounded first-in first-out channels.  Characters go out
\* in the order in which they were written, whether straight to the transmitter
\* or through the ring; when input comes faster than it is read, the newest
\* characters are lost and never the oldest or the order.
ChannelStep == [C!Next]_(C!vars)

=============================================================================
