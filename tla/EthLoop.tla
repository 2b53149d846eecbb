------------------------------- MODULE EthLoop -------------------------------
(***************************************************************************)
(* The Ethernet loopback device (src/device/ethloop): packets written to   *)
(* it are copied into buffers of a pool and queued for readers; a test can *)
(* have packets dropped or put on hold.  The calls run with interrupts     *)
(* disabled and let go of the processor only in wait(); what they do after *)
(* restore() are steps of their own.  The pool is what BufPool shows it to *)
(* be: a set of free buffers and a semaphore that counts them.             *)
(***************************************************************************)
EXTENDS SemaphoreCalls

CONSTANTS
  ELOOP_NBUF,
  Buf,            \* the buffers of the pool
  freebuf,        \* the pool's semaphore
  Pkts,           \* packets
  NULL,
  Flags,          \* flags that clients set and clear
  HoldTwice,      \* TRUE: a packet is put on hold while another one is held
  MaxHeld         \* bound of the count of hsem at which that still happens

VARIABLES
  state, flags, index, sem, count, buffer, hsem, hold,  \* struct ethloop
  free, mem,          \* the pool: free buffers, contents
  lost,               \* history: buffers that were not freed with their packet
  opened,             \* ethloopOpen() has returned OK: clients use the device
  pc, pkt, got        \* per thread: next step, pkt (a packet to write or the
                      \* buffer in hand), and what was read last

eloop == <<state, flags, index, sem, count, buffer, hsem, hold>>
pool == <<free, mem, lost>>
vars == <<semvars, eloop, pool, opened, pc, pkt, got>>

Slot == 0 .. ELOOP_NBUF - 1

At(t, step) == pc[t] = step /\ ~Blocked(t)

Goto(t, step, p) ==
  pc' = [pc EXCEPT ![t] = step] /\ pkt' = [pkt EXCEPT ![t] = p]

Init ==
  /\ live = [s \in Sem |-> FALSE] /\ value = [s \in Sem |-> 0]
  /\ waiting = [s \in Sem |-> <<>>]
  /\ state = "FREE" /\ flags = {} /\ index = 0 /\ count = 0
  /\ sem = BADSEM /\ hsem = BADSEM /\ hold = NULL
  /\ buffer = [i \in Slot |-> NULL]
  /\ free = Buf /\ mem = [b \in Buf |-> NULL] /\ lost = {} /\ opened = FALSE
  /\ pc = [t \in Thread |-> "idle"] /\ pkt = [t \in Thread |-> NULL]
  /\ got = [t \in Thread |-> NULL]

-----------------------------------------------------------------------------
(* ethloopOpen() and ethloopClose(), each in one section.  The device is   *)
(* closed when nobody is in a call.                                        *)

Unused == {s \in Sem \ {freebuf} : ~live[s]}

\* The semaphores sem and hsem, and the pool when bfpalloc() succeeds.
Create(new, full) ==
  /\ live' = [s \in Sem |-> live[s] \/ s \in new]
  /\ value' = [s \in Sem |-> IF s \in new THEN IF s = freebuf THEN full ELSE 0
                                          ELSE value[s]]
  /\ UNCHANGED waiting

ethloopOpen(t) ==
  /\ pc[t] = "idle" /\ state = "FREE"
  /\ state' = "ALLOC" /\ flags' = {} /\ opened' = TRUE
  /\ \E s, h \in Unused :
       s # h /\ sem' = s /\ hsem' = h /\ Create({s, h, freebuf}, ELOOP_NBUF)
  /\ index' = 0 /\ count' = 0 /\ hold' = NULL
  /\ buffer' = [i \in Slot |-> NULL]
  /\ free' = Buf /\ lost' = {}
  /\ UNCHANGED <<mem, pc, pkt, got>>

\* No two semaphores, or no memory for the pool: SYSERR, and the state stays.
open_fails(t) ==
  /\ pc[t] = "idle" /\ state = "FREE"
  /\ state' = "ALLOC" /\ flags' = {}
  /\ \/ /\ Cardinality(Unused) < 2
        /\ Create(Unused, 0)
        /\ sem' = (IF Unused = {} THEN BADSEM ELSE CHOOSE s \in Unused : TRUE)
        /\ hsem' = BADSEM
        /\ UNCHANGED <<index, count, hold, buffer>>
     \/ /\ \E s, h \in Unused :
             s # h /\ sem' = s /\ hsem' = h /\ Create({s, h}, 0)
        /\ index' = 0 /\ count' = 0 /\ hold' = NULL
        /\ buffer' = [i \in Slot |-> NULL]
  /\ UNCHANGED <<opened, pool, pc, pkt, got>>

\* semfree() of sem, and bfpfree() with the pool's semaphore.
ethloopClose(t) ==
  /\ opened /\ \A u \in Thread : pc[u] = "idle"
  /\ live' = [s \in Sem |-> live[s] /\ s \notin {sem, freebuf}]
  /\ value' = [s \in Sem |-> IF s \in {sem, freebuf} THEN 0 ELSE value[s]]
  /\ state' = "FREE" /\ opened' = FALSE
  /\ UNCHANGED <<waiting, flags, index, sem, count, buffer, hsem, hold, pool, pc,
                 pkt, got>>

-----------------------------------------------------------------------------
(* ethloopWrite(): what follows bufget(), with interrupts still disabled.  *)
(* b is the buffer; semaphores are left to the callers except in Replace.  *)

Dropping == flags \cap {"DROPNXT", "DROPALL"} # {}

\* The packet is dropped, and its buffer is not given back.
Drop(t, b) ==
  /\ Dropping
  /\ lost' = lost \cup {b}
  /\ flags' = flags \ {"DROPNXT"}
  /\ Goto(t, "idle", NULL)
  /\ UNCHANGED <<index, count, buffer, hold>>

Holding == ~Dropping /\ "HOLDNXT" \in flags

Hold(t, b) ==
  /\ Holding /\ hold = NULL
  /\ flags' = flags \ {"HOLDNXT"}
  /\ hold' = b
  /\ Goto(t, "hold_signal", NULL)
  /\ UNCHANGED <<index, count, buffer, lost>>

Enqueue(t, b) ==
  /\ ~Dropping /\ ~Holding /\ count < ELOOP_NBUF
  /\ buffer' = [buffer EXCEPT ![(count + index) % ELOOP_NBUF] = b]
  /\ count' = count + 1
  /\ Goto(t, "write_signal", NULL)
  /\ UNCHANGED <<flags, index, hold, lost>>

\* The queue is full: the packet is refused, and its buffer is not given back.
Full(t, b) ==
  /\ ~Dropping /\ ~Holding /\ count >= ELOOP_NBUF
  /\ lost' = lost \cup {b}
  /\ Goto(t, "idle", NULL)
  /\ UNCHANGED <<flags, index, count, buffer, hold>>

Deliver(t, p) ==
  \E b \in free :
    /\ free' = free \ {b}
    /\ mem' = [mem EXCEPT ![b] = p]
    /\ Drop(t, b) \/ Hold(t, b) \/ Enqueue(t, b) \/ Full(t, b)
    /\ UNCHANGED <<state, sem, hsem, opened, got>>

\* A packet is held already and buffree() gives it back before the new one takes
\* its place.  When that wakes a thread, buffree() reschedules, and hold is set
\* only when this thread runs again.
Replace(t, p) ==
  \E b \in free :
    /\ Holding /\ hold # NULL
    /\ flags' = flags \ {"HOLDNXT"}
    /\ free' = (free \ {b}) \cup {hold}
    /\ mem' = [mem EXCEPT ![b] = p]
    /\ IF waiting[freebuf] = <<>>
       THEN hold' = b /\ Goto(t, "hold_signal", NULL)
       ELSE hold' = hold /\ Goto(t, "hold_set", b)
    /\ UNCHANGED <<state, index, sem, count, buffer, hsem, lost, opened, got>>

\* bufget() waits when no buffer is free.  With one at hand the rest follows at
\* once, and Replace has taken one buffer and freed another.
ethloopWrite(t) ==
  /\ pc[t] = "idle" /\ opened
  /\ \E p \in Pkts :
       \/ value[freebuf] > 0 /\ wait(t, freebuf) /\ Deliver(t, p)
       \/ value[freebuf] > 0 /\ Replace(t, p) /\ UNCHANGED semvars
       \/ value[freebuf] = 0 /\ wait(t, freebuf) /\ Goto(t, "write_go", p)
          /\ UNCHANGED <<eloop, pool, opened, got>>

write_go(t) ==
  /\ At(t, "write_go")
  /\ \/ Deliver(t, pkt[t]) /\ UNCHANGED semvars
     \/ Replace(t, pkt[t]) /\ signal(freebuf)

hold_set(t) ==
  /\ At(t, "hold_set")
  /\ hold' = pkt[t]
  /\ Goto(t, "hold_signal", NULL)
  /\ UNCHANGED <<semvars, state, flags, index, sem, count, buffer, hsem, pool,
                 opened, got>>

write_signal(t) ==
  /\ At(t, "write_signal") /\ signal(sem) /\ Goto(t, "idle", NULL)
  /\ UNCHANGED <<eloop, pool, opened, got>>

hold_signal(t) ==
  /\ At(t, "hold_signal") /\ signal(hsem) /\ Goto(t, "idle", NULL)
  /\ UNCHANGED <<eloop, pool, opened, got>>

-----------------------------------------------------------------------------
(* ethloopRead() *)

Dequeue(t) ==
  /\ Goto(t, "read_copy", buffer[index])
  /\ buffer' = [buffer EXCEPT ![index] = NULL]
  /\ count' = count - 1
  /\ index' = (index + 1) % ELOOP_NBUF
  /\ UNCHANGED <<state, flags, sem, hsem, hold, pool, opened, got>>

ethloopRead(t) ==
  /\ pc[t] = "idle" /\ opened
  /\ wait(t, sem)
  /\ \/ value[sem] > 0 /\ Dequeue(t)
     \/ value[sem] = 0 /\ Goto(t, "read_take", NULL)
        /\ UNCHANGED <<eloop, pool, opened, got>>

read_take(t) == At(t, "read_take") /\ Dequeue(t) /\ UNCHANGED semvars

\* What the pointer p leads to.
Contents(p) == IF p \in Buf THEN mem[p] ELSE NULL

\* memcpy(), of a packet that was read or held
read_copy(t) ==
  /\ At(t, "read_copy")
  /\ got' = [got EXCEPT ![t] = Contents(pkt[t])]
  /\ Goto(t, "read_free", pkt[t])
  /\ UNCHANGED <<semvars, eloop, pool, opened>>

\* Mutant: the buffer is kept.
read_free_not(t) ==
  /\ At(t, "read_free") /\ Goto(t, "idle", NULL)
  /\ got' = [got EXCEPT ![t] = NULL]
  /\ UNCHANGED <<semvars, eloop, pool, opened>>

\* buffree(), which takes no notice of NULL
read_free(t) ==
  /\ At(t, "read_free")
  /\ \/ pkt[t] \in Buf /\ free' = free \cup {pkt[t]} /\ signal(freebuf)
     \/ pkt[t] \notin Buf /\ UNCHANGED <<free, semvars>>
  /\ Goto(t, "idle", NULL)
  /\ got' = [got EXCEPT ![t] = NULL]
  /\ UNCHANGED <<eloop, mem, lost, opened>>

-----------------------------------------------------------------------------
(* ethloopControl() *)

TakeHold(t) ==
  /\ Goto(t, "read_copy", hold)
  /\ hold' = NULL
  /\ UNCHANGED <<state, flags, index, sem, count, buffer, hsem, pool, opened, got>>

get_hold(t) ==
  /\ pc[t] = "idle" /\ opened
  /\ wait(t, hsem)
  /\ \/ value[hsem] > 0 /\ TakeHold(t)
     \/ value[hsem] = 0 /\ Goto(t, "hold_take", NULL)
        /\ UNCHANGED <<eloop, pool, opened, got>>

hold_take(t) == At(t, "hold_take") /\ TakeHold(t) /\ UNCHANGED semvars

NoHold ==
  /\ hold = NULL /\ "HOLDNXT" \notin flags
  /\ ~\E u \in Thread : pc[u] \in {"hold_set", "hold_signal"}

set_flag(t) ==
  /\ pc[t] = "idle" /\ opened
  /\ \E f \in Flags :
       /\ f = "HOLDNXT" => NoHold \/ (HoldTwice /\ value[hsem] < MaxHeld)
       /\ flags' = flags \cup {f}
  /\ UNCHANGED <<semvars, state, index, sem, count, buffer, hsem, hold, pool,
                 opened, pc, pkt, got>>

clear_flag(t) ==
  /\ pc[t] = "idle" /\ opened
  /\ \E f \in Flags : flags' = flags \ {f}
  /\ UNCHANGED <<semvars, state, index, sem, count, buffer, hsem, hold, pool,
                 opened, pc, pkt, got>>

-----------------------------------------------------------------------------

Continue(t) ==
  \/ write_go(t) \/ write_signal(t)
  \/ hold_set(t) \/ hold_signal(t) \/ hold_take(t)
  \/ read_take(t) \/ read_copy(t) \/ read_free(t)

Next ==
  \E t \in Thread :
    \/ ethloopOpen(t) \/ open_fails(t) \/ ethloopClose(t)
    \/ ethloopWrite(t) \/ ethloopRead(t) \/ get_hold(t) \/ set_flag(t) \/ clear_flag(t)
    \/ Continue(t)

Spec == Init /\ [][Next]_vars

\* Threads of one priority share the processor (Kernel's RoundRobin).
FairSpec == Spec /\ \A t \in Thread : WF_vars(Continue(t))

-----------------------------------------------------------------------------

Steps == {"idle", "write_go", "write_signal", "hold_set", "hold_signal",
  "hold_take", "read_take", "read_copy", "read_free"}

TypeOK ==
  /\ live \in [Sem -> BOOLEAN] /\ value \in [Sem -> Nat]
  /\ state \in {"FREE", "ALLOC"} /\ flags \subseteq Flags
  /\ index \in Slot /\ count \in 0 .. ELOOP_NBUF
  /\ buffer \in [Slot -> Buf \cup {NULL}] /\ hold \in Buf \cup {NULL}
  /\ {sem, hsem} \subseteq Sem \cup {BADSEM}
  /\ free \subseteq Buf /\ mem \in [Buf -> Pkts \cup {NULL}]
  /\ pc \in [Thread -> Steps] /\ pkt \in [Thread -> Buf \cup Pkts \cup {NULL}]

Queued == [i \in 1 .. count |-> buffer[(index + i - 1) % ELOOP_NBUF]]

InHand(t) ==
  IF pc[t] \in {"hold_set", "read_copy", "read_free"} THEN {pkt[t]} \ {NULL} ELSE {}

Held == IF \E t \in Thread : pc[t] = "hold_set" THEN NULL ELSE hold

\* Every buffer of the pool is in one place: free, in the queue, on hold, or in
\* the hands of one thread.  So no packet is overwritten while it is queued and
\* no buffer is freed twice.  While Replace is interrupted, hold is still the
\* buffer that was freed.
OnePlace ==
  opened =>
    /\ \A i, j \in 1 .. count : i # j => Queued[i] # Queued[j]
    /\ \A i \in 1 .. count : Queued[i] \notin free \cup {Held, NULL}
    /\ Held \notin free
    /\ \A t \in Thread :
         /\ InHand(t) \cap (free \cup {Held} \cup {Queued[i] : i \in 1 .. count}) = {}
         /\ \A u \in Thread \ {t} : InHand(t) \cap InHand(u) = {}

\* What the calls take from the pool is queued, held or given back, and nothing else
\* is lost than the buffer of a packet that was dropped on request.
NoneLost ==
  opened =>
    LET kept == free \cup ({Held} \ {NULL}) \cup {Queued[i] : i \in 1 .. count}
                  \cup UNION {InHand(t) : t \in Thread}
    IN Buf = kept \cup lost /\ kept \cap lost = {}

\* sem is the "number of packets in buffer", apart from a writer's signal() and a
\* reader that has been let in.
QueueCounted ==
  opened =>
    value[sem] + Cardinality({t \in Thread : At(t, "read_take")})
      + Cardinality({t \in Thread : pc[t] = "write_signal"}) = count

\* hsem is the "number of held packets", in the same way.
HeldCounted ==
  opened =>
    value[hsem] + Cardinality({t \in Thread : At(t, "hold_take")})
      + Cardinality({t \in Thread : pc[t] \in {"hold_set", "hold_signal"}})
      = IF hold = NULL THEN 0 ELSE 1

\* A reader waits while packets are queued.
StuckReader(t) == sem \in Sem /\ Waits(t, sem) /\ count > 0

\* A writer waits for a buffer though nothing is queued or held, no other call is in
\* progress, and not every buffer was lost to a dropped packet.
StuckWriter(t) ==
  /\ Waits(t, freebuf) /\ count = 0 /\ hold = NULL /\ lost # Buf
  /\ \A u \in Thread \ {t} : pc[u] = "idle" \/ Blocked(u)

C == INSTANCE Channels WITH
  Box <- {"eloop"},
  Msg <- Pkts,
  capacity <- [b \in {"eloop"} |-> IF opened THEN ELOOP_NBUF ELSE 0],
  queue <- [b \in {"eloop"} |->
     IF opened THEN [i \in 1 .. count |-> Contents(Queued[i])] ELSE <<>>]

\* The device is a bounded first-in first-out channel of packets.
ChannelStep == [C!Next]_(C!vars)

=============================================================================
