-------------------------------- MODULE Ether --------------------------------
(***************************************************************************)
(* The Ethernet driver of the AG71xx (src/device/ag71xx): threads in       *)
(* etherRead() and etherWrite(), the interrupt handler, and the hardware,  *)
(* which fills and empties the rings of DMA descriptors by itself.  Frames *)
(* are numbered in the order in which they come.  The calls run with       *)
(* interrupts disabled and let go of the processor in wait() only; the     *)
(* copy in etherRead() comes after restore().  Pools are sets of free      *)
(* buffers, as BufPool shows them to be; nobody waits for inPool.          *)
(***************************************************************************)
EXTENDS SemaphoreCalls, FiniteSetsExt

CONSTANTS
  ETH_IBLEN, ETH_RX_RING_ENTRIES, ETH_TX_RING_ENTRIES,
  Readers, Writers,
  MaxRx, MaxTx,       \* bounds on the frames that come and that are written
  NULL

VARIABLES
  eth,      \* struct ether, its descriptors and its pools
  nic,      \* registers, and where the hardware is in the rings
  mem,      \* frames in the buffers of both pools
  thr,      \* per thread: next step, buffer in hand, tail read in etherWrite()
  log       \* the last frame put into the ring, sent and read; was one put over another?

vars == <<semvars, eth, nic, mem, thr, log>>

RX == 0 .. ETH_RX_RING_ENTRIES - 1
TX == 0 .. ETH_TX_RING_ENTRIES - 1
InBuf == 1 .. ETH_RX_RING_ENTRIES + ETH_IBLEN
OutBuf == {-(i + 1) : i \in TX}

\* txHead and txTail are 32 bit wide and never more than twice the ring apart.
COUNTER == 4 * ETH_TX_RING_ENTRIES

Idle == [pc |-> "idle", buf |-> NULL, tail |-> 0]

At(t, step) == thr[t].pc = step /\ ~Blocked(t)

-----------------------------------------------------------------------------
(* etherInit(), etherOpen(), etherClose() *)

etherInit ==
  [state |-> "DOWN", mask |-> TRUE, rxBufs |-> [i \in RX |-> NULL], rxEmpty |-> {},
   rxHead |-> 0, txBufs |-> [i \in TX |-> NULL], txFull |-> {}, txHead |-> 0, txTail |-> 0,
   ovrrun |-> FALSE, istart |-> 0, icount |-> 0,
   in |-> [i \in 0 .. ETH_IBLEN - 1 |-> NULL], inPool |-> {}, outPool |-> {}]

Init ==
  /\ live = [s \in Sem |-> TRUE] /\ value = [s \in Sem |-> 0]
  /\ waiting = [s \in Sem |-> <<>>]
  /\ eth = etherInit
  /\ nic = [mask |-> FALSE, rxOn |-> FALSE, rxAt |-> 0, rxCount |-> 0, overflow |-> FALSE,
            txOn |-> FALSE, txAt |-> 0, txSent |-> 0, under |-> FALSE, trap |-> FALSE,
            buserr |-> FALSE, halt |-> FALSE]
  /\ mem = [b \in InBuf \cup OutBuf |-> 0]
  /\ thr = [t \in Thread |-> Idle]
  /\ log = [came |-> 0, read |-> 0, wrote |-> 0, sent |-> 0, met |-> FALSE]

\* Pools, rings, and a buffer at each receive descriptor; rxHead stays.
etherOpen ==
  /\ eth.state = "DOWN" /\ eth.mask
  /\ eth' = [eth EXCEPT !.state = "UP", !.txFull = {}, !.txBufs = [i \in TX |-> NULL],
       !.rxBufs = [i \in RX |-> i + 1], !.rxEmpty = RX,
       !.inPool = InBuf \ {i + 1 : i \in RX}, !.outPool = OutBuf]
  /\ value' = [value EXCEPT !["out"] = ETH_TX_RING_ENTRIES]
  /\ nic' = [nic EXCEPT !.mask = eth.mask, !.rxOn = TRUE, !.rxAt = 0, !.txAt = 0,
                        !.rxCount = 0]
  /\ UNCHANGED <<live, waiting, mem, thr, log>>

\* The mask in struct ether is cleared too: nothing interrupts after another open.
etherClose ==
  /\ eth.state = "UP" /\ \A t \in Thread : thr[t].pc \in {"idle", "masked"} \/ Waits(t, "in")
  /\ eth' = [eth EXCEPT !.state = "DOWN", !.mask = FALSE, !.inPool = {}, !.outPool = {}]
  /\ nic' = [nic EXCEPT !.mask = FALSE]
  /\ value' = [value EXCEPT !["out"] = 0]
  /\ UNCHANGED <<live, waiting, mem, thr, log>>

-----------------------------------------------------------------------------
(* etherRead() *)

Take(t) ==
  /\ thr' = [thr EXCEPT ![t] = [Idle EXCEPT !.pc = "copy", !.buf = eth.in[eth.istart]]]
  /\ eth' = [eth EXCEPT !.in[eth.istart] = NULL, !.icount = @ - 1,
                        !.istart = (@ + 1) % ETH_IBLEN]
  /\ UNCHANGED <<nic, mem, log>>

etherRead(t) ==
  /\ t \in Readers /\ thr[t].pc = "idle" /\ eth.state = "UP"
  /\ wait(t, "in")
  /\ \/ value["in"] > 0 /\ Take(t)
     \/ value["in"] = 0 /\ thr' = [thr EXCEPT ![t].pc = "take"]
        /\ UNCHANGED <<eth, nic, mem, log>>

\* The device is down: the call returns without restore(), and the thread goes on
\* with interrupts disabled.
read_refused(t) ==
  /\ t \in Readers /\ thr[t].pc = "idle" /\ eth.state # "UP"
  /\ thr' = [thr EXCEPT ![t].pc = "masked"]
  /\ UNCHANGED <<semvars, eth, nic, mem, log>>

read_take(t) == At(t, "take") /\ Take(t) /\ UNCHANGED semvars

\* memcpy() and buffree()
read_copy(t) ==
  /\ At(t, "copy")
  /\ log' = [log EXCEPT !.read = mem[thr[t].buf]]
  /\ eth' = [eth EXCEPT !.inPool = @ \cup {thr[t].buf}]
  /\ thr' = [thr EXCEPT ![t] = Idle]
  /\ UNCHANGED <<semvars, nic, mem>>

-----------------------------------------------------------------------------
(* etherWrite() *)

\* The frame goes to descriptor tail, which was looked up before bufget().
Place(t, tail) ==
  LET pkt == Max(eth.outPool)
      slot == tail % ETH_TX_RING_ENTRIES
  IN /\ eth' = [eth EXCEPT !.outPool = @ \ {pkt}, !.txBufs[slot] = pkt,
                           !.txFull = @ \cup {slot}, !.txTail = (@ + 1) % COUNTER]
     /\ mem' = [mem EXCEPT ![pkt] = log.wrote + 1]
     /\ log' = [log EXCEPT !.wrote = @ + 1, !.met = @ \/ tail # eth.txTail]
     /\ nic' = [nic EXCEPT !.txOn = TRUE, !.under = FALSE,
                           !.txAt = IF nic.under THEN slot ELSE @]
     /\ thr' = [thr EXCEPT ![t] = Idle]

\* Refused when the descriptor is in use; bufget() may wait.
etherWrite(t) ==
  /\ t \in Writers /\ thr[t].pc = "idle" /\ eth.state = "UP" /\ log.wrote < MaxTx
  /\ eth.txTail % ETH_TX_RING_ENTRIES \notin eth.txFull
  /\ wait(t, "out")
  /\ \/ value["out"] > 0 /\ Place(t, eth.txTail)
     \/ /\ value["out"] = 0
        /\ thr' = [thr EXCEPT ![t] = [Idle EXCEPT !.pc = "place", !.tail = eth.txTail]]
        /\ UNCHANGED <<eth, nic, mem, log>>

write_place(t) == At(t, "place") /\ Place(t, thr[t].tail) /\ UNCHANGED semvars

-----------------------------------------------------------------------------
(* etherInterrupt() *)

\* How many descriptors from txHead on the hardware is done with.
Done ==
  LET used == (eth.txTail - eth.txHead) % COUNTER
      slot(k) == (eth.txHead + k) % ETH_TX_RING_ENTRIES
  IN Max({n \in 0 .. used : \A k \in 0 .. n - 1 : slot(k) \notin eth.txFull})

Slots(n) == {(eth.txHead + k) % ETH_TX_RING_ENTRIES : k \in 0 .. n - 1}

\* n descriptors are finished: one acknowledgement and buffree() for each.
txPackets(n) ==
  LET done == {eth.txBufs[i] : i \in Slots(n)} \ {NULL} IN
  /\ eth' = [eth EXCEPT !.txHead = (@ + n) % COUNTER, !.outPool = @ \cup done,
                        !.txBufs = [i \in TX |-> IF i \in Slots(n) THEN NULL ELSE @[i]]]
  /\ nic' = [nic EXCEPT !.txSent =
       IF n = 0 /\ eth.txHead # eth.txTail THEN @ ELSE Max({0, @ - Max({n, 1})})]
  /\ signaln("out", Cardinality(done))

\* A new buffer from the pool goes to descriptor i, which is EMPTY.
allocRxBuffer(e, i) ==
  [e EXCEPT !.inPool = @ \ {Min(@)}, !.rxBufs[i] = Min(e.inPool),
            !.rxEmpty = @ \cup {i}]

\* A new buffer takes the place of the one that holds the frame.  bufget() in an
\* interrupt handler cannot wait: with the pool empty it follows a null pointer.
Deliver(head) ==
  IF eth.inPool = {}
  THEN nic' = [nic EXCEPT !.trap = TRUE] /\ UNCHANGED <<semvars, eth, mem>>
  ELSE /\ eth' = [allocRxBuffer(eth, head) EXCEPT !.icount = @ + 1,
            !.rxHead = (@ + 1) % ETH_RX_RING_ENTRIES,
            !.in[(eth.istart + eth.icount) % ETH_IBLEN] = eth.rxBufs[head]]
       /\ nic' = [nic EXCEPT !.rxCount = @ - 1]
       /\ signal("in")
       /\ UNCHANGED mem

\* The frame is erased and its descriptor is left as it is, not EMPTY.
Overrun(head) ==
  /\ eth' = [eth EXCEPT !.ovrrun = TRUE, !.rxHead = (@ + 1) % ETH_RX_RING_ENTRIES]
  /\ nic' = [nic EXCEPT !.rxCount = @ - 1]
  /\ mem' = [mem EXCEPT ![eth.rxBufs[head]] = 0]
  /\ UNCHANGED semvars

\* One frame at a time; the hardware interrupts again while it counts more.
rxPackets(head) ==
  IF head \in eth.rxEmpty
  THEN nic' = [nic EXCEPT !.rxCount = @ - 1] /\ UNCHANGED <<semvars, eth, mem>>
  ELSE IF eth.icount < ETH_IBLEN THEN Deliver(head) ELSE Overrun(head)

\* The causes are independent of each other and are served one at a time here.  After
\* a bus error the handler loops for ever.
etherInterrupt ==
  /\ nic.mask
  /\ \/ nic.txSent > 0 /\ txPackets(Done) /\ UNCHANGED mem
     \/ nic.rxCount > 0 /\ rxPackets(eth.rxHead)
     \/ /\ nic.overflow
        /\ nic' = [nic EXCEPT !.overflow = FALSE, !.rxOn = TRUE]
        /\ UNCHANGED <<semvars, eth, mem>>
     \/ /\ nic.buserr
        /\ nic' = [nic EXCEPT !.halt = TRUE]
        /\ UNCHANGED <<semvars, eth, mem>>
  /\ UNCHANGED <<thr, log>>

-----------------------------------------------------------------------------
(* The hardware *)

\* A frame comes: into the buffer of the next descriptor if that is EMPTY.
Arrive ==
  /\ nic.rxOn /\ log.came < MaxRx
  /\ IF nic.rxAt \in eth.rxEmpty
     THEN /\ mem' = [mem EXCEPT ![eth.rxBufs[nic.rxAt]] = log.came + 1]
          /\ eth' = [eth EXCEPT !.rxEmpty = @ \ {nic.rxAt}]
          /\ nic' = [nic EXCEPT !.rxAt = (@ + 1) % ETH_RX_RING_ENTRIES, !.rxCount = @ + 1]
          /\ log' = [log EXCEPT !.came = @ + 1]
     ELSE /\ nic' = [nic EXCEPT !.overflow = TRUE, !.rxOn = FALSE]
          /\ UNCHANGED <<mem, eth, log>>
  /\ UNCHANGED <<semvars, thr>>

\* A frame leaves, or there is none and the transmitter stops.
Depart ==
  /\ nic.txOn
  /\ IF nic.txAt \in eth.txFull
     THEN /\ eth' = [eth EXCEPT !.txFull = @ \ {nic.txAt}]
          /\ nic' = [nic EXCEPT !.txAt = (@ + 1) % ETH_TX_RING_ENTRIES, !.txSent = @ + 1]
          /\ log' = [log EXCEPT !.sent = mem[eth.txBufs[nic.txAt]]]
     ELSE /\ nic' = [nic EXCEPT !.under = TRUE, !.txOn = FALSE]
          /\ UNCHANGED <<eth, log>>
  /\ UNCHANGED <<semvars, mem, thr>>

\* An error on the bus.
BusError ==
  /\ ~nic.buserr
  /\ nic' = [nic EXCEPT !.buserr = TRUE] /\ UNCHANGED <<semvars, eth, mem, thr, log>>

\* After a trap, or in the handler's loop, nothing runs.
Next ==
  /\ ~nic.trap /\ ~nic.halt
  /\ \/ etherOpen \/ etherClose \/ etherInterrupt
     \/ \E t \in Thread :
          etherRead(t) \/ read_refused(t) \/ read_take(t) \/ read_copy(t) \/ etherWrite(t) \/ write_place(t)
     \/ (eth.state = "UP" /\ (Arrive \/ Depart \/ BusError))

Spec == Init /\ [][Next]_vars

-----------------------------------------------------------------------------

TypeOK ==
  /\ eth.icount \in 0 .. ETH_IBLEN /\ eth.rxHead \in RX
  /\ eth.rxEmpty \subseteq RX /\ eth.txFull \subseteq TX
  /\ eth.inPool \subseteq InBuf /\ eth.outPool \subseteq OutBuf
  /\ nic.rxCount \in 0 .. ETH_RX_RING_ENTRIES + 1 /\ nic.txSent \in Nat

InHand == {thr[t].buf : t \in {u \in Thread : thr[u].pc = "copy"}} \ {NULL}
InQueue == {eth.in[i] : i \in DOMAIN eth.in} \ {NULL}
InRing == {eth.rxBufs[i] : i \in RX}

\* Receive buffers are free, at a descriptor, in the queue or in the hands of a
\* reader, each in one place: allocRxBuffer() replaces what rxPackets() takes and
\* etherRead() gives back what it took, overruns included.
ReceiveBuffersKept ==
  eth.state = "UP" =>
    /\ InBuf = eth.inPool \cup InRing \cup InQueue \cup InHand
    /\ Cardinality(InBuf) = Cardinality(eth.inPool) + Cardinality(InRing)
                             + Cardinality(InQueue) + Cardinality(InHand)

\* The handler runs out of buffers only while a reader holds one and the rest of
\* the queue is full: bfpalloc() in etherOpen() makes one for every descriptor and
\* every place of the queue, and none for the readers.
TrapOnlyInCopy ==
  nic.trap => /\ \E t \in Thread : thr[t].pc = "copy"
              /\ eth.icount + Cardinality(InHand) >= ETH_IBLEN

\* isema counts the queue, apart from readers that have been let in.
QueueCounted ==
  value["in"] + Cardinality({t \in Thread : At(t, "take")}) = eth.icount

\* Until the first overrun, the queue and then the ring hold the frames in the order
\* in which they came, without a gap, behind the last one that was taken.
InOrder ==
  (eth.state = "UP" /\ ~eth.ovrrun) =>
    LET queued == [i \in 1 .. eth.icount |-> mem[eth.in[(eth.istart + i - 1) % ETH_IBLEN]]]
        filled == ETH_RX_RING_ENTRIES - Cardinality(eth.rxEmpty)
        ringed == [i \in 1 .. filled |->
                     mem[eth.rxBufs[(eth.rxHead + i - 1) % ETH_RX_RING_ENTRIES]]]
        all == queued \o ringed
    IN \A i \in 1 .. Len(all) : all[i] = log.came - Len(all) + i

\* A receiver that finds no EMPTY descriptor though the driver has seen all frames
\* stays deaf; only an overrun brings that about.
DeafOnlyAfterOverrun ==
  (eth.state = "UP" /\ nic.rxCount = 0 /\ nic.rxAt \notin eth.rxEmpty) => eth.ovrrun

\* Transmit buffers are free or at one descriptor, and the frames leave in the order
\* in which they were written, all of them: unless a writer waited for a buffer with
\* the tail in hand, which another writer has used when it goes on.
TransmitKept ==
  (eth.state = "UP" /\ ~log.met) =>
    LET inRing == {eth.txBufs[i] : i \in TX} \ {NULL}
        pending == Cardinality(eth.txFull)
    IN /\ eth.outPool \cap inRing = {} /\ eth.outPool \cup inRing = OutBuf
       /\ log.sent + pending = log.wrote
       /\ \A k \in 1 .. pending :
            mem[eth.txBufs[(eth.txTail - pending + k - 1) % ETH_TX_RING_ENTRIES]]
              = log.sent + k

\* A writer waits for a buffer though no frame is on its way and no interrupt is due.
StuckWriter(t) ==
  /\ Waits(t, "out") /\ eth.txFull = {} /\ nic.txSent = 0
  /\ ~log.met /\ ~nic.trap

=============================================================================
