-------------------------------- MODULE Vlan --------------------------------
(***************************************************************************)
(* The Ethernet driver of the BCM4713 (src/device/bcm4713): one physical   *)
(* device, 0, and virtual ones that share its rings; frames carry the      *)
(* number of the device they are for.  The handler reads the status        *)
(* register when it starts and acknowledges what it read when it ends; in  *)
(* between the hardware goes on.  Pools are sets of free buffers, as       *)
(* BufPool shows them to be; nobody waits for inPool.                      *)
(***************************************************************************)
EXTENDS SemaphoreCalls, FiniteSetsExt

CONSTANTS
  NETHER, ETH_IBLEN, ETH_RX_RING_ENTRIES, ETH_TX_RING_ENTRIES,
  DeviceOf,           \* the device that a thread reads from or writes to
  Readers, Writers,
  MaxRx, MaxTx,       \* bounds on the frames that come and that are written
  Errors,             \* TRUE: the hardware may report an error
  NULL

VARIABLES
  eth,      \* ethertab: state, mask and queue of each device
  ring,     \* the rings and pools of device 0
  nic,      \* registers, where the hardware is, what the handler is serving
  mem,      \* frame in each buffer
  thr,      \* next step and buffer of each thread
  log       \* counters, and whether a frame came between serving and acknowledging

vars == <<semvars, eth, ring, nic, mem, thr, log>>

Minor == 0 .. NETHER - 1
RX == 0 .. ETH_RX_RING_ENTRIES - 1
TX == 0 .. ETH_TX_RING_ENTRIES - 1
InBuf == 1 .. ETH_RX_RING_ENTRIES + ETH_IBLEN * NETHER
OutBuf == {-(i + 1) : i \in TX}

isema(m) == <<"in", m>>
outPool == <<"out", 0>>

NoFrame == [n |-> 0, lan |-> 0, ok |-> TRUE]
Idle == [pc |-> "idle", buf |-> NULL]

At(t, step) == thr[t].pc = step /\ ~Blocked(t) /\ nic.serving = {}

-----------------------------------------------------------------------------
(* etherInit(), vlanInit(), and opening and closing.                       *)

vlanInit == [state |-> "DOWN", mask |-> TRUE, in |-> <<>>]

etherInit ==
  [rxBufs |-> [i \in RX |-> NULL], rxHead |-> 0, rxTail |-> 0,
   txBufs |-> [i \in TX |-> NULL], txHead |-> 0, txTail |-> 0,
   inPool |-> {}, outPool |-> {}]

Reset == [mask |-> FALSE, on |-> FALSE, status |-> {}, serving |-> {}, until |-> 0,
          rxAt |-> 0, rxLast |-> 0, txAt |-> 0, txLast |-> 0, trap |-> FALSE,
          wild |-> FALSE]

Init ==
  /\ live = [s \in Sem |-> TRUE] /\ value = [s \in Sem |-> 0]
  /\ waiting = [s \in Sem |-> <<>>]
  /\ eth = [m \in Minor |-> vlanInit] /\ ring = etherInit /\ nic = Reset
  /\ mem = [b \in InBuf \union OutBuf |-> NoFrame]
  /\ thr = [t \in Thread |-> Idle]
  /\ log = [came |-> 0, wrote |-> 0, sent |-> 0, read |-> [m \in Minor |-> 0],
            late |-> FALSE, ovrrun |-> FALSE]

\* The mask of the device goes to the card: after a close it is 0.
etherOpen ==
  /\ eth[0].state = "DOWN" /\ nic.serving = {} /\ ~nic.on
  /\ \A t \in Thread : thr[t].pc = "idle" \/ \E m \in Minor : Waits(t, isema(m))
  /\ eth' = [eth EXCEPT ![0].state = "UP"]
  /\ ring' = [ring EXCEPT !.rxBufs = [i \in RX |-> i + 1], !.rxTail = ETH_RX_RING_ENTRIES,
                !.inPool = InBuf \ {i + 1 : i \in RX}, !.outPool = OutBuf]
  /\ nic' = [Reset EXCEPT !.mask = eth[0].mask, !.on = TRUE,
                          !.rxLast = ETH_RX_RING_ENTRIES]
  /\ value' = [value EXCEPT ![outPool] = ETH_TX_RING_ENTRIES]
  /\ UNCHANGED <<live, waiting, mem, thr, log>>

vlanOpen(m) ==
  /\ m # 0 /\ eth[m].state = "DOWN" /\ nic.serving = {}
  /\ eth' = [eth EXCEPT ![m].state = "UP"]
  /\ UNCHANGED <<semvars, ring, nic, mem, thr, log>>

\* Frames for a virtual device that is down are queued all the same.
vlanClose(m) ==
  /\ m # 0 /\ eth[m].state = "UP" /\ nic.serving = {}
  /\ eth' = [eth EXCEPT ![m].state = "DOWN"]
  /\ UNCHANGED <<semvars, ring, nic, mem, thr, log>>

-----------------------------------------------------------------------------
(* etherRead(): the tag and the checksum are cut off.                      *)

Take(t, m) ==
  /\ thr' = [thr EXCEPT ![t] = [pc |-> "copy", buf |-> Head(eth[m].in)]]
  /\ eth' = [eth EXCEPT ![m].in = Tail(@)]
  /\ UNCHANGED <<ring, nic, mem, log>>

etherRead(t) ==
  /\ t \in Readers /\ At(t, "idle") /\ eth[DeviceOf[t]].state = "UP"
  /\ wait(t, isema(DeviceOf[t]))
  /\ \/ value[isema(DeviceOf[t])] > 0 /\ Take(t, DeviceOf[t])
     \/ value[isema(DeviceOf[t])] = 0 /\ thr' = [thr EXCEPT ![t].pc = "take"]
        /\ UNCHANGED <<eth, ring, nic, mem, log>>

read_take(t) == At(t, "take") /\ Take(t, DeviceOf[t]) /\ UNCHANGED semvars

read_copy(t) ==
  /\ At(t, "copy")
  /\ log' = [log EXCEPT !.read[DeviceOf[t]] = mem[thr[t].buf].n]
  /\ ring' = [ring EXCEPT !.inPool = @ \union {thr[t].buf}]
  /\ thr' = [thr EXCEPT ![t] = Idle]
  /\ UNCHANGED <<semvars, eth, nic, mem>>

-----------------------------------------------------------------------------
(* etherWrite(): bufget() and the copy, then the frame goes to the ring,   *)
(* without a look at whether there is room.                                *)

etherWrite(t) ==
  /\ t \in Writers /\ At(t, "idle") /\ log.wrote < MaxTx
  /\ eth[DeviceOf[t]].state = "UP" /\ eth[0].state = "UP"
  /\ wait(t, outPool) /\ thr' = [thr EXCEPT ![t].pc = "get"]
  /\ UNCHANGED <<eth, ring, nic, mem, log>>

write_get(t) ==
  /\ At(t, "get")
  /\ thr' = [thr EXCEPT ![t] = [pc |-> "put", buf |-> Max(ring.outPool)]]
  /\ ring' = [ring EXCEPT !.outPool = @ \ {Max(@)}]
  /\ UNCHANGED <<semvars, eth, nic, mem, log>>

Next1(i) == (i + 1) % ETH_TX_RING_ENTRIES

Post(b) ==
  /\ ring' = [ring EXCEPT !.txBufs[ring.txTail] = b, !.txTail = Next1(@)]
  /\ nic' = [nic EXCEPT !.txLast = Next1(ring.txTail)]

write_put(t) ==
  /\ At(t, "put") /\ log.wrote < MaxTx
  /\ Post(thr[t].buf)
  /\ mem' = [mem EXCEPT ![thr[t].buf] = [n |-> log.wrote + 1, lan |-> DeviceOf[t], ok |-> TRUE]]
  /\ log' = [log EXCEPT !.wrote = @ + 1]
  /\ thr' = [thr EXCEPT ![t] = Idle]
  /\ UNCHANGED <<semvars, eth>>

-----------------------------------------------------------------------------
(* etherInterrupt().                                                       *)

\* Descriptors from i up to, not including, j, in the order of the ring.
Between(i, j, size) == {(i + k) % size : k \in 0 .. ((j - i) % size) - 1}

txPackets(done) ==
  /\ ring' = [ring EXCEPT !.txHead = nic.txAt, !.outPool = @ \union done,
       !.txBufs = [i \in TX |-> IF ring.txBufs[i] \in done THEN NULL ELSE @[i]]]
  /\ signaln(outPool, Cardinality(done))
  /\ UNCHANGED <<eth, mem>>

Advance(r) ==
  [r EXCEPT !.rxTail = (@ + 1) % ETH_RX_RING_ENTRIES,
            !.rxHead = (@ + 1) % ETH_RX_RING_ENTRIES]

\* As it would be if every frame went to the physical device.
lan_of_phy(b) == 0

\* The device named by the tag of the frame.
lan_of(b) == mem[b].lan

\* A new buffer from the pool goes to descriptor i.
allocRxBuffer(r, i) ==
  [r EXCEPT !.inPool = @ \ {Min(@)}, !.rxBufs[i] = Min(r.inPool)]

\* One frame, in buffer b at rxHead: queued behind a new buffer, or dropped.  With
\* the pool empty bufget() would wait, which the handler cannot.
rxPacket(b, m) ==
  IF mem[b].ok /\ Len(eth[m].in) < ETH_IBLEN
  THEN IF ring.inPool = {}
       THEN nic' = [nic EXCEPT !.trap = TRUE] /\ UNCHANGED <<semvars, eth, ring, mem, log>>
       ELSE /\ ring' = Advance(allocRxBuffer(ring, ring.rxHead))
            /\ eth' = [eth EXCEPT ![m].in = Append(@, b)]
            /\ signal(isema(m))
            /\ nic' = [nic EXCEPT !.rxLast = Advance(ring).rxTail]
            /\ UNCHANGED <<mem, log>>
  ELSE /\ ring' = Advance(ring) /\ mem' = [mem EXCEPT ![b] = NoFrame]
       /\ nic' = [nic EXCEPT !.rxLast = Advance(ring).rxTail]
       /\ log' = [log EXCEPT !.ovrrun = @ \/ mem[b].ok]
       /\ UNCHANGED <<semvars, eth>>

\* The handler starts: what it serves is what the status register shows now.
etherInterrupt ==
  /\ nic.mask /\ nic.status # {} /\ nic.serving = {}
  /\ \/ /\ "TX" \in nic.status
        /\ txPackets({ring.txBufs[i] : i \in
                        Between(ring.txHead, nic.txAt, ETH_TX_RING_ENTRIES)} \ {NULL})
     \/ "TX" \notin nic.status /\ UNCHANGED <<semvars, eth, ring, mem>>
  /\ nic' = [nic EXCEPT !.serving = nic.status, !.until = nic.rxAt]
  /\ UNCHANGED <<thr, log>>

\* The loop of rxPackets() ends where the hardware was when it was asked.  The tag
\* is an index into ethertab that is not checked: behind the end of the table the
\* handler uses memory that is something else.
rxPackets ==
  /\ "RX" \in nic.serving /\ ring.rxHead # nic.until
  /\ LET b == ring.rxBufs[ring.rxHead] IN
       IF lan_of(b) \in Minor THEN rxPacket(b, lan_of(b))
       ELSE nic' = [nic EXCEPT !.wild = TRUE] /\ UNCHANGED <<semvars, eth, ring, mem, log>>
  /\ UNCHANGED thr

\* An error closes every device, with its pools: buffers in the rings and queues
\* are never given back, readers go on waiting.
etherClose ==
  /\ eth' = [m \in Minor |-> [eth[m] EXCEPT !.state = "DOWN", !.mask = FALSE]]
  /\ ring' = [ring EXCEPT !.rxHead = 0, !.rxTail = 0, !.txHead = 0, !.txTail = 0,
                          !.inPool = {}, !.outPool = {}]
  /\ value' = [value EXCEPT ![outPool] = 0]
  /\ nic' = Reset
  /\ UNCHANGED <<live, waiting>>

\* The handler ends and acknowledges what it read at the start, not more.
interrupt_ends ==
  /\ nic.serving # {} /\ ("RX" \in nic.serving => ring.rxHead = nic.until)
  /\ IF "ERR" \in nic.serving THEN etherClose
     ELSE /\ nic' = [nic EXCEPT !.status = @ \ nic.serving, !.serving = {}, !.until = 0]
          /\ UNCHANGED <<semvars, eth, ring>>
  /\ UNCHANGED <<mem, thr, log>>

-----------------------------------------------------------------------------
(* The hardware: one frame at a time into the ring, unless the next        *)
(* descriptor is the last one posted, and out of it up to the last one.    *)
(* Tags are numbers of devices, or greater.                                *)

Arrive ==
  /\ nic.on /\ log.came < MaxRx
  /\ \E m \in 0 .. NETHER, ok \in BOOLEAN :
       IF (nic.rxAt + 1) % ETH_RX_RING_ENTRIES # nic.rxLast % ETH_RX_RING_ENTRIES
       THEN /\ mem' = [mem EXCEPT ![ring.rxBufs[nic.rxAt]] =
                         [n |-> log.came + 1, lan |-> m, ok |-> ok]]
            /\ nic' = [nic EXCEPT !.rxAt = (@ + 1) % ETH_RX_RING_ENTRIES,
                                  !.status = @ \union {"RX"}]
            /\ log' = [log EXCEPT !.came = @ + 1, !.late = @ \/ "RX" \in nic.serving]
       ELSE /\ Errors /\ nic' = [nic EXCEPT !.status = @ \union {"ERR"}]
            /\ UNCHANGED <<mem, log>>
  /\ UNCHANGED <<semvars, eth, ring, thr>>

Depart ==
  /\ nic.on /\ nic.txAt # nic.txLast
  /\ nic' = [nic EXCEPT !.txAt = Next1(@), !.status = @ \union {"TX"}]
  /\ log' = [log EXCEPT !.sent = mem[ring.txBufs[nic.txAt]].n]
  /\ UNCHANGED <<semvars, eth, ring, mem, thr>>

Quiet == \A t \in Thread : thr[t].pc = "idle" \/ \E m \in Minor : Waits(t, isema(m))

\* A close, which an error brings about, does not meet a call under way.  The model
\* ends where the handler has no buffer or no device.
Next ==
  /\ ~nic.trap /\ ~nic.wild
  /\ \/ etherOpen \/ \E m \in Minor : vlanOpen(m) \/ vlanClose(m)
     \/ \E t \in Thread :
          \/ etherRead(t) \/ read_take(t) \/ read_copy(t)
          \/ etherWrite(t) \/ write_get(t) \/ write_put(t)
     \/ etherInterrupt \/ rxPackets \/ (("ERR" \in nic.serving => Quiet) /\ interrupt_ends)
     \/ Arrive \/ Depart

Spec == Init /\ [][Next]_vars

-----------------------------------------------------------------------------

TypeOK ==
  /\ \A m \in Minor : Len(eth[m].in) <= ETH_IBLEN
  /\ ring.rxHead \in RX /\ ring.txHead \in TX /\ ring.txTail \in TX
  /\ ring.inPool \subseteq InBuf /\ ring.outPool \subseteq OutBuf

InHand == {thr[t].buf : t \in {u \in Thread : thr[u].pc = "copy"}}
Queued(m) == {eth[m].in[i] : i \in 1 .. Len(eth[m].in)}
InRing == {ring.rxBufs[i] : i \in RX}

\* While the device has not been closed, every receive buffer is in one place: the
\* pool, the ring, one of the queues, or the hands of a reader.
BuffersKept ==
  (eth[0].state = "UP" /\ eth[0].mask) =>
    /\ InBuf = ring.inPool \union InRing \union InHand \union UNION {Queued(m) : m \in Minor}
    /\ Cardinality(InBuf) =
         Cardinality(ring.inPool) + Cardinality(InRing) + Cardinality(InHand)
         + MapThenSumSet(LAMBDA m : Cardinality(Queued(m)), Minor)

\* A frame is queued for the device that its tag names, undamaged, in the order of
\* arrival, and never twice, as long as the tags are numbers of devices.  (After a
\* close the queues still hold buffers of a pool that is gone.)
RightDevice ==
  eth[0].mask => \A m \in Minor : LET q == eth[m].in IN
    \A i \in 1 .. Len(q) :
      /\ mem[q[i]].lan = m /\ mem[q[i]].ok /\ mem[q[i]].n > log.read[m]
      /\ i > 1 => mem[q[i - 1]].n < mem[q[i]].n

\* isema of a device counts its queue, apart from readers that have been let in.
QueueCounted ==
  \A m \in Minor :
    value[isema(m)] + Cardinality({t \in Readers : DeviceOf[t] = m /\ thr[t].pc = "take"
                                                   /\ ~Blocked(t)}) = Len(eth[m].in)

\* A frame lies in the ring without an interrupt to announce it only if it came
\* while the handler was serving others: the handler then acknowledges it unseen.
Announced ==
  (nic.mask /\ nic.serving = {} /\ ring.rxHead # nic.rxAt) => "RX" \in nic.status \/ log.late

\* The handler runs out of buffers only while readers hold some and the queues are
\* full: etherOpen() makes enough for the ring and all the queues.
TrapOnlyInCopy ==
  nic.trap => InHand # {} /\ Cardinality(UNION {Queued(m) : m \in Minor})
                               + Cardinality(InHand) >= ETH_IBLEN * NETHER

\* Frames leave in the order in which they were written, each once, as long as the
\* ring has never been filled up: a full ring looks empty to the card.
SentInOrder ==
  LET left == IF nic.txAt = nic.txLast THEN 0
              ELSE (nic.txLast - nic.txAt) % ETH_TX_RING_ENTRIES
  IN nic.on /\ eth[0].mask /\ left + log.sent # log.wrote =>
       \A b \in OutBuf : b \notin ring.outPool

=============================================================================
