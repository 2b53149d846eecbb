-------------------------- MODULE MailboxInvariant --------------------------
(***************************************************************************)
(* The inductive invariant of mailboxes, for every number of threads,      *)
(* semaphores and mailboxes: who is where in which call, which semaphores  *)
(* a mailbox has, and how they count its slots and messages.  The lemmas   *)
(* show that mailboxSend(), mailboxReceive(), kills and mailboxAlloc()     *)
(* keep it.                                                                *)
(***************************************************************************)
EXTENDS Mailbox, QueuesProofs

\* What is assumed of the system: its tables are finite, an array of a mailbox's
\* messages fits into half of the address space, and a mailbox is freed only when
\* nobody else uses it.
Assumptions ==
  /\ IsFiniteSet(Thread) /\ NMAILBOX \in Nat \ {0}
  /\ mboxtabsem \in Sem /\ BADSEM \notin Sem
  /\ UINT \in Nat /\ \A n \in Counts : n \in Nat /\ 2 * n <= UINT
  /\ FreeInUse = FALSE

\* What the lemmas use.
Premises == Assumptions /\ Counting

Steps == {"idle", "signal_table"} \cup SendSteps \cup ReceiveSteps
           \cup AllocSteps \cup FreeSteps

\* Every thread waits at most once in a queue.
SemTypes ==
  /\ live \in [Sem -> BOOLEAN] /\ value \in [Sem -> Nat]
  /\ waiting \in [Sem -> Seq(Thread)] /\ \A s \in Sem : NoDuplicates(waiting[s])

\* wait(): the thread takes a unit or joins the queue.
LEMMA WaitEffect ==
  ASSUME SemTypes, NEW t \in Thread, NEW s \in Sem, live[s], wait(t, s), ~Waits(t, s)
  PROVE  /\ SemTypes' /\ live' = live
         /\ \A z \in Sem \ {s} : value'[z] = value[z]
         /\ \/ /\ value[s] > 0 /\ value'[s] = value[s] - 1
               /\ \A z \in Sem, u \in Thread : Waits(u, z)' <=> Waits(u, z)
            \/ /\ value[s] = 0 /\ value'[s] = value[s]
               /\ \A z \in Sem, u \in Thread :
                    Waits(u, z)' <=> Waits(u, z) \/ (u = t /\ z = s)
<1>1. S!P(s, t)
  BY Zenon DEF wait, isbadsem
<1>2. CASE value[s] > 0
  <2>1. live' = live /\ value' = [value EXCEPT ![s] = value[s] - 1] /\ waiting' = waiting
    BY <1>1, <1>2, Zenon DEF S!P
  <2>2. \A z \in Sem : value'[z] = IF z = s THEN value[s] - 1 ELSE value[z]
    BY <2>1, Zenon DEF SemTypes
  <2>3. SemTypes'
    BY <1>2, <2>1 DEF SemTypes
  <2> QED BY <1>2, <2>1, <2>2, <2>3, Zenon DEF Waits
<1>3. CASE ~(value[s] > 0)
  <2>1. /\ live' = live /\ value' = value
        /\ waiting' = [waiting EXCEPT ![s] = Append(waiting[s], t)]
    BY <1>1, <1>3, Zenon DEF S!P
  <2>2. PICK q \in Seq(Thread) : q = waiting[s] /\ NoDuplicates(q) /\ ~Contains(q, t)
    BY Zenon DEF SemTypes, Waits, Contains
  <2>3. PICK r : r = Append(q, t)
    BY Zenon
  <2>4. /\ r \in Seq(Thread) /\ NoDuplicates(r)
        /\ \A x : Contains(r, x) <=> Contains(q, x) \/ x = t
    BY <2>2, <2>3, AppendMembers
  <2>5. \A z \in Sem : waiting'[z] = IF z = s THEN r ELSE waiting[z]
    BY <2>1, <2>2, <2>3, Zenon DEF SemTypes
  <2>6. SemTypes'
    <3>1. waiting' \in [Sem -> Seq(Thread)]
      BY <2>1, <2>2, <2>3, <2>4, Zenon DEF SemTypes
    <3>2. \A z \in Sem : NoDuplicates(waiting'[z])
      BY <2>4, <2>5, Zenon DEF SemTypes
    <3> QED BY <2>1, <3>1, <3>2, Zenon DEF SemTypes
  <2>7. ASSUME NEW z \in Sem, NEW u \in Thread
        PROVE  Waits(u, z)' <=> Waits(u, z) \/ (u = t /\ z = s)
    <3>1. Waits(u, z)' <=> Contains(waiting'[z], u)
      BY Zenon DEF Waits, Contains
    <3>2. Waits(u, z) <=> Contains(waiting[z], u)
      BY Zenon DEF Waits, Contains
    <3>3. CASE z = s
      BY <2>2, <2>4, <2>5, <3>1, <3>2, <3>3, Zenon
    <3>4. CASE z # s
      BY <2>5, <3>1, <3>2, <3>4, Zenon
    <3> QED BY <3>3, <3>4, Zenon
  <2>8. value[s] = 0
    BY <1>3 DEF SemTypes
  <2> QED BY <2>1, <2>6, <2>7, <2>8, Zenon
<1> QED BY <1>2, <1>3, Zenon

\* signal(): the thread that waits longest goes on, or the unit is kept.
LEMMA SignalEffect ==
  ASSUME SemTypes, NEW s \in Sem, live[s], signal(s)
  PROVE  /\ SemTypes' /\ live' = live
         /\ \A z \in Sem \ {s} : value'[z] = value[z]
         /\ \/ /\ value'[s] = value[s] + 1
               /\ \A z \in Sem, u \in Thread : Waits(u, z)' <=> Waits(u, z)
            \/ /\ value'[s] = value[s]
               /\ \E h \in Thread :
                    /\ Waits(h, s)
                    /\ \A z \in Sem, u \in Thread :
                         Waits(u, z)' <=> Waits(u, z) /\ ~(u = h /\ z = s)
<1>1. S!V(s)
  BY Zenon DEF signal, isbadsem
<1>2. CASE waiting[s] = <<>>
  <2>1. live' = live /\ value' = [value EXCEPT ![s] = value[s] + 1] /\ waiting' = waiting
    BY <1>1, <1>2, Zenon DEF S!V
  <2>2. \A z \in Sem : value'[z] = IF z = s THEN value[s] + 1 ELSE value[z]
    BY <2>1, Zenon DEF SemTypes
  <2>3. SemTypes'
    BY <2>1 DEF SemTypes
  <2> QED BY <2>1, <2>2, <2>3, Zenon DEF Waits
<1>3. CASE waiting[s] # <<>>
  <2>1. /\ live' = live /\ value' = value
        /\ waiting' = [waiting EXCEPT ![s] = Tail(waiting[s])]
    BY <1>1, <1>3, Zenon DEF S!V
  <2>2. PICK q \in Seq(Thread) : q = waiting[s] /\ NoDuplicates(q) /\ q # <<>>
    BY <1>3, Zenon DEF SemTypes
  <2>3. PICK r : r = Tail(q)
    BY Zenon
  <2>4. PICK h \in Thread : h = Head(q)
    BY <2>2
  <2>5. /\ r \in Seq(Thread) /\ NoDuplicates(r) /\ Contains(q, h)
        /\ \A x : Contains(r, x) <=> Contains(q, x) /\ x # h
    BY <2>2, <2>3, <2>4, TailMembers, Zenon
  <2>6. \A z \in Sem : waiting'[z] = IF z = s THEN r ELSE waiting[z]
    BY <2>1, <2>2, <2>3, Zenon DEF SemTypes
  <2>7. SemTypes'
    <3>1. waiting' \in [Sem -> Seq(Thread)]
      BY <2>1, <2>2, <2>3, <2>5, Zenon DEF SemTypes
    <3>2. \A z \in Sem : NoDuplicates(waiting'[z])
      BY <2>5, <2>6, Zenon DEF SemTypes
    <3> QED BY <2>1, <3>1, <3>2, Zenon DEF SemTypes
  <2>8. ASSUME NEW z \in Sem, NEW u \in Thread
        PROVE  Waits(u, z)' <=> Waits(u, z) /\ ~(u = h /\ z = s)
    <3>1. Waits(u, z)' <=> Contains(waiting'[z], u)
      BY Zenon DEF Waits, Contains
    <3>2. Waits(u, z) <=> Contains(waiting[z], u)
      BY Zenon DEF Waits, Contains
    <3>3. CASE z = s
      BY <2>2, <2>5, <2>6, <3>1, <3>2, <3>3, Zenon
    <3>4. CASE z # s
      BY <2>6, <3>1, <3>2, <3>4, Zenon
    <3> QED BY <3>3, <3>4, Zenon
  <2>9. Waits(h, s)
    BY <2>2, <2>5, Zenon DEF Waits, Contains
  <2> QED BY <2>1, <2>7, <2>8, <2>9, Zenon
<1> QED BY <1>2, <1>3, Zenon

\* semfree(): nobody waits any more.
LEMMA SemfreeEffect ==
  ASSUME SemTypes, NEW s \in Sem, live[s], semfree(s)
  PROVE  /\ SemTypes' /\ live'[s] = FALSE
         /\ \A z \in Sem \ {s} : live'[z] = live[z] /\ value'[z] = value[z]
         /\ \A z \in Sem, u \in Thread : Waits(u, z)' <=> Waits(u, z) /\ z # s
<1>1. /\ live' = [live EXCEPT ![s] = FALSE] /\ value' = [value EXCEPT ![s] = 0]
      /\ waiting' = [waiting EXCEPT ![s] = <<>>]
  BY Zenon DEF semfree, isbadsem, S!Free
<1>2. \A z \in Sem : /\ live'[z] = IF z = s THEN FALSE ELSE live[z]
                     /\ value'[z] = IF z = s THEN 0 ELSE value[z]
                     /\ waiting'[z] = IF z = s THEN <<>> ELSE waiting[z]
  BY <1>1, Zenon DEF SemTypes
<1>3. NoDuplicates(<<>>)
  BY DEF NoDuplicates
<1>4. SemTypes'
  <2>1. live' \in [Sem -> BOOLEAN] /\ value' \in [Sem -> Nat] /\ waiting' \in [Sem -> Seq(Thread)]
    BY <1>1 DEF SemTypes
  <2> QED BY <1>2, <1>3, <2>1, Zenon DEF SemTypes
<1>5. ASSUME NEW z \in Sem, NEW u \in Thread
      PROVE  Waits(u, z)' <=> Waits(u, z) /\ z # s
  <2>1. CASE z = s
    <3>1. waiting'[z] = <<>> /\ Len(<<>>) = 0
      BY <1>2, <2>1, Zenon
    <3> QED BY <2>1, <3>1 DEF Waits
  <2>2. CASE z # s
    BY <1>2, <2>2, Zenon DEF Waits
  <2> QED BY <2>1, <2>2, Zenon
<1> QED BY <1>2, <1>4, <1>5, Zenon

\* semcreate(): a semaphore that nobody used.
LEMMA SemcreateEffect ==
  ASSUME SemTypes, NEW s \in Sem, s # BADSEM, NEW n \in Nat, semcreate(s, n)
  PROVE  /\ SemTypes' /\ ~live[s] /\ live'[s] /\ value'[s] = n
         /\ \A z \in Sem \ {s} : live'[z] = live[z] /\ value'[z] = value[z]
         /\ \A z \in Sem, u \in Thread : Waits(u, z)' <=> Waits(u, z)
<1>1. /\ live' = [live EXCEPT ![s] = TRUE] /\ value' = [value EXCEPT ![s] = n]
      /\ waiting' = waiting /\ ~live[s]
  BY Zenon DEF semcreate
<1>2. \A z \in Sem : /\ live'[z] = IF z = s THEN TRUE ELSE live[z]
                     /\ value'[z] = IF z = s THEN n ELSE value[z]
  BY <1>1, Zenon DEF SemTypes
<1>3. SemTypes'
  BY <1>1, Zenon DEF SemTypes
<1> QED BY <1>1, <1>2, <1>3, Zenon DEF Waits

\* A thread that is killed waits no longer.
LEMMA KillEffect ==
  ASSUME SemTypes, NEW t \in Thread, KillWaiting(t)
  PROVE  /\ SemTypes' /\ UNCHANGED <<live, value>>
         /\ \E s \in Sem :
              /\ Waits(t, s)
              /\ \A z \in Sem, u \in Thread :
                   Waits(u, z)' <=> Waits(u, z) /\ ~(u = t /\ z = s)
<1>1. PICK s \in Sem : \E i \in 1 .. Len(waiting[s]) : waiting[s][i] = t /\ S!Cancel(s, i)
  BY Zenon DEF KillWaiting
<1>2. PICK i \in 1 .. Len(waiting[s]) : waiting[s][i] = t /\ S!Cancel(s, i)
  BY <1>1, Zenon
<1>3. PICK q \in Seq(Thread) : q = waiting[s] /\ NoDuplicates(q)
  BY Zenon DEF SemTypes
<1>4. /\ UNCHANGED <<live, value>>
      /\ waiting' = [waiting EXCEPT ![s] = SubSeq(q, 1, i - 1) \o SubSeq(q, i + 1, Len(q))]
  BY <1>2, <1>3, Zenon DEF S!Cancel
<1>5. PICK r : r = RemoveAt(q, i)
  BY Zenon
<1>6. r = SubSeq(q, 1, i - 1) \o SubSeq(q, i + 1, Len(q))
  BY <1>2, <1>3, <1>5, RemoveAtIs, Zenon
<1>7. /\ r \in Seq(Thread) /\ NoDuplicates(r)
      /\ \A x : Contains(r, x) <=> Contains(q, x) /\ x # t
  BY <1>2, <1>3, <1>5, RemoveAtMembers, Zenon
<1>8. \A z \in Sem : waiting'[z] = IF z = s THEN r ELSE waiting[z]
  BY <1>4, <1>6, Zenon DEF SemTypes
<1>9. SemTypes'
  <2>1. waiting' \in [Sem -> Seq(Thread)]
    BY <1>4, <1>6, <1>7, Zenon DEF SemTypes
  <2>2. \A z \in Sem : NoDuplicates(waiting'[z])
    BY <1>7, <1>8, Zenon DEF SemTypes
  <2> QED BY <1>4, <2>1, <2>2, Zenon DEF SemTypes
<1>10. ASSUME NEW z \in Sem, NEW u \in Thread
       PROVE  Waits(u, z)' <=> Waits(u, z) /\ ~(u = t /\ z = s)
  <2>1. Waits(u, z)' <=> Contains(waiting'[z], u)
    BY Zenon DEF Waits, Contains
  <2>2. Waits(u, z) <=> Contains(waiting[z], u)
    BY Zenon DEF Waits, Contains
  <2>3. CASE z = s
    BY <1>3, <1>7, <1>8, <2>1, <2>2, <2>3, Zenon
  <2>4. CASE z # s
    BY <1>8, <2>1, <2>2, <2>4, Zenon
  <2> QED BY <2>3, <2>4, Zenon
<1>11. Waits(t, s)
  BY <1>2, Zenon DEF Waits
<1> QED BY <1>4, <1>9, <1>10, <1>11, Zenon

(***************************************************************************)
(* The inductive invariant.                                                *)
(***************************************************************************)
BoxTypes ==
  /\ state \in [Box -> {"MAILBOX_FREE", "MAILBOX_ALLOC"}]
  /\ sender \in [Box -> Sem \cup {BADSEM}] /\ receiver \in [Box -> Sem \cup {BADSEM}]
  /\ max \in [Box -> Nat] /\ count \in [Box -> Nat] /\ start \in [Box -> Nat]
  /\ DOMAIN msgs = Box /\ nextmbx \in Box

\* The caller's argument is there while a step needs it.
ThreadTypes ==
  /\ pc \in [Thread -> Steps] /\ box \in [Thread -> Box] /\ DOMAIN arg = Thread
  /\ \A t \in Thread :
       /\ pc[t] \in {"send_wait", "send_put"} => arg[t] \in Msgs
       /\ pc[t] \in {"alloc_wait", "alloc_scan", "alloc_sender"} => arg[t] \in Counts
       /\ pc[t] = "alloc_sender" => arg[t] > 0

\* A thread waits only for the semaphore its step has just asked for.
Awaited(t) == IF pc[t] = "send_put" THEN sender[box[t]]
              ELSE IF pc[t] = "receive_take" THEN receiver[box[t]] ELSE mboxtabsem

WaitSteps == {"alloc_scan", "free_sender", "send_put", "receive_take"}

WaitsWhere == \A s \in Sem, t \in Thread :
                Waits(t, s) => pc[t] \in WaitSteps /\ s = Awaited(t)

\* mboxtabsem has at most one unit, and none while a thread edits the table.
Edits(t) == pc[t] \in Editing /\ ~Blocked(t)

TableLocked ==
  /\ live[mboxtabsem] /\ value[mboxtabsem] <= 1
  /\ \A t \in Thread : Edits(t) => /\ value[mboxtabsem] = 0
                                   /\ \A u \in Thread : Edits(u) => u = t

\* A mailbox is allocated while it is used, free while it is being made, and its
\* freer is alone with it.
Making == {"alloc_sender", "alloc_receiver", "alloc_set", "alloc_undo_sender",
           "alloc_undo_receiver"}

Phases ==
  \A t \in Thread :
    /\ pc[t] \in SendSteps \cup ReceiveSteps \cup FreeSteps => state[box[t]] = "MAILBOX_ALLOC"
    /\ pc[t] \in Making => state[box[t]] = "MAILBOX_FREE"
    /\ pc[t] \in FreeSteps =>
         \A u \in Thread \ {t} :
           pc[u] \in SendSteps \cup ReceiveSteps \cup FreeSteps => box[u] # box[t]

\* The two semaphores of a mailbox, and when the mailbox has them.
End(e, b) == IF e = "sender" THEN sender[b] ELSE receiver[b]

Has(e, b) ==
  IF e = "sender"
  THEN \/ state[b] = "MAILBOX_ALLOC" /\ ~Using(b, {"free_receiver", "free_set"})
       \/ /\ Using(b, {"alloc_receiver", "alloc_set", "alloc_undo_sender"})
          /\ sender[b] # BADSEM
  ELSE \/ state[b] = "MAILBOX_ALLOC" /\ ~Using(b, {"free_set"})
       \/ /\ Using(b, {"alloc_set", "alloc_undo_sender", "alloc_undo_receiver"})
          /\ receiver[b] # BADSEM

Ends == {"sender", "receiver"}

\* No semaphore serves two ends, and none of them is mboxtabsem.
OwnSemaphores ==
  \A e \in Ends, b \in Box : Has(e, b) =>
    /\ End(e, b) \in Sem /\ live[End(e, b)] /\ End(e, b) # mboxtabsem
    /\ \A f \in Ends, c \in Box : Has(f, c) /\ End(f, c) = End(e, b) => f = e /\ c = b

\* A mailbox in the making has the units it starts with.
Made ==
  \A t \in Thread :
    /\ pc[t] = "alloc_sender" => msgs[box[t]] \in [0 .. arg[t] - 1 -> Msgs \cup {GARBAGE}]
    /\ pc[t] \in {"alloc_receiver", "alloc_set"} =>
         /\ max[box[t]] \in Counts \ {0}
         /\ msgs[box[t]] \in [0 .. max[box[t]] - 1 -> Msgs \cup {GARBAGE}]
         /\ sender[box[t]] # BADSEM => value[sender[box[t]]] = max[box[t]]
    /\ pc[t] = "alloc_set" =>
         /\ sender[box[t]] # BADSEM /\ receiver[box[t]] # BADSEM
         /\ value[receiver[box[t]]] = 0

\* The ring of an allocated mailbox.
Rings ==
  \A b \in Box : state[b] = "MAILBOX_ALLOC" =>
    /\ max[b] \in Nat \ {0} /\ 2 * max[b] <= UINT
    /\ start[b] < max[b] /\ count[b] <= max[b]
    /\ msgs[b] \in [0 .. max[b] - 1 -> Msgs \cup {GARBAGE}]

MailboxInv == /\ SemTypes /\ BoxTypes /\ ThreadTypes /\ WaitsWhere /\ TableLocked
              /\ Phases /\ OwnSemaphores /\ Made /\ Rings /\ SlotsAccounted

\* All threads but t stay where they are.
OthersStay(t) == \A u \in Thread \ {t} : /\ pc'[u] = pc[u] /\ box'[u] = box[u]
                                         /\ arg'[u] = arg[u]

\* What Go() does to the threads.
LEMMA GoEffect ==
  ASSUME ThreadTypes, NEW t \in Thread, NEW step \in Steps, Go(t, step)
  PROVE  /\ OthersStay(t) /\ pc'[t] = step /\ box'[t] = box[t] /\ arg'[t] = arg[t]
         /\ pc' \in [Thread -> Steps] /\ box' \in [Thread -> Box] /\ DOMAIN arg' = Thread
BY Zenon DEF ThreadTypes, Go, OthersStay

\* What Return() does to the threads.
LEMMA ReturnEffect ==
  ASSUME Premises, ThreadTypes, NEW t \in Thread, Return(t)
  PROVE  /\ OthersStay(t) /\ pc'[t] = "idle" /\ ThreadTypes'
<1>1. "idle" \in Steps /\ 0 \in Box
  BY DEF Steps, Box, Premises, Assumptions
<1>2. /\ pc' = [pc EXCEPT ![t] = "idle"] /\ box' = [box EXCEPT ![t] = 0]
      /\ arg' = [arg EXCEPT ![t] = 0]
  BY Zenon DEF Return
<1>3. OthersStay(t) /\ pc'[t] = "idle"
  BY <1>2, Zenon DEF ThreadTypes, OthersStay
<1>4. pc' \in [Thread -> Steps] /\ box' \in [Thread -> Box] /\ DOMAIN arg' = Thread
  BY <1>1, <1>2, Zenon DEF ThreadTypes
<1> QED BY <1>3, <1>4, Zenon DEF ThreadTypes, OthersStay

\* What a call does to the threads.
LEMMA CallEffect ==
  ASSUME ThreadTypes, NEW t \in Thread, NEW step \in Steps, NEW b \in Box, NEW a,
         Call(t, step, b, a)
  PROVE  /\ OthersStay(t) /\ pc'[t] = step /\ box'[t] = b /\ arg'[t] = a
         /\ pc' \in [Thread -> Steps] /\ box' \in [Thread -> Box] /\ DOMAIN arg' = Thread
BY Zenon DEF ThreadTypes, Call, OthersStay

\* A thread is blocked only where it waits.
LEMMA BlockedWhere ==
  ASSUME WaitsWhere, NEW t \in Thread
  PROVE  Blocked(t) <=> /\ pc[t] \in WaitSteps /\ Awaited(t) \in Sem
                        /\ Waits(t, Awaited(t))
BY Zenon DEF WaitsWhere, Blocked

\* A thread that sends or receives has an open mailbox with both semaphores.
LEMMA UserHas ==
  ASSUME MailboxInv, NEW t \in Thread, pc[t] \in SendSteps \cup ReceiveSteps
  PROVE  /\ Open(box[t]) /\ box[t] \in Box /\ state[box[t]] = "MAILBOX_ALLOC"
         /\ Has("sender", box[t]) /\ Has("receiver", box[t])
         /\ sender[box[t]] \in Sem /\ live[sender[box[t]]] /\ sender[box[t]] # mboxtabsem
         /\ receiver[box[t]] \in Sem /\ live[receiver[box[t]]]
         /\ receiver[box[t]] # mboxtabsem /\ receiver[box[t]] # sender[box[t]]
<1>1. box[t] \in Box /\ state[box[t]] = "MAILBOX_ALLOC"
  BY Zenon DEF MailboxInv, ThreadTypes, Phases
<1>2. ~Using(box[t], FreeSteps)
  <2> SUFFICES ASSUME NEW u \in Thread, pc[u] \in FreeSteps, box[u] = box[t]
               PROVE  FALSE
    BY Zenon DEF Using
  <2>1. u # t
    BY Zenon DEF FreeSteps, SendSteps, ReceiveSteps
  <2> QED BY <2>1, Zenon DEF MailboxInv, Phases
<1>3. Has("sender", box[t]) /\ Has("receiver", box[t])
  BY <1>1, <1>2, Zenon DEF Has, Using, FreeSteps
<1>4. "sender" \in Ends /\ "receiver" \in Ends
  BY Zenon DEF Ends
<1>5. /\ sender[box[t]] \in Sem /\ live[sender[box[t]]] /\ sender[box[t]] # mboxtabsem
      /\ receiver[box[t]] \in Sem /\ live[receiver[box[t]]]
      /\ receiver[box[t]] # mboxtabsem /\ receiver[box[t]] # sender[box[t]]
  BY <1>1, <1>3, <1>4, Zenon DEF MailboxInv, OwnSemaphores, End
<1> QED BY <1>1, <1>2, <1>3, <1>5, Zenon DEF Open

\* An open mailbox has both its semaphores.
LEMMA OpenHas ==
  ASSUME MailboxInv, NEW b \in Box, Open(b)
  PROVE  /\ Has("sender", b) /\ Has("receiver", b)
         /\ sender[b] \in Sem /\ sender[b] # mboxtabsem /\ live[sender[b]]
         /\ receiver[b] \in Sem /\ receiver[b] # mboxtabsem /\ live[receiver[b]]
         /\ sender[b] # receiver[b]
         /\ \A c \in Box \ {b} : Open(c) => /\ sender[c] # sender[b]
                                            /\ receiver[c] # receiver[b]
                                            /\ sender[c] # receiver[b]
                                            /\ receiver[c] # sender[b]
<1>1. \A c \in Box : Open(c) => Has("sender", c) /\ Has("receiver", c)
  BY Zenon DEF Open, Has, Using, FreeSteps
<1>2. "sender" \in Ends /\ "receiver" \in Ends
  BY Zenon DEF Ends
<1> QED BY <1>1, <1>2, Zenon DEF MailboxInv, OwnSemaphores, End

\* A mailbox in the making has the semaphores it has got, and nobody uses them.
LEMMA MakerHas ==
  ASSUME MailboxInv, NEW u \in Thread, pc[u] \in {"alloc_receiver", "alloc_set"}
  PROVE  /\ box[u] \in Box /\ state[box[u]] = "MAILBOX_FREE"
         /\ sender[box[u]] # BADSEM =>
              /\ Has("sender", box[u]) /\ sender[box[u]] \in Sem
              /\ sender[box[u]] # mboxtabsem
              /\ \A c \in Box : Open(c) => /\ sender[c] # sender[box[u]]
                                           /\ receiver[c] # sender[box[u]]
         /\ pc[u] = "alloc_set" =>
              /\ Has("receiver", box[u]) /\ receiver[box[u]] \in Sem
              /\ receiver[box[u]] # mboxtabsem
              /\ \A c \in Box : Open(c) => /\ sender[c] # receiver[box[u]]
                                           /\ receiver[c] # receiver[box[u]]
<1>1. box[u] \in Box /\ state[box[u]] = "MAILBOX_FREE"
  BY Zenon DEF MailboxInv, ThreadTypes, Phases, Making
<1>2. /\ sender[box[u]] # BADSEM => Has("sender", box[u])
      /\ pc[u] = "alloc_set" => Has("receiver", box[u])
  BY Zenon DEF Has, Using, MailboxInv, Made
<1>3. \A c \in Box : Open(c) => Has("sender", c) /\ Has("receiver", c) /\ c # box[u]
  BY <1>1, OpenHas, Zenon DEF Open
<1>4. "sender" \in Ends /\ "receiver" \in Ends
  BY Zenon DEF Ends
<1>5. sender[box[u]] # BADSEM =>
              /\ Has("sender", box[u]) /\ sender[box[u]] \in Sem
              /\ sender[box[u]] # mboxtabsem
              /\ \A c \in Box : Open(c) => /\ sender[c] # sender[box[u]]
                                           /\ receiver[c] # sender[box[u]]
  BY <1>1, <1>2, <1>3, <1>4 DEF MailboxInv, OwnSemaphores, End
<1>6. pc[u] = "alloc_set" =>
              /\ Has("receiver", box[u]) /\ receiver[box[u]] \in Sem
              /\ receiver[box[u]] # mboxtabsem
              /\ \A c \in Box : Open(c) => /\ sender[c] # receiver[box[u]]
                                           /\ receiver[c] # receiver[box[u]]
  BY <1>1, <1>2, <1>3, <1>4, Zenon DEF MailboxInv, OwnSemaphores, End
<1> QED BY <1>1, <1>5, <1>6, Zenon

\* Steps that make or unmake a mailbox, and those at which the mailbox has other
\* semaphores than its state says.
Special == Making \cup {"free_receiver", "free_set"}

Holding == Special \ {"alloc_sender"}

\* A step of a thread that neither makes nor unmakes a mailbox leaves the semaphores
\* with their mailboxes.
LEMMA OwnKept ==
  ASSUME MailboxInv, UNCHANGED <<state, sender, receiver>>, live' = live,
         NEW t \in Thread, OthersStay(t), pc[t] \notin Holding, pc'[t] \notin Holding
  PROVE  OwnSemaphores'
<1>1. \A u \in Thread : /\ pc'[u] \in Holding <=> pc[u] \in Holding
                        /\ pc[u] \in Holding => pc'[u] = pc[u] /\ box'[u] = box[u]
  BY Zenon DEF OthersStay
<1>2. ASSUME NEW b \in Box, NEW X \in SUBSET Holding
      PROVE  Using(b, X)' <=> Using(b, X)
  BY <1>1, Zenon DEF Using
<1>3. \A e \in Ends, b \in Box : Has(e, b)' <=> Has(e, b)
  <2>1. /\ {"free_receiver", "free_set"} \in SUBSET Holding
        /\ {"free_set"} \in SUBSET Holding
        /\ {"alloc_receiver", "alloc_set", "alloc_undo_sender"} \in SUBSET Holding
        /\ {"alloc_set", "alloc_undo_sender", "alloc_undo_receiver"} \in SUBSET Holding
    BY Zenon DEF Holding, Special, Making
  <2> QED BY <1>2, <2>1, Zenon DEF Has, Ends
<1> QED BY <1>3 DEF MailboxInv, OwnSemaphores, End

\* The same for a mailbox in the making.
LEMMA MadeKept ==
  ASSUME MailboxInv, UNCHANGED <<sender, receiver, max>>,
         NEW t \in Thread, OthersStay(t), pc[t] \notin Special, pc'[t] \notin Special,
         \A u \in Thread : pc[u] \in Making => msgs'[box[u]] = msgs[box[u]],
         \A u \in Thread : pc[u] \in {"alloc_receiver", "alloc_set"} =>
           /\ sender[box[u]] # BADSEM => value'[sender[box[u]]] = value[sender[box[u]]]
           /\ pc[u] = "alloc_set" => value'[receiver[box[u]]] = value[receiver[box[u]]]
  PROVE  Made'
<1>1. \A u \in Thread : /\ pc'[u] \in Special => pc[u] \in Special
                        /\ pc[u] \in Special => /\ pc'[u] = pc[u] /\ box'[u] = box[u]
                                                /\ arg'[u] = arg[u]
  BY Zenon DEF OthersStay
<1> QED BY <1>1 DEF MailboxInv, Made, Special, Making

\* A step that leaves the table alone keeps what is known of the table.
LEMMA TableKept ==
  ASSUME MailboxInv, UNCHANGED <<mboxtab, nextmbx>>, live' = live,
         NEW t \in Thread, OthersStay(t), pc[t] \notin Special, pc'[t] \notin Special,
         \A u \in Thread : pc[u] \in {"alloc_receiver", "alloc_set"} =>
           /\ sender[box[u]] # BADSEM => value'[sender[box[u]]] = value[sender[box[u]]]
           /\ pc[u] = "alloc_set" => value'[receiver[box[u]]] = value[receiver[box[u]]]
  PROVE  BoxTypes' /\ OwnSemaphores' /\ Made' /\ Rings'
<1>1. UNCHANGED <<state, sender, receiver, max, count, start, msgs>>
  BY Zenon DEF mboxtab
<1>2. OwnSemaphores' /\ Made'
  BY <1>1, OwnKept, MadeKept, Zenon DEF Holding
<1>3. BoxTypes' /\ Rings'
  BY <1>1, Zenon DEF MailboxInv, BoxTypes, Rings
<1> QED BY <1>2, <1>3, Zenon

\* Threads other than t wait for what they waited for.
LEMMA WaitsKept ==
  ASSUME MailboxInv, UNCHANGED <<sender, receiver>>, NEW t \in Thread, OthersStay(t),
         \A s \in Sem, u \in Thread \ {t} : Waits(u, s)' => Waits(u, s),
         \A s \in Sem : Waits(t, s)' => pc'[t] \in WaitSteps /\ s = Awaited(t)'
  PROVE  WaitsWhere'
<1> SUFFICES ASSUME NEW s \in Sem, NEW u \in Thread, Waits(u, s)'
             PROVE  pc'[u] \in WaitSteps /\ s = Awaited(u)'
  BY Zenon DEF WaitsWhere
<1>1. CASE u = t
  BY <1>1, Zenon
<1>2. CASE u # t
  <2>1. pc[u] \in WaitSteps /\ s = Awaited(u)
    BY <1>2, Zenon DEF MailboxInv, WaitsWhere
  <2> QED BY <1>2, <2>1, Zenon DEF OthersStay, Awaited
<1> QED BY <1>1, <1>2, Zenon

\* Nobody starts to edit the table, and its semaphore keeps its unit.
LEMMA LockKept ==
  ASSUME MailboxInv, live'[mboxtabsem], value'[mboxtabsem] = value[mboxtabsem],
         \A u \in Thread : pc'[u] \in Editing => /\ pc[u] \in Editing
                                                 /\ Blocked(u) => Blocked(u)'
  PROVE  TableLocked'
BY Zenon DEF MailboxInv, TableLocked, Edits

\* A thread goes on within its call, or leaves it.
LEMMA PhasesKept ==
  ASSUME MailboxInv, UNCHANGED state, NEW t \in Thread, OthersStay(t),
         pc'[t] \in SendSteps \cup ReceiveSteps \cup FreeSteps =>
           /\ box'[t] = box[t] /\ pc[t] \in SendSteps \cup ReceiveSteps \cup FreeSteps
           /\ pc'[t] \in FreeSteps <=> pc[t] \in FreeSteps,
         pc'[t] \in Making => state[box'[t]] = "MAILBOX_FREE"
  PROVE  Phases'
<1> DEFINE U == SendSteps \cup ReceiveSteps \cup FreeSteps
<1>1. \A u \in Thread : /\ pc'[u] \in U => pc[u] \in U /\ box'[u] = box[u]
                        /\ pc'[u] \in FreeSteps => pc[u] \in FreeSteps
  BY Zenon DEF OthersStay
<1>2. \A u \in Thread : pc'[u] \in Making => state[box'[u]] = "MAILBOX_FREE"
  BY Zenon DEF OthersStay, MailboxInv, Phases
<1>3. \A u \in Thread : pc'[u] \in U => state[box'[u]] = "MAILBOX_ALLOC"
  BY <1>1, Zenon DEF MailboxInv, Phases
<1>4. ASSUME NEW u \in Thread, pc'[u] \in FreeSteps, NEW w \in Thread \ {u}, pc'[w] \in U
      PROVE  box'[w] # box'[u]
  BY <1>1, <1>4, Zenon DEF MailboxInv, Phases
<1> HIDE DEF U
<1> QED BY <1>2, <1>3, <1>4, Zenon DEF Phases, U

\* wait() as the threads see it: t is past it or blocked.
LEMMA WaitDoes ==
  ASSUME MailboxInv, NEW t \in Thread, NEW s \in Sem, live[s], ~Blocked(t), wait(t, s)
  PROVE  /\ SemTypes' /\ live' = live
         /\ \A z \in Sem \ {s} : value'[z] = value[z]
         /\ \A u \in Thread \ {t} : Blocked(u)' <=> Blocked(u)
         /\ \A z \in Sem, u \in Thread \ {t} : Waits(u, z)' => Waits(u, z)
         /\ \A z \in Sem : Waits(t, z)' => z = s
         /\ \/ value[s] > 0 /\ value'[s] = value[s] - 1 /\ ~Blocked(t)'
            \/ value[s] = 0 /\ value'[s] = 0 /\ Blocked(t)'
<1>1. SemTypes /\ ~Waits(t, s)
  BY Zenon DEF MailboxInv, Blocked
<1>2. /\ SemTypes' /\ live' = live
      /\ \A z \in Sem \ {s} : value'[z] = value[z]
      /\ \/ /\ value[s] > 0 /\ value'[s] = value[s] - 1
            /\ \A z \in Sem, u \in Thread : Waits(u, z)' <=> Waits(u, z)
         \/ /\ value[s] = 0 /\ value'[s] = value[s]
            /\ \A z \in Sem, u \in Thread :
                 Waits(u, z)' <=> Waits(u, z) \/ (u = t /\ z = s)
  BY <1>1, WaitEffect, Zenon
<1> QED BY <1>2, Zenon DEF Blocked

\* signal() as the threads see it: the unit is kept, or a thread that waits goes on.
LEMMA SignalDoes ==
  ASSUME MailboxInv, NEW s \in Sem, live[s], signal(s)
  PROVE  /\ SemTypes' /\ live' = live
         /\ \A z \in Sem \ {s} : value'[z] = value[z]
         /\ \A z \in Sem, u \in Thread : Waits(u, z)' => Waits(u, z)
         /\ \/ /\ value'[s] = value[s] + 1
               /\ \A u \in Thread : Blocked(u)' <=> Blocked(u)
            \/ /\ value'[s] = value[s]
               /\ \E h \in Thread :
                    /\ Blocked(h) /\ pc[h] \in WaitSteps /\ Awaited(h) = s /\ ~Blocked(h)'
                    /\ \A u \in Thread \ {h} : Blocked(u)' <=> Blocked(u)
<1>1. SemTypes
  BY Zenon DEF MailboxInv
<1>2. /\ SemTypes' /\ live' = live
      /\ \A z \in Sem \ {s} : value'[z] = value[z]
      /\ \/ /\ value'[s] = value[s] + 1
            /\ \A z \in Sem, u \in Thread : Waits(u, z)' <=> Waits(u, z)
         \/ /\ value'[s] = value[s]
            /\ \E h \in Thread :
                 /\ Waits(h, s)
                 /\ \A z \in Sem, u \in Thread :
                      Waits(u, z)' <=> Waits(u, z) /\ ~(u = h /\ z = s)
  BY <1>1, SignalEffect, Zenon
<1>3. CASE \A z \in Sem, u \in Thread : Waits(u, z)' <=> Waits(u, z)
  BY <1>2, <1>3, Zenon DEF Blocked
<1>4. ASSUME NEW h \in Thread, Waits(h, s),
             \A z \in Sem, u \in Thread :
                      Waits(u, z)' <=> Waits(u, z) /\ ~(u = h /\ z = s)
      PROVE  /\ Blocked(h) /\ pc[h] \in WaitSteps /\ Awaited(h) = s /\ ~Blocked(h)'
             /\ \A u \in Thread \ {h} : Blocked(u)' <=> Blocked(u)
             /\ \A z \in Sem, u \in Thread : Waits(u, z)' => Waits(u, z)
  BY <1>4, Zenon DEF Blocked, MailboxInv, WaitsWhere
<1> QED BY <1>2, <1>3, <1>4, Zenon

\* A mailbox in the making keeps its units when another semaphore changes.
LEMMA MakersApart ==
  ASSUME MailboxInv, NEW s,
         \/ s = mboxtabsem
         \/ \E c \in Box : Open(c) /\ s \in {sender[c], receiver[c]},
         \A z \in Sem \ {s} : value'[z] = value[z]
  PROVE  \A u \in Thread : pc[u] \in {"alloc_receiver", "alloc_set"} =>
           /\ sender[box[u]] # BADSEM => value'[sender[box[u]]] = value[sender[box[u]]]
           /\ pc[u] = "alloc_set" => value'[receiver[box[u]]] = value[receiver[box[u]]]
<1> SUFFICES ASSUME NEW u \in Thread, pc[u] \in {"alloc_receiver", "alloc_set"}
             PROVE  /\ sender[box[u]] # BADSEM =>
                         value'[sender[box[u]]] = value[sender[box[u]]]
                    /\ pc[u] = "alloc_set" =>
                         value'[receiver[box[u]]] = value[receiver[box[u]]]
  BY Zenon
<1> QED BY MakerHas, Zenon

(***************************************************************************)
(* Slots and messages.                                                     *)
(***************************************************************************)
IsPast(u, b, step) == At(u, step) /\ box[u] = b

Counted == {"send_put", "receive_take", "send_signal", "receive_signal"}

SlotsOf(b) ==
  /\ value[sender[b]] + Cardinality(Past(b, "send_put")) + count[b]
       + Cardinality(Past(b, "receive_signal")) = max[b]
  /\ value[receiver[b]] + Cardinality(Past(b, "receive_take"))
       + Cardinality(Past(b, "send_signal")) = count[b]

\* The threads at a step stay the same.
LEMMA PastSame ==
  ASSUME NEW b, NEW step,
         \A u \in Thread : IsPast(u, b, step)' <=> IsPast(u, b, step)
  PROVE  Past(b, step)' = Past(b, step)
BY Zenon DEF Past, IsPast

\* The threads at a step are finitely many.
LEMMA PastCounted ==
  ASSUME Premises, NEW b, NEW step
  PROVE  /\ Cardinality(Past(b, step)) \in Nat
         /\ \A t \in Past(b, step) : Cardinality(Past(b, step)) > 0
<1>1. PICK P \in SUBSET Thread : P = Past(b, step)
  BY Zenon DEF Past
<1>2. IsFiniteSet(P) /\ Cardinality(P) \in Nat
  BY Zenon DEF Premises, Assumptions, Counting
<1>3. P # {} => Cardinality(P) # 0
  BY <1>2, Zenon DEF Premises, Counting
<1> QED BY <1>1, <1>2, <1>3

\* One thread comes to the step.
LEMMA PastAdded ==
  ASSUME Premises, NEW b, NEW step, NEW t \in Thread, ~IsPast(t, b, step),
         \A u \in Thread : IsPast(u, b, step)' <=> IsPast(u, b, step) \/ u = t
  PROVE  Cardinality(Past(b, step))' = Cardinality(Past(b, step)) + 1
<1>1. PICK P \in SUBSET Thread : P = Past(b, step)
  BY Zenon DEF Past
<1>2. PICK Q : Q = Past(b, step)'
  BY Zenon
<1>3. \A u : u \in Q <=> u \in P \cup {t}
  BY <1>1, <1>2, Zenon DEF Past, IsPast
<1>4. IsFiniteSet(P) /\ t \notin P
  BY <1>1, Zenon DEF Premises, Assumptions, Past, IsPast, Counting
<1>5. Cardinality(P \cup {t}) = Cardinality(P) + 1
  BY <1>4, Zenon DEF Premises, Counting
<1>6. Q = P \cup {t}
  BY <1>3, Zenon
<1> QED BY <1>1, <1>2, <1>5, <1>6, Zenon

\* One thread leaves the step.
LEMMA PastRemoved ==
  ASSUME Premises, NEW b, NEW step, NEW t \in Thread, IsPast(t, b, step),
         \A u \in Thread : IsPast(u, b, step)' <=> IsPast(u, b, step) /\ u # t
  PROVE  Cardinality(Past(b, step))' = Cardinality(Past(b, step)) - 1
<1>1. PICK P \in SUBSET Thread : P = Past(b, step)
  BY Zenon DEF Past
<1>2. PICK Q : Q = Past(b, step)'
  BY Zenon
<1>3. \A u : u \in Q <=> u \in P \ {t}
  BY <1>1, <1>2, Zenon DEF Past, IsPast
<1>4. IsFiniteSet(P) /\ t \in P
  BY <1>1, Zenon DEF Premises, Assumptions, Past, IsPast, Counting
<1>5. Cardinality(P \ {t}) = Cardinality(P) - 1
  BY <1>4, Zenon DEF Premises, Counting
<1>6. Q = P \ {t}
  BY <1>3, Zenon
<1> QED BY <1>1, <1>2, <1>5, <1>6, Zenon

\* Slots and messages stay accounted for in every mailbox that the step leaves alone.
LEMMA SlotsKept ==
  ASSUME MailboxInv, NEW X,
         \A b \in Box \ X : Open(b)' =>
           /\ Open(b) /\ count'[b] = count[b] /\ max'[b] = max[b]
           /\ value'[sender'[b]] = value[sender[b]]
           /\ value'[receiver'[b]] = value[receiver[b]]
           /\ \A u \in Thread, step \in Counted : IsPast(u, b, step)' <=> IsPast(u, b, step),
         \A b \in Box \cap X : Open(b)' => SlotsOf(b)'
  PROVE  SlotsAccounted'
<1> SUFFICES ASSUME NEW b \in Box, Open(b)' PROVE SlotsOf(b)'
  BY Zenon DEF SlotsAccounted, SlotsOf
<1>1. CASE b \in X
  BY <1>1, Zenon
<1>2. CASE b \notin X
  <2>1. SlotsOf(b)
    BY <1>2, Zenon DEF MailboxInv, SlotsAccounted, SlotsOf
  <2>2. /\ Past(b, "send_put")' = Past(b, "send_put")
        /\ Past(b, "receive_signal")' = Past(b, "receive_signal")
        /\ Past(b, "receive_take")' = Past(b, "receive_take")
        /\ Past(b, "send_signal")' = Past(b, "send_signal")
    BY <1>2, PastSame, Zenon DEF Counted
  <2>3. /\ count'[b] = count[b] /\ max'[b] = max[b]
        /\ value'[sender'[b]] = value[sender[b]]
        /\ value'[receiver'[b]] = value[receiver[b]]
    BY <1>2, Zenon
  <2> QED BY <2>1, <2>2, <2>3, Zenon DEF SlotsOf
<1> QED BY <1>1, <1>2, Zenon

(***************************************************************************)
(* Steps that change neither a semaphore nor the table.                    *)
(***************************************************************************)

\* A thread that enters or leaves a call changes nothing else.
LEMMA QuietStep ==
  ASSUME MailboxInv, NEW t \in Thread, UNCHANGED <<semvars, mboxtab, nextmbx>>,
         OthersStay(t), ThreadTypes', Phases',
         pc[t] \in {"idle", "alloc_return"},
         pc'[t] \in {"idle", "send_wait", "receive_wait", "alloc_wait", "free_wait"}
  PROVE  MailboxInv'
<1>1. /\ UNCHANGED <<live, value, waiting>>
      /\ UNCHANGED <<state, sender, receiver, max, count, start, msgs>>
  BY Zenon DEF semvars, mboxtab
<1>2. \A u \in Thread, s \in Sem : Waits(u, s)' <=> Waits(u, s)
  BY <1>1, Zenon DEF Waits
<1>3. \A u \in Thread : Blocked(u)' <=> Blocked(u)
  BY <1>2, Zenon DEF Blocked
<1>4. SemTypes'
  BY <1>1, Zenon DEF MailboxInv, SemTypes
<1>5. BoxTypes' /\ OwnSemaphores' /\ Made' /\ Rings'
  <2>1. pc[t] \notin Special /\ pc'[t] \notin Special
    BY Zenon DEF Special, Making
  <2> QED BY <1>1, <2>1, TableKept, Zenon
<1>6. WaitsWhere'
  <2>1. \A s \in Sem : ~Waits(t, s)
    BY Zenon DEF MailboxInv, WaitsWhere, WaitSteps
  <2> QED BY <1>1, <1>2, <2>1, WaitsKept, Zenon
<1>7. TableLocked'
  <2>1. \A u \in Thread : pc'[u] \in Editing => /\ pc[u] \in Editing
                                                /\ Blocked(u) => Blocked(u)'
    BY <1>3, Zenon DEF OthersStay, Editing, AllocSteps, FreeSteps
  <2> QED BY <1>1, <2>1, LockKept, Zenon DEF MailboxInv, TableLocked
<1>8. SlotsAccounted'
  <2>1. ASSUME NEW b \in Box, Open(b)' PROVE Open(b)
    BY <1>1, <2>1, Zenon DEF Open, Using, OthersStay, FreeSteps
  <2>2. ASSUME NEW b \in Box, NEW u \in Thread, NEW step \in Counted
        PROVE  IsPast(u, b, step)' <=> IsPast(u, b, step)
    BY <1>3, Zenon DEF IsPast, At, OthersStay, Counted
  <2>3. PICK X : X = {}
    BY Zenon
  <2>4. \A b \in Box \ X : Open(b)' =>
           /\ Open(b) /\ count'[b] = count[b] /\ max'[b] = max[b]
           /\ value'[sender'[b]] = value[sender[b]]
           /\ value'[receiver'[b]] = value[receiver[b]]
           /\ \A u \in Thread, step \in Counted : IsPast(u, b, step)' <=> IsPast(u, b, step)
    BY <1>1, <2>1, <2>2, Zenon
  <2>5. \A b \in Box \cap X : Open(b)' => SlotsOf(b)'
    BY <2>3, Zenon
  <2> QED BY <2>4, <2>5, SlotsKept, Zenon
<1> QED BY <1>4, <1>5, <1>6, <1>7, <1>8, Zenon DEF MailboxInv

\* A caller finds its mailbox allocated and, since nobody frees a mailbox in use, not
\* being freed.
LEMMA CallPhases ==
  ASSUME MailboxInv, NEW t \in Thread, UNCHANGED state, OthersStay(t),
         NEW b \in Box, box'[t] = b, state[b] = "MAILBOX_ALLOC",
         \/ pc'[t] \in SendSteps \cup ReceiveSteps /\ ~Using(b, FreeSteps)
         \/ /\ pc'[t] \in FreeSteps
            /\ ~Using(b, SendSteps \cup ReceiveSteps \cup FreeSteps)
  PROVE  Phases'
<1>1. pc'[t] \notin Making
  BY Zenon DEF Making, SendSteps, ReceiveSteps, FreeSteps
<1>2. \A u \in Thread : pc'[u] \in Making => state[box'[u]] = "MAILBOX_FREE"
  BY <1>1, Zenon DEF OthersStay, MailboxInv, Phases
<1>3. \A u \in Thread : pc'[u] \in SendSteps \cup ReceiveSteps \cup FreeSteps =>
                          state[box'[u]] = "MAILBOX_ALLOC"
  BY Zenon DEF OthersStay, MailboxInv, Phases
<1>4. ASSUME NEW u \in Thread, pc'[u] \in FreeSteps, NEW w \in Thread \ {u},
             pc'[w] \in SendSteps \cup ReceiveSteps \cup FreeSteps
      PROVE  box'[w] # box'[u]
  <2>1. CASE u = t
    <3>1. pc'[t] \notin SendSteps \cup ReceiveSteps
      BY <1>4, <2>1, Zenon DEF SendSteps, ReceiveSteps, FreeSteps
    <3> QED BY <1>4, <2>1, <3>1, Zenon DEF OthersStay, Using
  <2>2. CASE w = t
    BY <1>4, <2>2, Zenon DEF OthersStay, Using
  <2>3. CASE u # t /\ w # t
    BY <1>4, <2>3, Zenon DEF OthersStay, MailboxInv, Phases
  <2> QED BY <2>1, <2>2, <2>3, Zenon
<1> QED BY <1>2, <1>3, <1>4, Zenon DEF Phases

\* The calls.
LEMMA CallsKeep ==
  ASSUME Premises, MailboxInv, NEW t \in Thread,
         mailboxSend(t) \/ mailboxReceive(t) \/ mailboxAlloc(t) \/ mailboxFree(t)
  PROVE  MailboxInv'
<1>0. {"send_wait", "receive_wait", "alloc_wait", "free_wait"} \subseteq Steps
  BY Zenon DEF Steps, SendSteps, ReceiveSteps, AllocSteps, FreeSteps
<1> USE <1>0
<1>1. CASE mailboxSend(t)
  <2>1. PICK b \in Box, m \in Msgs : /\ state[b] = "MAILBOX_ALLOC" /\ ~Using(b, FreeSteps)
                                     /\ Call(t, "send_wait", b, m)
    BY <1>1, Zenon DEF mailboxSend, Premises, Assumptions
  <2>2. /\ OthersStay(t) /\ pc'[t] = "send_wait" /\ box'[t] = b /\ arg'[t] = m
        /\ pc' \in [Thread -> Steps] /\ box' \in [Thread -> Box] /\ DOMAIN arg' = Thread
    BY <2>1, CallEffect, Zenon DEF MailboxInv
  <2>3. ThreadTypes'
    BY <2>2, Zenon DEF MailboxInv, ThreadTypes, OthersStay
  <2>4. pc[t] = "idle" /\ UNCHANGED <<semvars, mboxtab, nextmbx>> /\ UNCHANGED state
    BY <2>1, Zenon DEF Call, mboxtab
  <2>5. Phases'
    BY <2>1, <2>2, <2>4, CallPhases, Zenon DEF SendSteps
  <2> QED BY <2>2, <2>3, <2>4, <2>5, QuietStep, Zenon
<1>2. CASE mailboxReceive(t)
  <2>1. PICK b \in Box : /\ state[b] = "MAILBOX_ALLOC" /\ ~Using(b, FreeSteps)
                         /\ Call(t, "receive_wait", b, 0)
    BY <1>2, Zenon DEF mailboxReceive, Premises, Assumptions
  <2>2. /\ OthersStay(t) /\ pc'[t] = "receive_wait" /\ box'[t] = b
        /\ pc' \in [Thread -> Steps] /\ box' \in [Thread -> Box] /\ DOMAIN arg' = Thread
    BY <2>1, CallEffect, Zenon DEF MailboxInv
  <2>3. ThreadTypes'
    BY <2>2, Zenon DEF MailboxInv, ThreadTypes, OthersStay
  <2>4. pc[t] = "idle" /\ UNCHANGED <<semvars, mboxtab, nextmbx>> /\ UNCHANGED state
    BY <2>1, Zenon DEF Call, mboxtab
  <2>5. Phases'
    BY <2>1, <2>2, <2>4, CallPhases, Zenon DEF ReceiveSteps
  <2> QED BY <2>2, <2>3, <2>4, <2>5, QuietStep, Zenon
<1>3. CASE mailboxAlloc(t)
  <2>0. 0 \in Box
    BY DEF Premises, Assumptions, Box
  <2>1. PICK n \in Counts : Call(t, "alloc_wait", 0, n)
    BY <1>3, Zenon DEF mailboxAlloc
  <2>2. /\ OthersStay(t) /\ pc'[t] = "alloc_wait" /\ arg'[t] = n
        /\ pc' \in [Thread -> Steps] /\ box' \in [Thread -> Box] /\ DOMAIN arg' = Thread
    BY <2>0, <2>1, CallEffect, Zenon DEF MailboxInv
  <2>3. ThreadTypes'
    BY <2>2, Zenon DEF MailboxInv, ThreadTypes, OthersStay
  <2>4. pc[t] = "idle" /\ UNCHANGED <<semvars, mboxtab, nextmbx>> /\ UNCHANGED state
    BY <2>1, Zenon DEF Call, mboxtab
  <2>5. Phases'
    BY <2>2, <2>4, PhasesKept, Zenon DEF SendSteps, ReceiveSteps, FreeSteps, Making
  <2> QED BY <2>2, <2>3, <2>4, <2>5, QuietStep, Zenon
<1>4. CASE mailboxFree(t)
  <2>1. PICK b \in Box : /\ state[b] = "MAILBOX_ALLOC"
                         /\ ~Using(b, SendSteps \cup ReceiveSteps \cup FreeSteps)
                         /\ Call(t, "free_wait", b, 0)
    BY <1>4, Zenon DEF mailboxFree, Premises, Assumptions
  <2>2. /\ OthersStay(t) /\ pc'[t] = "free_wait" /\ box'[t] = b
        /\ pc' \in [Thread -> Steps] /\ box' \in [Thread -> Box] /\ DOMAIN arg' = Thread
    BY <2>1, CallEffect, Zenon DEF MailboxInv
  <2>3. ThreadTypes'
    BY <2>2, Zenon DEF MailboxInv, ThreadTypes, OthersStay
  <2>4. pc[t] = "idle" /\ UNCHANGED <<semvars, mboxtab, nextmbx>> /\ UNCHANGED state
    BY <2>1, Zenon DEF Call, mboxtab
  <2>5. Phases'
    BY <2>1, <2>2, <2>4, CallPhases, Zenon DEF FreeSteps
  <2> QED BY <2>2, <2>3, <2>4, <2>5, QuietStep, Zenon
<1> QED BY <1>1, <1>2, <1>3, <1>4, Zenon

\* mailboxAlloc() returns the mailbox.
LEMMA AllocReturnKeeps ==
  ASSUME Premises, MailboxInv, NEW t \in Thread, alloc_return(t)
  PROVE  MailboxInv'
<1>1. /\ pc[t] = "alloc_return" /\ UNCHANGED <<semvars, mboxtab, nextmbx>>
      /\ UNCHANGED state
      /\ pc' = [pc EXCEPT ![t] = "idle"]
      /\ box' = [box EXCEPT ![t] = nextmbx]
      /\ arg' = [arg EXCEPT ![t] = 0]
  BY Zenon DEF alloc_return, At, mboxtab
<1>2. OthersStay(t) /\ pc'[t] = "idle" /\ ThreadTypes'
  <2>1. ThreadTypes /\ nextmbx \in Box /\ "idle" \in Steps
    BY Zenon DEF MailboxInv, BoxTypes, Steps
  <2>2. OthersStay(t) /\ pc'[t] = "idle"
    BY <1>1, <2>1, Zenon DEF ThreadTypes, OthersStay
  <2>3. pc' \in [Thread -> Steps] /\ box' \in [Thread -> Box] /\ DOMAIN arg' = Thread
    BY <1>1, <2>1, Zenon DEF ThreadTypes
  <2> QED BY <2>1, <2>2, <2>3, Zenon DEF ThreadTypes, OthersStay
<1>3. Phases'
  BY <1>1, <1>2, PhasesKept, Zenon DEF SendSteps, ReceiveSteps, FreeSteps, Making
<1> QED BY <1>1, <1>2, <1>3, QuietStep, Zenon

(***************************************************************************)
(* mailboxSend() and mailboxReceive().                                     *)
(***************************************************************************)

\* Who waits for an end of an open mailbox is in the call that waits there.
LEMMA WaiterOf ==
  ASSUME MailboxInv, NEW h \in Thread, pc[h] \in WaitSteps, NEW c \in Box, Open(c)
  PROVE  /\ Awaited(h) = sender[c] => pc[h] = "send_put" /\ box[h] = c
         /\ Awaited(h) = receiver[c] => pc[h] = "receive_take" /\ box[h] = c
<1>1. /\ sender[c] # mboxtabsem /\ receiver[c] # mboxtabsem /\ sender[c] # receiver[c]
      /\ \A b \in Box \ {c} : Open(b) => /\ sender[b] # sender[c]
                                         /\ receiver[b] # receiver[c]
                                         /\ sender[b] # receiver[c]
                                         /\ receiver[b] # sender[c]
  BY OpenHas, Zenon
<1>2. CASE pc[h] \in {"alloc_scan", "free_sender"}
  BY <1>1, <1>2, Zenon DEF Awaited
<1>3. CASE pc[h] \in {"send_put", "receive_take"}
  <2>1. Open(box[h]) /\ box[h] \in Box
    BY <1>3, UserHas, Zenon DEF SendSteps, ReceiveSteps
  <2> QED BY <1>1, <1>3, <2>1, Zenon DEF Awaited
<1> QED BY <1>2, <1>3, Zenon DEF WaitSteps

\* A step on one mailbox leaves the slots of the others alone.
LEMMA OneBox ==
  ASSUME MailboxInv, NEW t \in Thread, pc[t] \in SendSteps \cup ReceiveSteps, OthersStay(t),
         NEW c \in Box, c = box[t],
         \/ pc'[t] = "idle"
         \/ pc'[t] \in SendSteps \cup ReceiveSteps /\ box'[t] = c,
         UNCHANGED <<state, sender, receiver, max>>,
         \A b \in Box \ {c} : count'[b] = count[b],
         \A z \in Sem \ {sender[c], receiver[c]} : value'[z] = value[z],
         \A u \in Thread : u = t \/ box[u] = c \/ (Blocked(u)' <=> Blocked(u)),
         SlotsOf(c)'
  PROVE  SlotsAccounted'
<1>1. Open(c)
  BY UserHas, Zenon
<1>2. ASSUME NEW b \in Box, Open(b)' PROVE Open(b)
  BY <1>2, Zenon DEF Open, Using, OthersStay, FreeSteps, SendSteps, ReceiveSteps
<1>3. ASSUME NEW b \in Box \ {c}, Open(b)
      PROVE  /\ value'[sender'[b]] = value[sender[b]]
             /\ value'[receiver'[b]] = value[receiver[b]]
  BY <1>1, <1>3, OpenHas, Zenon
<1>4. ASSUME NEW b \in Box \ {c}, NEW u \in Thread, NEW step \in Counted
      PROVE  IsPast(u, b, step)' <=> IsPast(u, b, step)
  BY Zenon DEF IsPast, At, OthersStay, Counted
<1>5. PICK X : X = {c}
  BY Zenon
<1>6. \A b \in Box \ X : Open(b)' =>
           /\ Open(b) /\ count'[b] = count[b] /\ max'[b] = max[b]
           /\ value'[sender'[b]] = value[sender[b]]
           /\ value'[receiver'[b]] = value[receiver[b]]
           /\ \A u \in Thread, step \in Counted : IsPast(u, b, step)' <=> IsPast(u, b, step)
  BY <1>2, <1>3, <1>4, <1>5, Zenon
<1>7. \A b \in Box \cap X : Open(b)' => SlotsOf(b)'
  BY <1>5, Zenon
<1> QED BY <1>6, <1>7, SlotsKept, Zenon

\* A thread that sends or receives does not edit the table.
LEMMA UserLock ==
  ASSUME MailboxInv, Premises, NEW t \in Thread,
         pc[t] \in SendSteps \cup ReceiveSteps, OthersStay(t),
         pc'[t] \in {"idle"} \cup SendSteps \cup ReceiveSteps, live' = live,
         \A z \in Sem \ {sender[box[t]], receiver[box[t]]} : value'[z] = value[z],
         \A u \in Thread : pc[u] \in Editing => (Blocked(u)' <=> Blocked(u))
  PROVE  TableLocked'
<1>1. value'[mboxtabsem] = value[mboxtabsem] /\ live'[mboxtabsem]
  BY UserHas, Zenon DEF Premises, Assumptions, MailboxInv, TableLocked
<1>2. pc'[t] \notin Editing
  BY Zenon DEF Editing, AllocSteps, FreeSteps, SendSteps, ReceiveSteps
<1> QED BY <1>1, <1>2, LockKept, Zenon DEF OthersStay

\* The thread stays in its call, or returns.
LEMMA UserPhases ==
  ASSUME MailboxInv, NEW t \in Thread, pc[t] \in SendSteps \cup ReceiveSteps,
         OthersStay(t), UNCHANGED state,
         \/ pc'[t] = "idle"
         \/ pc'[t] \in SendSteps \cup ReceiveSteps /\ box'[t] = box[t]
  PROVE  Phases'
<1>1. /\ pc'[t] \notin Making /\ pc'[t] \notin FreeSteps /\ pc[t] \notin FreeSteps
      /\ "idle" \notin SendSteps \cup ReceiveSteps
  BY Zenon DEF Making, SendSteps, ReceiveSteps, FreeSteps
<1> QED BY <1>1, PhasesKept, Zenon

\* A step of mailboxSend() or mailboxReceive() that leaves the table alone keeps the
\* invariant if it keeps the mailbox's slots and messages accounted for.
LEMMA UserStep ==
  ASSUME Premises, MailboxInv, NEW t \in Thread, pc[t] \in SendSteps \cup ReceiveSteps,
         NEW c \in Box, c = box[t], OthersStay(t), UNCHANGED <<mboxtab, nextmbx>>,
         \/ pc'[t] = "idle"
         \/ pc'[t] \in SendSteps \cup ReceiveSteps /\ box'[t] = c,
         NEW s \in {sender[c], receiver[c]}, \A z \in Sem \ {s} : value'[z] = value[z],
         live' = live,
         \A u \in Thread : \/ u = t
                           \/ box[u] = c /\ pc[u] \notin Editing
                           \/ Blocked(u)' <=> Blocked(u),
         SemTypes', ThreadTypes', WaitsWhere', SlotsOf(c)'
  PROVE  MailboxInv'
<1>1. UNCHANGED <<state, sender, receiver, max, count, start, msgs>>
  BY Zenon DEF mboxtab
<1>2. Open(c)
  BY UserHas, Zenon
<1>3. TableLocked'
  <2>1. pc[t] \notin Editing
    BY Zenon DEF Editing, AllocSteps, FreeSteps, SendSteps, ReceiveSteps
  <2>2. \A u \in Thread : pc[u] \in Editing => (Blocked(u)' <=> Blocked(u))
    BY <2>1, Zenon
  <2> QED BY <2>2, UserLock, Zenon
<1>4. Phases'
  BY <1>1, UserPhases, Zenon
<1>5. BoxTypes' /\ OwnSemaphores' /\ Made' /\ Rings'
  <2>1. \A u \in Thread : pc[u] \in {"alloc_receiver", "alloc_set"} =>
           /\ sender[box[u]] # BADSEM => value'[sender[box[u]]] = value[sender[box[u]]]
           /\ pc[u] = "alloc_set" => value'[receiver[box[u]]] = value[receiver[box[u]]]
    BY <1>2, MakersApart, Zenon
  <2>2. pc[t] \notin Special /\ pc'[t] \notin Special
    BY Zenon DEF Special, Making, SendSteps, ReceiveSteps
  <2> QED BY <2>1, <2>2, TableKept, Zenon
<1>6. SlotsAccounted'
  BY <1>1, OneBox, Zenon
<1> QED BY <1>3, <1>4, <1>5, <1>6, Zenon DEF MailboxInv

\* The mailbox of a thread that sends or receives.
LEMMA UserBox ==
  ASSUME MailboxInv, NEW t \in Thread, pc[t] \in SendSteps \cup ReceiveSteps
  PROVE  \E c \in Box :
           /\ c = box[t] /\ Open(c) /\ SlotsOf(c) /\ sender[c] # receiver[c]
           /\ sender[c] \in Sem /\ live[sender[c]] /\ value[sender[c]] \in Nat
           /\ receiver[c] \in Sem /\ live[receiver[c]] /\ value[receiver[c]] \in Nat
           /\ count[c] \in Nat /\ max[c] \in Nat
<1>1. PICK c \in Box : c = box[t]
  BY Zenon DEF MailboxInv, ThreadTypes
<1>2. /\ Open(c) /\ sender[c] # receiver[c] /\ sender[c] \in Sem /\ live[sender[c]]
      /\ receiver[c] \in Sem /\ live[receiver[c]]
  BY <1>1, UserHas, Zenon
<1>3. SlotsOf(c)
  BY <1>2, Zenon DEF MailboxInv, SlotsAccounted, SlotsOf
<1>4. /\ value[sender[c]] \in Nat /\ value[receiver[c]] \in Nat
      /\ count[c] \in Nat /\ max[c] \in Nat
  BY <1>2, Zenon DEF MailboxInv, SemTypes, BoxTypes
<1> QED BY <1>1, <1>2, <1>3, <1>4, Zenon

\* The four numbers of threads at a mailbox.
LEMMA PastNumbers ==
  ASSUME Premises, NEW c
  PROVE  /\ Cardinality(Past(c, "send_put")) \in Nat
         /\ Cardinality(Past(c, "receive_signal")) \in Nat
         /\ Cardinality(Past(c, "receive_take")) \in Nat
         /\ Cardinality(Past(c, "send_signal")) \in Nat
BY PastCounted, Zenon

\* wait(mbxptr->sender): the sender has claimed a slot or is blocked.
LEMMA SendWaitKeeps ==
  ASSUME Premises, MailboxInv, NEW t \in Thread, send_wait(t)
  PROVE  MailboxInv'
<1>1. /\ pc[t] = "send_wait" /\ ~Blocked(t) /\ wait(t, sender[box[t]])
      /\ Go(t, "send_put") /\ UNCHANGED <<mboxtab, nextmbx>>
      /\ UNCHANGED <<state, sender, receiver, max, count, start, msgs>>
  BY Zenon DEF send_wait, At, Then, mboxtab
<1>2. pc[t] \in SendSteps \cup ReceiveSteps /\ "send_put" \in SendSteps /\ "send_put" \in Steps
  BY <1>1, Zenon DEF SendSteps, Steps
<1>3. PICK c \in Box :
           /\ c = box[t] /\ Open(c) /\ SlotsOf(c) /\ sender[c] # receiver[c]
           /\ sender[c] \in Sem /\ live[sender[c]] /\ value[sender[c]] \in Nat
           /\ receiver[c] \in Sem /\ live[receiver[c]] /\ value[receiver[c]] \in Nat
           /\ count[c] \in Nat /\ max[c] \in Nat
  BY <1>2, UserBox, Zenon
<1>4. PICK s \in Sem : s = sender[c]
  BY <1>3, Zenon
<1>5. /\ OthersStay(t) /\ pc'[t] = "send_put" /\ box'[t] = c /\ arg'[t] = arg[t]
      /\ pc' \in [Thread -> Steps] /\ box' \in [Thread -> Box] /\ DOMAIN arg' = Thread
  BY <1>1, <1>2, <1>3, GoEffect, Zenon DEF MailboxInv
<1>6. /\ SemTypes' /\ live' = live
      /\ \A z \in Sem \ {s} : value'[z] = value[z]
      /\ \A u \in Thread \ {t} : Blocked(u)' <=> Blocked(u)
      /\ \A z \in Sem, u \in Thread \ {t} : Waits(u, z)' => Waits(u, z)
      /\ \A z \in Sem : Waits(t, z)' => z = s
      /\ \/ value[s] > 0 /\ value'[s] = value[s] - 1 /\ ~Blocked(t)'
         \/ value[s] = 0 /\ value'[s] = 0 /\ Blocked(t)'
  BY <1>1, <1>3, <1>4, WaitDoes, Zenon
<1>7. ThreadTypes'
  BY <1>1, <1>5, Zenon DEF MailboxInv, ThreadTypes, OthersStay
<1>8. WaitsWhere'
  <2>1. pc'[t] \in WaitSteps /\ Awaited(t)' = s
    BY <1>1, <1>4, <1>5, Zenon DEF WaitSteps, Awaited
  <2> QED BY <1>1, <1>5, <1>6, <2>1, WaitsKept, Zenon
<1>9. SlotsOf(c)'
  <2>1. ASSUME NEW step \in Counted, NEW u \in Thread, u # t \/ step # "send_put"
        PROVE  IsPast(u, c, step)' <=> IsPast(u, c, step)
    BY <1>1, <1>5, <1>6, <2>1, Zenon DEF IsPast, At, OthersStay, Counted
  <2>2. /\ Past(c, "receive_signal")' = Past(c, "receive_signal")
        /\ Past(c, "receive_take")' = Past(c, "receive_take")
        /\ Past(c, "send_signal")' = Past(c, "send_signal")
    BY <2>1, PastSame DEF Counted
  <2>3. ~IsPast(t, c, "send_put") /\ "send_put" \in Counted
    BY <1>1, Zenon DEF IsPast, At, Counted
  <2>4. /\ receiver'[c] = receiver[c] /\ sender'[c] = s /\ value'[receiver[c]] = value[receiver[c]]
        /\ count'[c] = count[c] /\ max'[c] = max[c]
    BY <1>1, <1>3, <1>4, <1>6, Zenon
  <2>5. CASE value[s] > 0 /\ value'[s] = value[s] - 1 /\ ~Blocked(t)'
    <3>1. IsPast(t, c, "send_put")'
      BY <1>5, <2>5, Zenon DEF IsPast, At
    <3>2. \A u \in Thread : IsPast(u, c, "send_put")' <=> IsPast(u, c, "send_put") \/ u = t
      BY <2>1, <2>3, <3>1, Zenon
    <3>3. Cardinality(Past(c, "send_put"))' = Cardinality(Past(c, "send_put")) + 1
      BY <2>3, <3>2, PastAdded, Zenon
    <3> QED BY <1>3, <1>4, <2>2, <2>4, <2>5, <3>3, PastNumbers DEF SlotsOf
  <2>6. CASE value[s] = 0 /\ value'[s] = 0 /\ Blocked(t)'
    <3>1. ~IsPast(t, c, "send_put")'
      BY <2>6, Zenon DEF IsPast, At
    <3>2. Past(c, "send_put")' = Past(c, "send_put")
      BY <2>1, <2>3, <3>1, PastSame
    <3> QED BY <1>3, <1>4, <2>2, <2>4, <2>6, <3>2, Zenon DEF SlotsOf
  <2> QED BY <1>6, <2>5, <2>6, Zenon
<1> QED BY <1>1, <1>2, <1>3, <1>4, <1>5, <1>6, <1>7, <1>8, <1>9, UserStep, Zenon

\* wait(mbxptr->receiver): the receiver has claimed a message or is blocked.
LEMMA ReceiveWaitKeeps ==
  ASSUME Premises, MailboxInv, NEW t \in Thread, receive_wait(t)
  PROVE  MailboxInv'
<1>1. /\ pc[t] = "receive_wait" /\ ~Blocked(t) /\ wait(t, receiver[box[t]])
      /\ Go(t, "receive_take") /\ UNCHANGED <<mboxtab, nextmbx>>
      /\ UNCHANGED <<state, sender, receiver, max, count, start, msgs>>
  BY Zenon DEF receive_wait, At, Then, mboxtab
<1>2. /\ pc[t] \in SendSteps \cup ReceiveSteps /\ "receive_take" \in ReceiveSteps
      /\ "receive_take" \in Steps
  BY <1>1, Zenon DEF ReceiveSteps, Steps
<1>3. PICK c \in Box :
           /\ c = box[t] /\ Open(c) /\ SlotsOf(c) /\ sender[c] # receiver[c]
           /\ sender[c] \in Sem /\ live[sender[c]] /\ value[sender[c]] \in Nat
           /\ receiver[c] \in Sem /\ live[receiver[c]] /\ value[receiver[c]] \in Nat
           /\ count[c] \in Nat /\ max[c] \in Nat
  BY <1>2, UserBox, Zenon
<1>4. PICK s \in Sem : s = receiver[c]
  BY <1>3, Zenon
<1>5. /\ OthersStay(t) /\ pc'[t] = "receive_take" /\ box'[t] = c /\ arg'[t] = arg[t]
      /\ pc' \in [Thread -> Steps] /\ box' \in [Thread -> Box] /\ DOMAIN arg' = Thread
  BY <1>1, <1>2, <1>3, GoEffect, Zenon DEF MailboxInv
<1>6. /\ SemTypes' /\ live' = live
      /\ \A z \in Sem \ {s} : value'[z] = value[z]
      /\ \A u \in Thread \ {t} : Blocked(u)' <=> Blocked(u)
      /\ \A z \in Sem, u \in Thread \ {t} : Waits(u, z)' => Waits(u, z)
      /\ \A z \in Sem : Waits(t, z)' => z = s
      /\ \/ value[s] > 0 /\ value'[s] = value[s] - 1 /\ ~Blocked(t)'
         \/ value[s] = 0 /\ value'[s] = 0 /\ Blocked(t)'
  BY <1>1, <1>3, <1>4, WaitDoes, Zenon
<1>7. ThreadTypes'
  BY <1>1, <1>5, Zenon DEF MailboxInv, ThreadTypes, OthersStay
<1>8. WaitsWhere'
  <2>1. pc'[t] \in WaitSteps /\ Awaited(t)' = s
    BY <1>1, <1>4, <1>5, Zenon DEF WaitSteps, Awaited
  <2> QED BY <1>1, <1>5, <1>6, <2>1, WaitsKept, Zenon
<1>9. SlotsOf(c)'
  <2>1. ASSUME NEW step \in Counted, NEW u \in Thread, u # t \/ step # "receive_take"
        PROVE  IsPast(u, c, step)' <=> IsPast(u, c, step)
    BY <1>1, <1>5, <1>6, <2>1, Zenon DEF IsPast, At, OthersStay, Counted
  <2>2. /\ Past(c, "receive_signal")' = Past(c, "receive_signal")
        /\ Past(c, "send_put")' = Past(c, "send_put")
        /\ Past(c, "send_signal")' = Past(c, "send_signal")
    BY <2>1, PastSame DEF Counted
  <2>3. ~IsPast(t, c, "receive_take") /\ "receive_take" \in Counted
    BY <1>1, Zenon DEF IsPast, At, Counted
  <2>4. /\ sender'[c] = sender[c] /\ receiver'[c] = s /\ value'[sender[c]] = value[sender[c]]
        /\ count'[c] = count[c] /\ max'[c] = max[c]
    BY <1>1, <1>3, <1>4, <1>6, Zenon
  <2>5. CASE value[s] > 0 /\ value'[s] = value[s] - 1 /\ ~Blocked(t)'
    <3>1. IsPast(t, c, "receive_take")'
      BY <1>5, <2>5, Zenon DEF IsPast, At
    <3>2. \A u \in Thread :
            IsPast(u, c, "receive_take")' <=> IsPast(u, c, "receive_take") \/ u = t
      BY <2>1, <2>3, <3>1, Zenon
    <3>3. Cardinality(Past(c, "receive_take"))' = Cardinality(Past(c, "receive_take")) + 1
      BY <2>3, <3>2, PastAdded, Zenon
    <3> QED BY <1>3, <1>4, <2>2, <2>4, <2>5, <3>3, PastNumbers DEF SlotsOf
  <2>6. CASE value[s] = 0 /\ value'[s] = 0 /\ Blocked(t)'
    <3>1. ~IsPast(t, c, "receive_take")'
      BY <2>6, Zenon DEF IsPast, At
    <3>2. Past(c, "receive_take")' = Past(c, "receive_take")
      BY <2>1, <2>3, <3>1, PastSame
    <3> QED BY <1>3, <1>4, <2>2, <2>4, <2>6, <3>2, Zenon DEF SlotsOf
  <2> QED BY <1>6, <2>5, <2>6, Zenon
<1> QED BY <1>1, <1>2, <1>3, <1>4, <1>5, <1>6, <1>7, <1>8, <1>9, UserStep, Zenon

\* signal(mbxptr->receiver): the message is there for a receiver, or a receiver that
\* waits for it goes on.
LEMMA SendSignalKeeps ==
  ASSUME Premises, MailboxInv, NEW t \in Thread, send_signal(t)
  PROVE  MailboxInv'
<1>1. /\ pc[t] = "send_signal" /\ ~Blocked(t) /\ signal(receiver[box[t]])
      /\ Return(t) /\ UNCHANGED <<mboxtab, nextmbx>>
      /\ UNCHANGED <<state, sender, receiver, max, count, start, msgs>>
  BY Zenon DEF send_signal, At, Leave, mboxtab
<1>2. pc[t] \in SendSteps \cup ReceiveSteps
  BY <1>1, Zenon DEF SendSteps
<1>3. PICK c \in Box :
           /\ c = box[t] /\ Open(c) /\ SlotsOf(c) /\ sender[c] # receiver[c]
           /\ sender[c] \in Sem /\ live[sender[c]] /\ value[sender[c]] \in Nat
           /\ receiver[c] \in Sem /\ live[receiver[c]] /\ value[receiver[c]] \in Nat
           /\ count[c] \in Nat /\ max[c] \in Nat
  BY <1>2, UserBox, Zenon
<1>4. PICK s \in Sem : s = receiver[c]
  BY <1>3, Zenon
<1>5. OthersStay(t) /\ pc'[t] = "idle" /\ ThreadTypes'
  BY <1>1, ReturnEffect, Zenon DEF MailboxInv
<1>6. /\ SemTypes' /\ live' = live
      /\ \A z \in Sem \ {s} : value'[z] = value[z]
      /\ \A z \in Sem, u \in Thread : Waits(u, z)' => Waits(u, z)
      /\ \/ /\ value'[s] = value[s] + 1
            /\ \A u \in Thread : Blocked(u)' <=> Blocked(u)
         \/ /\ value'[s] = value[s]
            /\ \E h \in Thread :
                 /\ Blocked(h) /\ pc[h] \in WaitSteps /\ Awaited(h) = s /\ ~Blocked(h)'
                 /\ \A u \in Thread \ {h} : Blocked(u)' <=> Blocked(u)
  BY <1>1, <1>3, <1>4, SignalDoes, Zenon
<1>7. WaitsWhere'
  <2>1. \A z \in Sem : ~Waits(t, z)
    BY <1>1, Zenon DEF Blocked
  <2> QED BY <1>1, <1>5, <1>6, <2>1, WaitsKept, Zenon
<1>8. IsPast(t, c, "send_signal") /\ \A step \in Counted : ~IsPast(t, c, step)'
  BY <1>1, <1>3, <1>5, Zenon DEF IsPast, At, Counted
<1>9. /\ sender'[c] = sender[c] /\ receiver'[c] = s /\ value'[sender[c]] = value[sender[c]]
      /\ count'[c] = count[c] /\ max'[c] = max[c]
  BY <1>1, <1>3, <1>4, <1>6, Zenon
<1>10. CASE /\ value'[s] = value[s] + 1
            /\ \A u \in Thread : Blocked(u)' <=> Blocked(u)
  <2>1. ASSUME NEW step \in Counted, NEW u \in Thread, u # t \/ step # "send_signal"
        PROVE  IsPast(u, c, step)' <=> IsPast(u, c, step)
    BY <1>1, <1>5, <1>10, <2>1, Zenon DEF IsPast, At, OthersStay, Counted
  <2>2. /\ Past(c, "receive_signal")' = Past(c, "receive_signal")
        /\ Past(c, "send_put")' = Past(c, "send_put")
        /\ Past(c, "receive_take")' = Past(c, "receive_take")
    BY <2>1, PastSame DEF Counted
  <2>3. \A u \in Thread : IsPast(u, c, "send_signal")' <=> IsPast(u, c, "send_signal") /\ u # t
    BY <1>8, <2>1, Zenon DEF Counted
  <2>4. Cardinality(Past(c, "send_signal"))' = Cardinality(Past(c, "send_signal")) - 1
    BY <1>8, <2>3, PastRemoved, Zenon
  <2>5. SlotsOf(c)'
    BY <1>3, <1>4, <1>9, <1>10, <2>2, <2>4, PastNumbers DEF SlotsOf
  <2> QED BY <1>2, <1>3, <1>4, <1>5, <1>6, <1>7, <1>10, <2>5, <1>1, UserStep, Zenon
<1>11. ASSUME NEW h \in Thread, value'[s] = value[s],
              Blocked(h), pc[h] \in WaitSteps, Awaited(h) = s, ~Blocked(h)',
              \A u \in Thread \ {h} : Blocked(u)' <=> Blocked(u)
       PROVE  MailboxInv'
  <2>0. pc[h] = "receive_take" /\ box[h] = c /\ h # t
    BY <1>1, <1>3, <1>4, <1>11, WaiterOf
  <2>1. ASSUME NEW step \in Counted, NEW u \in Thread, u # t \/ step # "send_signal",
               u # h \/ step # "receive_take"
        PROVE  IsPast(u, c, step)' <=> IsPast(u, c, step)
    BY <1>1, <1>5, <1>11, <2>0, <2>1 DEF IsPast, At, OthersStay, Counted
  <2>2. /\ Past(c, "receive_signal")' = Past(c, "receive_signal")
        /\ Past(c, "send_put")' = Past(c, "send_put")
    BY <2>1, PastSame, Zenon DEF Counted
  <2>3. \A u \in Thread : IsPast(u, c, "send_signal")' <=> IsPast(u, c, "send_signal") /\ u # t
    BY <1>8, <2>1, Zenon DEF Counted
  <2>4. Cardinality(Past(c, "send_signal"))' = Cardinality(Past(c, "send_signal")) - 1
    BY <1>8, <2>3, PastRemoved, Zenon
  <2>5. ~IsPast(h, c, "receive_take") /\ IsPast(h, c, "receive_take")'
    BY <1>5, <1>11, <2>0, Zenon DEF IsPast, At, OthersStay
  <2>6. \A u \in Thread : IsPast(u, c, "receive_take")' <=> IsPast(u, c, "receive_take") \/ u = h
    BY <2>1, <2>5, Zenon DEF Counted
  <2>7. Cardinality(Past(c, "receive_take"))' = Cardinality(Past(c, "receive_take")) + 1
    BY <2>5, <2>6, PastAdded, Zenon
  <2>8. SlotsOf(c)'
    BY <1>3, <1>4, <1>9, <1>11, <2>2, <2>4, <2>7, PastNumbers DEF SlotsOf
  <2>9. pc[h] \notin Editing
    BY <2>0, Zenon DEF Editing, AllocSteps, FreeSteps
  <2> QED BY <1>2, <1>3, <1>4, <1>5, <1>6, <1>7, <1>11, <2>0, <2>8, <2>9, <1>1, UserStep, Zenon
<1> QED BY <1>6, <1>10, <1>11, Zenon

\* signal(mbxptr->sender): the slot is there for a sender, or a sender that waits for
\* it goes on.
LEMMA ReceiveSignalKeeps ==
  ASSUME Premises, MailboxInv, NEW t \in Thread, receive_signal(t)
  PROVE  MailboxInv'
<1>1. /\ pc[t] = "receive_signal" /\ ~Blocked(t) /\ signal(sender[box[t]])
      /\ Return(t) /\ UNCHANGED <<mboxtab, nextmbx>>
      /\ UNCHANGED <<state, sender, receiver, max, count, start, msgs>>
  BY Zenon DEF receive_signal, At, Leave, mboxtab
<1>2. pc[t] \in SendSteps \cup ReceiveSteps
  BY <1>1, Zenon DEF ReceiveSteps
<1>3. PICK c \in Box :
           /\ c = box[t] /\ Open(c) /\ SlotsOf(c) /\ sender[c] # receiver[c]
           /\ sender[c] \in Sem /\ live[sender[c]] /\ value[sender[c]] \in Nat
           /\ receiver[c] \in Sem /\ live[receiver[c]] /\ value[receiver[c]] \in Nat
           /\ count[c] \in Nat /\ max[c] \in Nat
  BY <1>2, UserBox, Zenon
<1>4. PICK s \in Sem : s = sender[c]
  BY <1>3, Zenon
<1>5. OthersStay(t) /\ pc'[t] = "idle" /\ ThreadTypes'
  BY <1>1, ReturnEffect, Zenon DEF MailboxInv
<1>6. /\ SemTypes' /\ live' = live
      /\ \A z \in Sem \ {s} : value'[z] = value[z]
      /\ \A z \in Sem, u \in Thread : Waits(u, z)' => Waits(u, z)
      /\ \/ /\ value'[s] = value[s] + 1
            /\ \A u \in Thread : Blocked(u)' <=> Blocked(u)
         \/ /\ value'[s] = value[s]
            /\ \E h \in Thread :
                 /\ Blocked(h) /\ pc[h] \in WaitSteps /\ Awaited(h) = s /\ ~Blocked(h)'
                 /\ \A u \in Thread \ {h} : Blocked(u)' <=> Blocked(u)
  BY <1>1, <1>3, <1>4, SignalDoes, Zenon
<1>7. WaitsWhere'
  <2>1. \A z \in Sem : ~Waits(t, z)
    BY <1>1, Zenon DEF Blocked
  <2> QED BY <1>1, <1>5, <1>6, <2>1, WaitsKept, Zenon
<1>8. IsPast(t, c, "receive_signal") /\ \A step \in Counted : ~IsPast(t, c, step)'
  BY <1>1, <1>3, <1>5, Zenon DEF IsPast, At, Counted
<1>9. /\ receiver'[c] = receiver[c] /\ sender'[c] = s
      /\ value'[receiver[c]] = value[receiver[c]] /\ count'[c] = count[c] /\ max'[c] = max[c]
  BY <1>1, <1>3, <1>4, <1>6, Zenon
<1>10. CASE /\ value'[s] = value[s] + 1
            /\ \A u \in Thread : Blocked(u)' <=> Blocked(u)
  <2>1. ASSUME NEW step \in Counted, NEW u \in Thread, u # t \/ step # "receive_signal"
        PROVE  IsPast(u, c, step)' <=> IsPast(u, c, step)
    BY <1>1, <1>5, <1>10, <2>1, Zenon DEF IsPast, At, OthersStay, Counted
  <2>2. /\ Past(c, "send_signal")' = Past(c, "send_signal")
        /\ Past(c, "send_put")' = Past(c, "send_put")
        /\ Past(c, "receive_take")' = Past(c, "receive_take")
    BY <2>1, PastSame DEF Counted
  <2>3. \A u \in Thread :
          IsPast(u, c, "receive_signal")' <=> IsPast(u, c, "receive_signal") /\ u # t
    BY <1>8, <2>1, Zenon DEF Counted
  <2>4. Cardinality(Past(c, "receive_signal"))' = Cardinality(Past(c, "receive_signal")) - 1
    BY <1>8, <2>3, PastRemoved, Zenon
  <2>5. SlotsOf(c)'
    <3>1. value'[sender'[c]] = value[sender[c]] + 1 /\ value'[receiver'[c]] = value[receiver[c]]
      BY <1>4, <1>9, <1>10, Zenon
    <3>2. /\ Cardinality(Past(c, "send_put")) \in Nat
          /\ Cardinality(Past(c, "receive_signal")) \in Nat
      BY PastNumbers, Zenon
    <3> QED BY <1>3, <1>9, <2>2, <2>4, <3>1, <3>2 DEF SlotsOf
  <2> QED BY <1>2, <1>3, <1>4, <1>5, <1>6, <1>7, <1>10, <2>5, <1>1, UserStep, Zenon
<1>11. ASSUME NEW h \in Thread, value'[s] = value[s],
              Blocked(h), pc[h] \in WaitSteps, Awaited(h) = s, ~Blocked(h)',
              \A u \in Thread \ {h} : Blocked(u)' <=> Blocked(u)
       PROVE  MailboxInv'
  <2>0. pc[h] = "send_put" /\ box[h] = c /\ h # t
    BY <1>1, <1>3, <1>4, <1>11, WaiterOf
  <2>1. ASSUME NEW step \in Counted, NEW u \in Thread, u # t \/ step # "receive_signal",
               u # h \/ step # "send_put"
        PROVE  IsPast(u, c, step)' <=> IsPast(u, c, step)
    BY <1>1, <1>5, <1>11, <2>0, <2>1 DEF IsPast, At, OthersStay, Counted
  <2>2. /\ Past(c, "send_signal")' = Past(c, "send_signal")
        /\ Past(c, "receive_take")' = Past(c, "receive_take")
    BY <2>1, PastSame DEF Counted
  <2>3. \A u \in Thread :
          IsPast(u, c, "receive_signal")' <=> IsPast(u, c, "receive_signal") /\ u # t
    BY <1>8, <2>1, Zenon DEF Counted
  <2>4. Cardinality(Past(c, "receive_signal"))' = Cardinality(Past(c, "receive_signal")) - 1
    BY <1>8, <2>3, PastRemoved, Zenon
  <2>5. ~IsPast(h, c, "send_put") /\ IsPast(h, c, "send_put")'
    BY <1>5, <1>11, <2>0, Zenon DEF IsPast, At, OthersStay
  <2>6. \A u \in Thread : IsPast(u, c, "send_put")' <=> IsPast(u, c, "send_put") \/ u = h
    BY <2>1, <2>5, Zenon DEF Counted
  <2>7. Cardinality(Past(c, "send_put"))' = Cardinality(Past(c, "send_put")) + 1
    BY <2>5, <2>6, PastAdded, Zenon
  <2>8. SlotsOf(c)'
    BY <1>3, <1>4, <1>9, <1>11, <2>2, <2>4, <2>7, PastNumbers DEF SlotsOf
  <2>9. pc[h] \notin Editing
    BY <2>0, Zenon DEF Editing, AllocSteps, FreeSteps
  <2> QED BY <1>2, <1>3, <1>4, <1>5, <1>6, <1>7, <1>11, <2>0, <2>8, <2>9, <1>1, UserStep
<1> QED BY <1>6, <1>10, <1>11, Zenon

\* A thread is killed while it waits for a slot or a message: nothing was its own.
LEMMA KillKeeps ==
  ASSUME Premises, MailboxInv, NEW t \in Thread, kill(t)
  PROVE  MailboxInv'
<1>1. /\ pc[t] \in {"send_put", "receive_take"} /\ Blocked(t) /\ KillWaiting(t)
      /\ Return(t) /\ UNCHANGED <<mboxtab, nextmbx>>
      /\ UNCHANGED <<state, sender, receiver, max, count, start, msgs>>
  BY Zenon DEF kill, mboxtab
<1>2. pc[t] \in SendSteps \cup ReceiveSteps
  BY <1>1, Zenon DEF SendSteps, ReceiveSteps
<1>3. PICK c \in Box :
           /\ c = box[t] /\ Open(c) /\ SlotsOf(c) /\ sender[c] # receiver[c]
           /\ sender[c] \in Sem /\ live[sender[c]] /\ value[sender[c]] \in Nat
           /\ receiver[c] \in Sem /\ live[receiver[c]] /\ value[receiver[c]] \in Nat
           /\ count[c] \in Nat /\ max[c] \in Nat
  BY <1>2, UserBox, Zenon
<1>4. OthersStay(t) /\ pc'[t] = "idle" /\ ThreadTypes'
  BY <1>1, ReturnEffect, Zenon DEF MailboxInv
<1>5. /\ SemTypes' /\ UNCHANGED <<live, value>>
      /\ \E s \in Sem :
           /\ Waits(t, s)
           /\ \A z \in Sem, u \in Thread :
                Waits(u, z)' <=> Waits(u, z) /\ ~(u = t /\ z = s)
  BY <1>1, KillEffect, Zenon DEF MailboxInv
<1>6. PICK s \in Sem : /\ Waits(t, s)
                       /\ \A z \in Sem, u \in Thread :
                            Waits(u, z)' <=> Waits(u, z) /\ ~(u = t /\ z = s)
  BY <1>5, Zenon
<1>7. \A z \in Sem : ~Waits(t, z)'
  BY <1>6, Zenon DEF MailboxInv, WaitsWhere
<1>8. WaitsWhere'
  BY <1>1, <1>4, <1>6, <1>7, WaitsKept, Zenon
<1>9. \A u \in Thread \ {t} : Blocked(u)' <=> Blocked(u)
  BY <1>6, Zenon DEF Blocked
<1>10. SlotsOf(c)'
  <2>1. ASSUME NEW step \in Counted, NEW u \in Thread
        PROVE  IsPast(u, c, step)' <=> IsPast(u, c, step)
    BY <1>1, <1>4, <1>9, Zenon DEF IsPast, At, OthersStay, Counted
  <2>2. /\ Past(c, "send_put")' = Past(c, "send_put")
        /\ Past(c, "receive_signal")' = Past(c, "receive_signal")
        /\ Past(c, "receive_take")' = Past(c, "receive_take")
        /\ Past(c, "send_signal")' = Past(c, "send_signal")
    BY <2>1, PastSame, Zenon DEF Counted
  <2> QED BY <1>1, <1>3, <1>5, <2>2, Zenon DEF SlotsOf
<1> QED BY <1>1, <1>2, <1>3, <1>4, <1>5, <1>8, <1>9, <1>10, UserStep, Zenon

\* Places of a ring.
LEMMA Modulo ==
  ASSUME NEW m \in Nat \ {0}, NEW x \in Nat
  PROVE  /\ x % m \in 0 .. m - 1
         /\ x < m => x % m = x
         /\ m <= x /\ x < 2 * m => x % m = x - m
OBVIOUS

\* The step inside disable() and restore() of mailboxSend() or mailboxReceive() keeps
\* the invariant if it keeps the ring and the slots accounted for.
LEMMA RingStep ==
  ASSUME Premises, MailboxInv, NEW t \in Thread, pc[t] \in SendSteps \cup ReceiveSteps,
         ~Blocked(t), NEW c \in Box, c = box[t], OthersStay(t), UNCHANGED semvars,
         pc'[t] \in {"send_signal", "receive_signal"}, box'[t] = c,
         pc' \in [Thread -> Steps], box' \in [Thread -> Box], DOMAIN arg' = Thread,
         UNCHANGED <<state, sender, receiver, max, nextmbx>>,
         count' \in [Box -> Nat], start' \in [Box -> Nat], DOMAIN msgs' = Box,
         \A b \in Box \ {c} : /\ count'[b] = count[b] /\ start'[b] = start[b]
                              /\ msgs'[b] = msgs[b],
         start'[c] < max[c], count'[c] <= max[c],
         msgs'[c] \in [0 .. max[c] - 1 -> Msgs \cup {GARBAGE}],
         SlotsOf(c)'
  PROVE  MailboxInv'
<1>1. UNCHANGED <<live, value, waiting>>
  BY Zenon DEF semvars
<1>2. Open(c) /\ state[c] = "MAILBOX_ALLOC"
  BY UserHas
<1>3. \A u \in Thread, s \in Sem : Waits(u, s)' <=> Waits(u, s)
  BY <1>1, Zenon DEF Waits
<1>4. \A u \in Thread : Blocked(u)' <=> Blocked(u)
  BY <1>3, Zenon DEF Blocked
<1>5. SemTypes'
  BY <1>1, Zenon DEF MailboxInv, SemTypes
<1>6. BoxTypes'
  BY Zenon DEF MailboxInv, BoxTypes
<1>7. ThreadTypes'
  BY Zenon DEF MailboxInv, ThreadTypes, OthersStay
<1>8. WaitsWhere'
  BY <1>3, WaitsKept, Zenon DEF Blocked
<1>9. pc'[t] \in SendSteps \cup ReceiveSteps
  BY Zenon DEF SendSteps, ReceiveSteps
<1>10. TableLocked'
  BY <1>1, <1>4, <1>9, UserLock, Zenon
<1>11. Phases'
  BY <1>9, UserPhases, Zenon
<1>12. pc[t] \notin Special /\ pc'[t] \notin Special
  BY Zenon DEF Special, Making, SendSteps, ReceiveSteps
<1>13. OwnSemaphores'
  BY <1>1, <1>12, OwnKept, Zenon DEF Holding
<1>14. Made'
  <2>1. \A u \in Thread : pc[u] \in Making => msgs'[box[u]] = msgs[box[u]]
    BY <1>2, Zenon DEF MailboxInv, Phases, ThreadTypes
  <2> QED BY <1>1, <1>12, <2>1, MadeKept, Zenon
<1>15. Rings'
  BY <1>2, Zenon DEF MailboxInv, Rings
<1>16. SlotsAccounted'
  BY <1>1, <1>4, <1>9, OneBox, Zenon
<1> QED BY <1>5, <1>6, <1>7, <1>8, <1>10, <1>11, <1>13, <1>14, <1>15, <1>16, Zenon DEF MailboxInv

\* The sender has claimed a slot, so the ring has room.
LEMMA PutEffect ==
  ASSUME Premises, MailboxInv, NEW t \in Thread, send_put(t)
  PROVE  /\ pc[t] = "send_put" /\ ~Blocked(t) /\ arg[t] \in Msgs
         /\ \E c \in Box :
              /\ c = box[t] /\ state[c] = "MAILBOX_ALLOC" /\ Open(c)
              /\ count[c] \in Nat /\ start[c] \in Nat /\ max[c] \in Nat \ {0}
              /\ start[c] < max[c] /\ count[c] < max[c]
              /\ count' = [count EXCEPT ![c] = count[c] + 1]
              /\ \E i \in 0 .. max[c] - 1 :
                   /\ i = (start[c] + count[c]) % max[c]
                   /\ msgs' = [msgs EXCEPT ![c] = [msgs[c] EXCEPT ![i] = arg[t]]]
<1>1. /\ pc[t] = "send_put" /\ ~Blocked(t)
      /\ msgs' = [msgs EXCEPT ![box[t]] =
           [msgs[box[t]] EXCEPT ![((start[box[t]] + count[box[t]]) % UINT) % max[box[t]]] = arg[t]]]
      /\ count' = [count EXCEPT ![box[t]] = (count[box[t]] + 1) % UINT]
  BY Zenon DEF send_put, At
<1>2. pc[t] \in SendSteps \cup ReceiveSteps /\ arg[t] \in Msgs
  BY <1>1, Zenon DEF SendSteps, MailboxInv, ThreadTypes
<1>3. PICK c \in Box :
           /\ c = box[t] /\ Open(c) /\ SlotsOf(c) /\ sender[c] # receiver[c]
           /\ sender[c] \in Sem /\ live[sender[c]] /\ value[sender[c]] \in Nat
           /\ receiver[c] \in Sem /\ live[receiver[c]] /\ value[receiver[c]] \in Nat
           /\ count[c] \in Nat /\ max[c] \in Nat
  BY <1>2, UserBox, Zenon
<1>4. state[c] = "MAILBOX_ALLOC"
  BY <1>3, Zenon DEF Open
<1>5. /\ max[c] \in Nat \ {0} /\ 2 * max[c] <= UINT /\ UINT \in Nat
      /\ start[c] \in Nat /\ start[c] < max[c] /\ count[c] <= max[c]
  BY <1>4, Zenon DEF MailboxInv, Rings, BoxTypes, Premises, Assumptions
<1>6. t \in Past(c, "send_put")
  BY <1>1, <1>3, Zenon DEF Past, At
<1>7. Cardinality(Past(c, "send_put")) > 0
  BY <1>6, PastCounted, Zenon
<1>8. count[c] < max[c]
  BY <1>3, <1>7, PastNumbers DEF SlotsOf
<1>9. PICK n \in Nat : n = count[c] + 1 /\ n < UINT
  BY <1>3, <1>5, <1>8
<1>10. PICK x \in Nat : x = start[c] + count[c] /\ x < UINT
  BY <1>3, <1>5, <1>8
<1>11. PICK m \in Nat \ {0} : m = max[c]
  BY <1>5, Zenon
<1>12. PICK w \in Nat \ {0} : w = UINT
  BY <1>5
<1>13. n % w = n /\ x % w = x
  BY <1>9, <1>10, <1>12, Modulo, Zenon
<1>14. PICK i \in 0 .. m - 1 : i = x % m
  BY Modulo, Zenon
<1>15. count' = [count EXCEPT ![c] = count[c] + 1]
  BY <1>1, <1>3, <1>9, <1>12, <1>13, Zenon
<1>16. msgs' = [msgs EXCEPT ![c] = [msgs[c] EXCEPT ![i] = arg[t]]]
  BY <1>1, <1>3, <1>10, <1>11, <1>12, <1>13, <1>14, Zenon
<1> QED BY <1>1, <1>2, <1>3, <1>4, <1>5, <1>8, <1>10, <1>11, <1>14, <1>15, <1>16, Zenon

\* mailboxSend() puts the message into the ring.
LEMMA SendPutKeeps ==
  ASSUME Premises, MailboxInv, NEW t \in Thread, send_put(t)
  PROVE  MailboxInv'
<1>1. pc[t] = "send_put" /\ ~Blocked(t) /\ arg[t] \in Msgs
  BY PutEffect, Zenon
<1>2. PICK c \in Box :
              /\ c = box[t] /\ state[c] = "MAILBOX_ALLOC" /\ Open(c)
              /\ count[c] \in Nat /\ start[c] \in Nat /\ max[c] \in Nat \ {0}
              /\ start[c] < max[c] /\ count[c] < max[c]
              /\ count' = [count EXCEPT ![c] = count[c] + 1]
              /\ \E i \in 0 .. max[c] - 1 :
                   /\ i = (start[c] + count[c]) % max[c]
                   /\ msgs' = [msgs EXCEPT ![c] = [msgs[c] EXCEPT ![i] = arg[t]]]
  BY PutEffect, Zenon
<1>3. PICK i \in 0 .. max[c] - 1 :
           msgs' = [msgs EXCEPT ![c] = [msgs[c] EXCEPT ![i] = arg[t]]]
  BY <1>2, Zenon
<1>4. Go(t, "send_signal") /\ UNCHANGED <<semvars, state, sender, receiver, max, start, nextmbx>>
  BY Zenon DEF send_put
<1>5. /\ OthersStay(t) /\ pc'[t] = "send_signal" /\ box'[t] = c
      /\ pc' \in [Thread -> Steps] /\ box' \in [Thread -> Box] /\ DOMAIN arg' = Thread
  BY <1>2, <1>4, GoEffect, Zenon DEF MailboxInv, Steps, SendSteps
<1>6. UNCHANGED <<live, value, waiting>> /\ \A u \in Thread : Blocked(u)' <=> Blocked(u)
  BY <1>4, Zenon DEF semvars, Blocked, Waits
<1>7. /\ count' \in [Box -> Nat] /\ start' \in [Box -> Nat] /\ DOMAIN msgs' = Box
      /\ \A b \in Box \ {c} : /\ count'[b] = count[b] /\ start'[b] = start[b]
                              /\ msgs'[b] = msgs[b]
      /\ start'[c] < max[c] /\ count'[c] = count[c] + 1 /\ count'[c] <= max[c]
  BY <1>2, <1>3, <1>4 DEF MailboxInv, BoxTypes
<1>8. msgs'[c] \in [0 .. max[c] - 1 -> Msgs \cup {GARBAGE}]
  <2>1. msgs[c] \in [0 .. max[c] - 1 -> Msgs \cup {GARBAGE}]
    BY <1>2, Zenon DEF MailboxInv, Rings
  <2>2. msgs'[c] = [msgs[c] EXCEPT ![i] = arg[t]]
    BY <1>3, Zenon DEF MailboxInv, BoxTypes
  <2> QED BY <1>1, <2>1, <2>2, Zenon
<1>9. SlotsOf(c)'
  <2>1. ASSUME NEW step \in Counted, NEW u \in Thread,
               u # t \/ step \notin {"send_put", "send_signal"}
        PROVE  IsPast(u, c, step)' <=> IsPast(u, c, step)
    BY <1>1, <1>5, <1>6, <2>1, Zenon DEF IsPast, At, OthersStay, Counted
  <2>2. /\ Past(c, "receive_signal")' = Past(c, "receive_signal")
        /\ Past(c, "receive_take")' = Past(c, "receive_take")
    BY <2>1, PastSame, Zenon DEF Counted
  <2>3. /\ IsPast(t, c, "send_put") /\ ~IsPast(t, c, "send_put")'
        /\ ~IsPast(t, c, "send_signal") /\ IsPast(t, c, "send_signal")'
    BY <1>1, <1>2, <1>5, <1>6, Zenon DEF IsPast, At
  <2>4. /\ \A u \in Thread : IsPast(u, c, "send_put")' <=> IsPast(u, c, "send_put") /\ u # t
        /\ \A u \in Thread :
             IsPast(u, c, "send_signal")' <=> IsPast(u, c, "send_signal") \/ u = t
    BY <2>1, <2>3, Zenon DEF Counted
  <2>5. Cardinality(Past(c, "send_put"))' = Cardinality(Past(c, "send_put")) - 1
    BY <2>3, <2>4, PastRemoved, Zenon
  <2>6. Cardinality(Past(c, "send_signal"))' = Cardinality(Past(c, "send_signal")) + 1
    BY <2>3, <2>4, PastAdded, Zenon
  <2>7. /\ value'[sender'[c]] = value[sender[c]] /\ value'[receiver'[c]] = value[receiver[c]]
        /\ max'[c] = max[c] /\ value[sender[c]] \in Nat /\ value[receiver[c]] \in Nat
    BY <1>2, <1>4, <1>6, OpenHas, Zenon DEF MailboxInv, SemTypes
  <2>8. SlotsOf(c)
    BY <1>2, Zenon DEF MailboxInv, SlotsAccounted, SlotsOf
  <2> QED BY <1>2, <1>7, <2>2, <2>5, <2>6, <2>7, <2>8, PastNumbers DEF SlotsOf
<1>10. pc[t] \in SendSteps \cup ReceiveSteps
  BY <1>1, Zenon DEF SendSteps
<1> QED BY <1>1, <1>2, <1>4, <1>5, <1>7, <1>8, <1>9, <1>10, RingStep, Zenon

\* The receiver has claimed a message, so the ring is not empty.
LEMMA TakeEffect ==
  ASSUME Premises, MailboxInv, NEW t \in Thread, receive_take(t)
  PROVE  /\ pc[t] = "receive_take" /\ ~Blocked(t)
         /\ \E c \in Box :
              /\ c = box[t] /\ state[c] = "MAILBOX_ALLOC" /\ Open(c)
              /\ count[c] \in Nat \ {0} /\ start[c] \in Nat /\ max[c] \in Nat \ {0}
              /\ start[c] < max[c] /\ count[c] <= max[c]
              /\ count' = [count EXCEPT ![c] = count[c] - 1]
              /\ start' = [start EXCEPT ![c] = (start[c] + 1) % max[c]]
<1>1. /\ pc[t] = "receive_take" /\ ~Blocked(t)
      /\ start' = [start EXCEPT ![box[t]] = (start[box[t]] + 1) % max[box[t]]]
      /\ count' = [count EXCEPT ![box[t]] = (count[box[t]] - 1) % UINT]
  BY Zenon DEF receive_take, At
<1>2. pc[t] \in SendSteps \cup ReceiveSteps
  BY <1>1, Zenon DEF ReceiveSteps
<1>3. PICK c \in Box :
           /\ c = box[t] /\ Open(c) /\ SlotsOf(c) /\ sender[c] # receiver[c]
           /\ sender[c] \in Sem /\ live[sender[c]] /\ value[sender[c]] \in Nat
           /\ receiver[c] \in Sem /\ live[receiver[c]] /\ value[receiver[c]] \in Nat
           /\ count[c] \in Nat /\ max[c] \in Nat
  BY <1>2, UserBox, Zenon
<1>4. state[c] = "MAILBOX_ALLOC"
  BY <1>3, Zenon DEF Open
<1>5. /\ max[c] \in Nat \ {0} /\ 2 * max[c] <= UINT /\ UINT \in Nat
      /\ start[c] \in Nat /\ start[c] < max[c] /\ count[c] <= max[c]
  BY <1>4, Zenon DEF MailboxInv, Rings, BoxTypes, Premises, Assumptions
<1>6. t \in Past(c, "receive_take")
  BY <1>1, <1>3, Zenon DEF Past, At
<1>7. Cardinality(Past(c, "receive_take")) > 0
  BY <1>6, PastCounted, Zenon
<1>8. count[c] > 0
  BY <1>3, <1>7, PastNumbers DEF SlotsOf
<1>9. PICK n \in Nat : n = count[c] - 1 /\ n < UINT
  BY <1>3, <1>5, <1>8
<1>10. PICK w \in Nat \ {0} : w = UINT
  BY <1>5
<1>11. n % w = n
  BY <1>9, <1>10, Modulo, Zenon
<1>12. count' = [count EXCEPT ![c] = count[c] - 1]
  BY <1>1, <1>3, <1>9, <1>10, <1>11, Zenon
<1>13. /\ count[c] \in Nat \ {0}
       /\ start' = [start EXCEPT ![c] = (start[c] + 1) % max[c]]
  BY <1>1, <1>3, <1>8
<1> QED BY <1>1, <1>3, <1>4, <1>5, <1>12, <1>13, Zenon

\* mailboxReceive() takes the oldest message from the ring.
LEMMA ReceiveTakeKeeps ==
  ASSUME Premises, MailboxInv, NEW t \in Thread, receive_take(t)
  PROVE  MailboxInv'
<1>1. pc[t] = "receive_take" /\ ~Blocked(t)
  BY TakeEffect, Zenon
<1>2. PICK c \in Box :
              /\ c = box[t] /\ state[c] = "MAILBOX_ALLOC" /\ Open(c)
              /\ count[c] \in Nat \ {0} /\ start[c] \in Nat /\ max[c] \in Nat \ {0}
              /\ start[c] < max[c] /\ count[c] <= max[c]
              /\ count' = [count EXCEPT ![c] = count[c] - 1]
              /\ start' = [start EXCEPT ![c] = (start[c] + 1) % max[c]]
  BY TakeEffect, Zenon
<1>3. /\ UNCHANGED <<semvars, state, sender, receiver, max, msgs, nextmbx, box>>
      /\ pc' = [pc EXCEPT ![t] = "receive_signal"]
      /\ arg' = [arg EXCEPT ![t] = msgs[box[t]][start[box[t]]]]
  BY Zenon DEF receive_take
<1>4. /\ OthersStay(t) /\ pc'[t] = "receive_signal" /\ box'[t] = c
      /\ pc' \in [Thread -> Steps] /\ box' \in [Thread -> Box] /\ DOMAIN arg' = Thread
  BY <1>2, <1>3, Zenon DEF MailboxInv, ThreadTypes, OthersStay, Steps, ReceiveSteps
<1>5. UNCHANGED <<live, value, waiting>> /\ \A u \in Thread : Blocked(u)' <=> Blocked(u)
  BY <1>3, Zenon DEF semvars, Blocked, Waits
<1>6. PICK m \in Nat \ {0}, x \in Nat : m = max[c] /\ x = start[c] + 1
  BY <1>2
<1>7. x % m \in 0 .. m - 1
  BY Modulo, Zenon
<1>8. /\ count' \in [Box -> Nat] /\ start' \in [Box -> Nat] /\ DOMAIN msgs' = Box
      /\ \A b \in Box \ {c} : /\ count'[b] = count[b] /\ start'[b] = start[b]
                              /\ msgs'[b] = msgs[b]
      /\ start'[c] < max[c] /\ count'[c] = count[c] - 1 /\ count'[c] <= max[c]
  BY <1>2, <1>3, <1>6, <1>7 DEF MailboxInv, BoxTypes
<1>9. msgs'[c] \in [0 .. max[c] - 1 -> Msgs \cup {GARBAGE}]
  BY <1>2, <1>3, Zenon DEF MailboxInv, Rings
<1>10. SlotsOf(c)'
  <2>1. ASSUME NEW step \in Counted, NEW u \in Thread,
               u # t \/ step \notin {"receive_take", "receive_signal"}
        PROVE  IsPast(u, c, step)' <=> IsPast(u, c, step)
    BY <1>1, <1>4, <1>5, <2>1, Zenon DEF IsPast, At, OthersStay, Counted
  <2>2. /\ Past(c, "send_signal")' = Past(c, "send_signal")
        /\ Past(c, "send_put")' = Past(c, "send_put")
    BY <2>1, PastSame, Zenon DEF Counted
  <2>3. /\ IsPast(t, c, "receive_take") /\ ~IsPast(t, c, "receive_take")'
        /\ ~IsPast(t, c, "receive_signal") /\ IsPast(t, c, "receive_signal")'
    BY <1>1, <1>2, <1>4, <1>5, Zenon DEF IsPast, At
  <2>4. /\ \A u \in Thread :
             IsPast(u, c, "receive_take")' <=> IsPast(u, c, "receive_take") /\ u # t
        /\ \A u \in Thread :
             IsPast(u, c, "receive_signal")' <=> IsPast(u, c, "receive_signal") \/ u = t
    BY <2>1, <2>3, Zenon DEF Counted
  <2>5. Cardinality(Past(c, "receive_take"))' = Cardinality(Past(c, "receive_take")) - 1
    BY <2>3, <2>4, PastRemoved, Zenon
  <2>6. Cardinality(Past(c, "receive_signal"))' = Cardinality(Past(c, "receive_signal")) + 1
    BY <2>3, <2>4, PastAdded, Zenon
  <2>7. /\ value'[sender'[c]] = value[sender[c]] /\ value'[receiver'[c]] = value[receiver[c]]
        /\ max'[c] = max[c] /\ value[sender[c]] \in Nat /\ value[receiver[c]] \in Nat
    BY <1>2, <1>3, <1>5, OpenHas, Zenon DEF MailboxInv, SemTypes
  <2>8. SlotsOf(c)
    BY <1>2, Zenon DEF MailboxInv, SlotsAccounted, SlotsOf
  <2> QED BY <1>2, <1>8, <2>2, <2>5, <2>6, <2>7, <2>8, PastNumbers, SMTT(30) DEF SlotsOf
<1>11. pc[t] \in SendSteps \cup ReceiveSteps
  BY <1>1, Zenon DEF ReceiveSteps
<1> QED BY <1>1, <1>2, <1>3, <1>4, <1>8, <1>9, <1>10, <1>11, RingStep, Zenon

-----------------------------------------------------------------------------
(***************************************************************************)
(* mboxtabsem.                                                             *)
(***************************************************************************)

\* Steps outside mailboxSend() and mailboxReceive() do not move slots or messages.
LEMMA EditorSlots ==
  ASSUME MailboxInv, NEW t \in Thread, OthersStay(t),
         pc[t] \notin SendSteps \cup ReceiveSteps, pc'[t] \notin SendSteps \cup ReceiveSteps,
         \A u \in Thread : pc[u] \in Counted => (Blocked(u)' <=> Blocked(u)),
         \A b \in Box : Open(b)' =>
           /\ Open(b) /\ count'[b] = count[b] /\ max'[b] = max[b]
           /\ value'[sender'[b]] = value[sender[b]]
           /\ value'[receiver'[b]] = value[receiver[b]]
  PROVE  SlotsAccounted'
<1>1. pc[t] \notin Counted /\ pc'[t] \notin Counted
  BY Zenon DEF Counted, SendSteps, ReceiveSteps
<1>2. ASSUME NEW b \in Box, NEW u \in Thread, NEW step \in Counted
      PROVE  IsPast(u, b, step)' <=> IsPast(u, b, step)
  BY <1>1, SMTT(30) DEF IsPast, At, OthersStay
<1>3. PICK X : X = {}
  BY Zenon
<1>4. \A b \in Box \ X : Open(b)' =>
           /\ Open(b) /\ count'[b] = count[b] /\ max'[b] = max[b]
           /\ value'[sender'[b]] = value[sender[b]]
           /\ value'[receiver'[b]] = value[receiver[b]]
           /\ \A u \in Thread, step \in Counted : IsPast(u, b, step)' <=> IsPast(u, b, step)
  BY <1>2, Zenon
<1>5. \A b \in Box \cap X : Open(b)' => SlotsOf(b)'
  BY <1>3, Zenon
<1> QED BY <1>4, <1>5, SlotsKept, Zenon

\* A thread that waits for mboxtabsem, or signals it, leaves the mailboxes alone.
LEMMA TableStep ==
  ASSUME Premises, MailboxInv, NEW t \in Thread, OthersStay(t),
         pc[t] \notin SendSteps \cup ReceiveSteps, pc'[t] \notin SendSteps \cup ReceiveSteps,
         pc[t] \notin Special, pc'[t] \notin Special,
         \A b \in Box : Using(b, FreeSteps)' <=> Using(b, FreeSteps),
         UNCHANGED <<mboxtab, nextmbx>>, live' = live,
         \A z \in Sem \ {mboxtabsem} : value'[z] = value[z],
         \A u \in Thread : pc[u] \in Counted => (Blocked(u)' <=> Blocked(u)),
         SemTypes', ThreadTypes', WaitsWhere', TableLocked', Phases'
  PROVE  MailboxInv'
<1>1. UNCHANGED <<state, sender, receiver, max, count, start, msgs>>
  BY Zenon DEF mboxtab
<1>2. BoxTypes' /\ OwnSemaphores' /\ Made' /\ Rings'
  <2>1. \A u \in Thread : pc[u] \in {"alloc_receiver", "alloc_set"} =>
           /\ sender[box[u]] # BADSEM => value'[sender[box[u]]] = value[sender[box[u]]]
           /\ pc[u] = "alloc_set" => value'[receiver[box[u]]] = value[receiver[box[u]]]
    BY MakersApart, Zenon
  <2> QED BY <2>1, TableKept, Zenon
<1>3. SlotsAccounted'
  <2>1. ASSUME NEW b \in Box, Open(b)' PROVE Open(b)
    BY <1>1, <2>1, Zenon DEF Open
  <2>2. ASSUME NEW b \in Box, Open(b)
        PROVE  /\ value'[sender'[b]] = value[sender[b]]
               /\ value'[receiver'[b]] = value[receiver[b]]
    BY <1>1, <2>2, OpenHas, Zenon
  <2> QED BY <1>1, <2>1, <2>2, EditorSlots, Zenon
<1> QED BY <1>2, <1>3, Zenon DEF MailboxInv

\* wait(mboxtabsem): the table is the thread's, or it is blocked.
LEMMA TableWaitKeeps ==
  ASSUME Premises, MailboxInv, NEW t \in Thread, alloc_wait(t) \/ free_wait(t)
  PROVE  MailboxInv'
<1>1. /\ ~Blocked(t) /\ wait(t, mboxtabsem) /\ UNCHANGED <<mboxtab, nextmbx>>
      /\ UNCHANGED <<state, sender, receiver, max, count, start, msgs>>
      /\ \/ pc[t] = "alloc_wait" /\ Go(t, "alloc_scan")
         \/ pc[t] = "free_wait" /\ Go(t, "free_sender")
  BY Zenon DEF alloc_wait, free_wait, At, Then, mboxtab
<1>2. PICK s \in Sem : s = mboxtabsem /\ live[s]
  BY Zenon DEF Premises, Assumptions, MailboxInv, TableLocked
<1>3. "alloc_scan" \in Steps /\ "free_sender" \in Steps
  BY Zenon DEF Steps, AllocSteps, FreeSteps
<1>4. /\ OthersStay(t) /\ box'[t] = box[t] /\ arg'[t] = arg[t]
      /\ pc' \in [Thread -> Steps] /\ box' \in [Thread -> Box] /\ DOMAIN arg' = Thread
      /\ \/ pc[t] = "alloc_wait" /\ pc'[t] = "alloc_scan"
         \/ pc[t] = "free_wait" /\ pc'[t] = "free_sender"
  BY <1>1, <1>3, GoEffect, Zenon DEF MailboxInv
<1>5. /\ SemTypes' /\ live' = live
      /\ \A z \in Sem \ {s} : value'[z] = value[z]
      /\ \A u \in Thread \ {t} : Blocked(u)' <=> Blocked(u)
      /\ \A z \in Sem, u \in Thread \ {t} : Waits(u, z)' => Waits(u, z)
      /\ \A z \in Sem : Waits(t, z)' => z = s
      /\ \/ value[s] > 0 /\ value'[s] = value[s] - 1 /\ ~Blocked(t)'
         \/ value[s] = 0 /\ value'[s] = 0 /\ Blocked(t)'
  BY <1>1, <1>2, WaitDoes
<1>6. ThreadTypes'
  BY <1>4, Zenon DEF MailboxInv, ThreadTypes, OthersStay
<1>7. WaitsWhere'
  <2>1. pc'[t] \in WaitSteps /\ Awaited(t)' = s
    BY <1>2, <1>4, Zenon DEF WaitSteps, Awaited
  <2> QED BY <1>1, <1>4, <1>5, <2>1, WaitsKept, Zenon
<1>8. TableLocked'
  <2>1. \A u \in Thread \ {t} : Edits(u)' <=> Edits(u)
    BY <1>4, <1>5, Zenon DEF Edits, OthersStay
  <2>2. value[s] \in Nat /\ value[s] <= 1
    BY <1>2, Zenon DEF MailboxInv, SemTypes, TableLocked
  <2>3. \A u \in Thread : Edits(u) => /\ value[s] = 0
                                      /\ \A w \in Thread : Edits(w) => w = u
    BY <1>2, Zenon DEF MailboxInv, TableLocked
  <2>4. CASE value[s] > 0 /\ value'[s] = value[s] - 1 /\ ~Blocked(t)'
    <3>1. value'[s] = 0 /\ \A u \in Thread \ {t} : ~Edits(u)'
      BY <2>1, <2>2, <2>3, <2>4
    <3> QED BY <1>2, <1>5, <3>1 DEF TableLocked
  <2>5. CASE value[s] = 0 /\ value'[s] = 0 /\ Blocked(t)'
    <3>1. ~Edits(t)'
      BY <2>5, Zenon DEF Edits
    <3> QED BY <1>2, <1>5, <2>1, <2>3, <2>5, <3>1 DEF TableLocked
  <2> QED BY <1>5, <2>4, <2>5, Zenon
<1>9. Phases'
  BY <1>1, <1>4, PhasesKept, Zenon DEF SendSteps, ReceiveSteps, FreeSteps, Making
<1>10. /\ pc[t] \notin SendSteps \cup ReceiveSteps /\ pc'[t] \notin SendSteps \cup ReceiveSteps
       /\ pc[t] \notin Special /\ pc'[t] \notin Special /\ pc[t] \notin Counted
  BY <1>4, Zenon DEF SendSteps, ReceiveSteps, Special, Making, Counted
<1>11. \A b \in Box : Using(b, FreeSteps)' <=> Using(b, FreeSteps)
  <2>1. \A u \in Thread : /\ pc'[u] \in FreeSteps <=> pc[u] \in FreeSteps
                          /\ pc[u] \in FreeSteps => box'[u] = box[u]
    BY <1>4, Zenon DEF OthersStay, FreeSteps
  <2> QED BY <2>1, Zenon DEF Using
<1> QED BY <1>1, <1>2, <1>4, <1>5, <1>6, <1>7, <1>8, <1>9, <1>10, <1>11, TableStep, Zenon

\* signal(mboxtabsem): the table is handed on, or is there for the next thread.
LEMMA TableSignalKeeps ==
  ASSUME Premises, MailboxInv, NEW t \in Thread, alloc_signal(t) \/ signal_table(t)
  PROVE  MailboxInv'
<1>1. /\ ~Blocked(t) /\ signal(mboxtabsem) /\ UNCHANGED <<mboxtab, nextmbx>>
      /\ UNCHANGED <<state, sender, receiver, max, count, start, msgs>>
      /\ \/ pc[t] = "alloc_signal" /\ Go(t, "alloc_return")
         \/ pc[t] = "signal_table" /\ Return(t)
  BY Zenon DEF alloc_signal, signal_table, At, Then, Leave, mboxtab
<1>2. PICK s \in Sem : s = mboxtabsem /\ live[s]
  BY Zenon DEF Premises, Assumptions, MailboxInv, TableLocked
<1>3. "alloc_return" \in Steps
  BY Zenon DEF Steps, AllocSteps
<1>4. /\ OthersStay(t) /\ pc'[t] \in {"alloc_return", "idle"} /\ ThreadTypes'
      /\ pc[t] \in {"alloc_signal", "signal_table"}
  <2>1. CASE pc[t] = "alloc_signal" /\ Go(t, "alloc_return")
    <3>1. /\ OthersStay(t) /\ pc'[t] = "alloc_return"
          /\ pc' \in [Thread -> Steps] /\ box' \in [Thread -> Box] /\ DOMAIN arg' = Thread
      BY <1>3, <2>1, GoEffect, Zenon DEF MailboxInv
    <3> QED BY <2>1, <3>1, Zenon DEF MailboxInv, ThreadTypes, OthersStay
  <2>2. CASE pc[t] = "signal_table" /\ Return(t)
    BY <2>2, ReturnEffect, Zenon DEF MailboxInv
  <2> QED BY <1>1, <2>1, <2>2, Zenon
<1>5. /\ SemTypes' /\ live' = live
      /\ \A z \in Sem \ {s} : value'[z] = value[z]
      /\ \A z \in Sem, u \in Thread : Waits(u, z)' => Waits(u, z)
      /\ \/ /\ value'[s] = value[s] + 1
            /\ \A u \in Thread : Blocked(u)' <=> Blocked(u)
         \/ /\ value'[s] = value[s]
            /\ \E h \in Thread :
                 /\ Blocked(h) /\ pc[h] \in WaitSteps /\ Awaited(h) = s /\ ~Blocked(h)'
                 /\ \A u \in Thread \ {h} : Blocked(u)' <=> Blocked(u)
  BY <1>1, <1>2, SignalDoes, Zenon
<1>6. WaitsWhere'
  <2>1. \A z \in Sem : ~Waits(t, z)
    BY <1>1, Zenon DEF Blocked
  <2> QED BY <1>1, <1>4, <1>5, <2>1, WaitsKept, Zenon
<1>7. Phases'
  BY <1>1, <1>4, PhasesKept, Zenon DEF SendSteps, ReceiveSteps, FreeSteps, Making
<1>8. /\ pc[t] \notin SendSteps \cup ReceiveSteps /\ pc'[t] \notin SendSteps \cup ReceiveSteps
      /\ pc[t] \notin Special /\ pc'[t] \notin Special
  BY <1>4, Zenon DEF SendSteps, ReceiveSteps, Special, Making
<1>9. \A b \in Box : Using(b, FreeSteps)' <=> Using(b, FreeSteps)
  <2>1. \A u \in Thread : /\ pc'[u] \in FreeSteps <=> pc[u] \in FreeSteps
                          /\ pc[u] \in FreeSteps => box'[u] = box[u]
    BY <1>4, Zenon DEF OthersStay, FreeSteps
  <2> QED BY <2>1, Zenon DEF Using
<1>10. /\ value[s] = 0 /\ ~Edits(t)'
       /\ \A u \in Thread \ {t} : ~Edits(u)
  <2>1. Edits(t)
    BY <1>1, <1>4, Zenon DEF Edits, Editing, AllocSteps
  <2>2. ~Edits(t)'
    BY <1>4, Zenon DEF Edits, Editing, AllocSteps, FreeSteps
  <2> QED BY <1>2, <2>1, <2>2, Zenon DEF MailboxInv, TableLocked
<1>11. CASE /\ value'[s] = value[s] + 1
            /\ \A u \in Thread : Blocked(u)' <=> Blocked(u)
  <2>1. \A u \in Thread : ~Edits(u)'
    BY <1>4, <1>10, <1>11, Zenon DEF Edits, OthersStay
  <2>2. TableLocked'
    BY <1>2, <1>5, <1>10, <1>11, <2>1 DEF TableLocked
  <2> QED BY <1>1, <1>2, <1>4, <1>5, <1>6, <1>7, <1>8, <1>9, <1>11, <2>2, TableStep, Zenon
<1>12. ASSUME value'[s] = value[s], NEW h \in Thread,
              Blocked(h), pc[h] \in WaitSteps, Awaited(h) = s, ~Blocked(h)',
              \A u \in Thread \ {h} : Blocked(u)' <=> Blocked(u)
       PROVE  MailboxInv'
  <2>1. pc[h] \notin Counted
    <3>1. pc[h] \in {"send_put", "receive_take"} =>
            Awaited(h) \in {sender[box[h]], receiver[box[h]]}
      BY Zenon DEF Awaited
    <3>2. pc[h] \in {"send_put", "receive_take"} => pc[h] \in SendSteps \cup ReceiveSteps
      BY Zenon DEF SendSteps, ReceiveSteps
    <3>3. pc[h] \notin {"send_put", "receive_take"}
      BY <1>2, <1>12, <3>1, <3>2, UserHas
    <3> QED BY <1>12, <3>3, Zenon DEF WaitSteps, Counted
  <2>2. \A u \in Thread \ {h} : ~Edits(u)'
    BY <1>4, <1>10, <1>12, Zenon DEF Edits, OthersStay
  <2>3. TableLocked'
    BY <1>2, <1>5, <1>10, <1>12, <2>2 DEF TableLocked
  <2>4. \A u \in Thread : pc[u] \in Counted => (Blocked(u)' <=> Blocked(u))
    BY <1>12, <2>1, Zenon
  <2> QED BY <1>1, <1>2, <1>4, <1>5, <1>6, <1>7, <1>8, <1>9, <2>3, <2>4, TableStep, Zenon
<1> QED BY <1>5, <1>11, <1>12, Zenon

(***************************************************************************)
(* The table's entries are made and unmade by the one thread that edits.   *)
(***************************************************************************)

\* Nobody else is in the middle of making or unmaking a mailbox.
LEMMA OnlyEditor ==
  ASSUME MailboxInv, NEW t \in Thread, Edits(t), NEW u \in Thread \ {t}
  PROVE  pc[u] \notin Special
<1>1. Special \subseteq Editing /\ Special \cap WaitSteps = {}
  BY Zenon DEF Special, Making, Editing, AllocSteps, FreeSteps, WaitSteps
<1>2. pc[u] \in Special => Edits(u)
  BY <1>1, BlockedWhere, Zenon DEF Edits, MailboxInv
<1> QED BY <1>2, Zenon DEF MailboxInv, TableLocked

\* Which ends a mailbox has is then up to the thread that edits.
HasFor(t, e, b) ==
  IF e = "sender"
  THEN \/ /\ state[b] = "MAILBOX_ALLOC"
          /\ ~(pc[t] \in {"free_receiver", "free_set"} /\ box[t] = b)
       \/ /\ pc[t] \in {"alloc_receiver", "alloc_set", "alloc_undo_sender"} /\ box[t] = b
          /\ sender[b] # BADSEM
  ELSE \/ state[b] = "MAILBOX_ALLOC" /\ ~(pc[t] = "free_set" /\ box[t] = b)
       \/ /\ pc[t] \in {"alloc_set", "alloc_undo_sender", "alloc_undo_receiver"}
          /\ box[t] = b /\ receiver[b] # BADSEM

\* While t edits the table, before and after its step, Has() is HasFor() of t.
LEMMA EditorHas ==
  ASSUME MailboxInv, NEW t \in Thread, Edits(t), OthersStay(t)
  PROVE  /\ \A e \in Ends, b \in Box : Has(e, b) <=> HasFor(t, e, b)
         /\ \A e \in Ends, b \in Box : Has(e, b)' <=> HasFor(t, e, b)'
         /\ \A u \in Thread \ {t} : pc[u] \notin Special /\ pc'[u] \notin Special
<1>1. \A u \in Thread \ {t} : pc[u] \notin Special /\ pc'[u] \notin Special
  BY OnlyEditor, Zenon DEF OthersStay
<1>2. \A b \in Box, X \in SUBSET Special :
        /\ Using(b, X) <=> pc[t] \in X /\ box[t] = b
        /\ Using(b, X)' <=> pc'[t] \in X /\ box'[t] = b
  BY <1>1, Zenon DEF Using
<1>3. /\ {"free_receiver", "free_set"} \in SUBSET Special /\ {"free_set"} \in SUBSET Special
      /\ {"alloc_receiver", "alloc_set", "alloc_undo_sender"} \in SUBSET Special
      /\ {"alloc_set", "alloc_undo_sender", "alloc_undo_receiver"} \in SUBSET Special
  BY Zenon DEF Special, Making
<1>4. \A e \in Ends, b \in Box : Has(e, b) <=> HasFor(t, e, b)
  BY <1>2, <1>3, Zenon DEF Has, HasFor, Ends
<1>5. \A e \in Ends, b \in Box : Has(e, b)' <=> HasFor(t, e, b)'
  BY <1>2, <1>3, Zenon DEF Has, HasFor, Ends
<1> QED BY <1>1, <1>4, <1>5, Zenon

\* Mailboxes keep or lose semaphores.
LEMMA OwnFewer ==
  ASSUME MailboxInv,
         \A e \in Ends, b \in Box : Has(e, b)' =>
           Has(e, b) /\ End(e, b)' = End(e, b) /\ live'[End(e, b)]
  PROVE  OwnSemaphores'
BY DEF MailboxInv, OwnSemaphores

\* A mailbox gets a semaphore that nobody had.
LEMMA OwnNew ==
  ASSUME MailboxInv, NEW s \in Sem, ~live[s], live'[s], NEW e \in Ends, NEW k \in Box,
         End(e, k)' = s, \A z \in Sem \ {s} : live'[z] = live[z],
         \A f \in Ends, b \in Box : Has(f, b)' =>
           (f = e /\ b = k) \/ (Has(f, b) /\ End(f, b)' = End(f, b))
  PROVE  OwnSemaphores'
<1>1. s # mboxtabsem
  BY Zenon DEF MailboxInv, TableLocked
<1>2. \A f \in Ends, b \in Box : Has(f, b) =>
        /\ End(f, b) \in Sem /\ live[End(f, b)] /\ End(f, b) # mboxtabsem /\ End(f, b) # s
        /\ \A g \in Ends, c \in Box : Has(g, c) /\ End(g, c) = End(f, b) => g = f /\ c = b
  BY DEF MailboxInv, OwnSemaphores
<1> SUFFICES ASSUME NEW f \in Ends, NEW b \in Box, Has(f, b)'
             PROVE  /\ End(f, b)' \in Sem /\ live'[End(f, b)'] /\ End(f, b)' # mboxtabsem
                    /\ \A g \in Ends, c \in Box :
                         Has(g, c)' /\ End(g, c)' = End(f, b)' => g = f /\ c = b
  BY Zenon DEF OwnSemaphores
<1>3. CASE f = e /\ b = k
  BY <1>1, <1>2, <1>3
<1>4. CASE ~(f = e /\ b = k)
  BY <1>2, <1>4
<1> QED BY <1>3, <1>4, Zenon

\* A step of the thread that edits, which waits for nothing, leaves the others
\* waiting for what they waited for and the table locked.
LEMMA EditorStep ==
  ASSUME Premises, MailboxInv, NEW t \in Thread, Edits(t), OthersStay(t),
         pc'[t] \in Editing \cup {"idle"}, pc'[t] \notin WaitSteps,
         value'[mboxtabsem] = value[mboxtabsem], live'[mboxtabsem],
         \A u \in Thread, z \in Sem : Waits(u, z)' <=> Waits(u, z),
         \A b \in Box : state[b] = "MAILBOX_ALLOC" =>
           sender'[b] = sender[b] /\ receiver'[b] = receiver[b]
  PROVE  /\ WaitsWhere' /\ TableLocked'
         /\ \A u \in Thread : Blocked(u)' <=> Blocked(u)
         /\ pc[t] \notin SendSteps \cup ReceiveSteps
         /\ pc'[t] \notin SendSteps \cup ReceiveSteps
<1>1. \A u \in Thread : Blocked(u)' <=> Blocked(u)
  BY Zenon DEF Blocked
<1>2. WaitsWhere'
  <2> SUFFICES ASSUME NEW s \in Sem, NEW u \in Thread, Waits(u, s)
               PROVE  pc'[u] \in WaitSteps /\ s = Awaited(u)'
    BY Zenon DEF WaitsWhere
  <2>1. u # t
    BY Zenon DEF Edits, Blocked
  <2>2. pc[u] \in WaitSteps /\ s = Awaited(u) /\ pc'[u] = pc[u] /\ box'[u] = box[u]
    BY <2>1, Zenon DEF MailboxInv, WaitsWhere, OthersStay
  <2>3. CASE pc[u] \in {"send_put", "receive_take"}
    <3>1. box[u] \in Box /\ state[box[u]] = "MAILBOX_ALLOC"
      BY <2>3, UserHas, Zenon DEF SendSteps, ReceiveSteps
    <3> QED BY <2>2, <3>1, Zenon DEF Awaited
  <2>4. CASE pc[u] \notin {"send_put", "receive_take"}
    BY <2>2, <2>4, Zenon DEF Awaited
  <2> QED BY <2>2, <2>3, <2>4, Zenon
<1>3. TableLocked'
  <2>1. \A u \in Thread : pc'[u] \in Editing => /\ pc[u] \in Editing
                                                /\ Blocked(u) => Blocked(u)'
    BY <1>1, Zenon DEF OthersStay, Edits
  <2> QED BY <2>1, LockKept, Zenon
<1>4. pc[t] \in Editing
  BY Zenon DEF Edits
<1>5. /\ pc[t] \notin SendSteps \cup ReceiveSteps
      /\ pc'[t] \notin SendSteps \cup ReceiveSteps
  BY <1>4, Zenon DEF Editing, AllocSteps, FreeSteps, SendSteps, ReceiveSteps
<1> QED BY <1>1, <1>2, <1>3, <1>5, Zenon

\* A semaphore of a mailbox that nobody sends to or receives from has no waiters.
LEMMA SemfreeDoes ==
  ASSUME Premises, MailboxInv, NEW e \in Ends, NEW k \in Box, Has(e, k),
         ~Using(k, SendSteps \cup ReceiveSteps), NEW s \in Sem, s = End(e, k), semfree(s)
  PROVE  /\ SemTypes' /\ live[s] /\ live'[s] = FALSE /\ s # mboxtabsem
         /\ \A z \in Sem \ {s} : live'[z] = live[z] /\ value'[z] = value[z]
         /\ \A u \in Thread, z \in Sem : Waits(u, z)' <=> Waits(u, z)
         /\ value'[mboxtabsem] = value[mboxtabsem] /\ live'[mboxtabsem]
<1>1. /\ live[s] /\ s # mboxtabsem
      /\ \A f \in Ends, c \in Box : Has(f, c) /\ End(f, c) = s => f = e /\ c = k
  BY Zenon DEF MailboxInv, OwnSemaphores
<1>2. /\ SemTypes' /\ live'[s] = FALSE
      /\ \A z \in Sem \ {s} : live'[z] = live[z] /\ value'[z] = value[z]
      /\ \A z \in Sem, u \in Thread : Waits(u, z)' <=> Waits(u, z) /\ z # s
  BY <1>1, SemfreeEffect, Zenon DEF MailboxInv
<1>3. ASSUME NEW u \in Thread, Waits(u, s) PROVE FALSE
  <2>1. pc[u] \in WaitSteps /\ s = Awaited(u)
    BY <1>3, Zenon DEF MailboxInv, WaitsWhere
  <2>2. pc[u] \in {"send_put", "receive_take"}
    BY <1>1, <2>1, Zenon DEF Awaited, WaitSteps
  <2>3. pc[u] \in SendSteps \cup ReceiveSteps
    BY <2>2, Zenon DEF SendSteps, ReceiveSteps
  <2>4. box[u] \in Box /\ Has("sender", box[u]) /\ Has("receiver", box[u])
    BY <2>3, UserHas, Zenon
  <2>5. \E f \in Ends : End(f, box[u]) = s /\ Has(f, box[u])
    BY <2>1, <2>2, <2>4, Zenon DEF Awaited, End, Ends
  <2>6. box[u] = k
    BY <1>1, <2>4, <2>5, Zenon
  <2> QED BY <2>3, <2>6, Zenon DEF Using
<1>4. \A u \in Thread, z \in Sem : Waits(u, z)' <=> Waits(u, z)
  BY <1>2, <1>3, Zenon
<1>5. value'[mboxtabsem] = value[mboxtabsem] /\ live'[mboxtabsem]
  BY <1>1, <1>2, Zenon DEF Premises, Assumptions, MailboxInv, TableLocked
<1> QED BY <1>1, <1>2, <1>4, <1>5, Zenon

\* The entries that the loop of mailboxAlloc() looks at are entries of the table.
LEMMA CandidateBox ==
  ASSUME Premises, MailboxInv
  PROVE  \A i \in 1 .. NMAILBOX : Candidate(i) \in Box
<1> SUFFICES ASSUME NEW i \in 1 .. NMAILBOX PROVE Candidate(i) \in Box
  BY Zenon
<1>1. PICK m \in Nat \ {0}, x \in Nat : m = NMAILBOX /\ x = nextmbx + i
  BY DEF Premises, Assumptions, MailboxInv, BoxTypes, Box
<1>2. x % m \in 0 .. m - 1
  BY Modulo, Zenon
<1> QED BY <1>1, <1>2, Zenon DEF Candidate, Box

\* The search for a free mailbox and for the memory of its messages.
LEMMA AllocScanKeeps ==
  ASSUME Premises, MailboxInv, NEW t \in Thread, alloc_scan(t)
  PROVE  MailboxInv'
<1>1. /\ pc[t] = "alloc_scan" /\ ~Blocked(t)
      /\ UNCHANGED <<live, value, waiting, state, sender, receiver, max, count, start>>
  BY Zenon DEF alloc_scan, At, semvars
<1>2. \A i \in 1 .. NMAILBOX : Candidate(i) \in Box
  BY CandidateBox, Zenon
<1>3. \/ Go(t, "signal_table") /\ nextmbx' \in Box /\ UNCHANGED msgs
      \/ \E k \in Box : /\ state[k] = "MAILBOX_FREE" /\ nextmbx' = k /\ arg[t] > 0
                        /\ msgs' = [msgs EXCEPT ![k] = [j \in 0 .. arg[t] - 1 |-> GARBAGE]]
                        /\ pc' = [pc EXCEPT ![t] = "alloc_sender"]
                        /\ box' = [box EXCEPT ![t] = k]
                        /\ UNCHANGED arg
  BY <1>2, Zenon DEF alloc_scan, MailboxInv, BoxTypes
<1>4. Edits(t)
  BY <1>1, Zenon DEF Edits, Editing, AllocSteps
<1>5. SemTypes' /\ \A u \in Thread, z \in Sem : Waits(u, z)' <=> Waits(u, z)
  BY <1>1, Zenon DEF MailboxInv, SemTypes, Waits
<1>6. /\ OthersStay(t) /\ pc' \in [Thread -> Steps] /\ box' \in [Thread -> Box]
      /\ DOMAIN arg' = Thread /\ DOMAIN msgs' = Box /\ nextmbx' \in Box /\ arg' = arg
      /\ \/ pc'[t] = "signal_table" /\ msgs' = msgs
         \/ /\ pc'[t] = "alloc_sender" /\ box'[t] \in Box /\ state[box'[t]] = "MAILBOX_FREE"
            /\ \A b \in Box \ {box'[t]} : msgs'[b] = msgs[b]
            /\ msgs'[box'[t]] = [j \in 0 .. arg[t] - 1 |-> GARBAGE] /\ arg[t] > 0
  <2>1. CASE Go(t, "signal_table") /\ nextmbx' \in Box /\ UNCHANGED msgs
    <3>1. "signal_table" \in Steps
      BY Zenon DEF Steps
    <3>2. /\ OthersStay(t) /\ pc'[t] = "signal_table"
          /\ pc' \in [Thread -> Steps] /\ box' \in [Thread -> Box] /\ DOMAIN arg' = Thread
      BY <2>1, <3>1, GoEffect, Zenon DEF MailboxInv
    <3> QED BY <2>1, <3>2, Zenon DEF MailboxInv, BoxTypes, Go
  <2>2. ASSUME NEW k \in Box, state[k] = "MAILBOX_FREE", nextmbx' = k, arg[t] > 0,
               msgs' = [msgs EXCEPT ![k] = [j \in 0 .. arg[t] - 1 |-> GARBAGE]],
               pc' = [pc EXCEPT ![t] = "alloc_sender"], box' = [box EXCEPT ![t] = k],
               UNCHANGED arg
        PROVE  /\ OthersStay(t) /\ pc' \in [Thread -> Steps] /\ box' \in [Thread -> Box]
               /\ DOMAIN arg' = Thread /\ DOMAIN msgs' = Box /\ nextmbx' \in Box /\ arg' = arg
               /\ pc'[t] = "alloc_sender" /\ box'[t] = k
               /\ \A b \in Box \ {k} : msgs'[b] = msgs[b]
               /\ msgs'[k] = [j \in 0 .. arg[t] - 1 |-> GARBAGE]
    <3>1. "alloc_sender" \in Steps
      BY Zenon DEF Steps, AllocSteps
    <3> QED BY <2>2, <3>1, Zenon DEF MailboxInv, ThreadTypes, BoxTypes, OthersStay
  <2> QED BY <1>3, <2>1, <2>2, Zenon
<1>7. pc'[t] \in Editing \cup {"idle"} /\ pc'[t] \notin WaitSteps
  BY <1>6, Zenon DEF Editing, AllocSteps, WaitSteps
<1>8. value'[mboxtabsem] = value[mboxtabsem] /\ live'[mboxtabsem]
  BY <1>1, Zenon DEF MailboxInv, TableLocked
<1>9. /\ WaitsWhere' /\ TableLocked'
      /\ \A u \in Thread : Blocked(u)' <=> Blocked(u)
      /\ pc[t] \notin SendSteps \cup ReceiveSteps
      /\ pc'[t] \notin SendSteps \cup ReceiveSteps
  BY <1>1, <1>4, <1>5, <1>6, <1>7, <1>8, EditorStep, Zenon
<1>10. BoxTypes'
  BY <1>1, <1>6, Zenon DEF MailboxInv, BoxTypes
<1>11. ThreadTypes'
  BY <1>1, <1>6, Zenon DEF MailboxInv, ThreadTypes, OthersStay
<1>12. Phases'
  BY <1>1, <1>6, PhasesKept, Zenon DEF SendSteps, ReceiveSteps, FreeSteps, Making
<1>13. OwnSemaphores'
  BY <1>1, <1>6, OwnKept, Zenon DEF Holding, Special, Making
<1>14. Made'
  <2>1. \A u \in Thread \ {t} : pc'[u] \notin Special
    BY <1>4, <1>6, EditorHas, Zenon
  <2>2. \A u \in Thread : pc'[u] \in Making => u = t /\ pc'[u] = "alloc_sender"
    BY <1>6, <2>1, Zenon DEF Special, Making
  <2>3. pc'[t] = "alloc_sender" =>
          msgs'[box'[t]] \in [0 .. arg'[t] - 1 -> Msgs \cup {GARBAGE}]
    BY <1>6, Zenon
  <2> QED BY <2>2, <2>3, Zenon DEF Made, Making
<1>15. Rings'
  BY <1>1, <1>6, Zenon DEF MailboxInv, Rings
<1>16. SlotsAccounted'
  <2>1. \A b \in Box : Open(b)' => Open(b)
    BY <1>1, <1>6 DEF Open, Using, OthersStay, FreeSteps
  <2> QED BY <1>1, <1>6, <1>9, <2>1, EditorSlots, Zenon
<1> QED BY <1>5, <1>9, <1>10, <1>11, <1>12, <1>13, <1>14, <1>15, <1>16, Zenon DEF MailboxInv

\* The semaphore of the senders is created with one unit for every slot.
LEMMA AllocSenderKeeps ==
  ASSUME Premises, MailboxInv, NEW t \in Thread, alloc_sender(t)
  PROVE  MailboxInv'
<1>1. PICK s \in Sem \cup {BADSEM} :
        semcreate(s, arg[t]) /\ sender' = [sender EXCEPT ![box[t]] = s]
  BY Zenon DEF alloc_sender
<1>2. /\ pc[t] = "alloc_sender" /\ ~Blocked(t) /\ Go(t, "alloc_receiver")
      /\ max' = [max EXCEPT ![box[t]] = arg[t]]
      /\ UNCHANGED <<state, receiver, count, start, msgs, nextmbx>>
  BY Zenon DEF alloc_sender, At
<1>3. PICK k \in Box : k = box[t] /\ state[k] = "MAILBOX_FREE"
  BY <1>2, Zenon DEF MailboxInv, ThreadTypes, Phases, Making
<1>4. PICK n \in Counts : /\ n = arg[t] /\ n \in Nat /\ n > 0
                          /\ msgs[k] \in [0 .. n - 1 -> Msgs \cup {GARBAGE}]
  BY <1>2, <1>3, Zenon DEF MailboxInv, ThreadTypes, Made, Premises, Assumptions
<1>5. /\ OthersStay(t) /\ pc'[t] = "alloc_receiver" /\ box'[t] = k /\ arg'[t] = n
      /\ pc' \in [Thread -> Steps] /\ box' \in [Thread -> Box] /\ DOMAIN arg' = Thread
  BY <1>2, <1>3, <1>4, GoEffect, Zenon DEF MailboxInv, Steps, AllocSteps
<1>6. /\ \A b \in Box \ {k} : sender'[b] = sender[b] /\ max'[b] = max[b]
      /\ sender'[k] = s /\ max'[k] = n
      /\ sender' \in [Box -> Sem \cup {BADSEM}] /\ max' \in [Box -> Nat]
  BY <1>1, <1>2, <1>3, <1>4, Zenon DEF MailboxInv, BoxTypes
<1>7. /\ SemTypes' /\ \A u \in Thread, z \in Sem : Waits(u, z)' <=> Waits(u, z)
      /\ \A z \in Sem \ {s} : live'[z] = live[z] /\ value'[z] = value[z]
      /\ s # BADSEM => s \in Sem /\ ~live[s] /\ live'[s] /\ value'[s] = n
  <2>1. CASE s = BADSEM
    <3>1. UNCHANGED <<live, value, waiting>>
      BY <1>1, <2>1, Zenon DEF semcreate, semvars
    <3> QED BY <2>1, <3>1, Zenon DEF MailboxInv, SemTypes, Waits
  <2>2. CASE s # BADSEM
    BY <1>1, <1>4, <2>2, SemcreateEffect DEF MailboxInv
  <2> QED BY <2>1, <2>2, Zenon
<1>8. Edits(t)
  BY <1>2, Zenon DEF Edits, Editing, AllocSteps
<1>9. s # mboxtabsem /\ value'[mboxtabsem] = value[mboxtabsem] /\ live'[mboxtabsem]
  BY <1>7 DEF Premises, Assumptions, MailboxInv, TableLocked
<1>10. pc'[t] \in Editing \cup {"idle"} /\ pc'[t] \notin WaitSteps
  BY <1>5, Zenon DEF Editing, AllocSteps, WaitSteps
<1>11. /\ WaitsWhere' /\ TableLocked'
       /\ \A u \in Thread : Blocked(u)' <=> Blocked(u)
       /\ pc[t] \notin SendSteps \cup ReceiveSteps
       /\ pc'[t] \notin SendSteps \cup ReceiveSteps
  BY <1>2, <1>3, <1>5, <1>6, <1>7, <1>8, <1>9, <1>10, EditorStep, Zenon
<1>12. BoxTypes'
  BY <1>2, <1>6, Zenon DEF MailboxInv, BoxTypes
<1>13. ThreadTypes'
  BY <1>5, Zenon DEF MailboxInv, ThreadTypes, OthersStay
<1>14. Phases'
  BY <1>2, <1>3, <1>5, PhasesKept, Zenon DEF SendSteps, ReceiveSteps, FreeSteps
<1>15. /\ \A e \in Ends, b \in Box : Has(e, b) <=> HasFor(t, e, b)
       /\ \A e \in Ends, b \in Box : Has(e, b)' <=> HasFor(t, e, b)'
       /\ \A u \in Thread \ {t} : pc[u] \notin Special /\ pc'[u] \notin Special
  BY <1>5, <1>8, EditorHas, Zenon
<1>16. ASSUME NEW e \in Ends, NEW b \in Box, Has(e, b)'
       PROVE  \/ e = "sender" /\ b = k /\ s # BADSEM
              \/ Has(e, b) /\ End(e, b)' = End(e, b)
  <2>1. HasFor(t, e, b)'
    BY <1>15, <1>16, Zenon
  <2>2. \/ e = "sender" /\ b = k /\ s # BADSEM
        \/ HasFor(t, e, b) /\ End(e, b)' = End(e, b)
    BY <1>2, <1>3, <1>5, <1>6, <2>1 DEF HasFor, End, Ends
  <2> QED BY <1>15, <2>2, Zenon
<1>17. OwnSemaphores'
  <2>1. CASE s = BADSEM
    <3>1. \A z \in Sem : live'[z] = live[z]
      BY <1>7, <2>1, Zenon DEF Premises, Assumptions
    <3>2. \A e \in Ends, b \in Box : Has(e, b)' =>
           Has(e, b) /\ End(e, b)' = End(e, b) /\ live'[End(e, b)]
      BY <1>16, <2>1, <3>1, Zenon DEF MailboxInv, OwnSemaphores
    <3> QED BY <3>2, OwnFewer, Zenon
  <2>2. CASE s # BADSEM
    <3>1. "sender" \in Ends /\ End("sender", k)' = s
      BY <1>6, Zenon DEF Ends, End
    <3> QED BY <1>7, <1>16, <2>2, <3>1, OwnNew
  <2> QED BY <2>1, <2>2, Zenon
<1>18. Made'
  <2>1. \A u \in Thread : pc'[u] \in Making => u = t /\ pc'[u] = "alloc_receiver"
    BY <1>5, <1>15, Zenon DEF Special
  <2> QED BY <1>2, <1>4, <1>5, <1>6, <1>7, <2>1 DEF Made, Making
<1>19. Rings'
  BY <1>2, <1>3, <1>6, Zenon DEF MailboxInv, Rings
<1>20. SlotsAccounted'
  <2>1. \A b \in Box : Open(b)' => Open(b) /\ b # k
    BY <1>2, <1>3, <1>5 DEF Open, Using, OthersStay, FreeSteps
  <2>2. ASSUME NEW b \in Box, Open(b)
        PROVE  /\ value'[sender[b]] = value[sender[b]]
               /\ value'[receiver[b]] = value[receiver[b]]
    BY <1>7, <2>2, OpenHas DEF Premises, Assumptions
  <2> QED BY <1>2, <1>5, <1>6, <1>11, <2>1, <2>2, EditorSlots
<1> QED BY <1>7, <1>11, <1>12, <1>13, <1>14, <1>17, <1>18, <1>19, <1>20, Zenon DEF MailboxInv

\* The semaphore of the receivers is created without units; if either is missing, the
\* mailbox is given up.
LEMMA AllocReceiverKeeps ==
  ASSUME Premises, MailboxInv, NEW t \in Thread, alloc_receiver(t)
  PROVE  MailboxInv'
<1>1. PICK s \in Sem \cup {BADSEM} :
        /\ semcreate(s, 0) /\ receiver' = [receiver EXCEPT ![box[t]] = s]
        /\ Go(t, IF BADSEM \in {sender[box[t]], s} THEN "alloc_undo_sender" ELSE "alloc_set")
  BY Zenon DEF alloc_receiver
<1>2. /\ pc[t] = "alloc_receiver" /\ ~Blocked(t)
      /\ UNCHANGED <<state, sender, max, count, start, msgs, nextmbx>>
  BY Zenon DEF alloc_receiver, At
<1>3. PICK k \in Box : k = box[t] /\ state[k] = "MAILBOX_FREE"
  BY <1>2, Zenon DEF MailboxInv, ThreadTypes, Phases, Making
<1>4. PICK step \in {"alloc_undo_sender", "alloc_set"} :
        step = IF BADSEM \in {sender[k], s} THEN "alloc_undo_sender" ELSE "alloc_set"
  BY Zenon
<1>5. /\ OthersStay(t) /\ pc'[t] = step /\ box'[t] = k
      /\ pc' \in [Thread -> Steps] /\ box' \in [Thread -> Box] /\ DOMAIN arg' = Thread
  <2>1. step \in Steps
    BY Zenon DEF Steps, AllocSteps
  <2> QED BY <1>1, <1>3, <1>4, <2>1, GoEffect, Zenon DEF MailboxInv
<1>6. /\ \A b \in Box \ {k} : receiver'[b] = receiver[b]
      /\ receiver'[k] = s /\ receiver' \in [Box -> Sem \cup {BADSEM}]
  BY <1>1, <1>3, Zenon DEF MailboxInv, BoxTypes
<1>7. /\ SemTypes' /\ \A u \in Thread, z \in Sem : Waits(u, z)' <=> Waits(u, z)
      /\ \A z \in Sem \ {s} : live'[z] = live[z] /\ value'[z] = value[z]
      /\ s # BADSEM => s \in Sem /\ ~live[s] /\ live'[s] /\ value'[s] = 0
  <2>1. CASE s = BADSEM
    <3>1. UNCHANGED <<live, value, waiting>>
      BY <1>1, <2>1, Zenon DEF semcreate, semvars
    <3> QED BY <2>1, <3>1, Zenon DEF MailboxInv, SemTypes, Waits
  <2>2. CASE s # BADSEM
    BY <1>1, <2>2, SemcreateEffect, Zenon DEF MailboxInv
  <2> QED BY <2>1, <2>2, Zenon
<1>8. Edits(t)
  BY <1>2, Zenon DEF Edits, Editing, AllocSteps
<1>9. s # mboxtabsem /\ value'[mboxtabsem] = value[mboxtabsem] /\ live'[mboxtabsem]
  BY <1>7 DEF Premises, Assumptions, MailboxInv, TableLocked
<1>10. pc'[t] \in Editing \cup {"idle"} /\ pc'[t] \notin WaitSteps
  BY <1>5, Zenon DEF Editing, AllocSteps, WaitSteps
<1>11. /\ WaitsWhere' /\ TableLocked'
       /\ \A u \in Thread : Blocked(u)' <=> Blocked(u)
       /\ pc[t] \notin SendSteps \cup ReceiveSteps
       /\ pc'[t] \notin SendSteps \cup ReceiveSteps
  BY <1>2, <1>3, <1>5, <1>6, <1>7, <1>8, <1>9, <1>10, EditorStep, Zenon
<1>12. BoxTypes'
  BY <1>2, <1>6, Zenon DEF MailboxInv, BoxTypes
<1>13. ThreadTypes'
  BY <1>5 DEF MailboxInv, ThreadTypes, OthersStay
<1>14. Phases'
  BY <1>2, <1>3, <1>5, PhasesKept, Zenon DEF SendSteps, ReceiveSteps, FreeSteps
<1>15. /\ \A e \in Ends, b \in Box : Has(e, b) <=> HasFor(t, e, b)
       /\ \A e \in Ends, b \in Box : Has(e, b)' <=> HasFor(t, e, b)'
       /\ \A u \in Thread \ {t} : pc[u] \notin Special /\ pc'[u] \notin Special
  BY <1>5, <1>8, EditorHas, Zenon
<1>16. ASSUME NEW e \in Ends, NEW b \in Box, Has(e, b)'
       PROVE  \/ e = "receiver" /\ b = k /\ s # BADSEM
              \/ Has(e, b) /\ End(e, b)' = End(e, b)
  <2>1. HasFor(t, e, b)'
    BY <1>15, <1>16, Zenon
  <2>2. \/ e = "receiver" /\ b = k /\ s # BADSEM
        \/ HasFor(t, e, b) /\ End(e, b)' = End(e, b)
    BY <1>2, <1>3, <1>5, <1>6, <2>1 DEF HasFor, End, Ends
  <2> QED BY <1>15, <2>2, Zenon
<1>17. OwnSemaphores'
  <2>1. CASE s = BADSEM
    <3>1. \A z \in Sem : live'[z] = live[z]
      BY <1>7, <2>1, Zenon DEF Premises, Assumptions
    <3>2. \A e \in Ends, b \in Box : Has(e, b)' =>
           Has(e, b) /\ End(e, b)' = End(e, b) /\ live'[End(e, b)]
      BY <1>16, <2>1, <3>1, Zenon DEF MailboxInv, OwnSemaphores
    <3> QED BY <3>2, OwnFewer, Zenon
  <2>2. CASE s # BADSEM
    <3>1. "receiver" \in Ends /\ End("receiver", k)' = s
      BY <1>6, Zenon DEF Ends, End
    <3> QED BY <1>7, <1>16, <2>2, <3>1, OwnNew
  <2> QED BY <2>1, <2>2, Zenon
<1>18. Made'
  <2>1. \A u \in Thread : pc'[u] \in Making => u = t
    BY <1>15, Zenon DEF Special
  <2>2. /\ max[k] \in Counts \ {0}
        /\ msgs[k] \in [0 .. max[k] - 1 -> Msgs \cup {GARBAGE}]
        /\ sender[k] # BADSEM => value[sender[k]] = max[k]
    BY <1>2, <1>3 DEF MailboxInv, Made
  <2>3. sender[k] # BADSEM => sender[k] \in Sem /\ sender[k] # s
    <3>1. sender[k] # BADSEM => Has("sender", k)
      BY <1>2, <1>3, <1>15, Zenon DEF HasFor, Ends
    <3> QED BY <1>7, <3>1 DEF MailboxInv, OwnSemaphores, Ends, End, Premises, Assumptions
  <2>4. sender'[k] # BADSEM => value'[sender'[k]] = max'[k]
    BY <1>2, <1>7, <2>2, <2>3, Zenon
  <2>5. step = "alloc_set" => sender'[k] # BADSEM /\ s # BADSEM /\ value'[s] = 0
    BY <1>2, <1>4, <1>7, Zenon
  <2> QED BY <1>2, <1>5, <1>6, <2>1, <2>2, <2>4, <2>5 DEF Made, Making
<1>19. Rings'
  BY <1>2, Zenon DEF MailboxInv, Rings
<1>20. SlotsAccounted'
  <2>1. \A b \in Box : Open(b)' => Open(b) /\ b # k
    BY <1>2, <1>3, <1>5 DEF Open, Using, OthersStay, FreeSteps
  <2>2. ASSUME NEW b \in Box, Open(b)
        PROVE  /\ value'[sender[b]] = value[sender[b]]
               /\ value'[receiver[b]] = value[receiver[b]]
    BY <1>7, <2>2, OpenHas, SMTT(30) DEF Premises, Assumptions
  <2> QED BY <1>2, <1>5, <1>6, <1>11, <2>1, <2>2, EditorSlots
<1> QED BY <1>7, <1>11, <1>12, <1>13, <1>14, <1>17, <1>18, <1>19, <1>20, Zenon DEF MailboxInv

\* The mailbox is allocated: empty, with all its slots free.
LEMMA AllocSetKeeps ==
  ASSUME Premises, MailboxInv, NEW t \in Thread, alloc_set(t)
  PROVE  MailboxInv'
<1>1. /\ pc[t] = "alloc_set" /\ ~Blocked(t) /\ Go(t, "alloc_signal")
      /\ count' = [count EXCEPT ![box[t]] = 0] /\ start' = [start EXCEPT ![box[t]] = 0]
      /\ state' = [state EXCEPT ![box[t]] = "MAILBOX_ALLOC"]
      /\ UNCHANGED <<live, value, waiting, sender, receiver, max, msgs, nextmbx>>
  BY Zenon DEF alloc_set, At, semvars
<1>2. PICK k \in Box : k = box[t] /\ state[k] = "MAILBOX_FREE"
  BY <1>1, Zenon DEF MailboxInv, ThreadTypes, Phases, Making
<1>3. /\ OthersStay(t) /\ pc'[t] = "alloc_signal" /\ box'[t] = k
      /\ pc' \in [Thread -> Steps] /\ box' \in [Thread -> Box] /\ DOMAIN arg' = Thread
  BY <1>1, <1>2, GoEffect, Zenon DEF MailboxInv, Steps, AllocSteps
<1>4. /\ \A b \in Box \ {k} : /\ count'[b] = count[b] /\ start'[b] = start[b]
                              /\ state'[b] = state[b]
      /\ count'[k] = 0 /\ start'[k] = 0 /\ state'[k] = "MAILBOX_ALLOC"
      /\ BoxTypes'
  BY <1>1, <1>2, Zenon DEF MailboxInv, BoxTypes
<1>5. SemTypes' /\ \A u \in Thread, z \in Sem : Waits(u, z)' <=> Waits(u, z)
  BY <1>1, Zenon DEF MailboxInv, SemTypes, Waits
<1>6. Edits(t)
  BY <1>1, Zenon DEF Edits, Editing, AllocSteps
<1>7. pc'[t] \in Editing \cup {"idle"} /\ pc'[t] \notin WaitSteps
  BY <1>3, Zenon DEF Editing, AllocSteps, WaitSteps
<1>8. value'[mboxtabsem] = value[mboxtabsem] /\ live'[mboxtabsem]
  BY <1>1, Zenon DEF MailboxInv, TableLocked
<1>9. /\ WaitsWhere' /\ TableLocked'
      /\ \A u \in Thread : Blocked(u)' <=> Blocked(u)
      /\ pc[t] \notin SendSteps \cup ReceiveSteps
      /\ pc'[t] \notin SendSteps \cup ReceiveSteps
  BY <1>1, <1>3, <1>5, <1>6, <1>7, <1>8, EditorStep, Zenon
<1>10. ThreadTypes'
  BY <1>3, Zenon DEF MailboxInv, ThreadTypes, OthersStay
<1>11. /\ \A e \in Ends, b \in Box : Has(e, b) <=> HasFor(t, e, b)
       /\ \A e \in Ends, b \in Box : Has(e, b)' <=> HasFor(t, e, b)'
       /\ \A u \in Thread \ {t} : pc[u] \notin Special /\ pc'[u] \notin Special
  BY <1>3, <1>6, EditorHas, Zenon
<1>12. \A u \in Thread : pc'[u] \notin Making
  BY <1>3, <1>11, Zenon DEF Special, Making
<1>13. \A u \in Thread : pc'[u] \in SendSteps \cup ReceiveSteps \cup FreeSteps =>
         /\ u # t /\ pc'[u] = pc[u] /\ box'[u] = box[u] /\ box[u] # k
         /\ state[box[u]] = "MAILBOX_ALLOC" /\ box[u] \in Box
  BY <1>2, <1>3, Zenon DEF OthersStay, SendSteps, ReceiveSteps, FreeSteps, MailboxInv, Phases,
                    ThreadTypes
<1>14. Phases'
  <2>1. ASSUME NEW u \in Thread, pc'[u] \in FreeSteps, NEW w \in Thread \ {u},
               pc'[w] \in SendSteps \cup ReceiveSteps \cup FreeSteps
        PROVE  box'[w] # box'[u]
    BY <1>13, <2>1 DEF MailboxInv, Phases
  <2> QED BY <1>4, <1>12, <1>13, <2>1, SMTT(30) DEF Phases
<1>15. /\ sender[k] # BADSEM /\ receiver[k] # BADSEM
       /\ max[k] \in Counts \ {0} /\ value[sender[k]] = max[k] /\ value[receiver[k]] = 0
       /\ msgs[k] \in [0 .. max[k] - 1 -> Msgs \cup {GARBAGE}]
  BY <1>1, <1>2 DEF MailboxInv, Made
<1>16. OwnSemaphores'
  <2>1. ASSUME NEW e \in Ends, NEW b \in Box, Has(e, b)'
        PROVE  Has(e, b) /\ End(e, b)' = End(e, b) /\ live'[End(e, b)]
    <3>1. HasFor(t, e, b)'
      BY <1>11, <2>1, Zenon
    <3>2. HasFor(t, e, b) /\ End(e, b)' = End(e, b)
      BY <1>1, <1>2, <1>3, <1>4, <1>15, <3>1 DEF HasFor, End, Ends
    <3>3. live[End(e, b)]
      BY <1>11, <3>2, Zenon DEF MailboxInv, OwnSemaphores
    <3> QED BY <1>1, <1>11, <3>2, <3>3, Zenon
  <2> QED BY <2>1, OwnFewer, Zenon
<1>17. Made'
  BY <1>12, Zenon DEF Made, Making
<1>18. Rings'
  BY <1>1, <1>4, <1>15 DEF MailboxInv, Rings, Premises, Assumptions
<1>19. SlotsOf(k)'
  <2>1. ASSUME NEW step \in Counted PROVE Past(k, step)' = {}
    <3>1. Counted \subseteq SendSteps \cup ReceiveSteps
      BY Zenon DEF Counted, SendSteps, ReceiveSteps
    <3>2. \A u \in Thread : ~IsPast(u, k, step)'
      BY <1>13, <3>1, Zenon DEF IsPast, At
    <3> QED BY <3>2, Zenon DEF Past, IsPast
  <2>2. /\ Past(k, "send_put")' = {} /\ Past(k, "receive_signal")' = {}
        /\ Past(k, "receive_take")' = {} /\ Past(k, "send_signal")' = {}
    BY <2>1, Zenon DEF Counted
  <2>3. Cardinality({}) = 0
    BY Zenon DEF Premises, Counting
  <2>4. /\ Cardinality(Past(k, "send_put"))' = 0 /\ Cardinality(Past(k, "receive_signal"))' = 0
        /\ Cardinality(Past(k, "receive_take"))' = 0 /\ Cardinality(Past(k, "send_signal"))' = 0
    BY <2>2, <2>3, Zenon
  <2>5. /\ value'[sender'[k]] = max'[k] /\ value'[receiver'[k]] = 0 /\ max'[k] \in Nat
        /\ count'[k] = 0
    BY <1>1, <1>4, <1>15, Zenon DEF MailboxInv, BoxTypes
  <2> QED BY <2>4, <2>5 DEF SlotsOf
<1>20. SlotsAccounted'
  <2>1. PICK X : X = {k}
    BY Zenon
  <2>2. ASSUME NEW b \in Box \ X, Open(b)' PROVE Open(b)
    BY <1>1, <1>3, <1>4, <2>1, <2>2 DEF Open, Using, OthersStay, FreeSteps
  <2>3. ASSUME NEW b \in Box \ X, NEW u \in Thread, NEW step \in Counted
        PROVE  IsPast(u, b, step)' <=> IsPast(u, b, step)
    BY <1>1, <1>3, <1>9, Zenon DEF IsPast, At, OthersStay, Counted
  <2>4. \A b \in Box \ X : Open(b)' =>
           /\ Open(b) /\ count'[b] = count[b] /\ max'[b] = max[b]
           /\ value'[sender'[b]] = value[sender[b]]
           /\ value'[receiver'[b]] = value[receiver[b]]
           /\ \A u \in Thread, step \in Counted : IsPast(u, b, step)' <=> IsPast(u, b, step)
    BY <1>1, <1>4, <2>1, <2>2, <2>3, Zenon
  <2>5. \A b \in Box \cap X : Open(b)' => SlotsOf(b)'
    BY <1>19, <2>1, Zenon
  <2> QED BY <2>4, <2>5, SlotsKept, Zenon
<1> QED BY <1>4, <1>5, <1>9, <1>10, <1>14, <1>16, <1>17, <1>18, <1>20, Zenon DEF MailboxInv

=============================================================================
