------------------------------- MODULE Mailbox -------------------------------
(***************************************************************************)
(* Mailboxes (src/mailbox): bounded message queues in a table that a       *)
(* semaphore guards, with two counting semaphores per mailbox.  The calls  *)
(* run with interrupts enabled, so threads interleave between any two      *)
(* kernel calls or disable()d sections; each of these is a step, and pc    *)
(* says which one a thread takes next.                                     *)
(***************************************************************************)
EXTENDS SemaphoreCalls

CONSTANTS
  NMAILBOX,
  mboxtabsem,     \* the semaphore that mailboxInit() creates
  Counts,         \* arguments of mailboxAlloc()
  Msgs,           \* arguments of mailboxSend()
  GARBAGE,        \* what memory holds that nobody wrote
  UINT,           \* 2^32 in the code
  FreeInUse,      \* TRUE: mailboxes are freed while others use them
  AllocTogether   \* TRUE: threads allocate mailboxes at the same time

VARIABLES
  state, sender, receiver, max, count, start, msgs,   \* columns of mboxtab
  nextmbx,          \* static in mailboxAlloc()
  pc, box, arg      \* per thread: next step, mbxptr, and the message or count

mboxtab == <<state, sender, receiver, max, count, start, msgs>>
vars == <<semvars, mboxtab, nextmbx, pc, box, arg>>

Box == 0 .. NMAILBOX - 1

SendSteps == {"send_wait", "send_put", "send_signal"}
ReceiveSteps == {"receive_wait", "receive_take", "receive_signal"}
AllocSteps == {"alloc_wait", "alloc_scan", "alloc_sender", "alloc_receiver",
  "alloc_set", "alloc_undo_sender", "alloc_undo_receiver", "alloc_signal",
  "alloc_return"}
FreeSteps == {"free_wait", "free_sender", "free_receiver", "free_set"}

\* Steps between wait(mboxtabsem) and signal(mboxtabsem).
Editing == (AllocSteps \ {"alloc_wait", "alloc_return"}) \cup
  (FreeSteps \ {"free_wait"}) \cup {"signal_table"}

At(t, step) == pc[t] = step /\ ~Blocked(t)

Go(t, step) == pc' = [pc EXCEPT ![t] = step] /\ UNCHANGED <<box, arg>>

Return(t) ==
  /\ pc' = [pc EXCEPT ![t] = "idle"]
  /\ box' = [box EXCEPT ![t] = 0]
  /\ arg' = [arg EXCEPT ![t] = 0]

\* After a kernel call the thread goes on to step, or returns.
Then(t, step) == Go(t, step) /\ UNCHANGED <<mboxtab, nextmbx>>

Leave(t) == Return(t) /\ UNCHANGED <<mboxtab, nextmbx>>

Call(t, step, b, a) ==
  /\ pc[t] = "idle"
  /\ pc' = [pc EXCEPT ![t] = step]
  /\ box' = [box EXCEPT ![t] = b]
  /\ arg' = [arg EXCEPT ![t] = a]
  /\ UNCHANGED <<semvars, mboxtab, nextmbx>>

Using(b, steps) == \E u \in Thread : pc[u] \in steps /\ box[u] = b

Init ==
  /\ live = [s \in Sem |-> s = mboxtabsem]
  /\ value = [s \in Sem |-> IF s = mboxtabsem THEN 1 ELSE 0]
  /\ waiting = [s \in Sem |-> <<>>]
  /\ state = [b \in Box |-> "MAILBOX_FREE"]
  /\ sender = [b \in Box |-> BADSEM] /\ receiver = [b \in Box |-> BADSEM]
  /\ max = [b \in Box |-> 0] /\ count = [b \in Box |-> 0]
  /\ start = [b \in Box |-> 0] /\ msgs = [b \in Box |-> <<>>]
  /\ nextmbx = 0
  /\ pc = [t \in Thread |-> "idle"]
  /\ box = [t \in Thread |-> 0] /\ arg = [t \in Thread |-> 0]

-----------------------------------------------------------------------------
(* mailboxSend(): calls that are refused return without a step.            *)

mailboxSend(t) ==
  \E b \in Box, m \in Msgs :
    /\ state[b] = "MAILBOX_ALLOC"
    /\ FreeInUse \/ ~Using(b, FreeSteps)
    /\ Call(t, "send_wait", b, m)

\* Mutant: does not wait for room.
send_wait_not(t) == At(t, "send_wait") /\ UNCHANGED semvars /\ Then(t, "send_put")

send_wait(t) ==
  At(t, "send_wait") /\ wait(t, sender[box[t]]) /\ Then(t, "send_put")

\* Mutant: one slot too far.
send_put_far(t) ==
  /\ At(t, "send_put")
  /\ LET b == box[t]
         i == (start[b] + count[b] + 1) % max[b]
     IN /\ msgs' = [msgs EXCEPT ![b] = [@ EXCEPT ![i] = arg[t]]]
        /\ count' = [count EXCEPT ![b] = @ + 1]
  /\ Go(t, "send_signal")
  /\ UNCHANGED <<semvars, state, sender, receiver, max, start, nextmbx>>

send_put(t) ==
  /\ At(t, "send_put")
  /\ LET b == box[t]
         i == ((start[b] + count[b]) % UINT) % max[b]
     IN /\ msgs' = [msgs EXCEPT ![b] = [@ EXCEPT ![i] = arg[t]]]
        /\ count' = [count EXCEPT ![b] = (@ + 1) % UINT]
  /\ Go(t, "send_signal")
  /\ UNCHANGED <<semvars, state, sender, receiver, max, start, nextmbx>>

send_signal(t) ==
  At(t, "send_signal") /\ signal(receiver[box[t]]) /\ Leave(t)

(* mailboxReceive() *)

mailboxReceive(t) ==
  \E b \in Box :
    /\ state[b] = "MAILBOX_ALLOC"
    /\ FreeInUse \/ ~Using(b, FreeSteps)
    /\ Call(t, "receive_wait", b, 0)

receive_wait(t) ==
  At(t, "receive_wait") /\ wait(t, receiver[box[t]]) /\ Then(t, "receive_take")

\* Mutant: the start does not wrap.
receive_take_on(t) ==
  /\ At(t, "receive_take")
  /\ LET b == box[t] IN
       /\ arg' = [arg EXCEPT ![t] = msgs[b][start[b]]]
       /\ start' = [start EXCEPT ![b] = @ + 1]
       /\ count' = [count EXCEPT ![b] = @ - 1]
  /\ pc' = [pc EXCEPT ![t] = "receive_signal"]
  /\ UNCHANGED <<semvars, state, sender, receiver, max, msgs, nextmbx, box>>

receive_take(t) ==
  /\ At(t, "receive_take")
  /\ LET b == box[t] IN
       /\ arg' = [arg EXCEPT ![t] = msgs[b][start[b]]]
       /\ start' = [start EXCEPT ![b] = (@ + 1) % max[b]]
       /\ count' = [count EXCEPT ![b] = (@ - 1) % UINT]
  /\ pc' = [pc EXCEPT ![t] = "receive_signal"]
  /\ UNCHANGED <<semvars, state, sender, receiver, max, msgs, nextmbx, box>>

\* Mutant: the slot is not given back.
receive_signal_not(t) ==
  At(t, "receive_signal") /\ UNCHANGED semvars /\ Leave(t)

receive_signal(t) ==
  At(t, "receive_signal") /\ signal(sender[box[t]]) /\ Leave(t)

-----------------------------------------------------------------------------
(* mailboxAlloc() *)

mailboxAlloc(t) ==
  \E n \in Counts :
    /\ AllocTogether \/ ~\E u \in Thread : pc[u] \in AllocSteps
    /\ Call(t, "alloc_wait", 0, n)

alloc_wait(t) ==
  At(t, "alloc_wait") /\ wait(t, mboxtabsem) /\ Then(t, "alloc_scan")

\* The i-th entry that the loop looks at.
Candidate(i) == (nextmbx + i) % NMAILBOX

\* The loop up to memget(), which fails for lack of memory or for no bytes.
alloc_scan(t) ==
  /\ At(t, "alloc_scan")
  /\ \/ /\ \A b \in Box : state[b] # "MAILBOX_FREE"
        /\ Go(t, "signal_table")
        /\ UNCHANGED <<nextmbx, msgs>>
     \/ \E i \in 1 .. NMAILBOX :
          /\ state[Candidate(i)] = "MAILBOX_FREE"
          /\ \A j \in 1 .. i - 1 : state[Candidate(j)] # "MAILBOX_FREE"
          /\ nextmbx' = Candidate(i)
          /\ \/ Go(t, "signal_table") /\ UNCHANGED msgs
             \/ /\ arg[t] > 0
                /\ msgs' = [msgs EXCEPT ![Candidate(i)] =
                              [j \in 0 .. arg[t] - 1 |-> GARBAGE]]
                /\ pc' = [pc EXCEPT ![t] = "alloc_sender"]
                /\ box' = [box EXCEPT ![t] = Candidate(i)]
                /\ UNCHANGED arg
  /\ UNCHANGED <<semvars, state, sender, receiver, max, count, start>>

alloc_sender(t) ==
  /\ At(t, "alloc_sender")
  /\ \E s \in Sem \cup {BADSEM} :
       /\ semcreate(s, arg[t])
       /\ sender' = [sender EXCEPT ![box[t]] = s]
  /\ max' = [max EXCEPT ![box[t]] = arg[t]]
  /\ Go(t, "alloc_receiver")
  /\ UNCHANGED <<state, receiver, count, start, msgs, nextmbx>>

alloc_receiver(t) ==
  /\ At(t, "alloc_receiver")
  /\ \E s \in Sem \cup {BADSEM} :
       /\ semcreate(s, 0)
       /\ receiver' = [receiver EXCEPT ![box[t]] = s]
       /\ Go(t, IF BADSEM \in {sender[box[t]], s} THEN "alloc_undo_sender"
                                                  ELSE "alloc_set")
  /\ UNCHANGED <<state, sender, max, count, start, msgs, nextmbx>>

alloc_set(t) ==
  /\ At(t, "alloc_set")
  /\ count' = [count EXCEPT ![box[t]] = 0]
  /\ start' = [start EXCEPT ![box[t]] = 0]
  /\ state' = [state EXCEPT ![box[t]] = "MAILBOX_ALLOC"]
  /\ Go(t, "alloc_signal")
  /\ UNCHANGED <<semvars, sender, receiver, max, msgs, nextmbx>>

alloc_signal(t) ==
  At(t, "alloc_signal") /\ signal(mboxtabsem) /\ Then(t, "alloc_return")

\* The caller is given nextmbx as it is after the signal().
alloc_return(t) ==
  /\ At(t, "alloc_return")
  /\ pc' = [pc EXCEPT ![t] = "idle"]
  /\ box' = [box EXCEPT ![t] = nextmbx]
  /\ arg' = [arg EXCEPT ![t] = 0]
  /\ UNCHANGED <<semvars, mboxtab, nextmbx>>

\* memfree() and the first semfree()
alloc_undo_sender(t) ==
  /\ At(t, "alloc_undo_sender")
  /\ semfree(sender[box[t]])
  /\ msgs' = [msgs EXCEPT ![box[t]] = <<>>]
  /\ Go(t, "alloc_undo_receiver")
  /\ UNCHANGED <<state, sender, receiver, max, count, start, nextmbx>>

\* Returns SYSERR without signal(mboxtabsem).
alloc_undo_receiver(t) ==
  At(t, "alloc_undo_receiver") /\ semfree(receiver[box[t]]) /\ Leave(t)

\* The last step of mailboxFree() and of a mailboxAlloc() that found no
\* mailbox or no memory.
signal_table(t) ==
  At(t, "signal_table") /\ signal(mboxtabsem) /\ Leave(t)

-----------------------------------------------------------------------------
(* mailboxFree() *)

mailboxFree(t) ==
  \E b \in Box :
    /\ state[b] = "MAILBOX_ALLOC"
    /\ FreeInUse \/ ~Using(b, SendSteps \cup ReceiveSteps \cup FreeSteps)
    /\ Call(t, "free_wait", b, 0)

free_wait(t) ==
  At(t, "free_wait") /\ wait(t, mboxtabsem) /\ Then(t, "free_sender")

free_sender(t) ==
  /\ At(t, "free_sender")
  /\ semfree(sender[box[t]])
  /\ Then(t, IF isbadsem(sender[box[t]]) THEN "signal_table"
                                         ELSE "free_receiver")

free_receiver(t) ==
  /\ At(t, "free_receiver")
  /\ semfree(receiver[box[t]])
  /\ Then(t, IF isbadsem(receiver[box[t]]) THEN "signal_table" ELSE "free_set")

\* memfree() and the change of state
free_set(t) ==
  /\ At(t, "free_set")
  /\ msgs' = [msgs EXCEPT ![box[t]] = [i \in DOMAIN @ |-> GARBAGE]]
  /\ state' = [state EXCEPT ![box[t]] = "MAILBOX_FREE"]
  /\ Go(t, "signal_table")
  /\ UNCHANGED <<semvars, sender, receiver, max, count, start, nextmbx>>

\* A thread that waits for a mailbox is killed.
kill(t) ==
  /\ pc[t] \in {"send_put", "receive_take"} /\ Blocked(t)
  /\ KillWaiting(t)
  /\ Return(t)
  /\ UNCHANGED <<mboxtab, nextmbx>>

-----------------------------------------------------------------------------

\* What a thread does next once it has made a call.
Continue(t) ==
  \/ send_wait(t) \/ send_put(t) \/ send_signal(t)
  \/ receive_wait(t) \/ receive_take(t) \/ receive_signal(t)
  \/ alloc_wait(t) \/ alloc_scan(t) \/ alloc_sender(t) \/ alloc_receiver(t)
  \/ alloc_set(t) \/ alloc_signal(t) \/ alloc_return(t)
  \/ alloc_undo_sender(t) \/ alloc_undo_receiver(t) \/ signal_table(t)
  \/ free_wait(t) \/ free_sender(t) \/ free_receiver(t) \/ free_set(t)

Next ==
  \E t \in Thread :
    \/ mailboxSend(t) \/ mailboxReceive(t) \/ mailboxAlloc(t) \/ mailboxFree(t)
    \/ Continue(t) \/ kill(t)

Spec == Init /\ [][Next]_vars

\* Threads of one priority share the processor (Kernel's RoundRobin).
FairSpec == Spec /\ \A t \in Thread : WF_vars(Continue(t))

-----------------------------------------------------------------------------

TypeOK ==
  /\ live \in [Sem -> BOOLEAN] /\ value \in [Sem -> Nat]
  /\ waiting \in [Sem -> Seq(Thread)]
  /\ state \in [Box -> {"MAILBOX_FREE", "MAILBOX_ALLOC"}]
  /\ sender \in [Box -> Sem \cup {BADSEM}]
  /\ receiver \in [Box -> Sem \cup {BADSEM}]
  /\ max \in [Box -> Nat] /\ count \in [Box -> Nat] /\ start \in [Box -> Nat]
  /\ \A b \in Box : state[b] = "MAILBOX_ALLOC" =>
       /\ msgs[b] \in [0 .. max[b] - 1 -> Msgs \cup {GARBAGE}]
       /\ start[b] < max[b]
  /\ nextmbx \in Box
  /\ pc \in [Thread -> {"idle", "signal_table"} \cup SendSteps \cup
                       ReceiveSteps \cup AllocSteps \cup FreeSteps]
  /\ box \in [Thread -> Box]

\* Mailboxes that clients may use.
Open(b) == state[b] = "MAILBOX_ALLOC" /\ ~Using(b, FreeSteps)

\* The threads at a step of a call on b that have been through their wait().
Past(b, step) == {t \in Thread : At(t, step) /\ box[t] = b}

\* Every slot of an open mailbox is accounted for: it is offered by the
\* semaphore sender, claimed by a thread in mailboxSend(), holds a message, or
\* is about to be offered again by a thread in mailboxReceive(); and likewise
\* every message by receiver.  Nothing is counted twice or lost, whatever the
\* interleaving of senders, receivers and kills of waiting threads.
SlotsAccounted ==
  \A b \in Box : Open(b) =>
    /\ value[sender[b]] + Cardinality(Past(b, "send_put")) + count[b]
         + Cardinality(Past(b, "receive_signal")) = max[b]
    /\ value[receiver[b]] + Cardinality(Past(b, "receive_take"))
         + Cardinality(Past(b, "send_signal")) = count[b]

\* mboxtabsem admits one thread at a time to the mailbox table.
OneEditor ==
  Cardinality({t \in Thread : pc[t] \in Editing /\ ~Blocked(t)}) <= 1

\* "return the this entry in the mboxtab": the caller of mailboxAlloc() is given the
\* mailbox that was set up for it, while threads allocate one after the other.
\* (With AllocTogether another thread may move nextmbx on before it is read.)
ReturnsOwn == \A t \in Thread : pc[t] = "alloc_return" => nextmbx = box[t]

\* A receiver waits for a mailbox that holds a message.
StuckReceiver(t) ==
  \E b \in Box : Open(b) /\ count[b] > 0 /\ Waits(t, receiver[b])

\* A sender waits for a mailbox that has room.
StuckSender(t) ==
  \E b \in Box : Open(b) /\ count[b] < max[b] /\ Waits(t, sender[b])

-----------------------------------------------------------------------------
(* The ring buffer of an allocated mailbox, oldest message first.          *)

Contents(b) == [i \in 1 .. count[b] |-> msgs[b][(start[b] + i - 1) % max[b]]]

C == INSTANCE Channels WITH
  Msg <- Msgs,
  capacity <- [b \in Box |-> IF state[b] = "MAILBOX_ALLOC" THEN max[b] ELSE 0],
  queue <- [b \in Box |->
              IF state[b] = "MAILBOX_ALLOC" THEN Contents(b) ELSE <<>>]

\* Mailboxes are bounded first-in first-out channels: no message is lost,
\* duplicated, overtaken or put into a full mailbox.
ChannelStep == [C!Next]_(C!vars)

=============================================================================
