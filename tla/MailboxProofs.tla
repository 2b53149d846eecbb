--------------------------- MODULE MailboxProofs ---------------------------
(***************************************************************************)
(* Mailboxes for every number of threads, semaphores and mailboxes:        *)
(* mboxtabsem admits one thread to the table, every slot and message is    *)
(* accounted for, and every step is a step of bounded first-in first-out   *)
(* channels.  MailboxInvariant has the invariant, the calls of the users   *)
(* and mailboxAlloc(); here are its failing paths and mailboxFree().       *)
(***************************************************************************)
EXTENDS MailboxInvariant, FiniteSetTheorems

\* A step that gives a semaphore of the thread's own mailbox back, or finds none.
LEMMA UnmakeStep ==
  ASSUME Premises, MailboxInv, NEW t \in Thread, Edits(t), OthersStay(t),
         NEW e \in Ends, NEW k \in Box, k = box[t], semfree(End(e, k)),
         ~Using(k, SendSteps \cup ReceiveSteps), ~Open(k), ~Open(k)',
         End(e, k) = BADSEM \/ Has(e, k),
         pc'[t] \in Editing \cup {"idle"}, pc'[t] \notin WaitSteps \cup {"alloc_sender"},
         pc'[t] \notin {"alloc_receiver", "alloc_set"},
         UNCHANGED <<state, sender, receiver, max, count, start, nextmbx>>,
         DOMAIN msgs' = Box,
         \A b \in Box : state[b] = "MAILBOX_ALLOC" => msgs'[b] = msgs[b],
         \A b \in Box \ {k} : Using(b, FreeSteps)' <=> Using(b, FreeSteps),
         \A f \in Ends, b \in Box : Has(f, b)' => Has(f, b) /\ ~(f = e /\ b = k),
         ThreadTypes', Phases'
  PROVE  MailboxInv'
<1>1. /\ SemTypes' /\ \A u \in Thread, z \in Sem : Waits(u, z)' <=> Waits(u, z)
      /\ value'[mboxtabsem] = value[mboxtabsem] /\ live'[mboxtabsem]
      /\ \A z \in Sem \ {End(e, k)} : live'[z] = live[z] /\ value'[z] = value[z]
  <2>1. CASE End(e, k) = BADSEM
    <3>1. UNCHANGED <<live, value, waiting>>
      BY <2>1, Zenon DEF semfree, isbadsem, semvars, Premises, Assumptions
    <3> QED BY <3>1, Zenon DEF MailboxInv, SemTypes, TableLocked, Waits
  <2>2. CASE Has(e, k)
    <3>1. PICK s \in Sem : s = End(e, k)
      BY <2>2, Zenon DEF MailboxInv, OwnSemaphores
    <3> QED BY <2>2, <3>1, SemfreeDoes
  <2> QED BY <2>1, <2>2, Zenon
<1>2. /\ WaitsWhere' /\ TableLocked'
      /\ \A u \in Thread : Blocked(u)' <=> Blocked(u)
      /\ pc[t] \notin SendSteps \cup ReceiveSteps
      /\ pc'[t] \notin SendSteps \cup ReceiveSteps
  BY <1>1, EditorStep, Zenon
<1>3. BoxTypes' /\ Rings'
  BY Zenon DEF MailboxInv, BoxTypes, Rings
<1>4. OwnSemaphores'
  <2>1. ASSUME NEW f \in Ends, NEW b \in Box, Has(f, b)'
        PROVE  Has(f, b) /\ End(f, b)' = End(f, b) /\ live'[End(f, b)]
    <3>1. Has(f, b) /\ ~(f = e /\ b = k)
      BY <2>1, Zenon
    <3>2. End(f, b)' = End(f, b)
      BY Zenon DEF End
    <3>3. End(f, b) \in Sem /\ live[End(f, b)] /\ End(f, b) # BADSEM
      BY <3>1 DEF MailboxInv, OwnSemaphores, Premises, Assumptions
    <3>4. End(f, b) # End(e, k)
      BY <3>1, <3>3 DEF MailboxInv, OwnSemaphores
    <3> QED BY <1>1, <3>1, <3>2, <3>3, <3>4, Zenon
  <2> QED BY <2>1, OwnFewer, Zenon
<1>5. Made'
  <2>1. \A u \in Thread \ {t} : pc'[u] \notin Special
    BY EditorHas, Zenon
  <2>2. \A u \in Thread : pc'[u] \notin {"alloc_sender", "alloc_receiver", "alloc_set"}
    BY <2>1, Zenon DEF Special, Making
  <2> QED BY <2>2, Zenon DEF Made
<1>6. SlotsAccounted'
  <2>1. \A b \in Box : Open(b)' => Open(b) /\ b # k
    BY Zenon DEF Open
  <2>2. ASSUME NEW b \in Box, Open(b)
        PROVE  /\ value'[sender[b]] = value[sender[b]]
               /\ value'[receiver[b]] = value[receiver[b]]
    <3>1. /\ Has("sender", b) /\ Has("receiver", b) /\ sender[b] \in Sem /\ receiver[b] \in Sem
          /\ b # k
      BY <2>2, OpenHas, Zenon
    <3>2. "sender" \in Ends /\ "receiver" \in Ends
          /\ End("sender", b) = sender[b] /\ End("receiver", b) = receiver[b]
      BY Zenon DEF Ends, End
    <3>3. sender[b] # End(e, k) /\ receiver[b] # End(e, k)
      BY <3>1, <3>2 DEF MailboxInv, OwnSemaphores, Premises, Assumptions
    <3> QED BY <1>1, <3>1, <3>3, Zenon
  <2> QED BY <1>2, <2>1, <2>2, EditorSlots, Zenon
<1> QED BY <1>1, <1>2, <1>3, <1>4, <1>5, <1>6, Zenon DEF MailboxInv

\* The mailbox that a thread edits, as the steps that unmake it see it.
LEMMA Unmaking ==
  ASSUME Premises, MailboxInv, NEW t \in Thread, ~Blocked(t),
         pc[t] \in {"alloc_undo_sender", "alloc_undo_receiver", "free_sender",
                    "free_receiver", "free_set"}
  PROVE  /\ Edits(t) /\ box[t] \in Box /\ ~Open(box[t])
         /\ ~Using(box[t], SendSteps \cup ReceiveSteps)
         /\ \A u \in Thread \ {t} : pc[u] \in FreeSteps => box[u] # box[t]
         /\ state[box[t]] = IF pc[t] \in FreeSteps THEN "MAILBOX_ALLOC" ELSE "MAILBOX_FREE"
<1>1. Edits(t) /\ box[t] \in Box
  BY Zenon DEF Edits, Editing, AllocSteps, FreeSteps, MailboxInv, ThreadTypes
<1>2. CASE pc[t] \in FreeSteps
  <2>1. state[box[t]] = "MAILBOX_ALLOC"
    BY <1>2, Zenon DEF MailboxInv, Phases
  <2>2. \A u \in Thread \ {t} :
          pc[u] \in SendSteps \cup ReceiveSteps \cup FreeSteps => box[u] # box[t]
    BY <1>2, Zenon DEF MailboxInv, Phases
  <2>3. pc[t] \notin SendSteps \cup ReceiveSteps
    BY <1>2, Zenon DEF SendSteps, ReceiveSteps, FreeSteps
  <2> QED BY <1>1, <1>2, <2>1, <2>2, <2>3, Zenon DEF Using, Open
<1>3. CASE pc[t] \notin FreeSteps
  <2>1. pc[t] \in Making
    BY <1>3, Zenon DEF FreeSteps, Making
  <2>2. state[box[t]] = "MAILBOX_FREE"
    BY <2>1, Zenon DEF MailboxInv, Phases
  <2>3. \A u \in Thread :
          pc[u] \in SendSteps \cup ReceiveSteps \cup FreeSteps => box[u] # box[t]
    BY <2>2, Zenon DEF MailboxInv, Phases
  <2> QED BY <1>1, <1>3, <2>2, <2>3, Zenon DEF Using, Open
<1> QED BY <1>2, <1>3, Zenon

\* A mailbox that could not be made gives the first semaphore back.
LEMMA UndoSenderKeeps ==
  ASSUME Premises, MailboxInv, NEW t \in Thread, alloc_undo_sender(t)
  PROVE  MailboxInv'
<1>1. /\ pc[t] = "alloc_undo_sender" /\ ~Blocked(t) /\ semfree(sender[box[t]])
      /\ msgs' = [msgs EXCEPT ![box[t]] = <<>>] /\ Go(t, "alloc_undo_receiver")
      /\ UNCHANGED <<state, sender, receiver, max, count, start, nextmbx>>
  BY Zenon DEF alloc_undo_sender, At
<1>2. /\ Edits(t) /\ box[t] \in Box /\ ~Open(box[t])
      /\ ~Using(box[t], SendSteps \cup ReceiveSteps)
      /\ \A u \in Thread \ {t} : pc[u] \in FreeSteps => box[u] # box[t]
      /\ state[box[t]] = IF pc[t] \in FreeSteps THEN "MAILBOX_ALLOC" ELSE "MAILBOX_FREE"
  BY <1>1, Unmaking, Zenon
<1>3. PICK k \in Box : k = box[t] /\ state[k] = "MAILBOX_FREE"
  BY <1>1, <1>2, Zenon DEF FreeSteps
<1>4. /\ OthersStay(t) /\ pc'[t] = "alloc_undo_receiver" /\ box'[t] = k
      /\ pc' \in [Thread -> Steps] /\ box' \in [Thread -> Box] /\ DOMAIN arg' = Thread
  BY <1>1, <1>3, GoEffect, Zenon DEF MailboxInv, Steps, AllocSteps
<1>5. ThreadTypes'
  BY <1>4, Zenon DEF MailboxInv, ThreadTypes, OthersStay
<1>6. Phases'
  BY <1>1, <1>3, <1>4, PhasesKept, Zenon DEF SendSteps, ReceiveSteps, FreeSteps
<1>7. PICK e \in Ends : e = "sender"
  BY Zenon DEF Ends
<1>8. End(e, k) = sender[k]
  BY <1>7, Zenon DEF End
<1>9. /\ \A f \in Ends, b \in Box : Has(f, b) <=> HasFor(t, f, b)
      /\ \A f \in Ends, b \in Box : Has(f, b)' <=> HasFor(t, f, b)'
  BY <1>2, <1>4, EditorHas, Zenon
<1>10. End(e, k) = BADSEM \/ Has(e, k)
  BY <1>1, <1>3, <1>7, <1>8, <1>9, Zenon DEF HasFor
<1>11. \A f \in Ends, b \in Box : Has(f, b)' => Has(f, b) /\ ~(f = e /\ b = k)
  BY <1>1, <1>3, <1>4, <1>7, <1>9 DEF HasFor, Ends
<1>12. /\ DOMAIN msgs' = Box /\ ~Open(k)'
       /\ \A b \in Box : state[b] = "MAILBOX_ALLOC" => msgs'[b] = msgs[b]
  BY <1>1, <1>3, Zenon DEF MailboxInv, BoxTypes, Open
<1>13. \A b \in Box \ {k} : Using(b, FreeSteps)' <=> Using(b, FreeSteps)
  BY <1>3, <1>4, Zenon DEF Using, OthersStay
<1>14. /\ pc'[t] \in Editing \cup {"idle"} /\ pc'[t] \notin WaitSteps \cup {"alloc_sender"}
       /\ pc'[t] \notin {"alloc_receiver", "alloc_set"}
  BY <1>4, Zenon DEF Editing, AllocSteps, WaitSteps
<1>15. /\ Edits(t) /\ k = box[t] /\ semfree(End(e, k)) /\ ~Open(k)
       /\ ~Using(k, SendSteps \cup ReceiveSteps)
       /\ UNCHANGED <<state, sender, receiver, max, count, start, nextmbx>>
  BY <1>1, <1>2, <1>3, <1>8, Zenon
<1> QED BY <1>15, <1>4, <1>5, <1>6, <1>10, <1>11, <1>12, <1>13, <1>14, UnmakeStep, Zenon

\* Then the second one; mboxtabsem is not signalled.
LEMMA UndoReceiverKeeps ==
  ASSUME Premises, MailboxInv, NEW t \in Thread, alloc_undo_receiver(t)
  PROVE  MailboxInv'
<1>1. /\ pc[t] = "alloc_undo_receiver" /\ ~Blocked(t) /\ semfree(receiver[box[t]])
      /\ Return(t) /\ UNCHANGED <<state, sender, receiver, max, count, start, msgs, nextmbx>>
  BY Zenon DEF alloc_undo_receiver, At, Leave, mboxtab
<1>2. /\ Edits(t) /\ box[t] \in Box /\ ~Open(box[t])
      /\ ~Using(box[t], SendSteps \cup ReceiveSteps)
      /\ \A u \in Thread \ {t} : pc[u] \in FreeSteps => box[u] # box[t]
      /\ state[box[t]] = IF pc[t] \in FreeSteps THEN "MAILBOX_ALLOC" ELSE "MAILBOX_FREE"
  BY <1>1, Unmaking, Zenon
<1>3. PICK k \in Box : k = box[t] /\ state[k] = "MAILBOX_FREE"
  BY <1>1, <1>2, Zenon DEF FreeSteps
<1>4. OthersStay(t) /\ pc'[t] = "idle" /\ ThreadTypes'
  BY <1>1, ReturnEffect, Zenon DEF MailboxInv
<1>5. Phases'
  BY <1>1, <1>4, PhasesKept, Zenon DEF SendSteps, ReceiveSteps, FreeSteps, Making
<1>6. PICK e \in Ends : e = "receiver"
  BY Zenon DEF Ends
<1>7. End(e, k) = receiver[k]
  BY <1>6, Zenon DEF End
<1>8. /\ \A f \in Ends, b \in Box : Has(f, b) <=> HasFor(t, f, b)
      /\ \A f \in Ends, b \in Box : Has(f, b)' <=> HasFor(t, f, b)'
  BY <1>2, <1>4, EditorHas, Zenon
<1>9. End(e, k) = BADSEM \/ Has(e, k)
  BY <1>1, <1>3, <1>6, <1>7, <1>8, Zenon DEF HasFor
<1>10. \A f \in Ends, b \in Box : Has(f, b)' => Has(f, b) /\ ~(f = e /\ b = k)
  BY <1>1, <1>3, <1>4, <1>6, <1>8, Zenon DEF HasFor, Ends
<1>11. /\ DOMAIN msgs' = Box /\ ~Open(k)'
       /\ \A b \in Box : state[b] = "MAILBOX_ALLOC" => msgs'[b] = msgs[b]
  BY <1>1, <1>3, Zenon DEF MailboxInv, BoxTypes, Open
<1>12. \A b \in Box \ {k} : Using(b, FreeSteps)' <=> Using(b, FreeSteps)
  BY <1>1, <1>4, Zenon DEF Using, OthersStay, FreeSteps
<1>13. /\ pc'[t] \in Editing \cup {"idle"} /\ pc'[t] \notin WaitSteps \cup {"alloc_sender"}
       /\ pc'[t] \notin {"alloc_receiver", "alloc_set"}
  BY <1>4, Zenon DEF WaitSteps
<1>14. /\ Edits(t) /\ k = box[t] /\ semfree(End(e, k)) /\ ~Open(k)
       /\ ~Using(k, SendSteps \cup ReceiveSteps)
       /\ UNCHANGED <<state, sender, receiver, max, count, start, nextmbx>>
  BY <1>1, <1>2, <1>3, <1>7, Zenon
<1> QED BY <1>14, <1>4, <1>5, <1>9, <1>10, <1>11, <1>12, <1>13, UnmakeStep, Zenon

\* mailboxFree() gives the senders' semaphore back.
LEMMA FreeSenderKeeps ==
  ASSUME Premises, MailboxInv, NEW t \in Thread, free_sender(t)
  PROVE  MailboxInv'
<1>1. /\ pc[t] = "free_sender" /\ ~Blocked(t) /\ semfree(sender[box[t]])
      /\ Go(t, IF isbadsem(sender[box[t]]) THEN "signal_table" ELSE "free_receiver")
      /\ UNCHANGED <<state, sender, receiver, max, count, start, msgs, nextmbx>>
  BY Zenon DEF free_sender, At, Then, mboxtab
<1>2. /\ Edits(t) /\ box[t] \in Box /\ ~Open(box[t])
      /\ ~Using(box[t], SendSteps \cup ReceiveSteps)
      /\ \A u \in Thread \ {t} : pc[u] \in FreeSteps => box[u] # box[t]
      /\ state[box[t]] = IF pc[t] \in FreeSteps THEN "MAILBOX_ALLOC" ELSE "MAILBOX_FREE"
  BY <1>1, Unmaking, Zenon
<1>3. PICK k \in Box : k = box[t] /\ state[k] = "MAILBOX_ALLOC"
  BY <1>1, <1>2, Zenon DEF FreeSteps
<1>4. PICK e \in Ends : e = "sender"
  BY Zenon DEF Ends
<1>5. End(e, k) = sender[k]
  BY <1>4, Zenon DEF End
<1>6. Has(e, k)
  <2>1. ASSUME NEW u \in Thread, pc[u] \in {"free_receiver", "free_set"}, box[u] = k
        PROVE  FALSE
    BY <1>1, <1>2, <1>3, <2>1, Zenon DEF FreeSteps
  <2> QED BY <1>3, <1>4, <2>1, Zenon DEF Has, Using
<1>7. ~isbadsem(sender[k])
  BY <1>5, <1>6, Zenon DEF MailboxInv, OwnSemaphores, isbadsem
<1>8. /\ OthersStay(t) /\ pc'[t] = "free_receiver" /\ box'[t] = k
      /\ pc' \in [Thread -> Steps] /\ box' \in [Thread -> Box] /\ DOMAIN arg' = Thread
  <2>1. Go(t, "free_receiver") /\ "free_receiver" \in Steps
    BY <1>1, <1>3, <1>7, Zenon DEF Steps, FreeSteps
  <2> QED BY <1>3, <2>1, GoEffect, Zenon DEF MailboxInv
<1>9. ThreadTypes'
  BY <1>8, Zenon DEF MailboxInv, ThreadTypes, OthersStay
<1>10. Phases'
  BY <1>1, <1>3, <1>8, PhasesKept, Zenon DEF SendSteps, ReceiveSteps, FreeSteps, Making
<1>11. /\ \A f \in Ends, b \in Box : Has(f, b) <=> HasFor(t, f, b)
       /\ \A f \in Ends, b \in Box : Has(f, b)' <=> HasFor(t, f, b)'
  BY <1>2, <1>8, EditorHas, Zenon
<1>12. \A f \in Ends, b \in Box : Has(f, b)' => Has(f, b) /\ ~(f = e /\ b = k)
  BY <1>1, <1>3, <1>4, <1>8, <1>11, Zenon DEF HasFor, Ends
<1>13. /\ DOMAIN msgs' = Box /\ ~Open(k)'
       /\ \A b \in Box : state[b] = "MAILBOX_ALLOC" => msgs'[b] = msgs[b]
  BY <1>1, <1>8, Zenon DEF MailboxInv, BoxTypes, Open, Using, FreeSteps
<1>14. \A b \in Box \ {k} : Using(b, FreeSteps)' <=> Using(b, FreeSteps)
  BY <1>3, <1>8, Zenon DEF Using, OthersStay
<1>15. /\ pc'[t] \in Editing \cup {"idle"} /\ pc'[t] \notin WaitSteps \cup {"alloc_sender"}
       /\ pc'[t] \notin {"alloc_receiver", "alloc_set"}
  BY <1>8, Zenon DEF Editing, FreeSteps, WaitSteps
<1>16. /\ Edits(t) /\ k = box[t] /\ semfree(End(e, k)) /\ ~Open(k)
       /\ ~Using(k, SendSteps \cup ReceiveSteps)
       /\ UNCHANGED <<state, sender, receiver, max, count, start, nextmbx>>
  BY <1>1, <1>2, <1>3, <1>5, Zenon
<1> QED BY <1>16, <1>6, <1>8, <1>9, <1>10, <1>12, <1>13, <1>14, <1>15, UnmakeStep, Zenon

\* Then the receivers' semaphore.
LEMMA FreeReceiverKeeps ==
  ASSUME Premises, MailboxInv, NEW t \in Thread, free_receiver(t)
  PROVE  MailboxInv'
<1>1. /\ pc[t] = "free_receiver" /\ ~Blocked(t) /\ semfree(receiver[box[t]])
      /\ Go(t, IF isbadsem(receiver[box[t]]) THEN "signal_table" ELSE "free_set")
      /\ UNCHANGED <<state, sender, receiver, max, count, start, msgs, nextmbx>>
  BY Zenon DEF free_receiver, At, Then, mboxtab
<1>2. /\ Edits(t) /\ box[t] \in Box /\ ~Open(box[t])
      /\ ~Using(box[t], SendSteps \cup ReceiveSteps)
      /\ \A u \in Thread \ {t} : pc[u] \in FreeSteps => box[u] # box[t]
      /\ state[box[t]] = IF pc[t] \in FreeSteps THEN "MAILBOX_ALLOC" ELSE "MAILBOX_FREE"
  BY <1>1, Unmaking, Zenon
<1>3. PICK k \in Box : k = box[t] /\ state[k] = "MAILBOX_ALLOC"
  BY <1>1, <1>2, Zenon DEF FreeSteps
<1>4. PICK e \in Ends : e = "receiver"
  BY Zenon DEF Ends
<1>5. End(e, k) = receiver[k]
  BY <1>4, Zenon DEF End
<1>6. Has(e, k)
  <2>1. ASSUME NEW u \in Thread, pc[u] = "free_set", box[u] = k
        PROVE  FALSE
    BY <1>1, <1>2, <1>3, <2>1, Zenon DEF FreeSteps
  <2> QED BY <1>3, <1>4, <2>1, Zenon DEF Has, Using
<1>7. ~isbadsem(receiver[k])
  BY <1>5, <1>6, Zenon DEF MailboxInv, OwnSemaphores, isbadsem
<1>8. /\ OthersStay(t) /\ pc'[t] = "free_set" /\ box'[t] = k
      /\ pc' \in [Thread -> Steps] /\ box' \in [Thread -> Box] /\ DOMAIN arg' = Thread
  <2>1. Go(t, "free_set") /\ "free_set" \in Steps
    BY <1>1, <1>3, <1>7, Zenon DEF Steps, FreeSteps
  <2> QED BY <1>3, <2>1, GoEffect, Zenon DEF MailboxInv
<1>9. ThreadTypes'
  BY <1>8, Zenon DEF MailboxInv, ThreadTypes, OthersStay
<1>10. Phases'
  BY <1>1, <1>3, <1>8, PhasesKept, Zenon DEF SendSteps, ReceiveSteps, FreeSteps, Making
<1>11. /\ \A f \in Ends, b \in Box : Has(f, b) <=> HasFor(t, f, b)
       /\ \A f \in Ends, b \in Box : Has(f, b)' <=> HasFor(t, f, b)'
  BY <1>2, <1>8, EditorHas, Zenon
<1>12. \A f \in Ends, b \in Box : Has(f, b)' => Has(f, b) /\ ~(f = e /\ b = k)
  BY <1>1, <1>3, <1>4, <1>8, <1>11, Zenon DEF HasFor, Ends
<1>13. /\ DOMAIN msgs' = Box /\ ~Open(k)'
       /\ \A b \in Box : state[b] = "MAILBOX_ALLOC" => msgs'[b] = msgs[b]
  BY <1>1, <1>8, Zenon DEF MailboxInv, BoxTypes, Open, Using, FreeSteps
<1>14. \A b \in Box \ {k} : Using(b, FreeSteps)' <=> Using(b, FreeSteps)
  BY <1>3, <1>8, Zenon DEF Using, OthersStay
<1>15. /\ pc'[t] \in Editing \cup {"idle"} /\ pc'[t] \notin WaitSteps \cup {"alloc_sender"}
       /\ pc'[t] \notin {"alloc_receiver", "alloc_set"}
  BY <1>8, Zenon DEF Editing, FreeSteps, WaitSteps
<1>16. /\ Edits(t) /\ k = box[t] /\ semfree(End(e, k)) /\ ~Open(k)
       /\ ~Using(k, SendSteps \cup ReceiveSteps)
       /\ UNCHANGED <<state, sender, receiver, max, count, start, nextmbx>>
  BY <1>1, <1>2, <1>3, <1>5, Zenon
<1> QED BY <1>16, <1>6, <1>8, <1>9, <1>10, <1>12, <1>13, <1>14, <1>15, UnmakeStep, Zenon

\* Then the entry itself.
LEMMA FreeSetKeeps ==
  ASSUME Premises, MailboxInv, NEW t \in Thread, free_set(t)
  PROVE  MailboxInv'
<1>1. /\ pc[t] = "free_set" /\ ~Blocked(t) /\ Go(t, "signal_table")
      /\ msgs' = [msgs EXCEPT ![box[t]] = [i \in DOMAIN msgs[box[t]] |-> GARBAGE]]
      /\ state' = [state EXCEPT ![box[t]] = "MAILBOX_FREE"]
      /\ UNCHANGED <<live, value, waiting, sender, receiver, max, count, start, nextmbx>>
  BY Zenon DEF free_set, At, semvars
<1>2. /\ Edits(t) /\ box[t] \in Box /\ ~Open(box[t])
      /\ ~Using(box[t], SendSteps \cup ReceiveSteps)
      /\ \A u \in Thread \ {t} : pc[u] \in FreeSteps => box[u] # box[t]
      /\ state[box[t]] = IF pc[t] \in FreeSteps THEN "MAILBOX_ALLOC" ELSE "MAILBOX_FREE"
  BY <1>1, Unmaking, Zenon
<1>3. PICK k \in Box : k = box[t]
  BY <1>2, Zenon
<1>4. /\ OthersStay(t) /\ pc'[t] = "signal_table" /\ box'[t] = k
      /\ pc' \in [Thread -> Steps] /\ box' \in [Thread -> Box] /\ DOMAIN arg' = Thread
  BY <1>1, <1>3, GoEffect, Zenon DEF MailboxInv, Steps
<1>5. /\ BoxTypes' /\ state'[k] = "MAILBOX_FREE"
      /\ \A b \in Box \ {k} : state'[b] = state[b] /\ msgs'[b] = msgs[b]
  BY <1>1, <1>3, Zenon DEF MailboxInv, BoxTypes
<1>6. SemTypes' /\ \A u \in Thread, z \in Sem : Waits(u, z)' <=> Waits(u, z)
  BY <1>1, Zenon DEF MailboxInv, SemTypes, Waits
<1>7. pc'[t] \in Editing \cup {"idle"} /\ pc'[t] \notin WaitSteps
  BY <1>4, Zenon DEF Editing, WaitSteps
<1>8. value'[mboxtabsem] = value[mboxtabsem] /\ live'[mboxtabsem]
  BY <1>1, Zenon DEF MailboxInv, TableLocked
<1>9. /\ WaitsWhere' /\ TableLocked'
      /\ \A u \in Thread : Blocked(u)' <=> Blocked(u)
      /\ pc[t] \notin SendSteps \cup ReceiveSteps
      /\ pc'[t] \notin SendSteps \cup ReceiveSteps
  BY <1>1, <1>2, <1>4, <1>6, <1>7, <1>8, EditorStep, Zenon
<1>10. ThreadTypes'
  BY <1>4, Zenon DEF MailboxInv, ThreadTypes, OthersStay
<1>11. /\ \A e \in Ends, b \in Box : Has(e, b) <=> HasFor(t, e, b)
       /\ \A e \in Ends, b \in Box : Has(e, b)' <=> HasFor(t, e, b)'
       /\ \A u \in Thread \ {t} : pc[u] \notin Special /\ pc'[u] \notin Special
  BY <1>2, <1>4, EditorHas, Zenon
<1>12. \A u \in Thread : pc'[u] \notin Making
  BY <1>4, <1>11, Zenon DEF Special, Making
<1>13. \A u \in Thread : pc'[u] \in SendSteps \cup ReceiveSteps \cup FreeSteps =>
         /\ u # t /\ pc'[u] = pc[u] /\ box'[u] = box[u] /\ box[u] # k
         /\ state[box[u]] = "MAILBOX_ALLOC" /\ box[u] \in Box
  BY <1>2, <1>3, <1>4 DEF OthersStay, SendSteps, ReceiveSteps, FreeSteps, Using, MailboxInv,
                          Phases, ThreadTypes
<1>14. Phases'
  <2>1. ASSUME NEW u \in Thread, pc'[u] \in FreeSteps, NEW w \in Thread \ {u},
               pc'[w] \in SendSteps \cup ReceiveSteps \cup FreeSteps
        PROVE  box'[w] # box'[u]
    BY <1>13, <2>1 DEF MailboxInv, Phases
  <2> QED BY <1>5, <1>12, <1>13, <2>1 DEF Phases
<1>15. OwnSemaphores'
  <2>1. ASSUME NEW e \in Ends, NEW b \in Box, Has(e, b)'
        PROVE  Has(e, b) /\ End(e, b)' = End(e, b) /\ live'[End(e, b)]
    <3>1. HasFor(t, e, b)'
      BY <1>11, <2>1, Zenon
    <3>2. HasFor(t, e, b) /\ End(e, b)' = End(e, b)
      BY <1>1, <1>3, <1>4, <1>5, <3>1 DEF HasFor, End, Ends
    <3>3. live[End(e, b)]
      BY <1>11, <3>2, Zenon DEF MailboxInv, OwnSemaphores
    <3> QED BY <1>1, <1>11, <3>2, <3>3, Zenon
  <2> QED BY <2>1, OwnFewer, Zenon
<1>16. Made'
  BY <1>12, Zenon DEF Made, Making
<1>17. Rings'
  BY <1>1, <1>5, Zenon DEF MailboxInv, Rings
<1>18. SlotsAccounted'
  <2>1. \A b \in Box : Open(b)' => Open(b)
    BY <1>3, <1>4, <1>5 DEF Open, Using, OthersStay
  <2> QED BY <1>1, <1>4, <1>9, <2>1, EditorSlots, Zenon
<1> QED BY <1>5, <1>6, <1>9, <1>10, <1>14, <1>15, <1>16, <1>17, <1>18, Zenon DEF MailboxInv

(***************************************************************************)
(* The invariant holds at the start and every step keeps it.               *)
(***************************************************************************)

\* After mailboxInit() nobody is in a call and no mailbox is allocated.
LEMMA InitMailbox ==
  ASSUME Premises, Init
  PROVE  MailboxInv
<1>1. SemTypes
  BY DEF Init, SemTypes, NoDuplicates
<1>2. BoxTypes /\ 0 \in Box
  BY DEF Init, BoxTypes, Box, Premises, Assumptions
<1>3. \A t \in Thread : pc[t] = "idle"
  BY Zenon DEF Init
<1>4. \A s \in Sem, t \in Thread : ~Waits(t, s)
  <2>1. \A s \in Sem : waiting[s] = <<>> /\ Len(<<>>) = 0
    BY Zenon DEF Init
  <2> QED BY <2>1 DEF Waits
<1>5. ThreadTypes
  <2>1. pc \in [Thread -> Steps]
    BY Zenon DEF Init, Steps
  <2>2. box \in [Thread -> Box] /\ DOMAIN arg = Thread
    BY <1>2, Zenon DEF Init
  <2> QED BY <1>3, <2>1, <2>2, Zenon DEF ThreadTypes
<1>6. WaitsWhere
  BY <1>4, Zenon DEF WaitsWhere
<1>7. TableLocked
  <2>1. live[mboxtabsem] /\ value[mboxtabsem] = 1
    BY Zenon DEF Init, Premises, Assumptions
  <2>2. \A t \in Thread : ~Edits(t)
    BY <1>3, Zenon DEF Edits, Editing, AllocSteps, FreeSteps
  <2> QED BY <2>1, <2>2 DEF TableLocked
<1>8. Phases
  BY <1>3, Zenon DEF Phases, SendSteps, ReceiveSteps, FreeSteps, Making
<1>9. \A b \in Box : state[b] # "MAILBOX_ALLOC"
  BY Zenon DEF Init
<1>10. OwnSemaphores
  <2>1. \A e \in Ends, b \in Box : ~Has(e, b)
    BY <1>3, <1>9, Zenon DEF Has, Using
  <2> QED BY <2>1, Zenon DEF OwnSemaphores
<1>11. Made
  BY <1>3, Zenon DEF Made
<1>12. Rings /\ SlotsAccounted
  BY <1>9, Zenon DEF Rings, SlotsAccounted, Open
<1> QED BY <1>1, <1>2, <1>5, <1>6, <1>7, <1>8, <1>10, <1>11, <1>12, Zenon DEF MailboxInv

\* Every step keeps the invariant.
LEMMA NextMailbox ==
  ASSUME Premises, MailboxInv, [Next]_vars
  PROVE  MailboxInv'
<1>1. ASSUME NEW t \in Thread,
             \/ mailboxSend(t) \/ mailboxReceive(t) \/ mailboxAlloc(t) \/ mailboxFree(t)
             \/ Continue(t) \/ kill(t)
      PROVE  MailboxInv'
  <2>1. CASE mailboxSend(t) \/ mailboxReceive(t) \/ mailboxAlloc(t) \/ mailboxFree(t)
    BY <2>1, CallsKeep, Zenon
  <2>2. CASE kill(t)
    BY <2>2, KillKeeps, Zenon
  <2>3. CASE Continue(t)
    <3>1. CASE send_wait(t) \/ send_put(t) \/ send_signal(t)
      BY <3>1, SendWaitKeeps, SendPutKeeps, SendSignalKeeps, Zenon
    <3>2. CASE receive_wait(t) \/ receive_take(t) \/ receive_signal(t)
      BY <3>2, ReceiveWaitKeeps, ReceiveTakeKeeps, ReceiveSignalKeeps, Zenon
    <3>3. CASE alloc_wait(t) \/ free_wait(t)
      BY <3>3, TableWaitKeeps, Zenon
    <3>4. CASE alloc_signal(t) \/ signal_table(t)
      BY <3>4, TableSignalKeeps, Zenon
    <3>5. CASE alloc_scan(t) \/ alloc_sender(t) \/ alloc_receiver(t)
      BY <3>5, AllocScanKeeps, AllocSenderKeeps, AllocReceiverKeeps, Zenon
    <3>6. CASE alloc_set(t) \/ alloc_return(t)
      BY <3>6, AllocSetKeeps, AllocReturnKeeps, Zenon
    <3>7. CASE alloc_undo_sender(t) \/ alloc_undo_receiver(t)
      BY <3>7, UndoSenderKeeps, UndoReceiverKeeps, Zenon
    <3>8. CASE free_sender(t) \/ free_receiver(t) \/ free_set(t)
      BY <3>8, FreeSenderKeeps, FreeReceiverKeeps, FreeSetKeeps, Zenon
    <3> QED BY <2>3, <3>1, <3>2, <3>3, <3>4, <3>5, <3>6, <3>7, <3>8, Zenon DEF Continue
  <2> QED BY <1>1, <2>1, <2>2, <2>3, Zenon
<1>2. CASE UNCHANGED vars
  <2>1. UNCHANGED <<live, value, waiting, state, sender, receiver, max, count, start, msgs,
                    nextmbx, pc, box, arg>>
    BY <1>2, Zenon DEF vars, semvars, mboxtab
  <2>2. SemTypes' /\ BoxTypes' /\ ThreadTypes'
    BY <2>1, Zenon DEF MailboxInv, SemTypes, BoxTypes, ThreadTypes
  <2>3. WaitsWhere' /\ TableLocked' /\ Phases'
    BY <2>1 DEF MailboxInv, WaitsWhere, Waits, Awaited, TableLocked, Edits, Blocked, Phases
  <2>4. OwnSemaphores' /\ Made' /\ Rings'
    BY <2>1 DEF MailboxInv, OwnSemaphores, Has, End, Using, Made, Rings
  <2>5. SlotsAccounted'
    BY <2>1 DEF MailboxInv, SlotsAccounted, Open, Using, Past, At, Blocked, Waits
  <2> QED BY <2>2, <2>3, <2>4, <2>5, Zenon DEF MailboxInv
<1> QED BY <1>1, <1>2, Zenon DEF Next

(***************************************************************************)
(* Mailboxes as channels.                                                  *)
(***************************************************************************)

\* The channels that the mailboxes implement.
Capacity == [b \in Box |-> IF state[b] = "MAILBOX_ALLOC" THEN max[b] ELSE 0]

Queue == [b \in Box |-> IF state[b] = "MAILBOX_ALLOC" THEN Contents(b) ELSE <<>>]

\* The messages of an allocated mailbox are a sequence, however the ring lies.
LEMMA ContentsIs ==
  ASSUME MailboxInv, NEW b \in Box, state[b] = "MAILBOX_ALLOC"
  PROVE  /\ Contents(b) \in Seq(Msgs \cup {GARBAGE}) /\ Len(Contents(b)) = count[b]
         /\ \A i \in 1 .. count[b] :
              Contents(b)[i] = msgs[b][(start[b] + i - 1) % max[b]]
<1>1. /\ max[b] \in Nat \ {0} /\ start[b] \in Nat /\ count[b] \in Nat
      /\ msgs[b] \in [0 .. max[b] - 1 -> Msgs \cup {GARBAGE}]
  BY Zenon DEF MailboxInv, Rings, BoxTypes
<1>2. ASSUME NEW i \in 1 .. count[b]
      PROVE  msgs[b][(start[b] + i - 1) % max[b]] \in Msgs \cup {GARBAGE}
  <2>1. PICK m \in Nat \ {0}, x \in Nat : m = max[b] /\ x = start[b] + i - 1
    BY <1>1
  <2>2. x % m \in 0 .. m - 1
    BY Modulo, Zenon
  <2> QED BY <1>1, <2>1, <2>2, Zenon
<1>3. Contents(b) \in [1 .. count[b] -> Msgs \cup {GARBAGE}]
  BY <1>2, Zenon DEF Contents
<1>4. \A i \in 1 .. count[b] :
        Contents(b)[i] = msgs[b][(start[b] + i - 1) % max[b]]
  BY Zenon DEF Contents
<1>5. PICK f, n : f = Contents(b) /\ n = count[b]
  BY Zenon
<1>6. f \in Seq(Msgs \cup {GARBAGE}) /\ Len(f) = n
  BY <1>1, <1>3, <1>5, QueueOf, Zenon
<1> QED BY <1>4, <1>5, <1>6, Zenon

\* Different messages have different places in the ring.
LEMMA RingPlaces ==
  ASSUME NEW m \in Nat \ {0}, NEW s \in 0 .. m - 1, NEW j \in Nat, NEW n \in Nat, j < n, n < m
  PROVE  (s + j) % m # (s + n) % m
<1>1. s + j \in Nat /\ s + n \in Nat /\ s + j < 2 * m /\ s + n < 2 * m /\ m <= 2 * m
  OBVIOUS
<1>2. PICK x \in Nat, y \in Nat : x = s + j /\ y = s + n
  BY <1>1, Zenon
<1>3. /\ x < m => x % m = x
      /\ m <= x /\ x < 2 * m => x % m = x - m
      /\ y < m => y % m = y
      /\ m <= y /\ y < 2 * m => y % m = y - m
  BY Modulo, Zenon
<1>4. PICK p, q : p = x % m /\ q = y % m
  BY Zenon
<1> QED BY <1>1, <1>2, <1>3, <1>4

\* The places behind the oldest message are those of the ring that starts there.
LEMMA RingBehind ==
  ASSUME NEW m \in Nat \ {0}, NEW s \in 0 .. m - 1, NEW j \in 0 .. m - 1
  PROVE  (((s + 1) % m) + j) % m = (s + 1 + j) % m
<1>1. CASE s + 1 < m
  <2>1. PICK x \in Nat : x = s + 1
    OBVIOUS
  <2>2. x % m = x
    BY <1>1, <2>1, Modulo, Zenon
  <2> QED BY <2>1, <2>2, Zenon
<1>2. CASE s + 1 = m
  <2>1. m % m = 0
    BY Modulo
  <2>2. PICK y \in Nat : y = m + j
    OBVIOUS
  <2>3. y % m = j /\ j % m = j
    BY <2>2, Modulo
  <2> QED BY <1>2, <2>1, <2>2, <2>3
<1> QED BY <1>1, <1>2

\* A step that changes no allocated mailbox changes no channel.
LEMMA ChannelsStay ==
  ASSUME MailboxInv, state' = state,
         \A b \in Box : state[b] = "MAILBOX_ALLOC" =>
           /\ max'[b] = max[b] /\ count'[b] = count[b]
           /\ start'[b] = start[b] /\ msgs'[b] = msgs[b]
  PROVE  ChannelStep
<1>1. Capacity' = Capacity
  BY Zenon DEF Capacity
<1>2. Queue' = Queue
  BY Zenon DEF Queue, Contents
<1>3. UNCHANGED C!vars
  BY <1>1, <1>2, Zenon DEF C!vars, Capacity, Queue
<1> QED BY <1>3, Zenon DEF ChannelStep

\* A message that mailboxSend() stores becomes the last of the channel.
LEMMA PutIsPut ==
  ASSUME Premises, MailboxInv, MailboxInv', NEW t \in Thread, send_put(t)
  PROVE  ChannelStep
<1>1. arg[t] \in Msgs /\ UNCHANGED <<state, max, start>>
  BY PutEffect, Zenon DEF send_put
<1>2. PICK c \in Box :
        /\ state[c] = "MAILBOX_ALLOC"
        /\ count[c] \in Nat /\ start[c] \in Nat /\ max[c] \in Nat \ {0}
        /\ start[c] < max[c] /\ count[c] < max[c]
        /\ count' = [count EXCEPT ![c] = count[c] + 1]
        /\ \E i \in 0 .. max[c] - 1 :
             /\ i = (start[c] + count[c]) % max[c]
             /\ msgs' = [msgs EXCEPT ![c] = [msgs[c] EXCEPT ![i] = arg[t]]]
  BY PutEffect, Zenon
<1>3. PICK p \in 0 .. max[c] - 1 :
        /\ p = (start[c] + count[c]) % max[c]
        /\ msgs' = [msgs EXCEPT ![c] = [msgs[c] EXCEPT ![p] = arg[t]]]
  BY <1>2, Zenon
<1>4. /\ \A b \in Box \ {c} : count'[b] = count[b] /\ msgs'[b] = msgs[b]
      /\ count'[c] = count[c] + 1 /\ state'[c] = "MAILBOX_ALLOC"
      /\ msgs'[c] = [msgs[c] EXCEPT ![p] = arg[t]]
      /\ msgs[c] \in [0 .. max[c] - 1 -> Msgs \cup {GARBAGE}]
  BY <1>1, <1>2, <1>3, Zenon DEF MailboxInv, BoxTypes, Rings
<1>5. PICK q, r : q = Contents(c) /\ r = Contents(c)'
  BY Zenon
<1>6. /\ q \in Seq(Msgs \cup {GARBAGE}) /\ Len(q) = count[c]
      /\ \A i \in 1 .. count[c] : q[i] = msgs[c][(start[c] + i - 1) % max[c]]
  BY <1>2, <1>5, ContentsIs, Zenon
<1>7. /\ r \in Seq(Msgs \cup {GARBAGE}) /\ Len(r) = count[c] + 1
      /\ \A i \in 1 .. count[c] + 1 : r[i] = msgs'[c][(start[c] + i - 1) % max[c]]
  <2>1. r = [i \in 1 .. count[c] + 1 |-> msgs'[c][(start[c] + i - 1) % max[c]]]
    BY <1>1, <1>4, <1>5, Zenon DEF Contents
  <2>2. ASSUME NEW i \in 1 .. count[c] + 1
        PROVE  msgs'[c][(start[c] + i - 1) % max[c]] \in Msgs \cup {GARBAGE}
    <3>1. PICK m \in Nat \ {0}, x \in Nat : m = max[c] /\ x = start[c] + i - 1
      BY <1>2
    <3>2. x % m \in 0 .. m - 1
      BY Modulo, Zenon
    <3> QED BY <1>1, <1>4, <3>1, <3>2, Zenon
  <2>3. r \in [1 .. count[c] + 1 -> Msgs \cup {GARBAGE}]
    BY <2>1, <2>2, Zenon
  <2>4. PICK n \in Nat : n = count[c] + 1
    BY <1>2
  <2>5. r \in Seq(Msgs \cup {GARBAGE}) /\ Len(r) = n
    BY <2>3, <2>4, QueueOf
  <2>6. \A i \in 1 .. count[c] + 1 : r[i] = msgs'[c][(start[c] + i - 1) % max[c]]
    BY <2>1, Zenon
  <2> QED BY <2>4, <2>5, <2>6, Zenon
<1>8. r = Append(q, arg[t])
  <2>1. PICK z : z = Append(q, arg[t])
    BY Zenon
  <2>2. /\ z \in Seq(Msgs \cup {GARBAGE}) /\ Len(z) = count[c] + 1
        /\ \A i \in 1 .. count[c] : z[i] = q[i]
        /\ z[count[c] + 1] = arg[t]
    BY <1>1, <1>6, <2>1
  <2>3. ASSUME NEW i \in 1 .. count[c] + 1
        PROVE  r[i] = z[i]
    <3>1. CASE i = count[c] + 1
      <4>1. r[i] = msgs'[c][p]
        BY <1>2, <1>3, <1>7, <3>1
      <4> QED BY <1>4, <2>2, <3>1, <4>1, Zenon
    <3>2. CASE i < count[c] + 1
      <4>1. PICK m \in Nat \ {0}, s \in Nat, j \in Nat, n \in Nat :
              /\ m = max[c] /\ s = start[c] /\ j = i - 1 /\ n = count[c]
              /\ s \in 0 .. m - 1 /\ j < n /\ n < m
        BY <1>2, <3>2
      <4>2. (s + j) % m # (s + n) % m
        BY <4>1, RingPlaces, Zenon
      <4>3. PICK x : x = (start[c] + i - 1) % max[c]
        BY Zenon
      <4>4. x # p /\ x \in 0 .. max[c] - 1
        <5>1. x = (s + j) % m
          BY <1>2, <4>1, <4>3, Zenon
        <5>2. s + j \in Nat
          OBVIOUS
        <5>3. (s + j) % m \in 0 .. m - 1
          BY <5>2, Modulo, Zenon
        <5> QED BY <1>3, <4>1, <4>2, <5>1, <5>3, Zenon
      <4>5. r[i] = msgs'[c][x] /\ q[i] = msgs[c][x] /\ z[i] = q[i]
        <5>1. i \in 1 .. count[c]
          BY <1>2, <3>2
        <5>2. q[i] = msgs[c][x]
          BY <1>6, <4>3, <5>1, Zenon
        <5>3. r[i] = msgs'[c][x]
          BY <1>7, <4>3, Zenon
        <5> QED BY <2>2, <5>1, <5>2, <5>3, Zenon
      <4> QED BY <1>4, <4>4, <4>5, Zenon
    <3> QED BY <1>2, <3>1, <3>2
  <2>4. r = z
    BY <1>2, <1>7, <2>2, <2>3, SameElements
  <2> QED BY <2>1, <2>4, Zenon
<1>9. Capacity' = Capacity
  BY <1>1, Zenon DEF Capacity
<1>10. Queue' = [Queue EXCEPT ![c] = Append(Queue[c], arg[t])]
  <2>1. \A b \in Box \ {c} : Queue'[b] = Queue[b]
    BY <1>1, <1>4, Zenon DEF Queue, Contents
  <2>2. Queue[c] = q /\ Queue'[c] = r
    BY <1>2, <1>4, <1>5, Zenon DEF Queue
  <2>3. DOMAIN Queue = Box /\ DOMAIN Queue' = Box /\ Queue' = [b \in Box |-> Queue'[b]]
        /\ Queue = [b \in Box |-> Queue[b]]
    BY Zenon DEF Queue
  <2> QED BY <1>8, <2>1, <2>2, <2>3, Zenon
<1>11. Len(Queue[c]) < Capacity[c]
  BY <1>2, <1>5, <1>6, Zenon DEF Queue, Capacity
<1>12. PICK m \in Msgs : m = arg[t]
  BY <1>1, Zenon
<1>13. C!Put(c, m)
  BY <1>9, <1>10, <1>11, <1>12, Zenon DEF C!Put, Queue, Capacity
<1>14. C!Next
  BY <1>13, Zenon DEF C!Next
<1> QED BY <1>14, Zenon DEF ChannelStep

\* The message that mailboxReceive() takes is the first of the channel.
LEMMA TakeIsTake ==
  ASSUME Premises, MailboxInv, MailboxInv', NEW t \in Thread, receive_take(t)
  PROVE  ChannelStep
<1>1. UNCHANGED <<state, max, msgs>>
  BY Zenon DEF receive_take
<1>2. PICK c \in Box :
        /\ state[c] = "MAILBOX_ALLOC"
        /\ count[c] \in Nat \ {0} /\ start[c] \in Nat /\ max[c] \in Nat \ {0}
        /\ start[c] < max[c] /\ count[c] <= max[c]
        /\ count' = [count EXCEPT ![c] = count[c] - 1]
        /\ start' = [start EXCEPT ![c] = (start[c] + 1) % max[c]]
  BY TakeEffect, Zenon
<1>3. /\ \A b \in Box \ {c} : count'[b] = count[b] /\ start'[b] = start[b]
      /\ count'[c] = count[c] - 1 /\ state'[c] = "MAILBOX_ALLOC"
      /\ start'[c] = (start[c] + 1) % max[c]
  BY <1>1, <1>2, Zenon DEF MailboxInv, BoxTypes
<1>4. PICK q, r : q = Contents(c) /\ r = Contents(c)'
  BY Zenon
<1>5. /\ q \in Seq(Msgs \cup {GARBAGE}) /\ Len(q) = count[c]
      /\ \A i \in 1 .. count[c] : q[i] = msgs[c][(start[c] + i - 1) % max[c]]
  BY <1>2, <1>4, ContentsIs, Zenon
<1>6. /\ DOMAIN r = 1 .. count[c] - 1 /\ r = [i \in 1 .. count[c] - 1 |-> r[i]]
      /\ \A i \in 1 .. count[c] - 1 :
           r[i] = msgs[c][(((start[c] + 1) % max[c]) + i - 1) % max[c]]
  BY <1>1, <1>3, <1>4, Zenon DEF Contents
<1>7. ASSUME NEW i \in 1 .. count[c] - 1
      PROVE  r[i] = q[i + 1]
  <2>1. PICK m \in Nat \ {0}, s \in Nat, j \in Nat :
          /\ m = max[c] /\ s = start[c] /\ j = i - 1
          /\ s \in 0 .. m - 1 /\ j \in 0 .. m - 1
    BY <1>2
  <2>2. (((s + 1) % m) + j) % m = (s + 1 + j) % m
    BY <2>1, RingBehind, Zenon
  <2>3. PICK a \in Nat : a = (s + 1) % m
    <3>1. PICK x \in Nat : x = s + 1
      OBVIOUS
    <3>2. x % m \in 0 .. m - 1
      BY Modulo, Zenon
    <3> QED BY <3>1, <3>2
  <2>4. r[i] = msgs[c][(a + j) % m]
    <3>1. a + i - 1 = a + j
      BY <2>1, Zenon
    <3> QED BY <1>6, <2>1, <2>3, <3>1, Zenon
  <2>5. q[i + 1] = msgs[c][(s + 1 + j) % m]
    <3>1. i + 1 \in 1 .. count[c] /\ s + (i + 1) - 1 = s + 1 + j
      BY <1>2, <2>1
    <3> QED BY <1>5, <2>1, <3>1, Zenon
  <2> QED BY <2>2, <2>3, <2>4, <2>5, Zenon
<1>8. r = Tail(q) /\ q # <<>>
  <2>1. q # <<>>
    BY <1>2, <1>5, Zenon
  <2>2. PICK z : z = Tail(q)
    BY Zenon
  <2>3. /\ z \in Seq(Msgs \cup {GARBAGE}) /\ Len(z) = count[c] - 1
        /\ \A i \in 1 .. Len(z) : z[i] = q[i + 1]
    BY <1>5, <2>1, <2>2
  <2>4. PICK n \in Nat : n = count[c] - 1
    BY <1>2
  <2>5. \A i \in 1 .. n : r[i] = z[i]
    BY <1>7, <2>3, <2>4, Zenon
  <2>6. \A i \in 1 .. n : z[i] \in Msgs \cup {GARBAGE}
    BY <2>3, <2>4
  <2>7. r \in [1 .. n -> Msgs \cup {GARBAGE}]
    BY <1>6, <2>4, <2>5, <2>6, Zenon
  <2>8. r \in Seq(Msgs \cup {GARBAGE}) /\ Len(r) = n
    BY <2>7, QueueOf
  <2>9. r = z
    BY <2>3, <2>4, <2>5, <2>8, SameElements, Zenon
  <2> QED BY <2>1, <2>2, <2>9, Zenon
<1>9. Capacity' = Capacity
  BY <1>1, Zenon DEF Capacity
<1>10. Queue' = [Queue EXCEPT ![c] = Tail(Queue[c])]
  <2>1. \A b \in Box \ {c} : Queue'[b] = Queue[b]
    BY <1>1, <1>3, Zenon DEF Queue, Contents
  <2>2. Queue[c] = q /\ Queue'[c] = r
    BY <1>2, <1>3, <1>4, Zenon DEF Queue
  <2>3. /\ Queue' = [b \in Box |-> Queue'[b]] /\ Queue = [b \in Box |-> Queue[b]]
    BY Zenon DEF Queue
  <2> QED BY <1>8, <2>1, <2>2, <2>3, Zenon
<1>11. Queue[c] # <<>>
  BY <1>2, <1>4, <1>8, Zenon DEF Queue
<1>12. C!Take(c)
  BY <1>9, <1>10, <1>11, Zenon DEF C!Take, Queue, Capacity
<1>13. C!Next
  BY <1>12, Zenon DEF C!Next
<1> QED BY <1>13, Zenon DEF ChannelStep

\* mailboxAlloc() opens an empty channel.
LEMMA SetIsOpen ==
  ASSUME Premises, MailboxInv, NEW t \in Thread, alloc_set(t)
  PROVE  ChannelStep
<1>1. /\ pc[t] = "alloc_set"
      /\ count' = [count EXCEPT ![box[t]] = 0] /\ start' = [start EXCEPT ![box[t]] = 0]
      /\ state' = [state EXCEPT ![box[t]] = "MAILBOX_ALLOC"]
      /\ UNCHANGED <<max, msgs>>
  BY Zenon DEF alloc_set, At
<1>2. PICK k \in Box : k = box[t] /\ state[k] = "MAILBOX_FREE" /\ max[k] \in Nat \ {0}
  BY <1>1, Zenon DEF MailboxInv, ThreadTypes, Phases, Making, Made, Premises, Assumptions
<1>3. /\ \A b \in Box \ {k} : /\ count'[b] = count[b] /\ start'[b] = start[b]
                              /\ state'[b] = state[b]
      /\ count'[k] = 0 /\ state'[k] = "MAILBOX_ALLOC"
  BY <1>1, <1>2, Zenon DEF MailboxInv, BoxTypes
<1>4. /\ \A b \in Box \ {k} : Capacity'[b] = Capacity[b] /\ Queue'[b] = Queue[b]
      /\ Capacity[k] = 0 /\ Capacity'[k] = max[k] /\ Queue[k] = <<>>
  <2>1. \A b \in Box \ {k} : Capacity'[b] = Capacity[b]
    BY <1>1, <1>3, Zenon DEF Capacity
  <2>2. ASSUME NEW b \in Box \ {k} PROVE Queue'[b] = Queue[b]
    <3>1. UNCHANGED <<state[b], max[b], count[b], start[b], msgs[b]>>
      BY <1>1, <1>3, Zenon
    <3>2. Contents(b)' = Contents(b)
      BY <3>1 DEF Contents
    <3> QED BY <3>1, <3>2, Zenon DEF Queue
  <2>3. Capacity[k] = 0 /\ Capacity'[k] = max[k]
    BY <1>1, <1>2, <1>3, Zenon DEF Capacity
  <2>4. Queue[k] = <<>>
    BY <1>2, Zenon DEF Queue
  <2> QED BY <2>1, <2>2, <2>3, <2>4, Zenon
<1>5. Queue'[k] = <<>>
  <2>1. Queue'[k] = [i \in 1 .. 0 |-> msgs'[k][(start'[k] + i - 1) % max'[k]]]
    BY <1>3, Zenon DEF Queue, Contents
  <2> QED BY <2>1
<1>6. /\ Queue' = [b \in Box |-> Queue'[b]] /\ Queue = [b \in Box |-> Queue[b]]
      /\ Capacity' = [b \in Box |-> Capacity'[b]] /\ Capacity = [b \in Box |-> Capacity[b]]
  BY Zenon DEF Queue, Capacity
<1>7. Queue' = Queue
  BY <1>4, <1>5, <1>6
<1>8. Capacity' = [Capacity EXCEPT ![k] = Capacity'[k]]
  BY <1>4, <1>6, Zenon
<1>9. C!Open(k)
  BY <1>2, <1>4, <1>7, <1>8, Zenon DEF C!Open, Queue, Capacity
<1>10. C!Next
  BY <1>9, Zenon DEF C!Next
<1> QED BY <1>10, Zenon DEF ChannelStep

\* mailboxFree() closes the channel.
LEMMA SetIsClose ==
  ASSUME Premises, MailboxInv, NEW t \in Thread, free_set(t)
  PROVE  ChannelStep
<1>1. /\ pc[t] = "free_set"
      /\ msgs' = [msgs EXCEPT ![box[t]] = [i \in DOMAIN msgs[box[t]] |-> GARBAGE]]
      /\ state' = [state EXCEPT ![box[t]] = "MAILBOX_FREE"]
      /\ UNCHANGED <<max, count, start>>
  BY Zenon DEF free_set, At
<1>2. PICK k \in Box : k = box[t] /\ state[k] = "MAILBOX_ALLOC" /\ max[k] \in Nat \ {0}
  BY <1>1, Zenon DEF MailboxInv, ThreadTypes, Phases, FreeSteps, Rings
<1>3. /\ \A b \in Box \ {k} : msgs'[b] = msgs[b] /\ state'[b] = state[b]
      /\ state'[k] = "MAILBOX_FREE"
  BY <1>1, <1>2, Zenon DEF MailboxInv, BoxTypes
<1>4. /\ \A b \in Box \ {k} : Capacity'[b] = Capacity[b] /\ Queue'[b] = Queue[b]
      /\ Capacity[k] # 0 /\ Capacity'[k] = 0 /\ Queue'[k] = <<>>
  <2>1. \A b \in Box \ {k} : Capacity'[b] = Capacity[b]
    BY <1>1, <1>3, Zenon DEF Capacity
  <2>2. ASSUME NEW b \in Box \ {k} PROVE Queue'[b] = Queue[b]
    <3>1. UNCHANGED <<state[b], max[b], count[b], start[b], msgs[b]>>
      BY <1>1, <1>3, Zenon
    <3>2. Contents(b)' = Contents(b)
      BY <3>1 DEF Contents
    <3> QED BY <3>1, <3>2, Zenon DEF Queue
  <2>3. Capacity[k] # 0 /\ Capacity'[k] = 0
    BY <1>2, <1>3, Zenon DEF Capacity
  <2>4. Queue'[k] = <<>>
    BY <1>3, Zenon DEF Queue
  <2> QED BY <2>1, <2>2, <2>3, <2>4, Zenon
<1>5. /\ Queue' = [b \in Box |-> Queue'[b]] /\ Queue = [b \in Box |-> Queue[b]]
      /\ Capacity' = [b \in Box |-> Capacity'[b]] /\ Capacity = [b \in Box |-> Capacity[b]]
  BY Zenon DEF Queue, Capacity
<1>6. Queue' = [Queue EXCEPT ![k] = <<>>] /\ Capacity' = [Capacity EXCEPT ![k] = 0]
  BY <1>4, <1>5
<1>7. C!Close(k)
  BY <1>4, <1>6, Zenon DEF C!Close, Queue, Capacity
<1>8. C!Next
  BY <1>7, Zenon DEF C!Next
<1> QED BY <1>8, Zenon DEF ChannelStep

\* Every step is a step of the channels or changes none of them.
LEMMA NextChannel ==
  ASSUME Premises, MailboxInv, MailboxInv', [Next]_vars
  PROVE  ChannelStep
<1>1. ASSUME NEW t \in Thread,
             \/ mailboxSend(t) \/ mailboxReceive(t) \/ mailboxAlloc(t) \/ mailboxFree(t)
             \/ Continue(t) \/ kill(t)
      PROVE  ChannelStep
  <2>1. CASE UNCHANGED <<state, max, count, start, msgs>>
    BY <2>1, ChannelsStay, Zenon
  <2>2. CASE send_put(t) \/ receive_take(t) \/ alloc_set(t) \/ free_set(t)
    BY <2>2, PutIsPut, TakeIsTake, SetIsOpen, SetIsClose, Zenon
  <2>3. CASE alloc_scan(t)
    <3>1. \A i \in 1 .. NMAILBOX : Candidate(i) \in Box
      BY CandidateBox, Zenon
    <3>2. UNCHANGED <<state, max, count, start>>
      BY <2>3, Zenon DEF alloc_scan
    <3>3. \/ UNCHANGED msgs
          \/ \E k \in Box : /\ state[k] = "MAILBOX_FREE"
                            /\ msgs' = [msgs EXCEPT ![k] = [j \in 0 .. arg[t] - 1 |-> GARBAGE]]
      BY <2>3, <3>1, Zenon DEF alloc_scan
    <3>4. \A b \in Box : state[b] = "MAILBOX_ALLOC" => msgs'[b] = msgs[b]
      BY <3>3, Zenon DEF MailboxInv, BoxTypes
    <3> QED BY <3>2, <3>4, ChannelsStay, Zenon
  <2>4. CASE alloc_sender(t) \/ alloc_undo_sender(t)
    <3>1. state[box[t]] = "MAILBOX_FREE" /\ box[t] \in Box
      BY <2>4, Zenon DEF alloc_sender, alloc_undo_sender, At, MailboxInv, Phases, Making, ThreadTypes
    <3>2. /\ UNCHANGED <<state, count, start>>
          /\ max' = [max EXCEPT ![box[t]] = arg[t]] \/ UNCHANGED max
          /\ msgs' = [msgs EXCEPT ![box[t]] = <<>>] \/ UNCHANGED msgs
      BY <2>4, Zenon DEF alloc_sender, alloc_undo_sender
    <3>3. \A b \in Box : state[b] = "MAILBOX_ALLOC" => max'[b] = max[b] /\ msgs'[b] = msgs[b]
      BY <3>1, <3>2, Zenon DEF MailboxInv, BoxTypes
    <3> QED BY <3>2, <3>3, ChannelsStay, Zenon
  <2>5. CASE mailboxSend(t) \/ mailboxReceive(t) \/ mailboxAlloc(t) \/ mailboxFree(t) \/ kill(t)
    BY <2>1, <2>5, Zenon DEF mailboxSend, mailboxReceive, mailboxAlloc, mailboxFree, kill, Call, mboxtab
  <2>6. CASE \/ send_wait(t) \/ send_signal(t) \/ receive_wait(t) \/ receive_signal(t)
             \/ alloc_wait(t) \/ alloc_signal(t) \/ alloc_undo_receiver(t) \/ signal_table(t)
             \/ free_wait(t) \/ free_sender(t) \/ free_receiver(t)
    <3>1. UNCHANGED mboxtab
      BY <2>6, Zenon DEF send_wait, send_signal, receive_wait, receive_signal, alloc_wait, alloc_signal,
                  alloc_undo_receiver, signal_table, free_wait, free_sender, free_receiver,
                  Then, Leave
    <3> QED BY <2>1, <3>1, Zenon DEF mboxtab
  <2>7. CASE alloc_receiver(t) \/ alloc_return(t)
    BY <2>1, <2>7, Zenon DEF alloc_receiver, alloc_return, mboxtab
  <2> QED BY <1>1, <2>2, <2>3, <2>4, <2>5, <2>6, <2>7, Zenon DEF Continue
<1>2. CASE UNCHANGED vars
  BY <1>2, ChannelsStay, Zenon DEF vars, mboxtab
<1> QED BY <1>1, <1>2, Zenon DEF Next

(***************************************************************************)
(* The theorems.                                                           *)
(***************************************************************************)

\* The facts about finite sets that the counts of threads rest on.
LEMMA FiniteCounting == Counting
<1>1. \A X : IsFiniteSet(X) => Cardinality(X) \in Nat /\ (Cardinality(X) = 0 => X = {})
  BY FS_CardinalityType, FS_EmptySet, Zenon
<1>2. \A X : IsFiniteSet(X) => \A Y \in SUBSET X : IsFiniteSet(Y)
  BY FS_Subset, Zenon
<1>3. \A X, x : IsFiniteSet(X) /\ x \notin X => Cardinality(X \cup {x}) = Cardinality(X) + 1
  BY FS_AddElement, Zenon
<1>4. \A X, x : IsFiniteSet(X) /\ x \in X => Cardinality(X \ {x}) = Cardinality(X) - 1
  BY FS_RemoveElement, Zenon
<1>5. \A m, n \in Int : IsFiniteSet(m .. n)
  BY FS_Interval, Zenon
<1>6. Cardinality({}) = 0 /\ \A x : IsFiniteSet({x}) /\ Cardinality({x}) = 1
  BY FS_EmptySet, FS_Singleton, Zenon
<1> QED BY <1>1, <1>2, <1>3, <1>4, <1>5, <1>6, Zenon DEF Counting

\* The invariant holds in every reachable state.
LEMMA AlwaysMailbox == Assumptions => (Spec => []MailboxInv)
<1> SUFFICES ASSUME Assumptions PROVE Spec => []MailboxInv
  BY Zenon
<1> Premises
  BY FiniteCounting, Zenon DEF Premises
<1>1. Init => MailboxInv
  BY InitMailbox, Zenon
<1>2. MailboxInv /\ [Next]_vars => MailboxInv'
  BY NextMailbox, Zenon
<1> QED BY <1>1, <1>2, PTL DEF Spec

\* The calls of mailboxes keep the columns of mboxtab, the semaphores' queues and what
\* every thread holds in their types, whatever the interleaving.
THEOREM MailboxTypeCorrect == Assumptions => (Spec => []TypeOK)
<1> SUFFICES ASSUME Assumptions PROVE Spec => []TypeOK
  BY Zenon
<1>1. MailboxInv => TypeOK
  BY Zenon DEF MailboxInv, SemTypes, BoxTypes, ThreadTypes, Rings, Steps, TypeOK
<1> QED BY <1>1, AlwaysMailbox, PTL

\* Every slot and every message of an open mailbox is accounted for between its two
\* semaphores, the ring and the threads in mailboxSend() and mailboxReceive(), whatever
\* their interleaving and whichever waiting threads are killed.
THEOREM SlotsAlwaysAccounted == Assumptions => (Spec => []SlotsAccounted)
<1> SUFFICES ASSUME Assumptions PROVE Spec => []SlotsAccounted
  BY Zenon
<1>1. MailboxInv => SlotsAccounted
  BY Zenon DEF MailboxInv
<1> QED BY <1>1, AlwaysMailbox, PTL

\* Between wait(mboxtabsem) and signal(mboxtabsem) there is one thread at most, the
\* failing paths of mailboxAlloc() included.
THEOREM OneEditorAlways == Assumptions => (Spec => []OneEditor)
<1> SUFFICES ASSUME Assumptions PROVE Spec => []OneEditor
  BY Zenon
<1>1. ASSUME MailboxInv PROVE OneEditor
  <2>1. PICK E : E = {t \in Thread : pc[t] \in Editing /\ ~Blocked(t)}
    BY Zenon
  <2>2. \A t, u \in E : t = u
    BY <1>1, <2>1, Zenon DEF MailboxInv, TableLocked, Edits
  <2>3. Cardinality(E) <= 1
    <3>1. CASE E = {}
      BY <3>1, FS_EmptySet
    <3>2. CASE E # {}
      <4>1. PICK t \in E : E = {t}
        BY <2>2, <3>2
      <4>2. Cardinality({t}) = 1
        BY FS_Singleton, Zenon
      <4> QED BY <4>1, <4>2
    <3> QED BY <3>1, <3>2, Zenon
  <2> QED BY <2>1, <2>3, Zenon DEF OneEditor
<1> QED BY <1>1, AlwaysMailbox, PTL

\* Mailboxes implement bounded first-in first-out channels: with the messages of the
\* ring read from start as the channel, no step of any thread loses, duplicates or
\* reorders a message, takes one that is not there, or puts one into a full mailbox.
THEOREM MailboxesImplementChannels == Assumptions => (Spec => C!Spec)
<1> SUFFICES ASSUME Assumptions PROVE Spec => C!Spec
  BY Zenon
<1> Premises
  BY FiniteCounting, Zenon DEF Premises
<1>1. Init => C!Init
  BY Zenon DEF Init, C!Init
<1>2. MailboxInv /\ MailboxInv' /\ [Next]_vars => [C!Next]_(C!vars)
  BY NextChannel, Zenon DEF ChannelStep
<1>3. Spec => []MailboxInv
  BY AlwaysMailbox, Zenon
<1> QED BY <1>1, <1>2, <1>3, PTL DEF Spec, C!Spec

=============================================================================
