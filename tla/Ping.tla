-------------------------------- MODULE Ping --------------------------------
(***************************************************************************)
(* The ping command (shell/xsh_ping.c) and the rings of echo replies that   *)
(* icmpRecv() fills for it: a thread reserves a ring, sends requests, sleeps *)
(* and picks the replies off, while the receive threads put replies in      *)
(* whenever they come, late, doubled or not at all.                        *)
(***************************************************************************)
EXTENDS Naturals, FiniteSets, Sequences

CONSTANTS
  Thread,
  NPINGQUEUE, NPINGHOLD,
  NET_POOLSIZE,
  Count,            \* requests of one command
  BADTID,
  Fails             \* TRUE: icmpEchoRequest() may return SYSERR

VARIABLES
  echotab,          \* 0 .. NPINGQUEUE - 1 -> ring: tid, head, tail
  msg,              \* threads that have a message waiting
  pool,             \* buffers in netpool
  thr               \* per thread: pc, its ring, the requests left, a buffer in hand

vars == <<echotab, msg, pool, thr>>

Ring == 0 .. NPINGQUEUE - 1
Idle == [pc |-> "idle", q |-> 0, left |-> 0, held |-> 0]

Init ==
  /\ echotab = [i \in Ring |-> [tid |-> BADTID, head |-> 0, tail |-> 0]]
  /\ msg = {} /\ pool = NET_POOLSIZE
  /\ thr = [t \in Thread |-> Idle]

At(t, step) == thr[t].pc = step
Goto(t, step) == thr' = [thr EXCEPT ![t].pc = step]
next(k) == (k + 1) % NPINGHOLD

Full(q) == next(q.head) = q.tail

IsFirst(i, id) == echotab[i].tid = id /\ \A j \in Ring : j < i => echotab[j].tid # id
Held(q) == (q.head + NPINGHOLD - q.tail) % NPINGHOLD

-----------------------------------------------------------------------------
\* The first ring that is not in use; the command ends if there is none.
echoQueueAlloc(t) ==
  /\ At(t, "idle")
  /\ \E i \in Ring :
       /\ echotab[i].tid = BADTID /\ \A j \in Ring : j < i => echotab[j].tid # BADTID
       /\ echotab' = [echotab EXCEPT ![i].tid = t]
       /\ thr' = [thr EXCEPT ![t] = [Idle EXCEPT !.pc = "request", !.q = i, !.left = Count]]
  /\ UNCHANGED <<msg, pool>>

\* The next request; when it cannot be sent the command ends on the spot.
xsh_ping(t) ==
  /\ At(t, "request")
  /\ UNCHANGED <<echotab, msg, pool>>
  /\ \/ thr[t].left > 0 /\ thr' = [thr EXCEPT ![t].pc = "sleep", ![t].left = @ - 1]
     \/ thr[t].left > 0 /\ Fails /\ thr' = [thr EXCEPT ![t] = Idle]
     \/ thr[t].left = 0 /\ Goto(t, "dealloc")

\* After the sleep the replies are looked at if a message came.
ping_recvclr(t) ==
  /\ At(t, "sleep")
  /\ msg' = msg \ {t}
  /\ Goto(t, IF t \in msg THEN "get" ELSE "request")
  /\ UNCHANGED <<echotab, pool>>

echoQueueGet(t) ==
  /\ At(t, "get") /\ UNCHANGED <<msg, pool>>
  /\ LET q == echotab[thr[t].q]
     IN \/ /\ q.tid # t \/ q.head = q.tail
           /\ Goto(t, "request") /\ UNCHANGED echotab
        \/ /\ q.tid = t /\ q.head # q.tail
           /\ echotab' = [echotab EXCEPT ![thr[t].q].tail = next(q.tail)]
           /\ thr' = [thr EXCEPT ![t].pc = "print", ![t].held = 1]

ping_free(t) ==
  /\ At(t, "print")
  /\ pool' = pool + 1
  /\ thr' = [thr EXCEPT ![t].pc = "get", ![t].held = 0]
  /\ UNCHANGED <<echotab, msg>>

\* The ring is given up and what is still in it is freed.
echoQueueDealloc(t) ==
  /\ At(t, "dealloc")
  /\ LET q == echotab[thr[t].q]
     IN /\ echotab' = [echotab EXCEPT ![thr[t].q] = [q EXCEPT !.tid = BADTID, !.tail = q.head]]
        /\ pool' = pool + Held(q)
  /\ thr' = [thr EXCEPT ![t] = Idle]
  /\ UNCHANGED msg

\* An echo reply with the id of a thread: into the first ring of that thread, with a
\* message, unless the ring is full; else it is freed.
icmpRecv(id) ==
  /\ pool > 0 /\ UNCHANGED thr
  /\ \/ /\ \A i \in Ring : IsFirst(i, id) => Full(echotab[i])
        /\ UNCHANGED <<echotab, msg, pool>>
     \/ \E i \in Ring :
          /\ IsFirst(i, id) /\ ~Full(echotab[i])
          /\ echotab' = [echotab EXCEPT ![i].head = next(@)]
          /\ msg' = msg \cup {id}
          /\ pool' = pool - 1

Next ==
  \E t \in Thread :
    \/ echoQueueAlloc(t) \/ xsh_ping(t) \/ ping_recvclr(t) \/ echoQueueGet(t)
    \/ ping_free(t) \/ echoQueueDealloc(t) \/ icmpRecv(t)

-----------------------------------------------------------------------------
\* The buffers of this many rings and threads.
RECURSIVE InRings(_)
InRings(S) == IF S = {} THEN 0
              ELSE LET i == CHOOSE j \in S : TRUE IN Held(echotab[i]) + InRings(S \ {i})

TypeOK ==
  /\ pool \in 0 .. NET_POOLSIZE /\ msg \subseteq Thread
  /\ \A i \in Ring : echotab[i].tid \in Thread \cup {BADTID}
  /\ \A t \in Thread : thr[t].left \in 0 .. Count

\* Every reply buffer is free, in a ring, or in the hands of one ping command, and a
\* ring that nobody uses is empty: replies that come while the command gives its
\* ring up are neither lost nor found by the next command.
RepliesAccounted ==
  /\ pool + InRings(Ring) + Cardinality({t \in Thread : thr[t].held = 1}) = NET_POOLSIZE
  /\ \A i \in Ring : echotab[i].tid = BADTID => echotab[i].head = echotab[i].tail

\* While requests do not fail: a ring that is in use belongs to a command that runs,
\* so that commands which have ended do not use the rings up.
RingsComeBack ==
  \A i \in Ring : echotab[i].tid # BADTID =>
    ~At(echotab[i].tid, "idle") /\ thr[echotab[i].tid].q = i

=============================================================================
