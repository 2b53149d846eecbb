------------------------------ MODULE TcpTimer ------------------------------
(***************************************************************************)
(* The timer events of TCP (src/device/tcp/tcpTimer*.c): records linked in *)
(* the order in which they are due, each with the time that remains after  *)
(* its predecessor.  Whoever works on the list holds tcpmutex; the timer   *)
(* thread lets go of it while it acts on an event.                         *)
(***************************************************************************)
EXTENDS Integers, Sequences, FiniteSetsExt

CONSTANTS
  TCP_NEVENTS,      \* records, the head included
  Tcb, Type,
  NULL,             \* no record; every type
  Times,            \* what events are scheduled for
  CLKTICKS_PER_SEC,
  Ticks,            \* clock ticks that pass while the timer thread sleeps
  Apart             \* TRUE: no two events that are purged follow each other

VARIABLES
  tcptimertab,      \* the records
  nextevt,          \* where allocEvent() looks next
  timer,            \* the timer thread
  left              \* per record: the time to its event, were each one counted alone

vars == <<tcptimertab, nextevt, timer, left>>

TCP_EVT_HEAD == 0
Record == 1 .. TCP_NEVENTS - 1

\* A record after bzero(); also one that is off the list, which is filled in before
\* it is read again.
Blank == [used |-> FALSE, remain |-> 0, type |-> NULL, tcbptr |-> NULL, next |-> NULL]

Init ==
  /\ tcptimertab = [i \in 0 .. TCP_NEVENTS - 1 |-> [Blank EXCEPT !.used = i = TCP_EVT_HEAD]]
  /\ nextevt = 0
  /\ timer = [pc |-> "sleep", elapse |-> 0, type |-> NULL, tcbptr |-> NULL]
  /\ left = [i \in Record |-> 0]

\* The records on the list of tab, in its order.  A list that leads back into itself
\* is cut off after as many as there are: see Ring.
ListOf(tab) ==
  LET from[n \in 0 .. TCP_NEVENTS, i \in DOMAIN tab] ==
        LET next == tab[i].next
        IN IF n = 0 \/ next = NULL THEN <<>> ELSE <<next>> \o from[n - 1, next]
  IN from[TCP_NEVENTS, TCP_EVT_HEAD]

Linked == ListOf(tcptimertab)

Ring == Len(Linked) = TCP_NEVENTS

OnList(q) == {q[k] : k \in DOMAIN q}

Tidied(tab) ==
  LET on == OnList(ListOf(tab)) IN
  [i \in DOMAIN tab |-> IF i \in Record \ on THEN Blank ELSE tab[i]]

\* The time to the k-th event of the list q.
Through(q, k) ==
  LET sum[n \in 0 .. k] == IF n = 0 THEN 0 ELSE sum[n - 1] + tcptimertab[q[n]].remain
  IN sum[k]

\* Where nextevt is after k rounds.  TCP_NEVENTS is the text (3*NTCP)+1, so that the
\* remainder is taken before 1 is added: nextevt never comes to the head, and comes
\* to all the other records because 3*NTCP is odd.
Round(k) ==
  LET at[n \in 0 .. k] == IF n = 0 THEN nextevt ELSE ((at[n - 1] + 1) % (TCP_NEVENTS - 1)) + 1
  IN at[k]

\* The round that comes to an unused record, or the last one.
allocEvent ==
  LET free == {k \in 1 .. TCP_NEVENTS : ~tcptimertab[Round(k)].used}
  IN IF free = {} THEN [evt |-> NULL, nextevt |-> Round(TCP_NEVENTS)]
     ELSE [evt |-> Round(Min(free)), nextevt |-> Round(Min(free))]

tcpTimerSched(time, tcb, type) ==
  LET evt == allocEvent.evt
      q == Linked
      \* As many records as are due by then.
      n == CHOOSE k \in 0 .. Len(q) :
             /\ Through(q, k) <= time
             /\ k < Len(q) => Through(q, k + 1) > time
      prev == IF n = 0 THEN TCP_EVT_HEAD ELSE q[n]
      next == IF n = Len(q) THEN NULL ELSE q[n + 1]
      remain == time - Through(q, n)
      new == [used |-> TRUE, remain |-> remain, type |-> type, tcbptr |-> tcb,
              next |-> next]
  IN /\ ~Ring
     /\ nextevt' = allocEvent.nextevt
     /\ IF evt = NULL THEN UNCHANGED <<tcptimertab, timer, left>>
        ELSE /\ tcptimertab' = [i \in DOMAIN tcptimertab |->
                  LET r == IF i = evt THEN new ELSE tcptimertab[i]
                      linked == IF i = prev THEN [r EXCEPT !.next = evt] ELSE r
                  IN IF i = next THEN [linked EXCEPT !.remain = @ - remain] ELSE linked]
             /\ left' = [left EXCEPT ![evt] = time]
             /\ UNCHANGED timer

Matches(r, tcb, type) == r.tcbptr = tcb /\ type \in {NULL, r.type}

\* prev moves on to the record that was taken out, so that its successor is not
\* taken out of the list.
Purged(tcb, type) ==
  LET q == Linked
      step(tab, k) ==
        LET i == q[k]
            prev == IF k = 1 THEN TCP_EVT_HEAD ELSE q[k - 1]
            next == tab[i].next
            passed == IF next = NULL THEN tab
                      ELSE [tab EXCEPT ![next].remain = @ + tab[i].remain]
        IN IF Matches(tab[i], tcb, type)
           THEN [passed EXCEPT ![prev].next = next, ![i].used = FALSE] ELSE tab
      after[k \in 0 .. Len(q)] == IF k = 0 THEN tcptimertab ELSE step(after[k - 1], k)
  IN after[Len(q)]

tcpTimerPurge(tcb, type) ==
  LET q == Linked
      hit(k) == Matches(tcptimertab[q[k]], tcb, type)
  IN /\ ~Ring
     /\ Apart => \A k \in 1 .. Len(q) - 1 : ~(hit(k) /\ hit(k + 1))
     /\ tcptimertab' = Tidied(Purged(tcb, type))
     /\ left' = [i \in Record |-> IF tcptimertab'[i].used THEN left[i] ELSE 0]
     /\ UNCHANGED <<nextevt, timer>>

\* The time to the first such event, 0 if there is none.
tcpTimerRemain(tcb, type) ==
  LET q == Linked
      hits == {k \in DOMAIN q : tcptimertab[q[k]].tcbptr = tcb
                                /\ tcptimertab[q[k]].type = type}
  IN IF hits = {} THEN 0
     ELSE Through(q, Min(hits))

-----------------------------------------------------------------------------
(* The timer thread *)

First == tcptimertab[TCP_EVT_HEAD].next

\* The milliseconds of so many ticks.  The division is the wrong way round and comes
\* first: right for 1000 ticks per second, and 0 for fewer.
calcElapsed(ticks) == ticks * (CLKTICKS_PER_SEC \div 1000)

\* sleep() is over.
Awake(ticks) ==
  /\ timer.pc = "sleep"
  /\ timer' = [timer EXCEPT !.pc = "loop", !.elapse = calcElapsed(ticks)]
  /\ UNCHANGED <<tcptimertab, nextevt, left>>

\* The first event goes off the list; tcpmutex is released to act on it.
Take(elapse) ==
  /\ timer' = [pc |-> "trigger", elapse |-> elapse, type |-> tcptimertab[First].type,
               tcbptr |-> tcptimertab[First].tcbptr]
  /\ tcptimertab' = [tcptimertab EXCEPT ![First] = Blank,
                                        ![TCP_EVT_HEAD].next = tcptimertab[First].next]

Elapsed(d) ==
  LET on == OnList(Linked) IN left' = [i \in Record |-> IF i \in on THEN left[i] - d ELSE 0]

\* The outer loop.
Loop ==
  /\ timer.pc = "loop"
  /\ IF First = NULL \/ timer.elapse = 0
     THEN /\ timer' = [timer EXCEPT !.pc = "sleep"]
          /\ UNCHANGED <<tcptimertab, nextevt, left>>
     ELSE LET remain == tcptimertab[First].remain IN
          IF remain > timer.elapse
          THEN /\ tcptimertab' = [tcptimertab EXCEPT ![First].remain = @ - timer.elapse]
               /\ timer' = [timer EXCEPT !.pc = "sleep"]
               /\ Elapsed(timer.elapse)
               /\ UNCHANGED nextevt
          ELSE /\ Take(timer.elapse - remain)
               /\ Elapsed(remain)
               /\ UNCHANGED nextevt

\* tcpTimerTrigger() is over; what is due at the same time follows.
Triggered ==
  /\ timer.pc = "trigger"
  /\ IF First # NULL /\ tcptimertab[First].remain <= 0
     THEN Take(timer.elapse)
     ELSE /\ timer' = [timer EXCEPT !.pc = "loop", !.type = NULL, !.tcbptr = NULL]
          /\ UNCHANGED tcptimertab
  /\ UNCHANGED <<nextevt, left>>

Next ==
  \/ \E time \in Times, tcb \in Tcb, type \in Type : tcpTimerSched(time, tcb, type)
  \/ \E tcb \in Tcb, type \in Type \cup {NULL} : tcpTimerPurge(tcb, type)
  \/ \E ticks \in Ticks : Awake(ticks)
  \/ Loop \/ Triggered

Spec == Init /\ [][Next]_vars

-----------------------------------------------------------------------------
(* Properties *)

\* Every event on the list is as far away as if what calcElapsed() returns were counted
\* down for it alone, however events before it were scheduled, purged and triggered;
\* tcpTimerRemain() tells so; and the records on the list are the records in use.
\* (With the 10 ticks per second of clock.h calcElapsed() is always 0, and no event is
\* ever due.)
EventsOnTime ==
  LET q == Linked
      on == OnList(q)
      mine(tcb, type) == {left[i] : i \in {j \in on : tcptimertab[j].tcbptr = tcb
                                                     /\ tcptimertab[j].type = type}}
  IN /\ \A k \in DOMAIN q : /\ tcptimertab[q[k]].remain >= 0
                            /\ left[q[k]] = Through(q, k)
     /\ \A tcb \in Tcb, type \in Type :
          LET m == mine(tcb, type) IN
          IF m = {} THEN tcpTimerRemain(tcb, type) = 0
          ELSE tcpTimerRemain(tcb, type) = Min(m)
     /\ {i \in Record : tcptimertab[i].used} = on

\* The timer thread has triggered nothing.
NeverDue == timer.pc # "trigger"

\* tcpTimerPurge() takes all the events that it is to remove off the list: what is on
\* the list is in use.
PurgedIsGone == \A i \in OnList(Linked) : tcptimertab[i].used

=============================================================================
