--------------------------------- MODULE Arp ---------------------------------
(***************************************************************************)
(* Address resolution (src/network/arp).  Threads look addresses up and    *)
(* wait for answers with recvtime(); receive threads enter the answers and *)
(* notify the waiters with send().  A step is a stretch that runs with     *)
(* interrupts disabled, or a piece between two of them; send() may let a   *)
(* waiter run, so a stretch ends there too.  Times are what is left of     *)
(* them, in seconds; -1 is over.                                           *)
(***************************************************************************)
EXTENDS Integers, Sequences, FiniteSets

CONSTANTS
  Thread,           \* threads that look up
  Receivers,        \* receive threads
  ARP_NENTRY, ARP_NTHRWAIT, ARP_MAX_LOOKUP, ARP_NQUEUE,
  ARP_TTL_UNRESOLVED, ARP_TTL_RESOLVED,
  Praddrs,          \* addresses that are looked up
  Pkts,             \* packets that come in: records spa, sha, mine, rqst
  NULL,
  Preempt,          \* TRUE: send() may let the waiter or another thread run
  OtherMsgs         \* TRUE: threads also get messages from elsewhere

VARIABLES
  arptab,
  arpqueue,         \* requests that wait for arpDaemon
  msg,              \* the message a thread holds
  said,             \* addresses that were announced, the last one first
  thr               \* per thread: next step and locals

vars == <<arptab, arpqueue, msg, said, thr>>

Slot == 0 .. ARP_NENTRY - 1
Addrs == Praddrs \cup {p.spa : p \in Pkts}

Free == [state |-> "ARP_FREE", hwaddr |-> NULL, praddr |-> NULL, expires |-> -1,
         waiting |-> <<>>]

Idle == [pc |-> "idle", pr |-> NULL, lookups |-> 0, e |-> 0, i |-> 0, ttl |-> 0,
         sha |-> NULL, mine |-> FALSE, rqst |-> FALSE]

Init ==
  /\ arptab = [e \in Slot |-> Free] /\ arpqueue = 0
  /\ msg = [t \in Thread |-> NULL]
  /\ said = [a \in Addrs |-> <<>>]
  /\ thr = [t \in Thread \cup Receivers |-> Idle]

-----------------------------------------------------------------------------
(* arpGetEntry(), arpFree(), arpNotify(), arpAlloc()                       *)

Expired(x) == x.state # "ARP_FREE" /\ x.expires < 0

HasWaiters(x) == x.state = "ARP_UNRESOLVED" /\ x.waiting # <<>>

\* The messages after send() of m to the waiters ws in turn, up to one that holds a
\* message: that one refuses, and the rest are not told.
RECURSIVE Told(_, _, _)
Told(ms, ws, m) ==
  IF ws = <<>> \/ ms[Head(ws)] # NULL THEN ms
  ELSE Told([ms EXCEPT ![Head(ws)] = m], Tail(ws), m)

\* The loop of arpGetEntry() over tab from entry i on: it frees what has expired
\* and stops at the entry for pr, at the end, or at an entry whose waiters must be
\* told, when others may run meanwhile.
RECURSIVE Scan(_, _, _, _)
Scan(tab, ms, i, pr) ==
  LET stop(at) == [at |-> at, i |-> i, tab |-> tab, msg |-> ms] IN
  IF i = ARP_NENTRY THEN stop("none")
  ELSE IF tab[i].state = "ARP_FREE" THEN Scan(tab, ms, i + 1, pr)
  ELSE IF Expired(tab[i])
  THEN IF HasWaiters(tab[i]) /\ Preempt THEN stop("notify")
       ELSE Scan([tab EXCEPT ![i] = Free],
                 IF HasWaiters(tab[i]) THEN Told(ms, tab[i].waiting, "TIMEOUT") ELSE ms,
                 i + 1, pr)
  ELSE IF tab[i].praddr = pr THEN stop("found")
  ELSE Scan(tab, ms, i + 1, pr)

\* The first free entry, or else the first of those that expire soonest.
arpAlloc(tab) ==
  LET free == {e \in Slot : tab[e].state = "ARP_FREE"}
      soonest == {e \in Slot : \A f \in Slot : tab[e].expires <= tab[f].expires}
      pick == IF free # {} THEN free ELSE soonest
  IN CHOOSE e \in pick : \A f \in pick : e <= f

\* send() to the i-th waiter of entry e; step is where t goes on.  A thread that
\* holds a message refuses this one, and the rest of the waiters are not told.
Notify(t, loc, tab, e, i, m, step) ==
  LET w == tab[e].waiting[i] IN
  IF msg[w] # NULL
  THEN /\ thr' = [thr EXCEPT ![t] = [loc EXCEPT !.pc = step, !.e = e, !.i = -1]]
       /\ UNCHANGED msg
  ELSE /\ msg' = [msg EXCEPT ![w] = m]
       /\ thr' = [thr EXCEPT ![t] = [loc EXCEPT !.pc = step, !.e = e, !.i = i + 1]]

\* Waiters are left to be told.
MoreWaiters(t) == thr[t].i # -1 /\ thr[t].i <= Len(arptab[thr[t].e].waiting)

-----------------------------------------------------------------------------
(* arpLookup() *)

Return(t) == thr' = [thr EXCEPT ![t] = Idle]

\* A thread runs with interrupts disabled, and nothing else does.
Masked == \E t \in Thread : thr[t].pc = "masked"

\* Mutant: the length of the list is not looked at.
Enqueue_over(t, loc, tab, e) ==
  /\ arptab' = [tab EXCEPT ![e].waiting = Append(@, t)]
  /\ thr' = [thr EXCEPT ![t] =
       [loc EXCEPT !.pc = "rqst", !.e = e, !.ttl = tab[e].expires]]

\* The thread is put on the waiting list, or refused when that is full.
Enqueue(t, loc, tab, e) ==
  IF Len(tab[e].waiting) >= ARP_NTHRWAIT
  THEN arptab' = tab /\ Return(t)
  ELSE /\ arptab' = [tab EXCEPT ![e].waiting = Append(@, t)]
       /\ thr' = [thr EXCEPT ![t] =
            [loc EXCEPT !.pc = "rqst", !.e = e, !.ttl = tab[e].expires]]

\* arpGetEntry() from entry i on, and the rest of the section.  A resolved address
\* is returned without restore(im).
LookupFrom(t, loc, tab, i) ==
  LET s == Scan(tab, msg, i, loc.pr)
      e == arpAlloc(s.tab)
      fresh == [state |-> "ARP_UNRESOLVED", hwaddr |-> NULL, praddr |-> loc.pr,
                expires |-> ARP_TTL_UNRESOLVED, waiting |-> <<>>]
  IN \/ /\ s.at = "notify"
        /\ Notify(t, loc, s.tab, s.i, 1, "TIMEOUT", "lookup_free")
        /\ arptab' = s.tab
     \/ /\ s.at = "none"
        /\ Enqueue(t, loc, [s.tab EXCEPT ![e] = fresh], e)
        /\ msg' = s.msg
     \/ /\ s.at = "found" /\ s.tab[s.i].state = "ARP_RESOLVED"
        /\ arptab' = s.tab
        /\ thr' = [thr EXCEPT ![t] = [Idle EXCEPT !.pc = "masked"]]
        /\ msg' = s.msg
     \/ /\ s.at = "found" /\ s.tab[s.i].state = "ARP_UNRESOLVED"
        /\ Enqueue(t, loc, s.tab, s.i)
        /\ msg' = s.msg

arpLookup(t) ==
  /\ thr[t].pc = "idle" /\ ~Masked
  /\ \E pr \in Praddrs :
       LookupFrom(t, [Idle EXCEPT !.pr = pr, !.lookups = 1], arptab, 0)
  /\ UNCHANGED <<arpqueue, said>>

\* arpFree() goes on after a send().
lookup_free(t) ==
  LET e == thr[t].e IN
  /\ thr[t].pc = "lookup_free"
  /\ IF MoreWaiters(t)
     THEN Notify(t, thr[t], arptab, e, thr[t].i, "TIMEOUT", "lookup_free")
          /\ UNCHANGED arptab
     ELSE LookupFrom(t, thr[t], [arptab EXCEPT ![e] = Free], e + 1)
  /\ UNCHANGED <<arpqueue, said>>

\* arpSendRqst(), with the entry as it is now; its netSend() may fail.
lookup_rqst(t) ==
  /\ thr[t].pc = "rqst"
  /\ thr' = [thr EXCEPT ![t].pc = "clr"] \/ Return(t)
  /\ UNCHANGED <<arptab, arpqueue, msg, said>>

\* recvclr()
lookup_clr(t) ==
  /\ thr[t].pc = "clr"
  /\ msg' = [msg EXCEPT ![t] = NULL]
  /\ thr' = [thr EXCEPT ![t].pc = "wait"]
  /\ UNCHANGED <<arptab, arpqueue, said>>


\* recvtime() returns.
lookup_wake(t) ==
  /\ thr[t].pc = "wait" /\ (msg[t] # NULL \/ thr[t].ttl < 0)
  /\ msg' = [msg EXCEPT ![t] = NULL]
  /\ IF msg[t] \in {NULL, "TIMEOUT"} \/ thr[t].lookups = ARP_MAX_LOOKUP
     THEN Return(t)
     ELSE thr' = [thr EXCEPT ![t].pc = "again"]
  /\ UNCHANGED <<arptab, arpqueue, said>>

\* The loop goes round.
lookup_again(t) ==
  /\ thr[t].pc = "again"
  /\ LookupFrom(t, [thr[t] EXCEPT !.lookups = @ + 1], arptab, 0)
  /\ UNCHANGED <<arpqueue, said>>

\* The caller of an arpLookup() that succeeded comes to a wait(), where others run.
lookup_over(t) ==
  /\ thr[t].pc = "masked"
  /\ Return(t)
  /\ UNCHANGED <<arptab, arpqueue, msg, said>>

-----------------------------------------------------------------------------
(* arpRecv(), arpDaemon() *)

\* Mutant: an address that is known already is not replaced.
Entered_old(x, sha) ==
  [x EXCEPT !.hwaddr = IF @ = NULL THEN sha ELSE @, !.expires = ARP_TTL_RESOLVED,
            !.state = "ARP_RESOLVED"]

Entered(x, sha) ==
  [x EXCEPT !.hwaddr = sha, !.expires = ARP_TTL_RESOLVED, !.state = "ARP_RESOLVED"]

\* The packet was for this host: its sender is entered if it is new, and a request
\* is queued for arpDaemon.
Mine(tab, loc, known) ==
  /\ arptab' = IF loc.mine /\ ~known
               THEN [tab EXCEPT ![arpAlloc(tab)] =
                       [Entered(Free, loc.sha) EXCEPT !.praddr = loc.pr]]
               ELSE tab
  /\ arpqueue' = IF loc.mine /\ loc.rqst /\ arpqueue < ARP_NQUEUE
                 THEN arpqueue + 1 ELSE arpqueue

RecvFrom(t, loc, tab, i) ==
  LET s == Scan(tab, msg, i, loc.pr)
      entered == [s.tab EXCEPT ![s.i] = Entered(@, loc.sha)]
      ws == s.tab[s.i].waiting
      told == Told(s.msg, ws, "RESOLVED")
  IN \/ /\ s.at = "notify"
        /\ Notify(t, loc, s.tab, s.i, 1, "TIMEOUT", "recv_free")
        /\ arptab' = s.tab /\ UNCHANGED arpqueue
     \/ /\ s.at = "none"
        /\ Mine(s.tab, loc, FALSE)
        /\ Return(t) /\ msg' = s.msg
     \/ /\ s.at = "found" /\ ~HasWaiters(s.tab[s.i])
        /\ Mine(entered, loc, TRUE)
        /\ Return(t) /\ msg' = s.msg
     \/ /\ s.at = "found" /\ HasWaiters(s.tab[s.i]) /\ ~Preempt
        /\ Mine(IF \E k \in 1 .. Len(ws) : s.msg[ws[k]] # NULL THEN entered
                ELSE [entered EXCEPT ![s.i].waiting = <<>>], loc, TRUE)
        /\ Return(t) /\ msg' = told
     \/ /\ s.at = "found" /\ HasWaiters(s.tab[s.i]) /\ Preempt
        /\ Notify(t, loc, s.tab, s.i, 1, "RESOLVED", "recv_notify")
        /\ arptab' = entered /\ UNCHANGED arpqueue

arpRecv(t) ==
  /\ thr[t].pc = "idle" /\ ~Masked
  /\ \E p \in Pkts :
       /\ said' = [said EXCEPT ![p.spa] = <<p.sha>> \o SelectSeq(@, LAMBDA h : h # p.sha)]
       /\ RecvFrom(t, [Idle EXCEPT !.pr = p.spa, !.sha = p.sha, !.mine = p.mine,
                                   !.rqst = p.rqst], arptab, 0)

recv_free(t) ==
  LET e == thr[t].e IN
  /\ thr[t].pc = "recv_free"
  /\ IF MoreWaiters(t)
     THEN Notify(t, thr[t], arptab, e, thr[t].i, "TIMEOUT", "recv_free")
          /\ UNCHANGED <<arptab, arpqueue>>
     ELSE RecvFrom(t, thr[t], [arptab EXCEPT ![e] = Free], e + 1)
  /\ UNCHANGED said

\* arpNotify() goes on.  When all were told it clears the list.
recv_notify(t) ==
  LET e == thr[t].e IN
  /\ thr[t].pc = "recv_notify"
  /\ IF MoreWaiters(t)
     THEN Notify(t, thr[t], arptab, e, thr[t].i, "RESOLVED", "recv_notify")
          /\ UNCHANGED <<arptab, arpqueue>>
     ELSE /\ Mine(IF thr[t].i = -1 THEN arptab
                  ELSE [arptab EXCEPT ![e].waiting = <<>>], thr[t], TRUE)
          /\ thr' = [thr EXCEPT ![t] = Idle]
          /\ UNCHANGED msg
  /\ UNCHANGED said

\* arpSendReply() and netFreebuf()
arpDaemon ==
  /\ arpqueue > 0 /\ ~Masked
  /\ arpqueue' = arpqueue - 1
  /\ UNCHANGED <<arptab, msg, said, thr>>

-----------------------------------------------------------------------------

\* A second passes.
tick ==
  /\ ~Masked
  /\ arptab' = [e \in Slot |-> [arptab[e] EXCEPT !.expires = IF @ < 0 THEN -1 ELSE @ - 1]]
  /\ thr' = [t \in DOMAIN thr |->
               [thr[t] EXCEPT !.ttl = IF thr[t].pc # "wait" THEN @
                                      ELSE IF @ < 0 THEN -1 ELSE @ - 1]]
  /\ UNCHANGED <<arpqueue, msg, said>>

\* A message that has nothing to do with addresses.
other_send(t) ==
  /\ OtherMsgs /\ msg[t] = NULL /\ ~Masked
  /\ msg' = [msg EXCEPT ![t] = "OTHER"]
  /\ UNCHANGED <<arptab, arpqueue, said, thr>>

Continue(t) ==
  \/ lookup_over(t)
  \/ ~Masked /\ (\/ lookup_free(t) \/ lookup_rqst(t)
                 \/ lookup_clr(t) \/ lookup_wake(t) \/ lookup_again(t))

RecvContinue(t) == ~Masked /\ (recv_free(t) \/ recv_notify(t))

Next ==
  \/ \E t \in Thread : arpLookup(t) \/ Continue(t) \/ other_send(t)
  \/ \E t \in Receivers : arpRecv(t) \/ RecvContinue(t)
  \/ arpDaemon \/ tick

Spec == Init /\ [][Next]_vars

-----------------------------------------------------------------------------

TypeOK ==
  /\ arpqueue \in 0 .. ARP_NQUEUE
  /\ \A e \in Slot :
       /\ arptab[e].state \in {"ARP_FREE", "ARP_UNRESOLVED", "ARP_RESOLVED"}
       /\ Len(arptab[e].waiting) <= ARP_NTHRWAIT
       /\ arptab[e].expires \in -1 .. ARP_TTL_RESOLVED \cup -1 .. ARP_TTL_UNRESOLVED
  /\ msg \in [Thread -> {NULL, "RESOLVED", "TIMEOUT", "OTHER"}]

Current(e) == arptab[e].state # "ARP_FREE" /\ ~Expired(arptab[e])

\* One entry per address: arpLookup() and arpRecv() make a new one only when there
\* is none.
OneEntry ==
  \A e, f \in Slot : Current(e) /\ Current(f) /\ arptab[e].praddr = arptab[f].praddr
                       => e = f

\* An address that is resolved is the one that was announced last.
LatestAddress ==
  \A e \in Slot : arptab[e].state = "ARP_RESOLVED" =>
    /\ said[arptab[e].praddr] # <<>>
    /\ arptab[e].hwaddr = Head(said[arptab[e].praddr])

\* Whoever runs during send(): an address that is resolved was announced for the
\* protocol address it stands for, though entries are recycled under lookups and
\* answers that are going on.
AddressAnnounced ==
  \A e \in Slot : arptab[e].state = "ARP_RESOLVED" =>
    \E k \in 1 .. Len(said[arptab[e].praddr]) :
      arptab[e].hwaddr = said[arptab[e].praddr][k]

\* A thread is in the middle of arpLookup().
LookingUp(t) == thr[t].pc \notin {"idle", "masked"}

=============================================================================
