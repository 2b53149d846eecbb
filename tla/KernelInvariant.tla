--------------------------- MODULE KernelInvariant --------------------------
(***************************************************************************)
(* The inductive invariant of the thread kernel, and what ready() and      *)
(* resched() do to it.                                                     *)
(*                                                                         *)
(* The inductive invariant IInv says of the ready list, the sleep queue,   *)
(* the semaphore queues, the messages and the kills in progress how they   *)
(* go with the column of thread states.  Each of these is a predicate of   *)
(* an arbitrary state column, because a system call changes its tables     *)
(* first and then hands a new column to resched(): a call is proved by     *)
(* showing that the tables fit the column that it hands over (its own      *)
(* lemma), and that resched() cannot disturb the fit (Finish).             *)
(*                                                                         *)
(* At the end comes the account of threads and stacks, CountInv, which     *)
(* only create() and kill() move.                                          *)
(***************************************************************************)
EXTENDS Kernel, QueuesProofs

USE DEF THRCURR, THRFREE, THRREADY, THRRECV, THRSLEEP, THRSUSP, THRWAIT,
        THRTMOUT, ThreadState

\* A record that ready() and resched() work on, and what makes it sound: the
\* ready list holds each ready thread once and nobody else.
Sound(S, K, Q) ==
  /\ S \in [Tid -> ThreadState]
  /\ DOMAIN K = Tid
  /\ Q \in Seq(Tid) /\ NoDuplicates(Q)
  /\ \A t \in Tid : Contains(Q, t) <=> S[t] = THRREADY

\* What resched() keeps of the states it is given: it only exchanges THRCURR
\* and THRREADY.
SameBlocked(S, T) ==
  \A t \in Tid : IF S[t] \in {THRCURR, THRREADY}
                 THEN T[t] \in {THRCURR, THRREADY}
                 ELSE T[t] = S[t]

\* ready() of a thread that is not on the ready list yet keeps the record sound.
LEMMA ReadyStep ==
  ASSUME NEW S, NEW K, NEW Q, Sound(S, K, Q), NEW t \in Tid,
         state[t] # THRFREE, S[t] # THRREADY
  PROVE  \E K2, Q2 :
           /\ ready(Sched(S, K, Q), t) = Sched([S EXCEPT ![t] = THRREADY], K2, Q2)
           /\ Sound([S EXCEPT ![t] = THRREADY], K2, Q2)
<1> DEFINE S2 == [S EXCEPT ![t] = THRREADY]
           K2 == [K EXCEPT ![t] = prio[t]]
           Q2 == insert(Q, K, prio[t], t)
<1>1. ready(Sched(S, K, Q), t) = Sched(S2, K2, Q2)
  BY Zenon DEF ready, Sched, isbadtid
<1>2. /\ Q2 \in Seq(Tid) /\ NoDuplicates(Q2)
      /\ \A x : Contains(Q2, x) <=> Contains(Q, x) \/ x = t
  BY InsertMembers DEF Sound
<1> HIDE DEF Q2
<1>3. Sound(S2, K2, Q2)
  BY <1>2, Zenon DEF Sound
<1> QED BY <1>1, <1>3, Zenon

\* The dequeue in resched(): the first ready thread becomes the current one.
LEMMA DequeueStep ==
  ASSUME NEW S, NEW K, NEW Q, Sound(S, K, Q), Q # <<>>
  PROVE  /\ Head(Q) \in Tid /\ S[Head(Q)] = THRREADY
         /\ Sound([S EXCEPT ![Head(Q)] = THRCURR], K, Tail(Q))
<1>1. /\ Head(Q) \in Tid /\ Contains(Q, Head(Q))
      /\ Tail(Q) \in Seq(Tid) /\ NoDuplicates(Tail(Q))
      /\ \A x : Contains(Tail(Q), x) <=> Contains(Q, x) /\ x # Head(Q)
  BY TailMembers, Zenon DEF Sound
<1> QED BY <1>1, Zenon DEF Sound

RunSound ==
  /\ Sound(state, key, readylist)
  /\ thrcurrent \in Tid
  /\ \A t \in Tid : state[t] = THRCURR <=> t = thrcurrent
  /\ state[NULLTHREAD] \in {THRCURR, THRREADY}

\* The null thread has a slot of its own.
LEMMA NullIsTid == NULLTHREAD \in Tid
  BY KernelAssumption DEF NULLTHREAD, Tid

\* The branch of resched() that switches threads, in the form the next lemma
\* uses.
LEMMA ReschedSwitch ==
  ASSUME NEW r, NEW q,
         q = IF r.state[thrcurrent] = THRCURR THEN preempt(r) ELSE r,
         q.readylist # <<>>,
         ~(/\ r.state[thrcurrent] = THRCURR /\ r.readylist # <<>>
           /\ outranks(r)),
         resched(r)
  PROVE  /\ Becomes(Sched([q.state EXCEPT ![Head(q.readylist)] = THRCURR],
                          q.key, Tail(q.readylist)))
         /\ thrcurrent' = Head(q.readylist)
  BY Zenon DEF resched

\* resched() of the record S, K, Q: the running thread goes on, ...
GoesOn(S, K, Q) ==
  /\ S[thrcurrent] = THRCURR
  /\ state' = S /\ key' = K /\ readylist' = Q /\ thrcurrent' = thrcurrent

\* ... or it is put back on the ready list if it may run, and the first ready
\* thread is taken off it.
Switches(S, K, Q) ==
  \E S2, K2, Q2 :
    /\ Sound(S2, K2, Q2) /\ Q2 # <<>>
    /\ \/ /\ S[thrcurrent] = THRCURR
          /\ S2 = [S EXCEPT ![thrcurrent] = THRREADY]
          /\ K2 = [K EXCEPT ![thrcurrent] = prio[thrcurrent]]
          /\ Q2 = insert(Q, K, prio[thrcurrent], thrcurrent)
       \/ /\ S[thrcurrent] # THRCURR
          /\ S2 = S /\ K2 = K /\ Q2 = Q
    /\ state' = [S2 EXCEPT ![Head(Q2)] = THRCURR] /\ key' = K2
    /\ readylist' = Tail(Q2) /\ thrcurrent' = Head(Q2)

\* resched() of a sound record does one of the two: there is a ready thread,
\* because the null thread is running or ready.
LEMMA ReschedCases ==
  ASSUME NEW S, NEW K, NEW Q, Sound(S, K, Q), thrcurrent \in Tid,
         \A t \in Tid : S[t] = THRCURR => t = thrcurrent,
         S[NULLTHREAD] \in {THRCURR, THRREADY},
         resched(Sched(S, K, Q))
  PROVE  GoesOn(S, K, Q) \/ Switches(S, K, Q)
<1> DEFINE r == Sched(S, K, Q)
           runs == S[thrcurrent] = THRCURR
           stays == runs /\ Q # <<>> /\ outranks(r)
           q == IF runs THEN preempt(r) ELSE r
           Kept(S2, K2, Q2) ==
             \/ /\ runs
                /\ S2 = [S EXCEPT ![thrcurrent] = THRREADY]
                /\ K2 = [K EXCEPT ![thrcurrent] = prio[thrcurrent]]
                /\ Q2 = insert(Q, K, prio[thrcurrent], thrcurrent)
             \/ ~runs /\ S2 = S /\ K2 = K /\ Q2 = Q
<1>0. /\ r.state = S /\ r.key = K /\ r.readylist = Q
  BY Zenon DEF Sched
<1>1. CASE stays
  BY <1>0, <1>1, Zenon DEF resched, Becomes, GoesOn
<1>2. CASE ~stays
  <2>1. \E S2, K2, Q2 : /\ q = Sched(S2, K2, Q2) /\ Sound(S2, K2, Q2) /\ Q2 # <<>>
                        /\ Kept(S2, K2, Q2)
    <3>1. CASE runs
      <4> DEFINE Q2 == insert(Q, K, prio[thrcurrent], thrcurrent)
                 S2 == [S EXCEPT ![thrcurrent] = THRREADY]
                 K2 == [K EXCEPT ![thrcurrent] = prio[thrcurrent]]
      <4>1. q = Sched(S2, K2, Q2) /\ Kept(S2, K2, Q2)
        BY <3>1, Zenon DEF preempt, Sched
      <4>2. ~Contains(Q, thrcurrent)
        BY <3>1, Zenon DEF Sound
      <4>3. /\ Q2 \in Seq(Tid) /\ NoDuplicates(Q2) /\ Q2 # <<>>
            /\ \A x : Contains(Q2, x) <=> Contains(Q, x) \/ x = thrcurrent
        BY <4>2, InsertMembers DEF Sound
      <4> HIDE DEF Q2, Kept, q
      <4>4. Sound(S2, K2, Q2)
        BY <4>3, Zenon DEF Sound
      <4> HIDE DEF S2, K2
      <4> QED BY <4>1, <4>3, <4>4, Zenon
    <3>2. CASE ~runs
      <4>1. Contains(Q, NULLTHREAD)
        BY <3>2, NullIsTid, Zenon DEF Sound
      <4>2. Q # <<>>
        BY <4>1 DEF Contains
      <4> QED BY <3>2, <4>2, Zenon
    <3> QED BY <3>1, <3>2, Zenon
  <2> HIDE DEF Kept
  <2>2. PICK S2, K2, Q2 : /\ q = Sched(S2, K2, Q2) /\ Sound(S2, K2, Q2) /\ Q2 # <<>>
                          /\ Kept(S2, K2, Q2)
    BY <2>1, Zenon
  <2>3. /\ state' = [S2 EXCEPT ![Head(Q2)] = THRCURR] /\ key' = K2
        /\ readylist' = Tail(Q2) /\ thrcurrent' = Head(Q2)
    <3>1. q.state = S2 /\ q.key = K2 /\ q.readylist = Q2
      BY <2>2 DEF Sched
    <3>2. /\ Becomes(Sched([q.state EXCEPT ![Head(q.readylist)] = THRCURR],
                           q.key, Tail(q.readylist)))
          /\ thrcurrent' = Head(q.readylist)
      <4>1. /\ q = IF r.state[thrcurrent] = THRCURR THEN preempt(r) ELSE r
            /\ q.readylist # <<>>
            /\ ~(/\ r.state[thrcurrent] = THRCURR /\ r.readylist # <<>>
                 /\ outranks(r))
        BY <1>0, <1>2, <2>2, <3>1, Zenon
      <4> HIDE DEF q, r
      <4> QED BY <4>1, ReschedSwitch, Zenon DEF r
    <3> HIDE DEF q
    <3> QED BY <3>1, <3>2, Zenon DEF Becomes, Sched
  <2> QED BY <2>2, <2>3, Zenon DEF Kept, Switches
<1> QED BY <1>1, <1>2, Zenon

\* resched() of a sound record leaves exactly one thread current, whatever became
\* of the running thread, and blocked threads as they were.
LEMMA ReschedStep ==
  ASSUME NEW S, NEW K, NEW Q, Sound(S, K, Q), thrcurrent \in Tid,
         \A t \in Tid : S[t] = THRCURR => t = thrcurrent,
         S[NULLTHREAD] \in {THRCURR, THRREADY},
         resched(Sched(S, K, Q))
  PROVE  RunSound' /\ SameBlocked(S, state')
<1>1. CASE GoesOn(S, K, Q)
  BY <1>1, Zenon DEF GoesOn, RunSound, SameBlocked
<1>2. ASSUME NEW S2, NEW K2, NEW Q2, Sound(S2, K2, Q2), Q2 # <<>>,
             \/ S[thrcurrent] = THRCURR /\ S2 = [S EXCEPT ![thrcurrent] = THRREADY]
             \/ S[thrcurrent] # THRCURR /\ S2 = S,
             state' = [S2 EXCEPT ![Head(Q2)] = THRCURR], key' = K2,
             readylist' = Tail(Q2), thrcurrent' = Head(Q2)
      PROVE  RunSound' /\ SameBlocked(S, state')
  <2>1. /\ Head(Q2) \in Tid /\ S2[Head(Q2)] = THRREADY
        /\ Sound([S2 EXCEPT ![Head(Q2)] = THRCURR], K2, Tail(Q2))
    BY <1>2, DequeueStep, Zenon
  <2>2. S2 \in [Tid -> ThreadState] /\ \A t \in Tid : S2[t] # THRCURR
    BY <1>2, Zenon DEF Sound
  <2>3. SameBlocked(S, state')
    BY <1>2, <2>1, <2>2, Zenon DEF SameBlocked, Sound
  <2>4. \A t \in Tid : state'[t] = THRCURR <=> t = thrcurrent'
    BY <1>2, <2>1, <2>2, Zenon
  <2>5. state'[NULLTHREAD] \in {THRCURR, THRREADY}
    BY <2>3, NullIsTid, Zenon DEF SameBlocked
  <2> QED BY <1>2, <2>1, <2>3, <2>4, <2>5, Zenon DEF RunSound
<1>3. CASE Switches(S, K, Q)
  BY <1>2, <1>3, Zenon DEF Switches
<1> QED BY <1>1, <1>3, ReschedCases, Zenon

(***************************************************************************)
(* The other tables, as predicates of their values and of a state column   *)
(* S, so that they can be stated in the middle of a call.                  *)
(***************************************************************************)
SleepIs(q, S) ==
  /\ q \in Seq(Tid) /\ NoDuplicates(q)
  /\ \A t \in Tid : Contains(q, t) <=> S[t] \in {THRSLEEP, THRTMOUT}

SemIs(q, w, S) ==
  /\ q \in [Sem -> Seq(Tid)]
  /\ \A s \in Sem : NoDuplicates(q[s])
  /\ \A s \in Sem, t \in Tid : Contains(q[s], t) <=> S[t] = THRWAIT /\ w[t] = s

KillIs(k, c, S) ==
  /\ \A t \in Tid \ {NULLTHREAD} : S[t] # THRFREE => k[t] \in Stack
  /\ \A u \in Tid : c[u].op = "kill" =>
       /\ c[u].tid # NULLTHREAD
       /\ k[c[u].tid] \in Stack
       /\ S[c[u].tid] \notin {THRSLEEP, THRTMOUT}

MsgIs(m, c, S) ==
  \A t \in Tid :
    /\ S[t] = THRFREE => c[t] = User
    /\ S[t] \in {THRRECV, THRTMOUT} => m[t] = NOMSG
    /\ S[t] = THRRECV => c[t].op = "receive"
    /\ S[t] = THRTMOUT => c[t].op = "recvtime"
    /\ c[t].op = "receive" /\ S[t] \notin {THRRECV, THRFREE} => m[t] # NOMSG

Types ==
  /\ prio \in [Tid -> Int] /\ sem \in [Tid -> Nat]
  /\ msg \in [Tid -> Nat \cup {NOMSG}]
  /\ parent \in [Tid -> Tid] /\ stk \in [Tid -> Stack \cup {NOSTK}]
  /\ scount \in [Sem -> Int] /\ sstate \in [Sem -> {"SFREE", "SUSED"}]
  /\ nextsem \in Nat /\ nexttid \in Tid /\ thrcount \in Int
  /\ freestk \subseteq Stack /\ halted \in BOOLEAN
  /\ cont \in [Tid -> Cont]
  /\ kloop \in Loop /\ (kloop.op \in {"signaln", "semfree"} => kloop.sem \in Sem)
  /\ kloop.op = "signaln" => ~isbadsem(kloop.sem)
  /\ due \in [Tid -> Int]

IInv ==
  /\ RunSound
  /\ SleepIs(sleepq, state)
  /\ SemIs(semq, sem, state)
  /\ KillIs(stk, cont, state)
  /\ MsgIs(msg, cont, state)
  /\ Types
  /\ SemCountIsQueue

\* A step is done when its tables fit the state column S that it handed to
\* resched(): what resched() does to S cannot disturb them.
LEMMA Finish ==
  ASSUME NEW S, SameBlocked(S, state'), RunSound', Types', SemCountIsQueue',
         SleepIs(sleepq', S), SemIs(semq', sem', S),
         KillIs(stk', cont', S), MsgIs(msg', cont', S)
  PROVE  IInv'
<1>1. ASSUME NEW t \in Tid
      PROVE  /\ S[t] = THRFREE <=> state'[t] = THRFREE
             /\ S[t] = THRWAIT <=> state'[t] = THRWAIT
             /\ S[t] = THRRECV <=> state'[t] = THRRECV
             /\ S[t] = THRSLEEP <=> state'[t] = THRSLEEP
             /\ S[t] = THRTMOUT <=> state'[t] = THRTMOUT
  BY Zenon DEF SameBlocked
<1>2. SleepIs(sleepq', state')
  BY <1>1, Zenon DEF SleepIs
<1>3. SemIs(semq', sem', state')
  BY <1>1, Zenon DEF SemIs
<1>4. KillIs(stk', cont', state')
  <2>1. \A u \in Tid : cont'[u].tid \in Tid
    BY Zenon DEF Types, Cont
  <2> QED BY <1>1, <2>1, Zenon DEF KillIs
<1>5. MsgIs(msg', cont', state')
  BY <1>1, Zenon DEF MsgIs
<1> QED BY <1>2, <1>3, <1>4, <1>5, Zenon DEF IInv

\* The kills in progress fit a state column that frees no slot and puts
\* nobody to sleep, if no kill is begun.
LEMMA KillFits ==
  ASSUME IInv, NEW S, NEW c,
         \A t \in Tid : S[t] # THRFREE => state[t] # THRFREE,
         \A t \in Tid : S[t] \in {THRSLEEP, THRTMOUT}
                          => state[t] \in {THRSLEEP, THRTMOUT},
         \A u \in Tid : c[u].op = "kill" => c[u] = cont[u]
  PROVE  KillIs(stk, c, S)
<1>1. \A t \in Tid \ {NULLTHREAD} : S[t] # THRFREE => stk[t] \in Stack
  BY Zenon DEF IInv, KillIs
<1>2. ASSUME NEW u \in Tid, c[u].op = "kill"
      PROVE  /\ c[u].tid # NULLTHREAD /\ stk[c[u].tid] \in Stack
             /\ S[c[u].tid] \notin {THRSLEEP, THRTMOUT}
  <2>1. cont[u].op = "kill" /\ c[u].tid = cont[u].tid /\ cont[u].tid \in Tid
    BY <1>2, Zenon DEF IInv, Types, Cont
  <2>2. /\ cont[u].tid # NULLTHREAD /\ stk[cont[u].tid] \in Stack
        /\ state[cont[u].tid] \notin {THRSLEEP, THRTMOUT}
    BY <2>1, Zenon DEF IInv, KillIs
  <2> QED BY <2>1, <2>2, Zenon
<1> QED BY <1>1, <1>2, Zenon DEF KillIs

\* Changing no state is a special case of what resched() does.
LEMMA SameBlockedRefl ==
  ASSUME NEW S
  PROVE  SameBlocked(S, S)
  BY Zenon DEF SameBlocked

\* The inductive invariant is strong enough.
LEMMA Implied ==
  IInv => TypeOK /\ QueueDiscipline /\ OneRunning /\ MessageWakesReceiver
<1> SUFFICES ASSUME IInv
             PROVE  TypeOK /\ QueueDiscipline /\ OneRunning /\ MessageWakesReceiver
  BY Zenon
<1>1. TypeOK
  BY Zenon DEF IInv, RunSound, Sound, SleepIs, SemIs, Types, TypeOK
<1>2. QueueDiscipline
  BY Zenon DEF IInv, RunSound, Sound, SleepIs, SemIs, QueueDiscipline
<1>3. OneRunning
  BY Zenon DEF IInv, RunSound, OneRunning
<1>4. MessageWakesReceiver
  BY Zenon DEF IInv, MsgIs, MessageWakesReceiver
<1> QED BY <1>1, <1>2, <1>3, <1>4, Zenon

\* nulluser() leaves a state that satisfies the inductive invariant.
LEMMA InitIInv == Init => IInv
<1> SUFFICES ASSUME Init PROVE IInv
  BY Zenon
<1>0. /\ NULLTHREAD \in Tid /\ 1 \in Tid /\ NULLTHREAD # 1
      /\ NSTK \in Stack /\ Stack \subseteq Int
  BY KernelAssumption DEF Tid, Stack, NULLTHREAD
<1>1. RunSound
  <2>1. <<1>> \in Seq(Tid) /\ NoDuplicates(<<1>>)
    BY <1>0 DEF NoDuplicates
  <2>2. \A t : Contains(<<1>>, t) <=> t = 1
    BY DEF Contains
  <2>3. /\ state \in [Tid -> ThreadState]
        /\ \A t \in Tid : state[t] = THRREADY <=> t = 1
        /\ \A t \in Tid : state[t] = THRCURR <=> t = NULLTHREAD
    BY <1>0, Zenon DEF Init
  <2>4. DOMAIN key = Tid
    BY Zenon DEF Init
  <2> QED BY <1>0, <2>1, <2>2, <2>3, <2>4 DEF Init, RunSound, Sound
<1>2. \A t \in Tid : /\ state[t] \notin {THRWAIT, THRSLEEP, THRTMOUT, THRRECV}
                     /\ cont[t] = User /\ User.op = "user"
                     /\ t # NULLTHREAD /\ state[t] # THRFREE => stk[t] \in Stack
  BY <1>0, Zenon DEF Init, User, Rest
<1>3. \A x : ~Contains(<<>>, x)
  BY DEF Contains
<1>4. SleepIs(sleepq, state)
  BY <1>2, <1>3 DEF Init, SleepIs, NoDuplicates
<1>5. SemIs(semq, sem, state)
  BY <1>2, <1>3 DEF Init, SemIs, NoDuplicates
<1>6. KillIs(stk, cont, state)
  BY <1>2, Zenon DEF KillIs
<1>7. MsgIs(msg, cont, state)
  BY <1>2, Zenon DEF MsgIs
<1>8. Types
  <2>1. PICK p \in Prio : prio = [t \in Tid |-> IF t = 1 THEN p ELSE 0]
    BY Zenon DEF Init
  <2>2. prio \in [Tid -> Int]
    BY <2>1, KernelAssumption
  <2>3. cont \in [Tid -> Cont]
    BY <1>0, Zenon DEF Init, Cont, User, Rest
  <2>4. kloop \in Loop /\ kloop.op = "none"
    BY Zenon DEF Init, NoLoop, Loop
  <2>5. stk \in [Tid -> Stack \cup {NOSTK}]
    BY <1>0, Zenon DEF Init
  <2>6. /\ sem \in [Tid -> Nat] /\ msg \in [Tid -> Nat \cup {NOMSG}]
        /\ parent \in [Tid -> Tid] /\ due \in [Tid -> Int]
    BY <1>0 DEF Init
  <2>7. /\ scount \in [Sem -> Int] /\ sstate \in [Sem -> {"SFREE", "SUSED"}]
        /\ nextsem \in Nat
    BY DEF Init
  <2>8. nexttid \in Tid /\ thrcount \in Int /\ freestk \subseteq Stack
    BY <1>0 DEF Init
  <2>9. halted \in BOOLEAN
    BY Zenon DEF Init
  <2> QED BY <2>2, <2>3, <2>4, <2>5, <2>6, <2>7, <2>8, <2>9, Zenon DEF Types
<1>9. SemCountIsQueue
  BY DEF Init, SemCountIsQueue, isbadsem
<1> QED BY <1>1, <1>4, <1>5, <1>6, <1>7, <1>8, <1>9, Zenon DEF IInv

(***************************************************************************)
(* The ways in which a call uses the scheduler.                            *)
(***************************************************************************)
\* Who makes a system call, and in what state.
LEMMA Caller ==
  ASSUME IInv, NEW n, Calls(n)
  PROVE  /\ thrcurrent \in Tid /\ thrcurrent # NULLTHREAD
         /\ state[thrcurrent] = THRCURR
         /\ cont[thrcurrent] = User /\ kloop = NoLoop /\ ~halted
  BY Zenon DEF IInv, RunSound, Calls, UserMode

\* The current thread blocks: wait, receive, recvtime, sleep, suspend, kill.
LEMMA BlockStep ==
  ASSUME RunSound, thrcurrent # NULLTHREAD,
         NEW s \in ThreadState \ {THRCURR, THRREADY}, NEW K, DOMAIN K = Tid,
         resched(Sched([state EXCEPT ![thrcurrent] = s], K, readylist))
  PROVE  RunSound' /\ SameBlocked([state EXCEPT ![thrcurrent] = s], state')
<1> DEFINE S == [state EXCEPT ![thrcurrent] = s]
<1>1. Sound(S, K, readylist)
  BY Zenon DEF RunSound, Sound
<1>2. \A t \in Tid : S[t] = THRCURR => t = thrcurrent
  BY Zenon DEF RunSound, Sound
<1>3. S[NULLTHREAD] \in {THRCURR, THRREADY}
  BY NullIsTid, Zenon DEF RunSound, Sound
<1>4. thrcurrent \in Tid
  BY Zenon DEF RunSound
<1> HIDE DEF S
<1> QED BY <1>1, <1>2, <1>3, <1>4, ReschedStep, Zenon DEF S

\* resched() alone: yield, a short sleep, the clock interrupt.
LEMMA PlainStep ==
  ASSUME RunSound, NEW K, DOMAIN K = Tid,
         resched(Sched(state, K, readylist))
  PROVE  RunSound' /\ SameBlocked(state, state')
<1>1. Sound(state, K, readylist) /\ thrcurrent \in Tid
  BY Zenon DEF RunSound, Sound
<1> QED BY <1>1, ReschedStep, Zenon DEF RunSound

\* ready() and resched() of a blocked thread: signal, send, resume.
LEMMA WakeStep ==
  ASSUME RunSound, NEW t \in Tid, NEW K, DOMAIN K = Tid,
         state[t] \notin {THRCURR, THRREADY, THRFREE},
         resched(ready(Sched(state, K, readylist), t))
  PROVE  RunSound' /\ SameBlocked([state EXCEPT ![t] = THRREADY], state')
<1> DEFINE S == [state EXCEPT ![t] = THRREADY]
<1>1. Sound(state, K, readylist)
  BY Zenon DEF RunSound, Sound
<1>2. PICK K2, Q2 : /\ ready(Sched(state, K, readylist), t) = Sched(S, K2, Q2)
                    /\ Sound(S, K2, Q2)
  BY <1>1, ReadyStep, Zenon
<1>3. \A x \in Tid : S[x] = THRCURR => x = thrcurrent
  BY Zenon DEF RunSound, Sound
<1>4. S[NULLTHREAD] \in {THRCURR, THRREADY}
  BY NullIsTid, Zenon DEF RunSound, Sound
<1>5. thrcurrent \in Tid
  BY Zenon DEF RunSound
<1> HIDE DEF S
<1> QED BY <1>2, <1>3, <1>4, <1>5, ReschedStep, Zenon DEF S

\* ready() without resched(): signaln, semfree, wakeup, and ready() itself.
LEMMA ReadyOnlyStep ==
  ASSUME RunSound, NEW t \in Tid,
         state[t] \notin {THRCURR, THRREADY, THRFREE},
         Becomes(ready(Now, t)), UNCHANGED thrcurrent
  PROVE  RunSound' /\ state' = [state EXCEPT ![t] = THRREADY]
<1> DEFINE S == [state EXCEPT ![t] = THRREADY]
<1>1. Sound(state, key, readylist)
  BY Zenon DEF RunSound
<1>2. PICK K2, Q2 : /\ ready(Sched(state, key, readylist), t) = Sched(S, K2, Q2)
                    /\ Sound(S, K2, Q2)
  BY <1>1, ReadyStep, Zenon
<1>3. state' = S /\ key' = K2 /\ readylist' = Q2
  <2> HIDE DEF S
  <2>1. Becomes(Sched(S, K2, Q2))
    BY <1>2, Zenon DEF Now
  <2> QED BY <2>1, Zenon DEF Becomes, Sched
<1>4. \A x \in Tid : S[x] = THRCURR <=> x = thrcurrent
  BY Zenon DEF RunSound, Sound
<1>5. S[NULLTHREAD] \in {THRCURR, THRREADY}
  BY NullIsTid, Zenon DEF RunSound, Sound
<1> HIDE DEF S
<1>6. RunSound'
  BY <1>2, <1>3, <1>4, <1>5, Zenon DEF RunSound
<1> QED BY <1>3, <1>6, Zenon DEF S

(***************************************************************************)
(* Semaphores.                                                             *)
(***************************************************************************)
\* A thread in user code takes part in no receive, recvtime or kill.
LEMMA UserIsIdle == User.op = "user" /\ User \in Cont
  BY NullIsTid, Zenon DEF User, Rest, Cont

\* No kernel loop is none of the loops.
LEMMA NoLoopIsIdle == NoLoop \in Loop /\ NoLoop.op = "none"
  BY Zenon DEF NoLoop, Loop

\* Types of the semaphore table.
LEMMA SemFacts ==
  ASSUME IInv, NEW s \in Sem
  PROVE  s \in Nat /\ scount[s] \in Int /\ semq[s] \in Seq(Tid) /\ Len(semq[s]) \in Nat
<1>1. s \in Nat
  BY KernelAssumption DEF Sem
<1>2. scount[s] \in Int /\ semq[s] \in Seq(Tid)
  BY Zenon DEF IInv, Types, SemIs
<1> QED BY <1>1, <1>2, QueueType, Zenon

\* Waking a waiting or suspended thread disturbs neither sleepers nor messages
\* nor kills in progress.
LEMMA WakeFits ==
  ASSUME IInv, NEW t \in Tid, state[t] \in {THRWAIT, THRSUSP}
  PROVE  LET S == [state EXCEPT ![t] = THRREADY]
         IN  /\ SleepIs(sleepq, S) /\ KillIs(stk, cont, S) /\ MsgIs(msg, cont, S)
             /\ state[t] = THRSUSP => SemIs(semq, sem, S)
<1> DEFINE S == [state EXCEPT ![t] = THRREADY]
<1>1. state \in [Tid -> ThreadState]
  BY Zenon DEF IInv, RunSound, Sound
<1>2. SleepIs(sleepq, S)
  BY <1>1, Zenon DEF IInv, SleepIs
<1>3. KillIs(stk, cont, S)
  BY <1>1 DEF IInv, KillIs
<1>4. MsgIs(msg, cont, S)
  BY <1>1, Zenon DEF IInv, MsgIs
<1>5. state[t] = THRSUSP => SemIs(semq, sem, S)
  BY <1>1, Zenon DEF IInv, SemIs
<1> QED BY <1>2, <1>3, <1>4, <1>5, Zenon

\* The first thread on the queue of a semaphore waits.
LEMMA HeadWaits ==
  ASSUME IInv, NEW s \in Sem, semq[s] # <<>>
  PROVE  Head(semq[s]) \in Tid /\ state[Head(semq[s])] = THRWAIT
<1>1. semq[s] \in Seq(Tid) /\ NoDuplicates(semq[s])
  BY Zenon DEF IInv, SemIs
<1>2. Head(semq[s]) \in Tid /\ Contains(semq[s], Head(semq[s]))
  BY <1>1, TailMembers, Zenon
<1> QED BY <1>2, Zenon DEF IInv, SemIs

(***************************************************************************)
(* The account of threads and stacks.                                      *)
(***************************************************************************)

\* Kills in progress have different targets, all of them alive, and no target is
\* itself in the middle of another kill().
KillsApart ==
  \A u \in Tid : cont[u].op = "kill" =>
    /\ state[cont[u].tid] # THRFREE
    /\ \A v \in Tid \ {u} : cont[v].op = "kill" => cont[v].tid \notin {u, cont[u].tid}

CountInv == ThreadsAccounted /\ KillsApart /\ stk[NULLTHREAD] = NOSTK

\* What all calls but create() and kill() leave alone.
SameFree == \A x \in Tid : state'[x] = THRFREE <=> state[x] = THRFREE

SameKills ==
  \A u \in Tid : \/ cont'[u] = cont[u]
                 \/ cont[u].op # "kill" /\ cont'[u].op # "kill"

Steady == SameFree /\ SameKills /\ UNCHANGED <<thrcount, halted, freestk, stk>>

\* The threads that count are finitely many.
LEMMA CountedFinite ==
  ASSUME Counting
  PROVE  IsFiniteSet(Counted) /\ Cardinality(Counted) \in Nat
<1>1. IsFiniteSet(Tid)
  <2>1. NTHREAD - 1 \in Int /\ 0 \in Int
    BY KernelAssumption
  <2> QED BY <2>1, Zenon DEF Counting, Tid
<1>2. Counted \in SUBSET Tid
  BY Zenon DEF Counted, Live
<1>3. IsFiniteSet(Counted)
  BY <1>1, <1>2, Zenon DEF Counting
<1> QED BY <1>3, Zenon DEF Counting

\* A kill in progress, and the types it needs.
LEMMA KillFacts ==
  ASSUME IInv
  PROVE  /\ cont \in [Tid -> Cont] /\ \A u \in Tid : cont[u].tid \in Tid
         /\ state \in [Tid -> ThreadState] /\ stk \in [Tid -> Stack \cup {NOSTK}]
         /\ thrcurrent \in Tid /\ state[thrcurrent] = THRCURR
         /\ thrcount \in Int /\ halted \in BOOLEAN
  BY Zenon DEF IInv, Types, Cont, RunSound, Sound

\* Such a call keeps the account.
LEMMA SteadyCounts ==
  ASSUME IInv, IInv', CountInv, Steady
  PROVE  CountInv'
<1>1. /\ \A u \in Tid : cont[u].tid \in Tid /\ cont'[u].tid \in Tid
  BY Zenon DEF IInv, Types, Cont
<1>2. \A u \in Tid : cont'[u].op = "kill" <=> cont[u].op = "kill"
  BY Zenon DEF Steady, SameKills
<1>3. \A u \in Tid : cont[u].op = "kill" => cont'[u].tid = cont[u].tid
  BY <1>2, Zenon DEF Steady, SameKills
<1>4. Live' = Live
  BY Zenon DEF Live, Steady, SameFree
<1>5. \A t \in Tid : Dying(t)' <=> Dying(t)
  BY <1>2, <1>3, Zenon DEF Dying
<1>6. Counted' = Counted
  BY <1>4, <1>5, Zenon DEF Counted, Live
<1>7. ThreadsAccounted'
  BY <1>4, <1>6, Zenon DEF CountInv, ThreadsAccounted, Steady
<1>8. KillsApart'
  BY <1>1, <1>2, <1>3 DEF CountInv, KillsApart, Steady, SameFree
<1> QED BY <1>7, <1>8, Zenon DEF CountInv, Steady

\* resched() frees no slot.
LEMMA BlockedFree ==
  ASSUME NEW S, SameBlocked(S, state'), \A x \in Tid : S[x] = THRFREE <=> state[x] = THRFREE
  PROVE  SameFree
  BY Zenon DEF SameBlocked, SameFree

\* Blocking the current thread frees no slot.
LEMMA BlockFree ==
  ASSUME IInv, thrcurrent # NULLTHREAD, NEW s \in ThreadState \ {THRCURR, THRREADY, THRFREE},
         NEW K, DOMAIN K = Tid,
         resched(Sched([state EXCEPT ![thrcurrent] = s], K, readylist))
  PROVE  SameFree
<1>1. PICK S : S = [state EXCEPT ![thrcurrent] = s]
  BY Zenon
<1>2. SameBlocked(S, state')
  BY <1>1, BlockStep, Zenon DEF IInv
<1>3. \A x \in Tid : S[x] = THRFREE <=> state[x] = THRFREE
  BY <1>1, KillFacts, Zenon
<1> QED BY <1>2, <1>3, BlockedFree, Zenon

\* Neither does resched() alone ...
LEMMA PlainFree ==
  ASSUME IInv, NEW K, DOMAIN K = Tid, resched(Sched(state, K, readylist))
  PROVE  SameFree
<1>1. PICK S : S = state
  BY Zenon
<1>2. SameBlocked(S, state')
  BY <1>1, PlainStep, Zenon DEF IInv
<1> QED BY <1>1, <1>2, BlockedFree, Zenon

\* ... or waking a thread.
LEMMA WakeFree ==
  ASSUME IInv, NEW t \in Tid, NEW K, DOMAIN K = Tid,
         state[t] \notin {THRCURR, THRREADY, THRFREE},
         resched(ready(Sched(state, K, readylist), t))
  PROVE  SameFree
<1>1. PICK S : S = [state EXCEPT ![t] = THRREADY]
  BY Zenon
<1>2. SameBlocked(S, state')
  BY <1>1, WakeStep, Zenon DEF IInv
<1>3. \A x \in Tid : S[x] = THRFREE <=> state[x] = THRFREE
  BY <1>1, KillFacts, Zenon
<1> QED BY <1>2, <1>3, BlockedFree, Zenon

\* ready() without resched() frees no slot.
LEMMA ReadyFree ==
  ASSUME IInv, NEW t \in Tid, state[t] \notin {THRCURR, THRREADY, THRFREE},
         Becomes(ready(Now, t)), UNCHANGED thrcurrent
  PROVE  SameFree
<1>1. state' = [state EXCEPT ![t] = THRREADY]
  BY ReadyOnlyStep, Zenon DEF IInv
<1> QED BY <1>1, KillFacts, Zenon DEF SameFree

\* send() frees no slot.
LEMMA SendFree ==
  ASSUME IInv, NEW t \in Tid, NEW m, send(t, m)
  PROVE  SameFree
<1>1. DOMAIN key = Tid
  BY Zenon DEF IInv, RunSound, Sound
<1>2. CASE refuses(t) \/ state[t] \notin {THRRECV, THRTMOUT}
  BY <1>2, Zenon DEF send, ready_vars, SameFree
<1>3. CASE ~refuses(t) /\ state[t] = THRRECV
  <2>1. resched(ready(Sched(state, key, readylist), t))
    BY <1>3, Zenon DEF send, Now
  <2> QED BY <1>1, <1>3, <2>1, WakeFree, Zenon
<1>4. CASE ~refuses(t) /\ state[t] = THRTMOUT
  <2>1. PICK K : K = unsleep_key(sleepq, key, t)
    BY Zenon
  <2>2. resched(ready(Sched(state, K, readylist), t))
    BY <1>4, <2>1, Zenon DEF send
  <2>3. DOMAIN K = Tid
    BY <1>1, <2>1, Zenon DEF unsleep_key
  <2> QED BY <1>4, <2>2, <2>3, WakeFree, Zenon
<1> QED BY <1>2, <1>3, <1>4, Zenon

\* BlockFor() frees no slot.
LEMMA BlockForFree ==
  ASSUME IInv, thrcurrent # NULLTHREAD, NEW d, NEW s \in {THRSLEEP, THRTMOUT}, BlockFor(d, s)
  PROVE  SameFree
<1>1. PICK K : K = insertd_key(sleepq, key, thrcurrent, d)
  BY Zenon
<1>2. resched(Sched([state EXCEPT ![thrcurrent] = s], K, readylist))
  BY <1>1, Zenon DEF BlockFor
<1>3. DOMAIN K = Tid
  BY <1>1, Zenon DEF insertd_key, IInv, RunSound, Sound
<1> QED BY <1>2, <1>3, BlockFree, Zenon

\* The semaphore calls and their loops create and kill nobody.
LEMMA SemSteady ==
  ASSUME IInv, SemCall \/ signaln_loop \/ semfree_loop
  PROVE  Steady
<1>1. SameKills /\ UNCHANGED <<thrcount, halted, freestk, stk>>
  BY Zenon DEF SemCall, wait, signal, signaln, semcreate, semfree, signaln_loop, semfree_loop,
         SameKills, table_vars, entry_vars
<1>2. DOMAIN key = Tid
  BY Zenon DEF IInv, RunSound, Sound
<1>3. ASSUME NEW s \in Sem, wait(s) PROVE SameFree
  <2>1. CASE scount[s] - 1 < 0
    <3>1. resched(Sched([state EXCEPT ![thrcurrent] = THRWAIT], key, readylist))
      BY <1>3, <2>1, Zenon DEF wait, Block
    <3>2. thrcurrent # NULLTHREAD
      BY <1>3, Caller, Zenon DEF wait
    <3> QED BY <1>2, <3>1, <3>2, BlockFree, Zenon
  <2>2. CASE ~(scount[s] - 1 < 0)
    BY <1>3, <2>2, Zenon DEF wait, ready_vars, SameFree
  <2> QED BY <2>1, <2>2, Zenon
<1>4. ASSUME NEW s \in Sem, signal(s) PROVE SameFree
  <2>1. CASE scount[s] < 0 /\ semq[s] # <<>>
    <3>1. PICK t \in Tid : t = Head(semq[s]) /\ state[t] = THRWAIT
      BY <2>1, HeadWaits, Zenon
    <3>2. resched(ready(Sched(state, key, readylist), t))
      BY <1>4, <2>1, <3>1, Zenon DEF signal, Released, Now
    <3> QED BY <1>2, <3>1, <3>2, WakeFree, Zenon
  <2>2. CASE scount[s] < 0 /\ semq[s] = <<>>
    <3>1. resched(Sched(state, key, readylist))
      BY <1>4, <2>2, Zenon DEF signal, Released, Now
    <3> QED BY <1>2, <3>1, PlainFree, Zenon
  <2>3. CASE ~(scount[s] < 0)
    BY <1>4, <2>3, Zenon DEF signal, ready_vars, SameFree
  <2> QED BY <2>1, <2>2, <2>3, Zenon
<1>5. ASSUME NEW s \in Sem, \/ semfree(s)
                            \/ \E n \in 1 .. MaxSignal : signaln(s, n)
                            \/ \E n \in InitCounts : semcreate(s, n)
      PROVE  SameFree
  BY <1>5, Zenon DEF semfree, signaln, semcreate, ready_vars, SameFree
<1>6. ASSUME signaln_loop PROVE SameFree
  <2>1. PICK s \in Sem : s = kloop.sem
    BY <1>6, Zenon DEF signaln_loop, IInv, Types
  <2>2. CASE kloop.n > 0 /\ scount[s] < 0 /\ semq[s] # <<>>
    <3>1. PICK t \in Tid : t = Head(semq[s]) /\ state[t] = THRWAIT
      BY <2>2, HeadWaits, Zenon
    <3>2. Becomes(ready(Now, t)) /\ UNCHANGED thrcurrent
      BY <1>6, <2>1, <2>2, <3>1, Zenon DEF signaln_loop, Released
    <3> QED BY <3>1, <3>2, ReadyFree, Zenon
  <2>3. CASE kloop.n > 0 /\ ~(scount[s] < 0 /\ semq[s] # <<>>)
    <3>1. Becomes(Now)
      BY <1>6, <2>1, <2>3, Zenon DEF signaln_loop, Released
    <3> QED BY <3>1, Zenon DEF Becomes, Now, Sched, SameFree
  <2>4. CASE ~(kloop.n > 0)
    <3>1. resched(Sched(state, key, readylist))
      BY <1>6, <2>4, Zenon DEF signaln_loop, Now
    <3> QED BY <1>2, <3>1, PlainFree, Zenon
  <2> QED BY <2>2, <2>3, <2>4, Zenon
<1>7. ASSUME semfree_loop PROVE SameFree
  <2>1. PICK s \in Sem : s = kloop.sem
    BY <1>7, Zenon DEF semfree_loop, IInv, Types
  <2>2. CASE semq[s] # <<>>
    <3>1. PICK t \in Tid : t = Head(semq[s]) /\ state[t] = THRWAIT
      BY <2>2, HeadWaits, Zenon
    <3>2. Becomes(ready(Now, t)) /\ UNCHANGED thrcurrent
      BY <1>7, <2>1, <2>2, <3>1, Zenon DEF semfree_loop
    <3> QED BY <3>1, <3>2, ReadyFree, Zenon
  <2>3. CASE semq[s] = <<>>
    BY <1>7, <2>1, <2>3, Zenon DEF semfree_loop, SameFree
  <2> QED BY <2>2, <2>3, Zenon
<1>8. SameFree
  BY <1>3, <1>4, <1>5, <1>6, <1>7, Zenon DEF SemCall
<1> QED BY <1>1, <1>8, Zenon DEF Steady

\* The message calls create and kill nobody.
LEMMA MsgSteady ==
  ASSUME IInv, MsgCall \/ receive_return
  PROVE  Steady
<1>1. UNCHANGED <<thrcount, halted, freestk, stk>>
  BY Zenon DEF MsgCall, receive, recvclr, recvtime, Send, receive_return, table_vars, entry_vars
<1>2. cont \in [Tid -> Cont] /\ thrcurrent \in Tid /\ DOMAIN key = Tid
  BY KillFacts, Zenon DEF IInv, RunSound, Sound
<1>3. /\ User.op # "kill" /\ Rest("receive", NULLTHREAD).op # "kill"
      /\ Rest("recvtime", NULLTHREAD).op # "kill"
  BY Zenon DEF User, Rest
<1>4. SameKills
  <2>1. ASSUME MsgCall PROVE SameKills
    <3>1. \/ cont' = cont
          \/ /\ cont[thrcurrent] = User
             /\ \E o \in {"receive", "recvtime"} :
                  cont' = [cont EXCEPT ![thrcurrent] = Rest(o, NULLTHREAD)]
      BY <2>1, Zenon DEF MsgCall, receive, recvclr, recvtime, Send, Calls, UserMode
    <3> QED BY <1>2, <1>3, <3>1, Zenon DEF SameKills
  <2>2. ASSUME receive_return PROVE SameKills
    BY <1>2, <1>3, <2>2, Zenon DEF receive_return, SameKills
  <2> QED BY <2>1, <2>2, Zenon
<1>5. ASSUME receive PROVE SameFree
  <2>1. CASE msg[thrcurrent] # NOMSG
    BY <1>5, <2>1, Zenon DEF receive, ready_vars, SameFree
  <2>2. CASE ~(msg[thrcurrent] # NOMSG)
    <3>1. resched(Sched([state EXCEPT ![thrcurrent] = THRRECV], key, readylist))
      BY <1>5, <2>2, Zenon DEF receive, Block
    <3>2. thrcurrent # NULLTHREAD
      BY <1>5, Caller, Zenon DEF receive
    <3> QED BY <1>2, <3>1, <3>2, BlockFree, Zenon
  <2> QED BY <2>1, <2>2, Zenon
<1>6. ASSUME NEW d \in Delays, recvtime(d) PROVE SameFree
  <2>1. CASE msg[thrcurrent] # NOMSG
    BY <1>6, <2>1, Zenon DEF recvtime, ready_vars, SameFree
  <2>2. CASE ~(msg[thrcurrent] # NOMSG)
    <3>1. BlockFor(d, THRTMOUT) /\ thrcurrent # NULLTHREAD
      BY <1>6, <2>2, Caller, Zenon DEF recvtime
    <3> QED BY <3>1, BlockForFree, Zenon
  <2> QED BY <2>1, <2>2, Zenon
<1>7. ASSUME recvclr \/ receive_return PROVE SameFree
  BY <1>7, Zenon DEF recvclr, receive_return, ready_vars, SameFree
<1>8. ASSUME NEW t \in Tid, NEW m \in UserMsgs, Send(t, m) PROVE SameFree
  BY <1>8, SendFree, Zenon DEF Send
<1>9. SameFree
  BY <1>5, <1>6, <1>7, <1>8, Zenon DEF MsgCall
<1> QED BY <1>1, <1>4, <1>9, Zenon DEF Steady

\* Neither do yield, sleep, suspend, resume, chprio and the clock handler.
LEMMA TimeSteady ==
  ASSUME IInv,
         \/ yield \/ \E ms \in Millis : sleep(ms)
         \/ \E t \in Tid : suspend(t) \/ resume(t) \/ start(t)
         \/ \E t \in Tid, p \in Prio : chprio(t, p)
         \/ clkhandler \/ wakeup_loop \/ UNCHANGED vars
  PROVE  Steady
<1>1. SameKills /\ UNCHANGED <<thrcount, halted, freestk, stk>>
  BY Zenon DEF yield, sleep, suspend, resume, start, chprio, clkhandler, wakeup_loop, vars,
         SameKills, table_vars, entry_vars
<1>2. DOMAIN key = Tid
  BY Zenon DEF IInv, RunSound, Sound
<1>3. ASSUME resched(Now) PROVE SameFree
  <2>1. resched(Sched(state, key, readylist))
    BY <1>3, Zenon DEF Now
  <2> QED BY <1>2, <2>1, PlainFree, Zenon
<1>4. ASSUME yield PROVE SameFree
  BY <1>3, <1>4, Zenon DEF yield
<1>5. ASSUME NEW ms \in Millis, sleep(ms) PROVE SameFree
  <2>1. thrcurrent # NULLTHREAD /\ (BlockFor(ticks(ms), THRSLEEP) \/ resched(Now))
    BY <1>5, Caller, Zenon DEF sleep
  <2> QED BY <1>3, <2>1, BlockForFree, Zenon
<1>6. ASSUME NEW t \in Tid, suspend(t) PROVE SameFree
  <2>1. CASE state[t] = THRREADY
    BY <1>6, <2>1, KillFacts, Zenon DEF suspend, SameFree
  <2>2. CASE state[t] = THRCURR
    <3>1. resched(Sched([state EXCEPT ![thrcurrent] = THRSUSP], key, readylist))
      BY <1>6, <2>2, Zenon DEF suspend, Block
    <3>2. thrcurrent # NULLTHREAD
      BY <1>6, Caller, Zenon DEF suspend
    <3> QED BY <1>2, <3>1, <3>2, BlockFree, Zenon
  <2> QED BY <1>6, <2>1, <2>2, Zenon DEF suspend
<1>7. ASSUME NEW t \in Tid, resume(t) PROVE SameFree
  <2>1. resched(ready(Sched(state, key, readylist), t)) /\ state[t] = THRSUSP
    BY <1>7, Zenon DEF resume, Now
  <2> QED BY <1>2, <2>1, WakeFree, Zenon
<1>8. ASSUME NEW t \in Tid, start(t) PROVE SameFree
  <2>1. Becomes(ready(Now, t)) /\ UNCHANGED thrcurrent /\ state[t] = THRSUSP
    BY <1>8, Zenon DEF start
  <2> QED BY <2>1, ReadyFree, Zenon
<1>9. ASSUME (\E t \in Tid, p \in Prio : chprio(t, p)) \/ UNCHANGED vars PROVE SameFree
  BY <1>9, Zenon DEF chprio, vars, ready_vars, SameFree
<1>10. ASSUME clkhandler PROVE SameFree
  <2>1. PICK K : K = Ticked
    BY Zenon
  <2>2. \/ resched(Now) \/ UNCHANGED state
        \/ resched(Sched(state, K, readylist))
    BY <1>10, <2>1, Zenon DEF clkhandler
  <2>3. DOMAIN K = Tid
    BY <1>2, <2>1, Zenon DEF Ticked
  <2> QED BY <1>3, <2>2, <2>3, PlainFree, Zenon DEF SameFree
<1>11. ASSUME wakeup_loop PROVE SameFree
  <2>1. CASE sleepq # <<>> /\ key[Head(sleepq)] <= 0
    <3>1. sleepq \in Seq(Tid) /\ NoDuplicates(sleepq)
      BY Zenon DEF IInv, SleepIs
    <3>2. PICK t \in Tid : t = Head(sleepq) /\ Contains(sleepq, t)
      BY <2>1, <3>1, TailMembers, Zenon
    <3>3. state[t] \in {THRSLEEP, THRTMOUT}
      BY <3>2, Zenon DEF IInv, SleepIs
    <3>4. Becomes(ready(Now, t)) /\ UNCHANGED thrcurrent
      BY <1>11, <2>1, <3>2, Zenon DEF wakeup_loop
    <3> QED BY <3>3, <3>4, ReadyFree, Zenon
  <2>2. CASE ~(sleepq # <<>> /\ key[Head(sleepq)] <= 0)
    BY <1>3, <1>11, <2>2, Zenon DEF wakeup_loop
  <2> QED BY <2>1, <2>2, Zenon
<1>12. SameFree
  BY <1>4, <1>5, <1>6, <1>7, <1>8, <1>9, <1>10, <1>11, Zenon
<1> QED BY <1>1, <1>12, Zenon DEF Steady

\* create() counts the thread it makes, and gives it a stack nobody has.
LEMMA CreateCounts ==
  ASSUME Counting, IInv, CountInv, NEW p \in Prio, create(p)
  PROVE  CountInv'
<1>1. UNCHANGED <<cont, halted>> /\ ~halted
  BY Zenon DEF create, Calls, UserMode
<1>2. PICK b \in Stack \cup {SYSERR}, t \in Tid \cup {SYSERR} :
        /\ stkget(b) /\ thrnew(t)
        /\ IF b = SYSERR \/ t = SYSERR
           THEN UNCHANGED <<thrcount, state, entry_vars, msg>>
           ELSE enter(t, b, p)
  BY Zenon DEF create
<1>3. \A x \in Tid : Dying(x)' <=> Dying(x)
  BY <1>1, Zenon DEF Dying
<1>4. freestk' \subseteq freestk
  BY <1>2, Zenon DEF stkget
<1>5. CASE b = SYSERR \/ t = SYSERR
  <2>1. UNCHANGED <<thrcount, state, stk>>
    BY <1>2, <1>5, Zenon DEF entry_vars
  <2>2. Live' = Live
    BY <2>1, Zenon DEF Live
  <2>3. Counted' = Counted
    BY <1>3, <2>2, Zenon DEF Counted, Live
  <2>4. ThreadsAccounted'
    BY <1>1, <1>4, <2>1, <2>2, <2>3, Zenon DEF CountInv, ThreadsAccounted
  <2>5. KillsApart'
    BY <1>1, <2>1, Zenon DEF CountInv, KillsApart
  <2> QED BY <2>1, <2>4, <2>5, Zenon DEF CountInv
<1>6. CASE ~(b = SYSERR \/ t = SYSERR)
  <2>1. /\ t \in Tid /\ b \in Stack /\ state[t] = THRFREE
        /\ thrcount' = thrcount + 1
        /\ state' = [state EXCEPT ![t] = THRSUSP]
        /\ stk' = [stk EXCEPT ![t] = b]
    BY <1>2, <1>6, Zenon DEF enter, thrnew
  <2>2. b \in freestk /\ freestk' = freestk \ {b}
    BY <1>2, <1>6, Zenon DEF stkget
  <2>3. /\ state'[t] = THRSUSP /\ \A x \in Tid \ {t} : state'[x] = state[x]
        /\ stk'[t] = b /\ \A x \in Tid \ {t} : stk'[x] = stk[x]
    BY <2>1, KillFacts, Zenon
  <2>4. Live' = Live \cup {t} /\ t \notin Live
    BY <2>1, <2>3, Zenon DEF Live
  <2>5. ~Dying(t)
    BY <2>1, Zenon DEF CountInv, KillsApart, Dying
  <2>6. Counted' = Counted \cup {t} /\ t \notin Counted
    BY <1>3, <2>1, <2>4, <2>5, Zenon DEF Counted, Live
  <2>7. Cardinality(Counted') = Cardinality(Counted) + 1
    <3>1. PICK C : C = Counted
      BY Zenon
    <3>2. IsFiniteSet(C)
      BY <3>1, CountedFinite, Zenon
    <3>3. Cardinality(C \cup {t}) = Cardinality(C) + 1
      BY <2>6, <3>1, <3>2, Zenon DEF Counting
    <3> QED BY <2>6, <3>1, <3>3, Zenon
  <2>8. thrcount' = Cardinality(Counted') /\ Cardinality(Counted') \in Nat
    BY <1>1, <2>1, <2>7, CountedFinite DEF CountInv, ThreadsAccounted
  <2>9. t # NULLTHREAD /\ NULLTHREAD \in Tid
    BY <2>1, NullIsTid, Zenon DEF IInv, RunSound
  <2>10. ASSUME NEW x \in Live' \ {NULLTHREAD}
         PROVE  /\ stk'[x] \in Stack \ freestk'
                /\ \A u \in Live' \ {x} : stk'[u] # stk'[x]
    <3>1. \A u \in Live : u \in Tid \ {t} /\ stk[u] # b
      <4>1. NOSTK \notin Stack
        BY KernelAssumption DEF Stack, NOSTK
      <4> QED BY <2>1, <2>2, <2>4, <4>1, Zenon DEF CountInv, ThreadsAccounted, Live
    <3>2. CASE x = t
      BY <2>1, <2>2, <2>3, <2>4, <3>1, <3>2
    <3>3. CASE x # t
      BY <2>2, <2>3, <2>4, <3>1, <3>3 DEF CountInv, ThreadsAccounted
    <3> QED BY <3>2, <3>3, Zenon
  <2>11. ThreadsAccounted'
    BY <1>1, <2>8, <2>10 DEF ThreadsAccounted
  <2>12. KillsApart'
    BY <1>1, <2>1, <2>3, KillFacts, Zenon DEF CountInv, KillsApart
  <2> QED BY <2>3, <2>9, <2>11, <2>12, Zenon DEF CountInv
<1> QED BY <1>5, <1>6, Zenon

\* kill() no longer counts its target, and halts when only the null thread and
\* the target are left.
LEMMA KillCounts ==
  ASSUME Counting, IInv, CountInv, KillOverlap = FALSE, NEW t \in Tid, kill(t)
  PROVE  CountInv'
<1>1. /\ cont[thrcurrent] = User /\ ~halted /\ state[t] # THRFREE
      /\ ~Dying(t) /\ cont[t].op # "kill" /\ ~Dying(thrcurrent)
      /\ thrcount' = thrcount - 1 /\ UNCHANGED <<freestk, stk>>
  BY Caller, Zenon DEF kill, Calls, UserMode, MayKill, isbadtid, entry_vars
<1>2. thrcount = Cardinality(Counted) /\ Cardinality(Counted) \in Nat
  BY <1>1, CountedFinite DEF CountInv, ThreadsAccounted
<1>3. CASE thrcount - 1 <= 1
  <2>1. halted' = TRUE /\ UNCHANGED <<state, cont>>
    BY <1>3, Zenon DEF kill, ready_vars
  <2>2. Live' = Live /\ \A x \in Tid : Dying(x)' <=> Dying(x)
    BY <2>1, Zenon DEF Live, Dying
  <2>3. Counted' = Counted
    BY <2>2, Zenon DEF Counted, Live
  <2>4. ThreadsAccounted'
    BY <1>1, <1>2, <1>3, <2>1, <2>2, <2>3 DEF CountInv, ThreadsAccounted
  <2>5. KillsApart'
    BY <2>1, Zenon DEF CountInv, KillsApart
  <2> QED BY <1>1, <2>4, <2>5, Zenon DEF CountInv
<1>4. CASE ~(thrcount - 1 <= 1)
  <2>1. /\ send(parent[t], t) /\ halted' = halted
        /\ cont' = [cont EXCEPT ![thrcurrent] = Rest("kill", t)]
    BY <1>4, Zenon DEF kill
  <2>2. SameFree
    BY <2>1, SendFree, Zenon DEF IInv, Types
  <2>3. /\ cont'[thrcurrent].op = "kill" /\ cont'[thrcurrent].tid = t
        /\ \A x \in Tid \ {thrcurrent} : cont'[x] = cont[x]
        /\ cont[thrcurrent].op # "kill"
    BY <1>1, <2>1, KillFacts DEF Rest, User
  <2>4. \A x \in Tid : Dying(x)' <=> Dying(x) \/ x = t
    BY <2>3, KillFacts, Zenon DEF Dying
  <2>5. Live' = Live
    BY <2>2, Zenon DEF Live, SameFree
  <2>6. Counted' = Counted \ {t} /\ t \in Counted
    BY <1>1, <2>4, <2>5, Zenon DEF Counted, Live
  <2>7. Cardinality(Counted') = Cardinality(Counted) - 1
    <3>1. PICK C : C = Counted
      BY Zenon
    <3>2. IsFiniteSet(C)
      BY <3>1, CountedFinite, Zenon
    <3>3. Cardinality(C \ {t}) = Cardinality(C) - 1
      BY <2>6, <3>1, <3>2, Zenon DEF Counting
    <3> QED BY <2>6, <3>1, <3>3, Zenon
  <2>8. ThreadsAccounted'
    <3>1. /\ thrcount' = Cardinality(Counted') - (IF halted' THEN 1 ELSE 0)
          /\ ~halted'
      BY <1>1, <1>2, <2>1, <2>7
    <3>2. \A x \in Live' \ {NULLTHREAD} :
            /\ stk'[x] \in Stack \ freestk'
            /\ \A u \in Live' \ {x} : stk'[u] # stk'[x]
      BY <1>1, <2>5, Zenon DEF CountInv, ThreadsAccounted
    <3> QED BY <3>1, <3>2, Zenon DEF ThreadsAccounted
  <2>9. KillsApart'
    <3> SUFFICES ASSUME NEW u \in Tid, cont'[u].op = "kill"
                 PROVE  /\ state'[cont'[u].tid] # THRFREE
                        /\ \A v \in Tid \ {u} : cont'[v].op = "kill"
                             => cont'[v].tid \notin {u, cont'[u].tid}
      BY Zenon DEF KillsApart
    <3>1. \A v \in Tid : cont[v].op = "kill" => cont[v].tid \notin {t, thrcurrent}
      BY <1>1, Zenon DEF Dying
    <3>2. CASE u = thrcurrent
      BY <1>1, <2>2, <2>3, <3>1, <3>2, Zenon DEF SameFree
    <3>3. CASE u # thrcurrent
      <4>1. cont'[u] = cont[u] /\ cont[u].op = "kill" /\ u # t /\ cont[u].tid \in Tid
        BY <1>1, <2>3, <3>3, KillFacts, Zenon
      <4>2. state'[cont'[u].tid] # THRFREE
        BY <2>2, <4>1, Zenon DEF SameFree, CountInv, KillsApart
      <4>3. ASSUME NEW v \in Tid \ {u}, cont'[v].op = "kill"
            PROVE  cont'[v].tid \notin {u, cont'[u].tid}
        <5>1. CASE v = thrcurrent
          BY <2>3, <3>1, <4>1, <5>1, Zenon
        <5>2. CASE v # thrcurrent
          BY <2>3, <4>1, <4>3, <5>2 DEF CountInv, KillsApart
        <5> QED BY <5>1, <5>2, Zenon
      <4> QED BY <4>2, <4>3, Zenon
    <3> QED BY <3>2, <3>3, Zenon
  <2> QED BY <1>1, <2>8, <2>9, Zenon DEF CountInv
<1> QED BY <1>3, <1>4, Zenon

\* The end of kill() frees the slot and the stack of a thread that has not
\* counted since the beginning of it.
LEMMA KillReturnCounts ==
  ASSUME IInv, CountInv, kill_return
  PROVE  CountInv'
<1>1. PICK t : t = cont[thrcurrent].tid
  BY Zenon
<1>2. /\ cont[thrcurrent].op = "kill" /\ freestk' = freestk \cup {stk[t]}
      /\ cont' = [cont EXCEPT ![thrcurrent] = User, ![t] = User]
      /\ UNCHANGED <<stk, thrcount, halted>>
  BY <1>1, Zenon DEF kill_return, entry_vars
<1>3. /\ t \in Tid /\ t # NULLTHREAD /\ state[t] # THRFREE /\ thrcurrent \in Tid
  BY <1>1, <1>2, KillFacts, Zenon DEF CountInv, KillsApart, IInv, KillIs
<1>4. /\ state'[t] = THRFREE
      /\ \A x \in Tid \ {t} : state'[x] = THRFREE <=> state[x] = THRFREE
  <2>1. CASE state[t] = THRCURR
    <3>1. t = thrcurrent /\ DOMAIN key = Tid
      BY <1>3, <2>1, Zenon DEF IInv, RunSound, Sound
    <3>2. resched(Sched([state EXCEPT ![thrcurrent] = THRFREE], key, readylist))
      BY <1>1, <2>1, <3>1, Zenon DEF kill_return
    <3>3. PICK S : S = [state EXCEPT ![thrcurrent] = THRFREE]
      BY Zenon
    <3>4. SameBlocked(S, state')
      BY <1>3, <3>1, <3>2, <3>3, BlockStep, Zenon DEF IInv
    <3>5. S[t] = THRFREE /\ \A x \in Tid \ {t} : S[x] = state[x]
      BY <3>1, <3>3, KillFacts, Zenon
    <3> QED BY <1>3, <3>4, <3>5, Zenon DEF SameBlocked
  <2>2. CASE state[t] # THRCURR
    <3>1. state' = [state EXCEPT ![t] = THRFREE]
      BY <1>1, <2>2, Zenon DEF kill_return, Becomes, Sched
    <3> QED BY <1>3, <3>1, KillFacts, Zenon
  <2> QED BY <2>1, <2>2, Zenon
<1>5. /\ cont'[t] = User /\ cont'[thrcurrent] = User /\ User.op # "kill"
      /\ \A x \in Tid \ {t, thrcurrent} : cont'[x] = cont[x]
  BY <1>2, <1>3, KillFacts, Zenon DEF User, Rest
<1>6. \A v \in Tid \ {thrcurrent} : cont[v].op = "kill"
        => v # t /\ cont[v].tid \notin {thrcurrent, t}
  BY <1>1, <1>2, <1>3, Zenon DEF CountInv, KillsApart
<1>7. \A v \in Tid : cont'[v].op = "kill"
        => /\ cont[v].op = "kill" /\ cont'[v] = cont[v] /\ v \notin {t, thrcurrent}
           /\ cont[v].tid # t
  BY <1>5, <1>6, Zenon
<1>8. \A x \in Tid \ {t} : Dying(x)' <=> Dying(x)
  BY <1>1, <1>2, <1>5, <1>6, <1>7, Zenon DEF Dying
<1>9. Live' = Live \ {t} /\ Dying(t)
  BY <1>1, <1>2, <1>3, <1>4, Zenon DEF Live, Dying
<1>10. Counted' = Counted
  BY <1>8, <1>9, Zenon DEF Counted, Live
<1>11. ThreadsAccounted'
  <2>1. \A x \in Live' \ {NULLTHREAD} :
          /\ stk'[x] \in Stack \ freestk'
          /\ \A u \in Live' \ {x} : stk'[u] # stk'[x]
    BY <1>2, <1>3, <1>9, Zenon DEF CountInv, ThreadsAccounted, Live
  <2> QED BY <1>2, <1>10, <2>1, Zenon DEF CountInv, ThreadsAccounted
<1>12. KillsApart'
  BY <1>4, <1>7, KillFacts DEF CountInv, KillsApart
<1> QED BY <1>2, <1>11, <1>12, Zenon DEF CountInv

\* nulluser() counts the null thread and main.
LEMMA InitCount ==
  ASSUME Counting, Init
  PROVE  CountInv
<1>1. {0, 1} \subseteq Tid /\ NULLTHREAD = 0 /\ NSTK \in Stack /\ NOSTK # NSTK
  BY KernelAssumption DEF Tid, NULLTHREAD, Stack, NOSTK
<1>2. \A u \in Tid : cont[u].op # "kill"
  BY Zenon DEF Init, User, Rest
<1>3. Live = {0, 1} /\ stk[0] = NOSTK /\ stk[1] = NSTK
  BY <1>1 DEF Init, Live
<1>4. Counted = {0, 1}
  BY <1>2, <1>3, Zenon DEF Counted, Dying
<1>5. Cardinality({0, 1}) = 2
  <2>1. IsFiniteSet({0}) /\ Cardinality({0}) = 1
    BY Zenon DEF Counting
  <2>2. Cardinality({0} \cup {1}) = Cardinality({0}) + 1
    <3>1. 1 \notin {0}
      OBVIOUS
    <3> QED BY <2>1, <3>1, Zenon DEF Counting
  <2>3. {0} \cup {1} = {0, 1}
    BY Zenon
  <2> QED BY <2>1, <2>2, <2>3
<1>6. thrcount = 2 /\ halted = FALSE /\ freestk = Stack \ {NSTK}
  BY Zenon DEF Init
<1>7. ThreadsAccounted
  BY <1>1, <1>3, <1>4, <1>5, <1>6 DEF ThreadsAccounted
<1> QED BY <1>1, <1>2, <1>3, <1>7, Zenon DEF CountInv, KillsApart

\* Every step keeps the account.
LEMMA NextCount ==
  ASSUME Counting, IInv, IInv', CountInv, KillOverlap = FALSE, [Next]_vars
  PROVE  CountInv'
<1>1. ASSUME Steady PROVE CountInv'
  BY <1>1, SteadyCounts, Zenon
<1>2. ASSUME SemCall \/ signaln_loop \/ semfree_loop PROVE CountInv'
  BY <1>1, <1>2, SemSteady, Zenon
<1>3. ASSUME MsgCall \/ receive_return PROVE CountInv'
  BY <1>1, <1>3, MsgSteady, Zenon
<1>4. ASSUME \/ yield \/ \E ms \in Millis : sleep(ms)
             \/ \E t \in Tid : suspend(t) \/ resume(t) \/ start(t)
             \/ \E t \in Tid, p \in Prio : chprio(t, p)
             \/ clkhandler \/ wakeup_loop \/ UNCHANGED vars
      PROVE  CountInv'
  BY <1>1, <1>4, TimeSteady, Zenon
<1>5. ASSUME Halt PROVE CountInv'
  BY <1>4, <1>5, Zenon DEF Halt
<1>6. ASSUME ThreadCall PROVE CountInv'
  BY <1>4, <1>6, KillCounts, CreateCounts, Zenon DEF ThreadCall
<1>7. ASSUME KernelStep PROVE CountInv'
  BY <1>2, <1>3, <1>4, <1>7, KillReturnCounts, Zenon DEF KernelStep
<1> QED BY <1>2, <1>3, <1>4, <1>5, <1>6, <1>7, Zenon DEF Next

=============================================================================
