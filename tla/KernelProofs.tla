---------------------------- MODULE KernelProofs ----------------------------
(***************************************************************************)
(* Proofs about the thread kernel, for every number of threads,            *)
(* semaphores and stacks, every set of priorities, delays and messages and *)
(* every choice of system calls.  KernelInvariant has the inductive        *)
(* invariant; KernelCallProofs shows that each call keeps it, with the     *)
(* theorems that follow.  Here are the order of the ready list and the     *)
(* times on the sleep queue, both kept in the one key column of quetab:    *)
(* the key of a ready thread is its priority, the key of a sleeper its     *)
(* delta.  The theorems are at the end.                                    *)
(***************************************************************************)
EXTENDS KernelCallProofs, DeltaProofs, FiniteSetTheorems

USE DEF THRCURR, THRFREE, THRREADY, THRRECV, THRSLEEP, THRSUSP, THRWAIT,
        THRTMOUT, ThreadState

\* The ready list is in descending order, and its keys are the priorities
\* as long as nobody changes them with chprio().
Keyed(S, K) ==
  "chprio" \notin Syscalls
    => \A t \in Tid : S[t] = THRREADY => K[t] = prio[t]
InOrder(S, K, Q) == Ordered(Q, K) /\ Keyed(S, K)

\* What resched() promises of the thread that it switches to.
Handover ==
  thrcurrent' # thrcurrent =>
    \A t \in Tid : state'[t] = THRREADY => prio'[t] <= prio'[thrcurrent']

\* The times on the sleep queue; outside the clock handler nobody's is up.
\* recvtime(0) is excluded: it makes the first key negative.
Timely ==
  0 \notin Delays =>
    /\ Deltas(sleepq, key, due)
    /\ kloop.op # "wakeup" => \A i \in 1 .. Len(sleepq) : due[sleepq[i]] > 0

OrderInv == InOrder(state, key, readylist) /\ Timely

\* insert() of a thread with its priority as the key.
LEMMA InsertInOrder ==
  ASSUME NEW S, NEW K, NEW Q, Sound(S, K, Q), InOrder(S, K, Q),
         NEW t \in Tid, S[t] # THRREADY, prio \in [Tid -> Int]
  PROVE  InOrder([S EXCEPT ![t] = THRREADY], [K EXCEPT ![t] = prio[t]],
                 insert(Q, K, prio[t], t))
<1> DEFINE S2 == [S EXCEPT ![t] = THRREADY]
           K2 == [K EXCEPT ![t] = prio[t]]
           Q2 == insert(Q, K, prio[t], t)
<1>1. Ordered(Q2, K2)
  <2>1. /\ Q \in Seq(Tid) /\ ~Contains(Q, t) /\ DOMAIN K = Tid /\ prio[t] \in Int
        /\ Ordered(Q, K)
    BY Zenon DEF Sound, InOrder
  <2> QED BY <2>1, InsertOrdered, Zenon
<1>2. Keyed(S2, K2)
  BY Zenon DEF Keyed, InOrder, Sound
<1> QED BY <1>1, <1>2, Zenon DEF InOrder

\* What ready() does to the state and the key of its thread.
Readied(t, S, K, S2, K2) ==
  S2 = [S EXCEPT ![t] = THRREADY] /\ K2 = [K EXCEPT ![t] = prio[t]]

\* ready() keeps the order.
LEMMA ReadyOrder ==
  ASSUME NEW S, NEW K, NEW Q, Sound(S, K, Q), InOrder(S, K, Q),
         NEW t \in Tid, state[t] # THRFREE, S[t] # THRREADY, prio \in [Tid -> Int]
  PROVE  \E S2, K2, Q2 : /\ Readied(t, S, K, S2, K2)
                         /\ ready(Sched(S, K, Q), t) = Sched(S2, K2, Q2)
                         /\ Sound(S2, K2, Q2) /\ InOrder(S2, K2, Q2)
<1>0. PICK S2, K2, Q2 : /\ S2 = [S EXCEPT ![t] = THRREADY]
                        /\ K2 = [K EXCEPT ![t] = prio[t]]
                        /\ Q2 = insert(Q, K, prio[t], t)
  BY Zenon
<1>1. ready(Sched(S, K, Q), t) = Sched(S2, K2, Q2)
  BY <1>0, Zenon DEF ready, Sched, isbadtid
<1>2. /\ Q2 \in Seq(Tid) /\ NoDuplicates(Q2)
      /\ \A x : Contains(Q2, x) <=> Contains(Q, x) \/ x = t
  BY <1>0, InsertMembers DEF Sound
<1>3. InOrder(S2, K2, Q2)
  BY <1>0, InsertInOrder, Zenon
<1>4. Sound(S2, K2, Q2)
  BY <1>0, <1>2, Zenon DEF Sound
<1> QED BY <1>0, <1>1, <1>3, <1>4, Zenon DEF Readied

\* resched() keeps the order, gives the processor to a thread that no ready one
\* outranks, and leaves the keys of blocked threads alone.
LEMMA ReschedOrder ==
  ASSUME NEW S, NEW K, NEW Q, Sound(S, K, Q), InOrder(S, K, Q),
         thrcurrent \in Tid, \A t \in Tid : S[t] = THRCURR => t = thrcurrent,
         S[NULLTHREAD] \in {THRCURR, THRREADY}, prio \in [Tid -> Int],
         resched(Sched(S, K, Q)), prio' = prio
  PROVE  /\ InOrder(state, key, readylist)'
         /\ "chprio" \notin Syscalls => Handover
         /\ \A x \in Tid : S[x] \notin {THRCURR, THRREADY} => key'[x] = K[x]
<1>1. CASE GoesOn(S, K, Q)
  BY <1>1, Zenon DEF GoesOn, InOrder, Keyed, Handover
<1>2. ASSUME NEW S2, NEW K2, NEW Q2, Sound(S2, K2, Q2), Q2 # <<>>,
             InOrder(S2, K2, Q2),
             state' = [S2 EXCEPT ![Head(Q2)] = THRCURR], key' = K2,
             readylist' = Tail(Q2), thrcurrent' = Head(Q2)
      PROVE  /\ InOrder(state, key, readylist)'
             /\ "chprio" \notin Syscalls => Handover
  <2>1. /\ Head(Q2) \in Tid /\ S2[Head(Q2)] = THRREADY
        /\ Sound([S2 EXCEPT ![Head(Q2)] = THRCURR], K2, Tail(Q2))
    BY <1>2, DequeueStep, Zenon
  <2>2. /\ Ordered(Tail(Q2), K2)
        /\ \A x : Contains(Tail(Q2), x) => K2[x] <= K2[Head(Q2)]
    BY <1>2, TailOrdered, Zenon DEF InOrder, Sound
  <2>3. S2 \in [Tid -> ThreadState]
    BY <1>2, Zenon DEF Sound
  <2>4. InOrder(state, key, readylist)'
    BY <1>2, <2>1, <2>2, <2>3, Zenon DEF InOrder, Keyed
  <2>5. ASSUME "chprio" \notin Syscalls, NEW t \in Tid, state'[t] = THRREADY
        PROVE  prio'[t] <= prio'[thrcurrent']
    <3>1. K2[t] <= K2[Head(Q2)]
      BY <1>2, <2>1, <2>2, <2>5, Zenon DEF Sound
    <3>2. K2[t] = prio[t] /\ K2[Head(Q2)] = prio[Head(Q2)]
      BY <1>2, <2>1, <2>3, <2>5, Zenon DEF InOrder, Keyed
    <3> QED BY <1>2, <3>1, <3>2, Zenon
  <2> QED BY <2>4, <2>5, Zenon DEF Handover
<1>3. CASE Switches(S, K, Q)
  <2>1. PICK S2, K2, Q2 :
          /\ Sound(S2, K2, Q2) /\ Q2 # <<>>
          /\ \/ /\ S[thrcurrent] = THRCURR
                /\ S2 = [S EXCEPT ![thrcurrent] = THRREADY]
                /\ K2 = [K EXCEPT ![thrcurrent] = prio[thrcurrent]]
                /\ Q2 = insert(Q, K, prio[thrcurrent], thrcurrent)
             \/ /\ S[thrcurrent] # THRCURR
                /\ S2 = S /\ K2 = K /\ Q2 = Q
          /\ state' = [S2 EXCEPT ![Head(Q2)] = THRCURR] /\ key' = K2
          /\ readylist' = Tail(Q2) /\ thrcurrent' = Head(Q2)
    BY <1>3, Zenon DEF Switches
  <2>2. InOrder(S2, K2, Q2)
    BY <2>1, InsertInOrder
  <2>3. \A x \in Tid : S[x] \notin {THRCURR, THRREADY} => key'[x] = K[x]
    BY <2>1, Zenon DEF Sound
  <2> QED BY <1>2, <2>1, <2>2, <2>3, Zenon
<1> QED BY <1>1, <1>3, ReschedCases, Zenon

-----------------------------------------------------------------------------
(***************************************************************************)
(* The ways in which a call uses the scheduler.                            *)
(***************************************************************************)
\* What every step keeps of the ready list.
OrderStep ==
  /\ InOrder(state, key, readylist)'
  /\ "chprio" \notin Syscalls => Handover

\* Keys of sleepers stay as K has them.
SleepersKeep(K) ==
  \A x \in Tid : state[x] \in {THRSLEEP, THRTMOUT} => key'[x] = K[x]

\* The order does not depend on the keys of threads that are not ready.
LEMMA OrderFrame ==
  ASSUME NEW S, NEW K, NEW Q, Sound(S, K, Q), InOrder(S, K, Q), NEW S2, NEW K2,
         \A x \in Tid : S[x] = THRREADY => K2[x] = K[x],
         \A x \in Tid : S2[x] = THRREADY => S[x] = THRREADY
  PROVE  InOrder(S2, K2, Q)
<1>1. \A i \in 1 .. Len(Q) : Q[i] \in Tid /\ S[Q[i]] = THRREADY
  BY QueueType, Zenon DEF Sound, Contains
<1>2. \A i \in 1 .. Len(Q) : K2[Q[i]] = K[Q[i]]
  BY <1>1, Zenon
<1>3. Ordered(Q, K2)
  BY <1>2, Zenon DEF InOrder, Ordered
<1>4. Keyed(S2, K2)
  BY Zenon DEF InOrder, Keyed
<1> QED BY <1>3, <1>4, Zenon DEF InOrder

\* The current thread blocks: wait, receive, recvtime, sleep, suspend, kill.
LEMMA BlockOrder ==
  ASSUME IInv, InOrder(state, key, readylist), thrcurrent # NULLTHREAD,
         NEW s \in ThreadState \ {THRCURR, THRREADY}, NEW K, DOMAIN K = Tid,
         \A x \in Tid : state[x] = THRREADY => K[x] = key[x],
         resched(Sched([state EXCEPT ![thrcurrent] = s], K, readylist)),
         prio' = prio
  PROVE  OrderStep /\ SleepersKeep(K) /\ key'[thrcurrent] = K[thrcurrent]
<1>s. PICK S : S = [state EXCEPT ![thrcurrent] = s]
  BY Zenon
<1>0. /\ Sound(state, key, readylist) /\ thrcurrent \in Tid
      /\ state \in [Tid -> ThreadState] /\ prio \in [Tid -> Int]
      /\ \A t \in Tid : state[t] = THRCURR <=> t = thrcurrent
      /\ state[NULLTHREAD] \in {THRCURR, THRREADY} /\ NULLTHREAD \in Tid
  BY NullIsTid, Zenon DEF IInv, RunSound, Sound, Types
<1>1. Sound(S, K, readylist)
  BY <1>s, <1>0, Zenon DEF Sound
<1>2. \A t \in Tid : S[t] = THRCURR => t = thrcurrent
  BY <1>s, <1>0, Zenon
<1>3. S[NULLTHREAD] \in {THRCURR, THRREADY}
  BY <1>s, <1>0, Zenon
<1>4. \A t \in Tid : S[t] = THRREADY => state[t] = THRREADY
  BY <1>s, <1>0, Zenon
<1>5. /\ S[thrcurrent] \notin {THRCURR, THRREADY}
      /\ \A x \in Tid : state[x] \in {THRSLEEP, THRTMOUT}
                          => S[x] \notin {THRCURR, THRREADY}
  BY <1>s, <1>0, Zenon
<1>6. InOrder(S, K, readylist)
  BY <1>0, <1>4, OrderFrame
<1>7. /\ InOrder(state, key, readylist)'
      /\ "chprio" \notin Syscalls => Handover
      /\ \A x \in Tid : S[x] \notin {THRCURR, THRREADY} => key'[x] = K[x]
  <2>1. resched(Sched(S, K, readylist))
    BY <1>s, Zenon
  <2> QED BY <1>0, <1>1, <1>2, <1>3, <1>6, <2>1, ReschedOrder
<1> QED BY <1>0, <1>5, <1>7, Zenon DEF OrderStep, SleepersKeep

\* resched() alone: yield, a short sleep, the clock interrupt.
LEMMA PlainOrder ==
  ASSUME IInv, InOrder(state, key, readylist), NEW K, DOMAIN K = Tid,
         \A x \in Tid : state[x] = THRREADY => K[x] = key[x],
         resched(Sched(state, K, readylist)), prio' = prio
  PROVE  OrderStep /\ SleepersKeep(K)
<1>1. /\ Sound(state, key, readylist) /\ Sound(state, K, readylist)
      /\ thrcurrent \in Tid /\ prio \in [Tid -> Int]
      /\ \A t \in Tid : state[t] = THRCURR => t = thrcurrent
      /\ state[NULLTHREAD] \in {THRCURR, THRREADY}
  BY Zenon DEF IInv, RunSound, Sound, Types
<1>2. InOrder(state, K, readylist)
  BY <1>1, OrderFrame, Zenon
<1>3. /\ InOrder(state, key, readylist)'
      /\ "chprio" \notin Syscalls => Handover
      /\ \A x \in Tid : state[x] \notin {THRCURR, THRREADY} => key'[x] = K[x]
  BY <1>1, <1>2, ReschedOrder
<1> QED BY <1>3, Zenon DEF OrderStep, SleepersKeep

\* ready() and resched() of a blocked thread: signal, send, resume.
LEMMA WakeOrder ==
  ASSUME IInv, InOrder(state, key, readylist), NEW t \in Tid, NEW K, DOMAIN K = Tid,
         state[t] \notin {THRCURR, THRREADY, THRFREE},
         \A x \in Tid : state[x] = THRREADY => K[x] = key[x],
         resched(ready(Sched(state, K, readylist), t)), prio' = prio
  PROVE  /\ OrderStep
         /\ \A x \in Tid \ {t} : state[x] \in {THRSLEEP, THRTMOUT} => key'[x] = K[x]
<1>1. /\ Sound(state, key, readylist) /\ Sound(state, K, readylist)
      /\ thrcurrent \in Tid /\ prio \in [Tid -> Int]
      /\ state \in [Tid -> ThreadState]
      /\ \A x \in Tid : state[x] = THRCURR => x = thrcurrent
      /\ state[NULLTHREAD] \in {THRCURR, THRREADY} /\ NULLTHREAD \in Tid
  BY NullIsTid, Zenon DEF IInv, RunSound, Sound, Types
<1>2. InOrder(state, K, readylist)
  BY <1>1, OrderFrame, Zenon
<1>3. PICK S, K2, Q2 : /\ Readied(t, state, K, S, K2)
                       /\ ready(Sched(state, K, readylist), t) = Sched(S, K2, Q2)
                       /\ Sound(S, K2, Q2) /\ InOrder(S, K2, Q2)
  <2>1. Sound(state, K, readylist) /\ state[t] # THRFREE /\ state[t] # THRREADY
    BY <1>1, Zenon
  <2> QED BY <1>1, <1>2, <2>1, ReadyOrder, Zenon
<1>4. /\ \A x \in Tid : S[x] = THRCURR => x = thrcurrent
      /\ S[NULLTHREAD] \in {THRCURR, THRREADY}
      /\ \A x \in Tid \ {t} : state[x] \in {THRSLEEP, THRTMOUT}
           => S[x] \notin {THRCURR, THRREADY} /\ K2[x] = K[x]
  BY <1>1, <1>3, Zenon DEF Readied
<1>5. /\ InOrder(state, key, readylist)'
      /\ "chprio" \notin Syscalls => Handover
      /\ \A x \in Tid : S[x] \notin {THRCURR, THRREADY} => key'[x] = K2[x]
  <2>1. resched(Sched(S, K2, Q2))
    BY <1>3, Zenon
  <2>2. /\ Sound(S, K2, Q2) /\ InOrder(S, K2, Q2)
        /\ thrcurrent \in Tid /\ prio \in [Tid -> Int]
        /\ \A x \in Tid : S[x] = THRCURR => x = thrcurrent
        /\ S[NULLTHREAD] \in {THRCURR, THRREADY}
    BY <1>1, <1>3, <1>4, Zenon
  <2> QED BY <2>1, <2>2, ReschedOrder
<1> QED BY <1>4, <1>5, Zenon DEF OrderStep

\* ready() without resched(): signaln, semfree, wakeup, and ready() itself.
LEMMA ReadyOnlyOrder ==
  ASSUME IInv, InOrder(state, key, readylist), NEW t \in Tid,
         state[t] \notin {THRCURR, THRREADY, THRFREE},
         Becomes(ready(Now, t)), UNCHANGED thrcurrent, prio' = prio
  PROVE  /\ OrderStep
         /\ \A x \in Tid \ {t} : key'[x] = key[x]
<1>1. /\ Sound(state, key, readylist) /\ prio \in [Tid -> Int] /\ DOMAIN key = Tid
  BY Zenon DEF IInv, RunSound, Sound, Types
<1>2. PICK S, K2, Q2 : /\ Readied(t, state, key, S, K2)
                       /\ ready(Sched(state, key, readylist), t) = Sched(S, K2, Q2)
                       /\ InOrder(S, K2, Q2)
  <2>1. state[t] # THRFREE /\ state[t] # THRREADY
    BY Zenon
  <2> QED BY <1>1, <2>1, ReadyOrder, Zenon
<1>3. state' = S /\ key' = K2 /\ readylist' = Q2
  <2>1. Becomes(Sched(S, K2, Q2))
    BY <1>2, Zenon DEF Now
  <2> QED BY <2>1, Zenon DEF Becomes, Sched
<1>4. InOrder(state, key, readylist)'
  BY <1>2, <1>3, Zenon DEF InOrder, Keyed
<1> QED BY <1>1, <1>2, <1>3, <1>4, Zenon DEF OrderStep, Handover, Readied

\* A step that leaves the ready list alone.
LEMMA QuietOrder ==
  ASSUME IInv, InOrder(state, key, readylist),
         UNCHANGED <<key, readylist, thrcurrent>>,
         \A x \in Tid : state'[x] = THRREADY => state[x] = THRREADY,
         "chprio" \notin Syscalls
            => \A x \in Tid : state[x] = THRREADY => prio'[x] = prio[x]
  PROVE  OrderStep /\ SleepersKeep(key)
<1>1. InOrder(state, key, readylist)'
  BY Zenon DEF InOrder, Keyed
<1> QED BY <1>1, Zenon DEF OrderStep, SleepersKeep, Handover

\* A thread leaves the ready list: suspend and kill of a ready thread.
LEMMA RemoveOrder ==
  ASSUME IInv, InOrder(state, key, readylist), NEW t,
         UNCHANGED <<key, thrcurrent, prio>>, readylist' = getitem(readylist, t),
         \A x \in Tid : state'[x] = THRREADY => state[x] = THRREADY
  PROVE  OrderStep /\ SleepersKeep(key)
<1>1. readylist \in Seq(Tid)
  BY Zenon DEF IInv, RunSound, Sound
<1>2. Ordered(readylist', key')
  BY <1>1, GetitemOrdered, Zenon DEF InOrder
<1>3. InOrder(state, key, readylist)'
  BY <1>2, Zenon DEF InOrder, Keyed
<1> QED BY <1>3, Zenon DEF OrderStep, SleepersKeep, Handover

\* A step that leaves the sleep queue and the keys of the sleepers alone.
LEMMA QuietTimely ==
  ASSUME IInv, Timely, UNCHANGED <<sleepq, due>>, SleepersKeep(key),
         kloop.op = "wakeup" => kloop'.op = "wakeup"
  PROVE  Timely'
<1> SUFFICES ASSUME 0 \notin Delays
             PROVE  /\ Deltas(sleepq, key', due)
                    /\ kloop'.op # "wakeup" => \A i \in 1 .. Len(sleepq) : due[sleepq[i]] > 0
  BY Zenon DEF Timely
<1>1. \A x : Contains(sleepq, x) => x \in Tid /\ state[x] \in {THRSLEEP, THRTMOUT}
  BY QueueType DEF IInv, SleepIs, Contains
<1>2. \A x : Contains(sleepq, x) => key'[x] = key[x] /\ due[x] = due[x]
  BY <1>1, Zenon DEF SleepersKeep
<1>3. Deltas(sleepq, key, due)
  BY Zenon DEF Timely
<1> QED BY <1>2, <1>3, DeltasFrame, Zenon DEF Timely

-----------------------------------------------------------------------------
(***************************************************************************)
(* The calls, one by one.                                                  *)
(***************************************************************************)
\* What each of them keeps.
StepOK == OrderStep /\ Timely'

\* A call that does not touch the sleep queue.
LEMMA AwakeStep ==
  ASSUME IInv, OrderInv, OrderStep, SleepersKeep(key), UNCHANGED <<sleepq, due>>,
         kloop.op = "wakeup" => kloop'.op = "wakeup"
  PROVE  StepOK
  BY QuietTimely, Zenon DEF StepOK, OrderInv

\* wait() blocks its caller or changes a count.
LEMMA WaitOrder ==
  ASSUME IInv, OrderInv, NEW s \in Sem, wait(s)
  PROVE  StepOK
<1>1. UNCHANGED <<sleepq, due, kloop, prio>>
  BY Zenon DEF wait, sleep_vars, entry_vars
<1>2. OrderStep /\ SleepersKeep(key)
  <2>1. CASE scount[s] - 1 < 0
    <3>1. resched(Sched([state EXCEPT ![thrcurrent] = THRWAIT], key, readylist))
      BY <2>1, Zenon DEF wait, Block
    <3>2. DOMAIN key = Tid /\ thrcurrent # NULLTHREAD
      BY Caller, Zenon DEF wait, IInv, RunSound, Sound
    <3> QED BY <1>1, <3>1, <3>2, BlockOrder, Zenon DEF OrderInv
  <2>2. CASE ~(scount[s] - 1 < 0)
    BY <1>1, <2>2, QuietOrder, Zenon DEF wait, ready_vars, OrderInv
  <2> QED BY <2>1, <2>2, Zenon
<1> QED BY <1>1, <1>2, AwakeStep, Zenon

\* signal() readies the first thread that waits.
LEMMA SignalOrder ==
  ASSUME IInv, OrderInv, NEW s \in Sem, signal(s)
  PROVE  StepOK
<1>1. UNCHANGED <<sleepq, due, kloop, prio>>
  BY Zenon DEF signal, sleep_vars, entry_vars
<1>2. DOMAIN key = Tid
  BY Zenon DEF IInv, RunSound, Sound
<1>3. OrderStep /\ SleepersKeep(key)
  <2>1. CASE scount[s] < 0 /\ semq[s] # <<>>
    <3>1. PICK t \in Tid : t = Head(semq[s]) /\ state[t] = THRWAIT
      BY <2>1, HeadWaits, Zenon
    <3>2. resched(ready(Sched(state, key, readylist), t))
      BY <2>1, <3>1, Zenon DEF signal, Released, Now
    <3>3. /\ OrderStep
          /\ \A x \in Tid \ {t} : state[x] \in {THRSLEEP, THRTMOUT} => key'[x] = key[x]
      BY <1>1, <1>2, <3>1, <3>2, WakeOrder, Zenon DEF OrderInv
    <3> QED BY <3>1, <3>3, Zenon DEF SleepersKeep
  <2>2. CASE scount[s] < 0 /\ semq[s] = <<>>
    <3>1. resched(Sched(state, key, readylist))
      BY <2>2, Zenon DEF signal, Released, Now
    <3> QED BY <1>1, <1>2, <3>1, PlainOrder, Zenon DEF OrderInv
  <2>3. CASE ~(scount[s] < 0)
    BY <1>1, <2>3, QuietOrder, Zenon DEF signal, ready_vars, OrderInv
  <2> QED BY <2>1, <2>2, <2>3, Zenon
<1> QED BY <1>1, <1>3, AwakeStep, Zenon

\* The loop of signaln() readies one thread at a time, and reschedules at the end.
LEMMA SignalnLoopOrder ==
  ASSUME IInv, OrderInv, signaln_loop
  PROVE  StepOK
<1>1. UNCHANGED <<sleepq, due, prio>> /\ kloop.op = "signaln" /\ kloop.sem \in Sem
  BY Zenon DEF signaln_loop, sleep_vars, entry_vars, IInv, Types
<1>2. DOMAIN key = Tid
  BY Zenon DEF IInv, RunSound, Sound
<1>3. PICK s \in Sem : s = kloop.sem
  BY <1>1, Zenon
<1>4. OrderStep /\ SleepersKeep(key)
  <2>1. CASE kloop.n > 0 /\ scount[s] < 0 /\ semq[s] # <<>>
    <3>1. PICK t \in Tid : t = Head(semq[s]) /\ state[t] = THRWAIT
      BY <2>1, HeadWaits, Zenon
    <3>2. Becomes(ready(Now, t)) /\ UNCHANGED thrcurrent
      BY <1>3, <2>1, <3>1, Zenon DEF signaln_loop, Released
    <3>3. OrderStep /\ \A x \in Tid \ {t} : key'[x] = key[x]
      BY <1>1, <3>1, <3>2, ReadyOnlyOrder, Zenon DEF OrderInv
    <3> QED BY <3>1, <3>3, Zenon DEF SleepersKeep
  <2>2. CASE kloop.n > 0 /\ ~(scount[s] < 0 /\ semq[s] # <<>>)
    <3>1. Becomes(Now) /\ UNCHANGED thrcurrent
      BY <1>3, <2>2, Zenon DEF signaln_loop, Released
    <3>2. UNCHANGED <<state, key, readylist, thrcurrent>>
      BY <3>1, Zenon DEF Becomes, Now, Sched
    <3> QED BY <1>1, <3>2, QuietOrder, Zenon DEF OrderInv
  <2>3. CASE ~(kloop.n > 0)
    <3>1. resched(Sched(state, key, readylist))
      BY <2>3, Zenon DEF signaln_loop, Now
    <3> QED BY <1>1, <1>2, <3>1, PlainOrder, Zenon DEF OrderInv
  <2> QED BY <2>1, <2>2, <2>3, Zenon
<1> QED BY <1>1, <1>4, AwakeStep, Zenon

\* The loop of semfree() readies one thread at a time.
LEMMA SemfreeLoopOrder ==
  ASSUME IInv, OrderInv, semfree_loop
  PROVE  StepOK
<1>1. /\ UNCHANGED <<sleepq, due, prio, thrcurrent>>
      /\ kloop.op = "semfree" /\ kloop.sem \in Sem
  BY Zenon DEF semfree_loop, sleep_vars, entry_vars, IInv, Types
<1>2. PICK s \in Sem : s = kloop.sem
  BY <1>1, Zenon
<1>3. OrderStep /\ SleepersKeep(key)
  <2>1. CASE semq[s] # <<>>
    <3>1. PICK t \in Tid : t = Head(semq[s]) /\ state[t] = THRWAIT
      BY <2>1, HeadWaits, Zenon
    <3>2. Becomes(ready(Now, t))
      BY <1>2, <2>1, <3>1, Zenon DEF semfree_loop
    <3>3. OrderStep /\ \A x \in Tid \ {t} : key'[x] = key[x]
      BY <1>1, <3>1, <3>2, ReadyOnlyOrder, Zenon DEF OrderInv
    <3> QED BY <3>1, <3>3, Zenon DEF SleepersKeep
  <2>2. CASE semq[s] = <<>>
    <3>1. UNCHANGED <<state, key, readylist>>
      BY <1>2, <2>2, Zenon DEF semfree_loop
    <3> QED BY <1>1, <3>1, QuietOrder, Zenon DEF OrderInv
  <2> QED BY <2>1, <2>2, Zenon
<1> QED BY <1>1, <1>3, AwakeStep, Zenon

\* Calls that change neither the ready list nor the sleep queue.
LEMMA QuietStep ==
  ASSUME IInv, OrderInv,
         UNCHANGED <<state, key, readylist, thrcurrent, sleepq, due, prio>>,
         kloop.op = "wakeup" => kloop'.op = "wakeup"
  PROVE  StepOK
<1>1. OrderStep /\ SleepersKeep(key)
  BY QuietOrder, Zenon DEF OrderInv
<1> QED BY <1>1, AwakeStep, Zenon

\* signaln(), semcreate() and semfree() up to their loops, the fetch of a message
\* and the end of a receive().
LEMMA QuietCalls ==
  ASSUME IInv, OrderInv,
         \/ \E s \in Sem : \/ semfree(s)
                           \/ \E n \in 1 .. MaxSignal : signaln(s, n)
                           \/ \E n \in InitCounts : semcreate(s, n)
         \/ recvclr \/ receive_return \/ UNCHANGED vars
  PROVE  StepOK
<1>1. UNCHANGED <<state, key, readylist, thrcurrent, sleepq, due, prio>>
  BY Zenon DEF semfree, signaln, semcreate, recvclr, receive_return, vars, ready_vars,
         sleep_vars, entry_vars
<1>2. kloop = NoLoop \/ kloop' = kloop
  BY Zenon DEF semfree, signaln, semcreate, recvclr, receive_return, vars, Calls, UserMode
<1>3. kloop.op = "wakeup" => kloop'.op = "wakeup"
  BY <1>2, NoLoopIsIdle, Zenon
<1> QED BY <1>1, <1>3, QuietStep, Zenon

\* receive() blocks its caller or fetches its message.
LEMMA ReceiveOrder ==
  ASSUME IInv, OrderInv, receive
  PROVE  StepOK
<1>1. UNCHANGED <<sleepq, due, kloop, prio>> /\ thrcurrent # NULLTHREAD /\ DOMAIN key = Tid
  BY Caller, Zenon DEF receive, sleep_vars, entry_vars, IInv, RunSound, Sound
<1>2. CASE msg[thrcurrent] # NOMSG
  BY <1>1, <1>2, QuietStep, Zenon DEF receive, ready_vars
<1>3. CASE ~(msg[thrcurrent] # NOMSG)
  <2>1. resched(Sched([state EXCEPT ![thrcurrent] = THRRECV], key, readylist))
    BY <1>3, Zenon DEF receive, Block
  <2>2. OrderStep /\ SleepersKeep(key)
    BY <1>1, <2>1, BlockOrder, Zenon DEF OrderInv
  <2> QED BY <1>1, <2>2, AwakeStep, Zenon
<1> QED BY <1>2, <1>3, Zenon

\* The current thread goes on the sleep queue: its key is what insertd() computes,
\* and the sum of the keys up to it is the delay.
LEMMA BlockForOrder ==
  ASSUME IInv, OrderInv, NEW d \in Nat, NEW s \in {THRSLEEP, THRTMOUT},
         thrcurrent # NULLTHREAD, BlockFor(d, s), prio' = prio, kloop = NoLoop,
         0 \notin Delays => d > 0
  PROVE  StepOK
<1>1. PICK K : K = insertd_key(sleepq, key, thrcurrent, d)
  BY Zenon
<1>2. /\ resched(Sched([state EXCEPT ![thrcurrent] = s], K, readylist))
      /\ sleepq' = insertd_queue(sleepq, key, thrcurrent, d)
      /\ due' = [due EXCEPT ![thrcurrent] = d]
  BY <1>1, Zenon DEF BlockFor
<1>3. /\ thrcurrent \in Tid /\ state[thrcurrent] = THRCURR /\ DOMAIN key = Tid
      /\ due \in [Tid -> Int] /\ DOMAIN due = Tid
      /\ sleepq \in Seq(Tid) /\ NoDuplicates(sleepq)
      /\ \A x \in Tid : Contains(sleepq, x) <=> state[x] \in {THRSLEEP, THRTMOUT}
  BY Zenon DEF IInv, RunSound, Sound, Types, SleepIs
<1>4. /\ DOMAIN K = Tid
      /\ \A x \in Tid : ~Contains(sleepq, x) /\ x # thrcurrent => K[x] = key[x]
  BY <1>1, <1>3, InsertdKeys
<1>5. \A x \in Tid : state[x] = THRREADY => K[x] = key[x]
  BY <1>3, <1>4, Zenon
<1>6. OrderStep /\ SleepersKeep(K) /\ key'[thrcurrent] = K[thrcurrent]
  BY <1>2, <1>4, <1>5, BlockOrder, Zenon DEF OrderInv
<1>7. ASSUME 0 \notin Delays
      PROVE  /\ Deltas(sleepq', key', due')
             /\ \A i \in 1 .. Len(sleepq') : due'[sleepq'[i]] > 0
  <2>1. /\ Deltas(sleepq, key, due)
        /\ \A i \in 1 .. Len(sleepq) : due[sleepq[i]] > 0
    BY <1>7, NoLoopIsIdle, Zenon DEF OrderInv, Timely
  <2>2. ~Contains(sleepq, thrcurrent)
    BY <1>3, Zenon
  <2>3. /\ sleepq' \in Seq(Tid)
        /\ \A x : Contains(sleepq', x) <=> Contains(sleepq, x) \/ x = thrcurrent
    BY <1>2, <1>3, InsertdMembers
  <2>4. Deltas(sleepq', K, due')
    BY <1>1, <1>2, <1>3, <2>1, <2>2, InsertdDeltas, Zenon
  <2>5. \A x : Contains(sleepq', x) => key'[x] = K[x] /\ due'[x] = due'[x]
    <3>1. \A x : Contains(sleepq, x) => x \in Tid
      BY <1>3, QueueType DEF Contains
    <3> QED BY <1>3, <1>6, <2>3, <3>1, Zenon DEF SleepersKeep
  <2>6. Deltas(sleepq', key', due')
    BY <2>4, <2>5, DeltasFrame, Zenon
  <2>7. \A x : Contains(sleepq', x) => due'[x] > 0
    <3>1. \A x : Contains(sleepq, x) => x \in Tid /\ due[x] > 0
      BY <1>3, <2>1, QueueType DEF Contains
    <3> QED BY <1>2, <1>3, <1>7, <2>3, <3>1, Zenon
  <2> QED BY <2>6, <2>7, Zenon DEF Contains
<1> QED BY <1>6, <1>7, Zenon DEF StepOK, Timely

\* recvtime() puts its caller on the sleep queue or fetches its message.
LEMMA RecvtimeOrder ==
  ASSUME IInv, OrderInv, NEW d \in Delays, recvtime(d)
  PROVE  StepOK
<1>1. UNCHANGED <<kloop, prio>> /\ thrcurrent # NULLTHREAD /\ kloop = NoLoop
  BY Caller, Zenon DEF recvtime, entry_vars
<1>2. CASE msg[thrcurrent] # NOMSG
  <2>1. UNCHANGED <<state, key, readylist, thrcurrent, sleepq, due>>
    BY <1>2, Zenon DEF recvtime, ready_vars, sleep_vars
  <2> QED BY <1>1, <2>1, QuietStep, Zenon
<1>3. CASE ~(msg[thrcurrent] # NOMSG)
  <2>1. BlockFor(d, THRTMOUT) /\ d \in Nat
    BY <1>3, KernelAssumption, Zenon DEF recvtime
  <2> QED BY <1>1, <2>1, BlockForOrder
<1> QED BY <1>2, <1>3, Zenon

\* resched() without a change of the sleep queue: yield() and a short sleep().
LEMMA ReschedOnly ==
  ASSUME IInv, OrderInv, resched(Now), UNCHANGED <<sleepq, due, kloop, prio>>
  PROVE  StepOK
<1>1. resched(Sched(state, key, readylist)) /\ DOMAIN key = Tid
  BY Zenon DEF Now, IInv, RunSound, Sound
<1>2. OrderStep /\ SleepersKeep(key)
  BY <1>1, PlainOrder, Zenon DEF OrderInv
<1> QED BY <1>2, AwakeStep, Zenon

\* yield() and sleep().
LEMMA YieldSleepOrder ==
  ASSUME IInv, OrderInv, yield \/ \E ms \in Millis : sleep(ms)
  PROVE  StepOK
<1>1. CASE yield
  BY <1>1, ReschedOnly, Zenon DEF yield, sleep_vars, entry_vars
<1>2. ASSUME NEW ms \in Millis, sleep(ms) PROVE StepOK
  <2>1. UNCHANGED <<kloop, prio>> /\ thrcurrent # NULLTHREAD /\ kloop = NoLoop
    BY <1>2, Caller, Zenon DEF sleep, entry_vars
  <2>2. CASE ticks(ms) > 0
    <3>1. PICK d : d = ticks(ms)
      BY Zenon
    <3>2. ms \in Nat /\ UINT \in Nat \ {0}
      BY KernelAssumption, Zenon
    <3>3. PICK m \in Nat : m = (ms * CLKTICKS_PER_SEC) % UINT
      <4>1. ms * CLKTICKS_PER_SEC \in Nat
        BY <3>2 DEF CLKTICKS_PER_SEC
      <4> QED BY <3>2, <4>1
    <3>4. d = m \div 1000
      BY <3>1, <3>3 DEF ticks
    <3>5. d \in Nat
      BY <3>4
    <3>6. BlockFor(d, THRSLEEP) /\ d > 0
      BY <1>2, <2>2, <3>1, Zenon DEF sleep
    <3> QED BY <2>1, <3>5, <3>6, BlockForOrder, Zenon
  <2>3. CASE ~(ticks(ms) > 0)
    BY <1>2, <2>1, <2>3, ReschedOnly, Zenon DEF sleep, sleep_vars
  <2> QED BY <2>2, <2>3, Zenon
<1> QED BY <1>1, <1>2, Zenon

\* send() to a thread in recvtime() takes it off the sleep queue; the thread
\* behind it inherits the rest of its delay.
LEMMA SendOrder ==
  ASSUME IInv, OrderInv, NEW t \in Tid, NEW m, send(t, m),
         UNCHANGED <<prio, kloop>>, kloop = NoLoop
  PROVE  StepOK
<1>1. DOMAIN key = Tid
  BY Zenon DEF IInv, RunSound, Sound
<1>2. CASE refuses(t) \/ state[t] \notin {THRRECV, THRTMOUT}
  <2>1. UNCHANGED <<state, key, readylist, thrcurrent, sleepq, due>>
    BY <1>2, Zenon DEF send, ready_vars, sleep_vars
  <2> QED BY <2>1, QuietStep, Zenon
<1>3. CASE ~refuses(t) /\ state[t] = THRRECV
  <2>1. resched(ready(Sched(state, key, readylist), t)) /\ UNCHANGED <<sleepq, due>>
    BY <1>3, Zenon DEF send, Now, sleep_vars
  <2>2. /\ OrderStep
        /\ \A x \in Tid \ {t} : state[x] \in {THRSLEEP, THRTMOUT} => key'[x] = key[x]
    BY <1>1, <1>3, <2>1, WakeOrder, Zenon DEF OrderInv
  <2> QED BY <1>3, <2>1, <2>2, AwakeStep, Zenon DEF SleepersKeep
<1>4. CASE ~refuses(t) /\ state[t] = THRTMOUT
  <2>1. PICK K : K = unsleep_key(sleepq, key, t)
    BY Zenon
  <2>2. /\ resched(ready(Sched(state, K, readylist), t))
        /\ sleepq' = getitem(sleepq, t)
        /\ due' = [due EXCEPT ![t] = 0]
    BY <1>4, <2>1, Zenon DEF send
  <2>3. /\ due \in [Tid -> Int] /\ DOMAIN due = Tid
        /\ sleepq \in Seq(Tid) /\ NoDuplicates(sleepq) /\ Contains(sleepq, t)
        /\ \A x \in Tid : Contains(sleepq, x) <=> state[x] \in {THRSLEEP, THRTMOUT}
    BY <1>4, Zenon DEF IInv, Types, SleepIs
  <2>4. /\ DOMAIN K = Tid
        /\ \A x \in Tid : ~Contains(sleepq, x) => K[x] = key[x]
    BY <1>1, <2>1, <2>3, UnsleepKeys
  <2>5. \A x \in Tid : state[x] = THRREADY => K[x] = key[x]
    BY <2>3, <2>4, Zenon
  <2>6. /\ OrderStep
        /\ \A x \in Tid \ {t} : state[x] \in {THRSLEEP, THRTMOUT} => key'[x] = K[x]
    BY <1>4, <2>2, <2>4, <2>5, WakeOrder DEF OrderInv
  <2>7. ASSUME 0 \notin Delays
        PROVE  /\ Deltas(sleepq', key', due')
               /\ \A i \in 1 .. Len(sleepq') : due'[sleepq'[i]] > 0
    <3>1. /\ Deltas(sleepq, key, due)
          /\ \A i \in 1 .. Len(sleepq) : due[sleepq[i]] > 0
      BY <2>7, NoLoopIsIdle, Zenon DEF OrderInv, Timely
    <3>2. /\ sleepq' \in Seq(Tid)
          /\ \A x : Contains(sleepq', x) <=> Contains(sleepq, x) /\ x # t
      BY <2>2, <2>3, GetitemMembers, Zenon
    <3>3. Deltas(sleepq', K, due')
      BY <1>1, <2>1, <2>2, <2>3, <3>1, UnsleepDeltas, Zenon
    <3>4. \A x : Contains(sleepq, x) => x \in Tid /\ due[x] > 0
      BY <2>3, <3>1, QueueType DEF Contains
    <3>5. \A x : Contains(sleepq', x) => key'[x] = K[x] /\ due'[x] = due'[x]
      BY <2>3, <2>6, <3>2, <3>4, Zenon
    <3>6. Deltas(sleepq', key', due')
      BY <3>3, <3>5, DeltasFrame, Zenon
    <3>7. \A x : Contains(sleepq', x) => due'[x] > 0
      BY <2>2, <2>3, <3>2, <3>4, Zenon
    <3> QED BY <3>6, <3>7, Zenon DEF Contains
  <2> QED BY <2>6, <2>7, Zenon DEF StepOK, Timely
<1> QED BY <1>2, <1>3, <1>4, Zenon

\* suspend(): the thread leaves the ready list or the processor.
LEMMA SuspendOrder ==
  ASSUME IInv, OrderInv, NEW t \in Tid, suspend(t)
  PROVE  StepOK
<1>1. UNCHANGED <<sleepq, due, kloop, prio>> /\ thrcurrent # NULLTHREAD /\ DOMAIN key = Tid
  BY Caller, Zenon DEF suspend, sleep_vars, entry_vars, IInv, RunSound, Sound
<1>2. CASE state[t] = THRREADY
  <2>1. /\ state' = [state EXCEPT ![t] = THRSUSP] /\ readylist' = getitem(readylist, t)
        /\ UNCHANGED <<key, thrcurrent>>
    BY <1>2, Zenon DEF suspend
  <2>2. \A x \in Tid : state'[x] = THRREADY => state[x] = THRREADY
    BY <2>1, Zenon DEF IInv, RunSound, Sound
  <2>3. OrderStep /\ SleepersKeep(key)
    BY <1>1, <2>1, <2>2, RemoveOrder, Zenon DEF OrderInv
  <2> QED BY <1>1, <2>3, AwakeStep, Zenon
<1>3. CASE state[t] = THRCURR
  <2>1. resched(Sched([state EXCEPT ![thrcurrent] = THRSUSP], key, readylist))
    BY <1>3, Zenon DEF suspend, Block
  <2>2. OrderStep /\ SleepersKeep(key)
    BY <1>1, <2>1, BlockOrder, Zenon DEF OrderInv
  <2> QED BY <1>1, <2>2, AwakeStep, Zenon
<1> QED BY <1>2, <1>3, Zenon DEF suspend

\* resume() and ready() of a suspended thread.
LEMMA ResumeOrder ==
  ASSUME IInv, OrderInv, NEW t \in Tid, resume(t) \/ start(t)
  PROVE  StepOK
<1>1. UNCHANGED <<sleepq, due, kloop, prio>> /\ state[t] = THRSUSP /\ DOMAIN key = Tid
  BY Zenon DEF resume, start, sleep_vars, entry_vars, IInv, RunSound, Sound
<1>2. /\ OrderStep
      /\ \A x \in Tid \ {t} : state[x] \in {THRSLEEP, THRTMOUT} => key'[x] = key[x]
  <2>1. CASE resume(t)
    <3>1. resched(ready(Sched(state, key, readylist), t))
      BY <2>1, Zenon DEF resume, Now
    <3> QED BY <1>1, <3>1, WakeOrder, Zenon DEF OrderInv
  <2>2. CASE start(t)
    BY <1>1, <2>2, ReadyOnlyOrder, Zenon DEF start, OrderInv
  <2> QED BY <2>1, <2>2, Zenon
<1> QED BY <1>1, <1>2, AwakeStep, Zenon DEF SleepersKeep

\* chprio() and create() change priorities, but of no thread on the ready list
\* unless chprio() is among the calls.
LEMMA ChprioCreateOrder ==
  ASSUME IInv, OrderInv, NEW p \in Prio, create(p) \/ \E t \in Tid : chprio(t, p)
  PROVE  StepOK
<1>1. UNCHANGED <<key, readylist, thrcurrent, sleepq, due, kloop>>
  BY Zenon DEF create, chprio, ready_vars, sleep_vars
<1>2. /\ \A x \in Tid : state'[x] = THRREADY => state[x] = THRREADY
      /\ "chprio" \notin Syscalls
            => \A x \in Tid : state[x] = THRREADY => prio'[x] = prio[x]
  <2>1. CASE \E t \in Tid : chprio(t, p)
    BY <2>1, Zenon DEF chprio, Calls, ready_vars
  <2>2. CASE create(p)
    <3>1. /\ state \in [Tid -> ThreadState] /\ prio \in [Tid -> Int]
      BY Zenon DEF IInv, RunSound, Sound, Types
    <3>2. PICK b \in Stack \cup {SYSERR}, t \in Tid \cup {SYSERR} :
            /\ thrnew(t)
            /\ IF b = SYSERR \/ t = SYSERR
               THEN UNCHANGED <<thrcount, state, entry_vars, msg>>
               ELSE enter(t, b, p)
      BY <2>2, Zenon DEF create
    <3>3. CASE b = SYSERR \/ t = SYSERR
      BY <3>2, <3>3, Zenon DEF entry_vars
    <3>4. CASE ~(b = SYSERR \/ t = SYSERR)
      <4>1. /\ t \in Tid /\ state[t] = THRFREE
            /\ state' = [state EXCEPT ![t] = THRSUSP]
            /\ prio' = [prio EXCEPT ![t] = p]
        BY <3>2, <3>4, Zenon DEF enter, thrnew
      <4> QED BY <3>1, <4>1, Zenon
    <3> QED BY <3>3, <3>4, Zenon
  <2> QED BY <2>1, <2>2, Zenon
<1>3. OrderStep /\ SleepersKeep(key)
  BY <1>1, <1>2, QuietOrder, Zenon DEF OrderInv
<1> QED BY <1>1, <1>3, AwakeStep, Zenon

\* kill() up to and including send() to the parent.
LEMMA KillOrder ==
  ASSUME IInv, OrderInv, NEW t \in Tid, kill(t)
  PROVE  StepOK
<1>1. UNCHANGED <<kloop, prio>> /\ kloop = NoLoop /\ parent[t] \in Tid
  BY Caller, Zenon DEF kill, entry_vars, IInv, Types
<1>2. CASE thrcount - 1 <= 1
  <2>1. UNCHANGED <<state, key, readylist, thrcurrent, sleepq, due>>
    BY <1>2, Zenon DEF kill, ready_vars, sleep_vars
  <2> QED BY <1>1, <2>1, QuietStep, Zenon
<1>3. CASE ~(thrcount - 1 <= 1)
  <2>1. send(parent[t], t)
    BY <1>3, Zenon DEF kill
  <2> QED BY <1>1, <2>1, SendOrder, Zenon
<1> QED BY <1>2, <1>3, Zenon

\* The end of kill(): the target leaves the processor or the ready list.
LEMMA KillReturnOrder ==
  ASSUME IInv, OrderInv, kill_return
  PROVE  StepOK
<1>1. PICK t : t = cont[thrcurrent].tid
  BY Zenon
<1>2. UNCHANGED <<sleepq, due, kloop, prio>> /\ DOMAIN key = Tid
  BY Zenon DEF kill_return, sleep_vars, entry_vars, IInv, RunSound, Sound
<1>3. t \in Tid /\ t # NULLTHREAD /\ state \in [Tid -> ThreadState]
  BY <1>1, Zenon DEF kill_return, IInv, KillIs, Types, Cont, RunSound, Sound
<1>4. CASE state[t] = THRCURR
  <2>1. thrcurrent = t
    BY <1>3, <1>4, Zenon DEF IInv, RunSound
  <2>2. resched(Sched([state EXCEPT ![thrcurrent] = THRFREE], key, readylist))
    BY <1>1, <1>4, <2>1, Zenon DEF kill_return
  <2>3. OrderStep /\ SleepersKeep(key)
    BY <1>2, <1>3, <2>1, <2>2, BlockOrder, Zenon DEF OrderInv
  <2> QED BY <1>2, <2>3, AwakeStep, Zenon
<1>5. CASE state[t] = THRREADY
  <2>1. /\ state' = [state EXCEPT ![t] = THRFREE] /\ readylist' = getitem(readylist, t)
        /\ UNCHANGED <<key, thrcurrent>>
    BY <1>1, <1>5, Zenon DEF kill_return, Becomes, Sched
  <2>2. \A x \in Tid : state'[x] = THRREADY => state[x] = THRREADY
    BY <1>3, <2>1, Zenon
  <2>3. OrderStep /\ SleepersKeep(key)
    BY <1>2, <2>1, <2>2, RemoveOrder, Zenon DEF OrderInv
  <2> QED BY <1>2, <2>3, AwakeStep, Zenon
<1>6. CASE state[t] \notin {THRCURR, THRREADY}
  <2>1. /\ state' = [state EXCEPT ![t] = THRFREE]
        /\ UNCHANGED <<key, readylist, thrcurrent>>
    BY <1>1, <1>6, Zenon DEF kill_return, Becomes, Sched
  <2>2. \A x \in Tid : state'[x] = THRREADY => state[x] = THRREADY
    BY <1>3, <2>1, Zenon
  <2>3. OrderStep /\ SleepersKeep(key)
    BY <1>2, <2>1, <2>2, QuietOrder, Zenon DEF OrderInv
  <2> QED BY <1>2, <2>3, AwakeStep, Zenon
<1> QED BY <1>4, <1>5, <1>6, Zenon

\* On a delta list whose first key is positive nobody's time is up.
LEMMA FirstDue ==
  ASSUME NEW q \in Seq(Tid), NEW k, NEW d, Deltas(q, k, d), q = <<>> \/ ~(k[Head(q)] <= 0)
  PROVE  \A i \in 1 .. Len(q) : d[q[i]] > 0
<1>1. Len(q) \in Nat /\ (q = <<>> <=> Len(q) = 0)
  BY QueueType, Zenon
<1>2. CASE q = <<>>
  BY <1>1, <1>2
<1>3. CASE q # <<>>
  <2>1. 1 \in 1 .. Len(q) /\ Head(q) = q[1]
    BY <1>1, <1>3
  <2>2. k[q[1]] = d[q[1]] /\ d[q[1]] \in Nat
    BY <2>1, Zenon DEF Deltas
  <2>3. \A i \in 1 .. Len(q) : d[q[i]] \in Nat /\ (1 < i => d[q[1]] <= d[q[i]])
    BY <2>1, Zenon DEF Deltas
  <2>4. d[q[1]] > 0
    BY <1>3, <2>1, <2>2
  <2> QED BY <1>1, <2>2, <2>3, <2>4
<1> QED BY <1>2, <1>3, Zenon

\* The sleepers are the threads on the sleep queue, and not on the ready list.
LEMMA Sleepers ==
  ASSUME IInv
  PROVE  /\ sleepq \in Seq(Tid) /\ NoDuplicates(sleepq)
         /\ \A x : Contains(sleepq, x) => x \in Tid /\ state[x] \in {THRSLEEP, THRTMOUT}
         /\ sleepq # <<>> => Contains(sleepq, Head(sleepq))
<1>1. sleepq \in Seq(Tid) /\ NoDuplicates(sleepq)
  BY Zenon DEF IInv, SleepIs
<1>2. \A x : Contains(sleepq, x) => x \in Tid
  BY <1>1, QueueType, Zenon DEF Contains
<1>3. sleepq # <<>> => Contains(sleepq, Head(sleepq))
  BY <1>1, TailMembers, Zenon
<1> QED BY <1>1, <1>2, <1>3, Zenon DEF IInv, SleepIs

\* clkhandler(): one tick for everybody is one tick for the first key.
LEMMA ClkhandlerOrder ==
  ASSUME IInv, OrderInv, clkhandler
  PROVE  StepOK
<1>1. /\ UNCHANGED <<sleepq, prio>> /\ kloop = NoLoop
      /\ due' = [t \in Tid |->
                   IF state[t] \in {THRSLEEP, THRTMOUT} /\ due[t] >= 0
                   THEN due[t] - 1 ELSE due[t]]
  BY Zenon DEF clkhandler, UserMode, entry_vars
<1>2. /\ DOMAIN key = Tid
      /\ \A x : Contains(sleepq, x) => x \in Tid /\ state[x] \in {THRSLEEP, THRTMOUT}
      /\ sleepq \in Seq(Tid) /\ NoDuplicates(sleepq)
  BY Sleepers, Zenon DEF IInv, RunSound, Sound
<1>3. CASE sleepq = <<>>
  <2>1. resched(Sched(state, key, readylist))
    BY <1>3, Zenon DEF clkhandler, Now
  <2>2. OrderStep
    BY <1>1, <1>2, <2>1, PlainOrder, Zenon DEF OrderInv
  <2>3. \A i : i \notin 1 .. Len(sleepq')
    <3>1. Len(sleepq') = 0
      BY <1>1, <1>3, Zenon
    <3> QED BY <3>1
  <2>4. Timely'
    <3>1. Deltas(sleepq', key', due')
      BY <2>3, Zenon DEF Deltas
    <3> QED BY <2>3, <3>1, Zenon DEF Timely
  <2> QED BY <2>2, <2>4, Zenon DEF StepOK
<1>4. CASE sleepq # <<>>
  <2>1. PICK K : K = Ticked
    BY Zenon
  <2>2. /\ Head(sleepq) \in Tid /\ state[Head(sleepq)] \in {THRSLEEP, THRTMOUT}
        /\ K = [key EXCEPT ![Head(sleepq)] = @ - 1]
    BY <1>2, <1>4, <2>1, Sleepers, Zenon DEF Ticked
  <2>3. /\ DOMAIN K = Tid
        /\ \A x \in Tid : state[x] = THRREADY => K[x] = key[x]
    BY <1>2, <2>2, Zenon
  <2>4. ASSUME 0 \notin Delays
        PROVE  Deltas(sleepq, K, due')
    <3>1. Deltas(sleepq, key, due) /\ \A i \in 1 .. Len(sleepq) : due[sleepq[i]] > 0
      BY <1>1, <2>4, NoLoopIsIdle, Zenon DEF OrderInv, Timely
    <3>2. \A i \in 1 .. Len(sleepq) : due[sleepq[i]] \in Nat
      BY <3>1, Zenon DEF Deltas
    <3>3. \A i \in 1 .. Len(sleepq) : due'[sleepq[i]] = due[sleepq[i]] - 1
      BY <1>1, <1>2, <3>1, <3>2 DEF Contains
    <3> QED BY <1>2, <1>4, <2>2, <3>1, <3>3, TickDeltas, Zenon
  <2>5. CASE K[Head(sleepq)] <= 0
    <3>1. /\ key' = K /\ UNCHANGED <<state, readylist, thrcurrent>>
          /\ kloop' = [NoLoop EXCEPT !.op = "wakeup"]
      BY <1>4, <2>1, <2>5, Zenon DEF clkhandler
    <3>2. InOrder(state, K, readylist)
      BY <2>3, OrderFrame, Zenon DEF OrderInv, IInv, RunSound
    <3>3. OrderStep
      BY <1>1, <3>1, <3>2, Zenon DEF OrderStep, Handover, InOrder, Keyed
    <3>4. kloop'.op = "wakeup"
      BY <3>1, Zenon DEF NoLoop
    <3> QED BY <1>1, <2>4, <3>1, <3>3, <3>4, Zenon DEF StepOK, Timely
  <2>6. CASE ~(K[Head(sleepq)] <= 0)
    <3>1. resched(Sched(state, K, readylist)) /\ kloop' = kloop
      BY <1>4, <2>1, <2>6, Zenon DEF clkhandler
    <3>2. OrderStep /\ SleepersKeep(K)
      BY <1>1, <2>3, <3>1, PlainOrder, Zenon DEF OrderInv
    <3>3. ASSUME 0 \notin Delays
          PROVE  /\ Deltas(sleepq, key', due')
                 /\ \A i \in 1 .. Len(sleepq) : due'[sleepq[i]] > 0
      <4>1. \A x : Contains(sleepq, x) => key'[x] = K[x] /\ due'[x] = due'[x]
        BY <1>2, <3>2, Zenon DEF SleepersKeep
      <4>2. Deltas(sleepq, K, due')
        BY <2>4, <3>3, Zenon
      <4>3. Deltas(sleepq, key', due')
        BY <4>1, <4>2, DeltasFrame, Zenon
      <4> QED BY <1>2, <2>6, <4>2, <4>3, FirstDue, Zenon
    <3> QED BY <1>1, <3>2, <3>3, Zenon DEF StepOK, Timely
  <2> QED BY <2>5, <2>6, Zenon
<1> QED BY <1>3, <1>4, Zenon

\* The loop of wakeup() readies the threads whose time is up, and only those.
LEMMA WakeupLoopOrder ==
  ASSUME IInv, OrderInv, wakeup_loop
  PROVE  StepOK
<1>1. UNCHANGED prio /\ kloop.op = "wakeup"
  BY Zenon DEF wakeup_loop, entry_vars
<1>2. /\ DOMAIN key = Tid /\ due \in [Tid -> Int]
      /\ \A x : Contains(sleepq, x) => x \in Tid /\ state[x] \in {THRSLEEP, THRTMOUT}
      /\ sleepq \in Seq(Tid) /\ NoDuplicates(sleepq)
  BY Sleepers, Zenon DEF IInv, RunSound, Sound, Types
<1>3. CASE sleepq # <<>> /\ key[Head(sleepq)] <= 0
  <2>1. PICK t \in Tid : t = Head(sleepq) /\ state[t] \in {THRSLEEP, THRTMOUT}
    BY <1>2, <1>3, Sleepers, Zenon
  <2>2. /\ sleepq' = Tail(sleepq) /\ due' = [due EXCEPT ![t] = 0]
        /\ UNCHANGED <<kloop, thrcurrent>>
        /\ Becomes(ready(Now, t))
    BY <1>3, <2>1, Zenon DEF wakeup_loop
  <2>3. OrderStep /\ \A x \in Tid \ {t} : key'[x] = key[x]
    BY <1>1, <2>1, <2>2, ReadyOnlyOrder, Zenon DEF OrderInv
  <2>4. ASSUME 0 \notin Delays
        PROVE  Deltas(sleepq', key', due')
    <3>1. Deltas(sleepq, key, due)
      BY <2>4, Zenon DEF OrderInv, Timely
    <3>2. due[Head(sleepq)] = 0
      <4>1. 1 \in 1 .. Len(sleepq) /\ Head(sleepq) = sleepq[1]
        BY <1>2, <1>3, QueueType
      <4>2. key[sleepq[1]] = due[sleepq[1]] /\ due[sleepq[1]] \in Nat
        BY <3>1, <4>1, Zenon DEF Deltas
      <4> QED BY <1>3, <4>1, <4>2
    <3>3. Deltas(sleepq', key, due)
      BY <1>2, <1>3, <2>2, <3>1, <3>2, TailDeltas, Zenon
    <3>4. \A x : Contains(sleepq', x) <=> Contains(sleepq, x) /\ x # t
      BY <1>2, <1>3, <2>1, <2>2, TailMembers, Zenon
    <3>5. \A x : Contains(sleepq', x) => key'[x] = key[x] /\ due'[x] = due[x]
      BY <1>2, <2>2, <2>3, <3>4, Zenon
    <3> QED BY <3>3, <3>5, DeltasFrame
  <2> QED BY <1>1, <2>2, <2>3, <2>4, Zenon DEF StepOK, Timely
<1>4. CASE ~(sleepq # <<>> /\ key[Head(sleepq)] <= 0)
  <2>1. resched(Sched(state, key, readylist)) /\ UNCHANGED <<sleepq, due>>
    BY <1>4, Zenon DEF wakeup_loop, Now, sleep_vars
  <2>2. OrderStep /\ SleepersKeep(key)
    BY <1>1, <1>2, <2>1, PlainOrder, Zenon DEF OrderInv
  <2>3. ASSUME 0 \notin Delays
        PROVE  /\ Deltas(sleepq, key', due)
               /\ \A i \in 1 .. Len(sleepq) : due[sleepq[i]] > 0
    <3>1. Deltas(sleepq, key, due)
      BY <2>3, Zenon DEF OrderInv, Timely
    <3>2. \A x : Contains(sleepq, x) => key'[x] = key[x] /\ due[x] = due[x]
      BY <1>2, <2>2, Zenon DEF SleepersKeep
    <3>3. Deltas(sleepq, key', due)
      BY <3>1, <3>2, DeltasFrame, Zenon
    <3> QED BY <1>2, <1>4, <3>1, <3>3, FirstDue, Zenon
  <2> QED BY <2>1, <2>2, <2>3, Zenon DEF StepOK, Timely
<1> QED BY <1>3, <1>4, Zenon

-----------------------------------------------------------------------------
(***************************************************************************)
(* All steps together.                                                     *)
(***************************************************************************)
\* Every step keeps both orders and hands the processor over by priority.
LEMMA NextOrder ==
  ASSUME IInv, OrderInv, [Next]_vars
  PROVE  StepOK
<1>1. CASE SemCall
  BY <1>1, WaitOrder, SignalOrder, QuietCalls, Zenon DEF SemCall
<1>2. CASE MsgCall
  <2>1. ASSUME NEW t \in Tid, NEW m \in UserMsgs, Send(t, m) PROVE StepOK
    <3>1. send(t, m) /\ UNCHANGED <<prio, kloop>> /\ kloop = NoLoop
      BY <2>1, Caller, Zenon DEF Send, entry_vars
    <3> QED BY <3>1, SendOrder, Zenon
  <2> QED BY <1>2, <2>1, ReceiveOrder, QuietCalls, RecvtimeOrder, Zenon DEF MsgCall
<1>3. CASE ThreadCall
  BY <1>3, YieldSleepOrder, SuspendOrder, ResumeOrder, KillOrder, ChprioCreateOrder,
     Zenon DEF ThreadCall
<1>4. CASE KernelStep
  BY <1>4, SignalnLoopOrder, SemfreeLoopOrder, WakeupLoopOrder, QuietCalls,
     KillReturnOrder, Zenon DEF KernelStep
<1>5. CASE clkhandler
  BY <1>5, ClkhandlerOrder, Zenon
<1>6. CASE Halt \/ UNCHANGED vars
  BY <1>6, QuietCalls, Zenon DEF Halt
<1> QED BY <1>1, <1>2, <1>3, <1>4, <1>5, <1>6, Zenon DEF Next

\* nulluser() leaves main alone on the ready list.
LEMMA InitOrder == Init => OrderInv
<1> SUFFICES ASSUME Init PROVE OrderInv
  BY Zenon
<1>1. PICK p \in Prio : /\ prio = [t \in Tid |-> IF t = 1 THEN p ELSE 0]
                        /\ key = [t \in Tid |-> IF t = 1 THEN p ELSE 0]
  BY Zenon DEF Init
<1>2. 1 \in Tid /\ p \in Int
  BY KernelAssumption DEF Tid
<1>3. Ordered(readylist, key)
  BY <1>1, <1>2 DEF Init, Ordered
<1>4. Keyed(state, key)
  BY <1>1, Zenon DEF Keyed
<1>5. Timely
  BY DEF Init, Timely, Deltas
<1> QED BY <1>3, <1>4, <1>5, Zenon DEF OrderInv, InOrder

\* Both orders always hold.
LEMMA AlwaysOrder == KillSleepers = FALSE => (Spec => [](IInv /\ OrderInv))
<1> SUFFICES ASSUME KillSleepers = FALSE PROVE Spec => [](IInv /\ OrderInv)
  BY Zenon
<1>1. Init => IInv /\ OrderInv
  BY InitIInv, InitOrder, Zenon
<1>2. IInv /\ OrderInv /\ [Next]_vars => IInv' /\ OrderInv'
  BY NextIInv, NextOrder, Zenon DEF StepOK, OrderStep, OrderInv
<1> QED BY <1>1, <1>2, PTL DEF Spec

\* Whenever resched() hands the processor over, no ready thread outranks the one
\* that gets it, for any number of threads and any priorities.  With chprio() the
\* property fails, since chprio() leaves a thread where it is on the ready list.
THEOREM PriorityScheduling ==
  KillSleepers = FALSE /\ "chprio" \notin Syscalls => (Spec => HighestPriorityRuns)
<1> SUFFICES ASSUME KillSleepers = FALSE, "chprio" \notin Syscalls
             PROVE  Spec => HighestPriorityRuns
  BY Zenon
<1>1. Spec => [](IInv /\ OrderInv)
  BY AlwaysOrder, Zenon
<1>2. IInv /\ OrderInv /\ [Next]_vars
        => [thrcurrent' # thrcurrent =>
              \A t \in Tid : state'[t] = THRREADY => prio'[t] <= prio'[thrcurrent']]_vars
  BY NextOrder, Zenon DEF StepOK, OrderStep, Handover
<1> QED BY <1>1, <1>2, PTL DEF Spec, HighestPriorityRuns

\* The delta keys of the sleep queue always add up to the ticks each sleeper still
\* has to wait, and outside clkhandler() everybody on it has some left, for any
\* number of threads.  recvtime(0) is excluded: it delays those behind the caller.
THEOREM SleepersOnTime ==
  KillSleepers = FALSE /\ 0 \notin Delays => (Spec => []SleepOnTime)
<1> SUFFICES ASSUME KillSleepers = FALSE, 0 \notin Delays
             PROVE  Spec => []SleepOnTime
  BY Zenon
<1>1. Spec => [](IInv /\ OrderInv)
  BY AlwaysOrder, Zenon
<1>2. IInv /\ OrderInv => SleepOnTime
  <2> SUFFICES ASSUME IInv, OrderInv PROVE SleepOnTime
    BY Zenon
  <2>1. /\ Deltas(sleepq, key, due) /\ sleepq \in Seq(Tid)
        /\ kloop.op # "wakeup" => \A i \in 1 .. Len(sleepq) : due[sleepq[i]] > 0
    BY Sleepers, Zenon DEF OrderInv, Timely
  <2>2. \A i \in 1 .. Len(sleepq) : Delta(sleepq, key, i) = due[sleepq[i]]
    BY <2>1, DeltaIs, Zenon
  <2> QED BY <2>1, <2>2, Zenon DEF SleepOnTime
<1> QED BY <1>1, <1>2, PTL

\* The ready list is always in descending order of key, with chprio() too, for any
\* number of threads and any priorities: insert() and resched() keep it so.
THEOREM ReadyListSorted == KillSleepers = FALSE => (Spec => []ReadySorted)
<1> SUFFICES ASSUME KillSleepers = FALSE PROVE Spec => []ReadySorted
  BY Zenon
<1>1. Spec => [](IInv /\ OrderInv)
  BY AlwaysOrder, Zenon
<1>2. ASSUME IInv, OrderInv PROVE ReadySorted
  <2>1. Ordered(readylist, key) /\ readylist \in Seq(Tid)
    BY <1>2, Zenon DEF OrderInv, InOrder, IInv, RunSound, Sound
  <2>2. \A t \in Tid : state[t] = THRREADY => Contains(readylist, t)
    BY <1>2, Zenon DEF IInv, RunSound, Sound
  <2> QED BY <2>1, <2>2, Zenon DEF ReadySorted, Ordered, Contains
<1> QED BY <1>1, <1>2, PTL

\* The facts about finite sets that the counts of threads rest on.
LEMMA FiniteCounting == Counting
<1>1. \A S : IsFiniteSet(S) => Cardinality(S) \in Nat /\ (Cardinality(S) = 0 => S = {})
  BY FS_CardinalityType, FS_EmptySet, Zenon
<1>2. \A S : IsFiniteSet(S) => \A T \in SUBSET S : IsFiniteSet(T)
  BY FS_Subset, Zenon
<1>3. \A S, x : IsFiniteSet(S) /\ x \notin S => Cardinality(S \cup {x}) = Cardinality(S) + 1
  BY FS_AddElement, Zenon
<1>4. \A S, x : IsFiniteSet(S) /\ x \in S => Cardinality(S \ {x}) = Cardinality(S) - 1
  BY FS_RemoveElement, Zenon
<1>5. \A m, n \in Int : IsFiniteSet(m .. n)
  BY FS_Interval, Zenon
<1>6. Cardinality({}) = 0 /\ \A x : IsFiniteSet({x}) /\ Cardinality({x}) = 1
  BY FS_EmptySet, FS_Singleton, Zenon
<1> QED BY <1>1, <1>2, <1>3, <1>4, <1>5, <1>6, Zenon DEF Counting

\* thrcount is the number of threads made and not being killed, halt() is reached only
\* when nobody but the null thread is left, and no two threads share a stack, for any
\* number of threads and stacks.  Overlapping kills are excluded: a killed killer
\* leaves its target alive and no longer counted.
THEOREM ThreadsAlwaysAccounted ==
  KillSleepers = FALSE /\ KillOverlap = FALSE => (Spec => []ThreadsAccounted)
<1> SUFFICES ASSUME KillSleepers = FALSE, KillOverlap = FALSE
             PROVE  Spec => []ThreadsAccounted
  BY Zenon
<1>1. Init => CountInv
  BY InitCount, FiniteCounting, Zenon
<1>2. IInv /\ IInv' /\ CountInv /\ [Next]_vars => CountInv'
  BY NextCount, FiniteCounting, Zenon
<1>3. CountInv => ThreadsAccounted
  BY Zenon DEF CountInv
<1>4. Spec => []IInv
  BY AlwaysIInv, Zenon
<1> QED BY <1>1, <1>2, <1>3, <1>4, PTL DEF Spec

=============================================================================
