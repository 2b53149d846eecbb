--------------------------- MODULE KernelCallProofs -------------------------
(***************************************************************************)
(* The semaphore calls, the message calls, sleep, yield, the clock         *)
(* interrupt, suspend, resume, chprio, create and kill keep IInv; the      *)
(* theorems that follow from it, and the semaphore calls as steps of the   *)
(* abstract semaphores of Semaphores.                                      *)
(***************************************************************************)
EXTENDS KernelInvariant, KernelSemaphores

USE DEF THRCURR, THRFREE, THRREADY, THRRECV, THRSLEEP, THRSUSP, THRWAIT,
        THRTMOUT, ThreadState

(***************************************************************************)
(* Semaphores.                                                             *)
(***************************************************************************)

\* wait() keeps the invariant.
LEMMA WaitKeeps ==
  ASSUME IInv, NEW s \in Sem, wait(s)
  PROVE  IInv'
<1>1. /\ thrcurrent \in Tid /\ thrcurrent # NULLTHREAD
      /\ state[thrcurrent] = THRCURR
      /\ cont[thrcurrent] = User /\ kloop = NoLoop
  BY Caller, Zenon DEF wait
<1>2. s \in Nat /\ scount[s] \in Int /\ semq[s] \in Seq(Tid) /\ Len(semq[s]) \in Nat
  BY SemFacts, Zenon
<1>3. CASE scount[s] - 1 < 0
  <2> DEFINE S == [state EXCEPT ![thrcurrent] = THRWAIT]
  <2>1. RunSound' /\ SameBlocked(S, state')
    BY <1>1, <1>3, BlockStep, Zenon DEF wait, Block, IInv, RunSound, Sound
  <2>2. /\ sem' = [sem EXCEPT ![thrcurrent] = s]
        /\ semq' = [semq EXCEPT ![s] = Append(@, thrcurrent)]
        /\ scount' = [scount EXCEPT ![s] = @ - 1]
        /\ UNCHANGED <<sleepq, due, stk, cont, msg, prio, parent, sstate, nextsem,
                       nexttid, thrcount, freestk, halted, kloop>>
    BY <1>3, Zenon DEF wait, sleep_vars, entry_vars, table_vars
  <2>3. state \in [Tid -> ThreadState]
    BY Zenon DEF IInv, RunSound, Sound
  <2>4. SleepIs(sleepq', S)
    BY <1>1, <2>2, <2>3, Zenon DEF IInv, SleepIs
  <2>5. ~Contains(semq[s], thrcurrent)
    BY <1>1, Zenon DEF IInv, SemIs
  <2>6. /\ Append(semq[s], thrcurrent) \in Seq(Tid)
        /\ Len(Append(semq[s], thrcurrent)) = Len(semq[s]) + 1
        /\ NoDuplicates(Append(semq[s], thrcurrent))
        /\ \A x : Contains(Append(semq[s], thrcurrent), x)
                    <=> Contains(semq[s], x) \/ x = thrcurrent
    BY <1>1, <1>2, <2>5, AppendMembers DEF IInv, SemIs
  <2>7. SemIs(semq', sem', S)
    <3>1. semq \in [Sem -> Seq(Tid)] /\ sem \in [Tid -> Nat]
      BY Zenon DEF IInv, SemIs, Types
    <3>2. semq' \in [Sem -> Seq(Tid)] /\ \A x \in Sem : NoDuplicates(semq'[x])
      BY <2>2, <2>6, <3>1, Zenon DEF IInv, SemIs
    <3>3. ASSUME NEW x \in Sem, NEW t \in Tid
          PROVE  Contains(semq'[x], t) <=> S[t] = THRWAIT /\ sem'[t] = x
      <4>1. Contains(semq[x], t) <=> state[t] = THRWAIT /\ sem[t] = x
        BY Zenon DEF IInv, SemIs
      <4>2. CASE x = s
        BY <1>1, <2>2, <2>3, <2>6, <3>1, <4>1, <4>2, Zenon
      <4>3. CASE x # s
        BY <1>1, <2>2, <2>3, <3>1, <4>1, <4>3, Zenon
      <4> QED BY <4>2, <4>3, Zenon
    <3> QED BY <3>2, <3>3, Zenon DEF SemIs
  <2>8. KillIs(stk', cont', S)
    BY <1>1, <2>2, <2>3 DEF IInv, KillIs
  <2>9. MsgIs(msg', cont', S)
    BY <1>1, <2>2, <2>3, UserIsIdle, Zenon DEF IInv, MsgIs
  <2>10. Types'
    BY <1>1, <1>2, <2>2, SMTT(40) DEF IInv, Types, isbadsem
  <2>11. SemCountIsQueue'
    <3>1. ASSUME NEW x \in Sem
          PROVE  /\ Len(semq[x]) = IF scount[x] < 0 THEN -scount[x] ELSE 0
                 /\ isbadsem(x) => scount[x] = 0
      BY <1>1, NoLoopIsIdle, Zenon DEF IInv, SemCountIsQueue
    <3>2. ~isbadsem(s)
      BY Zenon DEF wait
    <3>3. /\ scount \in [Sem -> Int] /\ semq \in [Sem -> Seq(Tid)]
          /\ sstate' = sstate
      BY <2>2, Zenon DEF IInv, Types, SemIs
    <3>4. Len(semq'[s]) = Len(semq[s]) + 1 /\ scount'[s] = scount[s] - 1
      BY <2>2, <2>6, <3>3, Zenon
    <3>5. \A x \in Sem \ {s} : semq'[x] = semq[x] /\ scount'[x] = scount[x]
      BY <2>2, <3>3, Zenon
    <3>6. Len(semq'[s]) = IF scount'[s] < 0 THEN -scount'[s] ELSE 0
      BY <1>2, <1>3, <3>1, <3>4
    <3> QED BY <3>1, <3>2, <3>3, <3>5, <3>6, Zenon DEF SemCountIsQueue, isbadsem
  <2> HIDE DEF S
  <2> QED BY <2>1, <2>4, <2>7, <2>8, <2>9, <2>10, <2>11, Finish, Zenon
<1>4. CASE ~(scount[s] - 1 < 0)
  <2>1. /\ scount' = [scount EXCEPT ![s] = @ - 1]
        /\ UNCHANGED <<state, key, readylist, thrcurrent, sem, semq, sleepq, due,
                       stk, cont, msg, prio, parent, sstate, nextsem,
                       nexttid, thrcount, freestk, halted, kloop>>
    BY <1>4, Zenon DEF wait, sleep_vars, entry_vars, table_vars, ready_vars
  <2>2. RunSound'
    BY <2>1, Zenon DEF IInv, RunSound
  <2>3. Types'
    BY <1>1, <1>2, <2>1, SMTT(40) DEF IInv, Types, isbadsem
  <2>4. SemCountIsQueue'
    BY <1>1, <1>2, <1>4, <2>1, NoLoopIsIdle
      DEF IInv, SemIs, Types, SemCountIsQueue, isbadsem, wait
  <2>5. SameBlocked(state, state')
    BY <2>1, SameBlockedRefl, Zenon
  <2> QED BY <2>1, <2>2, <2>3, <2>4, <2>5, Finish, Zenon DEF IInv
<1> QED BY <1>3, <1>4, Zenon

\* The dequeue in signal(), signaln() and semfree() yields a waiting thread, and
\* the queues fit the states once it is ready.
LEMMA DequeueSem ==
  ASSUME IInv, NEW s \in Sem, semq[s] # <<>>,
         semq' = [semq EXCEPT ![s] = Tail(@)], sem' = sem
  PROVE  /\ Head(semq[s]) \in Tid /\ state[Head(semq[s])] = THRWAIT
         /\ SemIs(semq', sem', [state EXCEPT ![Head(semq[s])] = THRREADY])
         /\ Len(semq'[s]) = Len(semq[s]) - 1
<1>1. PICK h : h = Head(semq[s])
  BY Zenon
<1>2. semq \in [Sem -> Seq(Tid)] /\ NoDuplicates(semq[s])
  BY Zenon DEF IInv, SemIs
<1>3. /\ h \in Tid /\ Contains(semq[s], h)
      /\ Tail(semq[s]) \in Seq(Tid) /\ Len(Tail(semq[s])) = Len(semq[s]) - 1
      /\ NoDuplicates(Tail(semq[s]))
      /\ \A x : Contains(Tail(semq[s]), x) <=> Contains(semq[s], x) /\ x # h
  BY <1>1, <1>2, TailMembers, Zenon
<1>4. state[h] = THRWAIT /\ sem[h] = s
  BY <1>3, Zenon DEF IInv, SemIs
<1>5. state \in [Tid -> ThreadState]
  BY Zenon DEF IInv, RunSound, Sound
<1>6. semq' \in [Sem -> Seq(Tid)] /\ \A x \in Sem : NoDuplicates(semq'[x])
  BY <1>2, <1>3, Zenon DEF IInv, SemIs
<1>7. ASSUME NEW x \in Sem, NEW t \in Tid
      PROVE  Contains(semq'[x], t)
               <=> [state EXCEPT ![h] = THRREADY][t] = THRWAIT /\ sem'[t] = x
  <2>1. Contains(semq[x], t) <=> state[t] = THRWAIT /\ sem[t] = x
    BY Zenon DEF IInv, SemIs
  <2>2. CASE x = s
    BY <1>2, <1>3, <1>4, <1>5, <2>1, <2>2, Zenon
  <2>3. CASE x # s
    BY <1>2, <1>3, <1>4, <1>5, <2>1, <2>3, Zenon
  <2> QED BY <2>2, <2>3, Zenon
<1>8. SemIs(semq', sem', [state EXCEPT ![h] = THRREADY])
  BY <1>6, <1>7, Zenon DEF SemIs
<1>9. Len(semq'[s]) = Len(semq[s]) - 1
  BY <1>2, <1>3, Zenon
<1> QED BY <1>1, <1>3, <1>4, <1>8, <1>9, Zenon

\* Release() keeps count and queue in step, as long as semfree() is not at
\* work on the semaphore.
LEMMA ReleaseCounts ==
  ASSUME IInv, NEW s \in Sem, Release(s), sem' = sem, sstate' = sstate,
         ~(kloop.op = "semfree"), ~(kloop'.op = "semfree"), ~isbadsem(s)
  PROVE  /\ SemCountIsQueue' /\ scount' \in [Sem -> Int]
         /\ scount[s] < 0 => semq[s] # <<>> /\ semq' = [semq EXCEPT ![s] = Tail(@)]
         /\ ~(scount[s] < 0) => semq' = semq
<1>1. scount[s] \in Int /\ semq[s] \in Seq(Tid) /\ Len(semq[s]) \in Nat
  BY SemFacts, Zenon
<1>2. /\ scount \in [Sem -> Int] /\ semq \in [Sem -> Seq(Tid)]
      /\ scount' = [scount EXCEPT ![s] = @ + 1]
  BY Zenon DEF IInv, Types, SemIs, Release
<1>3. Len(semq[s]) = IF scount[s] < 0 THEN -scount[s] ELSE 0
  BY Zenon DEF IInv, SemCountIsQueue
<1>4. CASE scount[s] < 0
  <2>1. semq[s] # <<>>
    BY <1>1, <1>3, <1>4
  <2>2. semq' = [semq EXCEPT ![s] = Tail(@)]
    BY <1>4, <2>1, Zenon DEF Release
  <2>3. Len(semq'[s]) = Len(semq[s]) - 1
    BY <2>1, <2>2, DequeueSem, Zenon
  <2>4. SemCountIsQueue'
    BY <1>1, <1>2, <1>3, <1>4, <2>2, <2>3 DEF IInv, SemCountIsQueue, isbadsem
  <2> QED BY <1>2, <1>4, <2>1, <2>2, <2>4
<1>5. CASE ~(scount[s] < 0)
  <2>1. semq' = semq
    BY <1>5, Zenon DEF Release
  <2>2. SemCountIsQueue'
    BY <1>1, <1>2, <1>3, <1>5, <2>1 DEF IInv, SemCountIsQueue, isbadsem
  <2> QED BY <1>2, <1>5, <2>1, <2>2
<1> QED BY <1>4, <1>5, Zenon

\* signal() keeps the invariant.
LEMMA SignalKeeps ==
  ASSUME IInv, NEW s \in Sem, signal(s)
  PROVE  IInv'
<1>1. kloop = NoLoop /\ kloop' = kloop /\ Release(s) /\ ~isbadsem(s)
  BY Caller, Zenon DEF signal
<1>2. UNCHANGED <<sem, sleepq, due, stk, cont, msg, prio, parent, sstate, nextsem,
                  nexttid, thrcount, freestk, halted, kloop>>
  BY Zenon DEF signal, sleep_vars, entry_vars, table_vars
<1>3. /\ SemCountIsQueue' /\ scount' \in [Sem -> Int]
      /\ scount[s] < 0 => semq[s] # <<>> /\ semq' = [semq EXCEPT ![s] = Tail(@)]
      /\ ~(scount[s] < 0) => semq' = semq
  BY <1>1, <1>2, NoLoopIsIdle, ReleaseCounts, Zenon
<1>4. Types'
  BY <1>2, <1>3, Zenon DEF IInv, Types, isbadsem
<1>5. CASE scount[s] < 0
  <2>1. PICK h : h = Head(semq[s])
    BY Zenon
  <2>2. /\ h \in Tid /\ state[h] = THRWAIT
        /\ SemIs(semq', sem', [state EXCEPT ![h] = THRREADY])
    BY <1>2, <1>3, <1>5, <2>1, DequeueSem, Zenon
  <2>3. resched(ready(Sched(state, key, readylist), h))
    BY <1>3, <1>5, <2>1, Zenon DEF signal, Released, Now
  <2>4. RunSound' /\ SameBlocked([state EXCEPT ![h] = THRREADY], state')
    BY <2>2, <2>3, WakeStep, Zenon DEF IInv, RunSound, Sound
  <2>5. LET S == [state EXCEPT ![h] = THRREADY]
        IN  SleepIs(sleepq', S) /\ KillIs(stk', cont', S) /\ MsgIs(msg', cont', S)
    BY <1>2, <2>2, WakeFits, Zenon
  <2> QED BY <1>3, <1>4, <2>2, <2>4, <2>5, Finish, Zenon
<1>6. CASE ~(scount[s] < 0)
  <2>1. UNCHANGED <<state, key, readylist, thrcurrent>> /\ semq' = semq
    BY <1>3, <1>6, Zenon DEF signal, ready_vars
  <2>2. RunSound' /\ SameBlocked(state, state')
    BY <2>1, SameBlockedRefl, Zenon DEF IInv, RunSound
  <2> QED BY <1>2, <1>3, <1>4, <2>1, <2>2, Finish, Zenon DEF IInv
<1> QED BY <1>5, <1>6, Zenon

\* signaln() up to its loop keeps the invariant.
LEMMA SignalnKeeps ==
  ASSUME IInv, NEW s \in Sem, NEW n \in 1 .. MaxSignal, signaln(s, n)
  PROVE  IInv'
<1>1. kloop = NoLoop
  BY Caller, Zenon DEF signaln
<1>2. /\ UNCHANGED <<state, key, readylist, thrcurrent, sem, semq, scount, sleepq,
                     due, stk, cont, msg, prio, parent, sstate, nextsem,
                     nexttid, thrcount, freestk, halted>>
      /\ kloop' = [op |-> "signaln", sem |-> s, n |-> n]
  BY Zenon DEF signaln, sleep_vars, entry_vars, table_vars, ready_vars, sem_vars
<1>3. RunSound' /\ SameBlocked(state, state')
  BY <1>2, SameBlockedRefl, Zenon DEF IInv, RunSound
<1>4. Types'
  <2>1. s \in Nat /\ n \in Nat
    BY KernelAssumption DEF Sem
  <2>2. kloop' \in Loop /\ kloop'.op = "signaln" /\ kloop'.sem = s
    BY <1>2, <2>1, Zenon DEF Loop
  <2>3. ~isbadsem(s)
    BY Zenon DEF signaln
  <2> QED BY <1>2, <2>2, <2>3, Zenon DEF IInv, Types, isbadsem
<1>5. SemCountIsQueue'
  BY <1>1, <1>2, NoLoopIsIdle, Zenon DEF IInv, SemCountIsQueue, isbadsem
<1> QED BY <1>2, <1>3, <1>4, <1>5, Finish, Zenon DEF IInv

\* The loop of signaln() keeps the invariant.
LEMMA SignalnLoopKeeps ==
  ASSUME IInv, signaln_loop
  PROVE  IInv'
<1> DEFINE s == kloop.sem
<1>1. /\ kloop.op = "signaln" /\ s \in Sem /\ ~isbadsem(s)
      /\ kloop \in Loop /\ kloop.n \in Nat
  BY Zenon DEF IInv, Types, signaln_loop, Loop
<1>2. UNCHANGED <<sem, sleepq, due, stk, cont, msg, prio, parent, sstate, nextsem,
                  nexttid, thrcount, freestk, halted>>
  BY Zenon DEF signaln_loop, sleep_vars, entry_vars, table_vars
<1>3. CASE kloop.n > 0
  <2>1. /\ kloop' = [kloop EXCEPT !.n = @ - 1] /\ Release(s)
        /\ Becomes(Released(s)) /\ UNCHANGED thrcurrent
    BY <1>3, Zenon DEF signaln_loop
  <2>2. kloop' \in Loop /\ kloop'.op = "signaln" /\ kloop'.sem = s
    BY <1>1, <1>3, <2>1 DEF Loop
  <2>3. /\ SemCountIsQueue' /\ scount' \in [Sem -> Int]
        /\ scount[s] < 0 => semq[s] # <<>> /\ semq' = [semq EXCEPT ![s] = Tail(@)]
        /\ ~(scount[s] < 0) => semq' = semq
    BY <1>1, <1>2, <2>1, <2>2, ReleaseCounts, Zenon
  <2>4. Types'
    BY <1>1, <1>2, <2>2, <2>3, Zenon DEF IInv, Types, isbadsem
  <2>5. CASE scount[s] < 0
    <3>1. PICK h : h = Head(semq[s])
      BY Zenon
    <3>2. /\ h \in Tid /\ state[h] = THRWAIT
          /\ SemIs(semq', sem', [state EXCEPT ![h] = THRREADY])
      BY <1>1, <1>2, <2>3, <2>5, <3>1, DequeueSem, Zenon
    <3>3. Becomes(ready(Now, h))
      BY <2>1, <2>3, <2>5, <3>1, Zenon DEF Released
    <3>4. RunSound' /\ state' = [state EXCEPT ![h] = THRREADY]
      BY <2>1, <3>2, <3>3, ReadyOnlyStep, Zenon DEF IInv
    <3>5. LET S == [state EXCEPT ![h] = THRREADY]
          IN  SleepIs(sleepq', S) /\ KillIs(stk', cont', S) /\ MsgIs(msg', cont', S)
      BY <1>2, <3>2, WakeFits, Zenon
    <3> QED BY <2>3, <2>4, <3>2, <3>4, <3>5, SameBlockedRefl, Finish, Zenon
  <2>6. CASE ~(scount[s] < 0)
    <3>1. UNCHANGED <<state, key, readylist, thrcurrent>> /\ semq' = semq
      BY <2>1, <2>3, <2>6, Zenon DEF Released, Now, Becomes, Sched
    <3>2. RunSound' /\ SameBlocked(state, state')
      BY <3>1, SameBlockedRefl, Zenon DEF IInv, RunSound
    <3> QED BY <1>2, <2>3, <2>4, <3>1, <3>2, Finish, Zenon DEF IInv
  <2> QED BY <2>5, <2>6, Zenon
<1>4. CASE ~(kloop.n > 0)
  <2>1. /\ resched(Sched(state, key, readylist)) /\ kloop' = NoLoop
        /\ UNCHANGED <<scount, semq>>
    BY <1>4, Zenon DEF signaln_loop, Now
  <2>2. RunSound' /\ SameBlocked(state, state')
    BY <2>1, PlainStep, Zenon DEF IInv, RunSound, Sound
  <2>3. Types'
    BY <1>2, <2>1, NoLoopIsIdle, Zenon DEF IInv, Types
  <2>4. SemCountIsQueue'
    BY <1>1, <1>2, <2>1, NoLoopIsIdle, Zenon DEF IInv, SemCountIsQueue, isbadsem
  <2> QED BY <1>2, <2>1, <2>2, <2>3, <2>4, Finish, Zenon DEF IInv
<1> QED BY <1>3, <1>4, Zenon

\* semcreate() keeps the invariant, with a negative count too.
LEMMA SemcreateKeeps ==
  ASSUME IInv, NEW s \in Sem, NEW n \in InitCounts, semcreate(s, n)
  PROVE  IInv'
<1>1. kloop = NoLoop /\ isbadsem(s) /\ n \in Int
  BY Caller, KernelAssumption, Zenon DEF semcreate, semalloc
<1>2. /\ UNCHANGED <<state, key, readylist, thrcurrent, sem, semq, sleepq,
                     due, stk, cont, msg, prio, parent, kloop,
                     nexttid, thrcount, freestk, halted>>
      /\ nextsem' = s /\ sstate' = [sstate EXCEPT ![s] = "SUSED"]
      /\ scount' = IF n >= 0 THEN [scount EXCEPT ![s] = n] ELSE scount
  BY Zenon DEF semcreate, sleep_vars, entry_vars, table_vars, ready_vars
<1>3. RunSound' /\ SameBlocked(state, state')
  BY <1>2, SameBlockedRefl, Zenon DEF IInv, RunSound
<1>4. s \in Nat /\ scount[s] \in Int /\ Len(semq[s]) \in Nat
  BY SemFacts, Zenon
<1>5. Types'
  BY <1>1, <1>2, <1>4, NoLoopIsIdle, Zenon DEF IInv, Types
<1>6. SemCountIsQueue'
  <2>1. Len(semq[s]) = 0 /\ scount[s] = 0
    BY <1>1, <1>4, NoLoopIsIdle DEF IInv, SemCountIsQueue
  <2>2. scount \in [Sem -> Int] /\ sstate \in [Sem -> {"SFREE", "SUSED"}]
    BY Zenon DEF IInv, Types
  <2>3. ASSUME NEW x \in Sem
        PROVE  /\ Len(semq'[x]) = IF scount'[x] < 0 THEN -scount'[x] ELSE 0
               /\ sstate'[x] = "SFREE" => scount'[x] = 0
    <3>1. CASE x = s
      BY <1>1, <1>2, <2>1, <2>2, <3>1
    <3>2. CASE x # s
      BY <1>1, <1>2, <2>2, <3>2, NoLoopIsIdle, Zenon DEF IInv, SemCountIsQueue, isbadsem
    <3> QED BY <3>1, <3>2, Zenon
  <2> QED BY <2>3, Zenon DEF SemCountIsQueue, isbadsem
<1> QED BY <1>2, <1>3, <1>5, <1>6, Finish, Zenon DEF IInv

\* semfree() up to its loop keeps the invariant.
LEMMA SemfreeKeeps ==
  ASSUME IInv, NEW s \in Sem, semfree(s)
  PROVE  IInv'
<1>1. kloop = NoLoop
  BY Caller, Zenon DEF semfree
<1>2. /\ UNCHANGED <<state, key, readylist, thrcurrent, sem, semq, scount, sleepq,
                     due, stk, cont, msg, prio, parent, sstate, nextsem,
                     nexttid, thrcount, freestk, halted>>
      /\ kloop' = [op |-> "semfree", sem |-> s, n |-> 0]
  BY Zenon DEF semfree, sleep_vars, entry_vars, table_vars, ready_vars, sem_vars
<1>3. RunSound' /\ SameBlocked(state, state')
  BY <1>2, SameBlockedRefl, Zenon DEF IInv, RunSound
<1>4. Types'
  <2>1. s \in Nat
    BY KernelAssumption DEF Sem
  <2>2. kloop' \in Loop /\ kloop'.op = "semfree" /\ kloop'.sem = s
    BY <1>2, <2>1, Zenon DEF Loop
  <2> QED BY <1>2, <2>2, Zenon DEF IInv, Types
<1>5. SemCountIsQueue'
  BY <1>1, <1>2, NoLoopIsIdle, Zenon DEF IInv, SemCountIsQueue, isbadsem
<1> QED BY <1>2, <1>3, <1>4, <1>5, Finish, Zenon DEF IInv

\* The loop of semfree() keeps the invariant and leaves count and queue empty.
LEMMA SemfreeLoopKeeps ==
  ASSUME IInv, semfree_loop
  PROVE  IInv'
<1> DEFINE s == kloop.sem
<1>1. kloop.op = "semfree" /\ s \in Sem
  BY Zenon DEF IInv, Types, semfree_loop
<1>2. UNCHANGED <<thrcurrent, sem, sleepq, due, stk, cont, msg, prio, parent, nextsem,
                  nexttid, thrcount, freestk, halted>>
  BY Zenon DEF semfree_loop, sleep_vars, entry_vars, table_vars
<1>3. CASE semq[s] # <<>>
  <2>1. /\ semq' = [semq EXCEPT ![s] = Tail(@)]
        /\ Becomes(ready(Now, Head(semq[s])))
        /\ UNCHANGED <<scount, sstate, kloop>>
    BY <1>3, Zenon DEF semfree_loop
  <2>2. PICK h : h = Head(semq[s])
    BY Zenon
  <2>3. /\ h \in Tid /\ state[h] = THRWAIT
        /\ SemIs(semq', sem', [state EXCEPT ![h] = THRREADY])
    BY <1>1, <1>2, <1>3, <2>1, <2>2, DequeueSem, Zenon
  <2>4. RunSound' /\ state' = [state EXCEPT ![h] = THRREADY]
    BY <1>2, <2>1, <2>2, <2>3, ReadyOnlyStep, Zenon DEF IInv
  <2>5. LET S == [state EXCEPT ![h] = THRREADY]
        IN  SleepIs(sleepq', S) /\ KillIs(stk', cont', S) /\ MsgIs(msg', cont', S)
    BY <1>2, <2>3, WakeFits, Zenon
  <2>6. Types'
    BY <1>2, <2>1, Zenon DEF IInv, Types, isbadsem
  <2>7. SemCountIsQueue'
    <3>1. kloop'.op = "semfree" /\ kloop'.sem = s
      BY <1>1, <2>1, Zenon
    <3>2. \A x \in Sem \ {s} : semq'[x] = semq[x]
      BY <2>1, Zenon DEF IInv, SemIs
    <3>3. \A x \in Sem \ {s} :
            /\ Len(semq[x]) = IF scount[x] < 0 THEN -scount[x] ELSE 0
            /\ isbadsem(x) => scount[x] = 0
      BY <1>1, Zenon DEF IInv, SemCountIsQueue
    <3> QED BY <2>1, <3>1, <3>2, <3>3, Zenon DEF SemCountIsQueue, isbadsem
  <2> QED BY <2>3, <2>4, <2>5, <2>6, <2>7, SameBlockedRefl, Finish, Zenon
<1>4. CASE semq[s] = <<>>
  <2>1. /\ scount' = [scount EXCEPT ![s] = 0]
        /\ sstate' = [sstate EXCEPT ![s] = "SFREE"]
        /\ kloop' = NoLoop
        /\ UNCHANGED <<semq, state, key, readylist>>
    BY <1>4, Zenon DEF semfree_loop
  <2>2. RunSound' /\ SameBlocked(state, state')
    BY <1>2, <2>1, SameBlockedRefl, Zenon DEF IInv, RunSound
  <2>3. Types'
    BY <1>1, <1>2, <2>1, NoLoopIsIdle DEF IInv, Types
  <2>4. SemCountIsQueue'
    <3>1. Len(semq[s]) = 0
      BY <1>4
    <3>2. scount \in [Sem -> Int] /\ sstate \in [Sem -> {"SFREE", "SUSED"}]
      BY Zenon DEF IInv, Types
    <3>3. \A x \in Sem \ {s} :
            /\ Len(semq[x]) = IF scount[x] < 0 THEN -scount[x] ELSE 0
            /\ isbadsem(x) => scount[x] = 0
      BY <1>1, Zenon DEF IInv, SemCountIsQueue
    <3>4. scount'[s] = 0 /\ semq' = semq
      BY <1>1, <2>1, <3>2, Zenon
    <3>5. \A x \in Sem \ {s} : scount'[x] = scount[x] /\ sstate'[x] = sstate[x]
      BY <2>1, <3>2, Zenon
    <3> QED BY <3>1, <3>3, <3>4, <3>5, SMTT(40) DEF SemCountIsQueue, isbadsem
  <2> QED BY <1>2, <2>1, <2>2, <2>3, <2>4, Finish, Zenon DEF IInv
<1> QED BY <1>3, <1>4, Zenon

-----------------------------------------------------------------------------
(***************************************************************************)
(* Each of these calls is a step of the abstract semaphores, or none.      *)
(***************************************************************************)
\* What a step of the kernel does to the abstract semaphores.
SemStep == Abstract!Next \/ UNCHANGED <<live, value, waiting>>

\* A call that touches no semaphore.
LEMMA NoSemStep ==
  ASSUME UNCHANGED <<scount, sstate, semq>>,
         kloop' = kloop \/ (kloop.op # "semfree" /\ kloop'.op # "semfree")
  PROVE  SemStep
<1>1. \A s : Freeing(s)' <=> Freeing(s)
  BY Zenon DEF Freeing
<1>2. live' = live
  BY <1>1, Zenon DEF live, isbadsem
<1>3. value' = value
  BY <1>1, Zenon DEF value
<1>4. waiting' = waiting
  BY <1>1, Zenon DEF waiting
<1> QED BY <1>2, <1>3, <1>4, Zenon DEF SemStep

\* The abstract semaphores while nothing is being freed.
LEMMA Settled ==
  ASSUME IInv, kloop.op # "semfree"
  PROVE  /\ live = [s \in Sem |-> sstate[s] # "SFREE"]
         /\ value = [s \in Sem |-> IF scount[s] > 0 THEN scount[s] ELSE 0]
         /\ waiting = semq
<1>1. \A s : ~Freeing(s)
  BY Zenon DEF Freeing
<1>2. live = [s \in Sem |-> sstate[s] # "SFREE"]
  BY <1>1, Zenon DEF live, isbadsem
<1>3. value = [s \in Sem |-> IF scount[s] > 0 THEN scount[s] ELSE 0]
  BY <1>1, Zenon DEF value
<1>4. waiting = semq
  BY <1>1, Zenon DEF waiting, IInv, SemIs
<1> QED BY <1>2, <1>3, <1>4, Zenon

\* The same in the next state.
LEMMA SettledNext ==
  ASSUME semq' \in [Sem -> Seq(Tid)], kloop'.op # "semfree"
  PROVE  /\ live' = [s \in Sem |-> sstate'[s] # "SFREE"]
         /\ value' = [s \in Sem |-> IF scount'[s] > 0 THEN scount'[s] ELSE 0]
         /\ waiting' = semq'
<1>1. \A s : ~Freeing(s)'
  BY Zenon DEF Freeing
<1>2. live' = [s \in Sem |-> sstate'[s] # "SFREE"]
  BY <1>1, Zenon DEF live, isbadsem
<1>3. value' = [s \in Sem |-> IF scount'[s] > 0 THEN scount'[s] ELSE 0]
  BY <1>1, Zenon DEF value
<1>4. waiting' = semq'
  BY <1>1, Zenon DEF waiting
<1> QED BY <1>2, <1>3, <1>4, Zenon

\* wait() is P.
LEMMA WaitIsP ==
  ASSUME IInv, IInv', NEW s \in Sem, wait(s)
  PROVE  SemStep
<1>1. /\ kloop = NoLoop /\ kloop' = NoLoop /\ thrcurrent \in Tid
      /\ kloop.op # "semfree" /\ kloop'.op # "semfree"
      /\ sstate' = sstate /\ sstate[s] # "SFREE"
      /\ scount' = [scount EXCEPT ![s] = @ - 1]
  BY Caller, NoLoopIsIdle, Zenon DEF wait, isbadsem
<1>2. scount \in [Sem -> Int] /\ semq \in [Sem -> Seq(Tid)]
  BY Zenon DEF IInv, Types, SemIs
<1>3. /\ live = [x \in Sem |-> sstate[x] # "SFREE"]
      /\ value = [x \in Sem |-> IF scount[x] > 0 THEN scount[x] ELSE 0]
      /\ waiting = semq
  BY <1>1, Settled, Zenon
<1>4. /\ live' = [x \in Sem |-> sstate'[x] # "SFREE"]
      /\ value' = [x \in Sem |-> IF scount'[x] > 0 THEN scount'[x] ELSE 0]
      /\ waiting' = semq'
  BY <1>1, SettledNext, Zenon DEF IInv, SemIs
<1>5. Abstract!P(s, thrcurrent)
  <2>1. live[s] /\ live' = live
    BY <1>1, <1>3, <1>4, Zenon
  <2>2. CASE scount[s] > 0
    <3>1. semq' = semq
      BY <1>2, <2>2 DEF wait
    <3>2. \A x \in Sem : value'[x] = IF x = s THEN value[s] - 1 ELSE value[x]
      BY <1>1, <1>2, <1>3, <1>4, <2>2
    <3>3. value' = [value EXCEPT ![s] = @ - 1] /\ value[s] > 0
      BY <1>3, <1>4, <2>2, <3>2, Zenon
    <3> QED BY <1>3, <1>4, <2>1, <3>1, <3>3, Zenon DEF Abstract!P
  <2>3. CASE ~(scount[s] > 0)
    <3>1. semq' = [semq EXCEPT ![s] = Append(@, thrcurrent)]
      BY <1>2, <2>3 DEF wait
    <3>2. value' = value /\ ~(value[s] > 0)
      BY <1>1, <1>2, <1>3, <1>4, <2>3
    <3> QED BY <1>3, <1>4, <2>1, <3>1, <3>2, Zenon DEF Abstract!P
  <2> QED BY <2>2, <2>3, Zenon
<1> QED BY <1>1, <1>5, Zenon DEF SemStep, Abstract!Next

\* signal() and one turn of the loop of signaln() are V.
LEMMA ReleaseIsV ==
  ASSUME IInv, semq' \in [Sem -> Seq(Tid)], NEW s \in Sem, Release(s),
         sstate[s] # "SFREE", sstate' = sstate,
         kloop.op # "semfree", kloop'.op # "semfree"
  PROVE  SemStep
<1>1. /\ scount' = [scount EXCEPT ![s] = @ + 1]
      /\ semq' = IF scount[s] < 0 /\ semq[s] # <<>>
                 THEN [semq EXCEPT ![s] = Tail(@)] ELSE semq
  BY Zenon DEF Release
<1>2. scount \in [Sem -> Int] /\ semq \in [Sem -> Seq(Tid)]
  BY Zenon DEF IInv, Types, SemIs
<1>3. /\ live = [x \in Sem |-> sstate[x] # "SFREE"]
      /\ value = [x \in Sem |-> IF scount[x] > 0 THEN scount[x] ELSE 0]
      /\ waiting = semq
  BY Settled, Zenon
<1>4. /\ live' = [x \in Sem |-> sstate'[x] # "SFREE"]
      /\ value' = [x \in Sem |-> IF scount'[x] > 0 THEN scount'[x] ELSE 0]
      /\ waiting' = semq'
  BY SettledNext, Zenon
<1>5. semq[s] # <<>> <=> scount[s] < 0
  <2>1. Len(semq[s]) = IF scount[s] < 0 THEN -scount[s] ELSE 0
    BY Zenon DEF IInv, SemCountIsQueue
  <2>2. PICK q \in Seq(Tid) : q = semq[s]
    BY <1>2, Zenon
  <2>3. Len(q) \in Nat /\ (q = <<>> <=> Len(q) = 0)
    BY QueueType, Zenon
  <2> QED BY <1>2, <2>1, <2>2, <2>3
<1>6. Abstract!V(s)
  <2>1. live[s] /\ live' = live
    BY <1>3, <1>4, Zenon
  <2>2. CASE scount[s] < 0
    <3>1. waiting' = [waiting EXCEPT ![s] = Tail(@)] /\ waiting[s] # <<>>
      BY <1>1, <1>3, <1>4, <1>5, <2>2, Zenon
    <3>2. \A x \in Sem : value'[x] = value[x]
      BY <1>1, <1>2, <1>3, <1>4, <2>2
    <3>3. value' = value
      BY <1>3, <1>4, <3>2, Zenon
    <3> QED BY <2>1, <3>1, <3>3, Zenon DEF Abstract!V
  <2>3. CASE ~(scount[s] < 0)
    <3>1. waiting' = waiting /\ waiting[s] = <<>>
      BY <1>1, <1>3, <1>4, <1>5, <2>3, Zenon
    <3>2. \A x \in Sem : value'[x] = IF x = s THEN value[s] + 1 ELSE value[x]
      BY <1>1, <1>2, <1>3, <1>4, <2>3
    <3>3. value' = [value EXCEPT ![s] = @ + 1]
      BY <1>3, <1>4, <3>2, Zenon
    <3> QED BY <2>1, <3>1, <3>3, Zenon DEF Abstract!V
  <2> QED BY <2>2, <2>3, Zenon
<1> QED BY <1>6, Zenon DEF SemStep, Abstract!Next

\* signal() is V.
LEMMA SignalIsV ==
  ASSUME IInv, IInv', NEW s \in Sem, signal(s)
  PROVE  SemStep
<1>1. /\ kloop = NoLoop /\ kloop' = NoLoop /\ kloop.op # "semfree" /\ kloop'.op # "semfree"
      /\ sstate' = sstate /\ sstate[s] # "SFREE" /\ Release(s)
  BY Caller, NoLoopIsIdle, Zenon DEF signal, isbadsem
<1>2. semq' \in [Sem -> Seq(Tid)]
  BY Zenon DEF IInv, SemIs
<1> QED BY <1>1, <1>2, ReleaseIsV, Zenon

\* A turn of the loop of signaln() is V, its end changes no semaphore.
LEMMA SignalnLoopIsV ==
  ASSUME IInv, IInv', signaln_loop
  PROVE  SemStep
<1>1. /\ kloop.op = "signaln" /\ kloop.sem \in Sem /\ sstate[kloop.sem] # "SFREE"
      /\ sstate' = sstate
  BY Zenon DEF signaln_loop, IInv, Types, isbadsem
<1>2. semq' \in [Sem -> Seq(Tid)]
  BY Zenon DEF IInv, SemIs
<1>3. CASE kloop.n > 0
  <2>1. Release(kloop.sem) /\ kloop' = [kloop EXCEPT !.n = @ - 1] /\ kloop \in Loop
    BY <1>3, Zenon DEF signaln_loop, IInv, Types
  <2>2. kloop'.op # "semfree"
    BY <1>1, <2>1, Zenon DEF Loop
  <2> QED BY <1>1, <1>2, <2>1, <2>2, ReleaseIsV, Zenon
<1>4. CASE ~(kloop.n > 0)
  BY <1>1, <1>4, NoSemStep, NoLoopIsIdle, Zenon DEF signaln_loop
<1> QED BY <1>3, <1>4, Zenon

\* semcreate() is Create, also when it refuses the count but keeps the slot.
LEMMA SemcreateIsCreate ==
  ASSUME IInv, IInv', NEW s \in Sem, NEW n \in InitCounts, semcreate(s, n)
  PROVE  SemStep
<1>1. /\ kloop = NoLoop /\ kloop' = NoLoop /\ kloop.op # "semfree" /\ kloop'.op # "semfree"
      /\ sstate[s] = "SFREE" /\ sstate' = [sstate EXCEPT ![s] = "SUSED"]
      /\ scount' = IF n >= 0 THEN [scount EXCEPT ![s] = n] ELSE scount
      /\ semq' = semq
  BY Caller, NoLoopIsIdle, Zenon DEF semcreate, semalloc, isbadsem
<1>2. /\ scount \in [Sem -> Int] /\ semq \in [Sem -> Seq(Tid)] /\ n \in Int
      /\ sstate \in [Sem -> {"SFREE", "SUSED"}]
  BY KernelAssumption, Zenon DEF IInv, Types, SemIs
<1>3. /\ live = [x \in Sem |-> sstate[x] # "SFREE"]
      /\ value = [x \in Sem |-> IF scount[x] > 0 THEN scount[x] ELSE 0]
      /\ waiting = semq
  BY <1>1, Settled, Zenon
<1>4. /\ live' = [x \in Sem |-> sstate'[x] # "SFREE"]
      /\ value' = [x \in Sem |-> IF scount'[x] > 0 THEN scount'[x] ELSE 0]
      /\ waiting' = semq'
  BY <1>1, <1>2, SettledNext, Zenon
<1>5. live' = [live EXCEPT ![s] = TRUE] /\ ~live[s]
  <2>1. ~live[s] /\ \A x \in Sem : live'[x] = IF x = s THEN TRUE ELSE live[x]
    BY <1>1, <1>2, <1>3, <1>4, Zenon
  <2> QED BY <1>3, <1>4, <2>1, Zenon
<1>6. value'[s] \in Nat /\ value' = [value EXCEPT ![s] = value'[s]]
  <2>1. \A x \in Sem : x # s => value'[x] = value[x]
    BY <1>1, <1>2, <1>3, <1>4, Zenon
  <2>2. value'[s] \in Nat
    BY <1>1, <1>2, <1>4
  <2> QED BY <1>3, <1>4, <2>1, <2>2, Zenon
<1> QED BY <1>1, <1>3, <1>4, <1>5, <1>6, Zenon DEF SemStep, Abstract!Next, Abstract!Create

\* semfree() is Free when it is called ...
LEMMA SemfreeIsFree ==
  ASSUME IInv, NEW s \in Sem, semfree(s)
  PROVE  SemStep
<1>1. /\ kloop = NoLoop /\ kloop.op # "semfree" /\ sstate[s] # "SFREE"
      /\ kloop' = [op |-> "semfree", sem |-> s, n |-> 0]
      /\ UNCHANGED <<scount, sstate, semq>>
  BY Caller, NoLoopIsIdle, Zenon DEF semfree, sem_vars, isbadsem
<1>2. \A x : ~Freeing(x) /\ (Freeing(x)' <=> x = s)
  BY <1>1, Zenon DEF Freeing
<1>3. live[s] /\ live' = [live EXCEPT ![s] = FALSE]
  BY <1>1, <1>2, Zenon DEF live, isbadsem
<1>4. value' = [value EXCEPT ![s] = 0]
  BY <1>1, <1>2, Zenon DEF value
<1>5. waiting' = [waiting EXCEPT ![s] = <<>>]
  BY <1>1, <1>2, Zenon DEF waiting
<1> QED BY <1>3, <1>4, <1>5, Zenon DEF SemStep, Abstract!Next, Abstract!Free

\* ... and its loop, which nobody can observe, changes nothing more.
LEMMA SemfreeLoopIsFree ==
  ASSUME IInv, semfree_loop
  PROVE  SemStep
<1>1. PICK s \in Sem : s = kloop.sem
  BY Zenon DEF semfree_loop, IInv, Types
<1>2. /\ scount \in [Sem -> Int] /\ semq \in [Sem -> Seq(Tid)]
      /\ sstate \in [Sem -> {"SFREE", "SUSED"}]
  BY Zenon DEF IInv, Types, SemIs
<1>3. kloop.op = "semfree" /\ \A x : Freeing(x) <=> x = s
  BY <1>1, Zenon DEF semfree_loop, Freeing
<1>4. CASE semq[s] # <<>>
  <2>1. semq' = [semq EXCEPT ![s] = Tail(@)] /\ UNCHANGED <<scount, sstate, kloop>>
    BY <1>1, <1>4, Zenon DEF semfree_loop
  <2>2. \A x : Freeing(x)' <=> x = s
    BY <1>3, <2>1, Zenon DEF Freeing
  <2>3. live' = live /\ value' = value
    BY <1>3, <2>1, <2>2, Zenon DEF live, value, isbadsem
  <2>4. waiting' = waiting
    BY <1>2, <1>3, <2>1, <2>2, Zenon DEF waiting
  <2> QED BY <2>3, <2>4, Zenon DEF SemStep
<1>5. CASE semq[s] = <<>>
  <2>1. /\ scount' = [scount EXCEPT ![s] = 0] /\ sstate' = [sstate EXCEPT ![s] = "SFREE"]
        /\ kloop' = NoLoop /\ semq' = semq
    BY <1>1, <1>5, Zenon DEF semfree_loop
  <2>2. \A x : ~Freeing(x)'
    BY <2>1, NoLoopIsIdle, Zenon DEF Freeing
  <2>3. live' = live
    BY <1>2, <1>3, <2>1, <2>2, Zenon DEF live, isbadsem
  <2>4. value' = value
    BY <1>2, <1>3, <2>1, <2>2, Zenon DEF value
  <2>5. waiting' = waiting
    BY <1>3, <1>5, <2>1, <2>2, Zenon DEF waiting
  <2> QED BY <2>3, <2>4, <2>5, Zenon DEF SemStep
<1> QED BY <1>4, <1>5, Zenon

\* The kill of a waiting thread is Cancel.
LEMMA UnwaitIsCancel ==
  ASSUME IInv, semq' \in [Sem -> Seq(Tid)], NEW t \in Tid, state[t] = THRWAIT,
         unwait(t), kloop = NoLoop, sstate' = sstate, kloop' = kloop
  PROVE  SemStep
<1>1. /\ scount' = [scount EXCEPT ![sem[t]] = @ + 1]
      /\ semq' = [semq EXCEPT ![sem[t]] = getitem(@, t)]
  BY Zenon DEF unwait
<1>2. /\ scount \in [Sem -> Int] /\ semq \in [Sem -> Seq(Tid)]
      /\ kloop.op # "semfree" /\ kloop'.op # "semfree"
  BY NoLoopIsIdle, Zenon DEF IInv, Types, SemIs
<1>3. CASE sem[t] \notin Sem
  <2>1. scount' = scount /\ semq' = semq
    BY <1>1, <1>2, <1>3, Zenon
  <2> QED BY <2>1, NoSemStep, Zenon
<1>4. CASE sem[t] \in Sem
  <2>1. PICK s \in Sem : s = sem[t]
    BY <1>4, Zenon
  <2>2. PICK q \in Seq(Tid) : q = semq[s]
    BY <1>2, Zenon
  <2>3. Contains(q, t) /\ Len(q) \in Nat
    BY <2>1, <2>2, QueueType, Zenon DEF IInv, SemIs
  <2>4. PICK i : i = CHOOSE j \in 1 .. Len(q) : q[j] = t
    BY Zenon
  <2>5. i \in 1 .. Len(q)
    BY <2>3, <2>4, Zenon DEF Contains
  <2>6. getitem(q, t) = SubSeq(q, 1, i - 1) \o SubSeq(q, i + 1, Len(q))
    <3>1. getitem(q, t) = RemoveAt(q, i)
      BY <2>3, <2>4, Zenon DEF getitem
    <3> QED BY <2>5, <3>1, RemoveAtIs, Zenon
  <2>7. /\ live = [x \in Sem |-> sstate[x] # "SFREE"]
        /\ value = [x \in Sem |-> IF scount[x] > 0 THEN scount[x] ELSE 0]
        /\ waiting = semq
    BY <1>2, Settled, Zenon
  <2>8. /\ live' = [x \in Sem |-> sstate'[x] # "SFREE"]
        /\ value' = [x \in Sem |-> IF scount'[x] > 0 THEN scount'[x] ELSE 0]
        /\ waiting' = semq'
    BY <1>2, SettledNext, Zenon
  <2>9. scount[s] < 0 /\ sstate[s] # "SFREE"
    <3>1. /\ Len(q) = IF scount[s] < 0 THEN -scount[s] ELSE 0
          /\ sstate[s] = "SFREE" => scount[s] = 0
      BY <1>2, <2>2, Zenon DEF IInv, SemCountIsQueue, isbadsem
    <3> QED BY <2>3, <2>5, <3>1
  <2>10. live[s] /\ live' = live
    BY <2>7, <2>8, <2>9, Zenon
  <2>11. value' = value
    <3>1. \A x \in Sem : value'[x] = value[x]
      BY <1>1, <1>2, <2>1, <2>7, <2>8, <2>9
    <3> QED BY <2>7, <2>8, <3>1, Zenon
  <2>12. waiting' = [waiting EXCEPT ![s] =
                       SubSeq(@, 1, i - 1) \o SubSeq(@, i + 1, Len(@))]
    BY <1>1, <1>2, <2>1, <2>2, <2>6, <2>7, <2>8, Zenon
  <2>13. Abstract!Cancel(s, i) /\ i \in 1 .. Len(waiting[s])
    BY <2>2, <2>5, <2>7, <2>10, <2>11, <2>12, Zenon DEF Abstract!Cancel
  <2> QED BY <2>13, Zenon DEF SemStep, Abstract!Next
<1> QED BY <1>3, <1>4, Zenon

(***************************************************************************)
(* Messages.                                                               *)
(***************************************************************************)

\* What send(), called by send() and kill(), leaves: sound tables in a state
\* column S that differs from state only in a woken receiver.
LEMMA SendStep ==
  ASSUME IInv, NEW t \in Tid, NEW m \in Nat, send(t, m)
  PROVE  \E S : /\ RunSound' /\ SameBlocked(S, state')
                /\ SleepIs(sleepq', S) /\ SemIs(semq, sem, S)
                /\ KillIs(stk, cont, S) /\ MsgIs(msg', cont, S)
                /\ S[thrcurrent] = THRCURR
                /\ \A x \in Tid : S[x] \in {state[x], THRREADY}
                /\ msg' \in [Tid -> Nat \cup {NOMSG}] /\ due' \in [Tid -> Int]
<1>1. /\ state \in [Tid -> ThreadState] /\ DOMAIN key = Tid /\ thrcurrent \in Tid
      /\ state[thrcurrent] = THRCURR /\ RunSound
      /\ msg \in [Tid -> Nat \cup {NOMSG}] /\ due \in [Tid -> Int]
  BY Zenon DEF IInv, RunSound, Sound, Types
<1>2. CASE refuses(t)
  <2>1. UNCHANGED <<msg, state, key, readylist, thrcurrent, sleepq, due>>
    BY <1>2, Zenon DEF send, ready_vars, sleep_vars
  <2>2. RunSound' /\ SameBlocked(state, state')
    BY <1>1, <2>1, SameBlockedRefl, Zenon DEF RunSound
  <2> QED BY <1>1, <2>1, <2>2, Zenon DEF IInv
<1>3. CASE ~refuses(t)
  <2>0. /\ msg' = [msg EXCEPT ![t] = m] /\ m # NOMSG
        /\ state[t] # THRFREE
    BY <1>3 DEF send, refuses, isbadtid, NOMSG
  <2>1. msg' \in [Tid -> Nat \cup {NOMSG}]
    BY <1>1, <2>0, Zenon
  <2>2. CASE state[t] = THRRECV
    <3> DEFINE S == [state EXCEPT ![t] = THRREADY]
    <3>1. /\ resched(ready(Sched(state, key, readylist), t))
          /\ UNCHANGED <<sleepq, due>>
      BY <1>3, <2>2, Zenon DEF send, Now, sleep_vars
    <3>2. RunSound' /\ SameBlocked(S, state')
      BY <1>1, <2>2, <3>1, WakeStep, Zenon
    <3>3. SleepIs(sleepq', S)
      BY <1>1, <2>2, <3>1, Zenon DEF IInv, SleepIs
    <3>4. SemIs(semq, sem, S)
      BY <1>1, <2>2, Zenon DEF IInv, SemIs
    <3>5. KillIs(stk, cont, S)
      BY <1>1, <2>2 DEF IInv, KillIs
    <3>6. MsgIs(msg', cont, S)
      BY <1>1, <2>0, <2>2, Zenon DEF IInv, MsgIs
    <3>7. S[thrcurrent] = THRCURR /\ \A x \in Tid : S[x] \in {state[x], THRREADY}
      BY <1>1, <2>2, Zenon
    <3> HIDE DEF S
    <3> QED BY <1>1, <2>1, <3>1, <3>2, <3>3, <3>4, <3>5, <3>6, <3>7, Zenon
  <2>3. CASE state[t] = THRTMOUT
    <3> DEFINE S == [state EXCEPT ![t] = THRREADY]
               K == unsleep_key(sleepq, key, t)
    <3>1. /\ resched(ready(Sched(state, K, readylist), t))
          /\ sleepq' = getitem(sleepq, t)
          /\ due' = [due EXCEPT ![t] = 0]
      BY <1>3, <2>3, Zenon DEF send
    <3>2. DOMAIN K = Tid
      BY <1>1, Zenon DEF unsleep_key
    <3> HIDE DEF K
    <3>3. RunSound' /\ SameBlocked(S, state')
      BY <1>1, <2>3, <3>1, <3>2, WakeStep, Zenon
    <3>4. SleepIs(sleepq', S)
      <4>1. /\ sleepq \in Seq(Tid) /\ NoDuplicates(sleepq)
            /\ \A x \in Tid : Contains(sleepq, x) <=> state[x] \in {THRSLEEP, THRTMOUT}
        BY Zenon DEF IInv, SleepIs
      <4>2. /\ getitem(sleepq, t) \in Seq(Tid)
            /\ \A x : Contains(getitem(sleepq, t), x) <=> Contains(sleepq, x) /\ x # t
            /\ NoDuplicates(getitem(sleepq, t))
        BY <4>1, GetitemMembers, Zenon
      <4> QED BY <1>1, <2>3, <3>1, <4>1, <4>2, Zenon DEF SleepIs
    <3>5. SemIs(semq, sem, S)
      BY <1>1, <2>3, Zenon DEF IInv, SemIs
    <3>6. KillIs(stk, cont, S)
      BY <1>1, <2>3 DEF IInv, KillIs
    <3>7. MsgIs(msg', cont, S)
      BY <1>1, <2>0, <2>3, Zenon DEF IInv, MsgIs
    <3>8. S[thrcurrent] = THRCURR /\ \A x \in Tid : S[x] \in {state[x], THRREADY}
      BY <1>1, <2>3, Zenon
    <3>9. due' \in [Tid -> Int]
      BY <1>1, <3>1
    <3> HIDE DEF S
    <3> QED BY <2>1, <3>3, <3>4, <3>5, <3>6, <3>7, <3>8, <3>9, Zenon
  <2>4. CASE state[t] \notin {THRRECV, THRTMOUT}
    <3>1. UNCHANGED <<state, key, readylist, thrcurrent, sleepq, due>>
      BY <1>3, <2>4, Zenon DEF send, ready_vars, sleep_vars
    <3>2. RunSound' /\ SameBlocked(state, state')
      BY <1>1, <3>1, SameBlockedRefl, Zenon DEF RunSound
    <3>3. MsgIs(msg', cont, state)
      BY <1>1, <2>0, <2>4, Zenon DEF IInv, MsgIs
    <3> QED BY <1>1, <2>1, <3>1, <3>2, <3>3, Zenon DEF IInv
  <2> QED BY <2>2, <2>3, <2>4, Zenon
<1> QED BY <1>2, <1>3, Zenon

\* send() keeps the invariant.
LEMMA SendKeeps ==
  ASSUME IInv, NEW t \in Tid, NEW m \in UserMsgs, Send(t, m)
  PROVE  IInv'
<1>1. send(t, m) /\ m \in Nat
  BY KernelAssumption, Zenon DEF Send
<1>2. UNCHANGED <<sem, semq, scount, sstate, nextsem, stk, prio, parent, cont, kloop,
                  nexttid, thrcount, freestk, halted>>
  BY Zenon DEF Send, sem_vars, entry_vars, table_vars
<1>3. PICK S : /\ RunSound' /\ SameBlocked(S, state')
               /\ SleepIs(sleepq', S) /\ SemIs(semq, sem, S)
               /\ KillIs(stk, cont, S) /\ MsgIs(msg', cont, S)
               /\ msg' \in [Tid -> Nat \cup {NOMSG}] /\ due' \in [Tid -> Int]
  BY <1>1, SendStep, Zenon
<1>4. Types'
  BY <1>2, <1>3, Zenon DEF IInv, Types, isbadsem
<1>5. SemCountIsQueue'
  BY <1>2, Zenon DEF IInv, SemCountIsQueue, isbadsem
<1> QED BY <1>2, <1>3, <1>4, <1>5, Finish, Zenon

\* The caller of receive() or recvtime() takes its message.
LEMMA TakeMsgKeeps ==
  ASSUME IInv, TakeMsg, cont'[thrcurrent] = User,
         cont' = [cont EXCEPT ![thrcurrent] = cont'[thrcurrent]],
         UNCHANGED <<state, key, readylist, thrcurrent, sleepq, due, sem, semq, scount,
                     sstate, nextsem, stk, prio, parent, kloop,
                     nexttid, thrcount, freestk, halted>>
  PROVE  IInv'
<1>1. /\ thrcurrent \in Tid /\ state[thrcurrent] = THRCURR
      /\ msg \in [Tid -> Nat \cup {NOMSG}] /\ cont \in [Tid -> Cont]
      /\ msg' = [msg EXCEPT ![thrcurrent] = NOMSG]
  BY Zenon DEF IInv, RunSound, Types, TakeMsg
<1>2. /\ msg' \in [Tid -> Nat \cup {NOMSG}] /\ cont' \in [Tid -> Cont]
      /\ \A t \in Tid \ {thrcurrent} : cont'[t] = cont[t]
      /\ \A t \in Tid \ {thrcurrent} : msg'[t] = msg[t]
  BY <1>1, UserIsIdle, Zenon
<1>3. RunSound' /\ SameBlocked(state, state')
  BY SameBlockedRefl, Zenon DEF IInv, RunSound
<1>4. KillIs(stk', cont', state)
  BY <1>2, UserIsIdle, Zenon DEF IInv, KillIs
<1>5. MsgIs(msg', cont', state)
  BY <1>1, <1>2, UserIsIdle, Zenon DEF IInv, MsgIs
<1>6. Types'
  BY <1>2, Zenon DEF IInv, Types, isbadsem
<1>7. SemCountIsQueue'
  BY Zenon DEF IInv, SemCountIsQueue, isbadsem
<1> QED BY <1>3, <1>4, <1>5, <1>6, <1>7, Finish, Zenon DEF IInv

\* receive() up to its resched() keeps the invariant.
LEMMA ReceiveKeeps ==
  ASSUME IInv, receive
  PROVE  IInv'
<1>1. /\ thrcurrent \in Tid /\ thrcurrent # NULLTHREAD
      /\ state[thrcurrent] = THRCURR
      /\ cont[thrcurrent] = User
  BY Caller, Zenon DEF receive
<1>2. UNCHANGED <<sleepq, due, sem, semq, scount, sstate, nextsem, stk, prio, parent,
                  kloop, nexttid, thrcount, freestk, halted>>
  BY Zenon DEF receive, sleep_vars, sem_vars, entry_vars, table_vars
<1>3. cont \in [Tid -> Cont] /\ state \in [Tid -> ThreadState] /\ DOMAIN key = Tid
  BY Zenon DEF IInv, Types, RunSound, Sound
<1>4. CASE msg[thrcurrent] # NOMSG
  <2>1. TakeMsg /\ UNCHANGED <<state, key, readylist, thrcurrent, cont>>
    BY <1>4, Zenon DEF receive, ready_vars
  <2>2. /\ cont'[thrcurrent] = User
        /\ cont' = [cont EXCEPT ![thrcurrent] = cont'[thrcurrent]]
    BY <1>1, <1>3, <2>1, Zenon
  <2> QED BY <1>2, <2>1, <2>2, TakeMsgKeeps, Zenon
<1>5. CASE msg[thrcurrent] = NOMSG
  <2> DEFINE S == [state EXCEPT ![thrcurrent] = THRRECV]
  <2>1. /\ resched(Sched([state EXCEPT ![thrcurrent] = THRRECV], key, readylist))
        /\ cont' = [cont EXCEPT ![thrcurrent] = Rest("receive", NULLTHREAD)]
        /\ msg' = msg
    BY <1>5, Zenon DEF receive, Block
  <2>2. RunSound' /\ SameBlocked(S, state')
    BY <1>1, <1>3, <2>1, BlockStep, Zenon DEF IInv
  <2>3. Rest("receive", NULLTHREAD) \in Cont /\ Rest("receive", NULLTHREAD).op = "receive"
    BY NullIsTid, Zenon DEF Rest, Cont
  <2>4. /\ cont' \in [Tid -> Cont] /\ cont'[thrcurrent].op = "receive"
        /\ \A t \in Tid \ {thrcurrent} : cont'[t] = cont[t]
    BY <1>1, <1>3, <2>1, <2>3, Zenon
  <2>5. SleepIs(sleepq', S)
    BY <1>1, <1>2, <1>3, Zenon DEF IInv, SleepIs
  <2>6. SemIs(semq', sem', S)
    BY <1>1, <1>2, <1>3, Zenon DEF IInv, SemIs
  <2>7. KillIs(stk', cont', S)
    <3>1. \A x \in Tid : /\ S[x] # THRFREE => state[x] # THRFREE
                         /\ S[x] \in {THRSLEEP, THRTMOUT}
                              => state[x] \in {THRSLEEP, THRTMOUT}
      BY <1>1, <1>3, Zenon
    <3>2. stk' = stk /\ \A u \in Tid : cont'[u].op = "kill" => cont'[u] = cont[u]
      BY <1>2, <2>4, Zenon
    <3> HIDE DEF S
    <3>3. KillIs(stk, cont', S)
      BY <3>1, <3>2, KillFits, Zenon
    <3> QED BY <3>2, <3>3, Zenon
  <2>8. MsgIs(msg', cont', S)
    BY <1>1, <1>3, <1>5, <2>1, <2>4, Zenon DEF IInv, MsgIs
  <2>9. Types'
    BY <1>2, <2>1, <2>4, Zenon DEF IInv, Types, isbadsem
  <2>10. SemCountIsQueue'
    BY <1>2, Zenon DEF IInv, SemCountIsQueue, isbadsem
  <2> HIDE DEF S
  <2> QED BY <2>2, <2>5, <2>6, <2>7, <2>8, <2>9, <2>10, Finish, Zenon
<1> QED BY <1>4, <1>5, Zenon

\* recvclr() keeps the invariant.
LEMMA RecvclrKeeps ==
  ASSUME IInv, recvclr
  PROVE  IInv'
<1>1. cont[thrcurrent] = User /\ thrcurrent \in Tid /\ cont \in [Tid -> Cont]
  BY Caller, Zenon DEF recvclr, IInv, Types
<1>2. TakeMsg /\ UNCHANGED <<state, key, readylist, thrcurrent, sleepq, due, sem, semq,
        scount, sstate, nextsem, stk, prio, parent, kloop, cont,
        nexttid, thrcount, freestk, halted>>
  BY Zenon DEF recvclr, ready_vars, sleep_vars, sem_vars, entry_vars, table_vars
<1>3. /\ cont'[thrcurrent] = User
      /\ cont' = [cont EXCEPT ![thrcurrent] = cont'[thrcurrent]]
  BY <1>1, <1>2, Zenon
<1> QED BY <1>2, <1>3, TakeMsgKeeps, Zenon

\* receive() and recvtime() behind their resched() keep the invariant.
LEMMA ReceiveReturnKeeps ==
  ASSUME IInv, receive_return
  PROVE  IInv'
<1>1. thrcurrent \in Tid /\ cont \in [Tid -> Cont]
  BY Zenon DEF IInv, Types, RunSound
<1>2. TakeMsg /\ UNCHANGED <<state, key, readylist, thrcurrent, sleepq, due, sem, semq,
        scount, sstate, nextsem, stk, prio, parent, kloop,
        nexttid, thrcount, freestk, halted>>
  BY Zenon DEF receive_return, ready_vars, sleep_vars, sem_vars, entry_vars, table_vars
<1>3. /\ cont'[thrcurrent] = User
      /\ cont' = [cont EXCEPT ![thrcurrent] = cont'[thrcurrent]]
  BY <1>1, Zenon DEF receive_return
<1> QED BY <1>2, <1>3, TakeMsgKeeps, Zenon

(***************************************************************************)
(* Time.  From here on clients do not kill sleepers.                       *)
(***************************************************************************)
\* insertd() and resched() in sleep() and recvtime(): the caller is on the sleep
\* queue, once, and nobody is killing it.
LEMMA BlockForStep ==
  ASSUME IInv, KillSleepers = FALSE, NEW d \in Int, NEW s \in {THRSLEEP, THRTMOUT},
         thrcurrent # NULLTHREAD, BlockFor(d, s)
  PROVE  LET S == [state EXCEPT ![thrcurrent] = s]
         IN  /\ RunSound' /\ SameBlocked(S, state')
             /\ SleepIs(sleepq', S) /\ SemIs(semq, sem, S)
             /\ KillIs(stk, cont, S)
             /\ due' \in [Tid -> Int]
<1> DEFINE S == [state EXCEPT ![thrcurrent] = s]
           K == insertd_key(sleepq, key, thrcurrent, d)
<1>1. /\ thrcurrent \in Tid /\ state[thrcurrent] = THRCURR /\ DOMAIN key = Tid
      /\ state \in [Tid -> ThreadState] /\ due \in [Tid -> Int] /\ RunSound
  BY Zenon DEF IInv, RunSound, Sound, Types
<1>2. /\ resched(Sched([state EXCEPT ![thrcurrent] = s], K, readylist))
      /\ sleepq' = insertd_queue(sleepq, key, thrcurrent, d)
      /\ due' = [due EXCEPT ![thrcurrent] = d]
      /\ ~Dying(thrcurrent)
  BY Zenon DEF BlockFor, MaySleep
<1>3. DOMAIN K = Tid
  BY <1>1, Zenon DEF insertd_key
<1> HIDE DEF K
<1>4. RunSound' /\ SameBlocked(S, state')
  BY <1>1, <1>2, <1>3, BlockStep, Zenon
<1>5. SleepIs(sleepq', S)
  <2>1. /\ sleepq \in Seq(Tid) /\ NoDuplicates(sleepq)
        /\ \A x \in Tid : Contains(sleepq, x) <=> state[x] \in {THRSLEEP, THRTMOUT}
    BY Zenon DEF IInv, SleepIs
  <2>2. /\ sleepq' \in Seq(Tid) /\ NoDuplicates(sleepq')
        /\ \A x : Contains(sleepq', x) <=> Contains(sleepq, x) \/ x = thrcurrent
    BY <1>1, <1>2, <2>1, InsertdMembers, Zenon
  <2> QED BY <1>1, <2>1, <2>2, Zenon DEF SleepIs
<1>6. SemIs(semq, sem, S)
  BY <1>1, Zenon DEF IInv, SemIs
<1>7. KillIs(stk, cont, S)
  <2>1. \A u \in Tid : cont[u].op = "kill" => cont[u].tid \in Tid \ {thrcurrent}
    BY <1>2, Zenon DEF Dying, IInv, Types, Cont
  <2> QED BY <1>1, <2>1, Zenon DEF IInv, KillIs
<1>8. due' \in [Tid -> Int]
  BY <1>1, <1>2, Zenon
<1> QED BY <1>4, <1>5, <1>6, <1>7, <1>8, Zenon

\* recvtime() up to its resched() keeps the invariant.
LEMMA RecvtimeKeeps ==
  ASSUME IInv, KillSleepers = FALSE, NEW d \in Delays, recvtime(d)
  PROVE  IInv'
<1>1. /\ thrcurrent \in Tid /\ thrcurrent # NULLTHREAD
      /\ state[thrcurrent] = THRCURR
      /\ cont[thrcurrent] = User
  BY Caller, Zenon DEF recvtime
<1>2. UNCHANGED <<sem, semq, scount, sstate, nextsem, stk, prio, parent,
                  kloop, nexttid, thrcount, freestk, halted>>
  BY Zenon DEF recvtime, sem_vars, entry_vars, table_vars
<1>3. /\ cont \in [Tid -> Cont] /\ state \in [Tid -> ThreadState] /\ d \in Int
  BY KernelAssumption DEF IInv, Types, RunSound, Sound
<1>4. CASE msg[thrcurrent] # NOMSG
  <2>1. TakeMsg /\ UNCHANGED <<state, key, readylist, thrcurrent, sleepq, due, cont>>
    BY <1>4, Zenon DEF recvtime, ready_vars, sleep_vars
  <2>2. /\ cont'[thrcurrent] = User
        /\ cont' = [cont EXCEPT ![thrcurrent] = cont'[thrcurrent]]
    BY <1>1, <1>3, <2>1, Zenon
  <2> QED BY <1>2, <2>1, <2>2, TakeMsgKeeps, Zenon
<1>5. CASE msg[thrcurrent] = NOMSG
  <2> DEFINE S == [state EXCEPT ![thrcurrent] = THRTMOUT]
  <2>1. /\ BlockFor(d, THRTMOUT)
        /\ cont' = [cont EXCEPT ![thrcurrent] = Rest("recvtime", NULLTHREAD)]
        /\ msg' = msg
    BY <1>5, Zenon DEF recvtime
  <2>2. /\ RunSound' /\ SameBlocked(S, state')
        /\ SleepIs(sleepq', S) /\ SemIs(semq, sem, S)
        /\ KillIs(stk, cont, S) /\ due' \in [Tid -> Int]
    BY <1>1, <1>3, <2>1, BlockForStep, Zenon
  <2>3. /\ Rest("recvtime", NULLTHREAD) \in Cont
        /\ Rest("recvtime", NULLTHREAD).op = "recvtime"
    BY NullIsTid, Zenon DEF Rest, Cont
  <2>4. /\ cont' \in [Tid -> Cont] /\ cont'[thrcurrent].op = "recvtime"
        /\ \A t \in Tid \ {thrcurrent} : cont'[t] = cont[t]
    BY <1>1, <1>3, <2>1, <2>3, Zenon
  <2>5. KillIs(stk', cont', S)
    BY <1>2, <2>2, <2>4, Zenon DEF KillIs
  <2>6. MsgIs(msg', cont', S)
    BY <1>1, <1>3, <1>5, <2>1, <2>4, Zenon DEF IInv, MsgIs
  <2>7. Types'
    BY <1>2, <2>1, <2>2, <2>4, Zenon DEF IInv, Types, isbadsem
  <2>8. SemCountIsQueue'
    BY <1>2, Zenon DEF IInv, SemCountIsQueue, isbadsem
  <2> HIDE DEF S
  <2> QED BY <1>2, <2>2, <2>5, <2>6, <2>7, <2>8, Finish, Zenon
<1> QED BY <1>4, <1>5, Zenon

\* A call that only reschedules.
LEMMA ReschedKeeps ==
  ASSUME IInv, resched(Now),
         UNCHANGED <<sleepq, sem, semq, scount, sstate, nextsem, stk, prio, parent, msg,
                     cont, nexttid, thrcount, freestk, halted>>,
         due' \in [Tid -> Int], kloop' \in {kloop, NoLoop}, kloop.op # "semfree"
  PROVE  IInv'
<1>1. RunSound' /\ SameBlocked(state, state')
  BY PlainStep, Zenon DEF IInv, RunSound, Sound, Now
<1>2. kloop'.op # "semfree"
  BY NoLoopIsIdle, Zenon
<1>3. Types'
  BY NoLoopIsIdle, Zenon DEF IInv, Types, isbadsem
<1>4. SemCountIsQueue'
  BY <1>2, Zenon DEF IInv, SemCountIsQueue, isbadsem
<1> QED BY <1>1, <1>3, <1>4, Finish, Zenon DEF IInv

\* yield() keeps the invariant.
LEMMA YieldKeeps ==
  ASSUME IInv, yield
  PROVE  IInv'
<1>1. kloop = NoLoop
  BY Caller, Zenon DEF yield
<1>2. resched(Now) /\ UNCHANGED <<sleepq, sem, semq, scount, sstate, nextsem, stk, prio,
        parent, msg, cont, nexttid, thrcount, freestk, halted, due, kloop>>
  BY Zenon DEF yield, sleep_vars, sem_vars, entry_vars, table_vars
<1>3. due' \in [Tid -> Int] /\ kloop.op # "semfree"
  BY <1>1, <1>2, NoLoopIsIdle, Zenon DEF IInv, Types
<1> QED BY <1>2, <1>3, ReschedKeeps, Zenon

\* sleep() keeps the invariant.
LEMMA SleepKeeps ==
  ASSUME IInv, KillSleepers = FALSE, NEW ms \in Millis, sleep(ms)
  PROVE  IInv'
<1>1. /\ thrcurrent \in Tid /\ thrcurrent # NULLTHREAD
      /\ state[thrcurrent] = THRCURR
      /\ cont[thrcurrent] = User /\ kloop = NoLoop
  BY Caller, Zenon DEF sleep
<1>2. UNCHANGED <<sem, semq, scount, sstate, nextsem, stk, prio, parent, msg, cont,
                  kloop, nexttid, thrcount, freestk, halted>>
  BY Zenon DEF sleep, sem_vars, entry_vars, table_vars
<1>3. state \in [Tid -> ThreadState]
  BY Zenon DEF IInv, RunSound, Sound
<1>4. CASE ticks(ms) > 0
  <2> DEFINE S == [state EXCEPT ![thrcurrent] = THRSLEEP]
  <2>1. ticks(ms) \in Int
    <3>1. ms * CLKTICKS_PER_SEC \in Int /\ UINT \in Nat \ {0}
      BY KernelAssumption DEF CLKTICKS_PER_SEC
    <3>2. (ms * CLKTICKS_PER_SEC) % UINT \in Int
      BY <3>1
    <3> QED BY <3>2 DEF ticks
  <2>2. BlockFor(ticks(ms), THRSLEEP)
    BY <1>4, Zenon DEF sleep
  <2>3. /\ RunSound' /\ SameBlocked(S, state')
        /\ SleepIs(sleepq', S) /\ SemIs(semq, sem, S)
        /\ KillIs(stk, cont, S) /\ due' \in [Tid -> Int]
    BY <1>1, <2>1, <2>2, BlockForStep, Zenon
  <2>4. MsgIs(msg', cont', S)
    BY <1>1, <1>2, <1>3, UserIsIdle, Zenon DEF IInv, MsgIs
  <2>5. Types'
    BY <1>2, <2>3, Zenon DEF IInv, Types, isbadsem
  <2>6. SemCountIsQueue'
    BY <1>2, Zenon DEF IInv, SemCountIsQueue, isbadsem
  <2> HIDE DEF S
  <2> QED BY <1>2, <2>3, <2>4, <2>5, <2>6, Finish, Zenon
<1>5. CASE ~(ticks(ms) > 0)
  <2>1. resched(Now) /\ UNCHANGED <<sleepq, due>>
    BY <1>5, Zenon DEF sleep, sleep_vars
  <2>2. due' \in [Tid -> Int] /\ kloop.op # "semfree"
    BY <1>1, <2>1, NoLoopIsIdle, Zenon DEF IInv, Types
  <2> QED BY <1>2, <2>1, <2>2, ReschedKeeps, Zenon
<1> QED BY <1>4, <1>5, Zenon

\* clkhandler() up to wakeup() keeps the invariant.
LEMMA ClkhandlerKeeps ==
  ASSUME IInv, clkhandler
  PROVE  IInv'
<1>1. kloop = NoLoop /\ kloop.op = "none" /\ due \in [Tid -> Int]
  BY NoLoopIsIdle, Zenon DEF clkhandler, UserMode, IInv, Types
<1>2. UNCHANGED <<sleepq, sem, semq, scount, sstate, nextsem, stk, prio, parent, msg, cont,
                  nexttid, thrcount, freestk, halted>>
  BY Zenon DEF clkhandler, sem_vars, entry_vars, table_vars
<1>3. due' \in [Tid -> Int]
  BY <1>1 DEF clkhandler
<1>4. CASE sleepq = <<>>
  <2>1. resched(Now) /\ kloop' = kloop
    BY <1>4, Zenon DEF clkhandler
  <2> QED BY <1>1, <1>2, <1>3, <2>1, ReschedKeeps, Zenon
<1>5. CASE sleepq # <<>>
  <2> DEFINE k == Ticked
  <2>1. DOMAIN k = Tid
    BY Zenon DEF IInv, RunSound, Sound, Ticked
  <2>2. CASE k[Head(sleepq)] <= 0
    <3>1. /\ key' = k /\ kloop' = [NoLoop EXCEPT !.op = "wakeup"]
          /\ UNCHANGED <<state, readylist, thrcurrent>>
      BY <1>5, <2>2, Zenon DEF clkhandler
    <3>2. kloop' \in Loop /\ kloop'.op = "wakeup"
      BY <3>1, Zenon DEF NoLoop, Loop
    <3>3. RunSound' /\ SameBlocked(state, state')
      BY <2>1, <3>1, SameBlockedRefl, Zenon DEF IInv, RunSound, Sound
    <3>4. Types'
      BY <1>2, <1>3, <3>2, Zenon DEF IInv, Types
    <3>5. SemCountIsQueue'
      BY <1>1, <1>2, <3>2, Zenon DEF IInv, SemCountIsQueue, isbadsem
    <3> QED BY <1>2, <3>3, <3>4, <3>5, Finish, Zenon DEF IInv
  <2>3. CASE ~(k[Head(sleepq)] <= 0)
    <3>1. resched(Sched(state, k, readylist)) /\ kloop' = kloop
      BY <1>5, <2>3, Zenon DEF clkhandler
    <3> HIDE DEF k
    <3>2. RunSound' /\ SameBlocked(state, state')
      BY <2>1, <3>1, PlainStep, Zenon DEF IInv
    <3>3. Types'
      BY <1>2, <1>3, <3>1, Zenon DEF IInv, Types, isbadsem
    <3>4. SemCountIsQueue'
      BY <1>1, <1>2, <3>1, Zenon DEF IInv, SemCountIsQueue, isbadsem
    <3> QED BY <1>2, <3>2, <3>3, <3>4, Finish, Zenon DEF IInv
  <2> QED BY <2>2, <2>3, Zenon
<1> QED BY <1>4, <1>5, Zenon

\* wakeup() and the resched() behind it keep the invariant.
LEMMA WakeupLoopKeeps ==
  ASSUME IInv, wakeup_loop
  PROVE  IInv'
<1>1. kloop.op = "wakeup" /\ due \in [Tid -> Int] /\ state \in [Tid -> ThreadState]
  BY Zenon DEF wakeup_loop, IInv, Types, RunSound, Sound
<1>2. UNCHANGED <<sem, semq, scount, sstate, nextsem, stk, prio, parent, msg, cont,
                  nexttid, thrcount, freestk, halted>>
  BY Zenon DEF wakeup_loop, sem_vars, entry_vars, table_vars
<1>3. CASE sleepq # <<>> /\ key[Head(sleepq)] <= 0
  <2>1. PICK h : h = Head(sleepq)
    BY Zenon
  <2> DEFINE S == [state EXCEPT ![h] = THRREADY]
  <2>2. /\ sleepq' = Tail(sleepq) /\ Becomes(ready(Now, h))
        /\ due' = [due EXCEPT ![h] = 0] /\ UNCHANGED <<kloop, thrcurrent>>
    BY <1>3, <2>1, Zenon DEF wakeup_loop
  <2>3. /\ sleepq \in Seq(Tid) /\ NoDuplicates(sleepq)
        /\ \A x \in Tid : Contains(sleepq, x) <=> state[x] \in {THRSLEEP, THRTMOUT}
    BY Zenon DEF IInv, SleepIs
  <2>4. /\ h \in Tid /\ Contains(sleepq, h)
        /\ Tail(sleepq) \in Seq(Tid) /\ NoDuplicates(Tail(sleepq))
        /\ \A x : Contains(Tail(sleepq), x) <=> Contains(sleepq, x) /\ x # h
    BY <1>3, <2>1, <2>3, TailMembers, Zenon
  <2>5. state[h] \in {THRSLEEP, THRTMOUT}
    BY <2>3, <2>4, Zenon
  <2>6. RunSound' /\ state' = S
    BY <2>2, <2>4, <2>5, ReadyOnlyStep, Zenon DEF IInv
  <2>7. SleepIs(sleepq', S)
    BY <1>1, <2>2, <2>3, <2>4, Zenon DEF SleepIs
  <2>8. SemIs(semq', sem', S)
    BY <1>1, <1>2, <2>5, Zenon DEF IInv, SemIs
  <2>9. KillIs(stk', cont', S)
    <3>1. \A x \in Tid : /\ S[x] # THRFREE => state[x] # THRFREE
                         /\ S[x] \in {THRSLEEP, THRTMOUT}
                              => state[x] \in {THRSLEEP, THRTMOUT}
      BY <1>1, <2>5, Zenon
    <3>2. stk' = stk /\ \A u \in Tid : cont'[u].op = "kill" => cont'[u] = cont[u]
      BY <1>1, <1>2, Zenon
    <3> HIDE DEF S
    <3>3. KillIs(stk, cont', S)
      BY <3>1, <3>2, KillFits, Zenon
    <3> QED BY <3>2, <3>3, Zenon
  <2>10. MsgIs(msg', cont', S)
    BY <1>1, <1>2, <2>5, Zenon DEF IInv, MsgIs
  <2>11. Types'
    <3>1. due' = [due EXCEPT ![h] = 0]
      BY <2>2, Zenon
    <3>2. due' \in [Tid -> Int]
      BY <1>1, <2>4, <3>1
    <3> QED BY <1>2, <2>2, <3>2, Zenon DEF IInv, Types, isbadsem
  <2>12. SemCountIsQueue'
    BY <1>2, <2>2, Zenon DEF IInv, SemCountIsQueue, isbadsem
  <2> HIDE DEF S
  <2> QED BY <2>6, <2>7, <2>8, <2>9, <2>10, <2>11, <2>12, SameBlockedRefl, Finish, Zenon
<1>4. CASE ~(sleepq # <<>> /\ key[Head(sleepq)] <= 0)
  <2>1. resched(Now) /\ kloop' = NoLoop /\ UNCHANGED <<sleepq, due>>
    BY <1>4, Zenon DEF wakeup_loop, sleep_vars
  <2>2. due' \in [Tid -> Int]
    BY <1>1, <2>1, Zenon
  <2> QED BY <1>1, <1>2, <2>1, <2>2, ReschedKeeps, Zenon
<1> QED BY <1>3, <1>4, Zenon

(***************************************************************************)
(* Suspension, priorities, creation and termination.                       *)
(***************************************************************************)
\* suspend() keeps the invariant.
LEMMA SuspendKeeps ==
  ASSUME IInv, NEW t \in Tid, suspend(t)
  PROVE  IInv'
<1> DEFINE S == [state EXCEPT ![t] = THRSUSP]
<1>1. /\ thrcurrent \in Tid /\ thrcurrent # NULLTHREAD /\ t # NULLTHREAD
      /\ state[thrcurrent] = THRCURR /\ cont[thrcurrent] = User
  BY Caller, Zenon DEF suspend
<1>2. UNCHANGED <<sleepq, due, sem, semq, scount, sstate, nextsem, stk, prio, parent,
                  msg, cont, kloop, nexttid, thrcount, freestk, halted>>
  BY Zenon DEF suspend, sleep_vars, sem_vars, entry_vars, table_vars
<1>3. state \in [Tid -> ThreadState] /\ DOMAIN key = Tid
  BY Zenon DEF IInv, RunSound, Sound
<1>4. state[t] \in {THRREADY, THRCURR}
  BY Zenon DEF suspend
<1>5. RunSound' /\ SameBlocked(S, state')
  <2>1. CASE state[t] = THRREADY
    <3>1. /\ state' = S /\ readylist' = getitem(readylist, t)
          /\ UNCHANGED <<key, thrcurrent>>
      BY <2>1, Zenon DEF suspend
    <3>2. /\ getitem(readylist, t) \in Seq(Tid) /\ NoDuplicates(getitem(readylist, t))
          /\ \A x : Contains(getitem(readylist, t), x) <=> Contains(readylist, x) /\ x # t
      BY GetitemMembers, Zenon DEF IInv, RunSound, Sound
    <3>3. Sound(state', key', readylist')
      BY <3>1, <3>2, Zenon DEF IInv, RunSound, Sound
    <3>4. \A x \in Tid : state'[x] = THRCURR <=> x = thrcurrent'
      BY <1>3, <2>1, <3>1, Zenon DEF IInv, RunSound
    <3>5. state'[NULLTHREAD] \in {THRCURR, THRREADY} /\ thrcurrent' \in Tid
      BY <1>1, <1>3, <3>1, NullIsTid, Zenon DEF IInv, RunSound
    <3> QED BY <3>1, <3>3, <3>4, <3>5, SameBlockedRefl, Zenon DEF RunSound
  <2>2. CASE state[t] = THRCURR
    <3>1. t = thrcurrent
      BY <2>2, Zenon DEF IInv, RunSound
    <3>2. resched(Sched([state EXCEPT ![thrcurrent] = THRSUSP], key, readylist))
      BY <2>2, Zenon DEF suspend, Block
    <3> QED BY <1>1, <1>3, <3>1, <3>2, BlockStep, Zenon DEF IInv
  <2> QED BY <1>4, <2>1, <2>2, Zenon
<1>6. SleepIs(sleepq', S)
  BY <1>2, <1>3, <1>4, Zenon DEF IInv, SleepIs
<1>7. SemIs(semq', sem', S)
  BY <1>2, <1>3, <1>4, Zenon DEF IInv, SemIs
<1>8. KillIs(stk', cont', S)
  <2>1. \A x \in Tid : /\ S[x] # THRFREE => state[x] # THRFREE
                       /\ S[x] \in {THRSLEEP, THRTMOUT}
                            => state[x] \in {THRSLEEP, THRTMOUT}
    BY <1>3, <1>4, Zenon
  <2>2. stk' = stk /\ \A u \in Tid : cont'[u].op = "kill" => cont'[u] = cont[u]
    BY <1>2, Zenon
  <2> HIDE DEF S
  <2>3. KillIs(stk, cont', S)
    BY <2>1, <2>2, KillFits, Zenon
  <2> QED BY <2>2, <2>3, Zenon
<1>9. MsgIs(msg', cont', S)
  BY <1>2, <1>3, <1>4, Zenon DEF IInv, MsgIs
<1>10. Types'
  BY <1>2, Zenon DEF IInv, Types, isbadsem
<1>11. SemCountIsQueue'
  BY <1>2, Zenon DEF IInv, SemCountIsQueue, isbadsem
<1> HIDE DEF S
<1> QED BY <1>5, <1>6, <1>7, <1>8, <1>9, <1>10, <1>11, Finish, Zenon

\* resume(), and ready() of a suspended thread, keep the invariant.
LEMMA ResumeKeeps ==
  ASSUME IInv, NEW t \in Tid, resume(t) \/ start(t)
  PROVE  IInv'
<1> DEFINE S == [state EXCEPT ![t] = THRREADY]
<1>1. UNCHANGED <<sleepq, due, sem, semq, scount, sstate, nextsem, stk, prio, parent,
                  msg, cont, kloop, nexttid, thrcount, freestk, halted>>
  BY Zenon DEF resume, start, sleep_vars, sem_vars, entry_vars, table_vars
<1>2. state[t] = THRSUSP
  BY Zenon DEF resume, start
<1>3. RunSound' /\ SameBlocked(S, state')
  <2>1. CASE resume(t)
    <3>1. resched(ready(Sched(state, key, readylist), t))
      BY <2>1, Zenon DEF resume, Now
    <3> QED BY <1>2, <3>1, WakeStep, Zenon DEF IInv, RunSound, Sound
  <2>2. CASE start(t)
    <3>1. Becomes(ready(Now, t)) /\ UNCHANGED thrcurrent
      BY <2>2, Zenon DEF start
    <3>2. RunSound' /\ state' = S
      BY <1>2, <3>1, ReadyOnlyStep, Zenon DEF IInv
    <3> QED BY <3>2, SameBlockedRefl, Zenon
  <2> QED BY <2>1, <2>2, Zenon
<1>4. /\ SleepIs(sleepq, S) /\ KillIs(stk, cont, S) /\ MsgIs(msg, cont, S)
      /\ SemIs(semq, sem, S)
  BY <1>2, WakeFits, Zenon
<1>5. Types'
  BY <1>1, Zenon DEF IInv, Types, isbadsem
<1>6. SemCountIsQueue'
  BY <1>1, Zenon DEF IInv, SemCountIsQueue, isbadsem
<1> HIDE DEF S
<1> QED BY <1>1, <1>3, <1>4, <1>5, <1>6, Finish, Zenon

\* chprio() keeps the invariant (which says nothing about the order of keys).
LEMMA ChprioKeeps ==
  ASSUME IInv, NEW t \in Tid, NEW p \in Prio, chprio(t, p)
  PROVE  IInv'
<1>1. /\ UNCHANGED <<state, key, readylist, thrcurrent, sleepq, due, sem, semq, scount,
                     sstate, nextsem, stk, parent, msg, cont, kloop,
                     nexttid, thrcount, freestk, halted>>
      /\ prio' = [prio EXCEPT ![t] = p]
  BY Zenon DEF chprio, ready_vars, sleep_vars, sem_vars, table_vars
<1>2. prio' \in [Tid -> Int]
  BY <1>1, KernelAssumption, Zenon DEF IInv, Types
<1>3. RunSound' /\ SameBlocked(state, state')
  BY <1>1, SameBlockedRefl, Zenon DEF IInv, RunSound
<1>4. Types'
  BY <1>1, <1>2, Zenon DEF IInv, Types, isbadsem
<1>5. SemCountIsQueue'
  BY <1>1, Zenon DEF IInv, SemCountIsQueue, isbadsem
<1> QED BY <1>1, <1>3, <1>4, <1>5, Finish, Zenon DEF IInv

\* create() keeps the invariant, whether it finds stack and slot or not.
LEMMA CreateKeeps ==
  ASSUME IInv, NEW p \in Prio, create(p)
  PROVE  IInv'
<1>1. UNCHANGED <<key, readylist, thrcurrent, sleepq, due, sem, semq, scount, sstate,
                  nextsem, cont, kloop, halted>>
  BY Zenon DEF create, sleep_vars, sem_vars
<1>2. /\ state \in [Tid -> ThreadState] /\ thrcurrent \in Tid
      /\ prio \in [Tid -> Int] /\ parent \in [Tid -> Tid]
      /\ stk \in [Tid -> Stack \cup {NOSTK}] /\ msg \in [Tid -> Nat \cup {NOMSG}]
      /\ nexttid \in Tid /\ thrcount \in Int /\ freestk \subseteq Stack
      /\ cont \in [Tid -> Cont]
  BY Zenon DEF IInv, RunSound, Sound, Types
<1>3. PICK b \in Stack \cup {SYSERR}, t \in Tid \cup {SYSERR} :
        /\ stkget(b) /\ thrnew(t)
        /\ nexttid' = IF t = SYSERR THEN nexttid ELSE t
        /\ IF b = SYSERR \/ t = SYSERR
           THEN UNCHANGED <<thrcount, state, entry_vars, msg>>
           ELSE enter(t, b, p)
  BY Zenon DEF create
<1>4. nexttid' \in Tid /\ freestk' \subseteq Stack
  BY <1>2, <1>3, Zenon DEF stkget
<1>5. SemCountIsQueue'
  BY <1>1, Zenon DEF IInv, SemCountIsQueue, isbadsem
<1>6. CASE b = SYSERR \/ t = SYSERR
  <2>1. UNCHANGED <<thrcount, state, prio, parent, stk, msg>>
    BY <1>3, <1>6, Zenon DEF entry_vars
  <2>2. RunSound' /\ SameBlocked(state, state')
    BY <1>1, <2>1, SameBlockedRefl, Zenon DEF IInv, RunSound
  <2>3. Types'
    BY <1>1, <1>4, <2>1, Zenon DEF IInv, Types, isbadsem
  <2> QED BY <1>1, <1>5, <2>1, <2>2, <2>3, Finish, Zenon DEF IInv
<1>7. CASE ~(b = SYSERR \/ t = SYSERR)
  <2>1. /\ t \in Tid /\ b \in Stack /\ state[t] = THRFREE
        /\ thrcount' = thrcount + 1
        /\ state' = [state EXCEPT ![t] = THRSUSP]
        /\ prio' = [prio EXCEPT ![t] = p]
        /\ parent' = [parent EXCEPT ![t] = thrcurrent]
        /\ stk' = [stk EXCEPT ![t] = b]
        /\ msg' = [msg EXCEPT ![t] = NOMSG]
    BY <1>3, <1>7, Zenon DEF enter, thrnew
  <2>2. RunSound'
    <3>1. Sound(state', key', readylist')
      BY <1>1, <2>1, Zenon DEF IInv, RunSound, Sound
    <3>2. \A x \in Tid : state'[x] = THRCURR <=> x = thrcurrent'
      BY <1>1, <1>2, <2>1, Zenon DEF IInv, RunSound
    <3>3. state'[NULLTHREAD] \in {THRCURR, THRREADY}
      BY <1>2, <2>1, NullIsTid, Zenon DEF IInv, RunSound
    <3> QED BY <1>1, <1>2, <3>1, <3>2, <3>3, Zenon DEF RunSound
  <2>3. SleepIs(sleepq', state')
    BY <1>1, <1>2, <2>1, Zenon DEF IInv, SleepIs
  <2>4. SemIs(semq', sem', state')
    BY <1>1, <1>2, <2>1, Zenon DEF IInv, SemIs
  <2>5. KillIs(stk', cont', state')
    <3>1. \A u \in Tid : cont[u].tid \in Tid
      BY <1>2, Zenon DEF Cont
    <3> QED BY <1>1, <1>2, <2>1, <3>1, Zenon DEF IInv, KillIs
  <2>6. MsgIs(msg', cont', state')
    BY <1>1, <1>2, <2>1, UserIsIdle, Zenon DEF IInv, MsgIs
  <2>7. Types'
    <3>1. prio' \in [Tid -> Int]
      BY <1>2, <2>1, KernelAssumption, Zenon
    <3>2. /\ parent' \in [Tid -> Tid] /\ stk' \in [Tid -> Stack \cup {NOSTK}]
          /\ msg' \in [Tid -> Nat \cup {NOMSG}] /\ thrcount' \in Int
      BY <1>2, <2>1
    <3> QED BY <1>1, <1>4, <3>1, <3>2, Zenon DEF IInv, Types, isbadsem
  <2> QED BY <1>5, <2>2, <2>3, <2>4, <2>5, <2>6, <2>7, SameBlockedRefl, Finish, Zenon
<1> QED BY <1>6, <1>7, Zenon

\* kill() up to and including send() to the parent keeps the invariant.
LEMMA KillKeeps ==
  ASSUME IInv, KillSleepers = FALSE, NEW t \in Tid, kill(t)
  PROVE  IInv'
<1>1. /\ thrcurrent \in Tid /\ cont[thrcurrent] = User
      /\ t # NULLTHREAD /\ state[t] \notin {THRFREE, THRSLEEP, THRTMOUT}
  BY Caller, Zenon DEF kill, isbadtid, MayKill
<1>2. UNCHANGED <<sem, semq, scount, sstate, nextsem, prio, parent, stk, kloop,
                  nexttid, freestk>>
  BY Zenon DEF kill, sem_vars, entry_vars
<1>3. /\ thrcount' \in Int /\ cont \in [Tid -> Cont] /\ parent[t] \in Tid /\ t \in Nat
  BY KernelAssumption DEF kill, IInv, Types, Tid
<1>4. SemCountIsQueue'
  BY <1>2, Zenon DEF IInv, SemCountIsQueue, isbadsem
<1>5. CASE thrcount - 1 <= 1
  <2>1. UNCHANGED <<msg, state, key, readylist, thrcurrent, sleepq, due, cont>>
    BY <1>5, Zenon DEF kill, ready_vars, sleep_vars
  <2>2. halted' \in BOOLEAN
    BY <1>5, Zenon DEF kill
  <2>3. RunSound' /\ SameBlocked(state, state')
    BY <2>1, SameBlockedRefl, Zenon DEF IInv, RunSound
  <2>4. Types'
    BY <1>2, <1>3, <2>1, <2>2, Zenon DEF IInv, Types, isbadsem
  <2> QED BY <1>2, <1>4, <2>1, <2>3, <2>4, Finish, Zenon DEF IInv
<1>6. CASE ~(thrcount - 1 <= 1)
  <2>1. /\ send(parent[t], t)
        /\ cont' = [cont EXCEPT ![thrcurrent] = Rest("kill", t)]
        /\ halted' = halted
    BY <1>6, Zenon DEF kill
  <2>2. PICK S : /\ RunSound' /\ SameBlocked(S, state')
                 /\ SleepIs(sleepq', S) /\ SemIs(semq, sem, S)
                 /\ KillIs(stk, cont, S) /\ MsgIs(msg', cont, S)
                 /\ S[thrcurrent] = THRCURR
                 /\ \A x \in Tid : S[x] \in {state[x], THRREADY}
                 /\ msg' \in [Tid -> Nat \cup {NOMSG}] /\ due' \in [Tid -> Int]
    BY <1>3, <2>1, SendStep, Zenon
  <2>3. /\ Rest("kill", t) \in Cont /\ Rest("kill", t).op = "kill"
        /\ Rest("kill", t).tid = t
    BY Zenon DEF Rest, Cont
  <2>4. /\ cont' \in [Tid -> Cont] /\ cont'[thrcurrent] = Rest("kill", t)
        /\ \A x \in Tid \ {thrcurrent} : cont'[x] = cont[x]
    BY <1>1, <1>3, <2>1, <2>3, Zenon
  <2>5. stk[t] \in Stack /\ S[t] \notin {THRSLEEP, THRTMOUT}
    BY <1>1, <2>2, Zenon DEF IInv, KillIs
  <2>6. KillIs(stk', cont', S)
    <3>1. \A x \in Tid \ {NULLTHREAD} : S[x] # THRFREE => stk'[x] \in Stack
      BY <1>2, <2>2, Zenon DEF KillIs
    <3>2. ASSUME NEW u \in Tid, cont'[u].op = "kill"
          PROVE  /\ cont'[u].tid # NULLTHREAD /\ stk'[cont'[u].tid] \in Stack
                 /\ S[cont'[u].tid] \notin {THRSLEEP, THRTMOUT}
      <4>1. CASE u = thrcurrent
        BY <1>1, <1>2, <2>3, <2>4, <2>5, <4>1, Zenon
      <4>2. CASE u # thrcurrent
        <5>1. cont'[u] = cont[u]
          BY <2>4, <4>2, Zenon
        <5> QED BY <1>2, <2>2, <3>2, <5>1, Zenon DEF KillIs
      <4> QED BY <4>1, <4>2, Zenon
    <3> QED BY <3>1, <3>2, Zenon DEF KillIs
  <2>7. MsgIs(msg', cont', S)
    BY <1>1, <2>2, <2>3, <2>4, Zenon DEF MsgIs
  <2>8. Types'
    BY <1>2, <1>3, <2>1, <2>2, <2>4, Zenon DEF IInv, Types, isbadsem
  <2> QED BY <1>2, <1>4, <2>2, <2>6, <2>7, <2>8, Finish, Zenon
<1> QED BY <1>5, <1>6, Zenon

\* kill() of a waiting thread: the thread leaves its semaphore's queue and the
\* count goes up by one.
LEMMA UnwaitStep ==
  ASSUME IInv, NEW t \in Tid, state[t] = THRWAIT, unwait(t), kloop = NoLoop,
         sem' = sem, sstate' = sstate, kloop' = kloop
  PROVE  /\ SemIs(semq', sem', [state EXCEPT ![t] = THRFREE])
         /\ SemCountIsQueue' /\ scount' \in [Sem -> Int]
<1> DEFINE S == [state EXCEPT ![t] = THRFREE]
<1>1. /\ state \in [Tid -> ThreadState] /\ scount \in [Sem -> Int]
      /\ semq \in [Sem -> Seq(Tid)]
  BY Zenon DEF IInv, RunSound, Sound, Types, SemIs
<1>2. /\ scount' = [scount EXCEPT ![sem[t]] = @ + 1]
      /\ semq' = [semq EXCEPT ![sem[t]] = getitem(@, t)]
  BY Zenon DEF unwait
<1>3. CASE sem[t] \notin Sem
  <2>1. scount' = scount /\ semq' = semq
    BY <1>1, <1>2, <1>3, Zenon
  <2>2. SemIs(semq', sem', S)
    BY <1>1, <1>3, <2>1 DEF IInv, SemIs
  <2>3. SemCountIsQueue'
    BY <2>1, Zenon DEF IInv, SemCountIsQueue, isbadsem
  <2> QED BY <1>1, <2>1, <2>2, <2>3, Zenon
<1>4. CASE sem[t] \in Sem
  <2>1. PICK s \in Sem : s = sem[t]
    BY <1>4, Zenon
  <2>2. Contains(semq[s], t) /\ NoDuplicates(semq[s]) /\ semq[s] \in Seq(Tid)
    BY <1>1, <2>1, Zenon DEF IInv, SemIs
  <2>3. PICK g : g = getitem(semq[s], t)
    BY Zenon
  <2>4. /\ g \in Seq(Tid) /\ Len(g) = Len(semq[s]) - 1 /\ NoDuplicates(g)
        /\ \A x : Contains(g, x) <=> Contains(semq[s], x) /\ x # t
    BY <2>2, <2>3, GetitemMembers, Zenon
  <2>5. /\ semq' = [semq EXCEPT ![s] = g]
        /\ scount' = [scount EXCEPT ![s] = scount[s] + 1]
        /\ scount[s] \in Int
    BY <1>1, <1>2, <2>1, <2>3, Zenon
  <2>6. SemIs(semq', sem', S)
    <3>1. semq' \in [Sem -> Seq(Tid)] /\ \A x \in Sem : NoDuplicates(semq'[x])
      BY <1>1, <2>4, <2>5, Zenon DEF IInv, SemIs
    <3>2. ASSUME NEW x \in Sem, NEW u \in Tid
          PROVE  Contains(semq'[x], u) <=> S[u] = THRWAIT /\ sem'[u] = x
      <4>1. Contains(semq[x], u) <=> state[u] = THRWAIT /\ sem[u] = x
        BY Zenon DEF IInv, SemIs
      <4>2. CASE x = s
        BY <1>1, <2>4, <2>5, <4>1, <4>2, Zenon
      <4>3. CASE x # s
        BY <1>1, <2>1, <2>5, <4>1, <4>3, Zenon
      <4> QED BY <4>2, <4>3, Zenon
    <3> QED BY <3>1, <3>2, Zenon DEF SemIs
  <2>7. scount[s] < 0 /\ Len(semq[s]) = -scount[s]
    <3>1. Len(semq[s]) # 0 /\ Len(semq[s]) \in Nat
      <4>1. PICK q \in Seq(Tid) : q = semq[s]
        BY <2>2, Zenon
      <4>2. Len(q) \in Nat
        BY QueueType, Zenon
      <4> QED BY <2>2, <4>1, <4>2 DEF Contains
    <3>2. Len(semq[s]) = IF scount[s] < 0 THEN -scount[s] ELSE 0
      BY NoLoopIsIdle, Zenon DEF IInv, SemCountIsQueue
    <3> QED BY <3>1, <3>2, Zenon
  <2>8. SemCountIsQueue'
    <3>1. ASSUME NEW x \in Sem
          PROVE  /\ Len(semq'[x]) = IF scount'[x] < 0 THEN -scount'[x] ELSE 0
                 /\ sstate'[x] = "SFREE" => scount'[x] = 0
      <4>1. /\ Len(semq[x]) = IF scount[x] < 0 THEN -scount[x] ELSE 0
            /\ sstate[x] = "SFREE" => scount[x] = 0
        BY NoLoopIsIdle, Zenon DEF IInv, SemCountIsQueue, isbadsem
      <4>2. CASE x = s
        BY <1>1, <2>4, <2>5, <2>7, <4>1, <4>2
      <4>3. CASE x # s
        BY <1>1, <2>5, <4>1, <4>3, Zenon
      <4> QED BY <4>2, <4>3, Zenon
    <3> QED BY <3>1, Zenon DEF SemCountIsQueue, isbadsem
  <2> QED BY <1>1, <2>5, <2>6, <2>8
<1> QED BY <1>3, <1>4, Zenon

\* The target t of a kill() leaves its queue: what kill_return leaves.
LEMMA KillReturnKeeps ==
  ASSUME IInv, kill_return
  PROVE  IInv'
<1>1. PICK t : t = cont[thrcurrent].tid
  BY Zenon
<1> DEFINE S == [state EXCEPT ![t] = THRFREE]
<1>2. /\ state \in [Tid -> ThreadState] /\ DOMAIN key = Tid /\ RunSound
      /\ thrcurrent \in Tid /\ state[thrcurrent] = THRCURR
      /\ cont \in [Tid -> Cont] /\ freestk \subseteq Stack
  BY Zenon DEF IInv, RunSound, Sound, Types
<1>3. /\ kloop = NoLoop /\ cont[thrcurrent].op = "kill"
      /\ freestk' = freestk \cup {stk[t]}
      /\ cont' = [cont EXCEPT ![thrcurrent] = User, ![t] = User]
      /\ UNCHANGED <<sem, sstate, nextsem, sleepq, due, prio, parent, stk, msg,
                     thrcount, nexttid, halted, kloop>>
  BY <1>1, Zenon DEF kill_return, sleep_vars, entry_vars
<1>4. /\ t \in Tid /\ t # NULLTHREAD /\ stk[t] \in Stack
      /\ state[t] \notin {THRSLEEP, THRTMOUT}
  BY <1>1, <1>2, <1>3, Zenon DEF IInv, KillIs, Cont
<1>5. /\ cont' \in [Tid -> Cont] /\ cont'[t] = User /\ cont'[thrcurrent] = User
      /\ \A x \in Tid \ {t, thrcurrent} : cont'[x] = cont[x]
  BY <1>2, <1>3, <1>4, UserIsIdle, Zenon
<1>6. SleepIs(sleepq', S)
  BY <1>2, <1>3, <1>4, Zenon DEF IInv, SleepIs
<1>7. KillIs(stk', cont', S)
  <2>1. \A x \in Tid : /\ S[x] # THRFREE => state[x] # THRFREE
                       /\ S[x] \in {THRSLEEP, THRTMOUT}
                            => state[x] \in {THRSLEEP, THRTMOUT}
    BY <1>2, <1>4, Zenon
  <2>2. \A u \in Tid : cont'[u].op = "kill" => cont'[u] = cont[u]
    BY <1>5, UserIsIdle, Zenon
  <2> HIDE DEF S
  <2>3. KillIs(stk, cont', S)
    BY <2>1, <2>2, KillFits, Zenon
  <2> QED BY <1>3, <2>3, Zenon
<1>8. MsgIs(msg', cont', S)
  BY <1>2, <1>3, <1>4, <1>5, UserIsIdle, Zenon DEF IInv, MsgIs
<1>9. scount' \in [Sem -> Int] => Types'
  BY <1>2, <1>3, <1>4, <1>5, NoLoopIsIdle, Zenon DEF IInv, Types
<1>10. state[t] # THRWAIT => /\ UNCHANGED <<scount, semq>>
                             /\ SemIs(semq', sem', S) /\ Types' /\ SemCountIsQueue'
  <2> SUFFICES ASSUME state[t] # THRWAIT
               PROVE  /\ UNCHANGED <<scount, semq>>
                      /\ SemIs(semq', sem', S) /\ Types' /\ SemCountIsQueue'
    BY Zenon
  <2>1. UNCHANGED <<scount, semq>>
    BY <1>1, Zenon DEF kill_return
  <2>2. SemIs(semq', sem', S)
    BY <1>2, <1>3, <1>4, <2>1, Zenon DEF IInv, SemIs
  <2>3. SemCountIsQueue'
    BY <1>3, <2>1, Zenon DEF IInv, SemCountIsQueue, isbadsem
  <2> QED BY <1>9, <2>1, <2>2, <2>3, Zenon DEF IInv, Types
<1>11. CASE state[t] = THRCURR
  <2>1. resched(Sched(S, key, readylist)) /\ t = thrcurrent
    BY <1>1, <1>2, <1>4, <1>11, Zenon DEF kill_return, IInv, RunSound
  <2>2. resched(Sched([state EXCEPT ![thrcurrent] = THRFREE], key, readylist))
    BY <2>1, Zenon
  <2>3. RunSound' /\ SameBlocked([state EXCEPT ![thrcurrent] = THRFREE], state')
    BY <1>2, <1>4, <2>1, <2>2, BlockStep, Zenon
  <2>4. SameBlocked(S, state')
    BY <2>1, <2>3, Zenon
  <2> HIDE DEF S
  <2> QED BY <1>6, <1>7, <1>8, <1>10, <1>11, <2>3, <2>4, Finish, Zenon
<1>12. CASE state[t] = THRREADY
  <2>1. /\ state' = S /\ key' = key /\ readylist' = getitem(readylist, t)
        /\ UNCHANGED thrcurrent
    BY <1>1, <1>12, Zenon DEF kill_return, Becomes, Sched
  <2>2. /\ getitem(readylist, t) \in Seq(Tid) /\ NoDuplicates(getitem(readylist, t))
        /\ \A x : Contains(getitem(readylist, t), x) <=> Contains(readylist, x) /\ x # t
    BY GetitemMembers, Zenon DEF IInv, RunSound, Sound
  <2>3. Sound(state', key', readylist')
    BY <2>1, <2>2, Zenon DEF IInv, RunSound, Sound
  <2>4. \A x \in Tid : state'[x] = THRCURR <=> x = thrcurrent'
    BY <1>2, <1>12, <2>1, Zenon DEF IInv, RunSound
  <2>5. state'[NULLTHREAD] \in {THRCURR, THRREADY} /\ thrcurrent' \in Tid
    BY <1>2, <1>4, <2>1, NullIsTid, Zenon DEF IInv, RunSound
  <2>6. RunSound'
    BY <2>3, <2>4, <2>5, Zenon DEF RunSound
  <2> HIDE DEF S
  <2> QED BY <1>6, <1>7, <1>8, <1>10, <1>12, <2>1, <2>6, SameBlockedRefl, Finish, Zenon
<1>13. CASE state[t] \notin {THRCURR, THRREADY}
  <2>1. /\ state' = S /\ key' = key /\ readylist' = readylist /\ UNCHANGED thrcurrent
    BY <1>1, <1>13, Zenon DEF kill_return, Becomes, Sched
  <2>2. Sound(state', key', readylist')
    BY <1>13, <2>1, Zenon DEF IInv, RunSound, Sound
  <2>3. \A x \in Tid : state'[x] = THRCURR <=> x = thrcurrent'
    BY <1>2, <1>13, <2>1, Zenon DEF IInv, RunSound
  <2>4. state'[NULLTHREAD] \in {THRCURR, THRREADY} /\ thrcurrent' \in Tid
    BY <1>2, <1>4, <2>1, NullIsTid, Zenon DEF IInv, RunSound
  <2>5. RunSound'
    BY <2>2, <2>3, <2>4, Zenon DEF RunSound
  <2>6. SemIs(semq', sem', S) /\ Types' /\ SemCountIsQueue'
    <3>1. CASE state[t] # THRWAIT
      BY <1>10, <3>1, Zenon
    <3>2. CASE state[t] = THRWAIT
      <4>1. unwait(t)
        BY <1>1, <3>2, Zenon DEF kill_return
      <4> QED BY <1>3, <1>4, <1>9, <3>2, <4>1, UnwaitStep, Zenon
    <3> QED BY <3>1, <3>2, Zenon
  <2> HIDE DEF S
  <2> QED BY <1>6, <1>7, <1>8, <2>1, <2>5, <2>6, SameBlockedRefl, Finish, Zenon
<1> QED BY <1>11, <1>12, <1>13, Zenon

\* Nothing happens after halt().
LEMMA HaltKeeps ==
  ASSUME IInv, UNCHANGED vars
  PROVE  IInv'
<1>1. UNCHANGED <<state, key, readylist, thrcurrent, sleepq, due, sem, semq, scount,
                  sstate, nextsem, stk, prio, parent, msg, cont, kloop,
                  nexttid, thrcount, freestk, halted>>
  BY Zenon DEF vars, ready_vars, sleep_vars, sem_vars, entry_vars, table_vars
<1>2. RunSound' /\ SameBlocked(state, state')
  BY <1>1, SameBlockedRefl, Zenon DEF IInv, RunSound
<1>3. Types'
  BY <1>1, Zenon DEF IInv, Types, isbadsem
<1>4. SemCountIsQueue'
  BY <1>1, Zenon DEF IInv, SemCountIsQueue, isbadsem
<1> QED BY <1>1, <1>2, <1>3, <1>4, Finish, Zenon DEF IInv

-----------------------------------------------------------------------------
(***************************************************************************)
(* All calls together.                                                     *)
(***************************************************************************)
\* Every step keeps the inductive invariant, unless clients kill sleepers.
LEMMA NextIInv ==
  ASSUME KillSleepers = FALSE, IInv, [Next]_vars
  PROVE  IInv'
<1>1. CASE SemCall
  BY <1>1, WaitKeeps, SignalKeeps, SignalnKeeps, SemcreateKeeps, SemfreeKeeps, Zenon
     DEF SemCall
<1>2. CASE MsgCall
  BY <1>2, ReceiveKeeps, RecvclrKeeps, RecvtimeKeeps, SendKeeps, Zenon DEF MsgCall
<1>3. CASE ThreadCall
  BY Zenon, <1>3, YieldKeeps, SleepKeeps, SuspendKeeps, ResumeKeeps, KillKeeps, ChprioKeeps,
     CreateKeeps DEF ThreadCall
<1>4. CASE KernelStep
  BY <1>4, SignalnLoopKeeps, SemfreeLoopKeeps, WakeupLoopKeeps, ReceiveReturnKeeps,
     KillReturnKeeps, Zenon DEF KernelStep
<1>5. CASE clkhandler
  BY <1>5, ClkhandlerKeeps, Zenon
<1>6. CASE Halt \/ UNCHANGED vars
  BY <1>6, HaltKeeps, Zenon DEF Halt
<1> QED BY <1>1, <1>2, <1>3, <1>4, <1>5, <1>6, Zenon DEF Next

\* The inductive invariant holds for any number of threads and semaphores.
LEMMA AlwaysIInv == KillSleepers = FALSE => (Spec => []IInv)
<1> SUFFICES ASSUME KillSleepers = FALSE PROVE Spec => []IInv
  BY Zenon
<1>1. Init => IInv
  BY InitIInv, Zenon
<1>2. IInv /\ [Next]_vars => IInv'
  BY NextIInv, Zenon
<1> QED BY <1>1, <1>2, PTL DEF Spec

\* Type correctness for any number of threads, semaphores and stacks; resched()
\* never dequeues from an empty ready list.  A kill of a sleeper is excluded: it
\* leaves a free thread on the sleep queue (see OneQueue).
THEOREM TypeCorrect == KillSleepers = FALSE => (Spec => []TypeOK)
<1> SUFFICES ASSUME KillSleepers = FALSE PROVE Spec => []TypeOK
  BY Zenon
<1>1. Spec => []IInv
  BY AlwaysIInv, Zenon
<1>2. IInv => TypeOK
  BY Implied, Zenon
<1> QED BY <1>1, <1>2, PTL

\* At most one queue, and the right one: see QueueDiscipline.
THEOREM QueuesDisciplined == KillSleepers = FALSE => (Spec => []QueueDiscipline)
<1> SUFFICES ASSUME KillSleepers = FALSE PROVE Spec => []QueueDiscipline
  BY Zenon
<1>1. Spec => []IInv
  BY AlwaysIInv, Zenon
<1>2. IInv => QueueDiscipline
  BY Implied, Zenon
<1> QED BY <1>1, <1>2, PTL

\* resched() always has a thread to run, and exactly one thread runs.
THEOREM OneThreadRuns == KillSleepers = FALSE => (Spec => []OneRunning)
<1> SUFFICES ASSUME KillSleepers = FALSE PROVE Spec => []OneRunning
  BY Zenon
<1>1. Spec => []IInv
  BY AlwaysIInv, Zenon
<1>2. IInv => OneRunning
  BY Implied, Zenon
<1> QED BY <1>1, <1>2, PTL

\* The count of a semaphore and its queue agree: wait, signal, signaln,
\* semcreate, semfree and kill of a waiting thread.
THEOREM CountsAreQueues == KillSleepers = FALSE => (Spec => []SemCountIsQueue)
<1> SUFFICES ASSUME KillSleepers = FALSE PROVE Spec => []SemCountIsQueue
  BY Zenon
<1>1. Spec => []IInv
  BY AlwaysIInv, Zenon
<1>2. IInv => SemCountIsQueue
  BY Zenon DEF IInv
<1> QED BY <1>1, <1>2, PTL

\* No lost wakeup in send() and receive().
THEOREM MessagesWake == KillSleepers = FALSE => (Spec => []MessageWakesReceiver)
<1> SUFFICES ASSUME KillSleepers = FALSE PROVE Spec => []MessageWakesReceiver
  BY Zenon
<1>1. Spec => []IInv
  BY AlwaysIInv, Zenon
<1>2. IInv => MessageWakesReceiver
  BY Implied, Zenon
<1> QED BY <1>1, <1>2, PTL

-----------------------------------------------------------------------------
(***************************************************************************)
(* Messages are never overwritten, whatever clients kill.                  *)
(***************************************************************************)
MsgTyped == msg \in [Tid -> Nat \cup {NOMSG}]

\* What a step may do to the messages: nothing, clear one, fill an empty one.
MsgStep ==
  \/ msg' = msg
  \/ \E t : msg' = [msg EXCEPT ![t] = NOMSG]
  \/ \E t \in Tid, m \in Nat : msg[t] = NOMSG /\ msg' = [msg EXCEPT ![t] = m]

\* send() fills only an empty message slot.
LEMMA SendMsgStep ==
  ASSUME NEW t, NEW m \in Nat, send(t, m)
  PROVE  MsgStep
<1>1. CASE refuses(t)
  BY <1>1, Zenon DEF send, MsgStep
<1>2. CASE ~refuses(t)
  <2>1. t \in Tid /\ msg[t] = NOMSG /\ msg' = [msg EXCEPT ![t] = m]
    BY <1>2, Zenon DEF send, refuses, isbadtid
  <2> QED BY <2>1, Zenon DEF MsgStep
<1> QED BY <1>1, <1>2, Zenon

\* Every step of the kernel does one of the three.
LEMMA NextMsgStep ==
  ASSUME [Next]_vars
  PROVE  MsgStep
<1>1. ASSUME TakeMsg PROVE MsgStep
  BY <1>1, Zenon DEF TakeMsg, MsgStep
<1>2. CASE SemCall
  BY <1>2, Zenon DEF SemCall, wait, signal, semfree, signaln, semcreate, MsgStep
<1>3. CASE MsgCall
  <2>1. ASSUME receive PROVE MsgStep
    BY <1>1, <2>1, Zenon DEF receive, MsgStep
  <2>2. ASSUME recvclr PROVE MsgStep
    BY <1>1, <2>2, Zenon DEF recvclr
  <2>3. ASSUME NEW d \in Delays, recvtime(d) PROVE MsgStep
    BY <1>1, <2>3, Zenon DEF recvtime, MsgStep
  <2>4. ASSUME NEW t \in Tid, NEW m \in UserMsgs, Send(t, m) PROVE MsgStep
    BY <2>4, SendMsgStep, KernelAssumption, Zenon DEF Send
  <2> QED BY <1>3, <2>1, <2>2, <2>3, <2>4, Zenon DEF MsgCall
<1>4. CASE ThreadCall
  <2>1. ASSUME yield \/ \E ms \in Millis : sleep(ms) PROVE MsgStep
    BY <2>1, Zenon DEF yield, sleep, MsgStep
  <2>2. ASSUME NEW t \in Tid, suspend(t) \/ resume(t) \/ start(t) PROVE MsgStep
    BY <2>2, Zenon DEF suspend, resume, start, MsgStep
  <2>3. ASSUME NEW t \in Tid, kill(t) PROVE MsgStep
    <3>1. t \in Nat
      BY KernelAssumption DEF Tid
    <3>2. msg' = msg \/ send(parent[t], t)
      BY <2>3, Zenon DEF kill
    <3> QED BY <3>1, <3>2, SendMsgStep, Zenon DEF MsgStep
  <2>4. ASSUME NEW t \in Tid, NEW p \in Prio, chprio(t, p) PROVE MsgStep
    BY <2>4, Zenon DEF chprio, MsgStep
  <2>5. ASSUME NEW p \in Prio, create(p) PROVE MsgStep
    <3>1. msg' = msg \/ \E t : msg' = [msg EXCEPT ![t] = NOMSG]
      BY <2>5, Zenon DEF create, enter
    <3> QED BY <3>1, Zenon DEF MsgStep
  <2> QED BY <1>4, <2>1, <2>2, <2>3, <2>4, <2>5, Zenon DEF ThreadCall
<1>5. CASE KernelStep
  <2>1. ASSUME receive_return PROVE MsgStep
    BY <1>1, <2>1, Zenon DEF receive_return
  <2>2. ASSUME signaln_loop \/ semfree_loop \/ wakeup_loop \/ kill_return PROVE MsgStep
    BY <2>2, Zenon DEF signaln_loop, semfree_loop, wakeup_loop, kill_return, MsgStep
  <2> QED BY <1>5, <2>1, <2>2, Zenon DEF KernelStep
<1>6. CASE clkhandler
  BY <1>6, Zenon DEF clkhandler, MsgStep
<1>7. CASE Halt \/ UNCHANGED vars
  BY <1>7, Zenon DEF Halt, vars, MsgStep
<1> QED BY <1>2, <1>3, <1>4, <1>5, <1>6, <1>7, Zenon DEF Next

\* send() never replaces a pending message, whatever clients kill.
THEOREM MessagesKept == Spec => MessageKept
<1>1. Init => MsgTyped
  BY DEF Init, MsgTyped
<1>2. MsgTyped /\ [Next]_vars => MsgTyped'
  <2> SUFFICES ASSUME MsgTyped, [Next]_vars PROVE MsgTyped'
    BY Zenon
  <2>1. MsgStep
    BY NextMsgStep, Zenon
  <2> QED BY <2>1, Zenon DEF MsgStep, MsgTyped
<1>3. MsgTyped /\ [Next]_vars
        => [\A t \in Tid : msg[t] # NOMSG => msg'[t] \in {msg[t], NOMSG}]_msg
  <2> SUFFICES ASSUME MsgTyped, [Next]_vars, NEW t \in Tid, msg[t] # NOMSG
               PROVE  msg'[t] \in {msg[t], NOMSG}
    BY Zenon
  <2>1. MsgStep
    BY NextMsgStep, Zenon
  <2> QED BY <2>1, Zenon DEF MsgStep, MsgTyped
<1> QED BY <1>1, <1>2, <1>3, PTL DEF Spec, MessageKept

-----------------------------------------------------------------------------
(***************************************************************************)
(* semtab implements counting semaphores.                                  *)
(***************************************************************************)
\* Every step of the kernel is a step of the abstract semaphores, or none.
LEMMA NextSemStep ==
  ASSUME IInv, IInv', [Next]_vars
  PROVE  SemStep
<1>1. ASSUME UNCHANGED <<scount, sstate, semq, kloop>> PROVE SemStep
  BY <1>1, NoSemStep, Zenon
<1>2. CASE SemCall
  <2>1. ASSUME NEW s \in Sem, NEW n \in 1 .. MaxSignal, signaln(s, n) PROVE SemStep
    <3>1. kloop = NoLoop /\ kloop'.op = "signaln" /\ UNCHANGED <<scount, sstate, semq>>
      BY <2>1, Caller, Zenon DEF signaln, sem_vars
    <3> QED BY <3>1, NoLoopIsIdle, NoSemStep, Zenon
  <2> QED BY <1>2, <2>1, WaitIsP, SignalIsV, SemcreateIsCreate, SemfreeIsFree, Zenon
          DEF SemCall
<1>3. CASE MsgCall
  BY <1>1, <1>3, Zenon DEF MsgCall, receive, recvclr, recvtime, Send, sem_vars
<1>4. CASE ThreadCall
  BY <1>1, <1>4, Zenon DEF ThreadCall, yield, sleep, suspend, resume, start, kill, chprio, create,
                    sem_vars
<1>5. CASE KernelStep
  <2>1. ASSUME wakeup_loop PROVE SemStep
    <3>1. /\ UNCHANGED <<scount, sstate, semq>> /\ kloop.op = "wakeup"
          /\ kloop' = kloop \/ kloop' = NoLoop
      BY <2>1, Zenon DEF wakeup_loop, sem_vars
    <3> QED BY <3>1, NoLoopIsIdle, NoSemStep, Zenon
  <2>2. ASSUME receive_return PROVE SemStep
    BY <1>1, <2>2, Zenon DEF receive_return, sem_vars
  <2>3. ASSUME kill_return PROVE SemStep
    <3>1. PICK t : t = cont[thrcurrent].tid
      BY Zenon
    <3>2. kloop = NoLoop /\ UNCHANGED <<sstate, kloop>>
      BY <2>3, Zenon DEF kill_return
    <3>3. t \in Tid
      BY <3>1, Zenon DEF IInv, RunSound, Types, Cont
    <3>4. CASE state[t] = THRWAIT
      <4>1. unwait(t) /\ semq' \in [Sem -> Seq(Tid)]
        BY <2>3, <3>1, <3>4, Zenon DEF kill_return, IInv, SemIs
      <4> QED BY <3>2, <3>3, <3>4, <4>1, UnwaitIsCancel, Zenon
    <3>5. CASE state[t] # THRWAIT
      <4>1. UNCHANGED <<scount, semq>>
        BY <2>3, <3>1, <3>5, Zenon DEF kill_return
      <4> QED BY <1>1, <3>2, <4>1, Zenon
    <3> QED BY <3>4, <3>5, Zenon
  <2> QED BY <1>5, <2>1, <2>2, <2>3, SignalnLoopIsV, SemfreeLoopIsFree, Zenon DEF KernelStep
<1>6. CASE clkhandler
  <2>1. /\ UNCHANGED <<scount, sstate, semq>> /\ kloop = NoLoop
        /\ kloop' = kloop \/ kloop' = [NoLoop EXCEPT !.op = "wakeup"]
    BY <1>6, Zenon DEF clkhandler, sem_vars, UserMode
  <2>2. [NoLoop EXCEPT !.op = "wakeup"].op = "wakeup"
    BY Zenon DEF NoLoop
  <2> QED BY <2>1, <2>2, NoLoopIsIdle, NoSemStep, Zenon
<1>7. CASE Halt \/ UNCHANGED vars
  BY <1>1, <1>7, Zenon DEF Halt, vars, sem_vars
<1> QED BY <1>2, <1>3, <1>4, <1>5, <1>6, <1>7, Zenon DEF Next

\* The semaphore calls of the kernel implement first come first served counting
\* semaphores, for any number of threads and semaphores.
THEOREM SemaphoresImplemented == KillSleepers = FALSE => (Spec => ImplementsSemaphores)
<1> SUFFICES ASSUME KillSleepers = FALSE PROVE Spec => ImplementsSemaphores
  BY Zenon
<1>1. Init => Abstract!Init
  <2> SUFFICES ASSUME Init PROVE Abstract!Init
    BY Zenon
  <2>1. kloop.op # "semfree" /\ IInv
    BY InitIInv, NoLoopIsIdle, Zenon DEF Init
  <2>2. /\ live = [s \in Sem |-> sstate[s] # "SFREE"]
        /\ value = [s \in Sem |-> IF scount[s] > 0 THEN scount[s] ELSE 0]
        /\ waiting = semq
    BY <2>1, Settled, Zenon
  <2>3. /\ scount = [s \in Sem |-> 0] /\ sstate = [s \in Sem |-> "SFREE"]
        /\ semq = [s \in Sem |-> <<>>]
    BY Zenon DEF Init
  <2> QED BY <2>2, <2>3, Zenon DEF Abstract!Init
<1>2. IInv /\ IInv' /\ [Next]_vars => [Abstract!Next]_(Abstract!vars)
  BY NextSemStep, Zenon DEF SemStep, Abstract!vars
<1>3. Spec => []IInv
  BY AlwaysIInv, Zenon
<1> QED BY <1>1, <1>2, <1>3, PTL DEF Spec, ImplementsSemaphores, Abstract!Spec

=============================================================================
