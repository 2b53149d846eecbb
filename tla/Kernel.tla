------------------------------- MODULE Kernel -------------------------------
(***************************************************************************)
(* The thread kernel of Embedded Xinu (src/system): the thread table, the  *)
(* ready list, the delta sleep queue, counting semaphores, one-word        *)
(* messages, thread creation and termination, and the clock interrupt.     *)
(*                                                                         *)
(* Xinu is a uniprocessor kernel.  A system call runs from disable() to    *)
(* restore() without interruption, except that resched() may switch to     *)
(* another thread in the middle of it; what the call still has to do when  *)
(* its thread runs again is kept in cont[t].  The clock interrupt is taken *)
(* only while the current thread runs user code.  A loop that the code     *)
(* runs with interrupts disabled is unrolled into steps of kloop, during   *)
(* which nothing else is enabled.                                          *)
(*                                                                         *)
(* A call that the code refuses with SYSERR before it changes anything is  *)
(* a stuttering step and has no action of its own.                         *)
(***************************************************************************)
EXTENDS Queues

CONSTANTS
  NTHREAD,      \* number of slots of thrtab
  NSEM,         \* number of slots of semtab
  NSTK,         \* how many stacks fit into memory (all stacks have one size)
  Prio,         \* priorities that clients pass to create and chprio
  Delays,       \* tick counts that clients pass to recvtime
  Millis,       \* milliseconds that clients pass to sleep
  UINT,         \* number of values of a uint: 2^32 in the code
  UserMsgs,     \* messages that clients pass to send
  InitCounts,   \* counts that clients pass to semcreate
  MaxCount,     \* bound on a semaphore's count
  MaxSignal,    \* bound on the second argument of signaln
  Syscalls,     \* names of the system calls that clients make
  KillSleepers, \* whether clients kill threads that are on the sleep queue
  KillOverlap   \* whether kills in progress may share a thread

Tid == 0 .. NTHREAD - 1
NULLTHREAD == 0
Sem == 0 .. NSEM - 1
Stack == 1 .. NSTK

ASSUME KernelAssumption ==
  /\ NTHREAD \in Nat /\ NTHREAD >= 2
  /\ NSEM \in Nat
  /\ NSTK \in Nat \ {0}
  /\ Prio \subseteq Int /\ Prio # {}
  /\ Delays \subseteq Nat /\ Millis \subseteq Nat /\ UINT \in Nat \ {0}
  /\ UserMsgs \subseteq Nat
  /\ InitCounts \subseteq Int
  /\ MaxCount \in Nat /\ MaxSignal \in Nat
  /\ KillSleepers \in BOOLEAN /\ KillOverlap \in BOOLEAN

\* thrent.state
THRCURR == "THRCURR"
THRFREE == "THRFREE"
THRREADY == "THRREADY"
THRRECV == "THRRECV"
THRSLEEP == "THRSLEEP"
THRSUSP == "THRSUSP"
THRWAIT == "THRWAIT"
THRTMOUT == "THRTMOUT"
ThreadState == {THRCURR, THRFREE, THRREADY, THRRECV,
                THRSLEEP, THRSUSP, THRWAIT, THRTMOUT}

SYSERR == -1
NOMSG == -1     \* hasmsg is FALSE; a pending message is a natural number
NOSTK == 0      \* the null thread's own stack is not from the heap
CLKTICKS_PER_SEC == 10

VARIABLES
  \* thrtab
  state, prio, sem, msg, parent, stk,
  \* quetab: the keys, and each list as the sequence of its threads
  key, readylist, sleepq, semq,
  \* semtab
  scount, sstate, nextsem,
  \* the running thread, number of live threads, rotor of thrnew()
  thrcurrent, thrcount, nexttid,
  \* stacks that the heap can still hand out; halt() was reached
  freestk, halted,
  \* rest of the interrupted system call of each thread; kernel loop
  cont, kloop,
  \* history: ticks a thread on the sleep queue still has to wait, -1 when
  \* it has waited too long
  due

ready_vars == <<state, key, readylist, thrcurrent>>
sleep_vars == <<sleepq, due>>
sem_vars == <<sem, scount, sstate, semq, nextsem>>
entry_vars == <<prio, parent, stk>>
table_vars == <<thrcount, nexttid, freestk, halted>>

vars == <<ready_vars, sleep_vars, sem_vars, entry_vars, table_vars,
          msg, cont, kloop>>

\* What a thread has to do when it is next given the processor.
Rest(op, t) == [op |-> op, tid |-> t]
User == Rest("user", NULLTHREAD)
Cont == [op : {"user", "receive", "recvtime", "kill"}, tid : Tid]

\* The kernel loop in progress.
NoLoop == [op |-> "none", sem |-> 0, n |-> 0]
Loop == [op : {"none", "wakeup", "signaln", "semfree"}, sem : Nat, n : Nat]

-----------------------------------------------------------------------------
(***************************************************************************)
(* Scheduling.  ready() and resched() work on a record of the thread       *)
(* states, the keys and the ready list, so that they compose the way the   *)
(* C calls do.                                                             *)
(***************************************************************************)

Sched(s, k, q) == [state |-> s, key |-> k, readylist |-> q]
Now == Sched(state, key, readylist)
Becomes(r) ==
  /\ state' = r.state
  /\ key' = r.key
  /\ readylist' = r.readylist

isbadtid(t) == t \notin Tid \/ state[t] = THRFREE

\* ready(t, RESCHED_NO)
ready(r, t) ==
  IF isbadtid(t)
  THEN r
  ELSE Sched([r.state EXCEPT ![t] = THRREADY],
             [r.key EXCEPT ![t] = prio[t]],
             insert(r.readylist, r.key, prio[t], t))

\* Whether the running thread keeps the processor in resched().
outranks_or_equal(r) == prio[thrcurrent] >= r.key[Head(r.readylist)]
outranks(r) == prio[thrcurrent] > r.key[Head(r.readylist)]

\* resched() puts the running thread back on the ready list.
preempt_stateless(r) ==
  Sched(r.state,
        [r.key EXCEPT ![thrcurrent] = prio[thrcurrent]],
        insert(r.readylist, r.key, prio[thrcurrent], thrcurrent))
preempt(r) ==
  Sched([r.state EXCEPT ![thrcurrent] = THRREADY],
        [r.key EXCEPT ![thrcurrent] = prio[thrcurrent]],
        insert(r.readylist, r.key, prio[thrcurrent], thrcurrent))

\* resched(): give the processor to the first thread of the ready list,
\* unless the running thread may go on and outranks it.
resched(r) ==
  LET runs == r.state[thrcurrent] = THRCURR
      q == IF runs THEN preempt(r) ELSE r
  IN  IF runs /\ r.readylist # <<>> /\ outranks(r)
      THEN Becomes(r) /\ UNCHANGED thrcurrent
      ELSE IF q.readylist = <<>>
      THEN Becomes(q) /\ thrcurrent' = EMPTY
      ELSE /\ Becomes(Sched([q.state EXCEPT ![Head(q.readylist)] = THRCURR],
                            q.key, Tail(q.readylist)))
           /\ thrcurrent' = Head(q.readylist)

\* The current thread gives up the processor in state s.
Block(s) ==
  resched(Sched([state EXCEPT ![thrcurrent] = s], key, readylist))

-----------------------------------------------------------------------------
(***************************************************************************)
(* System calls.  The caller is thrcurrent.  The null thread makes none:   *)
(* after nulluser() has started main it only pauses.                       *)
(***************************************************************************)

UserMode == ~halted /\ kloop = NoLoop /\ cont[thrcurrent] = User
Calls(name) == UserMode /\ thrcurrent # NULLTHREAD /\ name \in Syscalls

isbadsem(s) == sstate[s] = "SFREE"

wait(s) ==
  /\ Calls("wait") /\ ~isbadsem(s)
  /\ scount' = [scount EXCEPT ![s] = @ - 1]
  /\ IF scount[s] - 1 < 0
     THEN /\ sem' = [sem EXCEPT ![thrcurrent] = s]
          /\ semq' = [semq EXCEPT ![s] = Append(@, thrcurrent)]
          /\ Block(THRWAIT)
     ELSE UNCHANGED <<sem, semq, ready_vars>>
  /\ UNCHANGED <<sstate, nextsem, sleep_vars, entry_vars, table_vars,
                 msg, cont, kloop>>

\* What signal() and one turn of the loop of signaln() do to the semaphore;
\* dequeue() of an empty queue yields EMPTY, which ready() rejects.
Release_last(s) ==
  /\ scount' = [scount EXCEPT ![s] = @ + 1]
  /\ semq' = IF scount[s] < 0 /\ semq[s] # <<>>
             THEN [semq EXCEPT ![s] = Front(@)] ELSE semq
Release(s) ==
  /\ scount' = [scount EXCEPT ![s] = @ + 1]
  /\ semq' = IF scount[s] < 0 /\ semq[s] # <<>>
             THEN [semq EXCEPT ![s] = Tail(@)] ELSE semq
Released(s) ==
  IF scount[s] < 0 /\ semq[s] # <<>> THEN ready(Now, Head(semq[s])) ELSE Now

signal(s) ==
  /\ Calls("signal") /\ ~isbadsem(s)
  /\ scount[s] < MaxCount
  /\ Release(s)
  /\ IF scount[s] < 0 THEN resched(Released(s)) ELSE UNCHANGED ready_vars
  /\ UNCHANGED <<sem, sstate, nextsem, sleep_vars, entry_vars, table_vars,
                 msg, cont, kloop>>

signaln(s, n) ==
  /\ Calls("signaln") /\ ~isbadsem(s)
  /\ n > 0 /\ scount[s] + n <= MaxCount
  /\ kloop' = [op |-> "signaln", sem |-> s, n |-> n]
  /\ UNCHANGED <<ready_vars, sleep_vars, sem_vars, entry_vars, table_vars,
                 msg, cont>>

\* The loop of signaln() and the resched() behind it.
signaln_loop ==
  /\ ~halted /\ kloop.op = "signaln"
  /\ IF kloop.n > 0
     THEN /\ Release(kloop.sem)
          /\ Becomes(Released(kloop.sem)) /\ UNCHANGED thrcurrent
          /\ kloop' = [kloop EXCEPT !.n = @ - 1]
     ELSE /\ resched(Now)
          /\ kloop' = NoLoop
          /\ UNCHANGED <<scount, semq>>
  /\ UNCHANGED <<sem, sstate, nextsem, sleep_vars, entry_vars, table_vars,
                 msg, cont>>

\* semalloc() takes the first free slot behind nextsem.
semalloc(s) ==
  \E i \in 1 .. NSEM :
    /\ s = (nextsem + i) % NSEM
    /\ isbadsem(s)
    /\ \A j \in 1 .. i - 1 : ~isbadsem((nextsem + j) % NSEM)

\* The slot is taken before the count is looked at: semcreate of a negative
\* count returns SYSERR and keeps it.
semcreate(s, count) ==
  /\ Calls("semcreate") /\ semalloc(s)
  /\ nextsem' = s
  /\ sstate' = [sstate EXCEPT ![s] = "SUSED"]
  /\ scount' = IF count >= 0 THEN [scount EXCEPT ![s] = count] ELSE scount
  /\ UNCHANGED <<sem, semq, ready_vars, sleep_vars, entry_vars, table_vars,
                 msg, cont, kloop>>

semfree(s) ==
  /\ Calls("semfree") /\ ~isbadsem(s)
  /\ kloop' = [op |-> "semfree", sem |-> s, n |-> 0]
  /\ UNCHANGED <<ready_vars, sleep_vars, sem_vars, entry_vars, table_vars,
                 msg, cont>>

\* The loop of semfree(), which does not reschedule.
semfree_loop ==
  LET s == kloop.sem
  IN  /\ ~halted /\ kloop.op = "semfree"
      /\ IF semq[s] # <<>>
         THEN /\ semq' = [semq EXCEPT ![s] = Tail(@)]
              /\ Becomes(ready(Now, Head(semq[s])))
              /\ UNCHANGED <<scount, sstate, kloop>>
         ELSE /\ scount' = [scount EXCEPT ![s] = 0]
              /\ sstate' = [sstate EXCEPT ![s] = "SFREE"]
              /\ kloop' = NoLoop
              /\ UNCHANGED <<semq, state, key, readylist>>
      /\ UNCHANGED <<thrcurrent, sem, nextsem, sleep_vars, entry_vars,
                     table_vars, msg, cont>>

-----------------------------------------------------------------------------
(***************************************************************************)
(* Messages.                                                               *)
(***************************************************************************)

\* send() refuses a second message.
refuses_bad(t) == isbadtid(t)
refuses(t) == isbadtid(t) \/ msg[t] # NOMSG

\* The body of send(), which kill() calls too.
send(t, m) ==
  IF refuses(t)
  THEN UNCHANGED <<msg, ready_vars, sleep_vars>>
  ELSE /\ msg' = [msg EXCEPT ![t] = m]
       /\ \/ /\ state[t] = THRRECV
             /\ resched(ready(Now, t))
             /\ UNCHANGED sleep_vars
          \/ /\ state[t] = THRTMOUT
             /\ resched(ready(Sched(state, unsleep_key(sleepq, key, t),
                                    readylist), t))
             /\ sleepq' = getitem(sleepq, t)
             /\ due' = [due EXCEPT ![t] = 0]
          \/ /\ state[t] \notin {THRRECV, THRTMOUT}
             /\ UNCHANGED <<ready_vars, sleep_vars>>

Send(t, m) ==
  /\ Calls("send")
  /\ send(t, m)
  /\ UNCHANGED <<sem_vars, entry_vars, table_vars, cont, kloop>>

\* Fetch the message of the current thread.
TakeMsg == msg' = [msg EXCEPT ![thrcurrent] = NOMSG]

receive_blindly ==
  /\ Calls("receive")
  /\ Block(THRRECV)
  /\ cont' = [cont EXCEPT ![thrcurrent] = Rest("receive", NULLTHREAD)]
  /\ UNCHANGED <<msg, sleep_vars, sem_vars, entry_vars, table_vars, kloop>>

receive ==
  /\ Calls("receive")
  /\ IF msg[thrcurrent] # NOMSG
     THEN TakeMsg /\ UNCHANGED <<ready_vars, cont>>
     ELSE /\ Block(THRRECV)
          /\ cont' = [cont EXCEPT ![thrcurrent] = Rest("receive", NULLTHREAD)]
          /\ UNCHANGED msg
  /\ UNCHANGED <<sleep_vars, sem_vars, entry_vars, table_vars, kloop>>

recvclr ==
  /\ Calls("recvclr")
  /\ TakeMsg
  /\ UNCHANGED <<ready_vars, sleep_vars, sem_vars, entry_vars, table_vars,
                 cont, kloop>>

\* A thread that is itself the target of a kill in progress.
Dying(t) == \E u \in Tid : cont[u].op = "kill" /\ cont[u].tid = t
MaySleep == KillSleepers \/ ~Dying(thrcurrent)

\* Put the current thread on the sleep queue for d ticks and give up the
\* processor in state s.
BlockFor(d, s) ==
  /\ MaySleep
  /\ sleepq' = insertd_queue(sleepq, key, thrcurrent, d)
  /\ due' = [due EXCEPT ![thrcurrent] = d]
  /\ resched(Sched([state EXCEPT ![thrcurrent] = s],
                   insertd_key(sleepq, key, thrcurrent, d), readylist))

recvtime(d) ==
  /\ Calls("recvtime")
  /\ IF msg[thrcurrent] # NOMSG
     THEN TakeMsg /\ UNCHANGED <<ready_vars, sleep_vars, cont>>
     ELSE /\ BlockFor(d, THRTMOUT)
          /\ cont' = [cont EXCEPT ![thrcurrent] = Rest("recvtime", NULLTHREAD)]
          /\ UNCHANGED msg
  /\ UNCHANGED <<sem_vars, entry_vars, table_vars, kloop>>

\* receive() and recvtime() go on behind their resched(): both clear hasmsg.
receive_return ==
  /\ ~halted /\ kloop = NoLoop
  /\ cont[thrcurrent].op \in {"receive", "recvtime"}
  /\ TakeMsg
  /\ cont' = [cont EXCEPT ![thrcurrent] = User]
  /\ UNCHANGED <<ready_vars, sleep_vars, sem_vars, entry_vars, table_vars,
                 kloop>>

-----------------------------------------------------------------------------
(***************************************************************************)
(* Time, and the calls that change a thread's claim to the processor.      *)
(***************************************************************************)

yield ==
  /\ Calls("yield")
  /\ resched(Now)
  /\ UNCHANGED <<sleep_vars, sem_vars, entry_vars, table_vars, msg, cont, kloop>>

\* sleep() counts in whole ticks, computed in unsigned arithmetic; of less than
\* one tick it only reschedules.
ticks(ms) == ((ms * CLKTICKS_PER_SEC) % UINT) \div 1000

sleep(ms) ==
  /\ Calls("sleep")
  /\ IF ticks(ms) > 0 THEN BlockFor(ticks(ms), THRSLEEP)
                      ELSE resched(Now) /\ UNCHANGED sleep_vars
  /\ UNCHANGED <<sem_vars, entry_vars, table_vars, msg, cont, kloop>>

\* clkhandler() counts down the key of the first sleeper.
Ticked_not == key
Ticked == [key EXCEPT ![Head(sleepq)] = @ - 1]

\* clkhandler(): one tick.  wakeup() and the closing resched() are wakeup_loop.
clkhandler ==
  /\ UserMode
  /\ due' = [t \in Tid |->
              IF state[t] \in {THRSLEEP, THRTMOUT} /\ due[t] >= 0
              THEN due[t] - 1 ELSE due[t]]
  /\ IF sleepq = <<>>
     THEN resched(Now) /\ UNCHANGED kloop
     ELSE IF Ticked[Head(sleepq)] <= 0
     THEN /\ key' = Ticked
          /\ kloop' = [NoLoop EXCEPT !.op = "wakeup"]
          /\ UNCHANGED <<state, readylist, thrcurrent>>
     ELSE resched(Sched(state, Ticked, readylist)) /\ UNCHANGED kloop
  /\ UNCHANGED <<sleepq, sem_vars, entry_vars, table_vars, msg, cont>>

\* The loop of wakeup(), and the resched() of clkhandler() behind it.
wakeup_loop ==
  /\ ~halted /\ kloop.op = "wakeup"
  /\ IF sleepq # <<>> /\ key[Head(sleepq)] <= 0
     THEN /\ sleepq' = Tail(sleepq)
          /\ Becomes(ready(Now, Head(sleepq)))
          /\ due' = [due EXCEPT ![Head(sleepq)] = 0]
          /\ UNCHANGED <<kloop, thrcurrent>>
     ELSE /\ resched(Now)
          /\ kloop' = NoLoop
          /\ UNCHANGED sleep_vars
  /\ UNCHANGED <<sem_vars, entry_vars, table_vars, msg, cont>>

\* Two ways to get suspend() wrong: the null thread is not exempted, or the
\* thread stays on the ready list.
suspend_any(t) ==
  /\ Calls("suspend")
  /\ state[t] = THRREADY
  /\ state' = [state EXCEPT ![t] = THRSUSP]
  /\ readylist' = getitem(readylist, t)
  /\ UNCHANGED <<key, thrcurrent, sleep_vars, sem_vars, entry_vars, table_vars,
                 msg, cont, kloop>>
suspend_queued(t) ==
  /\ Calls("suspend") /\ t # NULLTHREAD
  /\ state[t] = THRREADY
  /\ state' = [state EXCEPT ![t] = THRSUSP]
  /\ UNCHANGED <<key, readylist, thrcurrent, sleep_vars, sem_vars, entry_vars,
                 table_vars, msg, cont, kloop>>

suspend(t) ==
  /\ Calls("suspend") /\ t # NULLTHREAD
  /\ \/ /\ state[t] = THRREADY
        /\ state' = [state EXCEPT ![t] = THRSUSP]
        /\ readylist' = getitem(readylist, t)
        /\ UNCHANGED <<key, thrcurrent>>
     \/ /\ state[t] = THRCURR
        /\ Block(THRSUSP)
  /\ UNCHANGED <<sleep_vars, sem_vars, entry_vars, table_vars, msg, cont, kloop>>

resume(t) ==
  /\ Calls("resume")
  /\ state[t] = THRSUSP
  /\ resched(ready(Now, t))
  /\ UNCHANGED <<sleep_vars, sem_vars, entry_vars, table_vars, msg, cont, kloop>>

\* A client starts a suspended thread with ready(t, RESCHED_NO).
start(t) ==
  /\ Calls("ready")
  /\ state[t] = THRSUSP
  /\ Becomes(ready(Now, t))
  /\ UNCHANGED <<thrcurrent, sleep_vars, sem_vars, entry_vars, table_vars,
                 msg, cont, kloop>>

\* chprio() leaves the thread where it is on the ready list.
chprio(t, newprio) ==
  /\ Calls("chprio") /\ ~isbadtid(t)
  /\ prio' = [prio EXCEPT ![t] = newprio]
  /\ UNCHANGED <<parent, stk, ready_vars, sleep_vars, sem_vars, table_vars,
                 msg, cont, kloop>>

-----------------------------------------------------------------------------
(***************************************************************************)
(* Creation and termination.                                               *)
(***************************************************************************)

\* stkget() takes the block at the highest address, SYSERR if there is none.
stkget_kept(b) ==
  /\ IF freestk = {} THEN b = SYSERR
                     ELSE b \in freestk /\ \A d \in freestk : d <= b
  /\ UNCHANGED freestk
stkget(b) ==
  /\ IF freestk = {} THEN b = SYSERR
                     ELSE b \in freestk /\ \A d \in freestk : d <= b
  /\ freestk' = freestk \ {b}

\* thrnew() takes the first free slot behind nexttid, SYSERR if none is free.
thrnew(t) ==
  IF \A x \in Tid : state[x] # THRFREE
  THEN t = SYSERR
  ELSE \E i \in 1 .. NTHREAD :
         /\ t = (nexttid + i) % NTHREAD
         /\ state[t] = THRFREE
         /\ \A j \in 1 .. i - 1 : state[(nexttid + j) % NTHREAD] # THRFREE

\* create() fills in the entry of the new thread t.
enter(t, b, p) ==
  /\ thrcount' = thrcount + 1
  /\ state' = [state EXCEPT ![t] = THRSUSP]
  /\ prio' = [prio EXCEPT ![t] = p]
  /\ parent' = [parent EXCEPT ![t] = thrcurrent]
  /\ stk' = [stk EXCEPT ![t] = b]
  /\ msg' = [msg EXCEPT ![t] = NOMSG]

\* create(): the stack is taken before the slot and is not given back when
\* there is no slot; the rotor advances even when there is no stack.
create(p) ==
  /\ Calls("create")
  /\ \E b \in Stack \cup {SYSERR}, t \in Tid \cup {SYSERR} :
       /\ stkget(b) /\ thrnew(t)
       /\ nexttid' = IF t = SYSERR THEN nexttid ELSE t
       /\ IF b = SYSERR \/ t = SYSERR
          THEN UNCHANGED <<thrcount, state, entry_vars, msg>>
          ELSE enter(t, b, p)
  /\ UNCHANGED <<key, readylist, thrcurrent, halted, sleep_vars, sem_vars,
                 cont, kloop>>

\* What the clients of kill() refrain from.  A thread that is killed in the
\* middle of its own kill() leaves the target alive but no longer counted.
MayKill(t) ==
  /\ KillSleepers \/ state[t] \notin {THRSLEEP, THRTMOUT}
  /\ KillOverlap \/ (~Dying(t) /\ cont[t].op # "kill" /\ ~Dying(thrcurrent))

\* kill() up to and including send() to the parent, which may reschedule.
kill(t) ==
  /\ Calls("kill") /\ t # NULLTHREAD /\ ~isbadtid(t) /\ MayKill(t)
  /\ thrcount' = thrcount - 1
  /\ IF thrcount - 1 <= 1
     THEN /\ halted' = TRUE
          /\ UNCHANGED <<msg, ready_vars, sleep_vars, cont>>
     ELSE /\ send(parent[t], t)
          /\ cont' = [cont EXCEPT ![thrcurrent] = Rest("kill", t)]
          /\ UNCHANGED halted
  /\ UNCHANGED <<nexttid, freestk, sem_vars, entry_vars, kloop>>

\* The target of a kill stops waiting for its semaphore.
unwait_uncounted(t) ==
  /\ semq' = [semq EXCEPT ![sem[t]] = getitem(@, t)]
  /\ UNCHANGED scount
unwait(t) ==
  /\ scount' = [scount EXCEPT ![sem[t]] = @ + 1]
  /\ semq' = [semq EXCEPT ![sem[t]] = getitem(@, t)]

\* kill() behind send(): free the stack, then act on the state the target has
\* by now.  unsleep() rejects a target already marked THRFREE.
kill_return ==
  LET t == cont[thrcurrent].tid
      freed == Sched([state EXCEPT ![t] = THRFREE], key, readylist)
  IN  /\ ~halted /\ kloop = NoLoop /\ cont[thrcurrent].op = "kill"
      /\ freestk' = freestk \cup {stk[t]}
      /\ cont' = [cont EXCEPT ![thrcurrent] = User, ![t] = User]
      /\ \/ /\ state[t] = THRCURR
            /\ resched(freed)
            /\ UNCHANGED <<scount, semq>>
         \/ /\ state[t] = THRWAIT
            /\ unwait(t)
            /\ Becomes(freed) /\ UNCHANGED thrcurrent
         \/ /\ state[t] = THRREADY
            /\ Becomes(Sched(freed.state, key, getitem(readylist, t)))
            /\ UNCHANGED <<scount, semq, thrcurrent>>
         \/ /\ state[t] \notin {THRCURR, THRWAIT, THRREADY}
            /\ Becomes(freed)
            /\ UNCHANGED <<scount, semq, thrcurrent>>
      /\ UNCHANGED <<sem, sstate, nextsem, sleep_vars, entry_vars, msg,
                     thrcount, nexttid, halted, kloop>>

\* xdone() has called halt(): nothing happens any more.
Halt == halted /\ UNCHANGED vars

-----------------------------------------------------------------------------

\* nulluser(): the null thread has created main and made it ready.
Init ==
  /\ state = [t \in Tid |-> CASE t = NULLTHREAD -> THRCURR
                              [] t = 1 -> THRREADY
                              [] OTHER -> THRFREE]
  /\ \E p \in Prio :
       /\ prio = [t \in Tid |-> IF t = 1 THEN p ELSE 0]
       /\ key = [t \in Tid |-> IF t = 1 THEN p ELSE 0]
  /\ sem = [t \in Tid |-> 0]
  /\ msg = [t \in Tid |-> NOMSG]
  /\ parent = [t \in Tid |-> NULLTHREAD]
  /\ stk = [t \in Tid |-> IF t = 1 THEN NSTK ELSE NOSTK]
  /\ readylist = <<1>> /\ sleepq = <<>>
  /\ semq = [s \in Sem |-> <<>>]
  /\ scount = [s \in Sem |-> 0]
  /\ sstate = [s \in Sem |-> "SFREE"]
  /\ nextsem = 0
  /\ thrcurrent = NULLTHREAD /\ thrcount = 2 /\ nexttid = 1
  /\ freestk = Stack \ {NSTK} /\ halted = FALSE
  /\ cont = [t \in Tid |-> User] /\ kloop = NoLoop
  /\ due = [t \in Tid |-> 0]

SemCall ==
  \E s \in Sem :
    \/ wait(s) \/ signal(s) \/ semfree(s)
    \/ \E n \in 1 .. MaxSignal : signaln(s, n)
    \/ \E n \in InitCounts : semcreate(s, n)

MsgCall ==
  \/ receive \/ recvclr
  \/ \E d \in Delays : recvtime(d)
  \/ \E t \in Tid, m \in UserMsgs : Send(t, m)

ThreadCall ==
  \/ yield
  \/ \E ms \in Millis : sleep(ms)
  \/ \E t \in Tid : suspend(t) \/ resume(t) \/ start(t) \/ kill(t)
  \/ \E t \in Tid, p \in Prio : chprio(t, p)
  \/ \E p \in Prio : create(p)

\* What the kernel does of itself once it is entered.
KernelStep ==
  \/ signaln_loop \/ semfree_loop \/ wakeup_loop
  \/ receive_return \/ kill_return

Next == SemCall \/ MsgCall \/ ThreadCall \/ KernelStep \/ clkhandler \/ Halt

\* The processor executes kernel code to its end, and a pending clock
\* interrupt is taken when interrupts are enabled again.
Fairness == WF_vars(KernelStep) /\ SF_vars(clkhandler)

Spec == Init /\ [][Next]_vars
FairSpec == Spec /\ Fairness

-----------------------------------------------------------------------------
(***************************************************************************)
(* Properties.                                                             *)
(***************************************************************************)

Live == {t \in Tid : state[t] # THRFREE}

\* Types of the kernel's tables; in particular resched() always finds a
\* thread to run.  (Keys are typed by ReadySorted and SleepOnTime.)
TypeOK ==
  /\ state \in [Tid -> ThreadState]
  /\ prio \in [Tid -> Int]
  /\ sem \in [Tid -> Nat]
  /\ msg \in [Tid -> Nat \cup {NOMSG}]
  /\ parent \in [Tid -> Tid]
  /\ stk \in [Tid -> Stack \cup {NOSTK}]
  /\ DOMAIN key = Tid
  /\ readylist \in Seq(Tid) /\ sleepq \in Seq(Tid)
  /\ semq \in [Sem -> Seq(Tid)]
  /\ scount \in [Sem -> Int]
  /\ sstate \in [Sem -> {"SFREE", "SUSED"}]
  /\ nextsem \in Nat /\ nexttid \in Tid
  /\ thrcurrent \in Tid /\ thrcount \in Int
  /\ freestk \subseteq Stack /\ halted \in BOOLEAN
  /\ cont \in [Tid -> Cont]
  /\ kloop \in Loop /\ (kloop.op \in {"signaln", "semfree"} => kloop.sem \in Sem)
  /\ due \in [Tid -> Int]

\* A thread is on at most one queue, at most once, and on the queue that its
\* state says: the discipline that queue.h asks of wait, signal, semfree,
\* sleep, recvtime, send, wakeup, suspend, resume, kill and resched together.
QueueDiscipline ==
  /\ NoDuplicates(readylist) /\ NoDuplicates(sleepq)
  /\ \A s \in Sem : NoDuplicates(semq[s])
  /\ \A t \in Tid :
       /\ Contains(readylist, t) <=> state[t] = THRREADY
       /\ Contains(sleepq, t) <=> state[t] \in {THRSLEEP, THRTMOUT}
       /\ \A s \in Sem :
            Contains(semq[s], t) <=> state[t] = THRWAIT /\ sem[t] = s

\* Exactly the thread thrcurrent is THRCURR, and the null thread never leaves
\* THRCURR and THRREADY, so that resched() never dequeues from an empty list.
OneRunning ==
  /\ \A t \in Tid : state[t] = THRCURR <=> t = thrcurrent
  /\ state[NULLTHREAD] \in {THRCURR, THRREADY}

\* A negative count is the number of waiting threads, a nonnegative one means
\* nobody waits; wait, signal, signaln, semfree and kill of a waiting thread
\* keep count and queue in step.  Only the loop of semfree() is in between.
SemCountIsQueue ==
  \A s \in Sem :
    \/ kloop.op = "semfree" /\ kloop.sem = s
    \/ /\ Len(semq[s]) = IF scount[s] < 0 THEN -scount[s] ELSE 0
       /\ isbadsem(s) => scount[s] = 0

\* No lost wakeup and no empty receive: a thread blocked in receive() or
\* recvtime() has no message pending, and one that comes back from the
\* blocking part of receive() has one, whatever suspend, resume and kill
\* did in between.
MessageWakesReceiver ==
  \A t \in Tid :
    /\ state[t] \in {THRRECV, THRTMOUT} => msg[t] = NOMSG
    /\ state[t] = THRRECV => cont[t].op = "receive"
    /\ state[t] = THRTMOUT => cont[t].op = "recvtime"
    /\ cont[t].op = "receive" /\ state[t] \notin {THRRECV, THRFREE}
         => msg[t] # NOMSG

\* A pending message is only ever fetched or discarded with its thread, never
\* replaced by another one.
MessageKept ==
  [][\A t \in Tid : msg[t] # NOMSG => msg'[t] \in {msg[t], NOMSG}]_msg

\* The ready list is in descending order of key, equal keys in order of
\* arrival being insert()'s business.
ReadySorted ==
  /\ \A t \in Tid : state[t] = THRREADY => key[t] \in Int
  /\ \A i, j \in 1 .. Len(readylist) :
       i < j => key[readylist[i]] >= key[readylist[j]]

\* Whenever the processor changes hands, it goes to a thread that no ready
\* thread outranks ("Reschedule processor to highest priority ready thread").
HighestPriorityRuns ==
  [][thrcurrent' # thrcurrent =>
       \A t \in Tid : state'[t] = THRREADY
                        => prio'[t] <= prio'[thrcurrent']]_vars

\* The delta keys ahead of a sleeper, its own included, add up to the ticks
\* it still has to wait, and outside the kernel every sleeper has some left:
\* no insertion, early removal or expiry of another thread moves a wakeup.
SleepOnTime ==
  /\ \A i \in 1 .. Len(sleepq) : Delta(sleepq, key, i) = due[sleepq[i]]
  /\ kloop.op # "wakeup" => \A i \in 1 .. Len(sleepq) : due[sleepq[i]] > 0

\* The threads in use, those whose kill() has begun left out.
Counted == {t \in Live : ~Dying(t)}

\* thrcount is the number of threads that create() made and nobody has begun to
\* kill, and halt() is reached only when it is down to the null thread; the stack
\* of a thread in use is allocated and nobody else's.  create() may fail half
\* way, and a kill() is interrupted by the send() to the parent.
ThreadsAccounted ==
  /\ thrcount = Cardinality(Counted) - (IF halted THEN 1 ELSE 0)
  /\ halted => Cardinality(Counted) <= 2
  /\ \A t \in Live \ {NULLTHREAD} :
       /\ stk[t] \in Stack \ freestk
       /\ \A u \in Live \ {t} : stk[u] # stk[t]

\* queue.h: "A thread can be in at most one queue at a time".
OneQueue ==
  /\ NoDuplicates(readylist) /\ NoDuplicates(sleepq)
  /\ \A t \in Tid :
       /\ ~(Contains(readylist, t) /\ Contains(sleepq, t))
       /\ \A s \in Sem : Contains(semq[s], t)
            => ~Contains(readylist, t) /\ ~Contains(sleepq, t)

\* Every thread put to sleep, or receiving with a timeout, is eventually
\* taken off the sleep queue.
SleepersWake ==
  \A t \in Tid :
    state[t] \in {THRSLEEP, THRTMOUT}
      ~> (state[t] \notin {THRSLEEP, THRTMOUT} \/ halted)

\* Among user threads of equal priority a ready thread gets the processor
\* (or is taken off the ready list) whatever the others do.
RoundRobin ==
  \A t \in Tid \ {NULLTHREAD} :
    state[t] = THRREADY ~> (state[t] # THRREADY \/ halted)

=============================================================================
