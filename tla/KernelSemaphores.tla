-------------------------- MODULE KernelSemaphores --------------------------
(***************************************************************************)
(* semtab, driven by the kernel's calls, implements Semaphores.  semfree() *)
(* takes effect when it is called: its loop runs with interrupts disabled, *)
(* so that nobody sees the queue half released.                            *)
(***************************************************************************)
EXTENDS Kernel

Freeing(s) == kloop.op = "semfree" /\ kloop.sem = s

live == [s \in Sem |-> ~isbadsem(s) /\ ~Freeing(s)]
value == [s \in Sem |-> IF scount[s] > 0 /\ ~Freeing(s) THEN scount[s] ELSE 0]
waiting == [s \in Sem |-> IF Freeing(s) THEN <<>> ELSE semq[s]]

Abstract == INSTANCE Semaphores WITH Thread <- Tid

\* wait, signal, signaln, semcreate, semfree and the kill of a waiting thread
\* make every slot of semtab behave as a counting semaphore that serves its
\* waiting threads first come first served, and no other call touches it.
ImplementsSemaphores == Abstract!Spec

=============================================================================
