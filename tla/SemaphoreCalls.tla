--------------------------- MODULE SemaphoreCalls ---------------------------
(***************************************************************************)
(* The semaphore calls as threads above the kernel see them: steps of the  *)
(* specification Semaphores, which Kernel implements.  A thread that waits *)
(* takes no step until it is released; a call on a semaphore that is not   *)
(* in use returns SYSERR and changes nothing.                              *)
(***************************************************************************)
EXTENDS Integers, Sequences, FiniteSets

CONSTANTS Sem, Thread,
  BADSEM    \* SYSERR as a semaphore
VARIABLES live, value, waiting

semvars == <<live, value, waiting>>

S == INSTANCE Semaphores

isbadsem(s) == s \notin Sem \/ ~live[s]

Waits(t, s) == \E i \in 1 .. Len(waiting[s]) : waiting[s][i] = t

Blocked(t) == \E s \in Sem : Waits(t, s)

wait(t, s) == IF isbadsem(s) THEN UNCHANGED semvars ELSE S!P(s, t)

signal(s) == IF isbadsem(s) THEN UNCHANGED semvars ELSE S!V(s)

\* n signals at once.
signaln(s, n) ==
  IF isbadsem(s) \/ n <= 0 THEN UNCHANGED semvars
  ELSE LET w == waiting[s]
           k == IF n < Len(w) THEN n ELSE Len(w)
       IN /\ waiting' = [waiting EXCEPT ![s] = SubSeq(w, k + 1, Len(w))]
          /\ value' = [value EXCEPT ![s] = @ + n - k]
          /\ UNCHANGED live

\* s is the new semaphore, BADSEM when all are in use.
semcreate(s, count) ==
  IF s = BADSEM THEN (\A u \in Sem : live[u]) /\ UNCHANGED semvars
  ELSE /\ ~live[s]
       /\ live' = [live EXCEPT ![s] = TRUE]
       /\ value' = [value EXCEPT ![s] = count]
       /\ UNCHANGED waiting

semfree(s) == IF isbadsem(s) THEN UNCHANGED semvars ELSE S!Free(s)

\* A thread is killed while it waits.
KillWaiting(t) ==
  \E s \in Sem : \E i \in 1 .. Len(waiting[s]) :
     waiting[s][i] = t /\ S!Cancel(s, i)

=============================================================================
