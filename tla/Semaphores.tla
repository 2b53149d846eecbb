----------------------------- MODULE Semaphores -----------------------------
(***************************************************************************)
(* What counting semaphores promise their clients: a value that is never   *)
(* negative, and threads that wait in order of arrival only while the      *)
(* value is zero.                                                          *)
(***************************************************************************)
EXTENDS Integers, Sequences

CONSTANTS Sem, Thread
VARIABLES live, value, waiting

vars == <<live, value, waiting>>

Init ==
  /\ live = [s \in Sem |-> FALSE]
  /\ value = [s \in Sem |-> 0]
  /\ waiting = [s \in Sem |-> <<>>]

Create(s) ==
  /\ ~live[s]
  /\ live' = [live EXCEPT ![s] = TRUE]
  /\ value'[s] \in Nat /\ value' = [value EXCEPT ![s] = value'[s]]
  /\ UNCHANGED waiting

\* Take one unit, or join the queue when there is none.
P(s, t) ==
  /\ live[s]
  /\ IF value[s] > 0
     THEN value' = [value EXCEPT ![s] = @ - 1] /\ UNCHANGED waiting
     ELSE waiting' = [waiting EXCEPT ![s] = Append(@, t)] /\ UNCHANGED value
  /\ UNCHANGED live

\* Hand one unit to the thread that waits longest, or keep it.
V(s) ==
  /\ live[s]
  /\ IF waiting[s] # <<>>
     THEN waiting' = [waiting EXCEPT ![s] = Tail(@)] /\ UNCHANGED value
     ELSE value' = [value EXCEPT ![s] = @ + 1] /\ UNCHANGED waiting
  /\ UNCHANGED live

\* The i-th waiting thread goes away; the others keep their order.
Cancel(s, i) ==
  /\ live[s]
  /\ waiting' = [waiting EXCEPT ![s] =
       SubSeq(@, 1, i - 1) \o SubSeq(@, i + 1, Len(@))]
  /\ UNCHANGED <<live, value>>

\* Everybody is released at once.
Free(s) ==
  /\ live[s]
  /\ live' = [live EXCEPT ![s] = FALSE]
  /\ value' = [value EXCEPT ![s] = 0]
  /\ waiting' = [waiting EXCEPT ![s] = <<>>]

Next ==
  \E s \in Sem :
    \/ Create(s) \/ V(s) \/ Free(s)
    \/ \E t \in Thread : P(s, t)
    \/ \E i \in 1 .. Len(waiting[s]) : Cancel(s, i)

Spec == Init /\ [][Next]_vars

=============================================================================
