------------------------------- MODULE Queues -------------------------------
(***************************************************************************)
(* The thread queues of src/system as sequences of thread ids.  quetab     *)
(* keeps them as doubly linked lists with one key per thread; k is that    *)
(* key column.                                                             *)
(***************************************************************************)
EXTENDS Integers, FiniteSets, Sequences

EMPTY == -2     \* what dequeue() returns for an empty queue

\* These are the operators of the same names of SequencesExt, which would
\* bring its whole library into the context of every proof step.
Contains(q, t) == \E i \in 1 .. Len(q) : q[i] = t
InsertAt(q, n, t) ==
  [i \in 1 .. Len(q) + 1 |->
     IF i < n THEN q[i] ELSE IF i = n THEN t ELSE q[i - 1]]
RemoveAt(q, n) == [i \in 1 .. Len(q) - 1 |-> IF i < n THEN q[i] ELSE q[i + 1]]
Front(q) == RemoveAt(q, Len(q))

NoDuplicates(q) == \A i, j \in 1 .. Len(q) : i # j => q[i] # q[j]

\* The first of the places P of the queue, or the end of the queue.
FirstPlace(q, P) ==
  IF \E n \in P : \A i \in P : n <= i
  THEN CHOOSE n \in P : \A i \in P : n <= i
  ELSE Len(q) + 1

\* enqueue() in the place of insert().
insert_last(q, k, p, t) == Append(q, t)

\* insert(): in front of the first entry whose key is below p.
insert(q, k, p, t) ==
  InsertAt(q, FirstPlace(q, {i \in 1 .. Len(q) : k[q[i]] < p}), t)

\* getitem(): unlink t from the list it is on.
getitem(q, t) ==
  IF Contains(q, t)
  THEN RemoveAt(q, CHOOSE i \in 1 .. Len(q) : q[i] = t)
  ELSE q

\* f[1] + ... + f[n]
SumTo(f, n) ==
  LET sum[i \in 0 .. n] == IF i = 0 THEN 0 ELSE sum[i - 1] + f[i] IN sum[n]

\* Sum of the first n keys of a delta list.
Delta(q, k, n) == SumTo([i \in 1 .. n |-> k[q[i]]], n)

\* How many entries insertd() passes for a delay of d ticks.
Passed(q, k, d) == FirstPlace(q, {i \in 1 .. Len(q) : Delta(q, k, i) > d}) - 1

\* insertd(): the delta list with t in it, d ticks from now ...
insertd_queue(q, k, t, d) == InsertAt(q, Passed(q, k, d) + 1, t)

\* ... and the keys: t gets what is left of d behind the entries it passes,
\* the entry behind t is that much closer to it.
insertd_key_alone(q, k, t, d) ==
  [k EXCEPT ![t] = d - Delta(q, k, Passed(q, k, d))]
insertd_key(q, k, t, d) ==
  LET n == Passed(q, k, d)
      left == d - Delta(q, k, n)
  IN  IF n < Len(q)
      THEN [k EXCEPT ![q[n + 1]] = @ - left, ![t] = left]
      ELSE [k EXCEPT ![t] = left]

\* unsleep(): the entry behind t takes over the delay of t.
unsleep_key(q, k, t) ==
  LET i == CHOOSE i \in 1 .. Len(q) : q[i] = t
  IN  IF i < Len(q) THEN [k EXCEPT ![q[i + 1]] = @ + k[t]] ELSE k

=============================================================================
