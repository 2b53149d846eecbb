------------------------------ MODULE Channels ------------------------------
(***************************************************************************)
(* What mailboxes promise: each is a bounded first-in first-out channel.   *)
(***************************************************************************)
EXTENDS Naturals, Sequences

CONSTANTS Box, Msg
VARIABLES capacity, queue     \* capacity[b] = 0: b is not open

vars == <<capacity, queue>>

Init ==
  /\ capacity = [b \in Box |-> 0]
  /\ queue = [b \in Box |-> <<>>]

Open(b) ==
  /\ capacity[b] = 0
  /\ capacity'[b] \in Nat \ {0}
  /\ capacity' = [capacity EXCEPT ![b] = capacity'[b]]
  /\ UNCHANGED queue

Close(b) ==
  /\ capacity[b] # 0
  /\ capacity' = [capacity EXCEPT ![b] = 0]
  /\ queue' = [queue EXCEPT ![b] = <<>>]

Put(b, m) ==
  /\ Len(queue[b]) < capacity[b]
  /\ queue' = [queue EXCEPT ![b] = Append(@, m)]
  /\ UNCHANGED capacity

Take(b) ==
  /\ queue[b] # <<>>
  /\ queue' = [queue EXCEPT ![b] = Tail(@)]
  /\ UNCHANGED capacity

Next ==
  \E b \in Box : Open(b) \/ Close(b) \/ Take(b) \/ \E m \in Msg : Put(b, m)

Spec == Init /\ [][Next]_vars

=============================================================================
