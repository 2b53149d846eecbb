------------------------------ MODULE MCKernel ------------------------------
(***************************************************************************)
(* Instances of Kernel for TLC.  Each run lets clients make one group of   *)
(* system calls, so that the interplay of three user threads stays within  *)
(* reach; AllCalls is the whole interface, with two user threads.          *)
(***************************************************************************)
EXTENDS KernelSemaphores

Counts == {-1, 0, 1}

StartCalls == {"create", "resume"}
SemCalls == StartCalls \cup
  {"wait", "signal", "signaln", "semcreate", "semfree", "kill"}
MsgCalls == StartCalls \cup {"send", "receive", "kill"}
SleepCalls == StartCalls \cup {"sleep", "send", "recvtime"}
KillSleepCalls == StartCalls \cup {"sleep", "kill"}
AllCalls == SemCalls \cup MsgCalls \cup SleepCalls
              \cup {"recvclr", "yield", "suspend", "ready", "chprio"}

=============================================================================
