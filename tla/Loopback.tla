------------------------------ MODULE Loopback ------------------------------
(***************************************************************************)
(* The loopback device (src/device/loopback): what is written to it can be *)
(* read back, through a ring whose fill is the count of its semaphore.     *)
(***************************************************************************)
EXTENDS SemaphoreCalls

CONSTANTS
  LOOP_BUFFER,
  Chars, NUL,
  MaxLen,         \* longest read or write
  MaxWritten,     \* bound on what is written and not read; nor do threads begin to
                  \* read or write once a character is in the wrong place
  SetNonblock     \* TRUE: LOOP_NONBLOCK is set and cleared

VARIABLES
  state, index, flags, sem, buffer,   \* struct loopback
  pc, todo, left, i,    \* per thread: next step, characters to write,
                        \* number to read, local variable i
  got,                  \* per thread: what getc() returned last
  log                   \* history: characters written and not yet read, the one
                        \* that is due to each reader, and whether one was put
                        \* where a reader had not got to yet

device == <<state, index, flags, sem, buffer>>
locals == <<pc, todo, left, i, got>>
vars == <<semvars, device, locals, log>>

Slot == 0 .. LOOP_BUFFER - 1

semcount(s) == IF isbadsem(s) THEN -1 ELSE value[s] - Len(waiting[s])

At(t, step) == pc[t] = step /\ ~Blocked(t)
Go(t, step) == pc' = [pc EXCEPT ![t] = step]

Init ==
  /\ live = [s \in Sem |-> FALSE] /\ value = [s \in Sem |-> 0]
  /\ waiting = [s \in Sem |-> <<>>]
  /\ state = "FREE" /\ index = 0 /\ flags = {} /\ sem = BADSEM
  /\ buffer = [n \in Slot |-> NUL]
  /\ pc = [t \in Thread |-> "idle"] /\ todo = [t \in Thread |-> <<>>]
  /\ left = [t \in Thread |-> 0] /\ i = [t \in Thread |-> 0]
  /\ got = [t \in Thread |-> NUL]
  /\ log = [written |-> <<>>, due |-> [t \in Thread |-> NUL], mixed |-> FALSE]

-----------------------------------------------------------------------------
(* loopbackOpen(), loopbackClose() and loopbackControl().  The device is   *)
(* closed when nobody uses it.                                             *)

loopbackOpen(t) ==
  /\ pc[t] = "idle" /\ state = "FREE"
  /\ state' = "ALLOC"
  /\ \E s \in Sem \cup {BADSEM} : semcreate(s, 0) /\ sem' = s
  /\ buffer' = [n \in Slot |-> NUL]
  /\ flags' = {}
  /\ UNCHANGED <<index, locals, log>>

loopbackClose(t) ==
  /\ state = "ALLOC" /\ \A u \in Thread : pc[u] = "idle"
  /\ semfree(sem)
  /\ state' = "FREE"
  /\ log' = [log EXCEPT !.written = <<>>, !.mixed = FALSE]
  /\ UNCHANGED <<index, flags, sem, buffer, locals>>

loopbackControl(t) ==
  /\ SetNonblock /\ pc[t] = "idle" /\ state = "ALLOC"
  /\ flags' \in {flags \cup {"LOOP_NONBLOCK"}, flags \ {"LOOP_NONBLOCK"}}
  /\ UNCHANGED <<semvars, state, index, sem, buffer, locals, log>>

-----------------------------------------------------------------------------
(* loopbackWrite(), one loopbackPutc() after the other.                    *)

loopbackWrite(t) ==
  /\ pc[t] = "idle" /\ state = "ALLOC"
  /\ Len(log.written) < MaxWritten /\ ~log.mixed
  /\ \E n \in 1 .. MaxLen : \E buf \in [1 .. n -> Chars] :
       todo' = [todo EXCEPT ![t] = buf]
  /\ Go(t, "put")
  /\ UNCHANGED <<semvars, device, left, i, got, log>>

\* Mutant: one character too many.
room_one_more == LOOP_BUFFER >= semcount(sem)

room == LOOP_BUFFER > semcount(sem)

\* The remainder of a negative number is negative in C.
PutIndex ==
  LET n == index + semcount(sem) IN IF n < 0 THEN n ELSE n % LOOP_BUFFER

\* A reader waits, or has not taken the index or the character that its wait() was
\* for: then the count of sem does not lead from index to the first free place.
Misplaced ==
  \E u \in Thread : pc[u] = "get_index" \/ (pc[u] = "get_read" /\ i[u] = PutIndex)

\* The byte in front of the buffer belongs to sem.
loopbackPutc(t) ==
  /\ At(t, "put") /\ room
  /\ \/ /\ PutIndex \in Slot
        /\ buffer' = [buffer EXCEPT ![PutIndex] = Head(todo[t])]
        /\ signal(sem)
        /\ UNCHANGED sem
     \/ /\ PutIndex \notin Slot
        /\ sem' = BADSEM
        /\ UNCHANGED <<buffer, semvars>>
  /\ todo' = [todo EXCEPT ![t] = Tail(@)]
  /\ Go(t, IF Len(todo[t]) = 1 THEN "idle" ELSE "put")
  /\ log' = [log EXCEPT !.written = Append(@, Head(todo[t])), !.mixed = @ \/ Misplaced]
  /\ UNCHANGED <<state, index, flags, left, i, got>>

\* No room: loopbackWrite() returns what it has written.
put_full(t) ==
  /\ At(t, "put") /\ ~room
  /\ todo' = [todo EXCEPT ![t] = <<>>]
  /\ Go(t, "idle")
  /\ UNCHANGED <<semvars, device, left, i, got, log>>

-----------------------------------------------------------------------------
(* loopbackRead(), one loopbackGetc() after the other.  Only the update of *)
(* index runs with interrupts disabled.                                    *)

loopbackRead(t) ==
  /\ pc[t] = "idle" /\ state = "ALLOC" /\ ~log.mixed
  /\ \E n \in 1 .. MaxLen : left' = [left EXCEPT ![t] = n]
  /\ Go(t, "get_wait")
  /\ UNCHANGED <<semvars, device, todo, i, got, log>>

get_wait(t) ==
  /\ At(t, "get_wait")
  /\ wait(t, sem)
  /\ Go(t, "get_index")
  /\ UNCHANGED <<device, todo, left, i, got, log>>

get_index(t) ==
  /\ At(t, "get_index")
  /\ i' = [i EXCEPT ![t] = index]
  /\ index' = (index + 1) % LOOP_BUFFER
  /\ Go(t, "get_read")
  /\ log' = IF log.written = <<>> THEN log
            ELSE [log EXCEPT !.written = Tail(@), !.due[t] = Head(log.written)]
  /\ UNCHANGED <<semvars, state, flags, sem, buffer, todo, left, got>>

get_read(t) ==
  /\ At(t, "get_read")
  /\ got' = [got EXCEPT ![t] = buffer[i[t]]]
  /\ left' = [left EXCEPT ![t] = @ - 1]
  /\ Go(t, IF left[t] = 1 THEN "idle" ELSE "get_wait")
  /\ i' = [i EXCEPT ![t] = 0] /\ log' = [log EXCEPT !.due[t] = NUL]
  /\ UNCHANGED <<semvars, device, todo>>

-----------------------------------------------------------------------------

Next ==
  \E t \in Thread :
    \/ loopbackOpen(t) \/ loopbackClose(t) \/ loopbackControl(t)
    \/ loopbackWrite(t) \/ loopbackPutc(t) \/ put_full(t)
    \/ loopbackRead(t) \/ get_wait(t) \/ get_index(t) \/ get_read(t)

Spec == Init /\ [][Next]_vars

-----------------------------------------------------------------------------

TypeOK ==
  /\ live \in [Sem -> BOOLEAN] /\ value \in [Sem -> Nat]
  /\ state \in {"FREE", "ALLOC"} /\ index \in Slot
  /\ flags \subseteq {"LOOP_NONBLOCK"} /\ sem \in Sem \cup {BADSEM}
  /\ buffer \in [Slot -> Chars \cup {NUL}]
  /\ pc \in [Thread -> {"idle", "put", "get_wait", "get_index", "get_read"}]
  /\ todo \in [Thread -> Seq(Chars)] /\ left \in [Thread -> 0 .. MaxLen]
  /\ i \in [Thread -> Slot] /\ got \in [Thread -> Chars \cup {NUL}]
  /\ log.written \in Seq(Chars) /\ log.mixed \in BOOLEAN

\* loopbackGetc() returns "character from buffer": readers, however many at a time,
\* get what was written, each character once and in the order of the calls.  The
\* exception is a character put while a reader waits for one or is inside
\* loopbackGetc(), which goes to the wrong place.
ReadInOrder ==
  \A t \in Thread : pc[t] = "get_read" /\ pc'[t] # "get_read" /\ ~log.mixed =>
    got'[t] = log.due[t]

\* Semaphore and ring agree on what is there to read, and never more than the
\* buffer holds, with the same exception.
FillCounted ==
  sem \in Sem /\ live[sem] /\ ~log.mixed =>
    /\ Len(log.written) = value[sem] + Cardinality({t \in Thread : At(t, "get_index")})
    /\ Len(log.written) <= LOOP_BUFFER

=============================================================================
