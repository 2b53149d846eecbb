-------------------------------- MODULE Tty --------------------------------
(***************************************************************************)
(* The terminal driver, src/device/tty: a pseudo device over a serial line *)
(* that collects a line in a ring, lets the user edit it and hands it to   *)
(* ttyRead().  One thread reads; others set flags, open and close between  *)
(* any two characters.  text is the reference: what a line editor without  *)
(* ring and indexes would hold (line), until a key that ttyRead() handles  *)
(* differently sets it off.  The shell reads with shellRead(), a copy      *)
(* of ttyRead() in src/shell/shell.c that knows two more keys, for the     *)
(* history in src/apps/history.c.                                          *)
(*                                                                         *)
(* A character is a string: "BS" backspace or delete, "NL", "CR", "EOT"    *)
(* (0x04), "UP", "DOWN", "RIGHT" and "LEFT" the sequences ESC [ A, B, C    *)
(* and D; any other is printable, and unprintable ones are ignored.  What  *)
(* goes to the screen does not change the terminal and is left out.        *)
(***************************************************************************)
EXTENDS Integers, Sequences

CONSTANTS
  TTY_IBLEN,    \* places in the input ring
  Typed,        \* characters and sequences the hardware may deliver
  Lens,         \* lengths of the buffers given to ttyRead()
  IFlags,       \* input flags ttyControl() sets and clears
  Shell,        \* whether the reader is the shell
  HISTORY_LENGTH  \* commands the history keeps

VARIABLES
  tty,          \* ttytab[minor]
  pc, len, left,  \* the reader: where it is, what it still wants, its cursor; "wild"
                \* after it wrote outside of the ring
  text,         \* the reference editor: its line, whether it is off, and whether it was
                \* for some line of the shell (odd)
  history,      \* the shell's commands, the latest first
  historyIndex, \* how far back the line shown is; 0 is the line being typed
  saved         \* the line that was being typed

vars == <<tty, pc, len, left, text, history, historyIndex, saved>>
past == <<history, historyIndex, saved>>

Place == 0 .. TTY_IBLEN - 1
Special == {"BS", "NL", "CR", "EOT", "UP", "DOWN", "RIGHT", "LEFT"}
isprint(ch) == ch \notin Special
Stored == (Typed \ Special) \union {"NL", "CR"}

\* struct tty after bzero().
Cleared ==
  [phw |-> FALSE, ieof |-> FALSE, idelim |-> FALSE, icount |-> 0, istart |-> 0,
   in |-> [p \in Place |-> "NUL"], iflags |-> {}, oflags |-> {}]

\* The reference has line s, unless it is or goes off.
Blank == [text EXCEPT !.line = <<>>, !.off = FALSE]
Ref(s, off) ==
  IF text.off \/ off THEN [Blank EXCEPT !.off = TRUE, !.odd = Shell] ELSE [text EXCEPT !.line = s]

\* The cell k places after the first one of the line.
At(k) == (tty.istart + k) % TTY_IBLEN

Init ==
  /\ tty = Cleared /\ pc = "idle" /\ len = 0 /\ left = 0 /\ text = [line |-> <<>>, off |-> FALSE, odd |-> FALSE]
  /\ history = <<>> /\ historyIndex = 0 /\ saved = <<>>

-----------------------------------------------------------------------------
(***************************************************************************)
(* Opening, closing, flags                                                 *)
(***************************************************************************)

\* A second open is refused.
ttyOpen ==
  /\ ~tty.phw
  /\ tty' = [tty EXCEPT !.phw = TRUE, !.ieof = FALSE, !.idelim = FALSE, !.icount = 0,
                        !.istart = 0, !.iflags = {"ICRNL"}, !.oflags = {"ONLCR"}]
  /\ text' = Blank
  /\ UNCHANGED <<pc, len, left, past>>

\* Nobody closes a terminal another thread is reading from: the reader would go on,
\* with a cursor of the old line.
ttyClose ==
  /\ tty.phw /\ pc = "idle"
  /\ tty' = Cleared
  /\ text' = Blank
  /\ UNCHANGED <<pc, len, left, past>>

ttyControl(f) ==
  /\ tty.phw
  /\ \/ tty' = [tty EXCEPT !.iflags = @ \union {f}]
     \/ tty' = [tty EXCEPT !.iflags = @ \ {f}]
 
  /\ UNCHANGED <<pc, len, left, text, past>>

-----------------------------------------------------------------------------
(***************************************************************************)
(* Reading                                                                 *)
(***************************************************************************)

Least(a, b) == IF a < b THEN a ELSE b

\* The first n characters go from the ring to the caller; their cells keep them.
Line(n) == [k \in 1 .. n |-> tty.in[At(k - 1)]]
Drained(n) == [tty EXCEPT !.icount = @ - n, !.istart = (@ + n) % TTY_IBLEN]

\* With an empty ring the reference starts again.
DropText(n) ==
  text' = IF n = tty.icount THEN Blank
          ELSE Ref(SubSeq(text.line, n + 1, Len(text.line)), FALSE)

\* The call: EOF if it is due; in raw mode what the ring holds and then the rest
\* from the hardware; otherwise the loop that collects a line.  (The model follows
\* the shell up to the first line for which the reference goes off.)
ttyRead(n) ==
  /\ pc = "idle" /\ tty.phw /\ ~text.odd
  /\ left' = 0 /\ historyIndex' = 0 /\ saved' = <<>>
  /\ UNCHANGED history
  /\ IF tty.ieof THEN
       /\ tty' = [tty EXCEPT !.ieof = FALSE]
       /\ UNCHANGED <<pc, len, text>>
     ELSE IF "IRAW" \in tty.iflags THEN
       LET count == Least(tty.icount, n) IN
         /\ tty' = Drained(count) /\ DropText(count)
         /\ len' = n - count
         /\ pc' = IF n = count THEN "idle" ELSE "raw"
     ELSE
       /\ pc' = "cook" /\ len' = n
       /\ UNCHANGED <<tty, text>>

\* A character in raw mode goes straight to the caller.
raw_getc ==
  /\ pc = "raw"
  /\ len' = len - 1
  /\ pc' = IF len = 1 THEN "idle" ELSE "raw"
  /\ UNCHANGED <<tty, left, text, past>>

Collecting == pc = "cook" /\ tty.icount < TTY_IBLEN /\ ~tty.idelim

\* What the end of the loop does after a character: out of the loop when somebody
\* has set IRAW.
EndOfTurn == pc' = IF "IRAW" \in tty.iflags THEN "fill" ELSE "cook"

Again == pc' = "cook"

\* The reference: s with ch put in, or one character taken out, before the last n.
Inserted(s, n, ch) ==
  SubSeq(s, 1, Len(s) - n) \o <<ch>> \o SubSeq(s, Len(s) - n + 1, Len(s))
Erased(s, n) ==
  SubSeq(s, 1, Len(s) - n - 1) \o SubSeq(s, Len(s) - n + 1, Len(s))

\* Backspace: a step back at the end of the line; to the left of it the rest moves
\* down, with indexes that do not wrap: where the line wraps or reaches the end of
\* the array, or starts at its beginning with the cursor before it, cells outside
\* of the array are written.  With the cursor before the first character that
\* character is deleted.
backspace ==
  LET first == tty.istart + tty.icount - left - 1
      last == tty.istart + tty.icount
      wild == first < 0 \/ last >= TTY_IBLEN
      next(p) == IF p + 1 \in Place THEN tty.in[p + 1] ELSE "NUL"
  IN /\ Collecting /\ tty.icount >= 1
     /\ tty' = [tty EXCEPT !.icount = @ - 1, !.in = [p \in Place |->
                  IF left # 0 /\ p \in first .. last THEN next(p) ELSE @[p]]]
     /\ IF left = 0 THEN EndOfTurn
        ELSE IF wild THEN pc' = "wild" ELSE Again
     /\ text' = Ref(Erased(text.line, left), left # 0 /\ (wild \/ left >= tty.icount))
     /\ UNCHANGED <<len, left, past>>

\* With the cursor inside the line the delimiter replaces a character, and the line
\* ends with what the cell behind it holds.
newline ==
  LET ch == IF "INLCR" \in tty.iflags THEN "CR" ELSE "NL" IN
    /\ Collecting
    /\ tty' = [tty EXCEPT !.in[At(tty.icount - left)] = ch, !.icount = @ + 1,
                          !.idelim = TRUE]
    /\ text' = Ref(Append(text.line, ch), left # 0)
    /\ EndOfTurn
    /\ UNCHANGED <<len, left, past>>

\* With the cursor inside the line the delimiter goes to a cell behind it.  (left is
\* not used again: the loop ends.)
carriage_return ==
  LET ch == IF "ICRNL" \in tty.iflags THEN "NL" ELSE "CR" IN
    /\ Collecting /\ "IGNCR" \notin tty.iflags
    /\ tty' = [tty EXCEPT !.in[At(tty.icount + left)] = ch, !.icount = @ + 1,
                          !.idelim = TRUE]
    /\ text' = Ref(Append(text.line, ch), left # 0)
    /\ EndOfTurn
    /\ UNCHANGED <<len, left, past>>

end_of_file ==
  /\ Collecting
  /\ tty' = [tty EXCEPT !.ieof = TRUE, !.idelim = TRUE]
  /\ EndOfTurn
  /\ UNCHANGED <<len, left, text, past>>

\* (The bound on left matters only when the cursor is outside of the line.)
arrow(ch) ==
  /\ Collecting /\ left < TTY_IBLEN
  /\ left' = IF ch = "RIGHT" THEN (IF left > 0 THEN left - 1 ELSE left)
             ELSE IF left = tty.icount \/ tty.icount = 0 THEN left ELSE left + 1
  /\ Again
  /\ UNCHANGED <<tty, len, text, past>>

\* The cells from the last n characters on, n down to i of them and the cell behind
\* the line, moved up by one place, the last one first.
Moved(n, i) ==
  LET s[k \in i .. n + 1] ==
        IF k = n + 1 THEN tty.in
        ELSE [s[k + 1] EXCEPT ![At(tty.icount - n + k + 1)] = s[k + 1][At(tty.icount - n + k)]]
  IN s[i]

\* As it would be if the first of the characters stayed.
Shifted_low(n) == Moved(n, 1)

Shifted(n) == Moved(n, 0)

\* A printable character: at the end, or before the last left characters.  In a ring
\* with one free place the cell behind the line is followed by the first of the
\* line, which is overwritten.
put_char(ch) ==
  /\ Collecting /\ isprint(ch)
  /\ IF left # 0 THEN
       /\ tty' = [tty EXCEPT !.icount = @ + 1,
                             !.in = [Shifted(left) EXCEPT ![At(tty.icount - left)] = ch]]
       /\ Again
     ELSE
       /\ tty' = [tty EXCEPT !.in[At(tty.icount)] = ch, !.icount = @ + 1]
       /\ EndOfTurn
  /\ text' = Ref(Inserted(text.line, left, ch), left # 0 /\ tty.icount + 1 = TTY_IBLEN)
  /\ UNCHANGED <<len, left, past>>

cook(ch) ==
  CASE ch = "BS" -> backspace
    [] ch = "NL" -> newline
    [] ch = "CR" -> carriage_return
    [] ch = "EOT" -> end_of_file
    [] ch \in {"RIGHT", "LEFT"} -> arrow(ch)
    [] OTHER -> put_char(ch)

\* The end of the call: what fits goes to the caller, an empty ring has no
\* delimiter any more, and EOF is returned when there was nothing else.
Filled ==
  LET count == Least(tty.icount, len)
      t == Drained(count)
  IN /\ tty' = [t EXCEPT !.idelim = @ /\ t.icount # 0, !.ieof = @ /\ count # 0]
     /\ DropText(count)
     /\ len' = 0 /\ left' = 0

Complete == pc = "fill" \/ (pc = "cook" /\ ~Collecting)

fill == ~Shell /\ Complete /\ Filled /\ pc' = "idle" /\ UNCHANGED past

-----------------------------------------------------------------------------
(***************************************************************************)
(* The shell's copy: history                                               *)
(***************************************************************************)

\* The line s replaces what is in the ring; left stays as it is.  (A line longer
\* than SHELL_BUFLEN does not fit savedBuffer: the user of this model does not save
\* one.)
Recall(s) ==
  /\ tty' = [tty EXCEPT !.icount = Len(s),
       !.in = [p \in Place |-> LET k == (p + TTY_IBLEN - tty.istart) % TTY_IBLEN
                               IN IF k < Len(s) THEN s[k + 1] ELSE @[p]]]
  /\ text' = Ref(s, left > Len(s))

\* The key up: one command further back, and the first time the line is saved.
history_up ==
  /\ Collecting
  /\ saved' = IF historyIndex = 0
              THEN Line(tty.icount) ELSE saved
  /\ IF historyIndex < Len(history)
     THEN historyIndex' = historyIndex + 1 /\ Recall(history[historyIndex + 1])
     ELSE UNCHANGED <<tty, text, historyIndex>>
  /\ Again
  /\ UNCHANGED <<len, left, history>>

\* The key down: one command forward, and in the end the saved line.
history_down ==
  /\ Collecting /\ historyIndex > 0
  /\ historyIndex' = historyIndex - 1
  /\ Recall(IF historyIndex = 1 THEN saved ELSE history[historyIndex - 1])
  /\ Again
  /\ UNCHANGED <<len, left, history, saved>>

\* A character as shellRead() handles it.
shell_cook(ch) ==
  CASE ch = "UP" -> history_up
    [] ch = "DOWN" -> history_down
    [] OTHER -> cook(ch)

shiftHistoryItems(s) == SubSeq(s, 1, Least(Len(s), HISTORY_LENGTH - 1))

\* The last of the n characters of a command, its newline, is not kept.
addHistoryItem(line, n) ==
  history' = <<SubSeq(line, 1, n - 1)>> \o shiftHistoryItems(history)

\* shellRead() returns and the shell notes the command, unless it recalls one by
\* number; with EOF the shell ends, and what it notes then nobody recalls.
shell_fill ==
  LET count == Least(tty.icount, len) IN
    /\ Shell /\ Complete /\ Filled
    /\ pc' = IF count = 0 /\ tty.ieof THEN "closed" ELSE "idle"
    /\ IF count > 0 /\ tty.in[At(0)] # "!" THEN addHistoryItem(Line(count), count)
       ELSE UNCHANGED history
    /\ UNCHANGED <<historyIndex, saved>>

-----------------------------------------------------------------------------

Next ==
  \/ ttyOpen \/ ttyClose \/ fill \/ shell_fill
  \/ \E f \in IFlags : ttyControl(f)
  \/ \E n \in Lens : ttyRead(n)
  \/ raw_getc
  \/ \E ch \in Typed : IF Shell THEN shell_cook(ch) ELSE cook(ch)

Spec == Init /\ [][Next]_vars

-----------------------------------------------------------------------------

TypeOK ==
  /\ tty.phw \in BOOLEAN /\ tty.ieof \in BOOLEAN /\ tty.idelim \in BOOLEAN
  /\ tty.icount \in 0 .. TTY_IBLEN /\ tty.istart \in Place
  /\ tty.in \in [Place -> Stored \union {"NUL"}]
  /\ pc \in {"idle", "raw", "cook", "fill", "closed", "wild"} /\ left \in 0 .. TTY_IBLEN

\* The ring holds, from istart on, what the line editor without ring holds, and the
\* cursor is inside the line: shifting for ttyRead()'s insertions and deletions in
\* the middle of the line loses and repeats nothing, wherever the line starts.  Six
\* keys are excepted, with the cursor left of the end: a delimiter; an insertion
\* into the last free place; a deletion before the first character, in a line that
\* wraps, or at the end of the array; the recall of a shorter line.  What they do
\* to a line ends with it.
RingIsLine ==
  text.off \/ (left <= tty.icount /\ text.line = Line(tty.icount))

\* A second line is never collected behind one the caller has not taken: a
\* delimiter is the last character of the ring.
OneLine == \A k \in 1 .. Len(text.line) - 1 : text.line[k] \notin {"NL", "CR"}

\* The history never keeps more than its array holds, nor, unless a key that
\* RingIsLine excepts was typed, a delimiter, which would end the line as soon as
\* the command is recalled.
HistoryRecallable ==
  /\ Len(history) <= HISTORY_LENGTH
  /\ text.odd \/ \A h \in 1 .. Len(history) : \A k \in 1 .. Len(history[h]) :
       history[h][k] \notin {"NL", "CR"}

=============================================================================
