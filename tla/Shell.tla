-------------------------------- MODULE Shell --------------------------------
(***************************************************************************)
(* The shell (src/shell/shell.c, lexan.c; src/apps/history.c): it reads a  *)
(* line, splits it into tokens, takes redirections and & off, and runs the *)
(* command, built-in ones itself and the others in a thread.  It waits for *)
(* a command in the foreground by the message kill() sends to the parent   *)
(* of a thread, and the slot for messages holds one.  The tokens are in an *)
(* array of the shell that the threads get a pointer to.                   *)
(*                                                                         *)
(* A line is a sequence of characters.  "c" is a command that runs in a    *)
(* thread; "e", "x" and "k" are built in (echo and its like, exit, kill).  *)
(* How the line is typed is in Tty.                                        *)
(***************************************************************************)
EXTENDS Integers, Sequences, FiniteSets, TLC

CONSTANTS
  Lines,           \* what may be typed, each ended by "NL"
  Child,           \* ids of the threads of commands, numbers from 1
  Devices,         \* names getdev() knows, as tokens
  SHELL_MAXTOK, HISTORY_LENGTH,
  MaxLines,        \* bound: lines read in a behaviour
  CreateFails      \* create() may fail

VARIABLES
  sh,              \* the shell: next step, line, ntok, background, child, fdesc
  tok,             \* the array of tokens
  thr,             \* threads of commands
  msg,             \* the slot for messages of the shell, 0 when empty
  history,         \* lines, the latest first
  log

vars == <<sh, tok, thr, msg, history, log>>

-----------------------------------------------------------------------------
(* lexan() *)

isEndOfLine(c) == c = "NL"
isQuote(c) == c \in {"'", "q"}
isOtherSpecial(c) == c \in {"<", ">", "&"}
isWhitespace(c) == c = " "
Plain(c) == ~(isEndOfLine(c) \/ isQuote(c) \/ isOtherSpecial(c) \/ isWhitespace(c))

\* First position from i on, up to behind the line, where the character is in Stop.
Upto(line, i, Stop) ==
  LET at[j \in i .. Len(line) + 1] ==
        IF j > Len(line) THEN j ELSE IF line[j] \in Stop THEN j ELSE at[j + 1]
  IN at[i]

Ends == {"NL", "'", "q", "<", ">", "&", " "}

\* The last position of the token that starts at i; 0 if it does not end.
WordEnd(line, i) == LET j == Upto(line, i + 1, Ends) IN IF j > Len(line) THEN 0 ELSE j - 1
QuoteEnd(line, i) ==
  LET j == Upto(line, i + 1, {line[i], "NL"}) IN
  IF j <= Len(line) /\ line[j] = line[i] THEN j ELSE 0
TokenEnd(line, i) ==
  IF isQuote(line[i]) THEN QuoteEnd(line, i)
  ELSE IF isOtherSpecial(line[i]) THEN i ELSE WordEnd(line, i)

\* The tokens, and whether the line could be split; those before an error are in
\* the array already.
lexan(line) ==
  LET scan[i \in 1 .. Len(line) + 1, n \in 0 .. SHELL_MAXTOK] ==
        IF i > Len(line) \/ n = SHELL_MAXTOK THEN <<TRUE, <<>>>>
        ELSE IF isWhitespace(line[i]) THEN scan[i + 1, n]
        ELSE IF isEndOfLine(line[i]) THEN <<TRUE, <<>>>>
        ELSE IF TokenEnd(line, i) = 0 THEN <<FALSE, <<>>>>
        ELSE LET Put(rest) == <<rest[1], <<SubSeq(line, i, TokenEnd(line, i))>> \o rest[2]>>
             IN Put(scan[TokenEnd(line, i) + 1, n + 1])
  IN scan[1, 0]

\* tokbuf is filled from its start: the tokens that are left of an earlier line
\* point into text that is no longer theirs.
Overwritten(old, new) == new \o [n \in 1 .. Len(old) - Len(new) |-> <<"?">>]

-----------------------------------------------------------------------------
(* Redirections *)

Special(t, c) == t[1] = c
None == <<>>

\* Tokens behind i move down by two.
shift(t, i) == SubSeq(t, 1, i - 1) \o SubSeq(t, i + 2, Len(t))

\* One round of the loop at index i.  Behind a redirection the loop goes on with
\* i + 1, so that the token that has moved to i is not looked at.
redirect(p, i) ==
  IF p.error \/ i > Len(p.t) THEN p
  ELSE IF Special(p.t[i], "&") THEN [p EXCEPT !.error = TRUE]
  ELSE IF Special(p.t[i], ">") THEN
    IF p.out # None \/ i >= Len(p.t) THEN [p EXCEPT !.error = TRUE]
    ELSE [p EXCEPT !.out = p.t[i + 1], !.t = shift(@, i)]
  ELSE IF Special(p.t[i], "<") THEN
    IF p.in # None \/ i >= Len(p.t) THEN [p EXCEPT !.error = TRUE]
    ELSE [p EXCEPT !.in = p.t[i + 1], !.t = shift(@, i)]
  ELSE p

redirects(t) ==
  LET loop[i \in 0 .. Len(t)] ==
        IF i = 0 THEN [t |-> t, in |-> None, out |-> None, error |-> FALSE]
        ELSE redirect(loop[i - 1], i)
  IN loop[Len(t)]

-----------------------------------------------------------------------------
(* History *)

shiftHistoryItems(items) ==
  IF Len(items) < HISTORY_LENGTH THEN items ELSE SubSeq(items, 1, HISTORY_LENGTH - 1)
addHistoryItem(items, line) == <<line>> \o shiftHistoryItems(items)

\* The line that the history command shows with number n.
printHistory(items, n) == items[Len(items) - n + 1]

Digits == <<"1", "2", "3", "4">>
atoi(c) ==
  LET at == {n \in DOMAIN Digits : Digits[n] = c} IN IF at = {} THEN 0 ELSE CHOOSE n \in at : TRUE

\* What ! recalls: index 0 for !!.  The index is not checked; an item that was never
\* stored is an empty line, and behind or before the array there may be anything.
Recalled(line) ==
  LET index == IF line[2] = "!" THEN 0 ELSE Len(history) - atoi(line[2]) IN
  IF index \in 0 .. Len(history) - 1 THEN {history[index + 1]}
  ELSE IF index \in 0 .. HISTORY_LENGTH - 1 THEN {<<"NL">>}
  ELSE Lines

-----------------------------------------------------------------------------

Free == [state |-> "free", ntok |-> 0, typed |-> <<>>, got |-> <<>>, lexed |-> 0,
         fg |-> FALSE, in |-> None, out |-> None]

Init ==
  /\ sh = [pc |-> "prompt", line |-> <<>>, ntok |-> 0, bg |-> FALSE, child |-> 0,
           in |-> None, out |-> None]
  /\ tok = <<>> /\ msg = 0 /\ history = <<>>
  /\ thr = [c \in Child |-> Free]
  /\ log = [lines |-> 0,
            lexed |-> 0,           \* lines split so far
            lost |-> 0,            \* threads whose message found the slot full
            asked |-> <<>>]        \* the line typed, when it recalls another

Goto(step) == sh' = [sh EXCEPT !.pc = step]

\* Prompt and shellRead(); a line is remembered unless it recalls another.
read_line ==
  /\ sh.pc = "prompt" /\ log.lines < MaxLines
  /\ \/ \E line \in Lines :
          /\ history' = IF line[1] # "!" THEN addHistoryItem(history, line) ELSE history
          /\ \E l \in IF line[1] = "!" THEN Recalled(line) ELSE {line} :
               sh' = [sh EXCEPT !.pc = "lex", !.line = l]
          /\ log' = [log EXCEPT !.lines = @ + 1, !.asked = IF line[1] = "!" THEN line ELSE <<>>]
     \/ /\ history' = addHistoryItem(history, <<"NL">>)
        /\ Goto("closed") /\ UNCHANGED log         \* EOF
  /\ UNCHANGED <<tok, thr, msg>>

\* The & at the end and the loop over the tokens; error is a syntax error.
Arranged(t) ==
  IF t = <<>> THEN [redirects(<<>>) EXCEPT !.error = TRUE] @@ [bg |-> FALSE]
  ELSE IF Special(t[Len(t)], "&") THEN redirects(SubSeq(t, 1, Len(t) - 1)) @@ [bg |-> TRUE]
  ELSE redirects(t) @@ [bg |-> FALSE]

\* The table of commands: not found, built in, or run in a thread.
commandtab(name) ==
  IF name \in {<<"e">>, <<"x">>, <<"k">>} THEN "builtin"
  ELSE IF name = <<"c">> THEN "thread" ELSE ""

\* What becomes of the line when its tokens are arranged as p.
Dispatch(p) ==
  IF p.error \/ p.t = <<>> THEN "prompt"
  ELSE CASE commandtab(p.t[1]) = "" -> "prompt"
         [] commandtab(p.t[1]) = "builtin" ->
              IF p.in # None \/ p.out # None \/ p.bg THEN "prompt" ELSE "builtin"
         [] commandtab(p.t[1]) = "thread" -> "create"

Parse(p) ==
  /\ tok' = Overwritten(tok, p.t)
  /\ sh' = [sh EXCEPT !.pc = Dispatch(p), !.ntok = Len(p.t), !.bg = p.bg,
                      !.in = p.in, !.out = p.out]

\* lexan(), syntax checks and the lookup of the command.
parse_line ==
  /\ sh.pc = "lex"
  /\ Parse(IF lexan(sh.line)[1] THEN Arranged(lexan(sh.line)[2])
           ELSE [t |-> lexan(sh.line)[2], in |-> None, out |-> None, error |-> TRUE, bg |-> FALSE])
  /\ log' = [log EXCEPT !.lexed = @ + 1]
  /\ UNCHANGED <<thr, msg, history>>

\* kill() and the return of a thread: the parent gets a message if its slot is empty.
Ended(c) ==
  /\ thr' = [thr EXCEPT ![c] = Free]
  /\ IF msg = 0 THEN msg' = c /\ UNCHANGED log
     ELSE log' = [log EXCEPT !.lost = c] /\ UNCHANGED msg

\* exit and kill end threads; "9" is the shell itself, "0" the null thread.
xsh_kill(t) ==
  IF Len(t) # 2 \/ t[2] = <<"0">> THEN Goto("prompt") /\ UNCHANGED <<thr, msg, log>>
  ELSE IF t[2] = <<"9">> THEN Goto("closed") /\ UNCHANGED <<thr, msg, log>>
  ELSE /\ Goto("prompt")
       /\ IF \E c \in Child : <<Digits[c]>> = t[2] /\ thr[c].state # "free"
          THEN \E c \in Child : <<Digits[c]>> = t[2] /\ Ended(c)
          ELSE UNCHANGED <<thr, msg, log>>

run_builtin ==
  /\ sh.pc = "builtin"
  /\ LET t == SubSeq(tok, 1, sh.ntok) IN
     CASE t[1] = <<"k">> -> xsh_kill(t)
       [] t[1] = <<"x">> -> /\ Goto(IF Len(t) > 1 THEN "prompt" ELSE "closed")
                            /\ UNCHANGED <<thr, msg, log>>
       [] t[1] = <<"e">> -> Goto("prompt") /\ UNCHANGED <<thr, msg, log>>
  /\ UNCHANGED <<tok, history>>

\* getdev() of a name; SYSERR when there is no such device.
Descriptor(name, std) ==
  IF name = None THEN std ELSE IF name \in Devices THEN name ELSE <<"SYSERR">>

\* create(), and the descriptors of the thread.
create_child ==
  /\ sh.pc = "create"
  /\ \/ \E c \in Child :
          /\ thr[c].state = "free"
          /\ thr' = [thr EXCEPT ![c] =
                       [state |-> "new", ntok |-> sh.ntok, typed |-> sh.line, got |-> <<>>,
                        lexed |-> log.lexed, fg |-> ~sh.bg,
                        in |-> Descriptor(sh.in, <<"stdin">>),
                        out |-> Descriptor(sh.out, <<"stdout">>)]]
          /\ sh' = [sh EXCEPT !.pc = IF sh.bg THEN "background" ELSE "clear", !.child = c]
     \/ /\ CreateFails \/ \A c \in Child : thr[c].state # "free"
        /\ Goto("prompt") /\ UNCHANGED thr
  /\ UNCHANGED <<tok, msg, history, log>>

Ready(step) ==
  /\ thr' = [thr EXCEPT ![sh.child].state = "ready"]
  /\ Goto(step)
  /\ UNCHANGED <<tok, msg, history, log>>

run_background == sh.pc = "background" /\ Ready("prompt")

\* recvclr() until there is no message.
clear_messages ==
  /\ sh.pc = "clear"
  /\ IF msg # 0 THEN msg' = 0 /\ UNCHANGED sh ELSE Goto("ready") /\ UNCHANGED msg
  /\ UNCHANGED <<tok, thr, history, log>>

run_foreground == sh.pc = "ready" /\ Ready("wait")

\* receive() until the message is the child's.
wait_child ==
  /\ sh.pc = "wait" /\ msg # 0
  /\ msg' = 0
  /\ Goto(IF msg = sh.child THEN "prompt" ELSE "wait")
  /\ UNCHANGED <<tok, thr, history, log>>

-----------------------------------------------------------------------------
(* The threads of commands *)

\* A command reads its arguments, at some time while it runs.
child_reads(c) ==
  /\ thr[c].state = "ready"
  /\ thr' = [thr EXCEPT ![c].state = "running", ![c].got = SubSeq(tok, 1, thr[c].ntok)]
  /\ UNCHANGED <<sh, tok, msg, history, log>>

child_ends(c) ==
  /\ thr[c].state = "running"
  /\ Ended(c)
  /\ UNCHANGED <<sh, tok, history>>

Next ==
  \/ read_line \/ parse_line \/ run_builtin \/ create_child \/ run_background
  \/ clear_messages \/ run_foreground \/ wait_child
  \/ \E c \in Child : child_reads(c) \/ child_ends(c)

-----------------------------------------------------------------------------

TypeOK ==
  /\ sh.pc \in {"prompt", "lex", "builtin", "create", "background", "clear", "ready", "wait",
                "closed"}
  /\ msg \in Child \union {0} /\ Len(history) <= HISTORY_LENGTH
  /\ \A c \in Child : thr[c].state \in {"free", "new", "ready", "running"}

\* The shell prompts again only when the command in the foreground has ended: the
\* message of another command, even of one that had the same thread id, is not
\* taken for its own.
WaitsForCommand ==
  \A c \in Child :
    thr[c].state # "free" /\ thr[c].fg => sh.child = c /\ sh.pc \in {"clear", "ready", "wait"}

\* The shell can wait for a command that has ended only because the slot held the
\* message of another command when it ended; then it waits for ever.
WaitsInVainOnlyIfLost ==
  sh.pc = "wait" /\ thr[sh.child].state = "free" /\ msg # sh.child => log.lost = sh.child

\* A split of the line into tokens: each is a quoted text, a special character, or
\* a word as long as can be, and together they are the line without its blanks.
Blank(line, i) == isWhitespace(line[i])
RightToken(line, i, j) ==
  CASE isQuote(line[i]) -> /\ j > i /\ line[j] = line[i]
                           /\ \A k \in i + 1 .. j - 1 : line[k] # line[i]
    [] isOtherSpecial(line[i]) -> j = i
    [] OTHER -> (\A k \in i .. j : Plain(line[k])) /\ ~Plain(line[j + 1])

TokensRight ==
  LET line == sh.line
      n == Len(line)
      split == lexan(line)
      t == split[2]
      \* position behind the token that begins at or behind i, and the tokens left
      behind[k \in 0 .. Len(t)] ==
        IF k = 0 THEN 1
        ELSE LET from == Upto(line, behind[k - 1], {line[i] : i \in 1 .. n} \ {" "})
             IN from + Len(t[k])
      start(k) == behind[k] - Len(t[k])
  IN sh.pc = "lex" =>
       /\ \A k \in DOMAIN t :
            /\ t[k] = SubSeq(line, start(k), behind[k] - 1)
            /\ \A i \in behind[k - 1] .. start(k) - 1 : Blank(line, i)
            /\ RightToken(line, start(k), behind[k] - 1)
       /\ split[1] /\ Len(t) < SHELL_MAXTOK => \A i \in behind[Len(t)] .. n - 1 : Blank(line, i)

\* What is typed, as a command with redirections: > and < take the token behind
\* them, and the others are its words, in order.
Redirects(t) ==
  LET op[i \in 0 .. Len(t)] == i > 0 /\ t[i] \in {<<">">>, <<"<">>} /\ ~op[i - 1]
  IN {i \in DOMAIN t : op[i]}
Words(t, ops) ==
  LET word[i \in 0 .. Len(t)] ==
        IF i = 0 THEN <<>>
        ELSE IF {i, i - 1} \cap ops # {} THEN word[i - 1] ELSE Append(word[i - 1], t[i])
  IN word[Len(t)]
Typed(line) ==
  LET t == lexan(line)[2] IN IF t[Len(t)] = <<"&">> THEN SubSeq(t, 1, Len(t) - 1) ELSE t

\* Two redirections one behind the other: the second is not recognised, and the
\* command gets it as arguments.
Adjoining(t) == \E i \in Redirects(t) : i + 2 \in Redirects(t)

\* A command in the foreground gets the words that were typed.  One in the
\* background gets them too, unless another line has been split before it looked.
ArgumentsAsTyped ==
  \A c \in Child : thr[c].state = "running" =>
    \/ thr[c].got = Words(Typed(thr[c].typed), Redirects(Typed(thr[c].typed)))
    \/ Adjoining(Typed(thr[c].typed))
    \/ ~thr[c].fg /\ log.lexed > thr[c].lexed

\* !n runs the line that the history command shows with number n.
RecallsAsListed ==
  sh.pc = "lex" /\ log.asked # <<>> =>
    LET n == IF log.asked[2] = "!" THEN Len(history) ELSE atoi(log.asked[2]) IN
    n \in 1 .. Len(history) => sh.line = printHistory(history, n)
=============================================================================
