-------------------------------- MODULE Http --------------------------------
(***************************************************************************)
(* The HTTP device (src/device/http): a thread reads requests from it and  *)
(* writes pages to it, and a killer closes it when a page has gone out;    *)
(* and the threads that xsh_xweb starts to serve pages.  Requests are read *)
(* octet by octet and then stand for what httpRead() finds in them.  Pages *)
(* are sequences of symbols, the prompt of the shell being three of them:  *)
(* "xsh", "$" and " ".                                                     *)
(***************************************************************************)
EXTENDS SemaphoreCalls

CONSTANTS
  HTTP_RBLEN, HTTP_WBLEN, HTTP_MAX_HDRS,
  Requests,     \* what a request may say
  Writes,       \* what a command writes in one call
  MaxWrites,    \* bound: calls per command
  MaxReads,     \* bound: calls of read() per open()
  MaxOpens,     \* bound: how often the device is opened or xsh_xweb called
  Server        \* TRUE: xsh_xweb is used, FALSE: the device is opened directly

VARIABLES
  web,          \* struct http
  rqst,         \* local to httpReadRqst() and httpRead()
  sent,         \* what was written to the TCP device
  heap,         \* blocks of the device: "null", "held" or "freed"; twice: one
                \* was given to free() that was free
  pc, log       \* next step of each thread; counters for the bounds

vars == <<semvars, web, rqst, sent, heap, pc, log>>

\* Semaphore 0, which belongs to somebody else, is what closeall names in a
\* cleared structure.
Zero == "zero"
maxhttp == "max"
activeXWeb == "active"

Prompt == <<"xsh", "$", " ">>
BeginPage == <<"top">>
ErrorPage == <<"err">>

\* httpControl() refuses to set a flag of a free device.
httpInit ==
  [state |-> "FREE", phw |-> FALSE, flags |-> {}, wout |-> <<>>, closeall |-> Zero]

NoRequest == [rin |-> <<>>, newline |-> FALSE, hdrcount |-> 0, q |-> 0]

NoBlocks == [content |-> "null", boundary |-> "null", config |-> "null"]

Init ==
  /\ live = [s \in Sem |-> s # "close"]
  /\ value = [s \in Sem |-> IF s \in {maxhttp, activeXWeb} THEN 1 ELSE 0]
  /\ waiting = [s \in Sem |-> <<>>]
  /\ web = httpInit /\ rqst = NoRequest /\ sent = <<>>
  /\ heap = [block |-> NoBlocks, twice |-> FALSE, whole |-> FALSE]
  /\ pc = [t \in Thread |-> "idle"] /\ log = [opens |-> 0, reads |-> 0, writes |-> 0]

\* A thread that closeall has released is ahead of the one that signalled it.
At(t, step) ==
  pc[t] = step /\ ~Blocked(t) /\ (t = "sh" => pc["kl"] # "kill" \/ Blocked("kl"))

Goto(t, step) == pc' = [pc EXCEPT ![t] = step]

httpSet(w, fs) == IF w.state = "ALLOC" THEN [w EXCEPT !.flags = @ \union fs] ELSE w
httpClr(w, fs) == IF w.state = "ALLOC" THEN [w EXCEPT !.flags = @ \ fs] ELSE w

-----------------------------------------------------------------------------
(* httpWrite().                                                            *)

\* The buffer as one write to the TCP device.
Piece(w, data) ==
  IF "CHUNKED" \in w.flags THEN <<"chunk", Len(data), data>> ELSE <<"raw", data>>

PromptIn(s, i, j) ==
  /\ i + 1 < j /\ j <= Len(s)
  /\ s[i] = Prompt[1] /\ s[i + 1] = Prompt[2] /\ s[j] = Prompt[3]

HasPrompt(s) == \E i, j \in 1 .. Len(s) : PromptIn(s, i, j)

\* The text without the first prompt; its last symbol, the space, stays.
Without(s) ==
  LET i == CHOOSE i \in 1 .. Len(s) : \E j \in 1 .. Len(s) : PromptIn(s, i, j)
      j == CHOOSE j \in 1 .. Len(s) :
             PromptIn(s, i, j) /\ \A k \in 1 .. j - 1 : ~PromptIn(s, i, k)
  IN SubSeq(s, 1, i - 1) \o SubSeq(s, j, Len(s))

\* A prompt shows that the command has ended.
cleanPrompts(w, s) ==
  IF Len(s) >= Len(Prompt) /\ HasPrompt(s)
  THEN [httpClr(w, {"WAITONSHELL"}) EXCEPT !.wout = Without(s)]
  ELSE [w EXCEPT !.wout = s]

\* The buffer goes out on demand, or when there is no room behind it.
flush(w, len) ==
  IF w.wout # <<>> /\ ("FLUSHWOUT" \in w.flags \/ Len(w.wout) + len > HTTP_WBLEN)
  THEN <<[w EXCEPT !.wout = <<>>], <<Piece(w, w.wout)>>>> ELSE <<w, <<>>>>

\* What does not fit the buffer goes out at once; the rest goes into the buffer.
store(wo, buf) ==
  IF Len(buf) > HTTP_WBLEN THEN <<wo[1], Append(wo[2], Piece(wo[1], buf))>>
  ELSE IF buf = <<>> THEN wo
  ELSE <<cleanPrompts(wo[1], wo[1].wout \o buf), wo[2]>>

PageOver(w) == "WAITONSHELL" \notin w.flags /\ "ENDREADOUTPUT" \in w.flags

finish(wo) ==
  IF ~PageOver(wo[1]) THEN <<wo[1], wo[2], FALSE>>
  ELSE <<httpSet([wo[1] EXCEPT !.wout = <<>>], {"AWAITINGRQST", "CONCLOSE"}),
         (IF wo[1].wout = <<>> THEN wo[2] ELSE Append(wo[2], Piece(wo[1], wo[1].wout)))
           \o <<<<"end">>>>,
         TRUE>>

\* The device, what goes to the TCP device, and whether closeall is signalled.
httpWrite(w, buf) ==
  IF ~w.phw \/ "AWAITINGRQST" \in w.flags THEN <<w, <<>>, FALSE>>
  ELSE IF "CLEARWOUT" \in w.flags THEN <<[w EXCEPT !.wout = <<>>], <<>>, FALSE>>
  ELSE finish(store(flush(w, Len(buf)), buf))

\* Calls one after the other; from the second on they continue with the result
\* of the one before.
After(wo, n) == <<n[1], wo[2] \o n[2], wo[3] \/ n[3]>>
Then(wo, buf) == After(wo, httpWrite(wo[1], buf))

ThenSet(wo, fs) == <<httpSet(wo[1], fs), wo[2], wo[3]>>
ThenClr(wo, fs) == <<httpClr(wo[1], fs), wo[2], wo[3]>>

httpFlushWBuffer(wo) ==
  ThenClr(Then(ThenSet(wo, {"FLUSHWOUT"}), <<>>), {"FLUSHWOUT"})

Clear(wo) == ThenClr(Then(ThenSet(wo, {"CLEARWOUT"}), <<>>), {"CLEARWOUT"})

\* The calls wo by the reader, which then continues at step.
Do(wo, step) ==
  /\ web' = wo[1] /\ sent' = sent \o wo[2]
  /\ IF wo[3] THEN signal(web.closeall) ELSE UNCHANGED semvars
  /\ Goto("sh", step)

-----------------------------------------------------------------------------
(* httpOpen(), by a client that then starts the reader and the killer.     *)

httpOpen(t, next) ==
  /\ At(t, "idle") /\ log.opens < MaxOpens
  /\ web.state = "FREE"
  /\ web' = [httpInit EXCEPT !.state = "ALLOC", !.flags = {"AWAITINGRQST"},
                             !.phw = TRUE, !.closeall = "close"]
  /\ semcreate("close", 0)
  /\ heap' = [heap EXCEPT !.block = NoBlocks, !.whole = FALSE]
  /\ sent' = <<>> /\ log' = [opens |-> log.opens + 1, reads |-> 0, writes |-> 0]
  /\ pc' = [pc EXCEPT ![t] = next, !["kl"] = "wait"]
  /\ UNCHANGED rqst

\* read(): the flags go back, then httpReadRqst().
httpRead ==
  /\ At("sh", "read") /\ log.reads < MaxReads
  /\ log' = [log EXCEPT !.reads = @ + 1]
  /\ web' = httpSet(httpClr(web, {"CONCLOSE", "RQSTEND", "CHUNKED", "WAITONSHELL",
                    "ENDREADOUTPUT", "CLEARWOUT", "FLUSHWOUT"}), {"AWAITINGRQST"})
  /\ rqst' = NoRequest /\ Goto("sh", "rqst")
  /\ UNCHANGED <<semvars, sent, heap>>

More(w, r) ==
  "RQSTEND" \notin w.flags /\ Len(r.rin) < HTTP_RBLEN /\ r.hdrcount < HTTP_MAX_HDRS

EndOfLine(r, ch) == Len(r.rin) >= 1 /\ r.rin[Len(r.rin)] = "CR" /\ ch = "LF"

\* The end of the request: an empty line.
httpReadRqst(w, r, ch) ==
  IF EndOfLine(r, ch) /\ r.newline THEN httpSet(w, {"RQSTEND"}) ELSE w

\* A client sends a request when it has got the whole page before.
rqst_char ==
  /\ At("sh", "rqst") /\ More(web, rqst)
  /\ sent # <<>> => sent[Len(sent)] \in {<<"end">>, Piece(httpInit, ErrorPage)}
  /\ \E ch \in {"c", "CR", "LF"} :
       /\ web' = httpReadRqst(web, rqst, ch)
       /\ rqst' = [rqst EXCEPT
            !.rin = Append(@, ch),
            !.newline = Len(rqst.rin) >= 1
                        /\ (EndOfLine(rqst, ch) \/ (rqst.newline /\ ch = "CR")),
            !.hdrcount = @ + (IF EndOfLine(rqst, ch) /\ ~rqst.newline THEN 1 ELSE 0)]
  /\ UNCHANGED <<semvars, sent, heap, pc, log>>

\* The peer has closed the connection.
rqst_fails ==
  /\ At("sh", "rqst") /\ More(web, rqst)
  /\ Do(<<httpSet(web, {"AWAITINGRQST", "CONCLOSE"}), <<>>, TRUE>>, "done")
  /\ rqst' = NoRequest /\ UNCHANGED <<heap, log>>

\* httpErrorResponse(): printf() to the device itself, which drops it while it
\* waits for a request.
httpErrorResponse(wo) ==
  LET f == httpFlushWBuffer(ThenClr(Then(wo, ErrorPage), {"CHUNKED"}))
  IN <<httpSet(f[1], {"CONCLOSE"}), f[2], TRUE>>

Answer(wo, blocks) ==
  /\ Do(wo, "prompt")
  /\ heap' = [heap EXCEPT !.block = blocks]
  /\ rqst' = NoRequest /\ UNCHANGED log

\* No memory for a header, the boundary or the content.
hdrs_fail ==
  /\ At("sh", "rqst") /\ ~More(web, rqst) /\ rqst.hdrcount > 1
  /\ \E b \in {"null", "held"} :
       Answer(httpErrorResponse(<<web, <<>>, FALSE>>), [NoBlocks EXCEPT !.boundary = b])

\* The request is complete.
httpReadHdrs(q) ==
  [NoBlocks EXCEPT !.content = IF q.content THEN "held" ELSE "null",
                   !.boundary = IF q.boundary THEN "held" ELSE "null"]

\* Nothing but the first line of a request with one header end.
Possible(q) ==
  /\ rqst.hdrcount = 0 => q.method = "bad"
  /\ rqst.hdrcount < 2 => ~q.content /\ ~q.boundary

validMethod(q) ==
  q.method \in {"GET", "HEAD"} \/ (q.method = "POST" /\ q.content)

Ready == Clear(<<httpClr(web, {"AWAITINGRQST"}), <<>>, FALSE>>)

rqst_refused ==
  /\ At("sh", "rqst") /\ ~More(web, rqst)
  /\ \E q \in Requests :
       /\ Possible(q) /\ (~validMethod(q) \/ ~q.version \/ q.uri = "none")
       /\ Answer(httpErrorResponse(Ready), httpReadHdrs(q))

\* setupConfig() fails: the strings it has got are freed and not forgotten.
setupConfig_fails ==
  /\ At("sh", "rqst") /\ ~More(web, rqst)
  /\ \E q \in Requests, c \in {"null", "freed"} :
       /\ Possible(q) /\ validMethod(q) /\ q.version /\ q.uri = "config"
       /\ Answer(httpErrorResponse(Ready), [httpReadHdrs(q) EXCEPT !.config = c])

\* The lines of the configuration page, when it is one.
outputConfig(wo, q) == IF q.uri = "config" THEN Then(wo, <<"form">>) ELSE wo

\* The page above the output of the command.
Page(wo, q) ==
  IF q.method = "HEAD" THEN wo ELSE outputConfig(Then(ThenSet(wo, {"CHUNKED"}), BeginPage), q)

rqst_page ==
  /\ At("sh", "rqst") /\ ~More(web, rqst)
  /\ \E q \in Requests :
       /\ Possible(q) /\ validMethod(q) /\ q.version /\ q.uri # "none"
       /\ Do(httpFlushWBuffer(Then(ThenSet(ThenClr(
               IF q.uri = "shell" THEN ThenSet(Ready, {"WAITONSHELL"}) ELSE Ready,
               {"CHUNKED"}), {"CONCLOSE"}), <<"hdr">>)), "page")
       /\ heap' = [heap EXCEPT !.block = [httpReadHdrs(q) EXCEPT
                     !.config = IF q.uri = "config" THEN "held" ELSE "null"]]
       /\ rqst' = [NoRequest EXCEPT !.q = q] /\ UNCHANGED log

\* Blocks that were used only in httpRead() are freed, and the pointers stay.
Freed(b) == [x \in DOMAIN b |-> IF b[x] = "null" THEN "null" ELSE "freed"]

page_top ==
  /\ At("sh", "page")
  /\ Do(ThenClr(Clear(httpFlushWBuffer(ThenSet(Page(<<web, <<>>, FALSE>>, rqst.q),
                {"ENDREADOUTPUT"}))), {"RQSTEND"}),
        IF rqst.q.uri = "shell" THEN "command" ELSE "prompt")
  /\ heap' = [heap EXCEPT !.block = IF rqst.q.method = "HEAD"
                THEN [Freed(heap.block) EXCEPT !.config = heap.block.config]
                ELSE Freed(heap.block), !.whole = TRUE]
  /\ rqst' = NoRequest /\ UNCHANGED log

-----------------------------------------------------------------------------
(* The shell on the device: the output of the command, then the prompt.    *)

command_write ==
  /\ At("sh", "command") /\ log.writes < MaxWrites
  /\ \E buf \in Writes : Do(httpWrite(web, buf), "command")
  /\ log' = [log EXCEPT !.writes = @ + 1] /\ UNCHANGED <<rqst, heap>>

command_ends ==
  /\ At("sh", "command") /\ Goto("sh", "prompt")
  /\ UNCHANGED <<semvars, web, rqst, sent, heap, log>>

prompt_putc ==
  \/ At("sh", "prompt") /\ Do(httpWrite(web, <<Prompt[1]>>), "prompt2")
       /\ UNCHANGED <<rqst, heap, log>>
  \/ At("sh", "prompt2") /\ Do(httpWrite(web, <<Prompt[2]>>), "prompt3")
       /\ UNCHANGED <<rqst, heap, log>>
  \/ At("sh", "prompt3") /\ Do(httpWrite(web, <<Prompt[3]>>), "read")
       /\ UNCHANGED <<rqst, heap, log>>

-----------------------------------------------------------------------------
(* killHttpServer().                                                       *)

kill_wait ==
  /\ At("kl", "wait") /\ wait("kl", web.closeall) /\ Goto("kl", "kill")
  /\ UNCHANGED <<web, rqst, sent, heap, log>>

kill_shell ==
  /\ At("kl", "kill") /\ pc' = [pc EXCEPT !["kl"] = "close", !["sh"] = "idle"]
  /\ rqst' = NoRequest /\ UNCHANGED <<semvars, web, sent, heap, log>>

\* httpFree() and semfree(), then everything the device points to.
httpClose(t, next) ==
  /\ web.state = "ALLOC"
  /\ live' = [live EXCEPT ![web.closeall] = FALSE]
  /\ waiting' = [waiting EXCEPT ![web.closeall] = <<>>,
                   ![maxhttp] = IF @ = <<>> THEN @ ELSE Tail(@)]
  /\ value' = [value EXCEPT ![maxhttp] = IF waiting[maxhttp] = <<>> THEN @ + 1 ELSE @,
                            ![web.closeall] = 0]
  /\ heap' = [heap EXCEPT !.block = NoBlocks,
                !.twice = @ \/ \E b \in DOMAIN heap.block : heap.block[b] = "freed"]
  /\ web' = httpInit /\ Goto(t, next)

kill_close ==
  /\ At("kl", "close") /\ httpClose("kl", "idle") /\ UNCHANGED <<rqst, sent, log>>

-----------------------------------------------------------------------------
(* xsh_xweb, httpServerKickStart() and httpServer().  The device that      *)
(* httpServer() has got from httpAlloc() is not free any more, so that the *)
(* open() that follows fails: the rest of httpServer() is never reached.   *)

\* xsh_xweb starts a thread that waits for its turn.
httpServerKickStart ==
  /\ At("ks", "idle") /\ log.opens < MaxOpens
  /\ wait("ks", activeXWeb) /\ Goto("ks", "alloc")
  /\ log' = [log EXCEPT !.opens = @ + 1] /\ UNCHANGED <<web, rqst, sent, heap>>

\* When there is a TCP device the server starts; activeXWeb stays taken.
kick_alloc ==
  /\ At("ks", "alloc") /\ pc["sv"] = "idle"
  /\ \E step \in {"start", "idle"} : pc' = [pc EXCEPT !["ks"] = "idle", !["sv"] = step]
  /\ UNCHANGED <<semvars, web, rqst, sent, heap, log>>

httpServer ==
  /\ At("sv", "start") /\ wait("sv", maxhttp) /\ Goto("sv", "alloc")
  /\ UNCHANGED <<web, rqst, sent, heap, log>>

\* The interface may have gone: the server ends and keeps the device.
httpAlloc ==
  /\ At("sv", "alloc") /\ web.state = "FREE"
  /\ web' = [web EXCEPT !.state = "ALLOC"]
  /\ \E step \in {"open", "idle"} : Goto("sv", step)
  /\ UNCHANGED <<semvars, rqst, sent, heap, log>>

open_refused ==
  /\ At("sv", "open") /\ web.state # "FREE"
  /\ httpClose("sv", "idle") /\ UNCHANGED <<rqst, sent, log>>

\* xsh_xweb -h: the server is killed, closeall of every device is signalled and
\* activeXWeb is a new semaphore, so that a starter who waited for the old one
\* or has just got it gives up.
xweb_halt ==
  /\ 0 < log.opens /\ log.opens < MaxOpens
  /\ pc' = [pc EXCEPT !["sv"] = "idle", !["ks"] = "idle"]
  /\ value' = [value EXCEPT ![activeXWeb] = 1,
                            ![Zero] = IF live[Zero] THEN @ + 1 ELSE @]
  /\ waiting' = [waiting EXCEPT ![activeXWeb] = <<>>,
                                ![maxhttp] = SelectSeq(@, LAMBDA t : t # "sv")]
  /\ log' = [log EXCEPT !.opens = @ + 1]
  /\ UNCHANGED <<live, web, rqst, sent, heap>>

Next ==
  \/ /\ ~Server
     /\ \/ httpOpen("sh", "prompt") \/ httpRead \/ rqst_char \/ rqst_fails
        \/ hdrs_fail \/ rqst_refused \/ setupConfig_fails \/ rqst_page \/ page_top
        \/ command_write \/ command_ends \/ prompt_putc
        \/ kill_wait \/ kill_shell \/ kill_close
  \/ /\ Server
     /\ \/ httpServerKickStart \/ kick_alloc \/ httpServer \/ httpAlloc
        \/ open_refused \/ xweb_halt

Spec == Init /\ [][Next]_vars

-----------------------------------------------------------------------------

TypeOK ==
  /\ web.state \in {"FREE", "ALLOC"} /\ web.closeall \in Sem /\ web.phw \in BOOLEAN
  /\ Len(web.wout) <= HTTP_WBLEN
  /\ Len(rqst.rin) <= HTTP_RBLEN /\ rqst.hdrcount \in 0 .. HTTP_MAX_HDRS
  /\ \A b \in DOMAIN heap.block : heap.block[b] \in {"null", "held", "freed"}

\* httpReadRqst() stops at the first empty line, and before it only when the
\* buffer is full or there are too many headers.
RequestRead ==
  pc["sh"] = "rqst" =>
    LET s == rqst.rin
        end == \E i \in 1 .. Len(s) - 3 :
                 s[i] = "CR" /\ s[i + 1] = "LF" /\ s[i + 2] = "CR" /\ s[i + 3] = "LF"
    IN /\ end => ~More(web, rqst)
       /\ "RQSTEND" \in web.flags => s[Len(s)] = "LF" /\ \E i \in 1 .. Len(s) - 3 :
            /\ s[i] = "CR" /\ s[i + 1] = "LF"
            /\ \A j \in i + 2 .. Len(s) - 1 : s[j] = "CR"

Header == <<"raw", <<"hdr">>>>
Failure == <<"raw", ErrorPage>>

\* A page is its header, its chunks and its end, each once: httpWrite() sends
\* nothing before the header and nothing after the end.
PagesWellFormed ==
  \A i \in 1 .. Len(sent) :
    /\ sent[i] = Header => i = 1 \/ sent[i - 1] = <<"end">> \/ sent[i - 1] = Failure
    /\ sent[i][1] = "chunk" =>
         i > 1 /\ (sent[i - 1] = Header \/ sent[i - 1][1] = "chunk")
    /\ sent[i] = <<"end">> => i > 1 /\ sent[i - 1] # <<"end">>
    /\ \A j \in 1 .. Len(sent[i]) :
         sent[i] # Header /\ sent[i][1] # "end" /\ j = Len(sent[i]) =>
           \A k \in 1 .. Len(sent[i][j]) : sent[i][j][k] # "hdr"

Data(i) == IF sent[i][1] = "end" THEN <<>> ELSE sent[i][Len(sent[i])]

\* Everything sent since the last header, and what is still in the buffer.
Text ==
  LET f[i \in 0 .. Len(sent)] ==
        IF i = 0 THEN <<>> ELSE IF sent[i] = Header THEN <<>> ELSE f[i - 1] \o Data(i)
  IN f[Len(sent)] \o web.wout

\* When the shell asks for the next command the page has ended, unless the
\* prompt that shows it was cut in two by a full buffer: cleanPrompts() then
\* misses it, and the client waits for the rest of the page for ever.
PageEnds ==
  pc["sh"] = "rqst" /\ sent # <<>> =>
    sent[Len(sent)] \in {<<"end">>, Failure} \/ HasPrompt(Text)

\* A prompt does not reach the client in one piece of a page it waits for.
NoPromptInPiece ==
  \A i \in 1 .. Len(sent) : Len(Data(i)) <= HTTP_WBLEN => ~HasPrompt(Data(i))

\* httpClose() gives free() a block a second time only if httpRead() had freed it
\* at its end, or setupConfig() when it ran out of memory.
FreedTwice ==
  \A b \in DOMAIN heap.block :
    heap.block[b] = "freed" => heap.whole \/ (b = "config" /\ Failure = sent[Len(sent)])

\* maxhttp never offers more devices than are free, and no device ever gets as
\* far as its TCP connection.
NothingServed ==
  Server =>
    /\ value[maxhttp] + (IF web.state = "ALLOC" THEN 1 ELSE 0) <= 1
    /\ ~web.phw
    /\ pc["sv"] \in {"alloc", "open"} /\ ~Blocked("sv") => value[maxhttp] = 0

=============================================================================
