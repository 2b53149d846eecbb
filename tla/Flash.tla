-------------------------------- MODULE Flash --------------------------------
(***************************************************************************)
(* The flash driver and the settings in NVRAM (src/device/flash): logical  *)
(* blocks are read and written through a cache of erase blocks, and the    *)
(* settings live at the end of the last erase block.  Positions and sizes  *)
(* count logical blocks; the contents of a logical block are one value.    *)
(* A thread is preempted in wait(), between the eviction of an erase block *)
(* and the loading of the next one, and between the marking of an entry as *)
(* dirty and the copying of the data.                                      *)
(***************************************************************************)
EXTENDS SemaphoreCalls

CONSTANTS
  Regions,             \* sequence of [nblocks, block_size]
  MAX_LIVE_BLOCKS,
  CFE_MAX_BLOCK, KERNEL_MAX_BLOCK,
  NVRAM_MIN_BLOCK,     \* the settings are the last logical block
  commands,            \* "INTEL_SCS" or "AMD_SCS"
  lock,
  Users, Committers,   \* threads that use the device, and the settings
  Values, Blocks,      \* what the users write, and where
  Locked, Hard, Loose, \* erase blocks that are locked, that cannot be unlocked, and
                       \* that cannot be locked again
  Names, Strings,      \* names of settings and their values: sequences
  Hash,                \* hash value of each name
  Opens,               \* TRUE: the device is opened and closed
  MaxSets, MaxCommits, MaxCrashes,
  NULL

VARIABLES
  flash,     \* struct flash: erase_blocks, curr_block, mode, and the erase blocks (map)
  chip,      \* the hardware: contents and mode
  nv,        \* nvram_header and nvram_tuples
  pc, arg,   \* next step of each thread and the argument of its call
  log        \* what was written last (last), what reads returned that was not (bad),
             \* what was thrown away (lost), what was copied into an entry that counts
             \* as written (early), and counters

vars == <<semvars, flash, chip, nv, pc, arg, log>>

Sum(n, f(_)) == LET s[i \in 0 .. n] == IF i = 0 THEN 0 ELSE s[i - 1] + f(i) IN s[n]

RegionSize(r) == Regions[r].nblocks * Regions[r].block_size
RegionEnd(r) == Sum(r, RegionSize)
nlog_blocks == RegionEnd(Len(Regions))

-----------------------------------------------------------------------------
(* logicalMap(): the erase block of a logical block.                       *)

bad_block == NULL

\* The first region and in it the first erase block that end behind b.
logicalMap(b) ==
  IF b >= nlog_blocks THEN bad_block
  ELSE LET r == CHOOSE r \in 1 .. Len(Regions) :
                  RegionEnd(r) > b /\ (r > 1 => RegionEnd(r - 1) <= b)
           s == Regions[r].block_size
           start == RegionEnd(r) - RegionSize(r)
           e == CHOOSE e \in 0 .. Regions[r].nblocks - 1 :
                  start + (e + 1) * s > b /\ start + e * s <= b
       IN [start |-> start + e * s, size |-> s]

\* Erase blocks as they follow from the regions that flashInit() finds.
Of(b) == IF b \in DOMAIN flash.map THEN flash.map[b] ELSE bad_block

\* The last logical block: there are the settings.
Last == Cardinality(DOMAIN flash.map) - 1

ContentsOf(c, e) == [i \in 0 .. e.size - 1 |-> c[e.start + i]]

-----------------------------------------------------------------------------
(* The chip.  It answers reads with its contents only in mode READ.        *)

\* The settings as they are in flash: the length in the header and the pairs.
NoSettings == [length |-> 20, pairs |-> <<>>]
Erased(b) == IF b = Last THEN [length |-> 0, pairs |-> <<>>] ELSE "erased"

Block(e) == [start |-> e.start, size |-> e.size]

\* The commands of the functions of physicalIntelControl(), in their order.
\* UNLOCK and LOCK end with a query, which brings the chip back to READ.
physicalIntelControl(func) ==
  CASE func = "LOCKED" -> <<"READ_ID", "READ">>
    [] func = "STATUS" -> <<"STATUS">>
    [] OTHER -> <<"BLOCKMOD", "READ", "READ_ID", "READ">>

physicalIntelErase == <<"ERASE", "CONFIRM">> \o physicalIntelControl("STATUS") \o <<"READ">>

Written(e) == e.start > CFE_MAX_BLOCK /\ Block(e) \notin Hard

\* Only a dirty block outside the boot loader is written; a locked one is unlocked
\* first, or left alone if that fails, and locked again afterwards.
physicalIntelWrite(e) ==
  IF e.state # "DIRTY" \/ e.start <= CFE_MAX_BLOCK THEN <<>>
  ELSE LET lock_if(func) ==
             IF Block(e) \in Locked THEN physicalIntelControl(func) ELSE <<>>
       IN physicalIntelControl("LOCKED") \o lock_if("UNLOCK")
            \o (IF Written(e)
                THEN physicalIntelErase \o <<"CLR_SR", "PROGRAM", "READ_SR", "READ">>
                       \o lock_if("LOCK")
                ELSE <<>>)

\* FLASH_MODE: a command goes out unless the device is known to be in that mode;
\* the status query and the lock commands go out without changing what is known.
After(cmds) ==
  LET m[i \in 0 .. Len(cmds)] ==
        CASE i = 0 -> <<flash.mode, chip.mode>>
          [] i > 0 /\ cmds[i] = "STATUS" -> <<m[i - 1][1], "READ">>
          [] i > 0 /\ cmds[i] = "BLOCKMOD" -> <<m[i - 1][1], "BLOCKMOD">>
          [] OTHER -> IF m[i - 1][1] = cmds[i] THEN m[i - 1] ELSE <<cmds[i], cmds[i]>>
  IN m[Len(cmds)]

\* Contents with erase block e replaced.
Replaced(e, data) ==
  [b \in DOMAIN chip.nor |->
     IF b \in e.start .. e.start + e.size - 1 THEN data[b - e.start] ELSE chip.nor[b]]

\* There is no code to write a chip with the AMD commands.
Goes(e) == e.state = "DIRTY" /\ commands = "INTEL_SCS" /\ Written(e)

physicalWrite(e, modes) ==
  /\ chip' = [mode |-> modes[2],
              nor |-> IF Goes(e) THEN Replaced(e, e.data) ELSE chip.nor]
  /\ flash'.mode = modes[1]

Modes(e) ==
  IF commands = "INTEL_SCS" THEN After(physicalIntelWrite(e)) ELSE <<flash.mode, chip.mode>>

\* What a read of the chip yields.
Contents(e) ==
  IF chip.mode = "READ" THEN ContentsOf(chip.nor, e) ELSE [i \in 0 .. e.size - 1 |-> NULL]

-----------------------------------------------------------------------------

\* The entry says who is about to copy data into its buffer.
FreeEntry == [start |-> 0, size |-> 0, state |-> "FREE", data |-> NULL, writer |-> NULL]

Boot == [map |-> [b \in 0 .. nlog_blocks - 1 |-> logicalMap(b)],
         blocks |-> [n \in 0 .. MAX_LIVE_BLOCKS - 1 |-> FreeEntry], curr |-> 0,
         mode |-> "READ"]

Uninit == [init |-> FALSE, length |-> 0, tuples |-> <<>>]

Threads == Users \union Committers

flashInit ==
  /\ live = [s \in Sem |-> TRUE] /\ value = [s \in Sem |-> 1]
  /\ waiting = [s \in Sem |-> <<>>]
  /\ flash = Boot
  /\ chip = [mode |-> "READ",
             nor |-> [b \in 0 .. nlog_blocks - 1 |->
                        IF b = nlog_blocks - 1 THEN NoSettings ELSE "old"]]

Init ==
  /\ flashInit
  /\ nv = Uninit
  /\ pc = [t \in Threads |-> "idle"] /\ arg = [t \in Threads |-> NULL]
  /\ log = [last |-> [b \in Blocks |-> "old"], bad |-> {}, lost |-> {}, early |-> {},
            opened |-> FALSE, torn |-> FALSE, committed |-> NoSettings, twin |-> FALSE, sets |-> 0,
            commits |-> 0, crashes |-> 0]

At(t, step) == pc[t] = step /\ ~Blocked(t)

Goto(t, step, a) == pc' = [pc EXCEPT ![t] = step] /\ arg' = [arg EXCEPT ![t] = a]

-----------------------------------------------------------------------------
(* flashOpen() takes the lock, and flashClose() gives it back unless a     *)
(* block is dirty.                                                         *)

flashOpen(t) ==
  /\ Opens /\ At(t, "idle") /\ ~log.opened /\ wait(t, lock) /\ Goto(t, "open", NULL)
  /\ UNCHANGED <<flash, chip, nv, log>>

open_clear(t) ==
  /\ At(t, "open") /\ Goto(t, "idle", NULL)
  /\ flash' = [flash EXCEPT !.blocks = Boot.blocks]
  /\ log' = [log EXCEPT !.opened = TRUE, !.last = [b \in Blocks |-> chip.nor[b]]]
  /\ UNCHANGED <<semvars, chip, nv>>

flashClose(t) ==
  /\ Opens /\ At(t, "idle") /\ log.opened
  /\ flash' = [flash EXCEPT !.blocks = [n \in DOMAIN @ |->
       IF \E m \in 0 .. n : @[m].state = "DIRTY" THEN @[n] ELSE FreeEntry]]
  /\ IF \E n \in DOMAIN flash.blocks : flash.blocks[n].state = "DIRTY"
     THEN UNCHANGED <<semvars, log>>
     ELSE signal(lock) /\ log' = [log EXCEPT !.opened = FALSE]
  /\ UNCHANGED <<chip, nv, pc, arg>>

-----------------------------------------------------------------------------
(* flashRead() and flashWrite().                                           *)

flashCall(t, step, a) ==
  /\ At(t, "idle") /\ wait(t, lock) /\ Goto(t, step, a)
  /\ UNCHANGED <<flash, chip, nv, log>>

flashRead(t) == \E b \in Blocks : flashCall(t, "rd", [block |-> b, val |-> NULL])

flashWrite(t) ==
  \E b \in Blocks, v \in Values : flashCall(t, "wr", [block |-> b, val |-> v])

Cached(e) ==
  {n \in DOMAIN flash.blocks :
     flash.blocks[n].state # "FREE" /\ flash.blocks[n].start = e.start}

\* The entry that is found: the search starts at the oldest one.
Found(e) ==
  CHOOSE n \in Cached(e) : \A m \in Cached(e) :
    (n - flash.curr) % MAX_LIVE_BLOCKS <= (m - flash.curr) % MAX_LIVE_BLOCKS

\* The record of replacing the entry at curr_block by a copy of e: what is lost, as
\* it is not what the chip holds, and whether there is another copy.
Replacing(lg, e) ==
  LET old == flash.blocks[flash.curr]
  IN [lg EXCEPT !.twin = @ \/ \E n \in Cached(e) : n # flash.curr,
        !.lost = @ \union {b \in Blocks \cap (old.start .. old.start + old.size - 1) :
                             old.data[b - old.start] # chip.nor[b]}]

\* The call returns v for block b.
Return(t, b, v, lg) ==
  /\ signal(lock) /\ Goto(t, "idle", NULL)
  /\ log' = [lg EXCEPT !.bad = IF v # lg.last[b] THEN @ \union {b} ELSE @]

read_cached(t) ==
  /\ At(t, "rd") /\ Of(arg[t].block) # bad_block
  /\ LET b == arg[t].block  e == Of(b)
     IN /\ Cached(e) # {}
        /\ Return(t, b, flash.blocks[Found(e)].data[b - e.start], log)
  /\ UNCHANGED <<flash, chip, nv>>

\* No such block, or one that holds the boot loader, the kernel or the settings.
Refused(t) ==
  \/ Of(arg[t].block) = bad_block
  \/ /\ pc[t] = "wr"
     /\ \/ arg[t].block <= KERNEL_MAX_BLOCK \/ arg[t].block >= NVRAM_MIN_BLOCK

call_refused(t) ==
  /\ pc[t] \in {"rd", "wr"} /\ ~Blocked(t) /\ Refused(t)
  /\ signal(lock) /\ Goto(t, "idle", NULL) /\ UNCHANGED <<flash, chip, nv, log>>

\* An attempt to write entry n, which is clean then if it is locked as before; modes
\* are those afterwards.
Sync(n, modes) ==
  /\ flash' = [flash EXCEPT !.mode = modes[1], !.blocks[n].state =
                 IF Goes(flash.blocks[n]) /\ Block(flash.blocks[n]) \notin Loose
                 THEN "CLEAN" ELSE @]
  /\ physicalWrite(flash.blocks[n], modes)

\* The oldest entry makes room; its buffer is not given back.
evict == Sync(flash.curr, Modes(flash.blocks[flash.curr]))


call_evict(t) ==
  /\ pc[t] \in {"rd", "wr"} /\ ~Blocked(t) /\ ~Refused(t)
  /\ Cached(Of(arg[t].block)) = {}
  /\ evict /\ Goto(t, IF pc[t] = "rd" THEN "rd2" ELSE "wr2", arg[t])
  /\ UNCHANGED <<semvars, nv, log>>

\* physicalIntelRead(), physicalAMDRead(): the entry goes where the oldest was.
Load(e, state, data, mode, t) ==
  flash' = [flash EXCEPT !.mode = mode, !.curr = (@ + 1) % MAX_LIVE_BLOCKS,
    !.blocks[flash.curr] = [start |-> e.start, size |-> e.size, state |-> state,
                            data |-> data, writer |-> t]]

read_load(t) ==
  /\ At(t, "rd2")
  /\ LET b == arg[t].block  e == Of(b)
     IN /\ Load(e, "CLEAN", Contents(e), flash.mode, NULL)
        /\ Return(t, b, Contents(e)[b - e.start], Replacing(log, e))
  /\ UNCHANGED <<chip, nv>>

\* All of a dirty entry is written the next time, also what came too late before and
\* is not lost yet.
Marked(lg, e) == [lg EXCEPT !.early = {b \in @ : Of(b) # e \/ b \in lg.lost}]

\* The entry is marked first; the data is copied later, and nothing keeps FLASH_SYNC
\* or a commit from coming in between.
write_cached(t) ==
  /\ At(t, "wr") /\ ~Refused(t)
  /\ LET e == Of(arg[t].block)
     IN /\ Cached(e) # {}
        /\ flash' = [flash EXCEPT !.blocks[Found(e)].state = "DIRTY",
                                  !.blocks[Found(e)].writer = t]
        /\ log' = Marked(log, e)
  /\ Goto(t, "wr3", arg[t]) /\ UNCHANGED <<semvars, chip, nv>>

write_load(t) ==
  /\ At(t, "wr2")
  /\ LET e == Of(arg[t].block)
     IN /\ Load(e, "DIRTY", Contents(e), flash.mode, t)
        /\ log' = Marked(Replacing(log, e), e)
  /\ Goto(t, "wr3", arg[t]) /\ UNCHANGED <<semvars, chip, nv>>

\* The data goes into the buffer, whatever became of its entry.
write_copy(t) ==
  /\ At(t, "wr3")
  /\ LET b == arg[t].block
         mine == {n \in DOMAIN flash.blocks : flash.blocks[n].writer = t}
         late == \A n \in mine : flash.blocks[n].state # "DIRTY"
     IN /\ flash' = [flash EXCEPT !.blocks = [n \in DOMAIN @ |->
             IF n \notin mine THEN @[n]
             ELSE [@[n] EXCEPT !.writer = NULL, !.data[b - Of(b).start] = arg[t].val]]]
        /\ log' = [log EXCEPT !.last[b] = arg[t].val, !.bad = @ \ {b},
                              !.lost = IF mine = {} THEN @ \union {b} ELSE @ \ {b},
                              !.early = IF late THEN @ \union {b} ELSE @ \ {b}]
  /\ signal(lock) /\ Goto(t, "idle", NULL) /\ UNCHANGED <<chip, nv>>

\* FLASH_SYNC of one logical block, without the lock.
flashControl(t) ==
  /\ At(t, "idle")
  /\ \E b \in Blocks :
       /\ Of(b) # bad_block /\ Cached(Of(b)) # {}
       /\ \E n \in {Found(Of(b))} : Sync(n, Modes(flash.blocks[n]))
  /\ UNCHANGED <<semvars, nv, pc, arg, log>>

-----------------------------------------------------------------------------
(* The settings: lists of pairs, one per hash value.                       *)

Pair(n, v) == n \o <<"=">> \o v

Prefix(n, p) == Len(n) <= Len(p) /\ SubSeq(p, 1, Len(n)) = n

\* The pairs in the order of the table: by hash, then by age.
Matches(n) ==
  {i \in 1 .. Len(nv.tuples) : nv.tuples[i].hash = Hash[n] /\ Prefix(n, nv.tuples[i].pair)}

First(n) == CHOOSE i \in Matches(n) : \A j \in Matches(n) : i <= j

nvramGet(n) ==
  IF Matches(n) = {} THEN NULL
  ELSE SubSeq(nv.tuples[First(n)].pair, Len(n) + 2, Len(nv.tuples[First(n)].pair))

Drop(s, i) == SubSeq(s, 1, i - 1) \o SubSeq(s, i + 1, Len(s))

Without(s, n) ==
  IF Matches(n) = {} THEN s
  ELSE [s EXCEPT !.tuples = Drop(@, First(n)),
                 !.length = @ - (Len(s.tuples[First(n)].pair) + 1)]

nvramInsert(s, n, v) ==
  [s EXCEPT !.tuples = Append(@, [hash |-> Hash[n], pair |-> Pair(n, v)]),
            !.length = @ + Len(Pair(n, v)) + 1]

Sizes(ts) == Sum(Len(ts), LAMBDA i : Len(ts[i].pair) + 1)

\* What is in flash is read, not what is in the cache.
nvramInit(t) ==
  /\ At(t, "idle") /\ ~nv.init
  /\ LET s == chip.nor[Last]
     IN /\ s.length > 0
        /\ nv' = [init |-> TRUE, tuples |-> s.pairs, length |-> 20 + Sizes(s.pairs)]
  /\ UNCHANGED <<semvars, flash, chip, pc, arg, log>>

\* An old setting is removed first; then there may be no memory for the new one.
nvramSet(t) ==
  /\ At(t, "idle") /\ nv.init /\ log.sets < MaxSets
  /\ \E n \in Names, v \in Strings :
       \/ nv' = nvramInsert(Without(nv, n), n, v)
       \/ nv' = Without(nv, n)
  /\ log' = [log EXCEPT !.sets = @ + 1]
  /\ UNCHANGED <<semvars, flash, chip, pc, arg>>

nvramUnset(t) ==
  /\ At(t, "idle") /\ nv.init /\ \E n \in Names : Matches(n) # {} /\ nv' = Without(nv, n)
  /\ UNCHANGED <<semvars, flash, chip, pc, arg, log>>

\* The length is rounded up and stays so; the erase block of the settings is
\* always loaded once more, behind the back of the lock.
nvramCommit(t) ==
  /\ At(t, "idle") /\ nv.init /\ log.commits < MaxCommits
  /\ nv' = [nv EXCEPT !.length = ((@ + 2 + 3) \div 4) * 4]
  /\ evict
  /\ Goto(t, "commit", [length |-> nv'.length, pairs |-> nv.tuples])
  /\ log' = [log EXCEPT !.commits = @ + 1]
  /\ UNCHANGED semvars

Settings == Of(NVRAM_MIN_BLOCK)

\* The block as it was loaded, with the settings: written at once, and the entry
\* of the cache, whose buffer it shares, counts as clean.
Committed(t) == [Contents(Settings) EXCEPT ![Settings.size - 1] = arg[t]]

commit_sync(t) ==
  /\ At(t, "commit")
  /\ LET e == [start |-> Settings.start, size |-> Settings.size, state |-> "DIRTY",
               data |-> Committed(t)]
     IN /\ Load(Settings, "CLEAN", Committed(t), Modes(e)[1], NULL)
        /\ physicalWrite(e, Modes(e))
  /\ log' = [Replacing(log, Settings) EXCEPT !.committed = arg[t]]
  /\ Goto(t, "idle", NULL) /\ UNCHANGED <<semvars, nv>>

-----------------------------------------------------------------------------

\* The machine restarts, perhaps between erasing and programming a block.
Restart ==
  /\ log.crashes < MaxCrashes
  /\ \/ UNCHANGED chip
     \/ \E e \in {Block(flash.blocks[n]) :
                   n \in {m \in DOMAIN flash.blocks : Goes(flash.blocks[m])}}
               \union {Settings : t \in {u \in Committers : pc[u] = "commit"}} :
          chip' = [mode |-> "READ", nor |-> Replaced(e, [i \in 0 .. e.size - 1 |-> Erased(e.start + i)])]
  /\ log' = [log EXCEPT !.crashes = @ + 1, !.bad = {}, !.lost = {}, !.early = {},
               !.opened = FALSE,
               !.last = [b \in Blocks |-> chip'.nor[b]],
               !.torn = @ \/ chip'.nor[Last] # chip.nor[Last]]
  /\ flash' = Boot /\ nv' = Uninit
  /\ value' = [s \in Sem |-> 1] /\ waiting' = [s \in Sem |-> <<>>] /\ UNCHANGED live
  /\ pc' = [t \in Threads |-> "idle"] /\ arg' = [t \in Threads |-> NULL]

Next ==
  \/ \E t \in Users :
       \/ flashOpen(t) \/ open_clear(t) \/ flashClose(t) \/ flashRead(t) \/ flashWrite(t)
       \/ call_refused(t) \/ read_cached(t) \/ call_evict(t) \/ read_load(t)
       \/ write_cached(t) \/ write_load(t) \/ write_copy(t) \/ flashControl(t)
  \/ \E t \in Committers :
       nvramInit(t) \/ nvramSet(t) \/ nvramUnset(t) \/ nvramCommit(t) \/ commit_sync(t)
  \/ Restart

Spec == Init /\ [][Next]_vars

-----------------------------------------------------------------------------

TypeOK ==
  /\ flash.curr \in 0 .. MAX_LIVE_BLOCKS - 1
  /\ \A n \in DOMAIN flash.blocks : flash.blocks[n].state \in {"FREE", "CLEAN", "DIRTY"}
  /\ DOMAIN chip.nor = 0 .. Last

\* logicalMap() finds the erase block that holds the logical block, and erase
\* blocks do not overlap.
MapRight ==
  \A b \in 0 .. Last :
    /\ Of(b).start <= b /\ b < Of(b).start + Of(b).size
    /\ \A c \in 0 .. Last :
         c \in Of(b).start .. Of(b).start + Of(b).size - 1
           => Of(c) = Of(b)

\* A read returns what was written last, whatever was evicted in between, unless
\* the entry was replaced before the chip held its data or lies next to settings of
\* which the cache has two copies.
ReadsBack ==
  \A b \in log.bad : b \in log.lost \/ (log.twin /\ Of(b) = Settings)

\* An entry whose data the chip does not hold is replaced only if its erase block
\* cannot be written, if a commit and a read or write come between each other's
\* eviction and loading, or if the entry was synchronised between being marked
\* dirty and being filled and was not written to since.
NothingLost ==
  \A b \in log.lost :
    Of(b) \in Hard \/ commands = "AMD_SCS" \/ log.commits > 0 \/ b \in log.early

\* One erase block is in the cache at most once, the one of the settings excepted.
OneCopy ==
  \A m, n \in DOMAIN flash.blocks :
    /\ m # n /\ flash.blocks[m].state # "FREE" /\ flash.blocks[n].state # "FREE"
    /\ flash.blocks[m].start = flash.blocks[n].start
    => flash.blocks[m].start = Settings.start /\ log.commits > 0

\* The boot loader and the kernel are never written, and the chip is always left
\* in the mode in which its contents can be read.
Protected ==
  /\ chip.mode = "READ" /\ flash.mode = "READ"
  /\ \A b \in 0 .. KERNEL_MAX_BLOCK : chip.nor[b] = "old"

\* While the device is open its lock is taken: no read or write gets anywhere.
OpenExcludes ==
  log.opened => value[lock] = 0 /\ \A t \in Users :
    pc[t] \in {"rd", "wr", "rd2", "wr2", "wr3"} => Blocked(t)

\* The settings in flash are the ones of the last commit, unless an older copy of
\* their erase block was in the cache then, or power failed while it was written.
SettingsKept ==
  chip.nor[Last] = log.committed \/ log.twin \/ log.torn
    \/ Settings \in Hard \/ commands # "INTEL_SCS"

\* The length covers the pairs, with the end mark that a commit adds; it grows
\* with every commit.
LengthCovers == nv.init => nv.length >= 20 + Sizes(nv.tuples)

\* A name finds its own value, unless a longer name with the same hash came first.
GetsOwn ==
  nv.init => \A n \in Names :
    nvramGet(n) = NULL
    \/ \E i \in Matches(n) : nv.tuples[i].pair = Pair(n, nvramGet(n))
    \/ \E m \in Names : m # n /\ Prefix(n, m) /\ Hash[m] = Hash[n]

=============================================================================
