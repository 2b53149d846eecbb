------------------------------ MODULE Commands ------------------------------
(***************************************************************************)
(* The commands of the shell that configure the system or show its state   *)
(* (src/shell/xsh_*.c), typed in several shells at once.  A command checks *)
(* its arguments and calls the network, nvram, mailbox or device code that *)
(* other modules are about; here are the checks, the order of the calls,   *)
(* and where another shell can come in between: between the look at the    *)
(* table of interfaces and its use, and between the lines of a listing.    *)
(*                                                                         *)
(* Interfaces are slots of netiftab.  Addresses and masks are "0", which   *)
(* the empty string and "default" stand for too, and others; "bad" is no   *)
(* address and no device.                                                  *)
(***************************************************************************)
EXTENDS Integers, Sequences, FiniteSets

CONSTANTS
  Shells,           \* shells that run commands
  Typed,            \* command lines, as sequences of words
  NNETIF, NET_NTHR, RT_NENTRY, NTELNET, SYSERR,
  NetDevs,          \* devices an interface can be started on; the first is ETH0
  MaxCommands       \* bound: commands run in a behaviour

VARIABLES
  netif,            \* netiftab: the device of each slot, "" when free
  rt,               \* rttab: each entry, and the slot its nif points to (0: NULL)
  sys,              \* nvram settings, LEDs, Telnet servers, the mailboxes of xsh_user()
  run,              \* the shells: command, next step, slot or entry looked at
  log               \* what was done: see Init

vars == <<netif, rt, sys, run, log>>

OK == 1
SHELL_OK == 0
SHELL_ERROR == 1

Help(args) == Len(args) = 2 /\ args[2] = "--help"
Address(a) == a # "bad"
Device(d) == d \in NetDevs \union {"CONSOLE"}
Zero(a) == IF a \in {"default", ""} THEN "0" ELSE a

Free == [used |-> FALSE, dst |-> "", gate |-> "", mask |-> "", nif |-> 0]
Quiet == [pc |-> "", args |-> <<>>, n |-> 0, dev |-> ""]

Init ==
  /\ netif = [i \in 1 .. NNETIF |-> ""]
  /\ rt = [i \in 1 .. RT_NENTRY |-> Free]
  /\ sys = [nvram |-> {}, flash |-> {}, led |-> {}, telnet |-> {}, servers |-> <<>>,
            box |-> 0, boxes |-> 0]
  /\ run = [s \in Shells |-> Quiet]
  /\ log = [n |-> 0,
            last |-> [args |-> <<>>, status |-> 0, changed |-> FALSE],
            raced |-> FALSE,       \* an interface went down between look and use
            wiped |-> FALSE,       \* netDown() cleared another interface as well
            dangling |-> FALSE]    \* a listing followed a pointer that was gone

-----------------------------------------------------------------------------
(* Commands that show something: they change nothing.  Each gives its status.*)

Shows(args, most, help) ==
  IF Help(args) THEN help ELSE IF Len(args) > most THEN SYSERR ELSE OK

xsh_date(args) == Shows(args, 1, OK)
xsh_netstat(args) == Shows(args, 1, OK)
xsh_tcpstat(args) == Shows(args, 1, OK)
xsh_udpstat(args) == Shows(args, 1, OK)
xsh_arp(args) == Shows(args, 1, OK)

\* The date is asked of a server; whether it answers makes no difference.
xsh_rdate(args) == Shows(args, 2, OK)

\* These return 0 and 1 instead of OK and SYSERR.
Tells(args, most, help) ==
  IF Help(args) THEN help ELSE IF Len(args) > most THEN 1 ELSE 0

xsh_clear(args) == Tells(args, 1, 1)
xsh_gpiostat(args) == Tells(args, 1, 1)
xsh_flashstat(args) == Tells(args, 1, 0)
xsh_vlanstat(args) == Tells(args, 1, 1)
xsh_ps(args) == Tells(args, 1, 0)

\* help of a command calls it with --help.
xsh_help(args) ==
  IF Help(args) THEN 0 ELSE IF Len(args) > 2 THEN 1
  ELSE IF Len(args) = 2 /\ args[2] = "bad" THEN 1 ELSE 0

\* One Ethernet device: number "0".
xsh_ethstat(args) ==
  IF Help(args) THEN 1 ELSE IF Len(args) < 2 THEN 0
  ELSE IF Len(args) > 3 \/ (Len(args) = 3 /\ args[2] # "-t") THEN 1
  ELSE IF args[Len(args)] = "0" THEN 0 ELSE 1

\* sleep() refuses a negative delay; the command only reports it first.
xsh_sleep(args) ==
  IF Help(args) THEN 0 ELSE IF Len(args) # 2 THEN 1 ELSE IF args[2] = "-1" THEN SYSERR ELSE 0

Showing(args) ==
  CASE args[1] = "date" -> xsh_date(args)
    [] args[1] = "netstat" -> xsh_netstat(args)
    [] args[1] = "tcpstat" -> xsh_tcpstat(args)
    [] args[1] = "udpstat" -> xsh_udpstat(args)
    [] args[1] = "arp" -> xsh_arp(args)
    [] args[1] = "rdate" -> xsh_rdate(args)
    [] args[1] = "clear" -> xsh_clear(args)
    [] args[1] = "gpiostat" -> xsh_gpiostat(args)
    [] args[1] = "flashstat" -> xsh_flashstat(args)
    [] args[1] = "vlanstat" -> xsh_vlanstat(args)
    [] args[1] = "ps" -> xsh_ps(args)
    [] args[1] = "help" -> xsh_help(args)
    [] args[1] = "ethstat" -> xsh_ethstat(args)
    [] args[1] = "sleep" -> xsh_sleep(args)

Showers == {"date", "netstat", "tcpstat", "udpstat", "arp", "rdate", "clear", "gpiostat",
            "flashstat", "vlanstat", "ps", "help", "ethstat", "sleep"}

-----------------------------------------------------------------------------
(* Commands that set something in one step: status and new sys *)

Leds == {"dmz", "wlan", "power", "ciscow", "ciscoo"}

\* An unknown LED is reported, and LED 0 is switched all the same.
xsh_led(args) ==
  IF Help(args) THEN <<0, sys>>
  ELSE IF Len(args) # 3 THEN <<1, sys>>
  ELSE LET led == IF args[2] \in Leds THEN args[2] ELSE "0" IN
       <<0, IF args[3] = "on" THEN [sys EXCEPT !.led = @ \union {led}]
            ELSE IF args[3] = "off" THEN [sys EXCEPT !.led = @ \ {led}] ELSE sys>>

\* A name and its value, as set in memory.
xsh_nvramSet(pair, value) ==
  IF value = "" THEN <<SYSERR, sys>>
  ELSE <<OK, [sys EXCEPT !.nvram = {p \in @ : p[1] # pair} \union {<<pair, value>>}]>>

\* "set n v" stands for "set n=v".  Without nvram the command goes on.
xsh_nvram(args) ==
  IF Len(args) = 2 /\ args[2] = "list" THEN <<0, sys>>
  ELSE IF Len(args) = 3 /\ args[2] = "get"
  THEN <<IF \E p \in sys.nvram : p[1] = args[3] THEN 0 ELSE 1, sys>>
  ELSE IF Len(args) = 4 /\ args[2] = "set" THEN xsh_nvramSet(args[3], args[4])
  ELSE IF Len(args) = 3 /\ args[2] = "unset"
  THEN <<IF \E p \in sys.nvram : p[1] = args[3] THEN OK ELSE SYSERR,
         [sys EXCEPT !.nvram = {p \in @ : p[1] # args[3]}]>>
  ELSE IF Len(args) = 2 /\ args[2] = "commit" THEN <<OK, [sys EXCEPT !.flash = sys.nvram]>>
  ELSE <<1, sys>>

\* System calls by number; those on a device are left to its module.  A mailbox
\* is forgotten when another is allocated.
xsh_user(args) ==
  IF Len(args) # 2 THEN <<1, sys>>
  ELSE IF args[2] = "13" THEN <<0, [sys EXCEPT !.box = 1, !.boxes = @ + 1]>>
  ELSE IF args[2] = "14"
  THEN <<0, [sys EXCEPT !.boxes = IF sys.box = 1 /\ @ > 0 THEN @ - 1 ELSE @, !.box = 0]>>
  ELSE <<0, sys>>

\* The options of telnetserver, up to the first that is wrong.
server_option(p, a) ==
  IF p.error THEN p
  ELSE IF p.opt # "" THEN [p EXCEPT !.opt = "", ![IF p.opt = "-d" THEN "dev" ELSE "port"] = a]
  ELSE IF a \in {"-d", "-p"} THEN [p EXCEPT !.opt = a] ELSE [p EXCEPT !.error = TRUE]

server_options(args) ==
  LET loop[n \in 1 .. Len(args)] ==
        IF n = 1 THEN [dev |-> "ETH0", port |-> "23", opt |-> "", error |-> FALSE]
        ELSE server_option(loop[n - 1], args[n])
  IN loop[Len(args)]

\* Every server gets a device of telnetAlloc(); when none is left it is SYSERR, and
\* the thread is started with it.
spawn(tn) ==
  LET round[n \in 0 .. NTELNET] ==
        IF n = 0 THEN tn
        ELSE LET free == (1 .. NTELNET) \ round[n - 1].telnet IN
             IF free = {} THEN [round[n - 1] EXCEPT !.servers = Append(@, SYSERR)]
             ELSE LET d == CHOOSE d \in free : \A e \in free : d <= e IN
                  [round[n - 1] EXCEPT !.telnet = @ \union {d}, !.servers = Append(@, d)]
  IN round[NTELNET]

\* -h kills the servers and leaves their devices allocated.
xsh_telnetserver(args) ==
  IF Help(args) THEN <<0, sys>>
  ELSE IF Len(args) = 2 /\ args[2] = "-h" THEN <<0, [sys EXCEPT !.servers = <<>>]>>
  ELSE IF Len(args) > 5 THEN <<SHELL_ERROR, sys>>
  ELSE LET p == server_options(args) IN
       IF p.error \/ p.opt # "" \/ ~Device(p.dev) \/ p.port \in {"0", "bad"}
       THEN <<SHELL_ERROR, sys>> ELSE <<SHELL_OK, spawn(sys)>>

Setting(args) ==
  CASE args[1] = "led" -> xsh_led(args)
    [] args[1] = "nvram" -> xsh_nvram(args)
    [] args[1] = "user" -> xsh_user(args)
    [] args[1] = "telnetserver" -> xsh_telnetserver(args)

Setters == {"led", "nvram", "user", "telnetserver"}

-----------------------------------------------------------------------------
(* Running a command *)

At(s, step) == run[s].pc = step
Start(s, args) ==
  /\ At(s, "") /\ log.n < MaxCommands /\ args \in Typed
Done(s) == run' = [run EXCEPT ![s] = Quiet]

\* The command ends; ghost: what it returned and whether it changed anything.
Result(args, status, changed) ==
  log' = [log EXCEPT !.n = @ + 1, !.last = [args |-> args, status |-> status, changed |-> changed]]
Ended(s, status, changed) == Result(run[s].args, status, changed) /\ Done(s)

show(s) ==
  \E args \in Typed :
    /\ Start(s, args) /\ args[1] \in Showers
    /\ Result(args, Showing(args), FALSE)
    /\ UNCHANGED <<netif, rt, sys, run>>

set(s) ==
  \E args \in Typed :
    /\ Start(s, args) /\ args[1] \in Setters
    /\ sys' = Setting(args)[2]
    /\ Result(args, Setting(args)[1], sys' # sys)
    /\ UNCHANGED <<netif, rt, run>>

-----------------------------------------------------------------------------
(* netup, netdown, route, arp *)

Up == {netif[i] : i \in DOMAIN netif} \ {""}
Slots(dev) == {i \in DOMAIN netif : netif[i] = dev}

\* rtAdd(): the first free entry, if there is one.
rtAdd(tab, dst, gate, mask, nif) ==
  LET free == {i \in DOMAIN tab : ~tab[i].used} IN
  IF free = {} THEN tab
  ELSE [tab EXCEPT ![CHOOSE i \in free : \A j \in free : i <= j] =
          [used |-> TRUE, dst |-> IF mask = "0" THEN "0" ELSE dst, gate |-> gate, mask |-> mask,
           nif |-> nif]]
rtDefault(tab, gate, nif) ==
  IF \E i \in DOMAIN tab : tab[i].used /\ tab[i].mask = "0" THEN tab
  ELSE rtAdd(tab, "0", gate, "0", nif)

\* An address of nvram, or 0.0.0.0.
nvramGet(name) ==
  IF \E p \in sys.nvram : p[1] = name THEN (CHOOSE p \in sys.nvram : p[1] = name)[2] ELSE "0"

\* What is to be started, from the arguments or from nvram; <<>> if it is refused.
netup_args(args) ==
  LET dev == IF Len(args) > 1 THEN args[2] ELSE "ETH0"
      given == IF Len(args) = 5 THEN <<args[3], args[4], args[5]>>
               ELSE <<nvramGet("ipaddr"), nvramGet("netmask"), nvramGet("gateway")>>
  IN IF ~Device(dev) \/ Len(args) \in {3, 4} \/ Len(args) > 5
        \/ \E n \in 1 .. 3 : ~Address(given[n])
     THEN <<>> ELSE <<dev>> \o given

\* netUp() runs with interrupts disabled.  It takes a slot, and adds routes as far
\* as there is room.  The gateway is always given, also 0.0.0.0.
netUp(c) ==
  IF c[1] \notin NetDevs \/ c[1] \in Up \/ Slots("") = {} THEN UNCHANGED <<netif, rt>>
  ELSE LET i == CHOOSE i \in Slots("") : \A j \in Slots("") : i <= j IN
       /\ netif' = [netif EXCEPT ![i] = c[1]]
       /\ rt' = rtDefault(rtAdd(rt, c[2], "", c[3], i), c[4], i)

xsh_netup(s) ==
  \E args \in Typed :
    /\ Start(s, args) /\ args[1] = "netup"
    /\ IF Help(args) \/ netup_args(args) = <<>> THEN UNCHANGED <<netif, rt>>
       ELSE netUp(netup_args(args))
    /\ Result(args, IF Help(args) \/ netif' # netif THEN SHELL_OK ELSE SHELL_ERROR,
              <<netif, rt>>' # <<netif, rt>>)
    /\ UNCHANGED <<sys, run>>

\* netDown() looks for the interface with interrupts enabled.
xsh_netdown(s) ==
  \E args \in Typed :
    /\ Start(s, args) /\ args[1] = "netdown"
    /\ IF Help(args) THEN Result(args, SHELL_OK, FALSE) /\ UNCHANGED run
       ELSE IF Len(args) = 2 /\ Device(args[2]) /\ args[2] \in Up
       THEN /\ run' = [run EXCEPT ![s] = [pc |-> "netDown", args |-> args, dev |-> args[2],
                                          n |-> CHOOSE i \in Slots(args[2]) : TRUE]]
            /\ UNCHANGED log
       ELSE Result(args, SHELL_ERROR, FALSE) /\ UNCHANGED run
    /\ UNCHANGED <<netif, rt, sys>>

rtClear(tab, nif) == [i \in DOMAIN tab |-> IF tab[i].nif = nif THEN Free ELSE tab[i]]

\* The index behind the loop over the receive threads, if netiftab has that slot.
Wiped == {NET_NTHR + 1} \intersect DOMAIN netif

\* Then the slot, whatever it holds now, is freed with its routes.  bzero() is given
\* the index of the loop over the receive threads, and clears that slot.
netDown(s) ==
  /\ At(s, "netDown")
  /\ rt' = rtClear(rt, run[s].n)
  /\ netif' = [i \in DOMAIN netif |-> IF i \in Wiped \union {run[s].n} THEN "" ELSE netif[i]]
  /\ log' = [log EXCEPT !.n = @ + 1,
                        !.last = [args |-> run[s].args, status |-> SHELL_OK, changed |-> TRUE],
                        !.raced = @ \/ netif[run[s].n] # run[s].dev,
                        !.wiped = @ \/ \E i \in Wiped \ {run[s].n} : netif[i] # ""]
  /\ Done(s)
  /\ UNCHANGED sys

\* route add: the arguments, and the slot of the interface.
xsh_route(s) ==
  \E args \in Typed :
    /\ Start(s, args) /\ args[1] = "route"
    /\ \/ /\ Len(args) = 6 /\ args[2] = "add"
          /\ IF (\A n \in 3 .. 5 : Address(args[n])) /\ args[6] \in Up
             THEN /\ run' = [run EXCEPT ![s] = [pc |-> "rtAdd", args |-> args, dev |-> args[6],
                                                n |-> CHOOSE i \in Slots(args[6]) : TRUE]]
                  /\ UNCHANGED log
             ELSE Result(args, SYSERR, FALSE) /\ UNCHANGED run
          /\ UNCHANGED rt
       \/ /\ Len(args) = 3 /\ args[2] = "del"
          /\ IF Address(args[3])
             THEN /\ rt' = [i \in DOMAIN rt |->
                             IF rt[i].used /\ rt[i].dst = Zero(args[3]) THEN Free ELSE rt[i]]
                  /\ Result(args, OK, rt' # rt)
             ELSE Result(args, SYSERR, FALSE) /\ UNCHANGED rt
          /\ UNCHANGED run
       \/ /\ Len(args) > 6 \/ Help(args)
          /\ Result(args, IF Help(args) THEN OK ELSE SYSERR, FALSE)
          /\ UNCHANGED <<rt, run>>
       \/ /\ Len(args) = 1
          /\ run' = [run EXCEPT ![s] = [pc |-> "list", args |-> args, n |-> 1, dev |-> ""]]
          /\ UNCHANGED <<rt, log>>
    /\ UNCHANGED <<netif, sys>>

route_add(s) ==
  /\ At(s, "rtAdd")
  /\ rt' = rtAdd(rt, Zero(run[s].args[3]), Zero(run[s].args[4]), Zero(run[s].args[5]), run[s].n)
  /\ log' = [log EXCEPT !.n = @ + 1,
               !.last = [args |-> run[s].args, changed |-> rt' # rt,
                         status |-> IF rt' = rt THEN SYSERR ELSE OK],
               !.raced = @ \/ netif[run[s].n] # run[s].dev]
  /\ Done(s)
  /\ UNCHANGED <<netif, sys>>

\* The listing looks at an entry, and prints ...
route_entry(s) ==
  /\ At(s, "list")
  /\ IF run[s].n > RT_NENTRY THEN Ended(s, 0, FALSE)
     ELSE /\ run' = IF rt[run[s].n].used THEN [run EXCEPT ![s].pc = "name"]
                    ELSE [run EXCEPT ![s].n = @ + 1]
          /\ UNCHANGED log
  /\ UNCHANGED <<netif, rt, sys>>

\* ... and then follows its pointer to the interface.
route_name(s) ==
  /\ At(s, "name")
  /\ log' = [log EXCEPT !.dangling = @ \/ rt[run[s].n].nif = 0]
  /\ run' = [run EXCEPT ![s].pc = "list", ![s].n = @ + 1]
  /\ UNCHANGED <<netif, rt, sys>>

Next ==
  \E s \in Shells :
    \/ show(s) \/ set(s) \/ xsh_netup(s) \/ xsh_netdown(s) \/ netDown(s)
    \/ xsh_route(s) \/ route_add(s) \/ route_entry(s) \/ route_name(s)

-----------------------------------------------------------------------------

TypeOK ==
  /\ \A i \in DOMAIN netif : netif[i] \in NetDevs \union {""}
  /\ \A i \in DOMAIN rt : rt[i].nif \in 0 .. NNETIF
  /\ \A s \in Shells : run[s].pc \in {"", "netDown", "rtAdd", "list", "name"}

\* A route leads to an interface that is up, so that rtSend() and the listing find
\* a device behind it -- unless netdown and another command of a second shell met
\* between the look at the table of interfaces and its use, or netDown() has cleared
\* the interface whose number is that of the receive threads (sixth of six).
RoutesLead ==
  ~log.raced => \A i \in DOMAIN rt :
    rt[i].used => netif[rt[i].nif] # "" \/ (log.wiped /\ rt[i].nif \in Wiped)

\* No device has two interfaces, however netup and netdown interleave.
OneInterface ==
  \A i, j \in DOMAIN netif : netif[i] = netif[j] /\ netif[i] # "" => i = j

\* A listing follows the pointer of an entry that was cleared behind its back only
\* when two shells are at work: then it is NULL.
ListingFollows == log.dangling => Cardinality(Shells) > 1

\* A command that reports an error, or that is asked for help, has changed nothing.
RefusedChangesNothing ==
  LET last == log.last IN
  /\ last.args # <<>> /\ Help(last.args) => ~last.changed
  /\ \/ last.status = SYSERR
     \/ last.status = 1 /\ last.args[1] \in {"led", "user", "telnetserver", "netup", "netdown"}
     => ~last.changed

\* No Telnet device is given to two servers; those for which there was none have
\* SYSERR for a device.
ServersApart ==
  \A m, n \in DOMAIN sys.servers :
    m # n /\ sys.servers[m] = sys.servers[n] => sys.servers[m] = SYSERR
=============================================================================
