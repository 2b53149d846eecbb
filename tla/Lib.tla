-------------------------------- MODULE Lib --------------------------------
(***************************************************************************)
(* The C library (src/lib/libxc): strings, memory, atoi(), qsort() and     *)
(* formatted output.  A behaviour is one call: the functions on strings    *)
(* and memory give their result in one step, each next to a definition of  *)
(* what it is to give; qsort() runs step by step, for what its pointers do *)
(* on the way, and sprintf() by characters and directives of its format.   *)
(*                                                                         *)
(* A character is its number, 0 being the one that ends a string.  A       *)
(* string is the sequence before its 0; memory is a sequence of fixed      *)
(* length.  A long has W values.  W is a power of 16, and the largest long *)
(* has as many decimal digits as the largest unsigned one.                 *)
(***************************************************************************)
EXTENDS Integers, Sequences, FiniteSets

CONSTANTS
  Functions,       \* functions that are called
  Strings,         \* their arguments
  Numerals,
  Chars,
  Counts,
  Memories,
  Arrays,          \* what is sorted
  Prints,          \* calls of sprintf(): format and arguments
  Rubbish,         \* what may be on the stack when sprintf() is called
  W,               \* values of a long (2^32)
  CHUNK,           \* 1000000000
  D10, D8, D16, D2,   \* digits of a long (10, 11, 8, 32)
  STRLEN,          \* sizeof(string) in _doprnt() (20)
  MAXSTR           \* 80

VARIABLES
  call,            \* function and arguments: f, s, t, c, n
  res,             \* result: position or number i, and memory m
  qs,              \* qsort(): its array, pointers and stack
  pr               \* sprintf(): see Printing

vars == <<call, res, qs, pr>>

Nothing == [i |-> -9, m |-> <<>>]
Gives(i) == [i |-> i, m |-> <<>>]
Leaves(m) == [i |-> 0, m |-> m]

At(s, p) == IF p <= Len(s) THEN s[p] ELSE 0

-----------------------------------------------------------------------------
(* Strings: a pointer is a position from 1; 0 is NULL. *)

strnlen(s, len) ==
  LET loop[n \in 0 .. Len(s)] == IF At(s, n + 1) # 0 /\ n < len THEN loop[n + 1] ELSE n
  IN loop[0]

strchr(s, c) ==
  LET loop[p \in 1 .. Len(s) + 1] ==
        IF At(s, p) = c THEN p ELSE IF At(s, p) = 0 THEN 0 ELSE loop[p + 1]
  IN loop[1]

strrchr(s, c) ==
  LET loop[p \in 0 .. Len(s)] ==
        IF p = 0 THEN 0 ELSE IF s[p] = c THEN p ELSE loop[p - 1]
  IN IF c = 0 THEN Len(s) + 1 ELSE loop[Len(s)]

\* Only where the first characters agree are the others compared.
strstr(cs, ct) ==
  LET Agree[k \in 1 .. Len(ct) + 1] == \* how far the strings agree from p on
        [p \in 1 .. Len(cs) + 1 |->
           IF At(cs, p + k - 1) = 0 \/ At(ct, k) = 0 \/ At(cs, p + k - 1) # At(ct, k) THEN k
           ELSE Agree[k + 1][p]]
      loop[p \in 1 .. Len(cs) + 1] ==
        IF At(cs, p) = 0 THEN 0
        ELSE IF At(cs, p) = At(ct, 1) /\ At(ct, Agree[1][p]) = 0 THEN p
        ELSE loop[p + 1]
  IN loop[1]

strncmp(s1, s2, n) ==
  LET loop[k \in 0 .. n] ==
        IF k = n THEN 0
        ELSE IF At(s1, k + 1) # At(s2, k + 1) THEN At(s1, k + 1) - At(s2, k + 1)
        ELSE IF At(s1, k + 1) = 0 THEN 0
        ELSE loop[k + 1]
  IN loop[0]

\* Into memory m, from its beginning.
strncpy(m, s2, n) ==
  LET loop[k \in 0 .. n] ==
        IF k = 0 THEN [m |-> m, over |-> FALSE]
        ELSE LET c == IF loop[k - 1].over THEN 0 ELSE At(s2, k) IN
             [m |-> [loop[k - 1].m EXCEPT ![k] = c], over |-> c = 0]
  IN loop[n].m

\* The character after the n-th is copied, too, and then replaced.
strncat(m, s1, s2, n) ==
  LET first == Len(s1) + 1
      loop[k \in 0 .. Len(s2) + 1] ==
        IF k = 0 THEN [m |-> m, over |-> FALSE]
        ELSE IF loop[k - 1].over THEN loop[k - 1]
        ELSE LET c == At(s2, k) IN
             IF c # 0 /\ n - k < 0
             THEN [m |-> [loop[k - 1].m EXCEPT ![first + k - 1] = 0], over |-> TRUE]
             ELSE [m |-> [loop[k - 1].m EXCEPT ![first + k - 1] = c], over |-> c = 0]
  IN loop[Len(s2) + 1].m

-----------------------------------------------------------------------------
(* Memory *)

memcmp(m1, m2, n) ==
  LET loop[k \in 0 .. n] ==
        IF k = n THEN 0
        ELSE IF m1[k + 1] # m2[k + 1] THEN m1[k + 1] - m2[k + 1] ELSE loop[k + 1]
  IN loop[0]

\* Not n bytes are searched, but those before the first that is 0.
memchr(m, c, n) ==
  LET loop[p \in 1 .. Len(m) + 1] ==
        IF At(m, p) = 0 THEN 0 ELSE IF m[p] = c THEN p ELSE loop[p + 1]
  IN loop[1]

\* Byte by byte from the first one on; s and ct are places in the same memory.
memcpy(m, s, ct, n) ==
  LET loop[k \in 0 .. n] ==
        IF k = 0 THEN m ELSE [loop[k - 1] EXCEPT ![s + k - 1] = loop[k - 1][ct + k - 1]]
  IN loop[n]

memset(m, c, n) == [p \in DOMAIN m |-> IF p <= n THEN c ELSE m[p]]

bzero(m, len) == IF len <= 0 THEN m ELSE [p \in DOMAIN m |-> IF p <= len THEN 0 ELSE m[p]]

-----------------------------------------------------------------------------
(* Numbers; an int is as wide as a long. *)

TAB == 9
SPACE == 32
PERCENT == 37
STAR == 42
PLUS == 43
MINUS == 45
DOT == 46
ZERO == 48
Decimal == 48 .. 57

Signed(n) == IF n % W >= W \div 2 THEN (n % W) - W ELSE n % W

\* One sign may follow blanks; what is behind the digits is ignored.
atoi(s) ==
  LET first == CHOOSE p \in 1 .. Len(s) + 1 :
                 At(s, p) \notin {SPACE, TAB} /\ \A q \in 1 .. p - 1 : s[q] \in {SPACE, TAB}
      from == IF At(s, first) \in {MINUS, PLUS} THEN first + 1 ELSE first
      n[p \in from .. Len(s) + 1] ==
        IF p = from \/ s[p - 1] \notin Decimal THEN 0
        ELSE Signed(n[p - 1] * 10 + s[p - 1] - ZERO)
      stop == CHOOSE p \in from .. Len(s) + 1 :
                At(s, p) \notin Decimal /\ \A q \in from .. p - 1 : s[q] \in Decimal
  IN IF At(s, first) = MINUS THEN Signed(-n[stop]) ELSE n[stop]

-----------------------------------------------------------------------------

Idle == [pc |-> "idle", arr |-> <<>>, stack |-> <<>>, a |-> 1, l |-> 1, lp |-> 1, hp |-> 1,
         i |-> 1, j |-> 1, steps |-> 0]

\* Where sprintf() is in its format (i) and arguments (ap), what it put out, and
\* string[], which keeps what was converted last.
Printing == [pc |-> "idle", i |-> 1, ap |-> 1, out |-> <<>>, string |-> <<>>, over |-> FALSE]

Call(f, s, t, c, n) == [f |-> f, s |-> s, t |-> t, c |-> c, n |-> n]

Calls ==
  {Call("strnlen", s, <<>>, 0, n) : s \in Strings, n \in Counts}
  \union {Call(f, s, <<>>, c, 0) : f \in {"strchr", "strrchr"}, s \in Strings, c \in Chars}
  \union {Call("strstr", s, t, 0, 0) : s, t \in Strings}
  \union {Call(f, s, t, 0, n) : f \in {"strncmp", "strncpy", "strncat"}, s, t \in Strings,
                                n \in Counts}
  \union {Call("memcmp", s, t, 0, n) : s, t \in Memories, n \in Counts}
  \union {Call(f, s, <<>>, c, n) : f \in {"memchr", "memset", "bzero"}, s \in Memories,
                                   c \in Chars, n \in Counts}
  \union {Call("atoi", s, <<>>, 0, 0) : s \in Numerals}
  \union {Call("memcpy", s, <<p>>, q, n) : s \in Memories, p, q \in 1 .. 4, n \in Counts}

\* Those who call give no more bytes than there are.
Proper(x) ==
  /\ x.f \in {"memcmp", "memset", "bzero", "memchr"} => x.n <= Len(x.s)
  /\ x.f = "memcpy" => x.t[1] + x.n - 1 <= Len(x.s) /\ x.c + x.n - 1 <= Len(x.s)

\* Room for a string, and for more behind it.
Room(s) == [p \in 1 .. 8 |-> IF p <= Len(s) THEN s[p] ELSE IF p = Len(s) + 1 THEN 0 ELSE 7]

Init ==
  /\ res = Nothing
  /\ \/ /\ call \in {x \in Calls : x.f \in Functions /\ Proper(x)}
        /\ qs = Idle /\ pr = Printing
     \/ /\ "qsort" \in Functions
        /\ \E arr \in Arrays :
             /\ call = Call("qsort", arr, <<>>, 0, 0)
             /\ qs = [Idle EXCEPT !.pc = "start", !.arr = arr, !.l = Len(arr) + 1]
             /\ pr = Printing
     \/ /\ "sprintf" \in Functions
        /\ \E p \in Prints : call = Call("sprintf", p.fmt, p.args, 0, 0)
        /\ \E str \in Rubbish : pr = [Printing EXCEPT !.pc = "echo", !.string = str]
        /\ qs = Idle

Returned(x) ==
  CASE x.f = "strnlen" -> Gives(strnlen(x.s, x.n))
    [] x.f = "strchr" -> Gives(strchr(x.s, x.c))
    [] x.f = "strrchr" -> Gives(strrchr(x.s, x.c))
    [] x.f = "strstr" -> Gives(strstr(x.s, x.t))
    [] x.f = "strncmp" -> Gives(strncmp(x.s, x.t, x.n))
    [] x.f = "strncpy" -> Leaves(strncpy(Room(x.s), x.t, x.n))
    [] x.f = "strncat" -> Leaves(strncat(Room(x.s), x.s, x.t, x.n))
    [] x.f = "memcmp" -> Gives(memcmp(x.s, x.t, x.n))
    [] x.f = "memchr" -> Gives(memchr(x.s, x.c, x.n))
    [] x.f = "memset" -> Leaves(memset(x.s, x.c, x.n))
    [] x.f = "bzero" -> Leaves(bzero(x.s, x.n))
    [] x.f = "atoi" -> Gives(atoi(x.s))
    [] x.f = "memcpy" -> Leaves(memcpy(x.s, x.c, x.t[1], x.n))

return ==
  /\ res = Nothing /\ qs.pc = "idle" /\ pr.pc = "idle"
  /\ res' = Returned(call)
  /\ UNCHANGED <<call, qs, pr>>

-----------------------------------------------------------------------------
(* qsort(): qs1() sorts from a up to before l.  Elements from lp to hp are *)
(* equal; i goes up to them and j down.  Calls of qs1() inside of qs1() are *)
(* on the stack: what is left to do after they return.                     *)

qsexc(arr, i, j) == [arr EXCEPT ![i] = arr[j], ![j] = arr[i]]
qstexc(arr, i, j, k) == [arr EXCEPT ![i] = arr[k], ![k] = arr[j], ![j] = arr[i]]

Turn(q) == UNCHANGED <<call, res, pr>> /\ qs' = [q EXCEPT !.steps = @ + 1]

start ==
  /\ qs.pc = "start" /\ qs.l - qs.a > 1
  /\ LET mid == qs.a + (qs.l - qs.a) \div 2 IN
     Turn([qs EXCEPT !.pc = "for", !.hp = mid, !.lp = mid, !.i = qs.a, !.j = qs.l - 1])

return_qs1 ==
  /\ qs.pc = "start" /\ qs.l - qs.a <= 1
  /\ IF qs.stack = <<>> THEN Turn([Idle EXCEPT !.pc = "done", !.arr = qs.arr, !.steps = qs.steps])
     ELSE Turn([qs EXCEPT !.a = Head(qs.stack).a, !.l = Head(qs.stack).l, !.stack = Tail(@)])

go_up ==
  LET c == qs.arr[qs.i] - qs.arr[qs.lp] IN
  /\ qs.pc = "for"
  /\ IF qs.i >= qs.lp \/ c > 0 THEN Turn([qs EXCEPT !.pc = "loop"])
     ELSE IF c = 0 THEN Turn([qs EXCEPT !.arr = qsexc(@, qs.i, qs.lp - 1), !.lp = @ - 1])
     ELSE Turn([qs EXCEPT !.i = @ + 1])

go_down ==
  LET c == qs.arr[qs.hp] - qs.arr[qs.j] IN
  /\ qs.pc = "loop" /\ qs.j > qs.hp
  /\ IF c = 0 THEN Turn([qs EXCEPT !.arr = qsexc(@, qs.hp + 1, qs.j), !.hp = @ + 1])
     ELSE IF c < 0 THEN Turn([qs EXCEPT !.j = @ - 1])
     ELSE IF qs.i = qs.lp
     THEN Turn([qs EXCEPT !.arr = qstexc(@, qs.i, qs.hp + 1, qs.j), !.hp = @ + 1,
                          !.i = qs.lp + 1, !.lp = @ + 1])
     ELSE Turn([qs EXCEPT !.arr = qsexc(@, qs.i, qs.j), !.j = @ - 1, !.i = @ + 1, !.pc = "for"])

\* Nothing is left on the right: what i stopped at goes there, and all equal ones move.
move_over ==
  /\ qs.pc = "loop" /\ qs.j <= qs.hp /\ qs.i # qs.lp
  /\ Turn([qs EXCEPT !.arr = qstexc(@, qs.j, qs.lp - 1, qs.i), !.lp = @ - 1,
                     !.hp = @ - 1, !.j = qs.hp - 1, !.pc = "for"])

\* The smaller side is sorted first, by a call.
Rest(a, l) == [a |-> a, l |-> l]
divide ==
  /\ qs.pc = "loop" /\ qs.j <= qs.hp /\ qs.i = qs.lp
  /\ IF qs.lp - qs.a >= qs.l - qs.hp
     THEN Turn([qs EXCEPT !.pc = "start", !.stack = <<Rest(qs.a, qs.lp)>> \o @, !.a = qs.hp + 1])
     ELSE Turn([qs EXCEPT !.pc = "start", !.stack = <<Rest(qs.hp + 1, qs.l)>> \o @, !.l = qs.lp])

-----------------------------------------------------------------------------
(* Digits of numbers *)

DigitChar(n) == IF n < 10 THEN ZERO + n ELSE 97 - 10 + n
UpperChar(n) == IF n < 10 THEN ZERO + n ELSE 65 - 10 + n

\* num % 10 and num / 10 as C has them: towards 0.
Rem(num) == IF num < 0 THEN -((-num) % 10) ELSE num % 10
Quot(num) == IF num < 0 THEN -((-num) \div 10) ELSE num \div 10

\* Without zeros in front, but at least one digit.
Strip(temp) ==
  LET some == {k \in DOMAIN temp : temp[k] # ZERO} IN
  IF some = {} THEN <<ZERO>>
  ELSE SubSeq(temp, CHOOSE k \in some : \A m \in some : k <= m, Len(temp))

\* Digits of a negative number are characters before '0'.
_prtl10(num) ==
  LET q[k \in 0 .. D10] == IF k = 0 THEN num ELSE Quot(q[k - 1])
  IN Strip([k \in 1 .. D10 |-> ZERO + Rem(q[D10 - k])])

\* >> keeps the sign, and & takes the last bits.
Shifted(num, base, count) ==
  LET q[k \in 0 .. count] == IF k = 0 THEN num ELSE q[k - 1] \div base
  IN [k \in 1 .. count |-> q[count - k] % base]

\* The bits beyond the long are copies of its sign, and are masked.
_prtl8(num) ==
  LET temp == Shifted(num, 8, D8)
  IN Strip([k \in 1 .. D8 |-> DigitChar(IF k = 1 THEN temp[k] % (W \div 8 ^ (D8 - 1)) ELSE temp[k])])

_prtl16(num) == Strip([k \in 1 .. D16 |-> DigitChar(Shifted(num, 16, D16)[k])])
_prtX16(num) == Strip([k \in 1 .. D16 |-> UpperChar(Shifted(num, 16, D16)[k])])
_prtl2(num) == Strip([k \in 1 .. D2 |-> DigitChar(Shifted(num, 2, D2)[k])])

\* %u of a negative long: CHUNK is taken off until the number wraps to a positive one,
\* and is added to the first digit again.
Unsigned_digits(num) ==
  LET off[k \in 0 .. 9] == IF k = 0 THEN num ELSE Signed(off[k - 1] - CHUNK)
      digit1 == CHOOSE k \in 0 .. 9 : off[k] >= 0 /\ \A m \in 0 .. k - 1 : off[m] < 0
  IN [_prtl10(off[digit1]) EXCEPT ![1] = @ + digit1]

-----------------------------------------------------------------------------
(* sprintf(): _doprnt() *)

\* Number that starts at i, and what is behind it.
Number(fmt, i) ==
  LET stop == CHOOSE p \in i .. Len(fmt) + 1 :
                /\ At(fmt, p) \notin Decimal
                /\ \A q \in i .. p - 1 : fmt[q] \in Decimal
      n[p \in i .. stop] == IF p = i THEN 0 ELSE n[p - 1] * 10 + fmt[p - 1] - ZERO
  IN [n |-> n[stop], i |-> stop]

\* A number of the format or, for '*', of the arguments.
Width(fmt, args, i, ap) ==
  IF At(fmt, i) = STAR THEN [n |-> args[ap].n, i |-> i + 1, ap |-> ap + 1]
  ELSE [n |-> Number(fmt, i).n, i |-> Number(fmt, i).i, ap |-> ap]

\* The directive behind the '%' before i.
Directive(fmt, args, i, ap) ==
  LET left == At(fmt, i) = MINUS
      i1 == IF left THEN i + 1 ELSE i
      zero == At(fmt, i1) = ZERO
      min == Width(fmt, args, IF zero THEN i1 + 1 ELSE i1, ap)
      max == IF At(fmt, min.i) = DOT THEN Width(fmt, args, min.i + 1, min.ap)
             ELSE [n |-> 0, i |-> min.i, ap |-> min.ap]
  IN [left |-> left, fill |-> IF zero THEN ZERO ELSE SPACE, min |-> min.n, max |-> max.n,
      f |-> At(fmt, max.i), i |-> max.i + 1, ap |-> max.ap]

Char(letter) == CASE letter = "c" -> 99 [] letter = "s" -> 115 [] letter = "d" -> 100
                  [] letter = "u" -> 117 [] letter = "o" -> 111 [] letter = "X" -> 88
                  [] letter = "x" -> 120 [] letter = "b" -> 98
Known == {Char(f) : f \in {"c", "s", "d", "u", "o", "X", "x", "b"}}
null_text == <<40, 110, 117, 108, 108, 41>>

\* What the switch makes of the argument a.  A directive that is not known takes what
\* string[] holds.
Conversion(d, a, string) ==
  LET is(letter) == d.f = Char(letter)
      to(str, sign, fill, max) == [str |-> str, sign |-> sign, fill |-> fill, max |-> max]
  IN CASE is("c") -> to(IF a.n % 256 = 0 THEN <<>> ELSE <<a.n % 256>>, FALSE, SPACE, 0)
       [] is("s") -> to(IF a.null THEN null_text ELSE a.s, FALSE, SPACE, d.max)
       [] is("d") -> to(_prtl10(IF a.n < 0 THEN Signed(-a.n) ELSE a.n), a.n < 0, d.fill, d.max)
       [] is("u") -> to(Unsigned_digits(a.n), FALSE, d.fill, 0)
       [] is("o") -> to(_prtl8(a.n), FALSE, d.fill, 0)
       [] is("X") -> to(_prtX16(a.n), FALSE, d.fill, 0)
       [] is("x") -> to(_prtl16(a.n), FALSE, d.fill, 0)
       [] is("b") -> to(_prtl2(a.n), FALSE, d.fill, 0)
       [] OTHER -> to(string, FALSE, d.fill, d.max)

\* Fill, sign and text in their order.
Field(d, v) ==
  LET ok(n) == IF n > MAXSTR \/ n < 0 THEN 0 ELSE n
      length == IF ok(v.max) # 0 /\ Len(v.str) > ok(v.max) THEN ok(v.max) ELSE Len(v.str)
      leading == IF ok(d.min) = 0 THEN 0 ELSE ok(d.min) - length - (IF v.sign THEN 1 ELSE 0)
      pad == [k \in 1 .. leading |-> v.fill]
      sign == IF v.sign THEN <<MINUS>> ELSE <<>>
      text == SubSeq(v.str, 1, length)
  IN IF d.left THEN sign \o text \o pad
     ELSE IF v.fill = ZERO THEN sign \o pad \o text
     ELSE pad \o sign \o text

Put(p) == pr' = p /\ UNCHANGED <<call, res, qs>>

\* Echo characters, "%%" as one.
echo ==
  LET fmt == call.s IN
  /\ pr.pc = "echo" /\ pr.i <= Len(fmt)
  /\ \/ /\ fmt[pr.i] # PERCENT
        /\ Put([pr EXCEPT !.i = @ + 1, !.out = Append(@, fmt[pr.i])])
     \/ /\ fmt[pr.i] = PERCENT /\ At(fmt, pr.i + 1) = PERCENT
        /\ Put([pr EXCEPT !.i = @ + 2, !.out = Append(@, PERCENT)])

\* More digits than string[] has room for are written over what is behind it: nothing
\* is said of the call from there on.
directive ==
  LET fmt == call.s
      d == Directive(fmt, call.t, pr.i + 1, pr.ap)
      known == d.f \in Known
      v == Conversion(d, IF known THEN call.t[d.ap] ELSE <<>>, pr.string)
      inString == d.f # Char("s")
  IN /\ pr.pc = "echo" /\ pr.i <= Len(fmt)
     /\ fmt[pr.i] = PERCENT /\ At(fmt, pr.i + 1) # PERCENT /\ d.f # 0
     /\ IF inString /\ Len(v.str) + 1 > STRLEN THEN Put([pr EXCEPT !.pc = "overrun"])
        ELSE Put([pr EXCEPT !.i = d.i, !.ap = IF known THEN d.ap + 1 ELSE d.ap,
                            !.string = IF inString THEN v.str ELSE @,
                            !.out = @ \o (IF known THEN <<>> ELSE <<d.f>>) \o Field(d, v)])

\* The end of the format; inside of a directive, a '%' is put out.
finish ==
  LET fmt == call.s IN
  /\ pr.pc = "echo"
  /\ \/ pr.i > Len(fmt) /\ Put([pr EXCEPT !.pc = "done"])
     \/ /\ At(fmt, pr.i) = PERCENT /\ At(fmt, pr.i + 1) # PERCENT
        /\ Directive(fmt, call.t, pr.i + 1, pr.ap).f = 0
        /\ Put([pr EXCEPT !.pc = "done", !.out = Append(@, PERCENT)])

Next ==
  \/ return \/ start \/ return_qs1 \/ go_up \/ go_down \/ move_over \/ divide
  \/ echo \/ directive \/ finish

-----------------------------------------------------------------------------

TypeOK ==
  /\ call.f \in Functions
  /\ res.i \in Int
  /\ qs.pc \in {"idle", "start", "for", "loop", "done"}
  /\ pr.pc \in {"idle", "echo", "done", "overrun"}
  /\ pr.i \in 1 .. Len(call.s) + 1

First(n, s) == SubSeq(s, 1, IF n < Len(s) THEN n ELSE Len(s))
Least(ps) == IF ps = {} THEN 0 ELSE CHOOSE p \in ps : \A q \in ps : p <= q
Greatest(ps) == IF ps = {} THEN 0 ELSE CHOOSE p \in ps : \A q \in ps : p >= q
Before(s, t) == \E k \in 1 .. Len(s) + 1 : First(k - 1, s) = First(k - 1, t) /\ At(s, k) < At(t, k)

\* What the functions on strings give is what their names promise.  An empty string is
\* nowhere found by strstr(), though.
StringsRight ==
  LET s == call.s  t == call.t  n == call.n  c == call.c IN
  res # Nothing =>
    CASE call.f = "strnlen" -> res.i = Len(First(n, s))
      [] call.f = "strchr" -> res.i = Least({p \in 1 .. Len(s) + 1 : At(s, p) = c})
      [] call.f = "strrchr" -> res.i = Greatest({p \in 1 .. Len(s) + 1 : At(s, p) = c})
      [] call.f = "strstr" ->
           res.i = IF t = <<>> THEN 0
                   ELSE Least({p \in 1 .. Len(s) : SubSeq(s, p, Len(s)) # <<>>
                                 /\ First(Len(t), SubSeq(s, p, Len(s))) = t})
      [] call.f = "strncmp" ->
           /\ res.i = 0 <=> First(n, s) = First(n, t)
           /\ res.i < 0 <=> Before(First(n, s), First(n, t))
      [] OTHER -> TRUE

\* strncpy() writes n bytes, strncat() at most n and the end, and nothing behind them;
\* memcpy() copies, also onto a place that overlaps with a later one.  memchr() looks
\* at bytes before the first 0 however many it is to look at, so what it finds may lie
\* behind the last of them, and what lies behind a 0 is not found.
MemoryRight ==
  LET s == call.s  t == call.t  n == call.n  c == call.c  m == res.m IN
  res # Nothing =>
    CASE call.f = "strncpy" ->
           \A p \in DOMAIN m : m[p] = IF p <= n THEN At(t, p) ELSE Room(s)[p]
      [] call.f = "strncat" ->
           LET all == s \o First(n, t) IN
           \A p \in DOMAIN m : m[p] = IF p <= Len(all) + 1 THEN At(all, p) ELSE Room(s)[p]
      [] call.f = "memcmp" ->
           /\ res.i = 0 <=> First(n, s) = First(n, t)
           /\ res.i < 0 <=> Before(First(n, s), First(n, t))
      [] call.f = "memchr" ->
           /\ 0 \notin {s[p] : p \in 1 .. n} /\ c \in {s[p] : p \in 1 .. n}
                => res.i = Least({p \in 1 .. n : s[p] = c})
           /\ res.i # 0 => s[res.i] = c /\ \A p \in 1 .. res.i : s[p] # 0
      [] call.f = "memcpy" ->
           LET from == t[1] IN
           c <= from \/ c >= from + n =>
             \A p \in DOMAIN m :
               m[p] = IF p \in c .. c + n - 1 THEN s[from + p - c] ELSE s[p]
      [] call.f \in {"memset", "bzero"} ->
           \A p \in DOMAIN m : m[p] = IF p > n THEN s[p] ELSE IF call.f = "bzero" THEN 0 ELSE c
      [] OTHER -> TRUE

\* While qs1() partitions, what is below i is less than the equal ones, what is above j
\* is greater, and no pointer leaves its part of the array.
Partitioned ==
  qs.pc \in {"for", "loop"} =>
    /\ qs.a <= qs.i /\ qs.i <= qs.lp /\ qs.lp <= qs.hp /\ qs.hp <= qs.j /\ qs.j < qs.l
    /\ \A p \in qs.lp .. qs.hp : qs.arr[p] = qs.arr[qs.lp]
    /\ \A p \in qs.a .. qs.i - 1 : qs.arr[p] < qs.arr[qs.lp]
    /\ \A p \in qs.j + 1 .. qs.l - 1 : qs.arr[p] > qs.arr[qs.lp]

\* qsort() ends with the elements it was given, in order, after a number of steps
\* bounded by the square of theirs, and its stack grows with the logarithm only.
Occurs(x, arr) == Cardinality({p \in DOMAIN arr : arr[p] = x})
Sorts ==
  LET n == Len(qs.arr) IN
  /\ qs.steps <= n * n + 4 * n + 2
  /\ 2 ^ Len(qs.stack) <= n + 1
  /\ qs.pc = "done" =>
       /\ \A p \in 1 .. n - 1 : qs.arr[p] <= qs.arr[p + 1]
       /\ \A p \in DOMAIN qs.arr : Occurs(qs.arr[p], qs.arr) = Occurs(qs.arr[p], call.s)

\* What sprintf() puts out for one directive can be read back: it is the argument, with
\* as many characters as are asked for.  A negative number is as good as a positive one,
\* but for the least of all.  Zeros put behind the digits ("%-05d") change the number, and
\* so does a maximum that cuts off digits.  string[] has room for all digits but those of
\* %b.  The Prints are one directive between other characters.
Reads(base, text) ==
  LET val(c) == IF c \in Decimal THEN c - ZERO ELSE IF c >= 97 THEN c - 97 + 10 ELSE c - 65 + 10
      n[k \in 0 .. Len(text)] ==
        IF k = 0 THEN 0 ELSE IF text[k] = SPACE THEN n[k - 1] ELSE n[k - 1] * base + val(text[k])
  IN n[Len(text)]
Base(f) == CASE f = Char("o") -> 8 [] f \in {Char("X"), Char("x")} -> 16
             [] f = Char("b") -> 2 [] OTHER -> 10
PrintsRight ==
  LET before == CHOOSE p \in 1 .. Len(call.s) : \* where the directive begins
                  call.s[p] = PERCENT /\ \A q \in 1 .. p - 1 : call.s[q] # PERCENT
      d == Directive(call.s, call.t, before + 1, 1)
      behind == SubSeq(call.s, d.i, Len(call.s))
      text == SubSeq(pr.out, before, Len(pr.out) - Len(behind))
      a == call.t[d.ap]
  IN /\ pr.pc = "overrun" => d.f = Char("b") /\ a.n % W >= 2 ^ (STRLEN - 1)
     /\ pr.pc = "done" /\ PERCENT \notin {call.s[p] : p \in DOMAIN call.s} => pr.out = call.s
     /\ pr.pc = "done" /\ PERCENT \in {call.s[p] : p \in DOMAIN call.s} /\ d.f \in Known =>
          /\ First(before - 1, pr.out) = First(before - 1, call.s)
          /\ pr.out = First(before - 1, call.s) \o text \o behind
          /\ pr.ap = Len(call.t) + 1
          /\ d.min \in 0 .. MAXSTR => Len(text) >= d.min
          /\ d.f \notin {Char("c"), Char("s")} /\ d.max = 0 /\ ~(d.left /\ d.fill = ZERO) =>
               IF d.f = Char("d") THEN a.n # -(W \div 2) => atoi(text) = a.n
               ELSE Reads(Base(d.f), text) = a.n % W
          /\ d.f = Char("s") =>
               LET whole == IF a.null THEN null_text ELSE a.s
                   shown == IF d.max \in 1 .. MAXSTR THEN First(d.max, whole) ELSE whole
               IN /\ Len(text) > Len(shown) => Len(text) = d.min
                  /\ IF d.left THEN First(Len(shown), text) = shown
                     ELSE SubSeq(text, Len(text) - Len(shown) + 1, Len(text)) = shown

=============================================================================
