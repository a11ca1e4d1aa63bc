------------------------------- MODULE Ip6Text -------------------------------
(***************************************************************************)
(* The text of IPv6 addresses (include/ip_address.h): ip6_t::from_str with *)
(* "::" and a dotted end, to_str with its two options, the mapping of IPv4 *)
(* addresses, and addr6_t::from_str ("[address]:port").                    *)
(*                                                                         *)
(* As in Ip4Text the bases, the byte and the number of groups are          *)
(* constants.  The look-ahead for "::" is the field `pending': a colon was *)
(* seen and the next character decides what it is.  result_hex[0 ..        *)
(* index_hex - 1] is the sequence result_hex, likewise result_dec.         *)
(***************************************************************************)
EXTENDS Texts, FiniteSets

CONSTANTS
  Groups,             \* 8
  DecBase, HexBase,   \* 10 and 16
  Octet,              \* values of a byte: 256
  PortMax,            \* 0xffff
  Numbers,            \* bound: the runs of digits a text is made of
  Sample,             \* bound: groups an address is constructed from
  MaxText, MaxAddr    \* bounds: characters of an address, and with a port

ASSUME BaseAssumption == DecBase \in Nat /\ HexBase \in Nat /\ 1 < DecBase /\ DecBase <= HexBase
ASSUME WidthAssumption == Octet \in Nat \ {0} /\ Groups \in Nat /\ Groups >= 4
ASSUME SampleAssumption == Sample \subseteq 0 .. Octet * Octet - 1
ASSUME BoundAssumption == PortMax \in Nat /\ MaxText \in Nat /\ MaxAddr \in Nat

Group == 0 .. Octet * Octet - 1
Ones == Octet * Octet - 1               \* 0xffff
Byte == 0 .. Octet - 1
Word == Octet * Octet * Octet * Octet   \* values of a uint32_t
Wide == Word * Word                     \* values of a size_t
Digit == 0 .. HexBase - 1
NoSeparator == -1                       \* SIZE_MAX

IPs == [1 .. Groups -> Group]
ZeroIP == [j \in 1 .. Groups |-> 0]

-----------------------------------------------------------------------------
(* ip6_t::from_str *)

Parsers == [state : {"start", "proc", "error"}, pending : BOOLEAN,
            result_hex : Seq(Group), result_dec : Seq(Byte),
            separator : NoSeparator .. Groups - 1,
            accum_hex : 0 .. Word - 1, accum_dec : 0 .. Word - 1]
NewParser == [state |-> "start", pending |-> FALSE, result_hex |-> <<>>, result_dec |-> <<>>,
              separator |-> NoSeparator, accum_hex |-> 0, accum_dec |-> 0]

Error(q) == [q EXCEPT !.state = "error", !.pending = FALSE]

\* The number in front of a colon becomes a group.
PushGroup(q) == [q EXCEPT !.result_hex = Append(@, q.accum_hex), !.accum_hex = 0, !.accum_dec = 0,
                          !.pending = FALSE]

\* A group may end here: no dotted part yet, the number fits, there is room.
GroupEnds(q) == q.result_dec = <<>> /\ q.accum_hex <= Ones /\ Len(q.result_hex) < Groups - 1

\* Mutant: a second "::" is taken for the first one.
DoubleColon_Again(q) ==
  IF ~ GroupEnds(q) THEN Error(q)
  ELSE LET r == IF q.state = "proc" THEN PushGroup(q) ELSE [q EXCEPT !.pending = FALSE]
       IN  [r EXCEPT !.separator = Len(r.result_hex)]

\* "::"
DoubleColon(q) ==
  IF q.separator # NoSeparator \/ ~ GroupEnds(q) THEN Error(q)
  ELSE LET r == IF q.state = "proc" THEN PushGroup(q) ELSE [q EXCEPT !.pending = FALSE]
       IN  [r EXCEPT !.separator = Len(r.result_hex)]

\* Mutant: the number of groups is not limited.
SingleColon_NoLimit(q) ==
  IF q.state # "proc" \/ q.result_dec # <<>> \/ q.accum_hex > Ones THEN Error(q) ELSE PushGroup(q)

\* ":"
SingleColon(q) == IF q.state # "proc" \/ ~ GroupEnds(q) THEN Error(q) ELSE PushGroup(q)

\* "."
ReadDot(q) ==
  IF q.state = "proc" /\ q.accum_dec < Octet /\ Len(q.result_dec) < 3
    THEN [q EXCEPT !.result_dec = Append(@, q.accum_dec), !.accum_dec = 0, !.accum_hex = 0]
    ELSE Error(q)

ReadDigit(q, c) ==
  IF c \in Digit
    THEN [q EXCEPT !.state = "proc", !.accum_hex = (@ * HexBase + c) % Word,
                   !.accum_dec = (@ * DecBase + c) % Word]
    ELSE Error(q)

\* A character behind everything that is already decided.
Settled(q, c) ==
  IF q.state = "error" THEN q
  ELSE IF c = Colon THEN [q EXCEPT !.pending = TRUE]
  ELSE IF c = Dot THEN ReadDot(q)
  ELSE ReadDigit(q, c)

\* One character of the loop.
Read(q, c) ==
  IF ~ q.pending THEN Settled(q, c)
  ELSE IF c = Colon THEN DoubleColon(q)
  ELSE Settled(SingleColon(q), c)

Pair(a, b) == a * Octet + b

\* All groups of a text that was read to its end.
AllGroups(q) ==
  IF q.result_dec = <<>> THEN Append(q.result_hex, q.accum_hex)
  ELSE (IF q.result_hex = <<>> THEN <<Ones>> ELSE q.result_hex)
         \o <<Pair(q.result_dec[1], q.result_dec[2]), Pair(q.result_dec[3], q.accum_dec)>>

\* Mutant: the missing groups are always filled in at the front.
Expand_Front(groups, separator) ==
  LET missing == Groups - Len(groups)
  IN  [j \in 1 .. Groups |-> IF j <= missing THEN 0 ELSE groups[j - missing]]

\* The zeros go where "::" stood, or to the front.
Expand(groups, separator) ==
  LET at == IF separator = NoSeparator THEN 0 ELSE separator
      missing == Groups - Len(groups)
  IN  [j \in 1 .. Groups |-> IF j <= at THEN groups[j]
                             ELSE IF j <= at + missing THEN 0 ELSE groups[j - missing]]

\* The end of the text.
AtEnd(q) == IF q.pending THEN SingleColon(q) ELSE q

Refused(q) ==
  \/ q.state = "error"
  \/ q.state = "start" /\ q.separator = NoSeparator
  \/ Len(q.result_dec) \notin {0, 3}
  \/ q.result_dec = <<>> /\ q.accum_hex > Ones
  \/ Len(q.result_dec) = 3 /\ q.accum_dec >= Octet

Finish(q) ==
  LET e == AtEnd(q)
  IN  IF Refused(e) THEN [ip |-> ZeroIP, success |-> FALSE]
      ELSE [ip |-> Expand(AllGroups(e), e.separator), success |-> TRUE]

\* One group too many in front of a dotted part: the code does not refuse it
\* (the test index_dec <= 6 looks at the wrong index) and what follows is
\* undefined: the object may be anything.
Undefined(q) == LET e == AtEnd(q) IN ~ Refused(e) /\ Len(AllGroups(e)) > Groups

from_str(s) == Finish(FoldLeft(Read, NewParser, s))

-----------------------------------------------------------------------------
(* IPv4 in IPv6, and ip6_t::to_str *)

FromIp4(b) == [j \in 1 .. Groups |-> CASE j = Groups - 2 -> Ones
                                       [] j = Groups - 1 -> Pair(b[1], b[2])
                                       [] j = Groups -> Pair(b[3], b[4])
                                       [] OTHER -> 0]

\* Mutant: the first groups are not looked at.
is_ip4_AnyFront(a) == a[Groups - 2] = Ones

is_ip4(a) == (\A j \in 1 .. Groups - 3 : a[j] = 0) /\ a[Groups - 2] = Ones

get_ip4(a) == <<a[Groups - 1] \div Octet, a[Groups - 1] % Octet, a[Groups] \div Octet, a[Groups] % Octet>>

Quad(a) ==
  LET n(i) == DigitsOf(get_ip4(a)[i], DecBase)
  IN  n(1) \o <<Dot>> \o n(2) \o <<Dot>> \o n(3) \o <<Dot>> \o n(4)

\* Mutant: every run of zero groups is shortened.
ZeroState_EveryRun(zero, group) ==
  IF group = 0 /\ zero # "off" THEN "found" ELSE IF group # 0 /\ zero = "found" THEN "start" ELSE zero

\* Only the first run of zero groups is shortened.
ZeroState(zero, group) ==
  IF group = 0 /\ zero = "start" THEN "found" ELSE IF group # 0 /\ zero = "found" THEN "end" ELSE zero

\* One group of the loop; `done' is its break behind the dotted part.
PrintGroup(a, embedded_ipv4, r, i) ==
  LET zero == ZeroState(r.zero, a[i])
      opens == zero = "found" /\ r.zero # "found"
      mapped == i = Groups - 3 /\ zero = "found" /\ a[i + 1] = Ones
      dotted == mapped \/ (embedded_ipv4 /\ i = Groups - 2)
  IN  [zero |-> zero, done |-> dotted,
       text |-> r.text
         \o (IF ~ opens THEN <<>> ELSE IF r.text = <<>> THEN <<Colon, Colon>> ELSE <<Colon>>)
         \o (IF zero = "found" THEN <<>>
             ELSE DigitsOf(a[i], HexBase) \o (IF i = Groups THEN <<>> ELSE <<Colon>>))
         \o (IF mapped THEN Append(DigitsOf(Ones, HexBase), Colon) ELSE <<>>)
         \o (IF dotted THEN Quad(a) ELSE <<>>)]

NewPrinter(reduction) == [text |-> <<>>, zero |-> IF reduction THEN "start" ELSE "off", done |-> FALSE]

to_str(a, reduction, embedded_ipv4) ==
  LET Step(r, i) == IF r.done THEN r ELSE PrintGroup(a, embedded_ipv4, r, i)
  IN  FoldLeft(Step, NewPrinter(reduction), [i \in 1 .. Groups |-> i]).text

-----------------------------------------------------------------------------
(* addr6_t::from_str *)

AddrRead(q, c) ==
  CASE q.state = "open" -> [q EXCEPT !.state = IF c = Open THEN "ipp" ELSE "error"]
    [] q.state = "ipp" ->
         IF c = Close THEN [q EXCEPT !.state = IF Len(q.ip) >= 2 THEN "close" ELSE "error"]
         ELSE IF c \in Digit \cup {Colon, Dot} THEN [q EXCEPT !.ip = Append(@, c)]
         ELSE [q EXCEPT !.state = "error"]
    [] q.state = "close" -> [q EXCEPT !.state = IF c = Colon THEN "portt" ELSE "error"]
    [] q.state = "portt" ->
         IF c \in 0 .. DecBase - 1 THEN [q EXCEPT !.accum = (@ * DecBase + c) % Wide]
         ELSE [q EXCEPT !.state = IF q.accum # 0 THEN "end" ELSE "error"]
    [] OTHER -> q

NewAddrParser == [state |-> "open", ip |-> <<>>, accum |-> 0]
EmptyAddr == [ip |-> ZeroIP, port |-> 0]

\* ip_length is set at the closing bracket: without it nothing is parsed.
AddrText(q) == IF q.state \in {"open", "ipp"} THEN <<>> ELSE q.ip

\* Mutant: a port that is out of range loses its high bits.
addr_from_str_PortWraps(s) ==
  LET q == FoldLeft(AddrRead, NewAddrParser, s)
      r == from_str(AddrText(q))
  IN  IF q.state = "error" THEN [addr |-> EmptyAddr, success |-> FALSE]
      ELSE [addr |-> [ip |-> r.ip, port |-> q.accum % (PortMax + 1)], success |-> r.success]

addr_from_str(s) ==
  LET q == FoldLeft(AddrRead, NewAddrParser, s)
      r == from_str(AddrText(q))
  IN  IF q.state = "error" \/ q.accum > PortMax THEN [addr |-> EmptyAddr, success |-> FALSE]
      ELSE [addr |-> [ip |-> r.ip, port |-> q.accum], success |-> r.success]

\* addr6_t::operator bool
AddrIsSet(a) == a.ip # ZeroIP /\ a.port # 0

-----------------------------------------------------------------------------
VARIABLES
  ip,     \* the object: what from_str leaves when `text' ends here, or constructed
  text,   \* characters given to from_str
  tail,   \* with `text' in brackets, the rest from the closing bracket on
  p       \* the automaton of ip6_t::from_str behind `text'

vars == <<ip, text, tail, p>>

Init == ip = ZeroIP /\ text = <<>> /\ tail = <<>> /\ p = NewParser

Construct(a) ==
  /\ text = <<>> /\ tail = <<>>
  /\ ip' = a
  /\ UNCHANGED <<text, tail, p>>

\* The digits a text ends with, and whether they may go on with c.
LastRun(s) == FoldLeft(LAMBDA r, c : IF c \in Digit THEN Append(r, c) ELSE <<>>, <<>>, s)
Continues(c) == c \in Digit => \E n \in Numbers : IsPrefix(Append(LastRun(text), c), n)

ReadAddress(c) ==
  /\ Len(text) < MaxText /\ tail = <<>> /\ p.state # "error" /\ Continues(c)
  /\ text' = Append(text, c)
  /\ p' = Read(p, c)
  /\ ip' \in IF Undefined(p') THEN [1 .. Groups -> Sample] ELSE {Finish(p').ip}
  /\ UNCHANGED tail

ReadTail(c) ==
  /\ text # <<>> /\ Len(text) + Len(tail) < MaxAddr
  /\ (tail = <<>>) <=> (c = Close)
  /\ tail' = Append(tail, c)
  /\ UNCHANGED <<ip, text, p>>

Next ==
  \/ \E a \in [1 .. Groups -> Sample] : Construct(a)
  \/ \E b \in [1 .. 4 -> Byte] : Construct(FromIp4(b))
  \/ \E c \in Digit \cup {Colon, Dot, Other} : ReadAddress(c)
  \/ \E c \in {0, 1, Close, Colon, Other} : ReadTail(c)

Spec == Init /\ [][Next]_vars

-----------------------------------------------------------------------------
(* Reference: what the comments of the class say a text means *)

\* The positions where "::" stands, and the items in front of the first one
\* and behind it.
Doubles(s) == {i \in 1 .. Len(s) - 1 : s[i] = Colon /\ s[i + 1] = Colon}
First(s) == IF Doubles(s) = {} THEN 0 ELSE CHOOSE i \in Doubles(s) : \A j \in Doubles(s) : i <= j
Items(s) == IF s = <<>> THEN <<>> ELSE SplitAt(s, Colon)
Before(s) == IF First(s) = 0 THEN Items(s) ELSE Items(SubSeq(s, 1, First(s) - 1))
Behind(s) == IF First(s) = 0 THEN <<>> ELSE Items(SubSeq(s, First(s) + 2, Len(s)))

IsQuad(item) == Dot \in Range(item)
Weight(items) == Len(items) + Cardinality({i \in DOMAIN items : IsQuad(items[i])})

\* An item that stands for a group or, at the end of the text, for two; the
\* code reads an empty number as 0 and letters in a dotted part by their value.
InRange(item) ==
  LET ns == SplitAt(item, Dot)
  IN  IF IsQuad(item) THEN Len(ns) = 4 /\ \A i \in 1 .. 4 : Value(ns[i], DecBase) < Octet
      ELSE Value(item, HexBase) <= Ones
IsWritten(item) ==
  \A n \in Range(SplitAt(item, Dot)) :
    n # <<>> /\ Range(n) \subseteq IF IsQuad(item) THEN 0 .. DecBase - 1 ELSE Digit
OnlyLast(items) == \A i \in DOMAIN items : IsQuad(items[i]) => i = Len(items)

Valid(s) ==
  LET all == Before(s) \o Behind(s)
  IN  /\ s # <<>> /\ Cardinality(Doubles(s)) <= 1
      /\ \A i \in DOMAIN all : IsWritten(all[i]) /\ InRange(all[i])
      /\ OnlyLast(all) /\ (First(s) # 0 => \A item \in Range(Before(s)) : ~ IsQuad(item))
      /\ \/ First(s) = 0 /\ Weight(all) = Groups
         \/ First(s) # 0 /\ Weight(all) < Groups
         \/ Len(all) = 1 /\ IsQuad(all[1])

GroupsOf(item) ==
  IF IsQuad(item)
    THEN LET n(i) == Value(SplitAt(item, Dot)[i], DecBase) IN <<Pair(n(1), n(2)), Pair(n(3), n(4))>>
    ELSE <<Value(item, HexBase)>>
Meaning(s) ==
  LET front == FlattenSeq([i \in DOMAIN Before(s) |-> GroupsOf(Before(s)[i])])
      back == FlattenSeq([i \in DOMAIN Behind(s) |-> GroupsOf(Behind(s)[i])])
      all == Before(s) \o Behind(s)
      lone == IF Len(all) = 1 /\ IsQuad(all[1]) THEN <<Ones>> ELSE <<>>
      zeros == [i \in 1 .. Groups - Len(front \o lone \o back) |-> 0]
  IN  IF First(s) = 0 THEN zeros \o lone \o front ELSE front \o zeros \o lone \o back

\* Texts no reading of the comments allows.  ":::", a colon at the end and a "::"
\* that stands for no group are left out: the code accepts them.
Malformed(s) ==
  LET all == Before(s) \o Behind(s)
  IN  \/ s = <<>> \/ Other \in Range(s)
      \/ s[1] = Colon /\ 1 \notin Doubles(s)
      \/ \E i, j \in Doubles(s) : i + 1 < j
      \/ \E i \in DOMAIN all : ~ InRange(all[i])
      \/ ~ OnlyLast(all) \/ (First(s) # 0 /\ \E item \in Range(Before(s)) : IsQuad(item))
      \/ Weight(all) > Groups

\* No number of the text is too large for a uint32_t.
Unwrapped(s) == \A item \in Range(Before(s) \o Behind(s)) :
                  Other \notin Range(item) =>
                    \A n \in Range(SplitAt(item, Dot)) : Value(n, HexBase) < Word

-----------------------------------------------------------------------------
(* Properties *)

\* The automaton writes only inside its arrays of eight groups and three
\* octets (one group is left for the end of the text), and keeps its
\* accumulators in 32 bits.
TypeOK ==
  /\ p \in Parsers /\ Len(p.result_hex) < Groups /\ Len(p.result_dec) <= 3
  /\ p.separator <= Len(p.result_hex)
  /\ text \in Seq(Int) /\ tail \in Seq(Int)

\* Every text of the documented forms (ip_address.h:333-354), with "::" in any
\* place or a dotted end, is accepted and gives the address it stands for.
ParsesEveryForm == Valid(text) => Finish(p) = [ip |-> Meaning(text), success |-> TRUE]

\* A text with a foreign character, a second "::", a number out of range, a
\* misplaced or incomplete dotted part or too many groups gives "::"
\* (ip_address.h:337), as long as no number wraps.
MalformedIsZero ==
  (Unwrapped(text) /\ Malformed(text) /\ ~ Undefined(p)) => Finish(p) = [ip |-> ZeroIP, success |-> FALSE]

\* Whatever the object holds, to_str with any options gives a text that
\* from_str reads back as the same address; but with both options an address
\* whose first six groups are zero comes out as "::x.x.x.x", which from_str
\* takes for an IPv4 address.
RoundTrip ==
  \A reduction, embedded \in BOOLEAN :
    (reduction /\ embedded => \E j \in 1 .. Groups - 2 : ip[j] # 0) =>
      from_str(to_str(ip, reduction, embedded)) = [ip |-> ip, success |-> TRUE]

\* An IPv4 address in IPv6 form, and no other with zeros in front, is printed
\* as "::ffff:x.x.x.x" with the octets get_ip4() gives (ip_address.h:575).
MappedIsDotted ==
  is_ip4(ip) <=> to_str(ip, TRUE, FALSE) = <<Colon, Colon>> \o DigitsOf(Ones, HexBase) \o <<Colon>> \o Quad(ip)

\* addr6_t: a text is accepted exactly when it is an accepted address of two
\* characters or more in brackets, alone or with a colon and a port up to
\* PortMax (0 when it is left out), and gives these two; what is refused tests
\* false, although the port may have been stored (ip_address.h:860-869).
AddrIsAddressAndPort ==
  LET r == addr_from_str(<<Open>> \o text \o tail)
      digits == DigitsFrom(tail, 3, DecBase)
      port == Value(digits, DecBase)
      good == /\ tail # <<>> /\ Len(text) >= 2 /\ Finish(p).success
              /\ Len(tail) > 1 => tail[2] = Colon
              /\ Len(tail) > 2 + Len(digits) => port # 0
              /\ port <= PortMax
  IN  (~ Undefined(p) /\ port < Wide) =>
        /\ r.success <=> good
        /\ good => r.addr = [ip |-> Finish(p).ip, port |-> port]
        /\ ~ good => ~ AddrIsSet(r.addr)

=============================================================================
