------------------------------- MODULE Ip4Text -------------------------------
(***************************************************************************)
(* The text of IPv4 addresses (include/ip_address.h): ip4_t::from_str and  *)
(* to_str, addr4_t::from_str ("address:port") and ip_prefix_t<v4>::from_str *)
(* ("address/length"), which both hand the text in front of their mark to  *)
(* ip4_t::from_str.                                                        *)
(*                                                                         *)
(* The bases and the width of a byte are constants, so that small texts    *)
(* reach every range check and the wrap-around of uint32_t.  The automaton *)
(* reads one character per step; the look-ahead for "0x" is two states of  *)
(* its own, "zero" (a number began with 0) and "zero_x".  The capital X of *)
(* "0X", which ip4_t reads and addr4_t does not, is left out.              *)
(***************************************************************************)
EXTENDS Texts

CONSTANTS
  DecBase, HexBase,   \* 10 and 16
  W, Octet,           \* bits of a byte and its values: 8 and 256
  PortMax,            \* 0xffff
  MaxText             \* bound: characters of a text

ASSUME BaseAssumption == DecBase \in Nat /\ HexBase \in Nat /\ 1 < DecBase /\ DecBase <= HexBase
ASSUME WidthAssumption == W \in Nat \ {0} /\ Octet \in Nat \ {0} /\ Octet = 2 ^ W
ASSUME BoundAssumption == PortMax \in Nat /\ MaxText \in Nat

Word == Octet * Octet * Octet * Octet   \* values of a uint32_t
Wide == Word * Word                     \* values of a size_t
max_length == 4 * W                     \* of a prefix

Decimal == 0 .. DecBase - 1
Hexadecimal == 0 .. HexBase - 1

Byte == 0 .. Octet - 1
IPs == [1 .. 4 -> Byte]
ZeroIP == [j \in 1 .. 4 |-> 0]

-----------------------------------------------------------------------------
(* ip4_t::from_str *)

\* enum { start, cont, hex, dec, error }: cont is left in the step that enters it.
Parsers == [state : {"start", "zero", "zero_x", "dec", "hex", "error"},
            result : [0 .. 2 -> Byte], octet : 0 .. 3, accum : 0 .. Word - 1]
NewParser == [state |-> "start", result |-> [j \in 0 .. 2 |-> 0], octet |-> 0, accum |-> 0]

\* Mutant: the number of dots is not limited.
Cont_AnyOctets(q) ==
  IF q.accum >= Octet THEN [q EXCEPT !.state = "error"]
  ELSE [state |-> "start", result |-> [q.result EXCEPT ![q.octet] = q.accum],
        octet |-> q.octet + 1, accum |-> 0]

\* Mutant: a number that does not fit loses its high bits.
Cont_Truncates(q) ==
  IF q.octet >= 3 THEN [q EXCEPT !.state = "error"]
  ELSE [state |-> "start", result |-> [q.result EXCEPT ![q.octet] = q.accum % Octet],
        octet |-> q.octet + 1, accum |-> 0]

\* if (state == cont): a dot ends a number that must fit an octet.
Cont(q) ==
  IF q.accum >= Octet \/ q.octet >= 3 THEN [q EXCEPT !.state = "error"]
  ELSE [state |-> "start", result |-> [q.result EXCEPT ![q.octet] = q.accum],
        octet |-> q.octet + 1, accum |-> 0]

\* A character inside a number; accum is a uint32_t.
InNumber(q, c, base, state) ==
  IF c \in 0 .. base - 1
    THEN [q EXCEPT !.state = state, !.accum = (@ * base + c) % Word]
  ELSE IF c = Dot THEN Cont(q)
  ELSE [q EXCEPT !.state = "error"]

\* One character of the loop.
Read(q, c) ==
  CASE q.state = "error" -> q
    [] q.state = "start" -> IF c \notin Decimal THEN [q EXCEPT !.state = "error"]
                            ELSE IF c = 0 THEN [q EXCEPT !.state = "zero"]
                            ELSE InNumber(q, c, DecBase, "dec")
    [] q.state = "zero" /\ c = Ex -> [q EXCEPT !.state = "zero_x"]
    [] q.state \in {"zero", "dec"} /\ c # Ex -> InNumber(q, c, DecBase, "dec")
    [] q.state = "dec" /\ c = Ex -> [q EXCEPT !.state = "error"]
    [] q.state \in {"zero_x", "hex"} -> InNumber(q, c, HexBase, "hex")

Weight == <<Octet * Octet * Octet, Octet * Octet, Octet, 1>>

\* Mutant: the least significant byte comes first.
FromNumber_Swapped(n) == [j \in 1 .. 4 |-> (n \div Weight[5 - j]) % Octet]

\* htonT: a number as bytes, the most significant one first.
FromNumber(n) == [j \in 1 .. 4 |-> (n \div Weight[j]) % Octet]

\* The end of the text: a lone number is the whole address; otherwise the last
\* number is the last octet and missing ones are zero.
Finish(q) ==
  IF q.state \in {"error", "start", "zero_x"} THEN [ip |-> ZeroIP, success |-> FALSE]
  ELSE IF q.octet = 0 THEN [ip |-> FromNumber(q.accum), success |-> TRUE]
  ELSE IF q.accum >= Octet THEN [ip |-> ZeroIP, success |-> TRUE]
  ELSE [ip |-> [j \in 1 .. 4 |-> IF j <= q.octet THEN q.result[j - 1]
                                 ELSE IF j < 4 THEN 0 ELSE q.accum],
        success |-> TRUE]

from_str(s) == Finish(FoldLeft(Read, NewParser, s))

OctetText(a, i) == DigitsOf(a[i], DecBase)   \* std::to_string of a byte

\* Mutant: zero octets are left out.
to_str_SkipsZeros(a) ==
  IF a[1] = 0 /\ a[2] = 0 THEN OctetText(a, 3) \o <<Dot>> \o OctetText(a, 4)
  ELSE OctetText(a, 1) \o <<Dot>> \o OctetText(a, 2) \o <<Dot>> \o OctetText(a, 3) \o <<Dot>> \o OctetText(a, 4)

\* The four octets with dots between.
to_str(a) == OctetText(a, 1) \o <<Dot>> \o OctetText(a, 2) \o <<Dot>> \o OctetText(a, 3) \o <<Dot>> \o OctetText(a, 4)

-----------------------------------------------------------------------------
(* addr4_t::from_str *)

\* One character: n characters were read, ip_length of them before the colon.
AddrRead(q, c) ==
  CASE q.done -> q
    [] ~ q.done /\ q.ip_length = 0 ->
         IF c = Colon THEN [q EXCEPT !.ip_length = q.n, !.n = q.n + 1]
         ELSE IF c \in Hexadecimal \cup {Ex, Dot} THEN [q EXCEPT !.n = @ + 1]
         ELSE [q EXCEPT !.done = TRUE]
    [] ~ q.done /\ q.ip_length # 0 ->
         IF c \in Decimal THEN [q EXCEPT !.accum = (q.accum * DecBase + c) % Wide, !.n = q.n + 1]
         ELSE [q EXCEPT !.done = TRUE]

EmptyAddr == [ip |-> ZeroIP, port |-> 0]

\* Mutant: a port that is out of range loses its high bits.
addr_from_str_PortWraps(s) ==
  LET q == FoldLeft(AddrRead, [ip_length |-> 0, n |-> 0, accum |-> 0, done |-> FALSE], s)
      r == from_str(SubSeq(s, 1, q.ip_length))
  IN  [addr |-> [ip |-> r.ip, port |-> q.accum % (PortMax + 1)], success |-> r.success]

addr_from_str(s) ==
  LET q == FoldLeft(AddrRead, [ip_length |-> 0, n |-> 0, accum |-> 0, done |-> FALSE], s)
      r == from_str(SubSeq(s, 1, q.ip_length))
  IN  IF q.ip_length = 0 \/ q.accum = 0 \/ q.accum > PortMax
        THEN [addr |-> EmptyAddr, success |-> FALSE]
        ELSE [addr |-> [ip |-> r.ip, port |-> q.accum], success |-> r.success]

\* addr4_t::operator bool
AddrIsSet(a) == a.ip # ZeroIP /\ a.port # 0

-----------------------------------------------------------------------------
(* ip_prefix_t<v4>::from_str *)

\* mask_ip: byte j keeps the bits in front of position len.
Masked(a, len) ==
  [j \in 1 .. 4 |-> LET kept == len - W * (j - 1)
                    IN  IF kept >= W THEN a[j] ELSE IF kept <= 0 THEN 0
                        ELSE a[j] - (a[j] % (2 ^ (W - kept)))]

\* The digits behind the slash, into a uint32_t, up to something else.
LengthRead(q, c) ==
  IF q.done \/ c \notin Decimal THEN [q EXCEPT !.done = TRUE]
  ELSE [accum |-> (q.accum * DecBase + c) % Word, has_digits |-> TRUE, done |-> FALSE]

EmptyPrefix == [ip |-> ZeroIP, length |-> 0]

\* Mutant: a length above max_length is accepted.
prefix_from_str_AnyLength(s) ==
  LET at == SelectInSeq(s, LAMBDA c : c = Slash)
      r == from_str(IF at = 0 THEN s ELSE SubSeq(s, 1, at - 1))
      q == FoldLeft(LengthRead, [accum |-> 0, has_digits |-> FALSE, done |-> FALSE],
                    SubSeq(s, at + 1, Len(s)))
  IN  IF at = 0 THEN [prefix |-> [ip |-> r.ip, length |-> max_length], success |-> r.success]
      ELSE [prefix |-> [ip |-> Masked(r.ip, q.accum), length |-> q.accum], success |-> r.success]

prefix_from_str(s) ==
  LET at == SelectInSeq(s, LAMBDA c : c = Slash)
      r == from_str(IF at = 0 THEN s ELSE SubSeq(s, 1, at - 1))
      q == FoldLeft(LengthRead, [accum |-> 0, has_digits |-> FALSE, done |-> FALSE],
                    SubSeq(s, at + 1, Len(s)))
  IN  IF ~ r.success \/ (at # 0 /\ (~ q.has_digits \/ q.accum > max_length))
        THEN [prefix |-> EmptyPrefix, success |-> FALSE]
      ELSE IF at = 0 THEN [prefix |-> [ip |-> r.ip, length |-> max_length], success |-> TRUE]
      ELSE [prefix |-> [ip |-> Masked(r.ip, q.accum), length |-> q.accum], success |-> TRUE]

-----------------------------------------------------------------------------
(* A text comes in: an address, and behind it a colon with a port or a slash *)
(* with a length.  It is not read on once its address has failed.          *)

VARIABLES
  text,   \* the address part
  tail,   \* the part from the colon or slash on
  p       \* the automaton of ip4_t::from_str behind `text'

vars == <<text, tail, p>>

Init == text = <<>> /\ tail = <<>> /\ p = NewParser

Room == Len(text) + Len(tail) < MaxText

ReadAddress(c) ==
  /\ Room /\ tail = <<>> /\ p.state # "error"
  /\ text' = Append(text, c)
  /\ p' = Read(p, c)
  /\ UNCHANGED tail

ReadTail(c) ==
  /\ Room
  /\ (tail = <<>>) <=> (c \in {Colon, Slash})
  /\ tail' = Append(tail, c)
  /\ UNCHANGED <<text, p>>

Next ==
  \/ \E c \in Hexadecimal \cup {Dot, Ex, Other} : ReadAddress(c)
  \/ \E c \in Decimal \cup {Colon, Slash, Other} : ReadTail(c)

Spec == Init /\ [][Next]_vars

-----------------------------------------------------------------------------
(* Reference: what the comments of the class say a text means *)

Pieces(s) == SplitAt(s, Dot)
IsHex(s) == Len(s) > 1 /\ s[1] = 0 /\ s[2] = Ex
NumberDigits(s) == IF IsHex(s) THEN SubSeq(s, 3, Len(s)) ELSE s
Base(s) == IF IsHex(s) THEN HexBase ELSE DecBase
IsNumber(s) == NumberDigits(s) # <<>> /\ Range(NumberDigits(s)) \subseteq 0 .. Base(s) - 1
NumberValue(s) == Value(NumberDigits(s), Base(s))

\* "0x" with no digit behind it, which the code takes for 0 in front of a dot.
IsBareHex(s) == s = <<0, Ex>>

Written(s) == \A j \in DOMAIN Pieces(s) :
                IsNumber(Pieces(s)[j]) \/ (j < Len(Pieces(s)) /\ IsBareHex(Pieces(s)[j]))
Valid(s) ==
  LET ps == Pieces(s)
  IN  /\ Len(ps) <= 4 /\ Written(s)
      /\ \A j \in DOMAIN ps : NumberValue(ps[j]) < IF Len(ps) = 1 THEN Word ELSE Octet

\* No number of the text is too large for a uint32_t.
Unwrapped(s) == Written(s) => \A j \in DOMAIN Pieces(s) : NumberValue(Pieces(s)[j]) < Word

\* operator uint32_t
ToNumber(a) == Value(<<a[1], a[2], a[3], a[4]>>, Octet)

Means(a, s) ==
  LET ps == Pieces(s)
      last == NumberValue(ps[Len(ps)])
  IN  IF Len(ps) = 1 THEN ToNumber(a) = last
      ELSE a = [j \in 1 .. 4 |-> IF j < Len(ps) THEN NumberValue(ps[j]) ELSE IF j < 4 THEN 0 ELSE last]

-----------------------------------------------------------------------------
(* Properties *)

\* The automaton writes only inside its array of three octets and keeps its
\* accumulator in 32 bits.
TypeOK == p \in Parsers /\ text \in Seq(Int) /\ tail \in Seq(Int)

\* Every text of one to four numbers, decimal or hexadecimal and in range, is
\* accepted with the address the comment describes (ip_address.h:106-110).
ParsesEveryForm == Valid(text) => Finish(p).success /\ Means(Finish(p).ip, text)

\* to_str and from_str are inverse on whatever a text was read as.
RoundTrip == from_str(to_str(Finish(p).ip)) = [ip |-> Finish(p).ip, success |-> TRUE]

\* Any other text gives 0.0.0.0 (ip_address.h:111), as long as no number wraps.
MalformedIsZero == (Unwrapped(text) /\ ~ Valid(text)) => Finish(p).ip = ZeroIP

Whole == text \o tail

\* The decimal number behind the mark, up to the first character that is no digit.
TailValue == Value(DigitsFrom(tail, 2, DecBase), DecBase)

\* addr4_t: a text is accepted exactly when it is an accepted address, a colon
\* and a port between 1 and PortMax (in fewer than 64 bits), and gives these two;
\* what is refused tests false, although the port may have been stored
\* (ip_address.h:733-741).
AddrIsAddressAndPort ==
  LET r == addr_from_str(Whole)
      good == /\ text # <<>> /\ tail # <<>> /\ tail[1] = Colon
              /\ Finish(p).success /\ TailValue \in 1 .. PortMax
  IN  TailValue < Wide =>
        /\ r.success <=> good
        /\ good => r.addr = [ip |-> Finish(p).ip, port |-> TailValue]
        /\ ~ good => ~ AddrIsSet(r.addr)

\* ip_prefix_t: a length is taken as it is written (below 2^32), the address is
\* masked by it, and a refused text leaves the empty prefix (ip_address.h:1093).
PrefixIsNetwork ==
  LET r == prefix_from_str(Whole)
      slash == tail # <<>> /\ tail[1] = Slash
      digits == Len(tail) > 1 /\ tail[2] \in Decimal
  IN  IF tail = <<>>
        THEN r.success = Finish(p).success /\ (r.success => r.prefix.length = max_length)
      ELSE /\ (slash /\ TailValue < Word) =>
                (r.success <=> Finish(p).success /\ digits /\ TailValue <= max_length)
           /\ r.success => /\ r.prefix.length <= max_length
                           /\ r.prefix.ip = Masked(Finish(p).ip, r.prefix.length)
           /\ ~ r.success => r.prefix = EmptyPrefix

=============================================================================
